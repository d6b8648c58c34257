------------------------- MODULE PythonBridgeProofs -------------------------
(***************************************************************************)
(* What a call of the Python extension raises is true (RaisedIsTruthful),  *)
(* a call that returns a count has done all it was asked for               *)
(* (OkIsComplete), and the objects it shows are true to the archive        *)
(* (SnapshotsAreFaithful), for any number of threads, whatever they call,  *)
(* however long the members are and whoever shares a token with whom.      *)
(*                                                                         *)
(* The invariants say of every thread what its step says of it: a step of  *)
(* one thread touches nothing of another but the tokens, and those only    *)
(* grow.  What is true of the exception is already true of the error the   *)
(* core returned, seen through CallResult, and, for an entry sink, of the  *)
(* answer that finish_callback has yet to look at (IInv).  What Python has *)
(* been given is at every moment what the callbacks of the plan in front   *)
(* of the current one give, and the part of that one that write_all has    *)
(* placed (CompleteInv).  What it is shown comes from the entries of its   *)
(* own call (SnapshotsInv), so that the rest is about the operators that   *)
(* make a snapshot of one.                                                 *)
(***************************************************************************)
EXTENDS PythonBridge, NaturalLemmas, SequenceTheorems

\* What the result r of a call of t must be to be true.
Truth(t, r) ==
  /\ refusal[t].k = "raise" => r = refusal[t].e
  /\ r.k = "exception" /\ r.class = "CancelledError" => TokenOf(t) \in asked
  /\ refusal[t] = Stop =>
       /\ r.k = "exception" /\ r.class = "CancelledError"
       /\ TokenOf(t) \in cancelled
  /\ r.k = "exception" /\ r.format # "none" =>
       r.format = IF call[t].method.on = "stream" THEN "lz4" ELSE call[t].method.on

\* An exception that Python code raised, or the binding in its name.
IsPythonError(e) ==
  e.k = "exception" /\ e.class # "CancelledError" /\ e.format = "none"

\* finish_callback's thread holds the answer that was given.
AnswerInv(t) ==
  \/ answer[t] = Go /\ refusal[t] = Nothing
  \/ answer[t] = Stop /\ refusal[t] = Stop /\ TokenOf(t) \in asked
  \/ /\ answer[t].k = "raise" /\ IsPythonError(answer[t].e)
     /\ refusal[t] = answer[t]

ThreadInv(t) ==
  /\ RefusalIsLast(t)
  /\ pc[t] = "finish" => AnswerInv(t)
  /\ pc[t] = "return" => Truth(t, CallResult(outcome[t], call[t].method.label))
  /\ pc[t] = "done" => Truth(t, result[t])

\* Every thread has a local state, and a call.
LocalsOK ==
  /\ call \in Programs
  /\ DOMAIN pc = Threads /\ DOMAIN answer = Threads /\ DOMAIN outcome = Threads
  /\ DOMAIN result = Threads /\ DOMAIN refusal = Threads

IInv ==
  /\ LocalsOK
  /\ cancelled \subseteq asked
  /\ \A t \in Threads : ThreadInv(t)

\* What a step of thread t leaves alone: everything of the other threads; and
\* no token is ever taken back.
Local(t) ==
  /\ LocalsOK' /\ call' = call
  /\ cancelled \subseteq cancelled' /\ asked \subseteq asked'
  /\ cancelled' \subseteq asked'
  /\ \A u \in Threads \ {t} :
       /\ pc'[u] = pc[u] /\ answer'[u] = answer[u] /\ outcome'[u] = outcome[u]
       /\ result'[u] = result[u] /\ refusal'[u] = refusal[u]
(***************************************************************************)
(* How far a call has come: of the plan of call c, what the callbacks in    *)
(* front of the i-th hand out, begin and finish.                            *)
(***************************************************************************)

\* How many callbacks extract_entries_to makes.
CallsOf(c) == CallsBefore(c, Len(c.entries) + 1)
\* Which callback of its entry the i-th is.
TurnOf(c, i) == i - CallsBefore(c, EntryOf(c, i))

Start(c, i) ==
  CASE c.method.does = "all" ->
         IF i > CallsOf(c) THEN PlanBytes(c)
         ELSE SizeBefore(c, EntryOf(c, i)) + IF TurnOf(c, i) = 1 THEN 0 ELSE TurnOf(c, i) - 2
    [] c.method.does \in {"one", "member"} -> Min2(MaxChunk * (i - 1), PlanBytes(c))
    [] OTHER -> 0

Begun(c, i) ==
  IF c.method.does # "all" THEN 0
  ELSE IF i > CallsOf(c) THEN Len(c.entries)
  ELSE IF TurnOf(c, i) = 1 THEN EntryOf(c, i) - 1 ELSE EntryOf(c, i)
Ended(c, i) ==
  IF c.method.does # "all" THEN 0
  ELSE IF i > CallsOf(c) THEN Len(c.entries) ELSE EntryOf(c, i) - 1

Indices(c, n) == [k \in 1 .. n |-> c.entries[k].index]

\* Python has been given what the callbacks in front of the i-th give, and n
\* bytes more.
Heard(t, i, n) == received[t] = Numbers(0, Start(call[t], i) + n)
BeginsOf(c) == {SinkFor(c.method.label, c.entries[k]).begin_entry : k \in DOMAIN c.entries}
Met(t, i) ==
  /\ told[t] \in Seq(BeginsOf(call[t])) /\ Len(told[t]) = Begun(call[t], i)
  /\ [k \in DOMAIN told[t] |-> told[t][k].entry.index] = Indices(call[t], Begun(call[t], i))
  /\ finished[t] = Indices(call[t], Ended(call[t], i))

\* What a call that returned n has done.
Complete(t, n) ==
  /\ refusal[t] = Nothing
  /\ received[t] = Numbers(0, n)
  /\ call[t].method.does = "all" =>
       /\ [i \in DOMAIN told[t] |-> told[t][i].entry.index]
            = Indices(call[t], Len(call[t].entries))
       /\ finished[t] = Indices(call[t], Len(call[t].entries))

Under == {"attach", "callback", "switched"}

ProgressInv(t) ==
  /\ at[t] \in 1 .. Len(Plan(call[t])) + 1 /\ offset[t] \in Nat
  /\ pc[t] = "python" => at[t] = 1
  /\ pc[t] \in {"python", "core"} =>
       offset[t] = 0 /\ Heard(t, at[t], 0) /\ Met(t, at[t])
  /\ pc[t] \in Under \cup {"finish"} => at[t] <= Len(Plan(call[t]))
  /\ pc[t] \in Under =>
       /\ offset[t] <= Len(Upcoming(t).bytes)
       /\ call[t].method.target # "writer" => offset[t] = 0
       /\ Heard(t, at[t], offset[t])
  /\ pc[t] = "attach" => Met(t, at[t])
  /\ pc[t] \in {"callback", "switched"} => Met(t, at[t] + 1)
  /\ pc[t] = "finish" /\ answer[t] = Go =>
       Heard(t, at[t] + 1, 0) /\ Met(t, at[t] + 1)
  /\ pc[t] = "return" =>
       LET r == CallResult(outcome[t], call[t].method.label) IN
       r.k = "returned" => Complete(t, r.n)
  /\ pc[t] = "done" /\ result[t].k = "returned" => Complete(t, result[t].n)

HistoriesOK ==
  /\ DOMAIN at = Threads /\ DOMAIN offset = Threads /\ DOMAIN received = Threads
  /\ DOMAIN told = Threads /\ DOMAIN finished = Threads

CompleteInv == HistoriesOK /\ \A t \in Threads : ProgressInv(t)

\* What a step of thread t leaves alone of these.
Apart(t) ==
  /\ HistoriesOK'
  /\ \A u \in Threads \ {t} :
       /\ at'[u] = at[u] /\ offset'[u] = offset[u] /\ received'[u] = received[u]
       /\ told'[u] = told[u] /\ finished'[u] = finished[u]
-----------------------------------------------------------------------------
(***************************************************************************)
(* Calls and their results                                                 *)
(***************************************************************************)

\* Every method names the format of its object, but for those of a stream; a
\* symbolic link's target is not asked of a stream.
LEMMA MethodLabels ==
  ASSUME NEW m \in Methods
  PROVE  /\ m.on # "stream" => m.label = m.on
         /\ m.does = "target" => m.on # "stream"
         /\ m.label \in {"7z", "zip", "cpio", "arj", "rpm", "deb"}
  <1> USE DEF Method, TakingBytes, Listing, StreamMethod, DebExtractTo,
              DebExtractMemberTo, DebMode
  <1>1. CASE m \in {LimitsOf, TokenCancel}
    BY <1>1 DEF LimitsOf, TokenCancel
  <1>2. CASE m \in ArchiveMethods
    BY <1>2 DEF ArchiveMethods, ArchiveOpenBytes, ArchiveOpenPath,
       ArchiveOpenVolumes, ArchiveEntries, ArchiveVerify, ArchiveExtractEntryTo,
       ArchiveStreamEntry, ArchiveExtractEntriesTo
  <1>3. CASE m \in StreamMethods
    BY <1>3 DEF StreamMethods, OpenStreamPath, OpenStreamBytes, StreamVerify,
       StreamExtractTo, StreamStream, StreamInfoOf
  <1>4. CASE m \in ZipMethods
    BY <1>4 DEF ZipMethods, OpenZipBytes, OpenZipPath, ZipEntries, ZipVerify,
       ZipExtractEntryTo, ZipStreamEntry, ZipExtractEntriesTo
  <1>5. CASE m \in CpioMethods
    BY <1>5 DEF CpioMethods, OpenCpioBytes, OpenCpioPath, CpioEntries,
       CpioSymlinkTarget, CpioVerify, CpioExtractEntryTo, CpioStreamEntry,
       CpioExtractEntriesTo
  <1>6. CASE m \in ArjMethods
    BY <1>6 DEF ArjMethods, OpenArjBytes, OpenArjPath, ArjEntries, ArjVerifyCall,
       ArjExtractEntryTo, ArjStreamEntry, ArjExtractEntriesTo
  <1>7. CASE m \in RpmMethods
    BY <1>7 DEF RpmMethods, OpenRpmBytes, OpenRpmPath, RpmEntries, RpmHeaders,
       RpmVerifyCall, RpmExtractEntryTo, RpmStreamEntry, RpmExtractEntriesTo
  <1>8. CASE m \in DebMethods
    BY <1>8 DEF DebMethods, OpenDebBytes, OpenDebPath, DebMembers, DebEntries,
       DebVerifyCall, DebExtractEntryTo, DebStreamEntry, DebExtractMember,
       DebStreamMember, DebExtractEntriesTo
  <1> QED
    BY <1>1, <1>2, <1>3, <1>4, <1>5, <1>6, <1>7, <1>8 DEF Methods

\* An exception of a class.
LEMMA ExceptionLemma ==
  ASSUME NEW class
  PROVE  /\ Exception(class).k = "exception" /\ Exception(class).class = class
         /\ Exception(class).format = "none" /\ Exception(class) # Nothing
  BY DEF Exception, Nothing

\* What an error of the core that no callback caused is raised as.
LEMMA CoreErrorLemma ==
  ASSUME NEW e \in DOMAIN ClassOf, NEW l
  PROVE  LET r == CallResult(CoreError(e), l) IN
         /\ r.k = "exception" /\ r.class = ClassOf[e]
         /\ r.class = "CancelledError" <=> e = "Cancelled"
         /\ r.format = IF e \in {"Format", "Checksum", "UnsupportedFeature"}
                       THEN l ELSE "none"
  <1>1. CallResult(CoreError(e), l) = MapCoreError(CoreError(e), l)
    BY DEF CallResult, CoreError
  <1>2. CoreError(e).cause = Nothing /\ CoreError(e).e = e /\ CoreError(e).format = "none"
    BY DEF CoreError
  <1>3. ClassOf[e] = "CancelledError" <=> e = "Cancelled"
    BY DEF ClassOf
  <1> QED
    BY <1>1, <1>2, <1>3, ExceptionLemma DEF MapCoreError, Exception

\* An exception of a callback comes back as it is.
LEMMA CallbackErrorLemma ==
  ASSUME NEW e, e.k = "exception", NEW l
  PROVE  CallResult(CallbackError(e), l) = e
  <1>1. CallbackError(e).k = "error" /\ CallbackError(e).cause = e
    BY DEF CallbackError, CoreError
  <1>2. e # Nothing
    BY DEF Nothing
  <1> QED
    BY <1>1, <1>2 DEF CallResult, MapCoreError

\* What the core's own errors are raised as: never as a cancellation, and with
\* the format of a stream only for a stream's errors.
LEMMA CoreErrorsLemma ==
  ASSUME NEW c, NEW o \in CoreErrors(c), NEW l
  PROVE  LET r == CallResult(o, l) IN
         /\ r.k = "exception" /\ r.class # "CancelledError"
         /\ r.format # "none" =>
              r.format = IF c.method.on = "stream" THEN "lz4" ELSE l
  <1> DEFINE streamKinds == {"StreamFormat", "StreamChecksum", "UnsupportedStreamFeature"}
             kinds == IF c.method.on = "stream"
                      THEN streamKinds \cup {"LimitExceeded", "Io", "MissingVolume"}
                      ELSE {"Format", "Checksum", "UnsupportedMethod",
                            "UnsupportedFeature", "LimitExceeded", "PasswordRequired",
                            "WrongPasswordOrCorrupt", "MissingVolume", "Io"}
             Own(e) == IF e \in streamKinds THEN "lz4" ELSE "none"
  <1>1. PICK e \in kinds : o = [CoreError(e) EXCEPT !.format = Own(e)]
    BY DEF CoreErrors
  <1>2. o.k = "error" /\ o.e = e /\ o.cause = Nothing /\ o.format = Own(e)
    BY <1>1 DEF CoreError
  <1>3. e \in DOMAIN ClassOf /\ ClassOf[e] # "CancelledError"
    BY DEF ClassOf
  <1>4. CallResult(o, l) =
          [Exception(ClassOf[e]) EXCEPT
             !.format = IF e \in {"Format", "Checksum", "UnsupportedFeature"}
                        THEN l ELSE Own(e)]
    BY <1>2 DEF CallResult, MapCoreError
  <1>5. /\ CallResult(o, l).k = "exception" /\ CallResult(o, l).class = ClassOf[e]
        /\ CallResult(o, l).format =
             IF e \in {"Format", "Checksum", "UnsupportedFeature"} THEN l ELSE Own(e)
    BY <1>4 DEF Exception
  <1> QED
    BY <1>3, <1>5
-----------------------------------------------------------------------------
(***************************************************************************)
(* Steps                                                                   *)
(***************************************************************************)

\* The first states.
LEMMA InitIInv == Init => IInv
  <1> SUFFICES ASSUME Init PROVE IInv
    OBVIOUS
  <1>1. LocalsOK /\ cancelled \subseteq asked
    BY DEF Init, LocalsOK
  <1>2. ASSUME NEW t \in Threads PROVE ThreadInv(t)
    BY DEF Init, ThreadInv, RefusalIsLast
  <1> QED
    BY <1>1, <1>2 DEF IInv

\* Another thread's step: the tokens may change under this one, but only from
\* not cancelled to cancelled.
LEMMA OtherThread ==
  ASSUME IInv, NEW t, Local(t), NEW u \in Threads \ {t}
  PROVE  ThreadInv(u)'
  <1>1. ThreadInv(u)
    BY DEF IInv
  <1>2. TokenOf(u)' = TokenOf(u)
    BY DEF TokenOf, Local
  <1> QED
    BY <1>1, <1>2 DEF Local, ThreadInv, RefusalIsLast, AnswerInv, Truth

\* A step of one thread that keeps its own invariant keeps all.
LEMMA StepOf ==
  ASSUME IInv, NEW t \in Threads, Local(t), ThreadInv(t)'
  PROVE  IInv'
  <1>1. \A u \in Threads \ {t} : ThreadInv(u)'
    BY OtherThread
  <1> QED
    BY <1>1 DEF IInv, Local

\* The core, or a callback under it, has returned: what the caller will get
\* of it is true.
LEMMA ReturnStep ==
  ASSUME IInv, NEW t \in Threads, NEW o, CoreReturns(t, o), Local(t),
         Truth(t, CallResult(o, call[t].method.label))'
  PROVE  IInv'
  <1>1. pc'[t] = "return" /\ outcome'[t] = o
    BY DEF CoreReturns, Goto, IInv, LocalsOK
  <1>2. call' = call
    BY DEF Local
  <1>3. ThreadInv(t)'
    BY <1>1, <1>2 DEF ThreadInv, RefusalIsLast
  <1> QED
    BY <1>3, StepOf


\* While the core or a callback runs nothing was refused.
LEMMA NotRefused ==
  ASSUME IInv, NEW t \in Threads, pc[t] \notin {"finish", "return", "done"}
  PROVE  refusal[t] = Nothing
  BY DEF IInv, ThreadInv, RefusalIsLast

\* A step after which the call is still under way.
LEMMA ContinueStep ==
  ASSUME IInv, NEW t \in Threads, Local(t), refusal'[t] = Nothing,
         pc'[t] \in {"core", "attach", "callback", "switched"}
  PROVE  IInv'
  <1>1. ThreadInv(t)'
    BY DEF ThreadInv, RefusalIsLast
  <1> QED
    BY <1>1, StepOf

\* With nothing refused a result is true if it is no exception, or one that
\* names the right format and is no unwanted cancellation.
LEMMA PlainTruth ==
  ASSUME NEW t \in Threads, NEW r, refusal'[t] = Nothing, call' = call,
         r.k = "exception" =>
           /\ r.class = "CancelledError" => (TokenOf(t) \in asked)'
           /\ r.format # "none" =>
                r.format = IF call[t].method.on = "stream" THEN "lz4" ELSE call[t].method.on
  PROVE  Truth(t, r)'
  <1>1. Nothing.k # "raise" /\ Nothing # Stop
    BY DEF Nothing, Stop
  <1> QED
    BY <1>1 DEF Truth

\* A call that returns without having been in the core.
LEMMA FinishStep ==
  ASSUME IInv, NEW t \in Threads, NEW r, Finish(t, r), Local(t), refusal'[t] = Nothing,
         r.k = "exception" =>
           /\ r.class # "CancelledError"
           /\ r.format # "none" =>
                r.format = IF call[t].method.on = "stream" THEN "lz4" ELSE call[t].method.on
  PROVE  IInv'
  <1>1. pc'[t] = "done" /\ result'[t] = r
    BY DEF Finish, Goto, IInv, LocalsOK
  <1>2. Truth(t, r)'
    BY PlainTruth DEF Local
  <1>3. ThreadInv(t)'
    BY <1>1, <1>2 DEF ThreadInv, RefusalIsLast
  <1> QED
    BY <1>3, StepOf

\* The method of a call is one of the binding's.
LEMMA MethodOf ==
  ASSUME IInv, NEW t \in Threads
  PROVE  /\ call[t].method \in Methods
         /\ call[t].method.on # "stream" => call[t].method.label = call[t].method.on
         /\ call[t].method.does = "target" => call[t].method.on # "stream"
  <1>1. call[t].method \in Methods
    BY BridgeAssumption DEF IInv, LocalsOK, CallOK
  <1> QED
    BY <1>1, MethodLabels

\* A snapshot is no exception.
LEMMA InspectStep ==
  ASSUME IInv, NEW t \in Threads, Inspect(t)
  PROVE  IInv'
  <1>1. Local(t) /\ refusal'[t] = Nothing
    BY NotRefused DEF Inspect, Finish, Goto, Local, LocalsOK, IInv, coreVars, history
  <1>2. Listed(call[t]).k \in {"header", "info", "limits", "members", "list"}
    <2>1. call[t].method.does \in {"list", "members", "header", "info", "limits"}
      BY DEF Inspect
    <2> QED
      BY <2>1 DEF Listed
  <1>3. Finish(t, Listed(call[t]))
    BY DEF Inspect
  <1> QED
    BY <1>1, <1>2, <1>3, FinishStep

\* symlink_target.
LEMMA SymlinkTargetStep ==
  ASSUME IInv, NEW t \in Threads, SymlinkTarget(t)
  PROVE  IInv'
  <1>1. Local(t) /\ refusal'[t] = Nothing
    BY NotRefused DEF SymlinkTarget, Finish, Goto, Local, LocalsOK, IInv, coreVars, history
  <1>2. call[t].method.label = call[t].method.on /\ call[t].method.on # "stream"
    BY MethodOf DEF SymlinkTarget
  <1>3. CASE Finish(t, CallResult(Returned(0), call[t].method.label))
    <2>1. CallResult(Returned(0), call[t].method.label).k = "returned"
      BY DEF CallResult, Returned
    <2> QED
      BY <1>1, <1>3, <2>1, FinishStep
  <1>4. CASE Finish(t, CallResult(CoreError("Format"), call[t].method.label))
    <2> DEFINE r == CallResult(CoreError("Format"), call[t].method.label)
    <2>1. r.class # "CancelledError" /\ r.format = call[t].method.label
      BY CoreErrorLemma DEF ClassOf
    <2> HIDE DEF r
    <2>2. Finish(t, r)
      BY <1>4 DEF r
    <2> QED
      BY <1>1, <1>2, <2>1, <2>2, FinishStep
  <1> QED
    BY <1>3, <1>4 DEF SymlinkTarget

\* Arguments are refused with exceptions of their own.
LEMMA EnterStep ==
  ASSUME IInv, NEW t \in Threads, Enter(t)
  PROVE  IInv'
  <1>1. Local(t) /\ refusal'[t] = Nothing
    BY NotRefused DEF Enter, Finish, Goto, Local, LocalsOK, IInv, coreVars, history
  <1>2. CASE ArgumentError(call[t]) = Nothing
    <2>1. pc'[t] = "core"
      BY <1>2 DEF Enter, Goto, IInv, LocalsOK
    <2> QED
      BY <1>1, <2>1, ContinueStep
  <1>3. CASE ArgumentError(call[t]) # Nothing
    <2> DEFINE r == ArgumentError(call[t])
               tooLarge == MapCoreError(CoreError("LimitExceeded"), call[t].method.label)
    <2>1. tooLarge.class # "CancelledError" /\ tooLarge.format = "none"
      BY DEF MapCoreError, CoreError, Exception, ClassOf
    <2>2. r \in {Exception("ValueError"), tooLarge}
      BY <1>3 DEF ArgumentError
    <2> HIDE DEF r, tooLarge
    <2>3. r.class # "CancelledError" /\ r.format = "none"
      BY <2>1, <2>2, ExceptionLemma
    <2>4. Finish(t, r)
      BY <1>3 DEF Enter, r
    <2> QED
      BY <1>1, <2>3, <2>4, FinishStep
  <1> QED
    BY <1>2, <1>3

\* PyCancellationToken::cancel.
LEMMA CancelTokenStep ==
  ASSUME IInv, NEW t \in Threads, CancelToken(t)
  PROVE  IInv'
  <1>1. Local(t) /\ refusal'[t] = Nothing
    BY NotRefused
    DEF CancelToken, RequestCancel, Finish, Goto, Local, LocalsOK, IInv, coreVars
  <1>2. Finish(t, Returned(0)) /\ Returned(0).k = "returned"
    BY DEF CancelToken, Returned
  <1> QED
    BY <1>1, <1>2, FinishStep

\* The core fails of itself.
LEMMA CoreFailsStep ==
  ASSUME IInv, NEW t \in Threads, CoreFails(t)
  PROVE  IInv'
  <1>1. Local(t) /\ refusal'[t] = Nothing /\ call' = call
    BY NotRefused DEF CoreFails, CoreReturns, Goto, Local, LocalsOK, IInv, history
  <1> DEFINE l == call[t].method.label
  <1>2. ASSUME NEW o \in CoreErrors(call[t]), CoreReturns(t, o)
        PROVE  IInv'
    <2>1. Truth(t, CallResult(o, l))'
      <3>1. Truth(t, CallResult(o, call[t].method.label))'
        BY <1>1, MethodOf, CoreErrorsLemma, PlainTruth
      <3> QED
        BY <3>1
    <2> QED
      BY <1>1, <1>2, <2>1, ReturnStep
  <1>3. CASE CoreReturns(t, Panicked)
    <2>1. CallResult(Panicked, l) = Exception("InternalError")
      BY DEF CallResult, Panicked
    <2>2. Truth(t, CallResult(Panicked, l))'
      BY <1>1, <2>1, ExceptionLemma, PlainTruth
    <2> QED
      BY <1>1, <1>3, <2>2, ReturnStep
  <1>4. CASE TokenOf(t) \in cancelled /\ CoreReturns(t, CoreError("Cancelled"))
    <2>1. (TokenOf(t) \in asked)'
      BY <1>1, <1>4 DEF TokenOf, Local, IInv
    <2>2. "Cancelled" \in DOMAIN ClassOf
      BY DEF ClassOf
    <2>3. Truth(t, CallResult(CoreError("Cancelled"), l))'
      BY <1>1, <2>1, <2>2, CoreErrorLemma, PlainTruth
    <2> QED
      BY <1>1, <1>4, <2>3, ReturnStep
  <1> QED
    BY <1>2, <1>3, <1>4 DEF CoreFails


\* The core makes its next callback, or is through.
LEMMA CoreGoesOnStep ==
  ASSUME IInv, NEW t \in Threads, CoreCalls(t) \/ CoreCompletes(t)
  PROVE  IInv'
  <1>1. Local(t) /\ refusal'[t] = Nothing /\ call' = call
    BY NotRefused
    DEF CoreCalls, CoreCompletes, CoreReturns, Goto, Local, LocalsOK, IInv, coreVars, history
  <1>2. CASE CoreCalls(t)
    <2>1. pc'[t] = "attach"
      BY <1>2 DEF CoreCalls, Goto, IInv, LocalsOK
    <2> QED
      BY <1>1, <2>1, ContinueStep
  <1>3. CASE CoreCompletes(t)
    <2> PICK o : o = Returned(PlanBytes(call[t]))
      OBVIOUS
    <2>1. CallResult(o, call[t].method.label).k = "returned"
      BY DEF CallResult, Returned
    <2>2. CoreReturns(t, o)
      BY <1>3 DEF CoreCompletes
    <2>3. Truth(t, CallResult(o, call[t].method.label))'
      BY <1>1, <2>1, PlainTruth
    <2> QED
      BY <1>1, <2>2, <2>3, ReturnStep
  <1> QED
    BY <1>2, <1>3

\* Attaching, switching threads and cancelling inside a callback.
LEMMA InterpreterStep ==
  ASSUME IInv, NEW t \in Threads,
         Attach(t) \/ Switch(t) \/ Resume(t) \/ CancelInside(t)
  PROVE  IInv'
  <1> USE DEF Attach, Switch, Resume, CancelInside, RequestCancel, Goto, coreVars, history
  <1>1. Local(t)
    BY DEF Local, LocalsOK, IInv
  <1>2. refusal'[t] = Nothing
    BY NotRefused
  <1>3. pc'[t] \in {"callback", "switched"}
    BY DEF IInv, LocalsOK
  <1> QED
    BY <1>1, <1>2, <1>3, ContinueStep

\* A callback raises, and the core hands the exception on.
LEMMA RaiseStep ==
  ASSUME IInv, NEW t \in Threads, NEW e, IsPythonError(e),
         Remember(t, Raise(e)), CoreReturns(t, CallbackError(e)), Local(t)
  PROVE  IInv'
  <1>1. refusal'[t] = Raise(e)
    BY DEF Remember, IInv, LocalsOK
  <1>2. Raise(e).k = "raise" /\ Raise(e).e = e /\ Raise(e) # Stop
    BY DEF Raise, Stop
  <1>3. CallResult(CallbackError(e), call[t].method.label)' = e
    BY CallbackErrorLemma DEF IsPythonError, Local
  <1>4. Truth(t, CallResult(CallbackError(e), call[t].method.label))'
    BY <1>1, <1>2, <1>3 DEF Truth, IsPythonError
  <1> QED
    BY <1>4, ReturnStep

\* A callback refuses otherwise, and the core has an error of its own for it.
LEMMA RefuseStep ==
  ASSUME IInv, NEW t \in Threads, NEW e \in {"Io", "MissingVolume", "LimitExceeded"},
         NEW why \in {[k |-> "zero"], [k |-> "missing"], [k |-> "large"]},
         Remember(t, why), CoreReturns(t, CoreError(e)), Local(t)
  PROVE  IInv'
  <1>1. refusal'[t] = why
    BY DEF Remember, IInv, LocalsOK
  <1>2. why.k # "raise" /\ why # Stop
    BY DEF Stop
  <1>3. e \in DOMAIN ClassOf
    BY DEF ClassOf
  <1>4. LET r == CallResult(CoreError(e), call[t].method.label)' IN
        r.k = "exception" /\ r.class # "CancelledError" /\ r.format = "none"
    BY <1>3, CoreErrorLemma
  <1>5. Truth(t, CallResult(CoreError(e), call[t].method.label))'
    BY <1>1, <1>2, <1>4 DEF Truth
  <1> QED
    BY <1>5, ReturnStep

\* What may be raised in a callback.
LEMMA PythonErrors ==
  ASSUME NEW t,
         NEW e \in {Exception("ValueError"), Exception("TypeError"), UserError(t)}
  PROVE  IsPythonError(e)
  BY DEF UserError, Exception, IsPythonError

\* writer.write() under write_all.
LEMMA WriterReturnsStep ==
  ASSUME IInv, NEW t \in Threads, WriterReturns(t)
  PROVE  IInv'
  <1> USE DEF WriterReturns, LeaveWriter
  <1>1. refusal[t] = Nothing /\ call' = call /\ result' = result /\ answer' = answer
    BY NotRefused
  <1>2. ASSUME NEW n, WriterCounts(t, n) PROVE IInv'
    <2>1. Local(t)
      BY <1>1, <1>2 DEF WriterCounts, Advance, Goto, Local, LocalsOK, IInv
    <2>2. pc'[t] \in {"attach", "core"} /\ refusal'[t] = Nothing
      BY <1>1, <1>2 DEF WriterCounts, Advance, Goto, IInv, LocalsOK
    <2> QED
      BY <2>1, <2>2, ContinueStep
  <1>3. ASSUME NEW e \in {Exception("ValueError"), Exception("TypeError"), UserError(t)},
               Raises(t, e)
        PROVE  IInv'
    <2>1. Local(t) /\ Remember(t, Raise(e)) /\ CoreReturns(t, CallbackError(e))
      BY <1>1, <1>3 DEF Raises, Remember, CoreReturns, Goto, Local, LocalsOK, IInv
    <2> QED
      BY <2>1, RaiseStep, PythonErrors
  <1>4. CASE /\ Remember(t, [k |-> "zero"])
             /\ CoreReturns(t, CoreError("Io"))
             /\ UNCHANGED <<cancelled, at, offset, received, asked>>
    <2>1. Local(t)
      BY <1>1, <1>4 DEF Remember, CoreReturns, Goto, Local, LocalsOK, IInv
    <2> QED
      BY <1>4, <2>1, RefuseStep
  <1> QED
    BY <1>2, <1>3, <1>4 DEF WriterRefuses

\* A callable: False cancels the token before it is raised as a cancellation.
LEMMA CallbackReturnsStep ==
  ASSUME IInv, NEW t \in Threads, CallbackReturns(t)
  PROVE  IInv'
  <1> USE DEF CallbackReturns
  <1>1. refusal[t] = Nothing /\ call' = call /\ result' = result /\ answer' = answer
    BY NotRefused
  <1>2. CASE Advance(t) /\ UNCHANGED <<cancelled, outcome, refusal, asked>>
    <2>1. Local(t)
      BY <1>1, <1>2 DEF Advance, Goto, Local, LocalsOK, IInv
    <2>2. pc'[t] = "core" /\ refusal'[t] = Nothing
      BY <1>1, <1>2 DEF Advance, Goto, IInv, LocalsOK
    <2> QED
      BY <2>1, <2>2, ContinueStep
  <1>3. CASE /\ RequestCancel(TokenOf(t)) /\ Remember(t, Stop)
             /\ CoreReturns(t, CallbackError(Exception("CancelledError")))
    <2>1. Local(t)
      BY <1>1, <1>3
      DEF RequestCancel, Remember, CoreReturns, Goto, Local, LocalsOK, IInv
    <2>2. refusal'[t] = Stop /\ (TokenOf(t) \in cancelled /\ TokenOf(t) \in asked)'
      BY <1>1, <1>3 DEF Remember, RequestCancel, TokenOf, IInv, LocalsOK
    <2> DEFINE r == Exception("CancelledError")
    <2>3. /\ CallResult(CallbackError(r), call[t].method.label)' = r
          /\ r.k = "exception" /\ r.class = "CancelledError" /\ r.format = "none"
      BY CallbackErrorLemma, ExceptionLemma
    <2>4. Stop.k # "raise"
      BY DEF Stop
    <2>5. Truth(t, CallResult(CallbackError(r), call[t].method.label))'
      BY <2>2, <2>3, <2>4 DEF Truth
    <2> QED
      BY <1>3, <2>1, <2>5, ReturnStep
  <1>4. ASSUME NEW e \in {Exception("TypeError"), UserError(t)}, Raises(t, e)
        PROVE  IInv'
    <2>1. Local(t) /\ Remember(t, Raise(e)) /\ CoreReturns(t, CallbackError(e))
      BY <1>1, <1>4 DEF Raises, Remember, CoreReturns, Goto, Local, LocalsOK, IInv
    <2> QED
      BY <2>1, RaiseStep, PythonErrors
  <1> QED
    BY <1>2, <1>3, <1>4

\* An entry sink answers; nothing follows of it yet.
LEMMA SinkReturnsStep ==
  ASSUME IInv, NEW t \in Threads, SinkReturns(t)
  PROVE  IInv'
  <1> USE DEF SinkReturns
  <1>1. refusal[t] = Nothing /\ call' = call /\ result' = result /\ outcome' = outcome
    BY NotRefused
  <1>2. PICK a \in {Go, Stop, Raise(Exception("TypeError")), Raise(UserError(t))} :
          /\ answer' = [answer EXCEPT ![t] = a]
          /\ IF a = Go THEN Accept(t, Upcoming(t).bytes) /\ UNCHANGED refusal
                       ELSE Remember(t, a) /\ UNCHANGED received
          /\ asked' = IF a = Stop THEN asked \cup {TokenOf(t)} ELSE asked
    OBVIOUS
  <1>3. Local(t)
    BY <1>1, <1>2 DEF Remember, Goto, Local, LocalsOK, IInv
  <1>4. pc'[t] = "finish" /\ answer'[t] = a
    BY <1>2 DEF Goto, IInv, LocalsOK
  <1>5. refusal'[t] = IF a = Go THEN Nothing ELSE a
    BY <1>1, <1>2 DEF Remember, IInv, LocalsOK
  <1>6. TokenOf(t)' = TokenOf(t)
    BY <1>1 DEF TokenOf
  <1>7. AnswerInv(t)'
    <2>1. CASE a = Go
      BY <1>4, <1>5, <2>1 DEF AnswerInv
    <2>2. CASE a = Stop
      <3>1. Stop # Go
        BY DEF Stop, Go
      <3> QED
        BY <1>2, <1>4, <1>5, <1>6, <2>2, <3>1 DEF AnswerInv
    <2>3. ASSUME NEW e \in {Exception("TypeError"), UserError(t)}, a = Raise(e)
          PROVE  AnswerInv(t)'
      <3>1. Raise(e).k = "raise" /\ Raise(e).e = e /\ Raise(e) # Go
        BY DEF Raise, Go
      <3>2. IsPythonError(e)
        BY PythonErrors
      <3> QED
        BY <1>4, <1>5, <2>3, <3>1, <3>2 DEF AnswerInv, IsPythonError
    <2> QED
      BY <2>1, <2>2, <2>3
  <1>8. ThreadInv(t)'
    BY <1>4, <1>7 DEF ThreadInv, RefusalIsLast
  <1> QED
    BY <1>3, <1>8, StepOf

\* finish_callback: the token may have been cancelled since the answer.
LEMMA FinishCallbackStep ==
  ASSUME IInv, NEW t \in Threads, FinishCallback(t)
  PROVE  IInv'
  <1> USE DEF FinishCallback
  <1>1. call' = call /\ refusal' = refusal /\ TokenOf(t)' = TokenOf(t)
    BY DEF TokenOf, history
  <1>2. AnswerInv(t)
    BY DEF IInv, ThreadInv
  <1>3. Go.k = "go" /\ Stop.k = "stop" /\ Go # Stop /\ Nothing.k = "none"
    BY DEF Go, Stop, Nothing
  <1>0. Local(t)
    <2>1. /\ cancelled \subseteq cancelled' /\ asked' = asked
          /\ cancelled' \subseteq asked
      BY <1>2, <1>3 DEF AnswerInv, IInv, history
    <2> QED
      BY <2>1 DEF CoreReturns, Advance, Goto, Local, LocalsOK, IInv, history
  <1>4. "Cancelled" \in DOMAIN ClassOf
    BY DEF ClassOf
  <1> DEFINE l == call[t].method.label
  <1>5. LET r == CallResult(CoreError("Cancelled"), l)' IN
        r.k = "exception" /\ r.class = "CancelledError" /\ r.format = "none"
    BY <1>4, CoreErrorLemma
  <1>6. CASE answer[t] = Go /\ TokenOf(t) \notin cancelled /\ Advance(t)
    <2>1. refusal'[t] = Nothing
      BY <1>1, <1>2, <1>3, <1>6 DEF AnswerInv
    <2>2. pc'[t] = "core"
      BY <1>6 DEF Advance, Goto, IInv, LocalsOK
    <2> QED
      BY <1>0, <2>1, <2>2, ContinueStep
  <1>7. CASE /\ answer[t] = Go /\ TokenOf(t) \in cancelled
             /\ CoreReturns(t, CoreError("Cancelled"))
    <2>1. refusal'[t] = Nothing
      BY <1>1, <1>2, <1>3, <1>7 DEF AnswerInv
    <2>2. (TokenOf(t) \in asked)'
      BY <1>0, <1>1, <1>7 DEF IInv, Local
    <2>3. Truth(t, CallResult(CoreError("Cancelled"), l))'
      BY <1>3, <1>5, <2>1, <2>2 DEF Truth
    <2> QED
      BY <1>0, <1>7, <2>3, ReturnStep
  <1>8. CASE /\ answer[t] = Stop /\ cancelled' = cancelled \cup {TokenOf(t)}
             /\ CoreReturns(t, CoreError("Cancelled"))
    <2>1. refusal'[t] = Stop /\ TokenOf(t) \in asked
      BY <1>1, <1>2, <1>3, <1>8 DEF AnswerInv
    <2>2. (TokenOf(t) \in asked /\ TokenOf(t) \in cancelled)'
      BY <1>0, <1>1, <1>8, <2>1 DEF Local
    <2>3. Truth(t, CallResult(CoreError("Cancelled"), l))'
      BY <1>3, <1>5, <2>1, <2>2 DEF Truth
    <2> QED
      BY <1>0, <1>8, <2>3, ReturnStep
  <1>9. CASE answer[t].k = "raise" /\ CoreReturns(t, CallbackError(answer[t].e))
    <2> DEFINE e == answer[t].e
    <2>1. refusal'[t] = answer[t] /\ IsPythonError(e)
      BY <1>1, <1>2, <1>3, <1>9 DEF AnswerInv
    <2>2. answer[t] # Stop
      BY <1>3, <1>9
    <2>3. CallResult(CallbackError(e), call[t].method.label) = e
      BY <2>1, CallbackErrorLemma DEF IsPythonError
    <2>4. pc'[t] = "return" /\ outcome'[t] = CallbackError(e)
      BY <1>9 DEF CoreReturns, Goto, IInv, LocalsOK
    <2>5. CallResult(outcome[t], call[t].method.label)' = e
      BY <1>1, <2>3, <2>4
    <2>6. Truth(t, CallResult(outcome[t], call[t].method.label))'
      BY <1>9, <2>1, <2>2, <2>5 DEF Truth, IsPythonError
    <2>7. ThreadInv(t)'
      BY <2>4, <2>6 DEF ThreadInv, RefusalIsLast
    <2> QED
      BY <1>0, <2>7, StepOf
  <1> QED
    BY <1>6, <1>7, <1>8, <1>9

\* A volume provider.
LEMMA ProviderReturnsStep ==
  ASSUME IInv, NEW t \in Threads, ProviderReturns(t)
  PROVE  IInv'
  <1> USE DEF ProviderReturns
  <1>1. Local(t) /\ refusal[t] = Nothing
    BY NotRefused
    DEF Remember, CoreReturns, Advance, Goto, Local, LocalsOK, IInv
  <1>2. CASE (Advance(t) \/ Goto(t, "core")) /\ UNCHANGED refusal
    <2>1. pc'[t] = "core" /\ refusal'[t] = Nothing
      BY <1>1, <1>2 DEF Advance, Goto, IInv, LocalsOK
    <2> QED
      BY <1>1, <2>1, ContinueStep
  <1>3. CASE Remember(t, [k |-> "missing"]) /\ CoreReturns(t, CoreError("MissingVolume"))
    BY <1>1, <1>3, RefuseStep
  <1>4. CASE Remember(t, [k |-> "large"]) /\ CoreReturns(t, CoreError("LimitExceeded"))
    BY <1>1, <1>4, RefuseStep
  <1>5. ASSUME NEW e \in {Exception("TypeError"), UserError(t)},
               Remember(t, Raise(e)), CoreReturns(t, CallbackError(e))
        PROVE  IInv'
    BY <1>1, <1>5, RaiseStep, PythonErrors
  <1> QED
    BY <1>2, <1>3, <1>4, <1>5

\* The result is what was true of the core's.
LEMMA ReattachStep ==
  ASSUME IInv, NEW t \in Threads, Reattach(t)
  PROVE  IInv'
  <1>1. Local(t)
    BY DEF Reattach, Finish, Goto, Local, LocalsOK, IInv, coreVars, history
  <1>2. Truth(t, CallResult(outcome[t], call[t].method.label))
    BY DEF Reattach, IInv, ThreadInv
  <1>3. /\ pc'[t] = "done"
        /\ result'[t] = CallResult(outcome[t], call[t].method.label)
    BY DEF Reattach, Finish, Goto, IInv, LocalsOK
  <1>4. UNCHANGED <<call, cancelled, asked, refusal>> /\ TokenOf(t)' = TokenOf(t)
    BY DEF Reattach, history, TokenOf
  <1>5. Truth(t, result[t])'
    BY <1>2, <1>3, <1>4 DEF Truth
  <1>6. ThreadInv(t)'
    BY <1>3, <1>5 DEF ThreadInv, RefusalIsLast
  <1> QED
    BY <1>1, <1>6, StepOf
-----------------------------------------------------------------------------
(***************************************************************************)
(* Plans                                                                   *)
(***************************************************************************)

\* How a method that calls back does it.
LEMMA MethodTargets ==
  ASSUME NEW m \in Methods
  PROVE  /\ m.does = "all" <=> m.target = "sink"
         /\ m.does \in {"one", "member"} <=> m.target \in {"writer", "callback"}
         /\ m.does = "all" => m.label \in {"7z", "zip", "cpio", "arj", "rpm", "deb"}
  <1> USE DEF Method, TakingBytes, Listing, StreamMethod, DebExtractTo,
              DebExtractMemberTo, DebMode
  <1>1. CASE m \in {LimitsOf, TokenCancel}
    BY <1>1 DEF LimitsOf, TokenCancel
  <1>2. CASE m \in ArchiveMethods
    BY <1>2 DEF ArchiveMethods, ArchiveOpenBytes, ArchiveOpenPath,
       ArchiveOpenVolumes, ArchiveEntries, ArchiveVerify, ArchiveExtractEntryTo,
       ArchiveStreamEntry, ArchiveExtractEntriesTo
  <1>3. CASE m \in StreamMethods
    BY <1>3 DEF StreamMethods, OpenStreamPath, OpenStreamBytes, StreamVerify,
       StreamExtractTo, StreamStream, StreamInfoOf
  <1>4. CASE m \in ZipMethods
    BY <1>4 DEF ZipMethods, OpenZipBytes, OpenZipPath, ZipEntries, ZipVerify,
       ZipExtractEntryTo, ZipStreamEntry, ZipExtractEntriesTo
  <1>5. CASE m \in CpioMethods
    BY <1>5 DEF CpioMethods, OpenCpioBytes, OpenCpioPath, CpioEntries,
       CpioSymlinkTarget, CpioVerify, CpioExtractEntryTo, CpioStreamEntry,
       CpioExtractEntriesTo
  <1>6. CASE m \in ArjMethods
    BY <1>6 DEF ArjMethods, OpenArjBytes, OpenArjPath, ArjEntries, ArjVerifyCall,
       ArjExtractEntryTo, ArjStreamEntry, ArjExtractEntriesTo
  <1>7. CASE m \in RpmMethods
    BY <1>7 DEF RpmMethods, OpenRpmBytes, OpenRpmPath, RpmEntries, RpmHeaders,
       RpmVerifyCall, RpmExtractEntryTo, RpmStreamEntry, RpmExtractEntriesTo
  <1>8. CASE m \in DebMethods
    BY <1>8 DEF DebMethods, OpenDebBytes, OpenDebPath, DebMembers, DebEntries,
       DebVerifyCall, DebExtractEntryTo, DebStreamEntry, DebExtractMember,
       DebStreamMember, DebExtractEntriesTo
  <1> QED
    BY <1>1, <1>2, <1>3, <1>4, <1>5, <1>6, <1>7, <1>8 DEF Methods

\* Runs of numbers.
LEMMA NumbersLemma ==
  ASSUME NEW from \in Nat, NEW n \in Nat
  PROVE  /\ Numbers(from, n) \in Seq(Nat) /\ Len(Numbers(from, n)) = n
         /\ DOMAIN Numbers(from, n) = 1 .. n
         /\ \A i \in 1 .. n : Numbers(from, n)[i] = from + i
  BY DEF Numbers

\* A sequence of numbers that counts up is a run.
LEMMA IsNumbers ==
  ASSUME NEW from \in Nat, NEW n \in Nat, NEW s \in Seq(Nat), Len(s) = n,
         \A i \in 1 .. n : s[i] = from + i
  PROVE  s = Numbers(from, n)
  BY DEF Numbers

\* Two runs, the second of which goes on where the first ends.
LEMMA NumbersConcat ==
  ASSUME NEW from \in Nat, NEW m \in Nat, NEW n \in Nat
  PROVE  Numbers(from, m) \o Numbers(from + m, n) = Numbers(from, m + n)
  <1> DEFINE a == Numbers(from, m)
             b == Numbers(from + m, n)
  <1>1. /\ a \in Seq(Nat) /\ Len(a) = m /\ \A i \in 1 .. m : a[i] = from + i
    BY NumbersLemma
  <1>0. b \in Seq(Nat) /\ Len(b) = n /\ \A i \in 1 .. n : b[i] = from + m + i
    <2>1. from + m \in Nat
      OBVIOUS
    <2> QED
      BY <2>1, NumbersLemma
  <1> DEFINE S == Nat
  <1>11. a \in Seq(S) /\ b \in Seq(S) /\ Len(a) = m /\ Len(b) = n
    BY <1>0, <1>1
  <1> HIDE DEF a, b, S
  <1>12. /\ a \o b \in Seq(S) /\ Len(a \o b) = m + n
         /\ \A i \in 1 .. m + n : (a \o b)[i] = IF i <= m THEN a[i] ELSE b[i - m]
    <2>1. /\ a \o b \in Seq(S) /\ Len(a \o b) = Len(a) + Len(b)
          /\ \A i \in 1 .. Len(a) + Len(b) :
               (a \o b)[i] = IF i <= Len(a) THEN a[i] ELSE b[i - Len(a)]
      BY <1>11, ConcatProperties
    <2> QED
      BY <1>11, <2>1
  <1>2. /\ a \o b \in Seq(Nat) /\ Len(a \o b) = m + n
        /\ \A i \in 1 .. m + n : (a \o b)[i] = IF i <= m THEN a[i] ELSE b[i - m]
    BY <1>12 DEF S
  <1>3. \A i \in 1 .. m + n : (a \o b)[i] = from + i
    BY <1>0, <1>1, <1>2
  <1>4. a \o b = Numbers(from, m + n)
    <2>1. m + n \in Nat
      OBVIOUS
    <2> QED
      BY <1>2, <1>3, <2>1, IsNumbers
  <1> QED
    BY <1>4 DEF a, b

\* A part of a run.
LEMMA NumbersPart ==
  ASSUME NEW from \in Nat, NEW n \in Nat, NEW lo \in 0 .. n, NEW hi \in lo .. n
  PROVE  SubSeq(Numbers(from, n), lo + 1, hi) = Numbers(from + lo, hi - lo)
  <1> DEFINE a == Numbers(from, n)
             p == SubSeq(a, lo + 1, hi)
  <1>1. \A i \in 1 .. n : a[i] = from + i
    BY NumbersLemma
  <1> HIDE DEF a
  <1>2. \A i \in lo + 1 .. hi : a[i] \in Nat
    BY <1>1
  <1>3. /\ p \in Seq(Nat) /\ Len(p) = IF lo + 1 <= hi THEN hi - (lo + 1) + 1 ELSE 0
        /\ \A i \in 1 .. hi - (lo + 1) + 1 : p[i] = a[lo + 1 + i - 1]
    BY <1>2, SubSeqProperties
  <1> HIDE DEF p
  <1>4. Len(p) = hi - lo /\ \A i \in 1 .. hi - lo : p[i] = from + lo + i
    BY <1>1, <1>3
  <1>5. p = Numbers(from + lo, hi - lo)
    BY <1>3, <1>4, IsNumbers
  <1> QED
    BY <1>5 DEF p, a

\* What the i-th callback of a plan hands out, begins and finishes.
ShapeOf(c, p, i, next) ==
  /\ Start(c, i) \in Nat /\ Start(c, next) \in Nat /\ Start(c, i) <= Start(c, next)
  /\ Begun(c, i) \in Nat /\ Ended(c, i) \in Nat
  /\ p.bytes = Numbers(Start(c, i), Start(c, next) - Start(c, i))
  /\ Begun(c, next) = IF p.f = "begin_entry" THEN Begun(c, i) + 1 ELSE Begun(c, i)
  /\ p.f = "begin_entry" =>
       Begun(c, i) + 1 \in DOMAIN c.entries /\ p.entry = c.entries[Begun(c, i) + 1]
  /\ Ended(c, next) = IF p.f = "finish_entry" THEN Ended(c, i) + 1 ELSE Ended(c, i)
  /\ p.f = "finish_entry" =>
       Ended(c, i) + 1 \in DOMAIN c.entries /\ p.entry = c.entries[Ended(c, i) + 1]
  /\ p.f = "write" <=> c.method.does \in {"one", "member"}
  /\ p.f = "open_volume" <=> c.method.does = "volumes"
  /\ p.f \in {"begin_entry", "finish_entry"} => c.method.does = "all"
Shape(c, i) == ShapeOf(c, Plan(c)[i], i, i + 1)

\* What a plan does from its first callback to its last.
PlanOK(c) ==
  LET n == Len(Plan(c)) IN
  /\ n \in Nat /\ PlanBytes(c) \in Nat
  /\ Start(c, 1) = 0 /\ Begun(c, 1) = 0 /\ Ended(c, 1) = 0
  /\ \A i \in 1 .. n : Shape(c, i)
  /\ Start(c, n + 1) = PlanBytes(c)
  /\ c.method.does = "all" =>
       Begun(c, n + 1) = Len(c.entries) /\ Ended(c, n + 1) = Len(c.entries)

\* The entries of extract_entries_to lie one behind the other.
LEMMA EntriesInRow ==
  ASSUME NEW c, CallOK(c)
  PROVE  /\ SizeBefore(c, 1) = 0 /\ CallsBefore(c, 1) = 0
         /\ \A k \in 1 .. Len(c.entries) + 1 :
              SizeBefore(c, k) \in Nat /\ CallsBefore(c, k) \in Nat
         /\ \A k \in 1 .. Len(c.entries) :
              /\ SizeBefore(c, k + 1) = SizeBefore(c, k) + c.entries[k].size
              /\ CallsBefore(c, k + 1) = CallsBefore(c, k) + c.entries[k].size + 2
  <1> DEFINE N == Len(c.entries)
             f == [j \in DOMAIN c.entries |-> c.entries[j].size]
             Good == {n \in Nat : n <= N => SumFunctionOnSet(f, 1 .. n) \in Nat}
  <1>1. N \in Nat /\ \A k \in 1 .. N : f[k] \in Nat /\ f[k] = c.entries[k].size
    BY DEF CallOK
  <1>2. \A k : SizeBefore(c, k) = SumFunctionOnSet(f, 1 .. k - 1)
    BY DEF SizeBefore
  <1>3. \A k : CallsBefore(c, k) = SizeBefore(c, k) + 2 * (k - 1)
    BY DEF CallsBefore
  <1> HIDE DEF N, f
  <1>4. SumFunctionOnSet(f, 1 .. 0) = 0
    <2>1. 1 .. 0 = {}
      OBVIOUS
    <2> QED
      BY <2>1, SumEmpty
  <1>5. ASSUME NEW n \in Nat, n + 1 <= N
        PROVE  /\ SumFunctionOnSet(f, 1 .. n) \in Int
               /\ SumFunctionOnSet(f, 1 .. n + 1) = SumFunctionOnSet(f, 1 .. n) + f[n + 1]
    <2>1. \A i \in 1 .. n + 1 : f[i] \in Int
      BY <1>1, <1>5
    <2> QED
      BY <2>1, SumNext
  <1>6. Nat \subseteq Good
    <2>1. 0 \in Good
      BY <1>4
    <2>2. ASSUME NEW n \in Nat, n \in Good PROVE n + 1 \in Good
      <3>1. SUFFICES ASSUME n + 1 <= N PROVE SumFunctionOnSet(f, 1 .. n + 1) \in Nat
        OBVIOUS
      <3>2. SumFunctionOnSet(f, 1 .. n) \in Nat
        BY <1>1, <2>2, <3>1
      <3>3. f[n + 1] \in Nat
        BY <1>1, <3>1
      <3> QED
        BY <1>5, <3>1, <3>2, <3>3
    <2> HIDE DEF Good
    <2> QED
      BY <2>1, <2>2, SetInduction
  <1>7. ASSUME NEW k \in 1 .. N + 1 PROVE SizeBefore(c, k) \in Nat /\ CallsBefore(c, k) \in Nat
    <2>1. k - 1 \in Good /\ k - 1 <= N
      BY <1>1, <1>6
    <2>2. SizeBefore(c, k) \in Nat
      BY <1>2, <2>1
    <2> QED
      BY <1>1, <1>3, <2>2
  <1>8. SizeBefore(c, 1) = 0 /\ CallsBefore(c, 1) = 0
    <2>1. 1 - 1 = 0
      OBVIOUS
    <2>2. SizeBefore(c, 1) = 0
      BY <1>2, <1>4, <2>1
    <2> QED
      BY <1>3, <2>2
  <1>9. ASSUME NEW k \in 1 .. N
        PROVE  /\ SizeBefore(c, k + 1) = SizeBefore(c, k) + c.entries[k].size
               /\ CallsBefore(c, k + 1) = CallsBefore(c, k) + c.entries[k].size + 2
    <2>1. PICK n \in Nat : n = k - 1
      BY <1>1
    <2>2. SumFunctionOnSet(f, 1 .. n + 1) = SumFunctionOnSet(f, 1 .. n) + f[n + 1]
      BY <1>1, <1>5, <2>1
    <2>3. n + 1 = k /\ n + 1 = (k + 1) - 1
      BY <1>1, <2>1
    <2>4. SizeBefore(c, k + 1) = SizeBefore(c, k) + c.entries[k].size
      BY <1>1, <1>2, <2>1, <2>2, <2>3
    <2>5. k \in 1 .. N + 1
      BY <1>1
    <2>6. SizeBefore(c, k) \in Nat /\ c.entries[k].size \in Nat
      BY <1>1, <1>7, <2>5
    <2>7. /\ CallsBefore(c, k + 1) = SizeBefore(c, k + 1) + 2 * ((k + 1) - 1)
          /\ CallsBefore(c, k) = SizeBefore(c, k) + 2 * (k - 1)
      BY <1>3
    <2> QED
      BY <1>1, <2>4, <2>6, <2>7
  <1> QED
    BY <1>7, <1>8, <1>9 DEF N

\* An entry in front of another has its callbacks in front.
LEMMA EntriesOrdered ==
  ASSUME NEW c, CallOK(c), NEW m \in 1 .. Len(c.entries) + 1,
         NEW n \in 1 .. Len(c.entries) + 1, m <= n
  PROVE  CallsBefore(c, m) <= CallsBefore(c, n)
  <1> DEFINE N == Len(c.entries)
             L(a) == CallsBefore(c, a)
             Good == {d \in Nat : \A a \in Nat : a >= 1 /\ a + d <= N + 1 => L(a) <= L(a + d)}
  <1>1. N \in Nat /\ DOMAIN c.entries = 1 .. N
    BY DEF CallOK
  <1>2. \A a \in 1 .. N + 1 : L(a) \in Nat
    BY EntriesInRow
  <1>3. \A a \in 1 .. N : L(a) <= L(a + 1)
    <2> SUFFICES ASSUME NEW a \in 1 .. N PROVE L(a) <= L(a + 1)
      OBVIOUS
    <2>1. L(a + 1) = L(a) + c.entries[a].size + 2
      BY EntriesInRow
    <2>2. c.entries[a].size \in Nat
      BY DEF CallOK
    <2>3. L(a) \in Nat
      BY <1>1, <1>2
    <2> QED
      BY <2>1, <2>2, <2>3
  <1> HIDE DEF N, L
  <1>4. Nat \subseteq Good
    <2>1. 0 \in Good
      BY <1>1, <1>2
    <2>2. ASSUME NEW d \in Nat, d \in Good PROVE d + 1 \in Good
      <3> SUFFICES ASSUME NEW a \in Nat, a >= 1 /\ a + (d + 1) <= N + 1
                   PROVE  L(a) <= L(a + (d + 1))
        OBVIOUS
      <3>1. L(a) <= L(a + d)
        BY <1>1, <2>2
      <3>2. a + d \in 1 .. N
        BY <1>1
      <3>3. L(a + d) <= L((a + d) + 1) /\ (a + d) + 1 = a + (d + 1)
        BY <1>3, <3>2
      <3>4. L(a) \in Nat /\ L(a + d) \in Nat /\ L(a + (d + 1)) \in Nat
        BY <1>1, <1>2
      <3> QED
        BY <3>1, <3>3, <3>4
    <2> HIDE DEF Good
    <2> QED
      BY <2>1, <2>2, SetInduction
  <1>5. n - m \in Good /\ m + (n - m) = n /\ m \in Nat /\ m >= 1
    <2>1. n - m \in Nat /\ m + (n - m) = n /\ m \in Nat /\ m >= 1
      BY <1>1 DEF N
    <2> HIDE DEF Good
    <2> QED
      BY <1>4, <2>1
  <1>6. m + (n - m) <= N + 1
    BY <1>5 DEF N
  <1>7. L(m) <= L(m + (n - m))
    BY <1>5, <1>6
  <1> QED
    BY <1>5, <1>7 DEF L

\* Every callback is for one entry.
LEMMA EntryOfLemma ==
  ASSUME NEW c, CallOK(c), NEW k \in 1 .. Len(c.entries), NEW i \in Nat,
         CallsBefore(c, k) < i, i <= CallsBefore(c, k + 1)
  PROVE  EntryOf(c, i) = k
  <1> DEFINE N == Len(c.entries)
             L(m) == CallsBefore(c, m)
  <1>1. N \in Nat /\ DOMAIN c.entries = 1 .. N
    BY DEF CallOK
  <1>2. \A m \in 1 .. N + 1 : L(m) \in Nat
    BY EntriesInRow
  <1>4. \A m, n \in 1 .. N + 1 : m <= n => L(m) <= L(n)
    BY EntriesOrdered
  <1> HIDE DEF N, L
  <1>5. ASSUME NEW m \in 1 .. N, NEW n \in 1 .. N, m < n PROVE L(m + 1) <= L(n)
    BY <1>1, <1>4, <1>5
  <1>6. ASSUME NEW m \in 1 .. N, L(m) < i, i <= L(m + 1) PROVE m = k
    <2>1. /\ L(m) \in Nat /\ L(m + 1) \in Nat /\ L(k) \in Nat /\ L(k + 1) \in Nat
          /\ L(k) < i /\ i <= L(k + 1) /\ k \in 1 .. N
      BY <1>1, <1>2 DEF L, N
    <2>2. ~ (m < k)
      BY <1>5, <1>6, <2>1
    <2>3. ~ (k < m)
      BY <1>5, <1>6, <2>1
    <2> QED
      BY <2>1, <2>2, <2>3
  <1>7. k \in 1 .. N /\ L(k) < i /\ i <= L(k + 1)
    BY DEF L, N
  <1>8. EntryOf(c, i) = CHOOSE m \in 1 .. N : L(m) < i /\ i <= L(m + 1)
    BY <1>1 DEF EntryOf, L
  <1> QED
    BY <1>6, <1>7, <1>8

\* And for every callback there is one.
LEMMA EntryExists ==
  ASSUME NEW c, CallOK(c), NEW i \in 1 .. CallsOf(c)
  PROVE  \E k \in 1 .. Len(c.entries) : CallsBefore(c, k) < i /\ i <= CallsBefore(c, k + 1)
  <1> DEFINE N == Len(c.entries)
             L(m) == CallsBefore(c, m)
             S == {m \in 1 .. N : i <= L(m + 1)}
  <1>1. N \in Nat /\ L(1) = 0 /\ \A m \in 1 .. N + 1 : L(m) \in Nat
    BY EntriesInRow DEF CallOK
  <1>2. i \in 1 .. L(N + 1)
    BY DEF CallsOf
  <1> HIDE DEF N, L
  <1>3. i \in Nat /\ i > 0 /\ i <= L(N + 1)
    BY <1>1, <1>2
  <1>4. N \in S
    BY <1>1, <1>3
  <1>5. PICK k \in S : \A m \in S : k <= m
    <2>1. S \in SUBSET Nat /\ S # {}
      BY <1>4
    <2> QED
      BY <2>1, LeastElement
  <1>6. L(k) < i
    <2>1. CASE k = 1
      BY <1>1, <1>3, <2>1
    <2>2. CASE k > 1
      <3>1. k - 1 \in 1 .. N /\ (k - 1) + 1 = k /\ k - 1 \notin S
        BY <1>1, <1>5, <2>2
      <3>2. ~ (i <= L(k))
        BY <3>1
      <3>3. L(k) \in Nat
        BY <1>1, <1>5
      <3> QED
        BY <1>3, <3>2, <3>3
    <2> QED
      BY <1>1, <1>5, <2>1, <2>2
  <1> QED
    BY <1>5, <1>6 DEF N, L

\* The j-th callback of entry k.
LEMMA TurnLemma ==
  ASSUME NEW c, CallOK(c), c.method.does = "all", NEW k \in 1 .. Len(c.entries),
         NEW j \in 1 .. c.entries[k].size + 2, NEW i \in Nat, i = CallsBefore(c, k) + j
  PROVE  /\ i \in 1 .. CallsOf(c) /\ EntryOf(c, i) = k /\ TurnOf(c, i) = j
         /\ Start(c, i) = SizeBefore(c, k) + (IF j = 1 THEN 0 ELSE j - 2)
         /\ Begun(c, i) = (IF j = 1 THEN k - 1 ELSE k)
         /\ Ended(c, i) = k - 1
  <1> DEFINE N == Len(c.entries)
             s == c.entries[k].size
             first == CallsBefore(c, k)
  <1>1. /\ N \in Nat /\ s \in Nat /\ first \in Nat
        /\ CallsBefore(c, k + 1) = first + s + 2
        /\ CallsBefore(c, k + 1) <= CallsOf(c) /\ CallsOf(c) \in Nat
    <2>1. N \in Nat /\ s \in Nat
      BY DEF CallOK
    <2>2. k \in 1 .. N + 1 /\ k + 1 \in 1 .. N + 1 /\ N + 1 \in 1 .. N + 1 /\ k + 1 <= N + 1
      BY <2>1
    <2>3. CallsBefore(c, k + 1) <= CallsBefore(c, N + 1)
      BY <2>2, EntriesOrdered
    <2> QED
      BY <2>1, <2>2, <2>3, EntriesInRow DEF CallsOf
  <1>6. j \in 1 .. s + 2 /\ i = first + j
    OBVIOUS
  <1>2. first < i /\ i <= CallsBefore(c, k + 1)
    <2> HIDE DEF first, s
    <2> QED
      BY <1>1, <1>6
  <1>3. EntryOf(c, i) = k
    BY <1>2, EntryOfLemma
  <1>4. TurnOf(c, i) = j
    BY <1>1, <1>3 DEF TurnOf
  <1>5. i \in 1 .. CallsOf(c) /\ ~ (i > CallsOf(c))
    <2> HIDE DEF first, s
    <2> QED
      BY <1>1, <1>6
  <1> QED
    BY <1>3, <1>4, <1>5 DEF Start, Begun, Ended

\* extract_entries_to.
LEMMA SinkPlan ==
  ASSUME NEW c, CallOK(c), c.method.does = "all"
  PROVE  PlanOK(c)
  <1> DEFINE N == Len(c.entries)
             n == CallsOf(c)
             total == PlanBytes(c)
  <1>1. N \in Nat /\ DOMAIN c.entries = 1 .. N
    BY DEF CallOK
  <1>2. n = CallsBefore(c, N + 1) /\ total = SizeBefore(c, N + 1)
    BY DEF CallsOf, PlanBytes
  <1>3. n \in Nat /\ total \in Nat
    BY <1>1, <1>2, EntriesInRow
  <1>4. Len(Plan(c)) = n
    <2>1. Plan(c) = [i \in 1 .. n |->
                       LET k == EntryOf(c, i) IN EntryCallback(c, k, i - CallsBefore(c, k))]
      BY DEF Plan, CallsOf
    <2> HIDE DEF n
    <2> QED
      BY <1>3, <2>1
  <1>5. ASSUME NEW i, i = n + 1
        PROVE  Start(c, i) = total /\ Begun(c, i) = N /\ Ended(c, i) = N
    <2>1. i > CallsOf(c)
      BY <1>3, <1>5
    <2> QED
      BY <2>1 DEF Start, Begun, Ended
  <1>6. Start(c, 1) = 0 /\ Begun(c, 1) = 0 /\ Ended(c, 1) = 0
    <2>1. CASE N = 0
      <3>1. n = 0 /\ total = 0 /\ 1 = n + 1
        BY <1>2, <2>1, EntriesInRow
      <3> QED
        BY <1>5, <2>1, <3>1
    <2>2. CASE N > 0
      <3>1. 1 \in 1 .. N /\ c.entries[1].size \in Nat
        BY <1>1, <2>2 DEF CallOK
      <3>2. CallsBefore(c, 1) = 0 /\ SizeBefore(c, 1) = 0
        BY EntriesInRow
      <3>3. 1 \in 1 .. c.entries[1].size + 2 /\ 1 = CallsBefore(c, 1) + 1
        BY <3>1, <3>2
      <3>4. Start(c, 1) = SizeBefore(c, 1) + 0 /\ Begun(c, 1) = 1 - 1 /\ Ended(c, 1) = 1 - 1
        BY <3>1, <3>3, TurnLemma
      <3> QED
        BY <3>2, <3>4
    <2> QED
      BY <1>1, <2>1, <2>2
  <1>7. ASSUME NEW i \in 1 .. n PROVE Shape(c, i)
    <2> DEFINE q == Plan(c)[i]
    <2>1. PICK k \in 1 .. N : CallsBefore(c, k) < i /\ i <= CallsBefore(c, k + 1)
      BY EntryExists
    <2>2. PICK s : s = c.entries[k].size
      OBVIOUS
    <2>3. PICK b : b = SizeBefore(c, k)
      OBVIOUS
    <2>4. /\ s \in Nat /\ b \in Nat /\ CallsBefore(c, k) \in Nat
          /\ SizeBefore(c, k + 1) = b + s
          /\ CallsBefore(c, k + 1) = CallsBefore(c, k) + s + 2
      <3>1. k \in 1 .. N + 1
        BY <1>1
      <3> QED
        BY <1>1, <2>2, <2>3, <3>1, EntriesInRow DEF CallOK
    <2>5. PICK j \in 1 .. s + 2 : i = CallsBefore(c, k) + j
      <3>1. i - CallsBefore(c, k) \in 1 .. s + 2
        BY <1>3, <2>1, <2>4
      <3> QED
        BY <2>4, <3>1
    <2>6. /\ EntryOf(c, i) = k
          /\ Start(c, i) = b + (IF j = 1 THEN 0 ELSE j - 2)
          /\ Begun(c, i) = (IF j = 1 THEN k - 1 ELSE k)
          /\ Ended(c, i) = k - 1
      BY <1>3, <2>2, <2>3, <2>5, TurnLemma
    <2>7. PICK next \in Nat : next = i + 1
      BY <1>3
    <2>8. /\ Start(c, next) = b + (IF j = 1 THEN 0 ELSE IF j = s + 2 THEN s ELSE j - 1)
          /\ Begun(c, next) = k
          /\ Ended(c, next) = (IF j = s + 2 THEN k ELSE k - 1)
      <3>1. CASE j < s + 2
        <4>1. PICK j1 \in 1 .. s + 2 : j1 = j + 1
          BY <2>4, <3>1
        <4>2. next = CallsBefore(c, k) + j1
          BY <2>4, <2>5, <2>7, <4>1
        <4>3. /\ Start(c, next) = b + (IF j1 = 1 THEN 0 ELSE j1 - 2)
              /\ Begun(c, next) = (IF j1 = 1 THEN k - 1 ELSE k)
              /\ Ended(c, next) = k - 1
          BY <2>2, <2>3, <4>2, TurnLemma
        <4>4. j1 # 1 /\ j # s + 2 /\ j1 - 2 = IF j = 1 THEN 0 ELSE j - 1
          BY <2>4, <3>1, <4>1
        <4>5. b + (j1 - 2) = b + (IF j = 1 THEN 0 ELSE j - 1)
          BY <4>4
        <4>6. Start(c, next) = b + (j1 - 2) /\ Begun(c, next) = k
          BY <4>3, <4>4
        <4> QED
          BY <4>3, <4>4, <4>5, <4>6
      <3>2. CASE j = s + 2 /\ k < N
        <4>1. k + 1 \in 1 .. N /\ (k + 1) - 1 = k
          BY <1>1, <3>2
        <4>2. 1 \in 1 .. c.entries[k + 1].size + 2
          BY <1>1, <4>1 DEF CallOK
        <4>3. next = CallsBefore(c, k + 1) + 1
          BY <2>4, <2>5, <2>7, <3>2
        <4>4. /\ Start(c, next) = SizeBefore(c, k + 1) + 0
              /\ Begun(c, next) = (k + 1) - 1 /\ Ended(c, next) = (k + 1) - 1
          BY <4>1, <4>2, <4>3, TurnLemma, SMTT(40)
        <4> QED
          BY <2>4, <3>2, <4>1, <4>4
      <3>3. CASE j = s + 2 /\ k = N
        <4>1. next = n + 1
          BY <1>2, <2>4, <2>5, <2>7, <3>3
        <4>2. Start(c, next) = b + s /\ Begun(c, next) = k /\ Ended(c, next) = k
          BY <1>2, <1>5, <2>4, <3>3, <4>1
        <4> QED
          BY <2>4, <3>3, <4>2
      <3> QED
        BY <1>1, <2>4, <3>1, <3>2, <3>3, SMTT(40)
    <2>9. q = EntryCallback(c, k, j)
      <3>1. i - CallsBefore(c, k) = j
        BY <2>4, <2>5
      <3>2. q = EntryCallback(c, EntryOf(c, i), i - CallsBefore(c, EntryOf(c, i)))
        BY DEF Plan, CallsOf
      <3> QED
        BY <2>6, <3>1, <3>2
    <2> HIDE DEF N, n, total, q
    <2>10. ASSUME j = 1 PROVE ShapeOf(c, q, i, next)
      <3>1. q.f = "begin_entry" /\ q.entry = c.entries[k] /\ q.bytes = << >>
        BY <2>2, <2>4, <2>9, <2>10 DEF EntryCallback, Callback
      <3>2. /\ Start(c, i) = b /\ Start(c, next) = b /\ b - b = 0
            /\ Begun(c, i) = k - 1 /\ Begun(c, i) + 1 = k /\ Ended(c, i) = k - 1
            /\ Begun(c, next) = k /\ Ended(c, next) = k - 1 /\ k - 1 \in Nat
        BY <1>1, <2>4, <2>6, <2>8, <2>10, SMTT(40)
      <3>3. q.bytes = Numbers(Start(c, i), Start(c, next) - Start(c, i))
        BY <3>1, <3>2 DEF Numbers
      <3> QED
        BY <1>1, <2>4, <3>1, <3>2, <3>3 DEF ShapeOf
    <2>11. ASSUME j > 1 /\ j < s + 2 PROVE ShapeOf(c, q, i, next)
      <3>1. q.f = "write_entry" /\ q.bytes = Numbers(b + j - 2, 1)
        BY <2>2, <2>3, <2>4, <2>9, <2>11 DEF EntryCallback, Callback
      <3>2. /\ b + j - 2 \in Nat /\ Start(c, i) = b + j - 2 /\ Start(c, next) = b + j - 2 + 1
            /\ Start(c, next) - Start(c, i) = 1
            /\ Begun(c, i) = k /\ Ended(c, i) = k - 1
            /\ Begun(c, next) = k /\ Ended(c, next) = k - 1 /\ k \in Nat /\ k - 1 \in Nat
        <4>1. j # 1 /\ j # s + 2
          BY <2>4, <2>11
        <4>2. Start(c, i) = b + (j - 2) /\ Start(c, next) = b + (j - 1)
          BY <2>6, <2>8, <4>1
        <4>3. /\ b + j - 2 \in Nat /\ b + (j - 2) = b + j - 2 /\ b + (j - 1) = b + j - 2 + 1
              /\ b + (j - 1) - (b + (j - 2)) = 1
          BY <2>4, <2>11
        <4>4. k \in Nat /\ k - 1 \in Nat
          BY <1>1
        <4> QED
          BY <2>6, <2>8, <4>1, <4>2, <4>3, <4>4
      <3>3. q.bytes = Numbers(Start(c, i), Start(c, next) - Start(c, i))
        BY <3>1, <3>2
      <3> QED
        BY <1>1, <2>4, <3>1, <3>2, <3>3 DEF ShapeOf
    <2>12. ASSUME j = s + 2 PROVE ShapeOf(c, q, i, next)
      <3>1. q.f = "finish_entry" /\ q.entry = c.entries[k] /\ q.bytes = << >>
        BY <2>2, <2>4, <2>9, <2>12 DEF EntryCallback, Callback
      <3>2. /\ Start(c, i) = b + s /\ Start(c, next) = b + s /\ (b + s) - (b + s) = 0
            /\ Begun(c, i) = k /\ Ended(c, i) = k - 1 /\ Ended(c, i) + 1 = k
            /\ Begun(c, next) = k /\ Ended(c, next) = k /\ k \in Nat /\ k - 1 \in Nat
            /\ b + s \in Nat
        BY <1>1, <2>4, <2>6, <2>8, <2>12, SMTT(40)
      <3>3. q.bytes = Numbers(Start(c, i), Start(c, next) - Start(c, i))
        BY <3>1, <3>2 DEF Numbers
      <3> QED
        BY <1>1, <2>4, <3>1, <3>2, <3>3 DEF ShapeOf
    <2>13. ShapeOf(c, q, i, next)
      BY <2>4, <2>10, <2>11, <2>12
    <2> QED
      BY <2>7, <2>13 DEF Shape, q
  <1> QED
    BY <1>2, <1>3, <1>4, <1>5, <1>6, <1>7 DEF PlanOK

\* How often a number goes into another.
LEMMA Quotient ==
  ASSUME NEW m \in Nat \ {0}, NEW s \in Nat, NEW n, n = (s + m - 1) \div m
  PROVE  n \in Nat /\ s <= m * n /\ m * n <= s + m - 1
  OBVIOUS

\* Chunks in front of other chunks.
LEMMA Chunks ==
  ASSUME NEW m \in Nat \ {0}, NEW n \in Nat, NEW i \in 1 .. n
  PROVE  /\ m * (i - 1) \in Nat /\ m * i \in Nat /\ m * n \in Nat
         /\ m * i = m * (i - 1) + m /\ m * i <= m * n
  <1>1. m * (i - 1) \in Nat /\ m * i \in Nat /\ m * n \in Nat /\ m * (n - i) \in Nat
    OBVIOUS
  <1>2. m * i = m * (i - 1) + m
    OBVIOUS
  <1>3. m * n = m * i + m * (n - i)
    OBVIOUS
  <1> QED
    BY <1>1, <1>2, <1>3

\* One member, or one volume after the other, or nothing at all.
LEMMA OtherPlan ==
  ASSUME NEW c, CallOK(c), c.method.does # "all"
  PROVE  PlanOK(c)
  <1>1. \A i : Begun(c, i) = 0 /\ Ended(c, i) = 0
    BY DEF Begun, Ended
  <1>2. CASE c.method.does \in {"one", "member"}
    <2> DEFINE s == c.entries[1].size
               m == MaxChunk
               n == (s + m - 1) \div m
    <2>1. s \in Nat /\ m \in Nat \ {0}
      BY <1>2, BridgeAssumption DEF CallOK
    <2>2. n \in Nat /\ s <= m * n /\ m * n <= s + m - 1
      <3> HIDE DEF s, m, n
      <3>1. n = (s + m - 1) \div m
        BY DEF n
      <3> QED
        BY <2>1, <3>1, Quotient
    <2>3. Plan(c) = [i \in 1 .. n |->
            Callback("write", c.entries[1], Numbers(m * (i - 1), Min2(m, s - m * (i - 1))))]
      BY <1>2 DEF Plan, ChunkPlan
    <2>4. PlanBytes(c) = s
      BY <1>2 DEF PlanBytes
    <2>5. ASSUME NEW i PROVE Start(c, i) = IF m * (i - 1) < s THEN m * (i - 1) ELSE s
      BY <1>2, <2>4 DEF Start, Min2
    <2> HIDE DEF s, m, n
    <2>6. Len(Plan(c)) = n
      BY <2>2, <2>3
    <2>7. Start(c, 1) = 0 /\ Start(c, n + 1) = s
      <3>1. m * (1 - 1) = 0 /\ m * ((n + 1) - 1) = m * n /\ m * n \in Int
        BY <2>1, <2>2
      <3>2. Start(c, 1) = 0
        BY <2>1, <2>5, <3>1
      <3>3. Start(c, n + 1) = s
        BY <2>1, <2>2, <2>5, <3>1
      <3> QED
        BY <3>2, <3>3
    <2>8. ASSUME NEW i \in 1 .. n PROVE Shape(c, i)
      <3> DEFINE q == Plan(c)[i]
      <3>1. PICK p : p = m * (i - 1)
        OBVIOUS
      <3>2. p \in Nat /\ m * i \in Nat /\ m * i = p + m /\ m * i <= m * n /\ m * n \in Nat
        BY <2>1, <2>2, <3>1, Chunks
      <3>3. p < s
        BY <2>1, <2>2, <3>2
      <3>4. q.f = "write" /\ q.bytes = Numbers(p, Min2(m, s - p))
        BY <2>3, <3>1 DEF Callback
      <3> HIDE DEF q
      <3>5. PICK next \in Int : next = i + 1
        OBVIOUS
      <3>6. Start(c, i) = p
        BY <2>5, <3>1, <3>3
      <3>7. Start(c, next) = IF p + m < s THEN p + m ELSE s
        <4>1. m * (next - 1) = p + m
          BY <3>2, <3>5
        <4> QED
          BY <2>5, <4>1
      <3>8. Start(c, next) = p + Min2(m, s - p) /\ Min2(m, s - p) \in Nat
        BY <2>1, <3>2, <3>3, <3>7 DEF Min2
      <3>9. Start(c, next) - Start(c, i) = Min2(m, s - p)
        BY <3>2, <3>6, <3>8
      <3>10. /\ Start(c, i) \in Nat /\ Start(c, next) \in Nat /\ Start(c, i) <= Start(c, next)
        BY <3>2, <3>6, <3>8
      <3>11. q.bytes = Numbers(Start(c, i), Start(c, next) - Start(c, i))
        BY <3>4, <3>6, <3>9
      <3>12. ShapeOf(c, q, i, next)
        BY <1>1, <1>2, <3>4, <3>10, <3>11 DEF ShapeOf
      <3> QED
        BY <3>5, <3>12 DEF Shape, q
    <2> QED
      BY <1>1, <2>1, <2>2, <2>4, <2>6, <2>7, <2>8 DEF PlanOK
  <1>3. CASE c.method.does \notin {"one", "member"}
    <2>1. \A i : Start(c, i) = 0
      BY <1>3 DEF Start
    <2>2. PlanBytes(c) = 0
      BY <1>3 DEF PlanBytes
    <2>3. CASE c.method.does = "volumes"
      <3>1. MaxVolumes + 1 \in Nat
        BY BridgeAssumption
      <3>2. Plan(c) = [i \in 1 .. MaxVolumes + 1 |-> Callback("open_volume", c.entries[1], << >>)]
        BY <2>3 DEF Plan
      <3>3. Len(Plan(c)) = MaxVolumes + 1
        BY <3>1, <3>2
      <3>4. ASSUME NEW i \in 1 .. MaxVolumes + 1 PROVE Shape(c, i)
        <4> DEFINE q == Plan(c)[i]
        <4>1. q.f = "open_volume" /\ q.bytes = << >>
          BY <3>2 DEF Callback
        <4> HIDE DEF q
        <4>2. q.bytes = Numbers(0, 0 - 0)
          BY <4>1 DEF Numbers
        <4>3. ShapeOf(c, q, i, i + 1)
          BY <1>1, <1>3, <2>1, <2>3, <4>1, <4>2 DEF ShapeOf
        <4> QED
          BY <4>3 DEF Shape, q
      <3> QED
        BY <1>1, <2>1, <2>2, <2>3, <3>1, <3>3, <3>4 DEF PlanOK
    <2>4. CASE c.method.does # "volumes"
      <3>1. Plan(c) = << >>
        BY <1>3, <2>4 DEF Plan
      <3>2. Len(Plan(c)) = 0
        BY <3>1
      <3> QED
        BY <1>1, <2>1, <2>2, <3>2 DEF PlanOK
    <2> QED
      BY <2>3, <2>4
  <1> QED
    BY <1>2, <1>3

\* Every plan.
LEMMA PlanLemma ==
  ASSUME NEW c, CallOK(c)
  PROVE  PlanOK(c)
  BY SinkPlan, OtherPlan
-----------------------------------------------------------------------------
(***************************************************************************)
(* Progress                                                                *)
(***************************************************************************)

\* A call of a program has a plan.
LEMMA CallPlan ==
  ASSUME IInv, NEW t \in Threads
  PROVE  CallOK(call[t]) /\ PlanOK(call[t])
  <1>1. CallOK(call[t])
    BY BridgeAssumption DEF IInv, LocalsOK
  <1> QED
    BY <1>1, PlanLemma

\* A step of one thread is none of another's.
LEMMA FrameStep ==
  ASSUME IInv, CompleteInv, NEW t \in Threads, Step(t)
  PROVE  Local(t) /\ Apart(t)
  <1> USE DEF Goto, Local, LocalsOK, IInv, Apart, HistoriesOK, CompleteInv, coreVars,
              history
  <1>1. CASE Inspect(t) \/ SymlinkTarget(t) \/ Enter(t) \/ CancelToken(t) \/ Reattach(t)
    BY <1>1 DEF Inspect, SymlinkTarget, Enter, CancelToken, Reattach, Finish, RequestCancel
  <1>2. CASE CoreFails(t) \/ CoreCalls(t) \/ CoreCompletes(t)
    BY <1>2 DEF CoreFails, CoreCalls, CoreCompletes, CoreReturns
  <1>3. CASE Attach(t) \/ Switch(t) \/ Resume(t) \/ CancelInside(t)
    BY <1>3 DEF Attach, Switch, Resume, CancelInside, RequestCancel
  <1>4. CASE WriterReturns(t)
    <2>1. /\ UNCHANGED <<call, answer, result, told, finished>>
          /\ \/ \E n \in 1 .. Len(Rest(t)) : WriterCounts(t, n)
             \/ WriterRefuses(t)
      BY <1>4 DEF WriterReturns, LeaveWriter
    <2>2. ASSUME NEW n, WriterCounts(t, n) PROVE Local(t) /\ Apart(t)
      BY <2>1, <2>2 DEF WriterCounts, Accept, Advance
    <2>3. CASE WriterRefuses(t)
      BY <2>1, <2>3 DEF WriterRefuses, Raises, Remember, CoreReturns
    <2> QED
      BY <2>1, <2>2, <2>3
  <1>5. CASE CallbackReturns(t)
    BY <1>5 DEF CallbackReturns, Accept, Advance, RequestCancel, Remember, CoreReturns, Raises
  <1>6. CASE SinkReturns(t)
    BY <1>6 DEF SinkReturns, Accept, Remember
  <1>7. CASE FinishCallback(t)
    <2>1. AnswerInv(t)
      BY <1>7 DEF FinishCallback, ThreadInv
    <2>2. Go # Stop /\ Go.k = "go" /\ Stop.k = "stop"
      BY DEF Go, Stop
    <2>3. answer[t] = Stop => TokenOf(t) \in asked
      BY <2>1, <2>2 DEF AnswerInv
    <2> QED
      BY <1>7, <2>3 DEF FinishCallback, Advance, CoreReturns
  <1>8. CASE ProviderReturns(t)
    BY <1>8 DEF ProviderReturns, Advance, Remember, CoreReturns
  <1> QED
    BY <1>1, <1>2, <1>3, <1>4, <1>5, <1>6, <1>7, <1>8 DEF Step

\* A step of one thread that keeps its own progress keeps that of all.
LEMMA ProgressStep ==
  ASSUME CompleteInv, NEW t \in Threads, Local(t), Apart(t), ProgressInv(t)'
  PROVE  CompleteInv'
  <1>1. ASSUME NEW u \in Threads \ {t} PROVE ProgressInv(u)'
    <2>1. ProgressInv(u)
      BY DEF CompleteInv
    <2>2. /\ call' = call /\ pc'[u] = pc[u] /\ answer'[u] = answer[u]
          /\ outcome'[u] = outcome[u] /\ result'[u] = result[u] /\ at'[u] = at[u]
          /\ offset'[u] = offset[u]
      BY DEF Local, Apart
    <2>3. Upcoming(u)' = Upcoming(u)
      BY <2>2 DEF Upcoming
    <2>4. /\ Heard(u, at[u], 0)' <=> Heard(u, at[u], 0)
          /\ Heard(u, at[u], offset[u])' <=> Heard(u, at[u], offset[u])
          /\ Heard(u, at[u] + 1, 0)' <=> Heard(u, at[u] + 1, 0)
          /\ Met(u, at[u])' <=> Met(u, at[u])
          /\ Met(u, at[u] + 1)' <=> Met(u, at[u] + 1)
      BY <2>2 DEF Heard, Met, Apart
    <2>5. LET r == CallResult(outcome[u], call[u].method.label) IN
          /\ r' = r
          /\ Complete(u, r.n)' <=> Complete(u, r.n)
      BY <2>2 DEF Complete, Apart, Local
    <2>6. Complete(u, result[u].n)' <=> Complete(u, result[u].n)
      BY <2>2 DEF Complete, Apart, Local
    <2> QED
      BY <2>1, <2>2, <2>3, <2>4, <2>5, <2>6 DEF ProgressInv
  <1> QED
    BY <1>1 DEF CompleteInv, Apart

\* A call that fails has no count to answer for.
LEMMA FailProgress ==
  ASSUME IInv, CompleteInv, NEW t \in Threads, NEW o, CoreReturns(t, o),
         UNCHANGED <<call, at, offset>>,
         CallResult(o, call[t].method.label).k = "exception"
  PROVE  ProgressInv(t)'
  <1>1. pc'[t] = "return" /\ outcome'[t] = o
    BY DEF CoreReturns, Goto, IInv, LocalsOK
  <1> QED
    BY <1>1 DEF ProgressInv, CompleteInv, Under

\* A callback is through.
LEMMA AdvanceProgress ==
  ASSUME IInv, CompleteInv, NEW t \in Threads, Advance(t), UNCHANGED <<call, told, finished>>,
         at[t] <= Len(Plan(call[t])),
         received'[t] = Numbers(0, Start(call[t], at[t] + 1)),
         Met(t, at[t] + 1)
  PROVE  ProgressInv(t)'
  <1>1. pc'[t] = "core" /\ at'[t] = at[t] + 1 /\ offset'[t] = 0
    BY DEF Advance, Goto, IInv, LocalsOK, CompleteInv, HistoriesOK
  <1>2. at[t] \in 1 .. Len(Plan(call[t])) /\ Len(Plan(call[t])) \in Nat
    BY CallPlan DEF CompleteInv, ProgressInv, PlanOK
  <1>3. at'[t] \in 1 .. Len(Plan(call[t])) + 1
    BY <1>1, <1>2
  <1>4. Start(call[t], at[t] + 1) \in Nat
    BY <1>2, CallPlan DEF PlanOK, Shape, ShapeOf
  <1>5. Heard(t, at[t], 0)' /\ Met(t, at[t])'
    BY <1>1, <1>4 DEF Heard, Met
  <1> QED
    BY <1>1, <1>3, <1>5 DEF ProgressInv, Under

\* A call that returns without the core.
LEMMA FinishProgress ==
  ASSUME IInv, CompleteInv, NEW t \in Threads, NEW r, pc[t] = "python", Finish(t, r),
         UNCHANGED <<call, at, offset, received, refusal>>,
         r.k = "returned" => r.n = 0 /\ call[t].method.does # "all"
  PROVE  ProgressInv(t)'
  <1>1. pc'[t] = "done" /\ result'[t] = r
    BY DEF Finish, Goto, IInv, LocalsOK
  <1>2. at[t] = 1 /\ Heard(t, at[t], 0) /\ ProgressInv(t)
    BY DEF CompleteInv, ProgressInv
  <1>3. received[t] = Numbers(0, 0)
    BY <1>2, CallPlan DEF Heard, PlanOK
  <1>4. refusal[t] = Nothing
    BY NotRefused
  <1>5. r.k = "returned" => Complete(t, r.n)'
    BY <1>3, <1>4 DEF Complete
  <1> QED
    BY <1>1, <1>2, <1>5 DEF ProgressInv, Under

\* The calls that return without the core, and the arguments that are refused.
LEMMA PythonProgress ==
  ASSUME IInv, CompleteInv, NEW t \in Threads,
         Inspect(t) \/ SymlinkTarget(t) \/ Enter(t) \/ CancelToken(t)
  PROVE  ProgressInv(t)'
  <1> DEFINE label == call[t].method.label
  <1>1. CASE Inspect(t)
    <2> DEFINE r == Listed(call[t])
    <2>1. r.k # "returned"
      <3>1. call[t].method.does \in {"list", "members", "header", "info", "limits"}
        BY <1>1 DEF Inspect
      <3> QED
        BY <3>1 DEF Listed
    <2>2. Finish(t, r) /\ pc[t] = "python"
      BY <1>1 DEF Inspect
    <2> HIDE DEF r
    <2> QED
      BY <1>1, <2>1, <2>2, FinishProgress DEF Inspect, coreVars, history
  <1>2. CASE SymlinkTarget(t)
    <2>1. PICK o \in {Returned(0), CoreError("Format")} : Finish(t, CallResult(o, label))
      BY <1>2 DEF SymlinkTarget
    <2> DEFINE r == CallResult(o, label)
    <2>2. r.k = "returned" => r.n = 0 /\ call[t].method.does # "all"
      <3>1. CASE o = Returned(0)
        <4>1. r.n = 0
          BY <3>1 DEF CallResult, Returned
        <4> QED
          BY <1>2, <4>1 DEF SymlinkTarget
      <3>2. CASE o = CoreError("Format")
        <4>1. "Format" \in DOMAIN ClassOf
          BY DEF ClassOf
        <4> QED
          BY <3>2, <4>1, CoreErrorLemma
      <3> QED
        BY <3>1, <3>2
    <2>3. Finish(t, r)
      BY <2>1
    <2> HIDE DEF r
    <2> QED
      BY <1>2, <2>2, <2>3, FinishProgress DEF SymlinkTarget, coreVars, history
  <1>3. CASE Enter(t) /\ ArgumentError(call[t]) # Nothing
    <2> DEFINE r == ArgumentError(call[t])
    <2>1. r.k = "exception"
      BY <1>3 DEF ArgumentError, MapCoreError, CoreError, Exception
    <2>2. Finish(t, r)
      BY <1>3 DEF Enter
    <2> HIDE DEF r
    <2> QED
      BY <1>3, <2>1, <2>2, FinishProgress DEF Enter, coreVars, history
  <1>4. CASE Enter(t) /\ ArgumentError(call[t]) = Nothing
    <2>1. pc[t] = "python" /\ pc'[t] = "core" /\ UNCHANGED <<call, coreVars, history>>
      BY <1>4 DEF Enter, Goto, IInv, LocalsOK
    <2>2. ProgressInv(t)
      BY DEF CompleteInv
    <2> QED
      BY <2>1, <2>2 DEF ProgressInv, Under, Heard, Met, coreVars, history
  <1>5. CASE CancelToken(t)
    <2>1. /\ Finish(t, Returned(0)) /\ Returned(0).n = 0 /\ pc[t] = "python"
          /\ call[t].method.does = "cancel"
      BY <1>5 DEF CancelToken, Returned
    <2> QED
      BY <1>5, <2>1, FinishProgress DEF CancelToken, coreVars
  <1> QED
    BY <1>1, <1>2, <1>3, <1>4, <1>5

\* The core fails, calls back, or has nothing left to call back for: then all
\* of the plan has been done.
LEMMA CoreProgress ==
  ASSUME IInv, CompleteInv, NEW t \in Threads,
         CoreFails(t) \/ CoreCalls(t) \/ CoreCompletes(t)
  PROVE  ProgressInv(t)'
  <1>0. ProgressInv(t)
    BY DEF CompleteInv
  <1> DEFINE c == call[t]
             label == c.method.label
  <1>1. CASE CoreFails(t)
    <2>1. UNCHANGED <<call, at, offset>>
      BY <1>1 DEF CoreFails
    <2>2. PICK o \in CoreErrors(c) \cup {Panicked, CoreError("Cancelled")} : CoreReturns(t, o)
      BY <1>1 DEF CoreFails
    <2>3. CallResult(o, label).k = "exception"
      <3>1. CASE o \in CoreErrors(c)
        BY <3>1, CoreErrorsLemma
      <3>2. CASE o = Panicked
        BY <3>2 DEF CallResult, Panicked, Exception
      <3>3. CASE o = CoreError("Cancelled")
        <4>1. "Cancelled" \in DOMAIN ClassOf
          BY DEF ClassOf
        <4> QED
          BY <3>3, <4>1, CoreErrorLemma
      <3> QED
        BY <3>1, <3>2, <3>3
    <2> QED
      BY <2>1, <2>2, <2>3, FailProgress
  <1>2. CASE CoreCalls(t)
    <2>1. /\ pc[t] = "core" /\ pc'[t] = "attach" /\ at[t] <= Len(Plan(c))
          /\ UNCHANGED <<call, at, offset, received, told, finished>>
      BY <1>2 DEF CoreCalls, Goto, IInv, LocalsOK, coreVars, history
    <2>2. at[t] \in 1 .. Len(Plan(c)) /\ Len(Plan(c)) \in Nat /\ offset[t] = 0
      BY <1>0, <2>1, CallPlan DEF ProgressInv, PlanOK
    <2>3. /\ Start(c, at[t] + 1) - Start(c, at[t]) \in Nat
          /\ Upcoming(t).bytes = Numbers(Start(c, at[t]), Start(c, at[t] + 1) - Start(c, at[t]))
          /\ Start(c, at[t]) \in Nat
      BY <2>2, CallPlan, SMTT(40) DEF PlanOK, Shape, ShapeOf, Upcoming
    <2>4. Len(Upcoming(t).bytes) \in Nat
      BY <2>3, NumbersLemma
    <2>5. Heard(t, at[t], offset[t])' /\ Met(t, at[t])'
      BY <1>0, <2>1, <2>2 DEF ProgressInv, Heard, Met
    <2>6. Len(Upcoming(t).bytes)' = Len(Upcoming(t).bytes)
      BY <2>1 DEF Upcoming
    <2> QED
      BY <1>0, <2>1, <2>2, <2>4, <2>5, <2>6 DEF ProgressInv, Under
  <1>3. CASE CoreCompletes(t)
    <2>1. /\ pc[t] = "core" /\ at[t] > Len(Plan(c))
          /\ CoreReturns(t, Returned(PlanBytes(c)))
          /\ UNCHANGED <<call, at, offset, received, told, finished, refusal>>
      BY <1>3 DEF CoreCompletes, history
    <2> PICK n : n = PlanBytes(c)
      OBVIOUS
    <2>2. at[t] = Len(Plan(c)) + 1
      BY <1>0, <2>1, CallPlan DEF ProgressInv, PlanOK
    <2>3. pc'[t] = "return" /\ outcome'[t] = Returned(n)
      BY <2>1 DEF CoreReturns, Goto, IInv, LocalsOK
    <2>4. CallResult(Returned(n), label) = Returned(n) /\ Returned(n).n = n
      BY DEF CallResult, Returned
    <2>5. /\ Heard(t, Len(Plan(c)) + 1, 0) /\ Met(t, Len(Plan(c)) + 1)
          /\ Start(c, Len(Plan(c)) + 1) = n
          /\ c.method.does = "all" =>
               /\ Begun(c, Len(Plan(c)) + 1) = Len(c.entries)
               /\ Ended(c, Len(Plan(c)) + 1) = Len(c.entries)
      BY <1>0, <2>1, <2>2, CallPlan DEF ProgressInv, PlanOK
    <2>6. n \in Nat
      BY CallPlan DEF PlanOK
    <2>7. received[t] = Numbers(0, n)
      BY <2>5, <2>6 DEF Heard
    <2>8. refusal[t] = Nothing
      BY <2>1, NotRefused
    <2>9. Complete(t, n)
      BY <2>5, <2>7, <2>8 DEF Complete, Met
    <2>10. Complete(t, n)'
      BY <2>1, <2>9 DEF Complete
    <2>11. CallResult(outcome[t], call[t].method.label)' = Returned(n)
      BY <2>1, <2>3, <2>4
    <2>12. LET r == CallResult(outcome[t], call[t].method.label)' IN
           received'[t] = Numbers(0, r.n)
      <3>1. CallResult(outcome[t], call[t].method.label)'.n = n
        BY <2>4, <2>11
      <3>2. received'[t] = Numbers(0, n)
        BY <2>10 DEF Complete
      <3> QED
        BY <3>1, <3>2
    <2>13. LET r == CallResult(outcome[t], call[t].method.label) IN Complete(t, r.n)'
      BY <2>10, <2>12 DEF Complete
    <2> QED
      BY <1>0, <2>1, <2>3, <2>13 DEF ProgressInv, Under
  <1> QED
    BY <1>1, <1>2, <1>3

\* The next index.
LEMMA NextIndex ==
  ASSUME NEW c, NEW n \in Nat, n + 1 \in DOMAIN c.entries
  PROVE  Append(Indices(c, n), c.entries[n + 1].index) = Indices(c, n + 1)
  <1> DEFINE x == c.entries[n + 1].index
             S == {c.entries[k].index : k \in 1 .. n + 1}
             s == Indices(c, n)
  <1>1. s \in Seq(S) /\ Len(s) = n /\ \A k \in 1 .. n : s[k] = c.entries[k].index
    BY DEF Indices
  <1>2. x \in S
    OBVIOUS
  <1> HIDE DEF S, s, x
  <1>3. /\ Append(s, x) \in Seq(S) /\ Len(Append(s, x)) = Len(s) + 1
        /\ \A k \in 1 .. Len(s) : Append(s, x)[k] = s[k]
        /\ Append(s, x)[Len(s) + 1] = x
    BY <1>1, <1>2, AppendProperties
  <1>4. /\ Append(s, x) \in Seq(S) /\ Len(Append(s, x)) = n + 1
        /\ \A k \in 1 .. n : Append(s, x)[k] = c.entries[k].index
        /\ Append(s, x)[n + 1] = c.entries[n + 1].index
    BY <1>1, <1>3 DEF x
  <1>5. Append(s, x) = [k \in 1 .. n + 1 |-> Append(s, x)[k]]
    <2> DEFINE z == Append(s, x)
    <2>1. z \in Seq(S) /\ Len(z) = n + 1
      BY <1>4
    <2> HIDE DEF z
    <2>2. z \in [1 .. n + 1 -> S]
      BY <2>1, LenProperties
    <2>3. z = [k \in 1 .. n + 1 |-> z[k]]
      BY <2>2
    <2> QED
      BY <2>3 DEF z
  <1>6. \A k \in 1 .. n + 1 : Append(s, x)[k] = c.entries[k].index
    BY <1>4
  <1>7. Append(s, x) = Indices(c, n + 1)
    BY <1>5, <1>6 DEF Indices
  <1> QED
    BY <1>7 DEF s, x

\* What an entry sink is told of an entry, in every format.
LEMMA SinkArgumentsLemma ==
  ASSUME NEW e, NEW label \in {"7z", "zip", "cpio", "arj", "rpm", "deb"}
  PROVE  /\ SinkFor(label, e).begin_entry.entry.index = e.index
         /\ SinkFor(label, e).finish_entry = e.index
  BY DEF SinkFor, SinkArguments, PythonEntrySink, PythonZipEntrySink, PythonCpioEntrySink,
         PythonArjEntrySink, PythonRpmEntrySink, PythonDebEntrySink, PyEntry, PyZipEntry,
         PyCpioEntry, PyArjEntry, PyRpmEntry, PyDebEntry, Snapshot

\* begin_entry and finish_entry are told of the entry that is their turn.
LEMMA AttachProgress ==
  ASSUME IInv, CompleteInv, NEW t \in Threads, Attach(t)
  PROVE  ProgressInv(t)'
  <1> DEFINE c == call[t]
             label == c.method.label
             i == at[t]
             p == Upcoming(t)
             next == i + 1
  <1>0. ProgressInv(t)
    BY DEF CompleteInv
  <1>1. /\ pc[t] = "attach" /\ pc'[t] = "callback"
        /\ UNCHANGED <<call, at, offset, received>>
        /\ told' = IF p.f # "begin_entry" THEN told
                   ELSE [told EXCEPT ![t] = Append(@, SinkFor(label, p.entry).begin_entry)]
        /\ finished' = IF p.f # "finish_entry" THEN finished
                       ELSE [finished EXCEPT ![t] = Append(@, SinkFor(label, p.entry).finish_entry)]
    BY DEF Attach, Goto, IInv, LocalsOK, coreVars
  <1>2. i \in 1 .. Len(Plan(c)) /\ Met(t, i)
    BY <1>0, <1>1, CallPlan DEF ProgressInv, PlanOK, Under
  <1>3. ShapeOf(c, p, i, next)
    BY <1>2, CallPlan DEF PlanOK, Shape, Upcoming
  <1>4. p.f \in {"begin_entry", "finish_entry"} =>
          label \in {"7z", "zip", "cpio", "arj", "rpm", "deb"}
    BY <1>3, CallPlan, MethodTargets DEF ShapeOf, CallOK
  <1>5. Begun(c, i) \in Nat /\ Ended(c, i) \in Nat
    BY <1>3 DEF ShapeOf
  <1> HIDE DEF p, next
  <1>6. /\ told'[t] \in Seq(BeginsOf(c)) /\ Len(told'[t]) = Begun(c, next)
        /\ [k \in DOMAIN told'[t] |-> told'[t][k].entry.index] = Indices(c, Begun(c, next))
    <2>1. CASE p.f # "begin_entry"
      <3>1. told' = told /\ Begun(c, next) = Begun(c, i)
        BY <1>1, <1>3, <2>1 DEF ShapeOf
      <3> QED
        BY <1>2, <3>1 DEF Met
    <2>2. CASE p.f = "begin_entry"
      <3> DEFINE n == Begun(c, i)
                 s == told[t]
                 b == SinkFor(label, p.entry).begin_entry
                 S == BeginsOf(c)
                 s1 == Append(s, b)
      <3>1. /\ n \in Nat /\ Begun(c, next) = n + 1 /\ n + 1 \in DOMAIN c.entries
            /\ p.entry = c.entries[n + 1]
        BY <1>3, <1>5, <2>2 DEF ShapeOf
      <3>2. b \in S
        BY <3>1 DEF BeginsOf
      <3>3. b.entry.index = c.entries[n + 1].index
        BY <1>4, <2>2, <3>1, SinkArgumentsLemma, SMTT(40)
      <3>4. told'[t] = s1
        BY <1>1, <2>2 DEF CompleteInv, HistoriesOK
      <3>5. /\ s \in Seq(S) /\ Len(s) = n
            /\ [k \in DOMAIN s |-> s[k].entry.index] = Indices(c, n)
        BY <1>2 DEF Met
      <3> HIDE DEF n, s, b, S
      <3>6. /\ s1 \in Seq(S) /\ Len(s1) = Len(s) + 1
            /\ \A k \in 1 .. Len(s) : s1[k] = s[k]
            /\ s1[Len(s) + 1] = b
        BY <3>2, <3>5, AppendProperties
      <3> HIDE DEF s1
      <3>7. /\ DOMAIN s = 1 .. n /\ DOMAIN s1 = 1 .. n + 1
            /\ \A k \in 1 .. n : s1[k] = s[k]
            /\ s1[n + 1] = b
        BY <3>1, <3>5, <3>6
      <3>8. \A k \in 1 .. n : s[k].entry.index = c.entries[k].index
        <4>1. ASSUME NEW k \in 1 .. n PROVE s[k].entry.index = c.entries[k].index
          <5>1. [j \in DOMAIN s |-> s[j].entry.index][k] = Indices(c, n)[k]
            BY <3>5
          <5>2. [j \in DOMAIN s |-> s[j].entry.index][k] = s[k].entry.index
            BY <3>7
          <5>3. Indices(c, n)[k] = c.entries[k].index
            BY DEF Indices
          <5> QED
            BY <5>1, <5>2, <5>3
        <4> QED
          BY <4>1
      <3>9. \A k \in 1 .. n + 1 : s1[k].entry.index = c.entries[k].index
        <4>1. ASSUME NEW k \in 1 .. n + 1 PROVE s1[k].entry.index = c.entries[k].index
          <5>1. CASE k \in 1 .. n
            BY <3>7, <3>8, <5>1
          <5>2. CASE k = n + 1
            BY <3>3, <3>7, <5>2
          <5> QED
            BY <3>1, <5>1, <5>2
        <4> QED
          BY <4>1
      <3>10. [k \in DOMAIN s1 |-> s1[k].entry.index] = Indices(c, n + 1)
        BY <3>7, <3>9 DEF Indices
      <3> QED
        BY <3>1, <3>4, <3>5, <3>6, <3>10 DEF S
    <2> QED
      BY <2>1, <2>2
  <1>7. finished'[t] = Indices(c, Ended(c, next))
    <2>1. CASE p.f # "finish_entry"
      <3>1. finished' = finished /\ Ended(c, next) = Ended(c, i)
        BY <1>1, <1>3, <2>1 DEF ShapeOf
      <3> QED
        BY <1>2, <3>1 DEF Met
    <2>2. CASE p.f = "finish_entry"
      <3> DEFINE n == Ended(c, i)
      <3>1. /\ n \in Nat /\ Ended(c, next) = n + 1 /\ n + 1 \in DOMAIN c.entries
            /\ p.entry = c.entries[n + 1]
        BY <1>3, <1>5, <2>2 DEF ShapeOf
      <3>2. finished'[t] = Append(finished[t], SinkFor(label, p.entry).finish_entry)
        BY <1>1, <2>2 DEF CompleteInv, HistoriesOK
      <3>3. SinkFor(label, p.entry).finish_entry = c.entries[n + 1].index
        BY <1>4, <2>2, <3>1, SinkArgumentsLemma
      <3>4. finished[t] = Indices(c, n)
        BY <1>2 DEF Met
      <3> HIDE DEF n
      <3>5. finished'[t] = Append(Indices(c, n), c.entries[n + 1].index)
        BY <3>2, <3>3, <3>4
      <3> QED
        BY <3>1, <3>5, NextIndex
    <2> QED
      BY <2>1, <2>2
  <1>8. Met(t, at[t] + 1)'
    <2>1. (at[t] + 1)' = next /\ call' = call
      BY <1>1 DEF next
    <2> QED
      BY <1>6, <1>7, <2>1 DEF Met
  <1>9. Upcoming(t)' = Upcoming(t) /\ Heard(t, at[t], offset[t])' = Heard(t, at[t], offset[t])
    BY <1>1 DEF Upcoming, Heard
  <1> QED
    BY <1>0, <1>1, <1>8, <1>9 DEF ProgressInv, Under

\* Switching threads and cancelling inside a callback.
LEMMA InsideProgress ==
  ASSUME IInv, CompleteInv, NEW t \in Threads, Switch(t) \/ Resume(t) \/ CancelInside(t)
  PROVE  ProgressInv(t)'
  <1>1. ProgressInv(t)
    BY DEF CompleteInv
  <1>2. /\ pc[t] \in {"callback", "switched"} /\ pc'[t] \in {"callback", "switched"}
        /\ UNCHANGED <<call, at, offset, received, told, finished>>
    BY DEF Switch, Resume, CancelInside, Goto, IInv, LocalsOK, coreVars, history
  <1>3. /\ Upcoming(t)' = Upcoming(t) /\ Heard(t, at[t], offset[t])' = Heard(t, at[t], offset[t])
        /\ Met(t, at[t] + 1)' = Met(t, at[t] + 1)
    BY <1>2 DEF Upcoming, Heard, Met
  <1> QED
    BY <1>1, <1>2, <1>3 DEF ProgressInv, Under

\* In a callback: where the call is, and the bytes to hand out.
LEMMA CallbackState ==
  ASSUME IInv, CompleteInv, NEW t \in Threads, pc[t] = "callback"
  PROVE  LET from == Start(call[t], at[t])
             n == Start(call[t], at[t] + 1) - from IN
         /\ at[t] \in 1 .. Len(Plan(call[t])) /\ Len(Plan(call[t])) \in Nat
         /\ from \in Nat /\ n \in Nat /\ from + n = Start(call[t], at[t] + 1)
         /\ Upcoming(t).bytes = Numbers(from, n)
         /\ offset[t] \in 0 .. n
         /\ call[t].method.target # "writer" => offset[t] = 0
         /\ received[t] = Numbers(0, from + offset[t])
         /\ Met(t, at[t] + 1)
         /\ ShapeOf(call[t], Upcoming(t), at[t], at[t] + 1)
  <1> DEFINE from == Start(call[t], at[t])
             to == Start(call[t], at[t] + 1)
             n == to - from
  <1>1. ProgressInv(t)
    BY DEF CompleteInv
  <1>2. at[t] \in 1 .. Len(Plan(call[t])) /\ Len(Plan(call[t])) \in Nat
    BY <1>1, CallPlan DEF ProgressInv, PlanOK, Under
  <1>3. ShapeOf(call[t], Upcoming(t), at[t], at[t] + 1)
    BY <1>2, CallPlan DEF PlanOK, Shape, Upcoming
  <1>4. from \in Nat /\ to \in Nat /\ from <= to /\ Upcoming(t).bytes = Numbers(from, n)
    BY <1>3 DEF ShapeOf
  <1> HIDE DEF from, to
  <1>5. n \in Nat /\ from + n = to
    BY <1>4
  <1>6. Len(Upcoming(t).bytes) = n
    <2>1. PICK m \in Nat : m = n
      BY <1>5
    <2>2. Len(Numbers(from, m)) = m
      BY <1>4, NumbersLemma
    <2> QED
      BY <1>4, <2>1, <2>2
  <1>7. offset[t] \in 0 .. n
    BY <1>1, <1>5, <1>6 DEF ProgressInv, Under
  <1>8. /\ received[t] = Numbers(0, from + offset[t]) /\ Met(t, at[t] + 1)
        /\ call[t].method.target # "writer" => offset[t] = 0
    BY <1>1 DEF ProgressInv, Under, Heard, from
  <1> QED
    BY <1>2, <1>3, <1>4, <1>5, <1>7, <1>8 DEF from, to

\* A writer takes n of what is left.
LEMMA WriterProgress ==
  ASSUME IInv, CompleteInv, NEW t \in Threads, WriterReturns(t)
  PROVE  ProgressInv(t)'
  <1> DEFINE from == Start(call[t], at[t])
             n == Start(call[t], at[t] + 1) - from
  <1>1. /\ pc[t] = "callback" /\ call[t].method.target = "writer" /\ Upcoming(t).f = "write"
        /\ UNCHANGED <<call, told, finished>>
        /\ \/ \E k \in 1 .. Len(Rest(t)) : WriterCounts(t, k)
           \/ WriterRefuses(t)
    BY DEF WriterReturns, LeaveWriter
  <1>2. /\ at[t] \in 1 .. Len(Plan(call[t])) /\ Len(Plan(call[t])) \in Nat
        /\ from \in Nat /\ n \in Nat /\ from + n = Start(call[t], at[t] + 1)
        /\ Upcoming(t).bytes = Numbers(from, n)
        /\ offset[t] \in 0 .. n
        /\ received[t] = Numbers(0, from + offset[t])
        /\ Met(t, at[t] + 1)
        /\ ShapeOf(call[t], Upcoming(t), at[t], at[t] + 1)
    BY <1>1, CallbackState
  <1> DEFINE o == offset[t]
             rest == n - o
  <1> HIDE DEF n, from
  <1>3. rest \in Nat /\ o \in Nat
    BY <1>2
  <1>4. Rest(t) = Numbers(from + o, rest) /\ Len(Rest(t)) = rest
    <2>1. Len(Upcoming(t).bytes) = n
      BY <1>2, NumbersLemma
    <2>2. n \in o .. n /\ o \in 0 .. n
      BY <1>2
    <2>3. Rest(t) = Numbers(from + o, n - o)
      <3>1. Rest(t) = SubSeq(Numbers(from, n), o + 1, n)
        BY <1>2, <2>1 DEF Rest
      <3> HIDE DEF o
      <3>2. SubSeq(Numbers(from, n), o + 1, n) = Numbers(from + o, n - o)
        BY <1>2, <2>2, NumbersPart
      <3> QED
        BY <3>1, <3>2
    <2>4. PICK a \in Nat, m \in Nat : a = from + o /\ m = rest
      BY <1>2, <1>3
    <2>5. Len(Numbers(a, m)) = m
      BY NumbersLemma
    <2> QED
      BY <2>3, <2>4, <2>5
  <1>5. ASSUME NEW k \in 1 .. Len(Rest(t)), WriterCounts(t, k)
        PROVE  ProgressInv(t)'
    <2>1. k \in 1 .. rest
      BY <1>4, <1>5
    <2>2. SubSeq(Rest(t), 1, k) = Numbers(from + o, k)
      <3>1. k \in 0 .. rest /\ 0 \in 0 .. rest /\ from + o \in Nat
        BY <1>2, <1>3, <2>1, SMTT(40)
      <3>2. SubSeq(Numbers(from + o, rest), 0 + 1, k) = Numbers(from + o + 0, k - 0)
        BY <1>3, <3>1, NumbersPart
      <3>3. 0 + 1 = 1 /\ from + o + 0 = from + o /\ k - 0 = k
        BY <3>1
      <3> QED
        BY <1>4, <3>2, <3>3
    <2>3. received'[t] = Numbers(0, from + o + k)
      <3>1. received'[t] = received[t] \o SubSeq(Rest(t), 1, k)
        BY <1>5 DEF WriterCounts, Accept, CompleteInv, HistoriesOK
      <3>2. from + o \in Nat /\ k \in Nat /\ 0 \in Nat /\ 0 + (from + o) = from + o
        BY <1>2, <2>1
      <3>3. Numbers(0, from + o) \o Numbers(0 + (from + o), k) = Numbers(0, from + o + k)
        BY <3>2, NumbersConcat
      <3> QED
        BY <1>2, <2>2, <3>1, <3>2, <3>3
    <2>4. CASE k < Len(Rest(t))
      <3>1. /\ offset'[t] = o + k /\ at' = at /\ pc'[t] = "attach"
        BY <1>5, <2>4
        DEF WriterCounts, Goto, IInv, LocalsOK, CompleteInv, HistoriesOK
      <3>2. o + k \in Nat /\ o + k <= n
        BY <1>2, <1>3, <1>4, <2>1, <2>4, SMTT(40)
      <3>3. Met(t, at[t])
        <4>1. Begun(call[t], at[t] + 1) = Begun(call[t], at[t])
          BY <1>1, <1>2 DEF ShapeOf
        <4>2. Ended(call[t], at[t] + 1) = Ended(call[t], at[t])
          BY <1>1, <1>2 DEF ShapeOf
        <4> QED
          BY <1>2, <4>1, <4>2 DEF Met
      <3>4. Met(t, at[t])'
        BY <1>1, <3>1, <3>3 DEF Met
      <3>5. Heard(t, at[t], offset[t])'
        <4>1. from + (o + k) = from + o + k
          BY <1>2, <1>3, <2>1
        <4>2. Start(call[t], at[t])' = from
          BY <1>1, <3>1 DEF from
        <4> QED
          BY <2>3, <3>1, <4>1, <4>2 DEF Heard
      <3>6. Len(Upcoming(t).bytes)' = n
        <4>1. Upcoming(t)' = Upcoming(t)
          BY <1>1, <3>1 DEF Upcoming
        <4> QED
          BY <1>2, <4>1, NumbersLemma, ZenonT(60)
      <3>7. at'[t] \in 1 .. Len(Plan(call[t]))' + 1 /\ at'[t] <= Len(Plan(call[t]))'
        BY <1>1, <1>2, <3>1
      <3> QED
        BY <1>1, <3>1, <3>2, <3>4, <3>5, <3>6, <3>7 DEF ProgressInv, Under
    <2>5. CASE ~ (k < Len(Rest(t)))
      <3>1. Advance(t)
        BY <1>5, <2>5 DEF WriterCounts
      <3>2. from + o + k = Start(call[t], at[t] + 1)
        BY <1>2, <1>3, <1>4, <2>1, <2>5
      <3> QED
        BY <1>1, <1>2, <2>3, <3>1, <3>2, AdvanceProgress
    <2> QED
      BY <2>4, <2>5
  <1>6. CASE WriterRefuses(t)
    <2>1. UNCHANGED <<call, at, offset>>
      BY <1>1, <1>6 DEF WriterRefuses, Raises
    <2>2. PICK o1 : /\ CoreReturns(t, o1)
                    /\ CallResult(o1, call[t].method.label).k = "exception"
      <3>1. ASSUME NEW e \in {Exception("ValueError"), Exception("TypeError"), UserError(t)},
                   Raises(t, e)
            PROVE  /\ CoreReturns(t, CallbackError(e))
                   /\ CallResult(CallbackError(e), call[t].method.label).k = "exception"
        <4>1. e.k = "exception"
          BY PythonErrors DEF IsPythonError
        <4> QED
          BY <3>1, <4>1, CallbackErrorLemma DEF Raises
      <3>2. CallResult(CoreError("Io"), call[t].method.label).k = "exception"
        <4>1. "Io" \in DOMAIN ClassOf
          BY DEF ClassOf
        <4> QED
          BY <4>1, CoreErrorLemma
      <3> QED
        BY <1>6, <3>1, <3>2 DEF WriterRefuses
    <2> QED
      BY <2>1, <2>2, FailProgress
  <1> QED
    BY <1>1, <1>5, <1>6

\* What Python is given when all of a callback's bytes are taken at once.
LEMMA AcceptAll ==
  ASSUME IInv, CompleteInv, NEW t \in Threads, pc[t] = "callback",
         call[t].method.target # "writer", Accept(t, Upcoming(t).bytes)
  PROVE  received'[t] = Numbers(0, Start(call[t], at[t] + 1))
  <1> DEFINE from == Start(call[t], at[t])
             n == Start(call[t], at[t] + 1) - from
  <1>1. /\ from \in Nat /\ n \in Nat /\ from + n = Start(call[t], at[t] + 1)
        /\ Upcoming(t).bytes = Numbers(from, n)
        /\ offset[t] = 0
        /\ received[t] = Numbers(0, from + offset[t])
    BY CallbackState
  <1>2. received'[t] = received[t] \o Upcoming(t).bytes
    BY DEF Accept, CompleteInv, HistoriesOK
  <1> HIDE DEF n, from
  <1>3. 0 + from = from /\ from + offset[t] = from /\ 0 \in Nat
    BY <1>1
  <1>4. Numbers(0, from) \o Numbers(0 + from, n) = Numbers(0, from + n)
    BY <1>1, <1>3, NumbersConcat
  <1> QED
    BY <1>1, <1>2, <1>3, <1>4

\* A callable takes the whole chunk, or refuses it.
LEMMA CallbackProgress ==
  ASSUME IInv, CompleteInv, NEW t \in Threads, CallbackReturns(t)
  PROVE  ProgressInv(t)'
  <1> USE DEF CallbackReturns
  <1>1. /\ pc[t] = "callback" /\ call[t].method.target # "writer"
        /\ UNCHANGED <<call, told, finished>>
    OBVIOUS
  <1>2. CASE Accept(t, Upcoming(t).bytes) /\ Advance(t)
    BY <1>1, <1>2, AcceptAll, CallbackState, AdvanceProgress
  <1>3. ASSUME NEW e, e.k = "exception", CoreReturns(t, CallbackError(e)),
               UNCHANGED <<at, offset>>
        PROVE  ProgressInv(t)'
    BY <1>1, <1>3, CallbackErrorLemma, FailProgress
  <1>4. CASE /\ CoreReturns(t, CallbackError(Exception("CancelledError")))
             /\ UNCHANGED <<at, offset>>
    BY <1>3, <1>4, ExceptionLemma
  <1>5. ASSUME NEW e \in {Exception("TypeError"), UserError(t)}, Raises(t, e)
        PROVE  ProgressInv(t)'
    <2>1. e.k = "exception"
      BY PythonErrors DEF IsPythonError
    <2> QED
      BY <1>3, <1>5, <2>1 DEF Raises
  <1> QED
    BY <1>2, <1>4, <1>5

\* An entry sink's answer, and what follows of it.
LEMMA SinkProgress ==
  ASSUME IInv, CompleteInv, NEW t \in Threads, SinkReturns(t) \/ FinishCallback(t)
  PROVE  ProgressInv(t)'
  <1>0. ProgressInv(t)
    BY DEF CompleteInv
  <1>1. CASE SinkReturns(t)
    <2>1. /\ pc[t] = "callback" /\ pc'[t] = "finish" /\ call[t].method.target # "writer"
          /\ UNCHANGED <<call, at, offset, told, finished>>
      BY <1>1 DEF SinkReturns, Goto, IInv, LocalsOK
    <2>2. PICK a : /\ answer' = [answer EXCEPT ![t] = a]
                   /\ a = Go => Accept(t, Upcoming(t).bytes)
      BY <1>1 DEF SinkReturns
    <2>3. answer'[t] = a
      BY <2>2 DEF IInv, LocalsOK
    <2>4. at[t] <= Len(Plan(call[t])) /\ Met(t, at[t] + 1)
      BY <2>1, CallbackState
    <2>5. Met(t, at[t] + 1)'
      BY <2>1, <2>4 DEF Met
    <2>6. ASSUME answer'[t] = Go PROVE Heard(t, at[t] + 1, 0)'
      <3>1. received'[t] = Numbers(0, Start(call[t], at[t] + 1))
        BY <2>1, <2>2, <2>3, <2>6, AcceptAll
      <3>2. Start(call[t], at[t] + 1) \in Nat
        BY <2>1, CallbackState DEF ShapeOf
      <3> QED
        BY <2>1, <3>1, <3>2 DEF Heard
    <2> QED
      BY <1>0, <2>1, <2>4, <2>5, <2>6 DEF ProgressInv, Under
  <1>2. CASE FinishCallback(t)
    <2>1. pc[t] = "finish" /\ UNCHANGED <<call, received, told, finished>>
      BY <1>2 DEF FinishCallback, history
    <2>2. AnswerInv(t)
      BY <2>1 DEF IInv, ThreadInv
    <2>3. CASE Advance(t) /\ answer[t] = Go
      <3>1. at[t] \in 1 .. Len(Plan(call[t])) /\ Heard(t, at[t] + 1, 0) /\ Met(t, at[t] + 1)
        BY <1>0, <2>1, <2>3, CallPlan DEF ProgressInv, PlanOK, Under
      <3>2. Start(call[t], at[t] + 1) \in Nat
        BY <3>1, CallPlan DEF PlanOK, Shape, ShapeOf
      <3>3. received'[t] = Numbers(0, Start(call[t], at[t] + 1))
        BY <2>1, <3>1, <3>2 DEF Heard
      <3> QED
        BY <2>1, <2>3, <3>1, <3>3, AdvanceProgress
    <2>4. CASE CoreReturns(t, CoreError("Cancelled")) /\ UNCHANGED <<at, offset>>
      <3>1. "Cancelled" \in DOMAIN ClassOf
        BY DEF ClassOf
      <3>2. CallResult(CoreError("Cancelled"), call[t].method.label).k = "exception"
        BY <3>1, CoreErrorLemma
      <3> QED
        BY <2>1, <2>4, <3>2, FailProgress
    <2>5. CASE /\ answer[t].k = "raise" /\ CoreReturns(t, CallbackError(answer[t].e))
               /\ UNCHANGED <<at, offset>>
      <3>1. answer[t].e.k = "exception"
        BY <2>2, <2>5 DEF AnswerInv, IsPythonError, Go, Stop
      <3>2. CallResult(CallbackError(answer[t].e), call[t].method.label).k = "exception"
        BY <3>1, CallbackErrorLemma
      <3> QED
        BY <2>1, <2>5, <3>2, FailProgress
    <2> QED
      BY <1>2, <2>3, <2>4, <2>5 DEF FinishCallback
  <1> QED
    BY <1>1, <1>2

\* A volume provider hands out no bytes of the call.
LEMMA ProviderProgress ==
  ASSUME IInv, CompleteInv, NEW t \in Threads, ProviderReturns(t)
  PROVE  ProgressInv(t)'
  <1> USE DEF ProviderReturns
  <1> DEFINE n == Len(Plan(call[t]))
  <1>0. ProgressInv(t)
    BY DEF CompleteInv
  <1>1. /\ pc[t] = "callback" /\ UNCHANGED <<call, received, told, finished>>
        /\ Upcoming(t).f = "open_volume"
    OBVIOUS
  <1>2. at[t] \in 1 .. n /\ n \in Nat /\ Met(t, at[t] + 1)
    BY <1>1, CallbackState
  <1>3. call[t].method.does = "volumes"
    BY <1>1, CallbackState DEF ShapeOf
  <1>4. \A i : Start(call[t], i) = 0 /\ Begun(call[t], i) = 0 /\ Ended(call[t], i) = 0
    BY <1>3 DEF Start, Begun, Ended
  <1>5. received[t] = Numbers(0, 0)
    <2>1. offset[t] = 0
      BY <1>1, <1>3, CallbackState, CallPlan, MethodTargets DEF CallOK
    <2>2. received[t] = Numbers(0, Start(call[t], at[t]) + offset[t])
      BY <1>1, CallbackState
    <2>3. Start(call[t], at[t]) + offset[t] = 0
      BY <1>4, <2>1
    <2> QED
      BY <2>2, <2>3
  <1>6. CASE Advance(t)
    BY <1>1, <1>2, <1>4, <1>5, <1>6, AdvanceProgress
  <1>7. CASE /\ at' = [at EXCEPT ![t] = n + 1] /\ Goto(t, "core")
             /\ UNCHANGED <<offset, outcome, refusal>>
    <2>1. at'[t] = n + 1 /\ pc'[t] = "core" /\ offset'[t] = 0
      BY <1>1, <1>3, <1>7, CallbackState, CallPlan, MethodTargets
      DEF Goto, IInv, LocalsOK, CompleteInv, HistoriesOK, CallOK
    <2>2. Met(t, at[t])'
      BY <1>1, <1>2, <1>4 DEF Met
    <2>3. Heard(t, at[t], 0)'
      BY <1>1, <1>4, <1>5 DEF Heard
    <2>4. at'[t] \in 1 .. Len(Plan(call[t]))' + 1
      BY <1>1, <1>2, <2>1
    <2> QED
      BY <2>1, <2>2, <2>3, <2>4 DEF ProgressInv, Under
  <1>8. ASSUME NEW e \in {"MissingVolume", "LimitExceeded"}, CoreReturns(t, CoreError(e)),
               UNCHANGED <<at, offset>>
        PROVE  ProgressInv(t)'
    <2>1. e \in DOMAIN ClassOf
      BY DEF ClassOf
    <2>2. CallResult(CoreError(e), call[t].method.label).k = "exception"
      BY <2>1, CoreErrorLemma
    <2> QED
      BY <1>1, <1>8, <2>2, FailProgress
  <1>9. ASSUME NEW e \in {Exception("TypeError"), UserError(t)},
               CoreReturns(t, CallbackError(e)), UNCHANGED <<at, offset>>
        PROVE  ProgressInv(t)'
    <2>1. e.k = "exception"
      BY PythonErrors DEF IsPythonError
    <2>2. CallResult(CallbackError(e), call[t].method.label).k = "exception"
      BY <2>1, CallbackErrorLemma
    <2> QED
      BY <1>1, <1>9, <2>2, FailProgress
  <1> QED
    BY <1>6, <1>7, <1>8, <1>9

\* The result is the core's.
LEMMA ReattachProgress ==
  ASSUME IInv, CompleteInv, NEW t \in Threads, Reattach(t)
  PROVE  ProgressInv(t)'
  <1> PICK r : r = CallResult(outcome[t], call[t].method.label)
    OBVIOUS
  <1>1. ProgressInv(t)
    BY DEF CompleteInv
  <1>2. /\ pc[t] = "return" /\ pc'[t] = "done" /\ result'[t] = r
        /\ UNCHANGED <<call, at, offset, received, told, finished, refusal>>
    BY DEF Reattach, Finish, Goto, IInv, LocalsOK, coreVars, history
  <1>3. r.k = "returned" => Complete(t, r.n)
    BY <1>1, <1>2 DEF ProgressInv
  <1>4. r.k = "returned" => Complete(t, r.n)'
    BY <1>2, <1>3 DEF Complete
  <1>5. result'[t].k = "returned" => Complete(t, result[t].n)'
    BY <1>2, <1>4 DEF Complete
  <1> QED
    BY <1>1, <1>2, <1>5 DEF ProgressInv, Under
-----------------------------------------------------------------------------
\* Every step preserves the invariant.
LEMMA NextIInv == IInv /\ [Next]_vars => IInv'
  <1>1. ASSUME IInv, NEW t \in Threads, Step(t) PROVE IInv'
    BY <1>1, InspectStep, SymlinkTargetStep, EnterStep, CancelTokenStep, CoreFailsStep,
       CoreGoesOnStep, InterpreterStep, WriterReturnsStep, CallbackReturnsStep,
       SinkReturnsStep, FinishCallbackStep, ProviderReturnsStep, ReattachStep
    DEF Step
  <1>2. ASSUME IInv, UNCHANGED vars PROVE IInv'
    <2>1. ASSUME NEW t \in Threads PROVE ThreadInv(t)'
      <3>1. ThreadInv(t) /\ TokenOf(t)' = TokenOf(t)
        BY <1>2 DEF IInv, TokenOf, vars
      <3> QED
        BY <1>2, <3>1
        DEF ThreadInv, RefusalIsLast, AnswerInv, Truth, vars, coreVars, history
    <2> QED
      BY <1>2, <2>1 DEF IInv, LocalsOK, vars, coreVars, history
  <1> QED
    BY <1>1, <1>2 DEF Next, AllDone

\* What a call raises is true for any threads, calls and shared tokens: the
\* callback's own exception comes back through the core, a cancellation was
\* asked for, and the format is that of the object.
THEOREM RaisedTruthful == Spec => []RaisedIsTruthful
  <1>1. Init => IInv
    BY InitIInv
  <1>2. IInv /\ [Next]_vars => IInv'
    BY NextIInv
  <1>3. IInv => RaisedIsTruthful
    <2> SUFFICES ASSUME IInv, NEW t \in Threads
                 PROVE  /\ RefusalIsLast(t) /\ OwnExceptionComesBack(t)
                        /\ CancellationIsAsked(t) /\ FormatIsItsOwn(t)
      BY DEF RaisedIsTruthful
    <2>1. ThreadInv(t)
      BY DEF IInv
    <2> QED
      BY <2>1 DEF ThreadInv, Truth, OwnExceptionComesBack, CancellationIsAsked,
                  FormatIsItsOwn, Raised
  <1> QED
    BY <1>1, <1>2, <1>3, PTL DEF Spec

\* Nothing has been called back for yet.
LEMMA InitProgress == Init => CompleteInv
  <1> SUFFICES ASSUME Init PROVE CompleteInv
    OBVIOUS
  <1>1. IInv
    BY InitIInv
  <1>2. HistoriesOK
    BY DEF Init, HistoriesOK
  <1>3. ASSUME NEW t \in Threads PROVE ProgressInv(t)
    <2> DEFINE c == call[t]
    <2>1. /\ pc[t] = "python" /\ at[t] = 1 /\ offset[t] = 0 /\ received[t] = << >>
          /\ told[t] = << >> /\ finished[t] = << >>
      BY DEF Init
    <2>2. /\ Len(Plan(c)) \in Nat
          /\ Start(c, 1) = 0 /\ Begun(c, 1) = 0 /\ Ended(c, 1) = 0
      BY <1>1, CallPlan DEF PlanOK
    <2>3. << >> = Indices(c, 0) /\ << >> = Numbers(0, 0)
      BY DEF Numbers, Indices
    <2> HIDE DEF c
    <2>4. Heard(t, 1, 0)
      BY <2>1, <2>2, <2>3 DEF Heard, c
    <2>5. [k \in DOMAIN << >> |-> told[t][k].entry.index] = << >>
      OBVIOUS
    <2>6. Met(t, 1)
      BY <2>1, <2>2, <2>3, <2>5 DEF Met, c
    <2>7. 1 \in 1 .. Len(Plan(c)) + 1
      BY <2>2
    <2> QED
      BY <2>1, <2>4, <2>6, <2>7 DEF ProgressInv, Under, c
  <1> QED
    BY <1>2, <1>3 DEF CompleteInv

\* Every step keeps the progress of the call it is a step of.
LEMMA NextProgress == IInv /\ CompleteInv /\ [Next]_vars => CompleteInv'
  <1>1. ASSUME IInv, CompleteInv, NEW t \in Threads, Step(t) PROVE CompleteInv'
    <2>1. ProgressInv(t)'
      BY <1>1, PythonProgress, CoreProgress, AttachProgress, InsideProgress, WriterProgress,
         CallbackProgress, SinkProgress, ProviderProgress, ReattachProgress
      DEF Step
    <2> QED
      BY <1>1, <2>1, FrameStep, ProgressStep
  <1>2. ASSUME IInv, CompleteInv, UNCHANGED vars PROVE CompleteInv'
    <2>1. ASSUME NEW t \in Threads PROVE ProgressInv(t)'
      <3>1. ProgressInv(t)
        BY <1>2 DEF CompleteInv
      <3> QED
        BY <1>2, <3>1 DEF ProgressInv, Heard, Met, Complete, Upcoming, vars, coreVars, history
    <2> QED
      BY <1>2, <2>1 DEF CompleteInv, HistoriesOK, vars, coreVars, history
  <1> QED
    BY <1>1, <1>2 DEF Next, AllDone

\* A call that returns a count has had every byte accepted by Python once and in
\* order, whatever short counts the writer gave and whatever the other threads
\* did, and every entry was begun and finished in turn: PythonSink::write below
\* write_all, and the EntrySink of each format.
THEOREM OkComplete == Spec => []OkIsComplete
  <1>1. Init => IInv /\ CompleteInv
    BY InitIInv, InitProgress
  <1>2. IInv /\ CompleteInv /\ [Next]_vars => (IInv /\ CompleteInv)'
    BY NextIInv, NextProgress
  <1>3. IInv /\ CompleteInv => OkIsComplete
    <2> SUFFICES ASSUME IInv, CompleteInv, NEW t \in Threads, ReturnedCount(t)
                 PROVE  /\ refusal[t] = Nothing
                        /\ received[t] = Numbers(0, result[t].n)
                        /\ call[t].method.does = "all" =>
                             /\ [i \in DOMAIN told[t] |-> told[t][i].entry.index]
                                  = [i \in DOMAIN call[t].entries |-> call[t].entries[i].index]
                             /\ finished[t] = [i \in DOMAIN call[t].entries |->
                                                 call[t].entries[i].index]
      BY DEF OkIsComplete
    <2>1. Complete(t, result[t].n)
      BY DEF CompleteInv, ProgressInv, ReturnedCount
    <2>2. DOMAIN call[t].entries = 1 .. Len(call[t].entries)
      BY CallPlan DEF CallOK
    <2>3. Indices(call[t], Len(call[t].entries))
            = [i \in DOMAIN call[t].entries |-> call[t].entries[i].index]
      BY <2>2 DEF Indices
    <2> QED
      BY <2>1, <2>3 DEF Complete
  <1> QED
    BY <1>1, <1>2, <1>3, PTL DEF Spec
-----------------------------------------------------------------------------
(***************************************************************************)
(* Safe paths                                                              *)
(***************************************************************************)

\* Components are finitely many.
LEMMA ComponentsFinite ==
  ASSUME NEW path \in Seq(Characters), NEW separators
  PROVE  IsFiniteSet(Components(path, separators))
  <1> DEFINE D == DOMAIN path
  <1>1. Len(path) \in Nat /\ D = 1 .. Len(path)
    OBVIOUS
  <1>2. IsFiniteSet(D)
    <2>1. 1 \in Int /\ Len(path) \in Int
      BY <1>1
    <2> QED
      BY <1>1, <2>1, FS_Interval
  <1> HIDE DEF D
  <1>3. IsFiniteSet(D \X D)
    BY <1>2, FS_Product
  <1>4. Components(path, separators) \in SUBSET (D \X D)
    BY DEF Components, D
  <1> QED
    BY <1>3, <1>4, FS_Subset

\* A component that leaves its directory is a parent.
LEMMA LevelsFound ==
  ASSUME NEW path \in Seq(Characters), NEW separators \in {{"/"}, {"/", "\\"}}, ~ HasParent(path),
         NEW d \in Components(path, separators)
  PROVE  Levels(SubSeq(path, d[1], d[2])) \in Nat
  <1>1. PICK a \in Int, b \in Int : a = d[1] /\ b = d[2]
    BY DEF Components
  <1>2. PICK n \in Nat : n = Len(path) /\ DOMAIN path = 1 .. n
    BY LenProperties
  <1>3. 1 <= a /\ a <= b /\ b <= n
    BY <1>1, <1>2 DEF Components
  <1>4. /\ a = 1 \/ path[a - 1] \in separators
        /\ b = n \/ path[b + 1] \in separators
    BY <1>1, <1>2 DEF Components
  <1> DEFINE c == SubSeq(path, a, b)
  <1>6. Len(c) = b - a + 1 /\ \A i \in 1 .. b - a + 1 : c[i] = path[a + i - 1]
    <2>1. ASSUME NEW i \in a .. b PROVE path[i] \in Characters
      <3>1. i \in 1 .. n
        BY <1>3
      <3> QED
        BY <1>2, <3>1, ElementOfSeq
    <2>2. a \in Int /\ b \in Int
      BY <1>1
    <2>3. Len(c) = IF a <= b THEN b - a + 1 ELSE 0
      BY <2>1, <2>2, SubSeqProperties
    <2>4. \A i \in 1 .. b - a + 1 : c[i] = path[a + i - 1]
      BY <2>1, <2>2, SubSeqProperties
    <2> QED
      BY <1>3, <2>3, <2>4
  <1>7. ASSUME c = <<".", ".">> PROVE FALSE
    <2>1. Len(c) = 2 /\ c[1] = "." /\ c[2] = "."
      BY <1>7
    <2> HIDE DEF c
    <2>2. b = a + 1 /\ 1 \in 1 .. b - a + 1 /\ 2 \in 1 .. b - a + 1
      <3>1. b - a + 1 = 2
        BY <1>6, <2>1
      <3>2. b = a + 1
        BY <3>1
      <3> QED
        BY <3>1, <3>2
    <2>3. path[a] = "." /\ path[a + 1] = "."
      <3>1. c[1] = path[a + 1 - 1] /\ c[2] = path[a + 2 - 1]
        BY <1>6, <2>2
      <3>2. a + 1 - 1 = a /\ a + 2 - 1 = a + 1
        OBVIOUS
      <3> QED
        BY <2>1, <3>1, <3>2
    <2>4. a \in 1 .. n - 1 /\ a + 2 = b + 1
      BY <1>3, <2>2
    <2>5. a = 1 \/ IsSeparator(path[a - 1])
      BY <1>4 DEF IsSeparator
    <2>6. a + 2 > n \/ IsSeparator(path[a + 2])
      <3>1. CASE b = n
        BY <2>4, <3>1
      <3>2. CASE b # n
        <4>1. path[b + 1] \in separators
          BY <1>4, <3>2
        <4> QED
          BY <2>4, <4>1 DEF IsSeparator
      <3> QED
        BY <3>1, <3>2
    <2> QED
      BY <1>2, <2>3, <2>4, <2>5, <2>6 DEF HasParent
  <1>8. SubSeq(path, d[1], d[2]) = c
    BY <1>1
  <1> HIDE DEF c
  <1>9. Levels(c) \in {0, 1}
    BY <1>7 DEF Levels
  <1> QED
    BY <1>8, <1>9

\* Without a parent no path climbs.
LEMMA NoParentNoClimb ==
  ASSUME NEW path \in Seq(Characters), NEW separators \in {{"/"}, {"/", "\\"}}, ~ HasParent(path)
  PROVE  ~ Climbs(path, separators)
  <1> DEFINE C == Components(path, separators)
             f == [d \in C |-> Levels(SubSeq(path, d[1], d[2]))]
             Below(c) == {d \in C : d[2] <= c[2]}
  <1>1. IsFiniteSet(C)
    BY ComponentsFinite
  <1>2. \A d \in C : f[d] \in Nat
    BY LevelsFound
  <1> SUFFICES ASSUME NEW c \in C PROVE ~ SumFunctionOnSet(f, Below(c)) < 0
    BY DEF Climbs
  <1>3. Below(c) \in SUBSET C
    OBVIOUS
  <1> HIDE DEF C, f, Below
  <1>4. SumFunctionOnSet(f, Below(c)) \in Nat
    BY <1>1, <1>2, <1>3, SumNatural
  <1> QED
    BY <1>4

\* A path that is accepted stays below the directory it is joined to.
LEMMA AcceptedIsSafe ==
  ASSUME NEW path \in Seq(Characters), ValidateSafePath(path) = "ok"
  PROVE  path # << >> /\ ~ Escapes(path)
  <1>1. path # << >>
    BY DEF ValidateSafePath
  <1>2. /\ ~ IsSeparator(path[1])
        /\ ~ (path[1] = "letter" /\ Len(path) > 1 /\ path[2] = ":")
        /\ ~ HasParent(path)
    BY <1>1 DEF ValidateSafePath
  <1>3. ~ Climbs(path, {"/"}) /\ ~ Climbs(path, {"/", "\\"})
    BY <1>2, NoParentNoClimb
  <1> QED
    BY <1>1, <1>2, <1>3 DEF Escapes, EscapesOnPosix, EscapesOnWindows, IsSeparator

\* Ill-formed characters are none of those that a verdict depends on.
LEMMA LossyVerdict ==
  ASSUME NEW path \in Seq(Characters)
  PROVE  /\ Lossy(path) \in Seq(Characters)
         /\ ValidateSafePath(Lossy(path)) = ValidateSafePath(path)
  <1> DEFINE p == Lossy(path)
  <1>1. /\ Len(path) \in Nat /\ DOMAIN path = 1 .. Len(path)
        /\ \A i \in 1 .. Len(path) : path[i] \in Characters
    OBVIOUS
  <1>2. /\ p \in Seq(Characters) /\ Len(p) = Len(path) /\ DOMAIN p = 1 .. Len(path)
        /\ \A i \in 1 .. Len(path) :
             \A c \in {"/", "\\", ".", ":", "nul", "letter"} : p[i] = c <=> path[i] = c
    BY <1>1 DEF Lossy, Characters
  <1> HIDE DEF p
  <1>3. p = << >> <=> path = << >>
    BY <1>1, <1>2
  <1>4. (\E i \in DOMAIN p : p[i] = "nul") <=> (\E i \in DOMAIN path : path[i] = "nul")
    BY <1>1, <1>2
  <1>5. \A i \in 1 .. Len(path) : IsSeparator(p[i]) <=> IsSeparator(path[i])
    BY <1>2 DEF IsSeparator
  <1>6. HasParent(p) <=> HasParent(path)
    <2>1. ASSUME NEW i \in 1 .. Len(path) - 1
          PROVE  /\ p[i] = "." <=> path[i] = "."
                 /\ p[i + 1] = "." <=> path[i + 1] = "."
                 /\ i = 1 \/ (IsSeparator(p[i - 1]) <=> IsSeparator(path[i - 1]))
                 /\ i + 2 > Len(path) \/ (IsSeparator(p[i + 2]) <=> IsSeparator(path[i + 2]))
      <3>1. /\ i \in 1 .. Len(path) /\ i + 1 \in 1 .. Len(path)
            /\ i = 1 \/ i - 1 \in 1 .. Len(path)
            /\ i + 2 > Len(path) \/ i + 2 \in 1 .. Len(path)
        BY <1>1
      <3> QED
        BY <1>2, <1>5, <3>1
    <2> QED
      BY <1>2, <2>1 DEF HasParent
  <1>7. CASE path = << >>
    BY <1>3, <1>7 DEF ValidateSafePath, p
  <1>8. CASE path # << >>
    <2>1. 1 \in 1 .. Len(path) /\ (Len(path) > 1 => 2 \in 1 .. Len(path))
      BY <1>1, <1>8
    <2>2. /\ IsSeparator(p[1]) <=> IsSeparator(path[1])
          /\ Len(path) > 1 => (IsSeparator(p[2]) <=> IsSeparator(path[2]))
          /\ p[1] = "letter" <=> path[1] = "letter"
          /\ Len(path) > 1 => (p[2] = ":" <=> path[2] = ":")
      BY <1>2, <1>5, <2>1
    <2> QED
      BY <1>2, <1>3, <1>4, <1>6, <1>8, <2>2 DEF ValidateSafePath, p
  <1> QED
    BY <1>2, <1>7, <1>8 DEF p

\* What a snapshot calls safe is, for an entry of any format.
LEMMA SnapshotIsSafe ==
  ASSUME NEW label \in {"7z", "zip", "cpio", "arj", "rpm", "deb"},
         NEW e, e.raw \in Seq(Characters), e.name \in Seq(Characters)
  PROVE  SafeIsSafe(SinkFor(label, e).begin_entry.entry, label)
  <1> DEFINE Seen == SinkFor(label, e).begin_entry.entry
  <1>1. ASSUME NEW name, NEW kind, NEW verdict, NEW s, s = Snapshot(e, name, kind, verdict)
        PROVE  s.raw = e.raw /\ s.name = name /\ (s.path.safe <=> verdict = "ok")
    BY <1>1 DEF Snapshot, PathFields
  <1>2. CASE label = "7z"
    <2>1. PICK kind : Seen = Snapshot(e, Lossy(e.raw), kind,
                                IF e.named THEN ValidateSafeUtf16Path(e.raw) ELSE "missing")
      BY <1>2 DEF SinkFor, PythonEntrySink, SinkArguments, PyEntry
    <2>2. SUFFICES ASSUME Seen.path.safe
                   PROVE  /\ Seen.name # << >> /\ ~ Escapes(Seen.name)
                          /\ ~ Escapes(Seen.raw)
      BY DEF SafeIsSafe
    <2>3. Seen.raw = e.raw /\ Seen.name = Lossy(e.raw) /\ ValidateSafePath(e.raw) = "ok"
      BY <1>1, <2>1, <2>2 DEF ValidateSafeUtf16Path
    <2> QED
      BY <2>3, LossyVerdict, AcceptedIsSafe
  <1>3. CASE label = "zip"
    <2>1. PICK kind : Seen = Snapshot(e, e.name, kind, ValidateSafePath(e.name))
      BY <1>3 DEF SinkFor, PythonZipEntrySink, SinkArguments, PyZipEntry
    <2>2. SUFFICES ASSUME Seen.path.safe
                   PROVE  Seen.name # << >> /\ ~ Escapes(Seen.name)
      BY <1>3 DEF SafeIsSafe
    <2>3. Seen.name = e.name /\ ValidateSafePath(e.name) = "ok"
      BY <1>1, <2>1, <2>2
    <2> QED
      BY <2>3, AcceptedIsSafe
  <1>4. CASE label \in {"cpio", "arj", "rpm", "deb"}
    <2>1. PICK kind : Seen = Snapshot(e, Lossy(e.raw), kind, ValidateSafePath(Lossy(e.raw)))
      <3>1. CASE label = "cpio"
        BY <3>1 DEF SinkFor, PythonCpioEntrySink, SinkArguments, PyCpioEntry
      <3>2. CASE label = "arj"
        BY <3>2 DEF SinkFor, PythonArjEntrySink, SinkArguments, PyArjEntry
      <3>3. CASE label = "rpm"
        BY <3>3 DEF SinkFor, PythonRpmEntrySink, SinkArguments, PyRpmEntry
      <3>4. CASE label = "deb"
        BY <3>4 DEF SinkFor, PythonDebEntrySink, SinkArguments, PyDebEntry
      <3> QED
        BY <1>4, <3>1, <3>2, <3>3, <3>4
    <2>2. SUFFICES ASSUME Seen.path.safe
                   PROVE  /\ Seen.name # << >> /\ ~ Escapes(Seen.name)
                          /\ ~ Escapes(Seen.raw)
      BY DEF SafeIsSafe
    <2>3. /\ Seen.raw = e.raw /\ Seen.name = Lossy(e.raw)
          /\ ValidateSafePath(Lossy(e.raw)) = "ok"
      BY <1>1, <2>1, <2>2
    <2> QED
      BY <2>3, LossyVerdict, AcceptedIsSafe
  <1> QED
    BY <1>2, <1>3, <1>4
-----------------------------------------------------------------------------
(***************************************************************************)
(* Headers, stream information and limits                                  *)
(***************************************************************************)

\* A set of places has a last one.
LEMMA LastOf ==
  ASSUME NEW n \in Nat, NEW S \in SUBSET (1 .. n), S # {}
  PROVE  Max(S) \in S /\ \A y \in S : y <= Max(S)
  <1> DEFINE T == {n - x : x \in S}
  <1>1. T \in SUBSET Nat /\ T # {}
    <2>1. ASSUME NEW x \in S PROVE n - x \in Nat
      <3>1. x \in 1 .. n
        OBVIOUS
      <3> QED
        BY <3>1
    <2> QED
      BY <2>1
  <1>2. PICK t \in T : \A u \in T : t <= u
    BY <1>1, LeastElement
  <1>3. PICK x \in S : t = n - x
    BY <1>2
  <1>4. ASSUME NEW y \in S PROVE x >= y
    <2>1. n - x <= n - y
      BY <1>2, <1>3
    <2>2. x \in Int /\ y \in Int
      OBVIOUS
    <2> QED
      BY <2>1, <2>2
  <1>5. \E z \in S : \A y \in S : z >= y
    BY <1>4
  <1>6. Max(S) \in S /\ \A y \in S : Max(S) >= y
    BY <1>5 DEF Max
  <1> QED
    BY <1>6

\* The places of key k among the first n.
PlacesOf(keys, n, k) == {i \in 1 .. n : keys[i] = k}
\* What n items make: each key has the value it was set to last.
DictAfter(keys, values, n) ==
  [k \in {keys[i] : i \in 1 .. n} |-> values[Max(PlacesOf(keys, n, k))]]
IsAfter(g, keys, values) ==
  g = [n \in 0 .. Len(keys) |->
         IF n = 0 THEN << >> ELSE SetItem(g[n - 1], keys[n], values[n])]

\* One more item is set.
LEMMA OneMoreItem ==
  ASSUME NEW keys, NEW values, NEW n \in Nat \ {0}
  PROVE  DictAfter(keys, values, n)
           = SetItem(DictAfter(keys, values, n - 1), keys[n], values[n])
  <1> DEFINE a == DictAfter(keys, values, n - 1)
             b == DictAfter(keys, values, n)
             s == SetItem(a, keys[n], values[n])
  <1>1. 1 .. n = (1 .. n - 1) \cup {n} /\ n \notin 1 .. n - 1
    OBVIOUS
  <1>2. DOMAIN b = DOMAIN a \cup {keys[n]}
    BY <1>1 DEF DictAfter
  <1>3. DOMAIN s = DOMAIN a \cup {keys[n]}
    BY DEF SetItem
  <1>4. ASSUME NEW k \in DOMAIN b PROVE b[k] = s[k]
    <2>1. b[k] = values[Max(PlacesOf(keys, n, k))] /\ PlacesOf(keys, n, k) \subseteq 1 .. n
      BY DEF DictAfter, PlacesOf
    <2>2. CASE k = keys[n]
      <3>1. n \in PlacesOf(keys, n, k)
        BY <2>2 DEF PlacesOf
      <3>2. Max(PlacesOf(keys, n, k)) = n
        <4>1. /\ Max(PlacesOf(keys, n, k)) \in 1 .. n
              /\ n <= Max(PlacesOf(keys, n, k))
          BY <2>1, <3>1, LastOf
        <4> QED
          BY <4>1
      <3>3. s[k] = values[n]
        BY <1>2, <2>2 DEF SetItem
      <3> QED
        BY <2>1, <3>2, <3>3
    <2>3. CASE k # keys[n]
      <3>1. PlacesOf(keys, n, k) = PlacesOf(keys, n - 1, k)
        BY <1>1, <2>3 DEF PlacesOf
      <3>2. k \in DOMAIN a
        BY <1>2, <2>3
      <3>3. s[k] = a[k]
        BY <1>2, <2>3 DEF SetItem
      <3>4. a[k] = values[Max(PlacesOf(keys, n - 1, k))]
        BY <3>2 DEF DictAfter
      <3> QED
        BY <2>1, <3>1, <3>3, <3>4
    <2> QED
      BY <2>2, <2>3
  <1>5. b = [k \in DOMAIN b |-> b[k]] /\ s = [k \in DOMAIN s |-> s[k]]
    BY DEF DictAfter, SetItem
  <1> HIDE DEF a, b, s
  <1>6. b = s
    BY <1>2, <1>3, <1>4, <1>5
  <1> QED
    BY <1>6 DEF a, b, s

\* The dict a header becomes.
LEMMA DictLemma ==
  ASSUME NEW keys, NEW values, Len(keys) \in Nat
  PROVE  DictOf(keys, values) = DictAfter(keys, values, Len(keys))
  <1> DEFINE N == Len(keys)
             h == [n \in 0 .. N |-> DictAfter(keys, values, n)]
             DictStep(f, n) == IF n = 0 THEN << >> ELSE SetItem(f[n - 1], keys[n], values[n])
             g == CHOOSE f : IsAfter(f, keys, values)
  <1>1. DictOf(keys, values) = g[N]
    BY DEF DictOf, IsAfter
  <1>2. N \in Nat
    OBVIOUS
  <1> HIDE DEF N
  <1>3. ASSUME NEW n \in 0 .. N PROVE h[n] = DictStep(h, n)
    <2>1. CASE n = 0
      <3>1. 1 .. n = {}
        BY <2>1
      <3>2. DictAfter(keys, values, n) = << >>
        BY <3>1 DEF DictAfter
      <3> QED
        BY <2>1, <3>2
    <2>2. CASE n # 0
      <3>1. n \in Nat \ {0} /\ n - 1 \in 0 .. N
        BY <1>2, <2>2
      <3>2. h[n] = DictAfter(keys, values, n) /\ h[n - 1] = DictAfter(keys, values, n - 1)
        BY <3>1
      <3> HIDE DEF h
      <3> QED
        BY <2>2, <3>1, <3>2, OneMoreItem
    <2> QED
      BY <2>1, <2>2
  <1>4. h = [n \in 0 .. N |-> h[n]]
    OBVIOUS
  <1> HIDE DEF h
  <1>5. h = [n \in 0 .. N |-> DictStep(h, n)]
    BY <1>3, <1>4
  <1>6. IsAfter(h, keys, values)
    BY <1>5 DEF IsAfter, N
  <1>7. IsAfter(g, keys, values)
    BY <1>6
  <1> HIDE DEF g
  <1>8. \A n \in 0 .. N : g[n] = DictStep(g, n)
    BY <1>7 DEF IsAfter, N
  <1> DEFINE S == {n \in Nat : n <= N => g[n] = h[n]}
  <1>9. 0 \in S
    <2>1. 0 \in 0 .. N
      BY <1>2
    <2>2. g[0] = DictStep(g, 0) /\ h[0] = DictStep(h, 0)
      BY <1>3, <1>8, <2>1
    <2> QED
      BY <2>2
  <1>10. ASSUME NEW n \in Nat, n \in S PROVE n + 1 \in S
    <2>1. CASE n + 1 <= N
      <3>1. n + 1 \in 0 .. N /\ n <= N /\ n + 1 # 0 /\ (n + 1) - 1 = n
        BY <1>2, <2>1
      <3>2. g[n + 1] = DictStep(g, n + 1) /\ h[n + 1] = DictStep(h, n + 1)
        BY <1>3, <1>8, <3>1
      <3>3. g[n] = h[n]
        BY <1>10, <3>1
      <3>4. DictStep(g, n + 1) = SetItem(g[n], keys[n + 1], values[n + 1])
            /\ DictStep(h, n + 1) = SetItem(h[n], keys[n + 1], values[n + 1])
        BY <3>1
      <3> HIDE DEF DictStep
      <3>5. g[n + 1] = h[n + 1]
        BY <3>2, <3>3, <3>4
      <3> QED
        BY <3>5
    <2>2. CASE ~ n + 1 <= N
      BY <2>2
    <2> QED
      BY <2>1, <2>2
  <1>11. N \in S
    <2> HIDE DEF S
    <2>1. Nat \subseteq S
      BY <1>9, <1>10, SetInduction
    <2> QED
      BY <1>2, <2>1
  <1>12. g[N] = h[N] /\ N \in 0 .. N
    BY <1>2, <1>11
  <1>13. h[N] = DictAfter(keys, values, N)
    BY <1>12 DEF h
  <1> QED
    BY <1>1, <1>12, <1>13 DEF N

\* A header entry, by number and by name.
LEMMA NamedValue ==
  ASSUME NEW e, e.items \in Seq(Range(e.items))
  PROVE  LET named == NamedValueToPython(e)
             plain == ValueToPython(e)
         IN  \/ named.k = plain.k /\ named = plain
             \/ named.k = "int" /\ plain.k = "list" /\ plain.v = <<named.v>>
             \/ /\ named.k = "bytes" /\ plain.k = "list"
                /\ named.v = IF plain.v = << >> THEN << >> ELSE plain.v[1]
  <1>1. CASE e.type \in {"int16", "int32", "int64"} /\ Len(e.items) = 1
    <2>1. NamedValueToPython(e) = [k |-> "int", v |-> e.items[1]]
      BY <1>1 DEF NamedValueToPython
    <2>2. ValueToPython(e) = [k |-> "list", v |-> e.items]
      BY <1>1 DEF ValueToPython
    <2>3. e.items = <<e.items[1]>>
      <3> DEFINE s == e.items
                 R == Range(e.items)
      <3>1. s \in Seq(R) /\ Len(s) = 1
        BY <1>1
      <3> HIDE DEF s, R
      <3>2. s = <<s[1]>>
        BY <3>1
      <3> QED
        BY <3>2 DEF s
    <2> QED
      BY <2>1, <2>2, <2>3
  <1>2. CASE e.type = "i18n_string"
    BY <1>2 DEF NamedValueToPython, ValueToPython
  <1>3. CASE /\ ~ (e.type \in {"int16", "int32", "int64"} /\ Len(e.items) = 1)
             /\ e.type # "i18n_string"
    BY <1>3 DEF NamedValueToPython
  <1> QED
    BY <1>1, <1>2, <1>3

\* The keys and the values of a header of n entries are n.
LEMMA HeaderItems ==
  ASSUME NEW s, NEW n \in Nat, DOMAIN s = 1 .. n, s = [i \in 1 .. n |-> s[i]]
  PROVE  Len(s) = n
  <1> DEFINE R == {s[i] : i \in 1 .. n}
  <1>1. s \in [1 .. n -> R]
    OBVIOUS
  <1> HIDE DEF R
  <1>2. s \in Seq(R)
    BY <1>1, SeqDef
  <1> QED
    BY <1>2, LenProperties

\* Each key of d has the value at its last place.
LastWins(d, keys, values, places) ==
  /\ DOMAIN d = {keys[i] : i \in places}
  /\ \A k \in DOMAIN d :
       LET own == {i \in places : keys[i] = k} IN
       own # {} /\ Max(own) \in own /\ d[k] = values[Max(own)]

\* The entry of a header that counts for a tag is the last one.
LEMMA DictOfHeader ==
  ASSUME NEW header, HeaderOK(header), NEW Key, NEW Value,
         DOMAIN Key = DOMAIN header, DOMAIN Value = DOMAIN header,
         Key = [i \in DOMAIN header |-> Key[i]]
  PROVE  LastWins(DictOf(Key, Value), Key, Value, DOMAIN header)
  <1>1. PICK n \in Nat : n = Len(header) /\ DOMAIN header = 1 .. n
    BY DEF HeaderOK
  <1>2. Len(Key) = n
    BY <1>1, HeaderItems
  <1>3. DictOf(Key, Value) = DictAfter(Key, Value, n)
    BY <1>2, DictLemma
  <1>4. DOMAIN DictAfter(Key, Value, n) = {Key[i] : i \in 1 .. n}
    BY DEF DictAfter
  <1>5. ASSUME NEW k \in {Key[i] : i \in 1 .. n}
        PROVE  LET places == {i \in 1 .. n : Key[i] = k} IN
               /\ places # {} /\ Max(places) \in places
               /\ DictAfter(Key, Value, n)[k] = Value[Max(places)]
    <2> DEFINE places == {i \in 1 .. n : Key[i] = k}
    <2>1. places # {} /\ places \in SUBSET (1 .. n) /\ PlacesOf(Key, n, k) = places
      BY DEF PlacesOf
    <2>2. DictAfter(Key, Value, n)[k] = Value[Max(places)]
      BY <2>1 DEF DictAfter
    <2> HIDE DEF places
    <2>3. Max(places) \in places
      BY <2>1, LastOf
    <2> QED
      BY <2>1, <2>2, <2>3 DEF places
  <1> QED
    BY <1>1, <1>3, <1>4, <1>5, ZenonT(60) DEF LastWins

\* value() and as_dict() agree.
LEMMA DictIsValues ==
  ASSUME NEW header, HeaderOK(header)
  PROVE  AsDict(header)
           = [tag \in {e.tag : e \in {header[i] : i \in DOMAIN header}} |->
                HeaderValue(header, tag)]
  <1> DEFINE keys == [i \in DOMAIN header |-> header[i].tag]
             values == [i \in DOMAIN header |-> ValueToPython(header[i])]
             d == DictOf(keys, values)
             T == {e.tag : e \in {header[i] : i \in DOMAIN header}}
             v == [tag \in T |-> HeaderValue(header, tag)]
  <1>1. AsDict(header) = d
    BY DEF AsDict
  <1>2. T = {keys[i] : i \in DOMAIN header}
    OBVIOUS
  <1>3. DOMAIN keys = DOMAIN header /\ DOMAIN values = DOMAIN header
        /\ keys = [i \in DOMAIN header |-> keys[i]]
    OBVIOUS
  <1>4. /\ DOMAIN d = {keys[i] : i \in DOMAIN header}
        /\ \A k \in DOMAIN d :
             LET places == {i \in DOMAIN header : keys[i] = k} IN
             /\ places # {} /\ Max(places) \in places
             /\ d[k] = values[Max(places)]
    <2> HIDE DEF keys, values
    <2>1. LastWins(DictOf(keys, values), keys, values, DOMAIN header)
      BY <1>3, DictOfHeader
    <2> QED
      BY <2>1 DEF LastWins
  <1>5. ASSUME NEW tag \in T PROVE d[tag] = HeaderValue(header, tag)
    <2> DEFINE places == {i \in DOMAIN header : header[i].tag = tag}
    <2>1. places = {i \in DOMAIN header : keys[i] = tag}
      OBVIOUS
    <2>2. /\ places # {} /\ Max(places) \in places
          /\ d[tag] = values[Max(places)]
      <3> HIDE DEF T, keys, values, d, places
      <3> QED
        BY <1>2, <1>4, <2>1, SMTT(40)
    <2>3. HeaderValue(header, tag) = ValueToPython(header[Max(places)])
      BY <2>2 DEF HeaderValue
    <2>4. Max(places) \in DOMAIN header
      BY <2>2
    <2> HIDE DEF d, T, places
    <2> QED
      BY <2>2, <2>3, <2>4
  <1>6. d = [k \in DOMAIN d |-> d[k]]
    <2>1. PICK n \in Nat : n = Len(header) /\ DOMAIN header = 1 .. n
      BY DEF HeaderOK
    <2>2. Len(keys) = n
      <3> HIDE DEF keys
      <3> QED
        BY <1>3, <2>1, HeaderItems
    <2> HIDE DEF keys, values
    <2>3. d = DictAfter(keys, values, n)
      BY <2>2, DictLemma
    <2> HIDE DEF d
    <2> QED
      BY <2>3, SMTT(40) DEF DictAfter
  <1>7. v = [k \in DOMAIN v |-> v[k]] /\ DOMAIN v = T /\ \A tag \in T : v[tag] = HeaderValue(header, tag)
    OBVIOUS
  <1> HIDE DEF d, v, T, keys, values
  <1>8. d = v
    BY <1>2, <1>4, <1>5, <1>6, <1>7
  <1> QED
    BY <1>1, <1>8 DEF v, T

\* as_named_dict() agrees with as_dict(), by a table that gives no two tags the
\* same name.
LEMMA NamedIsDict ==
  ASSUME NEW header, HeaderOK(header), NEW names,
         \A s, u \in DOMAIN names : names[s] = names[u] => s = u
  PROVE  NamedAgrees(AsNamedDict(header, names), names, AsDict(header))
  <1> DEFINE D == DOMAIN header
             keys == [i \in D |-> header[i].tag]
             values == [i \in D |-> ValueToPython(header[i])]
             namedKeys == [i \in D |-> TagKey(header[i].tag, names)]
             namedValues == [i \in D |-> NamedValueToPython(header[i])]
             d == DictOf(keys, values)
             nd == DictOf(namedKeys, namedValues)
  <1>1. AsDict(header) = d /\ AsNamedDict(header, names) = nd
    BY DEF AsDict, AsNamedDict
  <1>2. ASSUME NEW s, NEW u, TagKey(s, names) = TagKey(u, names) PROVE s = u
    BY <1>2 DEF TagKey
  <1>3. /\ DOMAIN keys = D /\ DOMAIN values = D /\ keys = [i \in D |-> keys[i]]
        /\ DOMAIN namedKeys = D /\ DOMAIN namedValues = D
        /\ namedKeys = [i \in D |-> namedKeys[i]]
        /\ \A i \in D : /\ keys[i] = header[i].tag
                        /\ values[i] = ValueToPython(header[i])
                        /\ namedKeys[i] = TagKey(keys[i], names)
                        /\ namedValues[i] = NamedValueToPython(header[i])
    OBVIOUS
  <1> HIDE DEF keys, values, namedKeys, namedValues
  <1>4. /\ DOMAIN d = {keys[i] : i \in D}
        /\ \A k \in DOMAIN d :
             LET places == {i \in D : keys[i] = k} IN
             /\ places # {} /\ Max(places) \in places
             /\ d[k] = values[Max(places)]
    <2>1. LastWins(DictOf(keys, values), keys, values, DOMAIN header)
      BY <1>3, DictOfHeader
    <2> QED
      BY <2>1 DEF LastWins
  <1>5. /\ DOMAIN nd = {namedKeys[i] : i \in D}
        /\ \A k \in DOMAIN nd :
             LET places == {i \in D : namedKeys[i] = k} IN
             /\ places # {} /\ Max(places) \in places
             /\ nd[k] = namedValues[Max(places)]
    <2>1. LastWins(DictOf(namedKeys, namedValues), namedKeys, namedValues, DOMAIN header)
      BY <1>3, DictOfHeader
    <2> QED
      BY <2>1 DEF LastWins
  <1> HIDE DEF d, nd
  <1>6. ASSUME NEW tag \in DOMAIN d
        PROVE  LET named == nd[TagKey(tag, names)] IN
               \/ named.k = d[tag].k /\ named = d[tag]
               \/ named.k = "int" /\ d[tag].k = "list" /\ d[tag].v = <<named.v>>
               \/ /\ named.k = "bytes" /\ d[tag].k = "list"
                  /\ named.v = IF d[tag].v = << >> THEN << >> ELSE d[tag].v[1]
    <2> DEFINE places == {i \in D : keys[i] = tag}
               key == TagKey(tag, names)
    <2>1. places = {i \in D : namedKeys[i] = key}
      BY <1>2, <1>3
    <2>2. places # {} /\ Max(places) \in places /\ d[tag] = values[Max(places)]
      BY <1>4
    <2>3. key \in DOMAIN nd
      BY <1>5, <2>1, <2>2
    <2>4. nd[key] = namedValues[Max(places)]
      <3> HIDE DEF places, key
      <3> QED
        BY <1>5, <2>1, <2>3
    <2>5. Max(places) \in D
      BY <2>2
    <2> HIDE DEF places
    <2>6. PICK m \in D : m = Max(places)
      BY <2>5
    <2>7. d[tag] = ValueToPython(header[m]) /\ nd[key] = NamedValueToPython(header[m])
      BY <1>3, <2>2, <2>4, <2>6
    <2>8. header[m].items \in Seq(Range(header[m].items))
      BY DEF HeaderOK
    <2> QED
      BY <2>7, <2>8, NamedValue
  <1>7. NamedAgrees(nd, names, d)
    BY <1>6 DEF NamedAgrees
  <1> QED
    BY <1>1, <1>7

\* A StreamInfo has what the core's record has, for the fields of its format.
LEMMA InfoLemma ==
  ASSUME NEW core, DOMAIN core.own = FieldsOf(core.format)
  PROVE  InfoIsItsOwn(PyStreamInfo(core), core)
  BY DEF InfoIsItsOwn, PyStreamInfo

\* Some more names.
LEMMA MoreNames ==
  ASSUME NEW S, IsFiniteSet(S), NEW u, NEW v, NEW w
  PROVE  IsFiniteSet(S \cup {u, v, w})
  <1>1. IsFiniteSet(S \cup {u})
    BY FS_AddElement
  <1>2. IsFiniteSet((S \cup {u}) \cup {v})
    BY <1>1, FS_AddElement
  <1>3. IsFiniteSet(((S \cup {u}) \cup {v}) \cup {w})
    BY <1>2, FS_AddElement
  <1>4. ((S \cup {u}) \cup {v}) \cup {w} = S \cup {u, v, w}
    OBVIOUS
  <1> QED
    BY <1>3, <1>4

\* The limits are finitely many.
LEMMA LimitFieldsFinite == IsFiniteSet(LimitFields)
  <1> DEFINE A == {} \cup {"max_header_bytes", "max_files", "max_folders"}
             B == A \cup {"max_coders_per_folder", "max_total_coders",
                          "max_streams_per_folder"}
             C == B \cup {"max_total_streams", "max_stream_frames", "max_substreams"}
             D == C \cup {"max_header_properties", "max_coder_property_bytes",
                          "max_name_bytes_per_entry"}
             E == D \cup {"max_total_name_bytes", "max_dictionary_bytes",
                          "max_entry_output_bytes"}
             F == E \cup {"max_total_output_bytes", "max_volumes",
                          "max_total_input_bytes"}
             G == F \cup {"max_kdf_power", "max_recursion_depth", "sfx_scan_limit"}
  <1>1. LimitFields = G
    BY DEF LimitFields
  <1>2. IsFiniteSet({})
    BY FS_EmptySet
  <1>3. IsFiniteSet(A)
    BY <1>2, MoreNames
  <1> HIDE DEF A
  <1>4. IsFiniteSet(B)
    BY <1>3, MoreNames
  <1> HIDE DEF B
  <1>5. IsFiniteSet(C)
    BY <1>4, MoreNames
  <1> HIDE DEF C
  <1>6. IsFiniteSet(D)
    BY <1>5, MoreNames
  <1> HIDE DEF D
  <1>7. IsFiniteSet(E)
    BY <1>6, MoreNames
  <1> HIDE DEF E
  <1>8. IsFiniteSet(F)
    BY <1>7, MoreNames
  <1> HIDE DEF F
  <1>9. IsFiniteSet(G)
    BY <1>8, MoreNames
  <1> QED
    BY <1>1, <1>9

\* The fold of LimitsBuilder's methods over the limits that are given.
IsBuilt(h, given) ==
  h = [s \in SUBSET (DOMAIN given) |->
         IF s = {} THEN DefaultLimits
         ELSE Override(h[s \ {Chosen(s)}], Chosen(s), given[Chosen(s)])]
\* What it comes to when those of s have been set.
SetSoFar(given, s) ==
  [n \in LimitFields |-> IF n \in s THEN Some(given[n]) ELSE None]

\* One more limit is set.
LEMMA OneMoreLimit ==
  ASSUME NEW given, NEW s \in SUBSET LimitFields, NEW x \in s
  PROVE  SetSoFar(given, s) = Override(SetSoFar(given, s \ {x}), x, given[x])
  <1> DEFINE a == SetSoFar(given, s)
             b == Override(SetSoFar(given, s \ {x}), x, given[x])
  <1>1. DOMAIN a = LimitFields /\ DOMAIN b = LimitFields
        /\ a = [n \in LimitFields |-> a[n]] /\ b = [n \in LimitFields |-> b[n]]
    BY DEF SetSoFar, Override
  <1>2. ASSUME NEW n \in LimitFields PROVE a[n] = b[n]
    BY DEF SetSoFar, Override
  <1> HIDE DEF a, b
  <1>3. a = b
    BY <1>1, <1>2
  <1> QED
    BY <1>3 DEF a, b

\* Limits has what it was given, and the defaults.
LEMMA LimitsLemma ==
  ASSUME NEW given, DOMAIN given \subseteq LimitFields
  PROVE  LimitsAreGiven(PyLimitsGet(PyLimits(given)), given)
  <1> DEFINE D == DOMAIN given
             g == CHOOSE f : IsBuilt(f, given)
             h == [s \in SUBSET D |-> SetSoFar(given, s)]
             Term(f, s) == IF s = {} THEN DefaultLimits
                           ELSE Override(f[s \ {Chosen(s)}], Chosen(s), given[Chosen(s)])
  <1>1. PyLimits(given) = g[D]
    BY DEF PyLimits, FoldSet, MapThenFoldSet, IsBuilt, Chosen
  <1>2. IsFiniteSet(D) /\ \A s \in SUBSET D : IsFiniteSet(s) /\ Cardinality(s) \in Nat
    BY LimitFieldsFinite, FS_Subset, FS_CardinalityType
  <1>3. \A s \in SUBSET D : s # {} => Chosen(s) \in s /\ s \ {Chosen(s)} \in SUBSET D
    BY DEF Chosen
  <1>4. ASSUME NEW s \in SUBSET D PROVE h[s] = Term(h, s)
    <2>1. CASE s = {}
      BY <2>1 DEF SetSoFar, DefaultLimits
    <2>2. CASE s # {}
      <3>1. Chosen(s) \in s /\ s \in SUBSET LimitFields /\ s \ {Chosen(s)} \in SUBSET D
        BY <1>3, <2>2
      <3>2. /\ h[s] = SetSoFar(given, s)
            /\ h[s \ {Chosen(s)}] = SetSoFar(given, s \ {Chosen(s)})
        BY <3>1
      <3> HIDE DEF h
      <3> QED
        BY <2>2, <3>1, <3>2, OneMoreLimit
    <2> QED
      BY <2>1, <2>2
  <1>5. IsBuilt(h, given)
    <2>1. h = [s \in SUBSET D |-> h[s]]
      OBVIOUS
    <2> HIDE DEF h
    <2>2. h = [s \in SUBSET D |-> Term(h, s)]
      BY <1>4, <2>1
    <2> QED
      BY <2>2 DEF IsBuilt
  <1>6. IsBuilt(g, given)
    <2> HIDE DEF h
    <2> QED
      BY <1>5
  <1>7. \A s \in SUBSET D : g[s] = Term(g, s)
    <2> HIDE DEF g
    <2> QED
      BY <1>6 DEF IsBuilt
  <1> HIDE DEF g, h
  <1> DEFINE N == {n \in Nat : \A s \in SUBSET D : Cardinality(s) = n => g[s] = h[s]}
  <1>8. 0 \in N
    <2> SUFFICES ASSUME NEW s \in SUBSET D, Cardinality(s) = 0 PROVE g[s] = h[s]
      OBVIOUS
    <2>1. s = {}
      BY <1>2, FS_EmptySet
    <2> QED
      BY <1>4, <1>7, <2>1
  <1>9. ASSUME NEW n \in Nat, n \in N PROVE n + 1 \in N
    <2> SUFFICES ASSUME NEW s \in SUBSET D, Cardinality(s) = n + 1 PROVE g[s] = h[s]
      OBVIOUS
    <2>1. s # {}
      BY FS_EmptySet
    <2> DEFINE r == s \ {Chosen(s)}
    <2>2. r \in SUBSET D /\ Chosen(s) \in s
      BY <1>3, <2>1
    <2>3. Cardinality(r) = n
      <3>1. Cardinality(r) = Cardinality(s) - 1
        BY <1>2, <2>2, FS_RemoveElement
      <3> QED
        BY <3>1
    <2>4. g[r] = h[r]
      BY <1>9, <2>2, <2>3
    <2> QED
      BY <1>4, <1>7, <2>1, <2>4
  <1>10. Cardinality(D) \in N
    <2> HIDE DEF N
    <2>1. Nat \subseteq N
      BY <1>8, <1>9, SetInduction
    <2> QED
      BY <1>2, <2>1
  <1>11. g[D] = SetSoFar(given, D)
    BY <1>10 DEF h
  <1> QED
    BY <1>1, <1>11 DEF PyLimitsGet, Limit, SetSoFar, LimitsAreGiven

\* The views of a header agree.
LEMMA ViewsLemma ==
  ASSUME NEW c, HeaderOK(c.header), c.method.does = "header"
  PROVE  ViewsAgree(Listed(c))
  <1> DEFINE l == Listed(c)
  <1>1. /\ l.values = [tag \in {e.tag : e \in {c.header[i] : i \in DOMAIN c.header}} |->
                         HeaderValue(c.header, tag)]
        /\ l.dict = AsDict(c.header)
        /\ l.main = AsNamedDict(c.header, MainTagName)
        /\ l.signature = AsNamedDict(c.header, SignatureTagName)
    BY DEF Listed
  <1>2. \A s, u \in DOMAIN MainTagName : MainTagName[s] = MainTagName[u] => s = u
    BY DEF MainTagName
  <1>3. \A s, u \in DOMAIN SignatureTagName : SignatureTagName[s] = SignatureTagName[u] => s = u
    BY DEF SignatureTagName
  <1>4. l.dict = l.values
    BY <1>1, DictIsValues
  <1>5. NamedAgrees(l.main, MainTagName, l.dict)
    BY <1>1, <1>2, NamedIsDict
  <1>6. NamedAgrees(l.signature, SignatureTagName, l.dict)
    BY <1>1, <1>3, NamedIsDict
  <1> QED
    BY <1>4, <1>5, <1>6 DEF ViewsAgree
-----------------------------------------------------------------------------
(***************************************************************************)
(* What the snapshots of a call say                                        *)
(***************************************************************************)
Snapshots == {"list", "members", "header", "info", "limits"}

\* What t has been told comes from the entries of its call, and its result is a
\* snapshot only if that is what it asked for.
SnapshotInv(t) ==
  /\ told[t] \in Seq(BeginsOf(call[t]))
  /\ pc[t] = "return" =>
       CallResult(outcome[t], call[t].method.label).k \in {"returned", "exception"}
  /\ pc[t] = "done" =>
       \/ result[t].k \in {"returned", "exception"}
       \/ call[t].method.does \in Snapshots /\ result[t] = Listed(call[t])

SnapshotsInv == \A t \in Threads : SnapshotInv(t)

\* What an error of the core's or a callback's is raised as.
LEMMA ErrorKind ==
  ASSUME NEW o, o.k = "error", o.cause = Nothing \/ o.cause.k = "exception", NEW l
  PROVE  CallResult(o, l).k = "exception"
  <1>1. CallResult(o, l) = MapCoreError(o, l)
    BY DEF CallResult
  <1>2. MapCoreError(o, l).k = "exception"
    BY DEF MapCoreError, Exception
  <1> QED
    BY <1>1, <1>2

\* The errors a call may end in.
LEMMA ErrorKinds ==
  ASSUME NEW l
  PROVE  /\ \A e : CallResult(CoreError(e), l).k = "exception"
         /\ \A e : e.k = "exception" => CallResult(CallbackError(e), l).k = "exception"
         /\ \A c : \A o \in CoreErrors(c) : CallResult(o, l).k = "exception"
         /\ CallResult(Panicked, l).k = "exception"
         /\ \A n : CallResult(Returned(n), l).k = "returned"
  <1>1. ASSUME NEW e PROVE CallResult(CoreError(e), l).k = "exception"
    <2>1. CoreError(e).k = "error" /\ CoreError(e).cause = Nothing
      BY DEF CoreError
    <2> QED
      BY <2>1, ErrorKind
  <1>2. ASSUME NEW e, e.k = "exception"
        PROVE  CallResult(CallbackError(e), l).k = "exception"
    BY <1>2, CallbackErrorLemma
  <1>3. ASSUME NEW c, NEW o \in CoreErrors(c) PROVE CallResult(o, l).k = "exception"
    BY CoreErrorsLemma
  <1>4. CallResult(Panicked, l).k = "exception"
    BY DEF CallResult, Panicked, Exception
  <1>5. \A n : CallResult(Returned(n), l).k = "returned"
    BY DEF CallResult, Returned
  <1> QED
    BY <1>1, <1>2, <1>3, <1>4, <1>5

\* A step after which the core has returned.
LEMMA OutcomeKind ==
  ASSUME IInv, NEW t \in Threads, Step(t), pc'[t] = "return",
         NEW l, l = call[t].method.label
  PROVE  CallResult(outcome'[t], l).k \in {"returned", "exception"}
  <1>0. DOMAIN pc = Threads /\ DOMAIN outcome = Threads
    BY DEF IInv, LocalsOK
  <1>1. ASSUME NEW o, CoreReturns(t, o) PROVE outcome'[t] = o
    BY <1>0, <1>1 DEF CoreReturns
  <1> DEFINE Ends(o) == CoreReturns(t, o)
  <1>2. ASSUME NEW o, Ends(o), CallResult(o, l).k \in {"returned", "exception"}
        PROVE  CallResult(outcome'[t], l).k \in {"returned", "exception"}
    BY <1>1, <1>2
  <1>3. /\ \A e : CallResult(CoreError(e), l).k = "exception"
        /\ \A e : e.k = "exception" => CallResult(CallbackError(e), l).k = "exception"
        /\ \A c : \A o \in CoreErrors(c) : CallResult(o, l).k = "exception"
        /\ CallResult(Panicked, l).k = "exception"
        /\ \A n : CallResult(Returned(n), l).k = "returned"
    BY ErrorKinds
  <1>4. ASSUME NEW p, Goto(t, p) PROVE p = "return"
    BY <1>0, <1>4 DEF Goto
  <1>5. ~ Advance(t)
    BY <1>4 DEF Advance
  <1>6. ASSUME NEW e, IsPythonError(e), CoreReturns(t, CallbackError(e))
        PROVE  CallResult(outcome'[t], l).k \in {"returned", "exception"}
    BY <1>2, <1>3, <1>6 DEF IsPythonError
  <1>7. CASE Inspect(t) \/ SymlinkTarget(t) \/ Enter(t) \/ CancelToken(t) \/ CoreCalls(t)
             \/ Attach(t) \/ Switch(t) \/ Resume(t) \/ SinkReturns(t) \/ Reattach(t)
    <2>1. \E p \in {"done", "core", "attach", "callback", "switched", "finish"} : Goto(t, p)
      BY <1>7 DEF Inspect, SymlinkTarget, Enter, CancelToken, CoreCalls, Attach, Switch,
                  Resume, SinkReturns, Reattach, Finish
    <2> QED
      BY <1>4, <2>1
  <1>8. CASE CancelInside(t)
    BY <1>8 DEF CancelInside
  <1>9. CASE CoreFails(t)
    BY <1>2, <1>3, <1>9 DEF CoreFails
  <1>10. CASE CoreCompletes(t)
    BY <1>2, <1>3, <1>10 DEF CoreCompletes
  <1>11. CASE WriterReturns(t)
    <2>1. ASSUME NEW n, WriterCounts(t, n) PROVE FALSE
      BY <1>4, <1>5, <2>1 DEF WriterCounts
    <2>2. CASE WriterRefuses(t)
      BY <1>2, <1>3, <1>6, <2>2, PythonErrors DEF WriterRefuses, Raises
    <2> QED
      BY <1>11, <2>1, <2>2 DEF WriterReturns
  <1>12. CASE CallbackReturns(t)
    <2>1. Exception("CancelledError").k = "exception"
      BY ExceptionLemma
    <2> QED
      BY <1>2, <1>3, <1>5, <1>6, <1>12, <2>1, PythonErrors DEF CallbackReturns, Raises
  <1>13. CASE FinishCallback(t)
    <2>1. AnswerInv(t)
      BY <1>13 DEF FinishCallback, IInv, ThreadInv
    <2>2. answer[t].k = "raise" => IsPythonError(answer[t].e)
      BY <2>1 DEF AnswerInv, Go, Stop
    <2> QED
      BY <1>2, <1>3, <1>5, <1>6, <1>13, <2>2 DEF FinishCallback
  <1>14. CASE ProviderReturns(t)
    BY <1>2, <1>3, <1>4, <1>5, <1>6, <1>14, PythonErrors DEF ProviderReturns
  <1> QED
    BY <1>7, <1>8, <1>9, <1>10, <1>11, <1>12, <1>13, <1>14 DEF Step

\* A step after which the call is done.
LEMMA ResultKind ==
  ASSUME IInv, NEW t \in Threads, SnapshotInv(t), Step(t), pc'[t] = "done"
  PROVE  \/ result'[t].k \in {"returned", "exception"}
         \/ call[t].method.does \in Snapshots /\ result'[t] = Listed(call[t])
  <1>0. DOMAIN pc = Threads /\ DOMAIN result = Threads
    BY DEF IInv, LocalsOK
  <1>1. ASSUME NEW r, Finish(t, r) PROVE result'[t] = r
    BY <1>0, <1>1 DEF Finish
  <1>2. ASSUME NEW p, Goto(t, p) PROVE p = "done"
    BY <1>0, <1>2 DEF Goto
  <1>3. \A o : ~ CoreReturns(t, o)
    BY <1>2 DEF CoreReturns
  <1>4. ~ Advance(t)
    BY <1>2 DEF Advance
  <1> PICK l : l = call[t].method.label
    OBVIOUS
  <1>5. CASE Inspect(t)
    BY <1>1, <1>5 DEF Inspect, Snapshots
  <1>6. CASE SymlinkTarget(t)
    BY <1>1, <1>6, ErrorKinds DEF SymlinkTarget
  <1>7. CASE Enter(t)
    <2>1. ArgumentError(call[t]) # Nothing /\ Finish(t, ArgumentError(call[t]))
      BY <1>2, <1>7 DEF Enter
    <2>2. ArgumentError(call[t]).k = "exception"
      <3>1. MapCoreError(CoreError("LimitExceeded"), l).k = "exception"
        <4>1. CallResult(CoreError("LimitExceeded"), l)
                = MapCoreError(CoreError("LimitExceeded"), l)
          BY DEF CallResult, CoreError
        <4>2. \A e : CallResult(CoreError(e), l).k = "exception"
          BY ErrorKinds
        <4> QED
          BY <4>1, <4>2
      <3> QED
        BY <2>1, <3>1, ExceptionLemma DEF ArgumentError
    <2> QED
      BY <1>1, <2>1, <2>2
  <1>8. CASE CancelToken(t)
    BY <1>1, <1>8 DEF CancelToken, Returned
  <1>9. CASE Reattach(t)
    BY <1>1, <1>9 DEF Reattach, SnapshotInv
  <1>10. CASE CoreCalls(t) \/ Attach(t) \/ Switch(t) \/ Resume(t) \/ SinkReturns(t)
    <2>1. \E p \in {"attach", "callback", "switched", "finish"} : Goto(t, p)
      BY <1>10 DEF CoreCalls, Attach, Switch, Resume, SinkReturns
    <2> QED
      BY <1>2, <2>1
  <1>11. CASE CancelInside(t)
    BY <1>11 DEF CancelInside
  <1>12. CASE CoreFails(t) \/ CoreCompletes(t) \/ WriterReturns(t) \/ CallbackReturns(t)
              \/ FinishCallback(t) \/ ProviderReturns(t)
    <2>1. \/ \E o : CoreReturns(t, o)
          \/ Advance(t) \/ Goto(t, "attach") \/ Goto(t, "core")
      BY <1>12 DEF CoreFails, CoreCompletes, WriterReturns, WriterCounts, WriterRefuses,
                   CallbackReturns, FinishCallback, ProviderReturns, Raises
    <2> QED
      BY <1>2, <1>3, <1>4, <2>1
  <1> QED
    BY <1>5, <1>6, <1>7, <1>8, <1>9, <1>10, <1>11, <1>12 DEF Step

\* A step tells a thread something only where it attaches to call begin_entry.
LEMMA ToldStep ==
  ASSUME IInv, CompleteInv, CompleteInv', NEW t \in Threads, SnapshotInv(t), Step(t)
  PROVE  told'[t] \in Seq(BeginsOf(call[t]))
  <1>1. CASE Attach(t)
    <2>1. pc'[t] = "callback" /\ call' = call
      BY <1>1 DEF Attach, Goto, IInv, LocalsOK
    <2>2. Met(t, at[t] + 1)'
      BY <2>1 DEF CompleteInv, ProgressInv
    <2> QED
      BY <2>1, <2>2 DEF Met
  <1>2. CASE ~ Attach(t)
    <2>1. told' = told
      BY <1>2 DEF Step, Inspect, SymlinkTarget, Enter, CancelToken, CoreFails, CoreCalls,
         CoreCompletes, Switch, Resume, CancelInside, WriterReturns, LeaveWriter,
         CallbackReturns, SinkReturns, FinishCallback, ProviderReturns, Reattach, history
    <2> QED
      BY <2>1 DEF SnapshotInv
  <1> QED
    BY <1>1, <1>2

\* Every step keeps what the snapshots say.
LEMMA NextSnapshots ==
  IInv /\ CompleteInv /\ CompleteInv' /\ SnapshotsInv /\ [Next]_vars => SnapshotsInv'
  <1>1. ASSUME IInv, CompleteInv, CompleteInv', SnapshotsInv, NEW t \in Threads, Step(t)
        PROVE  SnapshotsInv'
    <2>0. Local(t) /\ Apart(t)
      BY <1>1, FrameStep
    <2>1. call' = call
      BY <2>0 DEF Local
    <2>2. SnapshotInv(t)'
      <3>0. SnapshotInv(t)
        BY <1>1 DEF SnapshotsInv
      <3>1. told'[t] \in Seq(BeginsOf(call[t]))
        BY <1>1, <3>0, ToldStep
      <3>2. pc'[t] = "return" =>
              CallResult(outcome'[t], call[t].method.label).k \in {"returned", "exception"}
        BY <1>1, OutcomeKind
      <3>3. pc'[t] = "done" =>
              \/ result'[t].k \in {"returned", "exception"}
              \/ call[t].method.does \in Snapshots /\ result'[t] = Listed(call[t])
        BY <1>1, <3>0, ResultKind
      <3> QED
        BY <2>1, <3>1, <3>2, <3>3 DEF SnapshotInv
    <2>3. ASSUME NEW u \in Threads \ {t} PROVE SnapshotInv(u)'
      <3>1. SnapshotInv(u)
        BY <1>1 DEF SnapshotsInv
      <3>2. /\ pc'[u] = pc[u] /\ outcome'[u] = outcome[u] /\ result'[u] = result[u]
            /\ told'[u] = told[u]
        BY <2>0 DEF Local, Apart
      <3> QED
        BY <2>1, <3>1, <3>2 DEF SnapshotInv
    <2> QED
      BY <2>2, <2>3 DEF SnapshotsInv
  <1>2. ASSUME SnapshotsInv, UNCHANGED vars PROVE SnapshotsInv'
    BY <1>2 DEF SnapshotsInv, SnapshotInv, vars, coreVars, history
  <1> QED
    BY <1>1, <1>2 DEF Next, AllDone

\* What the core's record of an entry is, the binding takes it to be.
LEMMA EntryIsSafe ==
  ASSUME NEW c, CallOK(c), NEW k \in DOMAIN c.entries
  PROVE  SafeIsSafe(SinkFor(c.method.label, c.entries[k]).begin_entry.entry, c.method.label)
  <1>1. c.entries[k].raw \in Seq(Characters) /\ c.entries[k].name \in Seq(Characters)
    BY DEF CallOK
  <1>2. c.method.label \in {"7z", "zip", "cpio", "arj", "rpm", "deb"}
    BY MethodLabels DEF CallOK
  <1> QED
    BY <1>1, <1>2, SnapshotIsSafe

\* What Python sees of any archive is true to it: a path that a snapshot calls
\* safe leaves the directory it is joined to on no platform, whatever the name
\* and whichever format it comes from; value(), as_dict() and as_named_dict() of
\* an RPM header agree however often tags come again; StreamInfo and Limits say
\* what the core has.
THEOREM SnapshotsFaithful == Spec => []SnapshotsAreFaithful
  <1>1. Init => IInv /\ CompleteInv /\ SnapshotsInv
    <2>1. Init => SnapshotsInv
      <3> SUFFICES ASSUME Init, NEW t \in Threads PROVE SnapshotInv(t)
        BY DEF SnapshotsInv
      <3>1. told[t] = << >> /\ pc[t] = "python"
        BY DEF Init
      <3> QED
        BY <3>1 DEF SnapshotInv
    <2> QED
      BY <2>1, InitIInv, InitProgress
  <1>2. IInv /\ CompleteInv /\ SnapshotsInv /\ [Next]_vars
          => (IInv /\ CompleteInv /\ SnapshotsInv)'
    BY NextIInv, NextProgress, NextSnapshots
  <1>3. IInv /\ SnapshotsInv => SnapshotsAreFaithful
    <2> SUFFICES ASSUME IInv, SnapshotsInv, NEW t \in Threads
                 PROVE  /\ \A i \in DOMAIN told[t] :
                             SafeIsSafe(told[t][i].entry, call[t].method.label)
                        /\ pc[t] = "done" /\ result[t].k = "list" =>
                             \A i \in DOMAIN result[t].entries :
                               SafeIsSafe(result[t].entries[i], call[t].method.label)
                        /\ pc[t] = "done" /\ result[t].k = "header" => ViewsAgree(result[t])
                        /\ pc[t] = "done" /\ result[t].k = "info" =>
                             InfoIsItsOwn(result[t].info, call[t].info)
                        /\ pc[t] = "done" /\ result[t].k = "limits" =>
                             LimitsAreGiven(result[t].limits, call[t].given)
      BY DEF SnapshotsAreFaithful
    <2> DEFINE c == call[t]
               r == result[t]
    <2>1. SnapshotInv(t) /\ CallOK(c)
      BY CallPlan DEF SnapshotsInv
    <2>2. ASSUME NEW i \in DOMAIN told[t] PROVE SafeIsSafe(told[t][i].entry, c.method.label)
      <3>1. told[t] \in Seq(BeginsOf(c))
        BY <2>1 DEF SnapshotInv
      <3>2. told[t][i] \in BeginsOf(c)
        BY <3>1
      <3>3. PICK k \in DOMAIN c.entries :
              told[t][i] = SinkFor(c.method.label, c.entries[k]).begin_entry
        BY <3>2 DEF BeginsOf
      <3> QED
        BY <2>1, <3>3, EntryIsSafe
    <2>3. ASSUME pc[t] = "done", r.k \in Snapshots
          PROVE  c.method.does = r.k /\ r = Listed(c)
      <3>1. c.method.does \in Snapshots /\ r = Listed(c)
        BY <2>1, <2>3 DEF SnapshotInv, Snapshots
      <3>2. Listed(c).k = c.method.does
        BY <3>1 DEF Listed, Snapshots
      <3> QED
        BY <3>1, <3>2
    <2>4. ASSUME pc[t] = "done", r.k = "list", NEW i \in DOMAIN r.entries
          PROVE  SafeIsSafe(r.entries[i], c.method.label)
      <3>1. c.method.does = "list" /\ r = Listed(c)
        BY <2>3, <2>4 DEF Snapshots
      <3>2. r.entries = [k \in DOMAIN c.entries |->
                           SinkFor(c.method.label, c.entries[k]).begin_entry.entry]
        BY <3>1 DEF Listed
      <3>3. i \in DOMAIN c.entries
            /\ r.entries[i] = SinkFor(c.method.label, c.entries[i]).begin_entry.entry
        BY <2>4, <3>2
      <3> QED
        BY <2>1, <3>3, EntryIsSafe
    <2>5. ASSUME pc[t] = "done", r.k = "header" PROVE ViewsAgree(r)
      <3>1. c.method.does = "header" /\ r = Listed(c) /\ HeaderOK(c.header)
        BY <2>1, <2>3, <2>5 DEF Snapshots, CallOK
      <3> QED
        BY <3>1, ViewsLemma
    <2>6. ASSUME pc[t] = "done", r.k = "info" PROVE InfoIsItsOwn(r.info, c.info)
      <3>1. c.method.does = "info" /\ r = Listed(c)
            /\ DOMAIN c.info.own = FieldsOf(c.info.format)
        BY <2>1, <2>3, <2>6 DEF Snapshots, CallOK
      <3>2. r.info = PyStreamInfo(c.info)
        BY <3>1 DEF Listed
      <3> QED
        BY <3>1, <3>2, InfoLemma
    <2>7. ASSUME pc[t] = "done", r.k = "limits" PROVE LimitsAreGiven(r.limits, c.given)
      <3>1. c.method.does = "limits" /\ r = Listed(c) /\ DOMAIN c.given \subseteq LimitFields
        BY <2>1, <2>3, <2>7 DEF Snapshots, CallOK
      <3>2. r.limits = PyLimitsGet(PyLimits(c.given))
        BY <3>1 DEF Listed
      <3> QED
        BY <3>1, <3>2, LimitsLemma
    <2> QED
      BY <2>2, <2>4, <2>5, <2>6, <2>7
  <1> QED
    BY <1>1, <1>2, <1>3, PTL DEF Spec

=============================================================================
