------------------------------- MODULE MCPython -------------------------------
(***************************************************************************)
(* Every method of the binding in one thread while another cancels; pairs   *)
(* of calls that share a token; listings of every short name; RPM headers.  *)
(***************************************************************************)
EXTENDS PythonBridge, TLC

CONSTANTS a, b

MCThreads == {a, b}

Name(short) == IF short THEN <<"letter">> ELSE <<".", ".", "\\", "letter">>

\* One member of three bytes, or two of one: the second has a hostile name.
EntriesFor(m) ==
  IF m.does = "all" THEN <<CoreEntry(0, Name(TRUE), 1), CoreEntry(3, Name(FALSE), 1)>>
  ELSE <<CoreEntry(0, Name(TRUE), 3)>>

Call(m, token, arguments) ==
  [method |-> m, token |-> token, arguments |-> arguments, entries |-> EntriesFor(m),
   header |-> << >>, errors |-> DOMAIN ClassOf, info |-> CoreStreamInfo("lz4", 1),
   given |-> << >>]

Cancelling == Call(TokenCancel, "shared", "good")
Alone(c) == (a :> c) @@ (b :> Cancelling)

\* Each method, with a token the other thread cancels, or its own.
MethodPrograms ==
  {Alone(Call(m, token, arguments)) :
     m \in {n \in Methods : n.does \notin {"list", "members", "header", "info", "limits"}},
     token \in {"none", "shared"}, arguments \in {"good", "format", "large"}}
  \cup {Alone([Call(ZipExtractEntriesTo, "shared", "good") EXCEPT !.entries = << >>])}

\* Two calls that share a token, one for each way of calling back.
Representatives ==
  {ArchiveOpenVolumes, ZipExtractEntryTo, StreamStream, DebExtractEntriesTo}
Sharing(m) ==
  [Call(m, "shared", "good") EXCEPT !.errors = {"Io"},
                                    !.entries = <<CoreEntry(0, Name(TRUE), 2)>>]
PairPrograms ==
  {(a :> Sharing(m)) @@ (b :> Sharing(n)) :
     m \in {ZipExtractEntryTo, DebExtractEntriesTo}, n \in Representatives}

Names ==
  UNION {[1 .. n -> Characters] : n \in 0 .. 3}
    \cup [1 .. 4 -> {"/", "\\", ".", "letter"}]

ListingPrograms ==
  {Alone([Call(m, "none", "good") EXCEPT !.entries = <<CoreEntry(0, name, 1)>>]) :
     m \in {n \in Methods : n.does \in {"list", "members"}}, name \in Names}
  \cup {Alone([Call(ArchiveEntries, "none", "good") EXCEPT
                 !.entries = <<[CoreEntry(0, << >>, 1) EXCEPT !.named = FALSE]>>])}

HeaderEntries ==
  {HeaderEntry(tag, "int32", <<tag>>) : tag \in {1, 9}}
    \cup {HeaderEntry(tag, "int32", <<4, 5>>) : tag \in {1, 2}}
    \cup {HeaderEntry(1, "string", <<"s">>), HeaderEntry(9, "null", << >>),
          HeaderEntry(2, "i18n_string", <<<<"x">>, <<"y">>>>),
          HeaderEntry(2, "i18n_string", << >>)}
HeaderPrograms ==
  {Alone([Call(RpmHeaders, "none", "good") EXCEPT !.header = header]) :
     header \in UNION {[1 .. n -> HeaderEntries] : n \in 0 .. 3}}

InfoPrograms ==
  {Alone([Call(StreamInfoOf, "none", "good") EXCEPT !.info = CoreStreamInfo(f, 1)]) :
     f \in StreamFormats}
LimitPrograms ==
  {Alone([Call(LimitsOf, "none", "good") EXCEPT !.given = [n \in given |-> 7]]) :
     given \in UNION {kSubset(k, LimitFields) : k \in 0 .. 2}}

MCPrograms ==
  MethodPrograms \cup PairPrograms \cup ListingPrograms \cup HeaderPrograms
    \cup InfoPrograms \cup LimitPrograms
=============================================================================
