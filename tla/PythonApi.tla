------------------------------ MODULE PythonApi ------------------------------
(***************************************************************************)
(* bindings/python: the functions and methods Python can call, each as a    *)
(* record of what it does around the core's operation:                      *)
(*   on       the object it is a method of, or opens                        *)
(*   label    the archive format that structured exceptions name            *)
(*   does     the operation of the core                                     *)
(*   target   what it calls back, and how: writer.write(), a callable, an   *)
(*            entry sink, a volume provider, or nothing                     *)
(*   copies   it takes bytes, which copy_input copies within the limits     *)
(*   named    it takes the name of a stream format                          *)
(* All of them run under guard and make their own token where the caller    *)
(* passes none; the operations run detached from the interpreter.           *)
(***************************************************************************)
EXTENDS PythonObjects

Method(label, does, target) ==
  [on |-> label, label |-> label, does |-> does, target |-> target, copies |-> FALSE,
   named |-> FALSE]
TakingBytes(m) == [m EXCEPT !.copies = TRUE]

\* A snapshot is taken with the interpreter attached and calls nothing back.
Listing(label) == Method(label, "list", "none")
-----------------------------------------------------------------------------
\* archive.rs
ArchiveOpenBytes   == TakingBytes(Method("7z", "open", "none"))
ArchiveOpenPath    == Method("7z", "open", "none")
ArchiveOpenVolumes == Method("7z", "volumes", "provider")
ArchiveEntries     == Listing("7z")
ArchiveVerify      == Method("7z", "verify", "none")
ArchiveExtractEntryTo   == Method("7z", "one", "writer")
ArchiveStreamEntry      == Method("7z", "one", "callback")
ArchiveExtractEntriesTo == Method("7z", "all", "sink")
ArchiveMethods ==
  {ArchiveOpenBytes, ArchiveOpenPath, ArchiveOpenVolumes, ArchiveEntries, ArchiveVerify,
   ArchiveExtractEntryTo, ArchiveStreamEntry, ArchiveExtractEntriesTo}

\* stream.rs: the label of the 7z calls is used here too; the errors of a stream
\* name its format themselves.
StreamMethod(does, target) == [Method("7z", does, target) EXCEPT !.on = "stream"]
OpenStreamPath  == [StreamMethod("open", "none") EXCEPT !.named = TRUE]
OpenStreamBytes == TakingBytes(OpenStreamPath)
StreamVerify    == StreamMethod("verify", "none")
StreamExtractTo == StreamMethod("one", "writer")
StreamStream    == StreamMethod("one", "callback")
StreamInfoOf    == StreamMethod("info", "none")
StreamMethods ==
  {OpenStreamBytes, StreamInfoOf, OpenStreamPath, StreamVerify, StreamExtractTo, StreamStream}

\* zip.rs
OpenZipBytes      == TakingBytes(Method("zip", "open", "none"))
OpenZipPath       == Method("zip", "open", "none")
ZipEntries        == Listing("zip")
ZipVerify         == Method("zip", "verify", "none")
ZipExtractEntryTo == Method("zip", "one", "writer")
ZipStreamEntry    == Method("zip", "one", "callback")
ZipExtractEntriesTo == Method("zip", "all", "sink")
ZipMethods ==
  {OpenZipBytes, OpenZipPath, ZipEntries, ZipVerify, ZipExtractEntryTo, ZipStreamEntry,
   ZipExtractEntriesTo}

\* cpio.rs
OpenCpioBytes      == TakingBytes(Method("cpio", "open", "none"))
OpenCpioPath       == Method("cpio", "open", "none")
CpioEntries        == Listing("cpio")
CpioSymlinkTarget  == Method("cpio", "target", "none")
CpioVerify         == Method("cpio", "verify", "none")
CpioExtractEntryTo == Method("cpio", "one", "writer")
CpioStreamEntry    == Method("cpio", "one", "callback")
CpioExtractEntriesTo == Method("cpio", "all", "sink")
CpioMethods ==
  {OpenCpioBytes, OpenCpioPath, CpioEntries, CpioSymlinkTarget, CpioVerify,
   CpioExtractEntryTo, CpioStreamEntry, CpioExtractEntriesTo}

\* arj.rs
OpenArjBytes      == TakingBytes(Method("arj", "open", "none"))
OpenArjPath       == Method("arj", "open", "none")
ArjEntries        == Listing("arj")
ArjVerifyCall     == Method("arj", "verify", "none")
ArjExtractEntryTo == Method("arj", "one", "writer")
ArjStreamEntry    == Method("arj", "one", "callback")
ArjExtractEntriesTo == Method("arj", "all", "sink")
ArjMethods ==
  {OpenArjBytes, OpenArjPath, ArjEntries, ArjVerifyCall, ArjExtractEntryTo,
   ArjStreamEntry, ArjExtractEntriesTo}

\* rpm.rs
OpenRpmBytes      == TakingBytes(Method("rpm", "open", "none"))
OpenRpmPath       == Method("rpm", "open", "none")
RpmEntries        == Listing("rpm")
RpmHeaders        == Method("rpm", "header", "none")
RpmVerifyCall     == Method("rpm", "verify", "none")
RpmExtractEntryTo == Method("rpm", "one", "writer")
RpmStreamEntry    == Method("rpm", "one", "callback")
RpmExtractEntriesTo == Method("rpm", "all", "sink")
RpmMethods ==
  {OpenRpmBytes, OpenRpmPath, RpmEntries, RpmHeaders, RpmVerifyCall, RpmExtractEntryTo,
   RpmStreamEntry, RpmExtractEntriesTo}

\* deb.rs: extract_to and extract_member_to choose the mode by a flag.
DebMode(callback) == IF callback THEN "callback" ELSE "writer"
DebExtractTo(callback) == Method("deb", "one", DebMode(callback))
DebExtractMemberTo(callback) == Method("deb", "member", DebMode(callback))
OpenDebBytes  == TakingBytes(Method("deb", "open", "none"))
OpenDebPath   == Method("deb", "open", "none")
DebMembers    == Method("deb", "members", "none")
DebEntries    == Listing("deb")
DebVerifyCall == Method("deb", "verify", "none")
DebExtractEntryTo  == DebExtractTo(FALSE)
DebStreamEntry     == DebExtractTo(TRUE)
DebExtractMember   == DebExtractMemberTo(FALSE)
DebStreamMember    == DebExtractMemberTo(TRUE)
DebExtractEntriesTo == Method("deb", "all", "sink")
DebMethods ==
  {OpenDebBytes, OpenDebPath, DebMembers, DebEntries, DebVerifyCall, DebExtractEntryTo,
   DebStreamEntry, DebExtractMember, DebStreamMember, DebExtractEntriesTo}

\* config.rs: the constructor of Limits, and its attributes.
LimitsOf == Method("7z", "limits", "none")

\* config.rs: CancellationToken.cancel().
TokenCancel == Method("7z", "cancel", "none")

Methods ==
  {LimitsOf, TokenCancel} \cup ArchiveMethods \cup StreamMethods \cup ZipMethods \cup CpioMethods \cup ArjMethods
    \cup RpmMethods \cup DebMethods
-----------------------------------------------------------------------------
(***************************************************************************)
(* The entry sinks: what begin_entry, write_entry and finish_entry of the   *)
(* Python object are told.                                                  *)
(***************************************************************************)
SinkArguments(entry, size, index) ==
  [begin_entry |-> [entry |-> entry, size |-> size], write_entry |-> index,
   finish_entry |-> index]

PythonEntrySink(e)     == SinkArguments(PyEntry(e), e.size, e.index)
PythonZipEntrySink(e)  == SinkArguments(PyZipEntry(e), e.size, e.index)
PythonCpioEntrySink(e) == SinkArguments(PyCpioEntry(e), e.size, e.index)
PythonArjEntrySink(e)  == SinkArguments(PyArjEntry(e), e.size, e.index)
PythonRpmEntrySink(e)  == SinkArguments(PyRpmEntry(e), e.size, e.index)
PythonDebEntrySink(e)  == SinkArguments(PyDebEntry(e), e.size, e.index)

SinkFor(label, e) ==
  CASE label = "7z"   -> PythonEntrySink(e)
    [] label = "zip"  -> PythonZipEntrySink(e)
    [] label = "cpio" -> PythonCpioEntrySink(e)
    [] label = "arj"  -> PythonArjEntrySink(e)
    [] label = "rpm"  -> PythonRpmEntrySink(e)
    [] label = "deb"  -> PythonDebEntrySink(e)
=============================================================================
