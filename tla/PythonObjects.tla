----------------------------- MODULE PythonObjects -----------------------------
(***************************************************************************)
(* bindings/python: what a Python program sees of an open archive.  Every   *)
(* object is a snapshot: a copy of the core's record at the time of the     *)
(* call, with the names decoded, the kinds named and the path judged.       *)
(*                                                                          *)
(* A core entry is a record of those of its fields that a snapshot treats   *)
(* specially; fields that are copied as they are stand in one, copied.      *)
(***************************************************************************)
EXTENDS SafePath

None == [k |-> "None"]
Some(v) == [k |-> "Some", v |-> v]

CoreEntry(index, name, size) ==
  [index |-> index, named |-> TRUE, raw |-> name, name |-> name, size |-> size,
   kind |-> "file", copied |-> index]

\* is_safe_path and unsafe_path_reason
PathFields(verdict) ==
  [safe |-> verdict = "ok", reason |-> IF verdict = "ok" THEN None ELSE Some(verdict)]

Snapshot(e, name, kind, verdict) ==
  [index |-> e.index, raw |-> e.raw, name |-> name, kind |-> kind, size |-> e.size,
   copied |-> e.copied, path |-> PathFields(verdict)]

\* The kinds the snapshots name; whatever else the core may add is "unknown".
NamedAs(kind, names) == IF kind \in names THEN kind ELSE "unknown"

\* 7z: the name may be missing, and the code units themselves are judged.
PyEntry(e) ==
  Snapshot(e, Lossy(e.raw), NamedAs(e.kind, {"file", "directory", "symlink", "anti_item"}),
           IF e.named THEN ValidateSafeUtf16Path(e.raw) ELSE "missing")

\* ZIP: the decoded name, which may come from the Unicode Path extra field, is
\* judged, not the raw one.
PyZipEntry(e) ==
  Snapshot(e, e.name, NamedAs(e.kind, {"file", "directory", "symlink"}),
           ValidateSafePath(e.name))

\* The kind of a CPIO member, by the type bits of its mode.
ModeKinds == {"directory", "file", "symlink", "fifo", "character_device",
              "block_device", "socket"}
PyCpioEntry(e) ==
  Snapshot(e, Lossy(e.raw), NamedAs(e.kind, ModeKinds), ValidateSafePath(Lossy(e.raw)))
PyRpmEntry(e) ==
  Snapshot(e, Lossy(e.raw), NamedAs(e.kind, ModeKinds), ValidateSafePath(Lossy(e.raw)))

PyArjEntry(e) ==
  Snapshot(e, Lossy(e.raw),
           NamedAs(e.kind, {"binary", "text", "comment", "directory", "volume_label",
                            "chapter_label"}),
           ValidateSafePath(Lossy(e.raw)))

PyDebEntry(e) ==
  Snapshot(e, Lossy(e.raw),
           NamedAs(e.kind, {"file", "hardlink", "symlink", "character_device",
                            "block_device", "directory", "fifo", "other"}),
           ValidateSafePath(Lossy(e.raw)))
\* A member of the outer ar archive has no path.
PyDebMember(m) ==
  [index |-> m.index, raw |-> m.raw, name |-> Lossy(m.raw), size |-> m.size,
   kind |-> NamedAs(m.kind, {"debian_binary", "control_archive", "data_archive", "optional"}),
   copied |-> m.copied]

-----------------------------------------------------------------------------
(***************************************************************************)
(* An RPM header: its entries in order, where a tag may come twice.         *)
(***************************************************************************)
HeaderEntry(tag, type, items) == [tag |-> tag, type |-> type, items |-> items]
HeaderOK(header) ==
  /\ Len(header) \in Nat /\ DOMAIN header = 1 .. Len(header)
  /\ \A i \in DOMAIN header : header[i].items \in Seq(Range(header[i].items))

\* value_to_python
ValueToPython(e) ==
  CASE e.type = "null" -> [k |-> "None"]
    [] e.type \in {"char", "int8", "string", "binary"} -> [k |-> "bytes", v |-> e.items]
    [] OTHER -> [k |-> "list", v |-> e.items]

\* named_value_to_python: one integer is a scalar, a translated string its
\* first translation.
NamedValueToPython(e) ==
  CASE e.type \in {"int16", "int32", "int64"} /\ Len(e.items) = 1
         -> [k |-> "int", v |-> e.items[1]]
    [] e.type = "i18n_string"
         -> [k |-> "bytes", v |-> IF e.items = << >> THEN << >> ELSE e.items[1]]
    [] OTHER -> ValueToPython(e)

\* main_tag_name and signature_tag_name: what is not in the table keeps its
\* number.  The tables give a tag a meaning each of its own.
MainTagName == [tag \in {1, 2} |-> IF tag = 1 THEN "name" ELSE "version"]
SignatureTagName == [tag \in {1} |-> "size"]
TagKey(tag, names) ==
  IF tag \in DOMAIN names THEN [k |-> "str", v |-> names[tag]] ELSE [k |-> "int", v |-> tag]

\* PyRpmHeader::value: entries.iter().rev().find
HeaderValue(header, tag) ==
  LET places == {i \in DOMAIN header : header[i].tag = tag} IN
  IF places = {} THEN [k |-> "absent"] ELSE ValueToPython(header[Max(places)])

\* set_item of a Python dict, and a dict made of one item after the other.
SetItem(dict, key, value) ==
  [k \in DOMAIN dict \cup {key} |-> IF k = key THEN value ELSE dict[k]]
DictOf(keys, values) ==
  LET After[n \in 0 .. Len(keys)] ==
        IF n = 0 THEN << >> ELSE SetItem(After[n - 1], keys[n], values[n])
  IN  After[Len(keys)]

\* as_dict and as_named_dict
AsDict(header) ==
  DictOf([i \in DOMAIN header |-> header[i].tag],
         [i \in DOMAIN header |-> ValueToPython(header[i])])
AsNamedDict(header, names) ==
  DictOf([i \in DOMAIN header |-> TagKey(header[i].tag, names)],
         [i \in DOMAIN header |-> NamedValueToPython(header[i])])
-----------------------------------------------------------------------------
(***************************************************************************)
(* stream.rs: StreamInfo has the fields of every format; those the stream's *)
(* own format does not have are None.  info.own holds the format's fields.  *)
(***************************************************************************)
FrameFields == {"frame_count", "skippable_frame_count", "content_checksum_frame_count",
                "dictionary_frame_count"}
FieldsOf(format) ==
  CASE format = "lz4" ->
         FrameFields \cup {"block_checksum_frame_count", "legacy_frame_count",
                           "maximum_block_bytes"}
    [] format = "zstandard" -> FrameFields \cup {"maximum_window_bytes"}
    [] format = "unix-compress" ->
         {"maximum_code_bits", "block_mode", "decoder_dictionary_bytes"}
StreamFormats == {"lz4", "zstandard", "unix-compress"}

CoreStreamInfo(format, value) ==
  [format |-> format, own |-> [n \in FieldsOf(format) |-> value]]
PyStreamInfo(info) ==
  [format |-> info.format,
   fields |-> [n \in UNION {FieldsOf(f) : f \in StreamFormats} |->
                 IF n \in FieldsOf(info.format) THEN Some(info.own[n]) ELSE None]]
-----------------------------------------------------------------------------
(***************************************************************************)
(* limits.rs and config.rs: Limits, its builder and the Limits of Python.   *)
(***************************************************************************)
LimitFields ==
  {"max_header_bytes", "max_files", "max_folders", "max_coders_per_folder",
   "max_total_coders", "max_streams_per_folder", "max_total_streams",
   "max_stream_frames", "max_substreams", "max_header_properties",
   "max_coder_property_bytes", "max_name_bytes_per_entry", "max_total_name_bytes",
   "max_dictionary_bytes", "max_entry_output_bytes", "max_total_output_bytes",
   "max_volumes", "max_total_input_bytes", "max_kdf_power", "max_recursion_depth",
   "sfx_scan_limit"}
DefaultLimits == [n \in LimitFields |-> None]

\* One method of LimitsBuilder, one of Limits.
Override(limits, name, value) == [limits EXCEPT ![name] = Some(value)]
Limit(limits, name) == limits[name]

\* Limits(**given): what is not given stays at its default.
PyLimits(given) ==
  FoldSet(LAMBDA name, limits : Override(limits, name, given[name]), DefaultLimits,
          DOMAIN given)
PyLimitsGet(limits) == [name \in LimitFields |-> Limit(limits, name)]
=============================================================================
