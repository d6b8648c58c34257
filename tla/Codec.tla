-------------------------------- MODULE Codec --------------------------------
(***************************************************************************)
(* decode/codecs.rs: the one-shot decoders the package readers call on a    *)
(* whole compressed payload, and the containers of rpm/decode.rs.           *)
(*                                                                          *)
(* A compressed stream is one cell: the codec it was written for, the cells *)
(* it decodes to, whether it is sound to its end, and what its header asks  *)
(* for.  Cells after it are trailing input.  A digest or CRC of cells is    *)
(* modelled by the cells themselves: it tells any two contents apart.       *)
(***************************************************************************)
EXTENDS Package

NoSize == -1     \* expected: None, and a field that is absent

Packed(codec, out) ==
  [k |-> "packed", codec |-> codec, out |-> out, sound |-> TRUE, window |-> 1,
   declared |-> NoSize, dictionary |-> 0]
NotPacked == [Packed("none", << >>) EXCEPT !.sound = FALSE]

Stream(cells) == RecordAt(cells, 0, "packed", NotPacked)
StreamOutput(cells) == Stream(cells).out

\* decode_reader and append_output: the output may exceed neither the declared
\* size nor the maximum while the decoder runs, and must meet the former.
ReaderChecks(cells, expected, maximum) ==
  LET s == Stream(cells) IN
  << <<expected <= maximum, "limit">>,
     <<expected # NoSize => Len(s.out) <= expected, "format">>,
     <<Len(s.out) <= maximum, "limit">>,
     <<s.sound, "format">>,
     <<expected # NoSize => Len(s.out) = expected, "format">> >>

\* decode_deflate: its own loop, with the same checks, and no trailing input.
DeflateChecks(cells, expected, maximum) ==
  << <<1 <= limits.dictionary, "limit">>,
     <<Stream(cells).codec = "deflate", "format">> >>
  \o ReaderChecks(cells, expected, maximum)
  \o << <<Len(cells) = 1, "format">> >>

\* decode_bzip2: the block size of the stream header decides the memory.
Bzip2Checks(cells, expected, maximum) ==
  << <<Stream(cells).codec = "bzip2", "format">>,
     <<Stream(cells).window <= limits.dictionary, "limit">> >>
  \o ReaderChecks(cells, expected, maximum)

\* zstd_window_bytes and decode_zstd: the frame's own content size must be the
\* declared one before anything is decoded, and is the window of a frame
\* that has no other.
ZstdChecks(cells, expected, maximum) ==
  LET s == Stream(cells) IN
  << <<s.codec = "zstd", "format">>,
     <<s.dictionary = 0, "unsupported">>,
     <<s.declared # NoSize /\ expected # NoSize => s.declared = expected, "format">>,
     <<(IF s.window = NoSize THEN s.declared ELSE s.window) <= limits.dictionary,
       "limit">> >>
  \o ReaderChecks(cells, expected, maximum)

CodecChecks(codec, cells, expected, maximum) ==
  CASE codec = "deflate" -> DeflateChecks(cells, expected, maximum)
    [] codec = "bzip2"   -> Bzip2Checks(cells, expected, maximum)
    [] codec = "zstd"    -> ZstdChecks(cells, expected, maximum)
-----------------------------------------------------------------------------
(***************************************************************************)
(* decode_gzip: a header of one cell with the optional parts it announces,  *)
(* the deflate stream, and a trailer of one cell                            *)
(***************************************************************************)
GzipMod == 4     \* 2^32: the trailer holds the size modulo this
GzipHeader(extra, name, comment, crc) ==
  [k |-> "gzip", valid |-> TRUE, extra |-> extra, name |-> name,
   comment |-> comment, crc |-> crc]
GzipNoHeader == [GzipHeader(NoSize, FALSE, FALSE, FALSE) EXCEPT !.valid = FALSE]
Digest(cells) == [k |-> "digest", of |-> cells]
GzipTrailer(out) == [k |-> "gzend", of |-> out, size |-> Len(out) % GzipMod]
GzipNoTrailer == [GzipTrailer(<< >>) EXCEPT !.k = "none", !.size = NoSize]

\* skip_c_string: past the next NUL at or after o, or past the end.
SkipString(cells, o) ==
  LET ends == {p \in o + 1 .. Len(cells) : cells[p] = Zero} IN
  IF ends = {} THEN Len(cells) + 1 ELSE Min(ends)

\* The places behind the extra field, the name and the comment.
GzipPlaces(cells) ==
  LET h == RecordAt(cells, 0, "gzip", GzipNoHeader)
      extra == IF h.extra = NoSize THEN 1 ELSE 1 + h.extra
      name == IF h.name THEN SkipString(cells, extra) ELSE extra
      comment == IF h.comment THEN SkipString(cells, name) ELSE name IN
  [extra |-> extra, name |-> name, comment |-> comment,
   data |-> IF h.crc THEN comment + 1 ELSE comment]

GzipChecksAt(cells, h, p, stream, trailer, maximum) ==
  << <<h.valid, "format">>,
     <<p.extra <= Len(cells) /\ p.name <= Len(cells) /\ p.comment <= Len(cells), "format">>,
     <<p.comment <= limits.header, "limit">>,
     <<h.crc => p.comment < Len(cells), "format">>,
     <<h.crc => RecordAt(cells, p.comment, "digest", Zero)
                  = Digest(Slice(cells, 0, p.comment)), "checksum">>,
     <<p.data <= limits.header, "limit">>,
     <<p.data < Len(cells), "format">> >>
  \o DeflateChecks(stream, NoSize, maximum)
  \o << <<trailer.of = StreamOutput(stream)
            /\ trailer.size = Len(StreamOutput(stream)) % GzipMod, "checksum">> >>

GzipStream(cells) ==
  Slice(cells, GzipPlaces(cells).data, Len(cells) - 1 - GzipPlaces(cells).data)

GzipChecks(cells, maximum) ==
  GzipChecksAt(cells, RecordAt(cells, 0, "gzip", GzipNoHeader), GzipPlaces(cells),
               GzipStream(cells),
               RecordAt(cells, Len(cells) - 1, "gzend", GzipNoTrailer), maximum)

GzipOutput(cells) == StreamOutput(GzipStream(cells))

\* decode_legacy_lzma
LzmaChecks(cells, maximum) ==
  << <<Len(cells) >= 1, "format">>,
     <<Stream(cells).window <= limits.dictionary, "limit">>,
     <<Stream(cells).codec = "lzma", "format">> >>
  \o ReaderChecks(cells, NoSize, maximum)
=============================================================================
