---------------------------- MODULE MCStreamPump ----------------------------
(***************************************************************************)
(* Streams to extract: one frame of every kind, and two frames the first   *)
(* of which is one of a few.  Streams to open only: up to three frames,    *)
(* good and bad, with look-alikes, cut anywhere.                           *)
(***************************************************************************)
EXTENDS StreamPump

CONSTANT MaxOutput

Decoder(size, damage) == [output |-> size, left |-> 0, damage |-> damage]
Block(size, type, last) == [size |-> size, type |-> type, last |-> last]

Flags(content) ==
  [k |-> "flags", version |-> 1, reserved |-> FALSE, maximum |-> 1, content |-> content,
   dictionary |-> FALSE, blocks |-> FALSE, checksum |-> TRUE, sealed |-> TRUE]
Descriptor(content) ==
  [k |-> "descriptor", reserved |-> FALSE, single |-> FALSE, window |-> 2,
   content |-> content, dictionary |-> FALSE, checksum |-> TRUE]

FrameOf(type, header, blocks, decoder) ==
  [type |-> type, header |-> header, blocks |-> blocks, inside |-> << >>,
   decoder |-> decoder]
Written(type, content, decoder) ==
  CASE type = "lz4" -> FrameOf(type, Flags(content), <<Block(1, "packed", FALSE)>>, decoder)
    [] type = "legacy" -> FrameOf(type, Flags(Unknown), <<Block(1, "packed", FALSE)>>, decoder)
    [] type = "zstandard" ->
         FrameOf(type, Descriptor(content), <<Block(1, "raw", TRUE)>>, decoder)
Skip(inside) == [Written("lz4", 0, Decoder(0, "none")) EXCEPT !.type = "skip", !.inside = inside]

(***************************************************************************)
(* To extract                                                              *)
(***************************************************************************)
Job(written) ==
  [written |-> written, input |-> WrittenInput(written), requested |-> "any",
   extract |-> TRUE, budget |-> Unlimited, openBudget |-> Unlimited, maxInput |-> 40,
   maxFrames |-> 4, maxEntry |-> 9, maxTotal |-> 3, maxDictionary |-> 4]

\* Every declaration of the size, every damage, a decoder that stops early.
MCFrames ==
  {Written(type, declared, Decoder(size, damage)) :
     type \in {"lz4", "zstandard"}, declared \in {Unknown, 0, 2}, size \in 0 .. MaxOutput,
     damage \in Damages}
  \cup {[Written(type, declared, [Decoder(2, "none") EXCEPT !.left = left])
           EXCEPT !.header.checksum = FALSE] :
          type \in {"lz4", "zstandard"}, declared \in {Unknown, 2}, left \in {0, 1}}
  \cup {Written("legacy", Unknown, Decoder(size, damage)) :
          size \in {0, 1}, damage \in Damages \ {"checksum"}}

MCFirst ==
  {Skip(<<LookAlike>>), Written("lz4", 1, Decoder(1, "none")),
   Written("legacy", Unknown, Decoder(1, "none")),
   Written("zstandard", Unknown, Decoder(1, "none")),
   [Written("lz4", Unknown, Decoder(1, "none")) EXCEPT !.header.dictionary = TRUE]}

MCStreams ==
  {<<f>> : f \in MCFrames}
    \cup {<<g, f>> : g \in MCFirst, f \in {x \in MCFrames : x.decoder.output \in {0, 2}}}

\* Budgets and limits that are reached or not.
MCLimited(j) ==
  {j, [j EXCEPT !.budget = 14], [j EXCEPT !.budget = 4, !.maxTotal = 9],
   [j EXCEPT !.maxEntry = 2, !.maxTotal = 9, !.maxDictionary = 9]}

(***************************************************************************)
(* To open                                                                 *)
(***************************************************************************)
Nothing == Decoder(0, "none")

OpenFrames ==
  {Skip(<< >>), Skip(<<LookAlike, EndMark>>), Skip(<<Magic("zstandard", Nothing)>>)}
  \cup {FrameOf("lz4", [Flags(Unknown) EXCEPT !.blocks = TRUE], blocks, Nothing) :
          blocks \in {<< >>, <<Block(1, "packed", FALSE)>>,
                      <<Block(0, "packed", FALSE)>>, <<Block(2, "packed", FALSE)>>}}
  \cup {FrameOf("lz4", h, << >>, Nothing) :
          h \in {[Flags(1) EXCEPT !.version = 0], [Flags(1) EXCEPT !.reserved = TRUE],
                 [Flags(1) EXCEPT !.maximum = 0], [Flags(1) EXCEPT !.sealed = FALSE],
                 Flags(4), [Flags(1) EXCEPT !.dictionary = TRUE]}}
  \cup {FrameOf("legacy", Flags(Unknown), blocks, Nothing) :
          blocks \in {<< >>, <<Block(2, "packed", FALSE), Block(1, "packed", FALSE)>>,
                      <<Block(1, "packed", FALSE), Block(0, "packed", FALSE)>>,
                      <<Block(3, "packed", FALSE)>>}}
  \cup {FrameOf("zstandard", Descriptor(Unknown), blocks, Nothing) :
          blocks \in {<<Block(2, "rle", TRUE)>>,
                      <<Block(1, "raw", FALSE), Block(2, "packed", TRUE)>>,
                      <<Block(0, "reserved", TRUE)>>, <<Block(3, "raw", TRUE)>>}}
  \cup {FrameOf("zstandard", h, <<Block(0, "raw", TRUE)>>, Nothing) :
          h \in {[Descriptor(1) EXCEPT !.reserved = TRUE], [Descriptor(4) EXCEPT !.single = TRUE],
                 [Descriptor(Unknown) EXCEPT !.window = 5],
                 [Descriptor(1) EXCEPT !.dictionary = TRUE, !.checksum = FALSE]}}

OpenStreams ==
  {<<f>> : f \in OpenFrames} \cup {<<f, g>> : f \in OpenFrames, g \in OpenFrames}
    \cup {<<f, g, g>> : f \in {Skip(<<Magic("zstandard", Nothing)>>)}, g \in OpenFrames}

Opening(written, requested) ==
  [Job(written) EXCEPT !.extract = FALSE, !.requested = requested]
Cut(j) == {[j EXCEPT !.input = SubSeq(@, 1, n)] : n \in 0 .. Len(j.input)}

OpenJobs ==
  UNION {Cut(Opening(written, "any")) : written \in OpenStreams}
  \cup {Opening(<<f>>, requested) : f \in OpenFrames, requested \in {"lz4", "zstandard"}}
  \cup {[Opening(<<f, f>>, "any") EXCEPT
           !.maxFrames = l[1], !.maxInput = l[2], !.openBudget = l[3]] :
          f \in OpenFrames, l \in {<<1, 40, 40>>, <<4, 6, 40>>, <<4, 40, 6>>}}

MCJobs ==
  UNION {MCLimited(Job(written)) : written \in {w \in MCStreams : JobOK(Job(w))}}
    \cup OpenJobs
=============================================================================
