------------------------------- MODULE SafePath -------------------------------
(***************************************************************************)
(* path.rs: is an archive name safe to be used as a path?  A name is a      *)
(* sequence of the characters that decide it: both separators, the dot, the *)
(* colon, NUL, a letter, and any other, which may be ill-formed.            *)
(***************************************************************************)
EXTENDS Integers, Sequences, FiniteSetsExt

Characters == {"/", "\\", ".", ":", "nul", "letter", "other", "bad"}

\* Mutant: only the separator of POSIX separates.
IsSeparator_Posix(c) == c = "/"

\* is_byte_separator, is_u16_separator
IsSeparator(c) == c \in {"/", "\\"}

\* A component of the path that is exactly two dots.
HasParent(path) ==
  \E i \in 1 .. Len(path) - 1 :
    /\ path[i] = "." /\ path[i + 1] = "."
    /\ i = 1 \/ IsSeparator(path[i - 1])
    /\ i + 2 > Len(path) \/ IsSeparator(path[i + 2])

\* "ok", or the UnsafePathReason.
ValidateSafePath(path) ==
  CASE path = << >> -> "empty"
    [] path # << >> /\ (\E i \in DOMAIN path : path[i] = "nul") -> "nul"
    [] OTHER ->
       IF IsSeparator(path[1])
         THEN IF Len(path) > 1 /\ IsSeparator(path[2]) THEN "unc" ELSE "absolute"
       ELSE IF path[1] = "letter" /\ Len(path) > 1 /\ path[2] = ":" THEN "drive"
       ELSE IF HasParent(path) THEN "traversal"
       ELSE "ok"

\* The same on UTF-16 code units: an unpaired surrogate is one more unit that is
\* none of those that matter.
ValidateSafeUtf16Path(units) == ValidateSafePath(units)

\* String::from_utf8_lossy and its UTF-16 twin: ill-formed input becomes one
\* replacement character.
Lossy(path) == [i \in DOMAIN path |-> IF path[i] = "bad" THEN "other" ELSE path[i]]
-----------------------------------------------------------------------------
(***************************************************************************)
(* What a file system makes of a path below a directory, on either          *)
(* platform: where it starts, and the directories it enters and leaves.     *)
(***************************************************************************)

\* The components of the path, as the places where they begin and end.
Components(path, separators) ==
  {c \in (DOMAIN path) \X (DOMAIN path) :
     /\ c[1] <= c[2]
     /\ \A i \in c[1] .. c[2] : path[i] \notin separators
     /\ c[1] = 1 \/ path[c[1] - 1] \in separators
     /\ c[2] = Len(path) \/ path[c[2] + 1] \in separators}

Levels(component) ==
  CASE component = <<".">>      -> 0
    [] component = <<".", ".">> -> -1
    [] OTHER                    -> 1

\* The path climbs out of the directory it is joined to.
Climbs(path, separators) ==
  \E c \in Components(path, separators) :
    SumFunctionOnSet(
      [d \in Components(path, separators) |-> Levels(SubSeq(path, d[1], d[2]))],
      {d \in Components(path, separators) : d[2] <= c[2]}) < 0

EscapesOnPosix(path) ==
  path # << >> /\ (path[1] = "/" \/ Climbs(path, {"/"}))
EscapesOnWindows(path) ==
  path # << >> /\ \/ path[1] \in {"/", "\\"}
                  \/ path[1] = "letter" /\ Len(path) > 1 /\ path[2] = ":"
                  \/ Climbs(path, {"/", "\\"})
Escapes(path) == EscapesOnPosix(path) \/ EscapesOnWindows(path)
=============================================================================
