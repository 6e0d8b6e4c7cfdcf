-------------------------------- MODULE Paths --------------------------------
(* Paths of the virtual file system as sequences of characters: joining a     *)
(* directory and a name, and taking a path apart.                             *)
EXTENDS Integers, Sequences, FiniteSets, SequencesExt, Folds

CONSTANTS
  Sep,       \* FS_SEP
  Bases,     \* directories, sequences of characters
  Components,\* names, and paths to take apart
  None

VARIABLES
  base, component, \* arguments
  joined,          \* what fs_path_join wrote, or None
  parts            \* [parent, filename, ext] of component, or None

vars == <<base, component, joined, parts>>
-----------------------------------------------------------------------------
Separators == {Sep, "/"}
Greatest(S) == CHOOSE n \in S : \A m \in S : m <= n

\* strrchr: the last place of a character, or 0.
Place(path, c) == Greatest({0} \cup {i \in DOMAIN path : path[i] = c})

(* fs_path_join.                                                             *)

\* mutant: the separator before the directory is not taken away first.
PoppedKept(out) == SubSeq(out, 1, Greatest({0} \cup {i \in DOMAIN out : out[i] \in Separators}))

\* "..": without the separator at its end, back to the one before.  The code
\* writes no end of string there, so a separator that follows "../" at once,
\* after an empty segment, would be appended behind what was taken away.
Popped(out) ==
  LET dir == IF Len(out) > 1 /\ Last(out) = Sep THEN Front(out) ELSE out
  IN  SubSeq(dir, 1, Greatest({0} \cup {i \in DOMAIN dir : dir[i] \in Separators}))

\* One turn of the loop; skip counts the characters a turn has used up.
Turn(state, i) ==
  LET c == component[i]
      sepat(j) == j <= Len(component) /\ component[j] \in Separators
      out == state.out
  IN  IF state.skip > 0 THEN [state EXCEPT !.skip = @ - 1]
      ELSE IF c \in Separators /\ out # <<>> /\ Last(out) # Sep THEN [state EXCEPT !.out = Append(out, Sep)]
      ELSE IF c = "." /\ sepat(i + 1) THEN [state EXCEPT !.skip = 1]
      ELSE IF c = "." /\ i < Len(component) /\ component[i + 1] = "." /\ sepat(i + 2)
      THEN [out |-> Popped(out), skip |-> 2]
      ELSE [state EXCEPT !.out = Append(out, c)]

\* The last byte is looked at even if there is none; it then stays as it is.
PathJoin ==
  LET start == IF base # <<>> /\ Last(base) # Sep THEN Append(base, Sep) ELSE base
      end == FoldLeft(Turn, [out |-> start, skip |-> 0], [i \in DOMAIN component |-> i]).out
  IN  IF component = <<>> THEN base
      ELSE IF end # <<>> /\ Last(end) = Sep THEN Front(end) ELSE end

(* fs_parent_path, fs_path_ext, fs_path_filename.                            *)

ParentPath(path) ==
  LET at == IF Place(path, Sep) > 0 THEN Place(path, Sep) ELSE Place(path, "/")
  IN  SubSeq(path, 1, at - 1)

PathExt(path) ==
  LET at == Place(path, ".") IN
  IF at = 0 \/ at = Len(path) \/ path[at + 1] \in Separators THEN <<>>
  ELSE SubSeq(path, at + 1, Len(path))

\* mutant: the dot is not counted.
ExtLengthBare(path) == Len(PathExt(path))

ExtLength(path) == IF PathExt(path) = <<>> THEN 0 ELSE Len(PathExt(path)) + 1

\* The length is unsigned in the code: below zero it is a huge one, None here.
PathFilename(path) ==
  LET parent == Len(ParentPath(path))
      from == IF parent < Len(path) /\ path[parent + 1] \in Separators THEN parent + 1 ELSE parent
      length == Len(path) - from - ExtLength(path)
  IN  IF length < 0 THEN None ELSE SubSeq(path, from + 1, from + length)
-----------------------------------------------------------------------------
Init == base \in Bases /\ component \in Components /\ joined = None /\ parts = None

Join ==
  /\ joined = None /\ joined' = PathJoin
  /\ UNCHANGED <<base, component, parts>>

Split ==
  /\ parts = None /\ component # <<>>
  /\ parts' = [parent |-> ParentPath(component), filename |-> PathFilename(component), ext |-> PathExt(component)]
  /\ UNCHANGED <<base, component, joined>>

Next == Join \/ Split
Spec == Init /\ [][Next]_vars
-----------------------------------------------------------------------------
(* Properties.                                                               *)

Joined(segments) ==
  FoldLeft(LAMBDA path, s : IF path = <<>> THEN s ELSE path \o <<Sep>> \o s, <<>>, segments)

\* The segments of a path between its separators.
Segments(path) ==
  FoldLeft(LAMBDA segments, c : IF c \in Separators THEN Append(segments, <<>>)
                                ELSE [segments EXCEPT ![Len(segments)] = Append(@, c)], << <<>> >>, path)

Resolve(segments, s) ==
  IF s = <<".">> THEN segments
  ELSE IF s = <<".", ".">> THEN (IF segments = <<>> THEN segments ELSE Front(segments))
  ELSE Append(segments, s)

\* fs_path_join, which works character by character, resolves "." and ".."
\* like a resolution of whole segments: for directories and names without
\* empty segments, without names that end in a dot and without "." or ".." at
\* the end, where something is left.
JoinResolves ==
  LET given == Segments(component)
      clean == /\ \A i \in DOMAIN given :
                    /\ given[i] # <<>>
                    /\ Last(given[i]) = "." => (given[i] \in {<<".">>, <<".", ".">>} /\ i < Len(given))
               /\ base # <<>> => \A i \in DOMAIN Segments(base) : Segments(base)[i] # <<>>
      start == IF base = <<>> THEN <<>> ELSE Segments(base)
  IN  (joined # None /\ clean) => joined = Joined(FoldLeft(Resolve, start, given))

\* fs_path_filename: the parts are a path again, if no directory has a dot.
PartsMakePath ==
  (parts # None /\ ~\E i, j \in DOMAIN component : i < j /\ component[i] = "." /\ component[j] \in Separators) =>
    LET tail == parts.filename \o (IF parts.ext = <<>> THEN <<>> ELSE <<".">> \o parts.ext) IN
    /\ parts.filename # None
    /\ component = parts.parent \o
         (IF Len(parts.parent) + Len(tail) < Len(component) THEN <<component[Len(parts.parent) + 1]>> ELSE <<>>) \o tail
=============================================================================
