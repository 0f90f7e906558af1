-------------------------------- MODULE Walk --------------------------------
(***************************************************************************)
(* From what the user names to files on the peer's disk (src/src/walk.rs,   *)
(* dest in src/src/recv.rs): the expansion of files and directories into a  *)
(* list of names, read entry by entry from a file system that changes       *)
(* meanwhile, and what the receiver makes of a name.                        *)
(*                                                                         *)
(* A component of a path is a sequence of small numbers in place of         *)
(* characters; a path is a sequence of components.                          *)
(***************************************************************************)
EXTENDS Integers, Sequences, SequencesExt, FiniteSets

CONSTANTS
  Tree,        \* path -> "file", "dir", "locked", "link" or "special" at the start
  InputLists,  \* what may be named: sequences of [path, name]
  Lossy,       \* to_string_lossy: a component -> its text
  MAX_FILES,   \* (200,000)
  MAX_DEPTH,   \* (64)
  MaxMishaps   \* bound on what vanishes and on errors the walk goes on after

Paths == DOMAIN Tree
Kinds == {"file", "dir", "locked", "link", "special"}
NoName == << >>      \* file_name() of a path that ends in .. or is /
DIR == <<99>>        \* the name "dir"
PART == 98           \* ".part"
Dot == <<97>>        \* the component "."
Up == <<96>>         \* the component ".."
Empty == << >>       \* nothing between two slashes
UNSAFE == 95         \* "unsafe-name-"

\* A component that a file system can have.
Component == Seq(Nat) \ {Dot, Up, Empty}

\* A file system is a tree of directories; what is not text in a name is replaced.
ASSUME WalkAssumption ==
  /\ IsFiniteSet(Paths) /\ Paths \subseteq Seq(Component) \ {<< >>}
  /\ Tree \in [Paths -> Kinds]
  /\ \A p \in Paths : /\ Len(p) > 1 => Front(p) \in Paths /\ Tree[Front(p)] \in {"dir", "locked"}
                      /\ \A k \in 1..Len(p) : Lossy[p[k]] \in Component
  /\ InputLists \subseteq Seq([path : Paths, name : Component \cup {NoName}])
  /\ \A list \in InputLists : \A k \in 1..Len(list) :
       list[k].name # NoName => Lossy[list[k].name] \in Component
  /\ MAX_FILES \in Nat /\ MAX_DEPTH \in Nat /\ MaxMishaps \in Nat

VARIABLES
  inputs,   \* the paths named, one of InputLists once expand is called
  kind,     \* path -> its kind now, or "gone"
  walk,     \* "off", "run", "ok" or "err"
  next,     \* the next of the inputs
  stack,    \* the calls of walk that are open, innermost last
  out,      \* the list: [path, name]
  skip,     \* what was left out
  mishaps,  \* changes of the file system and errors, so far
  hidden,   \* history: what readdir did not give though it was there
  unread    \* history: what symlink_metadata erred on
            \* (both pairs of an input's index and a path below the input)

errVars == <<hidden, unread>>
walkVars == <<inputs, kind, walk, next, stack, out, skip, mishaps, errVars>>

WalkInit ==
  /\ inputs = << >> /\ kind = Tree /\ walk = "off" /\ next = 1 /\ stack = << >> /\ out = << >>
  /\ skip = [symlinks |-> 0, specials |-> 0, unreadable |-> 0] /\ mishaps = 0
  /\ hidden = {} /\ unread = {}

\* expand is called.
WalkStart == walk' = "run" /\ inputs' \in InputLists

-----------------------------------------------------------------------------
(* The file system.                                                         *)

\* An entry, with all below it, is deleted or moved away.
Vanish(p) ==
  /\ mishaps < MaxMishaps /\ kind[p] # "gone" /\ walk = "run"
  /\ kind' = [q \in Paths |-> IF IsPrefix(p, q) THEN "gone" ELSE kind[q]]
  /\ mishaps' = mishaps + 1
  /\ UNCHANGED <<inputs, walk, next, stack, out, skip, errVars>>

Before(a, b) == \/ IsStrictPrefix(a, b)
                \/ \E k \in DOMAIN a \cap DOMAIN b :
                     a[k] < b[k] /\ \A j \in 1..k - 1 : a[j] = b[j]

There(d) == {p \in Paths : kind[p] # "gone" /\ Len(p) = Len(d) + 1 /\ IsPrefix(d, p)}

\* Entries of one directory in the order of their names.
ByName(read) ==
  [k \in 1..Cardinality(read) |->
     CHOOSE p \in read : Cardinality({q \in read : Before(Last(q), Last(p))}) = k - 1]

-----------------------------------------------------------------------------
(* expand and walk.                                                         *)

Call(d, rel, depth) == [dir |-> d, rel |-> rel, depth |-> depth, open |-> FALSE, rest |-> << >>]

Fails == /\ walk' = "err"
         /\ UNCHANGED <<inputs, kind, next, stack, out, skip, mishaps, errVars>>

\* What symlink_metadata may say of p: "gone" stands for its errors, of which that p is
\* not there is only one (no search permission on the directory, an input/output error).
Metadata(p) == {kind[p]} \cup (IF mishaps < MaxMishaps THEN {"gone"} ELSE {})

\* An entry that is said to be md: calls are the calls that stay open.
Entry(p, md, name, depth, calls) ==
  /\ stack' = (IF md \in {"dir", "locked"} THEN Append(calls, Call(p, name, depth)) ELSE calls)
  /\ out' = (IF md = "file" THEN Append(out, [path |-> p, name |-> name]) ELSE out)
  /\ skip' = CASE md = "link" -> [skip EXCEPT !.symlinks = @ + 1]
               [] md = "special" -> [skip EXCEPT !.specials = @ + 1]
               [] md = "gone" -> [skip EXCEPT !.unreadable = @ + 1]
               [] OTHER -> skip
  /\ UNCHANGED <<inputs, kind, walk, hidden>>

\* An error of symlink_metadata on a path that was named ends it all.
Input ==
  /\ walk = "run" /\ stack = << >> /\ next <= Len(inputs)
  /\ LET p == inputs[next].path
         name == IF inputs[next].name = NoName THEN DIR ELSE Lossy[inputs[next].name]
     IN \/ Fails
        \/ /\ kind[p] # "gone" /\ Entry(p, kind[p], <<name>>, 0, << >>)
           /\ next' = next + 1 /\ UNCHANGED <<mishaps, unread>>

Top == Last(stack)

\* The entries of the innermost directory are read; those whose reading errs are left out.
Listing ==
  \E read \in SUBSET There(Top.dir) :
    /\ stack' = Append(Front(stack), [Top EXCEPT !.open = TRUE, !.rest = ByName(read)])
    /\ hidden' = hidden \cup {<<next - 1, p>> : p \in There(Top.dir) \ read}
    /\ (IF read = There(Top.dir) THEN UNCHANGED mishaps
        ELSE mishaps < MaxMishaps /\ mishaps' = mishaps + 1)
    /\ UNCHANGED <<inputs, kind, walk, next, out, skip, unread>>

\* Mutant: no limit of the depth.
OpenDirAnyDepth ==
  /\ walk = "run" /\ stack # << >> /\ ~Top.open
  /\ Fails \/ (kind[Top.dir] = "dir" /\ Listing)

\* The start of a call: a directory too deep ends it all, and so does one that cannot be
\* opened, whatever the reason.
OpenDir ==
  /\ walk = "run" /\ stack # << >> /\ ~Top.open
  /\ Fails \/ (Top.depth <= MAX_DEPTH /\ kind[Top.dir] = "dir" /\ Listing)

\* The next entry p is looked at, and rest is left of its directory.
LookAt(p, md, rest) ==
  /\ Entry(p, md, Append(Top.rel, Lossy[Last(p)]), Top.depth + 1,
           Append(Front(stack), [Top EXCEPT !.rest = rest]))
  /\ unread' = (IF md = "gone" THEN unread \cup {<<next - 1, p>>} ELSE unread)
  /\ mishaps' = (IF md = kind[p] THEN mishaps ELSE mishaps + 1)
  /\ UNCHANGED next

\* Mutant: what cannot be looked at ends the loop.
NextEntryStops ==
  /\ walk = "run" /\ stack # << >> /\ Top.open /\ Top.rest # << >>
  /\ LET p == Head(Top.rest) IN
       IF Len(out) >= MAX_FILES THEN Fails
       ELSE \E md \in Metadata(p) :
              LookAt(p, md, IF md = "gone" THEN << >> ELSE Tail(Top.rest))

\* The loop of a call; what cannot be looked at is counted and passed over.
NextEntry ==
  /\ walk = "run" /\ stack # << >> /\ Top.open /\ Top.rest # << >>
  /\ LET p == Head(Top.rest) IN
       IF Len(out) >= MAX_FILES THEN Fails
       ELSE \E md \in Metadata(p) : LookAt(p, md, Tail(Top.rest))

Return ==
  /\ walk = "run" /\ stack # << >> /\ Top.open /\ Top.rest = << >>
  /\ stack' = Front(stack)
  /\ UNCHANGED <<inputs, kind, walk, next, out, skip, mishaps, errVars>>

Expanded ==
  /\ walk = "run" /\ stack = << >> /\ next > Len(inputs)
  /\ walk' = "ok"
  /\ UNCHANGED <<inputs, kind, next, stack, out, skip, mishaps, errVars>>

WalkStep == Input \/ OpenDir \/ NextEntry \/ Return \/ Expanded

-----------------------------------------------------------------------------
(* The receiver: where a name lands.                                        *)

NoPath == << >>

\* Path::components: empty components and a dot that is not the first vanish.
Components(name) ==
  LET keep == {k \in DOMAIN name : name[k] # Empty /\ (k = 1 \/ name[k] # Dot)} IN
    [j \in 1..Cardinality(keep) |->
       name[CHOOSE k \in keep : Cardinality({i \in keep : i < k}) = j - 1]]

Absolute(name) == Len(name) > 1 /\ name[1] = Empty

safe_relpath(name) ==
  IF Absolute(name) \/ \E k \in DOMAIN Components(name) : Components(name)[k] \in {Dot, Up}
  THEN NoPath ELSE Components(name)

Placeholder(idx) == <<<<UNSAFE, idx>>>>

\* Mutant: the directories of a name are dropped.
FinalPathFlat(name, idx) ==
  IF safe_relpath(name) = NoPath THEN Placeholder(idx) ELSE <<Last(safe_relpath(name))>>

FinalPath(name, idx) ==
  IF safe_relpath(name) = NoPath THEN Placeholder(idx) ELSE safe_relpath(name)

\* The last component of the final path with ".part" after it.
PartPath(name, idx) ==
  LET fin == FinalPath(name, idx) IN Append(Front(fin), Append(Last(fin), PART))

=============================================================================
