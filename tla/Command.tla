------------------------------ MODULE Command -------------------------------
(***************************************************************************)
(* The commands discover and send (src/src/main.rs): a peer named by its    *)
(* address or looked up by its name with a scan, the expansion of the paths *)
(* given, and the sending, of which only the checksum of one file is        *)
(* followed here (SlabPipe, Resume and Session model the rest).             *)
(***************************************************************************)
EXTENDS Discover, Walk, Crc, FiniteSetsExt

CONSTANTS
  Tasks,      \* what is typed: [does, peer], the peer an address or a name
              \* (a name is a number larger than the addresses)
  NameOf      \* address -> the name its ibsend tells

ByAddress(t) == t.peer \in 0..AddrMod - 1

VARIABLES
  task,      \* the command given
  cmd,       \* "args", "lookup", "expand", "send", "done" or "failed"
  to,        \* the address sent to, or NoAddress
  landed     \* where the receiver puts each file: [fin, part]

NoAddress == -1
cmdVars == <<task, cmd, to, landed>>
vars == <<scanVars, walkVars, crcVars, cmdVars>>

Init ==
  /\ ScanInit /\ WalkInit /\ CrcRest
  /\ task \in Tasks /\ cmd = "args" /\ to = NoAddress /\ landed = << >>

\* An address is taken as it is; anything else is a name to be looked up.
ParseArgs ==
  /\ cmd = "args"
  /\ IF task.does = "send" /\ ByAddress(task)
       THEN cmd' = "expand" /\ to' = task.peer /\ WalkStart /\ UNCHANGED scanVars
       ELSE cmd' = "lookup" /\ StartThreads /\ UNCHANGED <<to, walk, inputs>>
  /\ UNCHANGED <<kind, next, stack, out, skip, mishaps, errVars, crcVars, task, landed>>

Scanning ==
  /\ cmd = "lookup" /\ (Collect \/ \E t \in Threads : ScanThread(t))
  /\ UNCHANGED <<walkVars, crcVars, cmdVars>>

Bearers == {k \in DOMAIN peers : NameOf[peers[k]] = task.peer}

Listed ==
  /\ cmd = "lookup" /\ scan = "done" /\ task.does = "discover"
  /\ cmd' = "done"
  /\ UNCHANGED <<scanVars, walkVars, crcVars, task, to, landed>>

\* The first of the list that has the name, if any; the list is let go.
LookedUp ==
  /\ cmd = "lookup" /\ scan = "done" /\ task.does = "send"
  /\ IF Bearers = {} THEN cmd' = "failed" /\ UNCHANGED <<to, walk, inputs>>
     ELSE cmd' = "expand" /\ to' = peers[Min(Bearers)] /\ WalkStart
  /\ scan' = "off" /\ peers' = << >>
  /\ UNCHANGED <<todo, thread, rx, kind, next, stack, out, skip, mishaps, errVars, crcVars,
                 task, landed>>

Expanding ==
  /\ cmd = "expand" /\ (WalkStep \/ \E p \in Paths : Vanish(p))
  /\ UNCHANGED <<scanVars, crcVars, cmdVars>>

NothingToSend ==
  /\ cmd = "expand" /\ (walk = "err" \/ (walk = "ok" /\ out = << >>))
  /\ cmd' = "failed"
  /\ UNCHANGED <<scanVars, walkVars, crcVars, task, to, landed>>

\* The manifest goes out and the receiver names the files on its disk; one of
\* them is followed further.
Manifested ==
  /\ cmd = "expand" /\ walk = "ok" /\ out # << >> /\ cmd' = "send"
  /\ landed' = [k \in DOMAIN out |-> [fin |-> FinalPath(out[k].name, k - 1),
                                      part |-> PartPath(out[k].name, k - 1)]]
  /\ CrcStart
  /\ UNCHANGED <<scanVars, walkVars, task, to>>

Sending ==
  /\ cmd = "send" /\ Update
  /\ UNCHANGED <<scanVars, walkVars, cmdVars>>

Sent ==
  /\ cmd = "send" /\ at = Len(bytes)
  /\ cmd' = "done"
  /\ UNCHANGED <<scanVars, walkVars, crcVars, task, to, landed>>

Next == \/ ParseArgs \/ Scanning \/ Listed \/ LookedUp \/ Expanding \/ NothingToSend
        \/ Manifested \/ Sending \/ Sent

Spec == Init /\ [][Next]_vars
FairSpec == Spec /\ WF_vars(Next)

-----------------------------------------------------------------------------
(* Properties.                                                              *)

\* The types and ranges of the state.
TypeOK ==
  /\ task \in Tasks /\ cmd \in {"args", "lookup", "expand", "send", "done", "failed"}
  /\ to \in {NoAddress} \cup (0..AddrMod - 1)
  /\ scan \in {"off", "run", "done"} /\ Range(todo) \subseteq Range(targets)
  /\ \A t \in Threads : thread[t] \in {Off, Idle, Ended} \cup Range(targets)
  /\ kind \in [Paths -> Kinds \cup {"gone"}] /\ walk \in {"off", "run", "ok", "err"}
  /\ next \in 1..Len(inputs) + 1 /\ mishaps \in 0..MaxMishaps
  /\ \A k \in DOMAIN stack : stack[k].dir \in Paths /\ stack[k].depth = k - 1
  /\ Len(stack) <= MAX_DEPTH + 2
  /\ \A k \in DOMAIN out : Tree[out[k].path] = "file"
  /\ hidden \cup unread \subseteq (1..Len(inputs)) \X Paths
  /\ at \in 0..Len(bytes) /\ crc \in Register

Occurrences(a, s) == Cardinality({k \in 1..Len(s) : s[k] = a})

\* A finished scan lists every peer that always answers as often as interfaces
\* lead to it, nothing that was not to be scanned, in the order of addresses,
\* however the threads shared the work (discover.rs:97-121).
ScanIsComplete ==
  scan = "done" =>
    /\ \A a \in Steady : Occurrences(a, peers) = Occurrences(a, targets)
    /\ \A a \in Range(peers) : Occurrences(a, peers) <= Occurrences(a, targets)
    /\ \A k \in 1..Len(peers) - 1 : peers[k] <= peers[k + 1]

Covering(p) == {k \in 1..Len(inputs) : IsPrefix(inputs[k].path, p)}
Listings(p) == {k \in 1..Len(out) : out[k].path = p}

\* The inputs for which an error kept the walk from p, or from a directory above it.
Lost(p) == {k \in 1..Len(inputs) :
              \E e \in Paths : IsPrefix(e, p) /\ <<k, e>> \in hidden \cup unread}
Reached(p) == Covering(p) \ Lost(p)

\* The entries that are still of a kind, for each input above them that was to reach them.
Steadily(what) ==
  {kp \in (1..Len(inputs)) \X Paths : kind[kp[2]] = what /\ kp[1] \in Reached(kp[2])}

\* A list that is accepted has every file that stayed where it was once for each
\* input above it, and no other file more often, whatever vanished meanwhile
\* (walk.rs:83-99): except where reading a directory's entries erred, which the
\* code drops without a word (walk.rs:84), or looking at one did (walk.rs:95).
\* Each of the latter is counted as unreadable, once. So a list without either
\* is exact, and what an error costs is that entry and what is below it, no more.
ListIsExact ==
  walk = "ok" =>
    /\ \A p \in Paths :
         /\ kind[p] = "file" => Cardinality(Listings(p)) = Cardinality(Reached(p))
         /\ Cardinality(Listings(p)) <= Cardinality(Reached(p))
    /\ skip.symlinks >= Cardinality(Steadily("link"))
    /\ skip.specials >= Cardinality(Steadily("special"))
    /\ skip.unreadable = Cardinality(unread)

Plain(path) == path # << >> /\ \A k \in DOMAIN path : path[k] \notin {Dot, Up, Empty}

\* The receiver keeps every name that a sender's walk makes, and two names meet on
\* its disk only where one is the other with ".part" after it (recv.rs:82-88).
NamesLandApart ==
  \A i, j \in DOMAIN landed :
    /\ landed[i].fin = out[i].name /\ Plain(landed[i].fin)
    /\ out[i].name # out[j].name =>
         /\ landed[i].fin # landed[j].fin /\ landed[i].part # landed[j].part
         /\ landed[i].fin = landed[j].part =>
              out[i].name = Append(Front(out[j].name), Append(Last(out[j].name), PART))

\* Wherever the bytes of a file are cut and whether the machine has the
\* instruction or not, its register stands for the CRC32C of what it has seen: so
\* two different machines agree on the file (crc.rs:45-112).
ChecksumIsRight == finish(crc) = Checksum(SubSeq(bytes, 1, at))

\* A command comes to its end: no thread of a scan is waited for in vain, and the
\* walk ends in spite of what vanishes.
CommandEnds == <>(cmd \in {"done", "failed"})

=============================================================================
