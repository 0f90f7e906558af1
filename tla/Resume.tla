------------------------------- MODULE Resume -------------------------------
(***************************************************************************)
(* Files on the receiver's disk over several sessions that send the same    *)
(* files: the manifest, scan_existing, the sender's CatReader, and the      *)
(* writer thread with its Splitter (src/src/recv.rs, src/src/send.rs).  The *)
(* transport between them is the FIFO that SlabPipe implements: chunks      *)
(* arrive in order until the end of the stream or until the session is      *)
(* lost.  Meanwhile somebody may write to the files being sent.             *)
(*                                                                         *)
(* A byte is <<file, offset>>, a file's content is a sequence of bytes, a   *)
(* CRC is the content it covers.  A step writes to the disk at most once,   *)
(* so that a crash can fall between any two.                                *)
(***************************************************************************)
EXTENDS Integers, Sequences

CONSTANTS
  NFiles,          \* files that are sent
  Size,            \* their sizes at first
  Lengths,         \* file -> sizes it may be given later
  Kinds,           \* the interruptions that may happen, of InterruptKinds
  Paths,           \* paths of the destination directory
  FinPath,         \* a file's final path
  PartPath,        \* the path of its .part file
  SlabLen,         \* bytes in a slab
  QueueCap,        \* chunks under way
  Absent,          \* the value of a path at which there is no file
  MaxInterrupts,   \* bound on the interruptions
  MaxSessions      \* bound on the sessions

InterruptKinds == {"crash", "disk", "peer", "source"}
Files == 1..NFiles

ASSUME ResumeAssumption ==
  /\ NFiles \in Nat \ {0}
  /\ Size \in [Files -> Nat]
  /\ Lengths \in [Files -> SUBSET Nat] /\ Kinds \subseteq InterruptKinds
  /\ FinPath \in [Files -> Paths] /\ PartPath \in [Files -> Paths]
  /\ SlabLen \in Nat \ {0} /\ QueueCap \in Nat \ {0}
  /\ MaxInterrupts \in Nat /\ MaxSessions \in Nat

NoFile == 0

Shorter(a, b) == IF a <= b THEN a ELSE b
Prefix(s, n) == SubSeq(s, 1, n)
Rest(s, n) == SubSeq(s, n + 1, Len(s))

VARIABLES
  len,         \* the sizes of the sources now
  fs,          \* path -> content or Absent
  phase,       \* "idle", or "run" during a session
  size,        \* the manifest of this session
  have,        \* the resume offsets of its REPLY
  slab,        \* what the reader has put into the slab it fills
  rIdx,        \* the CatReader's next file
  rCur, rOff,  \* the file it has open, or NoFile, and how far it has read it
  rCrc,        \* what its CRC covers so far
  theirs,      \* the CatReader's CRCs
  queue,       \* chunks on their way to the writer
  pumpEnd,     \* how pump ended: "none", "eof" or "lost"
  writer,      \* the writer thread: "run", "ok" or "err"
  data,        \* what is left of the chunk being written
  idx,         \* the Splitter's next file
  cur,         \* the file it has open, or NoFile
  left,        \* bytes that file still needs
  curCrc,      \* what its CRC covers so far
  ours,        \* the Splitter's CRCs
  verified,    \* files whose CRCs agreed in the last session that succeeded
  bad,         \* files whose CRCs did not
  happened,    \* kinds of the interruptions so far
  interrupts,  \* their number
  sessions     \* sessions started

sessionVars == <<phase, size, have, sessions>>
readerVars == <<slab, rIdx, rCur, rOff, rCrc, theirs>>
pipeVars == <<queue, pumpEnd>>
splitterVars == <<writer, data, idx, cur, left, curCrc, ours>>
reportVars == <<verified, bad>>
faultVars == <<happened, interrupts>>
vars == <<len, fs, sessionVars, readerVars, pipeVars, splitterVars, reportVars, faultVars>>

Source(i) == [k \in 1..len[i] |-> <<i, k>>]

\* What a scan of the directory finds of a file: a file of the right size under its
\* final name, else a .part shorter than the file, else nothing.
ResumePoint(i) ==
  IF fs[FinPath[i]] # Absent /\ Len(fs[FinPath[i]]) = len[i] THEN len[i]
  ELSE IF fs[PartPath[i]] # Absent /\ Len(fs[PartPath[i]]) < len[i]
    THEN Len(fs[PartPath[i]])
    ELSE 0

\* Mutant: a .part of any length is resumed.
ScanAnyPart ==
  [i \in Files |->
     IF fs[FinPath[i]] # Absent /\ Len(fs[FinPath[i]]) = len[i] THEN len[i]
     ELSE IF fs[PartPath[i]] # Absent THEN Len(fs[PartPath[i]]) ELSE 0]

\* The scan for a manifest that has just been made.
scan_existing == [i \in Files |-> ResumePoint(i)]

\* Files found on disk before the first session: nothing, a proper .part, or a
\* .part or a final file of a wrong length.
Leftover(i) == {Absent, Prefix(Source(i), Shorter(1, Size[i])),
                [k \in 1..(Size[i] + 1) |-> <<NoFile, k>>]}

Init ==
  /\ len = Size
  /\ fs \in {f \in [Paths -> {Absent} \cup UNION {Leftover(i) : i \in Files}] :
               \A p \in Paths :
                 \/ f[p] = Absent
                 \/ \E i \in Files : p = PartPath[i] /\ f[p] \in Leftover(i)
                 \/ \E i \in Files : p = FinPath[i] /\ Len(f[p]) = Size[i] + 1
                                     /\ f[p] \in Leftover(i)}
  /\ phase = "idle" /\ size = Size /\ have = [i \in Files |-> 0] /\ sessions = 0
  /\ slab = << >> /\ rIdx = 1 /\ rCur = NoFile /\ rOff = 0 /\ rCrc = << >>
  /\ theirs = [i \in Files |-> << >>] /\ queue = << >> /\ pumpEnd = "none"
  /\ writer = "run" /\ data = << >> /\ idx = 1 /\ cur = NoFile /\ left = 0
  /\ curCrc = << >> /\ ours = [i \in Files |-> << >>]
  /\ verified = {} /\ bad = {} /\ happened = {} /\ interrupts = 0

\* A session starts: the manifest, the scan, the REPLY, a fresh CatReader and
\* Splitter.
Start ==
  /\ phase = "idle" /\ sessions < MaxSessions
  /\ phase' = "run" /\ sessions' = sessions + 1
  /\ size' = len /\ have' = scan_existing
  /\ slab' = << >> /\ rIdx' = 1 /\ rCur' = NoFile /\ rOff' = 0 /\ rCrc' = << >>
  /\ theirs' = [i \in Files |-> << >>] /\ queue' = << >> /\ pumpEnd' = "none"
  /\ writer' = "run" /\ data' = << >> /\ idx' = 1 /\ cur' = NoFile /\ left' = 0
  /\ curCrc' = << >> /\ ours' = [i \in Files |-> << >>]
  /\ verified' = {} /\ bad' = {}
  /\ UNCHANGED <<len, fs, faultVars>>

\* The files from the n-th on of which this session transfers something, and the
\* first of them.
From(n) == {i \in Files : i >= n /\ have[i] < size[i]}
IsNext(i, n) == i \in From(n) /\ \A j \in From(n) : i <= j

Interrupted(kind) ==
  /\ kind \in Kinds /\ interrupts < MaxInterrupts
  /\ happened' = happened \cup {kind} /\ interrupts' = interrupts + 1

\* Sessions are left for what may still happen, and one more (a bound).
RoomToRepeat == sessions + (MaxInterrupts - interrupts) <= MaxSessions

\* Somebody writes to a file that is being sent.
SourceChanges ==
  /\ Interrupted("source") /\ phase = "run" /\ RoomToRepeat
  /\ \E i \in Files : \E n \in Lengths[i] : len' = [len EXCEPT ![i] = n]
  /\ UNCHANGED <<fs, sessionVars, readerVars, pipeVars, splitterVars, reportVars>>

-----------------------------------------------------------------------------
(* The sender: the turns of the loop of CatReader::fill, across the borders  *)
(* of files.                                                                 *)

Sending == phase = "run" /\ pumpEnd = "none"
SenderOnly == UNCHANGED <<len, fs, sessionVars, splitterVars, reportVars, faultVars>>
Filling == Sending /\ Len(slab) < SlabLen

\* Mutant: a file is sent from its start though the receiver has some of it.
ReadOpenNoSeek ==
  /\ Filling /\ rCur = NoFile
  /\ \E i \in From(rIdx) :
       IsNext(i, rIdx) /\ rCur' = i /\ rIdx' = i + 1 /\ rOff' = 0
  /\ rCrc' = << >>
  /\ UNCHANGED <<slab, theirs, pipeVars>> /\ SenderOnly

ReadOpen ==
  /\ Filling /\ rCur = NoFile
  /\ \E i \in From(rIdx) :
       IsNext(i, rIdx) /\ rCur' = i /\ rIdx' = i + 1 /\ rOff' = have[i]
  /\ rCrc' = << >>
  /\ UNCHANGED <<slab, theirs, pipeVars>> /\ SenderOnly

\* read() gives what fits, or what there is.
ReadSome ==
  /\ Filling /\ rCur # NoFile /\ rOff < len[rCur]
  /\ LET n == Shorter(SlabLen - Len(slab), len[rCur] - rOff)
         bytes == [k \in 1..n |-> <<rCur, rOff + k>>]
     IN /\ slab' = slab \o bytes /\ rCrc' = rCrc \o bytes /\ rOff' = rOff + n
  /\ UNCHANGED <<rIdx, rCur, theirs, pipeVars>> /\ SenderOnly

ReadEnd ==
  /\ Filling /\ rCur # NoFile /\ rOff >= len[rCur]
  /\ theirs' = [theirs EXCEPT ![rCur] = rCrc] /\ rCur' = NoFile
  /\ UNCHANGED <<slab, rIdx, rOff, rCrc, pipeVars>> /\ SenderOnly

AllRead == rCur = NoFile /\ From(rIdx) = {}

\* A full slab is sent, as is what is left of the last one.
SendSlab ==
  /\ Sending /\ Len(queue) < QueueCap
  /\ slab # << >> /\ (Len(slab) = SlabLen \/ AllRead)
  /\ queue' = Append(queue, slab) /\ slab' = << >>
  /\ UNCHANGED <<rIdx, rCur, rOff, rCrc, theirs, pumpEnd>> /\ SenderOnly

\* An empty slab is the end of the stream.
SendEof ==
  /\ Sending /\ slab = << >> /\ AllRead
  /\ pumpEnd' = "eof"
  /\ UNCHANGED <<readerVars, queue>> /\ SenderOnly

\* The sender disappears or pump fails otherwise; the chunks already handed to
\* the writer are still in its channel.
PeerLost ==
  /\ Interrupted("peer") /\ Sending
  /\ pumpEnd' = "lost"
  /\ UNCHANGED <<len, fs, sessionVars, readerVars, queue, splitterVars, reportVars>>

\* A dead writer gives no slab back: the pool fills, no more data comes and the
\* idle limit of pump ends the session.
IdleLimit ==
  /\ Sending /\ writer = "err"
  /\ Len(queue) = QueueCap
  /\ pumpEnd' = "lost"
  /\ UNCHANGED <<len, fs, sessionVars, readerVars, queue, splitterVars, reportVars, faultVars>>

-----------------------------------------------------------------------------
(* The writer thread.                                                       *)

Writing == phase = "run" /\ writer = "run"
WriterOnly == UNCHANGED <<len, sessionVars, readerVars, pumpEnd, reportVars>>

TakeChunk ==
  /\ Writing /\ data = << >> /\ queue # << >> /\ (cur = NoFile \/ left > 0)
  /\ data' = Head(queue) /\ queue' = Tail(queue)
  /\ UNCHANGED <<fs, writer, idx, cur, left, curCrc, ours, faultVars>> /\ WriterOnly

\* open_next: the next file that is not complete; a .part that is not resumed is
\* truncated.
Opens(i) == /\ IsNext(i, idx) /\ idx' = i + 1
            /\ cur' = i /\ left' = size[i] - have[i] /\ curCrc' = << >>

\* Mutant: a resumed file is not positioned after the bytes it has.
OpenNextTruncates ==
  /\ Writing /\ data # << >> /\ cur = NoFile
  /\ \E i \in From(idx) : Opens(i) /\ fs' = [fs EXCEPT ![PartPath[i]] = << >>]
  /\ UNCHANGED <<queue, writer, data, ours, faultVars>> /\ WriterOnly

OpenNext ==
  /\ Writing /\ data # << >> /\ cur = NoFile
  /\ \E i \in From(idx) :
       Opens(i) /\ fs' = IF have[i] > 0 THEN fs ELSE [fs EXCEPT ![PartPath[i]] = << >>]
  /\ UNCHANGED <<queue, writer, data, ours, faultVars>> /\ WriterOnly

\* Bytes after the last file are dropped.
DropSurplus ==
  /\ Writing /\ data # << >> /\ cur = NoFile /\ From(idx) = {}
  /\ data' = << >>
  /\ UNCHANGED <<fs, queue, writer, idx, cur, left, curCrc, ours, faultVars>> /\ WriterOnly

\* One turn of the loop of Splitter::write.
WriteTake ==
  /\ Writing /\ data # << >> /\ cur # NoFile /\ left > 0
  /\ LET n == Shorter(left, Len(data)) IN
       /\ fs' = [fs EXCEPT ![PartPath[cur]] = @ \o Prefix(data, n)]
       /\ curCrc' = curCrc \o Prefix(data, n)
       /\ left' = left - n /\ data' = Rest(data, n)
  /\ UNCHANGED <<queue, writer, idx, cur, ours, faultVars>> /\ WriterOnly

\* Splitter::finish: the .part takes the final name.
Renamed == [fs EXCEPT ![FinPath[cur]] = fs[PartPath[cur]],
                      ![PartPath[cur]] = Absent]

\* Mutant: the thread finishes the open file in spite of the error.
DiskErrorFinishes ==
  /\ Interrupted("disk") /\ Writing /\ data # << >> /\ cur # NoFile /\ left > 0
  /\ fs' = Renamed /\ writer' = "err"
  /\ UNCHANGED <<queue, data, idx, cur, left, curCrc, ours>> /\ WriterOnly

\* A file cannot be opened, or be renamed, or write_all fails after part of the
\* bytes; the thread returns the error without reaching finish().
DiskError ==
  /\ Interrupted("disk") /\ Writing
  /\ \/ data # << >> /\ cur = NoFile /\ From(idx) # {} /\ fs' = fs
     \/ cur # NoFile /\ left = 0 /\ fs' = fs
     \/ /\ data # << >> /\ cur # NoFile /\ left > 0
        /\ \E n \in 0..(Shorter(left, Len(data)) - 1) :
             fs' = [fs EXCEPT ![PartPath[cur]] = @ \o Prefix(data, n)]
  /\ writer' = "err"
  /\ UNCHANGED <<queue, data, idx, cur, left, curCrc, ours>> /\ WriterOnly

FinishFile ==
  /\ Writing /\ cur # NoFile /\ left = 0
  /\ fs' = Renamed
  /\ ours' = [ours EXCEPT ![cur] = curCrc] /\ cur' = NoFile
  /\ UNCHANGED <<queue, writer, data, idx, left, curCrc, faultVars>> /\ WriterOnly

\* The channel is closed and empty: the closure calls finish() on whatever file
\* is open, complete or not.
WriterEnd ==
  /\ Writing /\ pumpEnd # "none" /\ queue = << >> /\ data = << >>
  /\ \/ cur = NoFile /\ UNCHANGED <<fs, ours, cur>>
     \/ /\ cur # NoFile /\ left > 0
        /\ fs' = Renamed
        /\ ours' = [ours EXCEPT ![cur] = curCrc] /\ cur' = NoFile
  /\ writer' = "ok"
  /\ UNCHANGED <<queue, data, idx, left, curCrc, faultVars>> /\ WriterOnly

-----------------------------------------------------------------------------
\* The session ends: with success only if pump saw the end of the stream and
\* the writer had no error; the CRCs of what was transferred are compared.
End ==
  /\ phase = "run" /\ pumpEnd # "none" /\ writer # "run"
  /\ phase' = "idle"
  /\ IF pumpEnd = "eof" /\ writer = "ok"
       THEN /\ verified' = {i \in From(1) : ours[i] = theirs[i]}
            /\ bad' = {i \in From(1) : ours[i] # theirs[i]}
       ELSE UNCHANGED reportVars
  /\ UNCHANGED <<len, fs, size, have, sessions, readerVars, pipeVars, splitterVars, faultVars>>

\* The receiving process is killed.
Crash ==
  /\ Interrupted("crash") /\ phase = "run"
  /\ phase' = "idle"
  /\ UNCHANGED <<len, fs, size, have, sessions, readerVars, pipeVars, splitterVars, reportVars>>

\* The bound on the sessions is reached.
Exhausted == phase = "idle" /\ sessions = MaxSessions /\ UNCHANGED vars

Sender == ReadOpen \/ ReadSome \/ ReadEnd \/ SendSlab \/ SendEof
WriterThread ==
  \/ TakeChunk \/ OpenNext \/ DropSurplus \/ WriteTake
  \/ FinishFile \/ WriterEnd

Next == \/ Start \/ Sender \/ WriterThread \/ End
        \/ IdleLimit \/ PeerLost \/ DiskError \/ SourceChanges \/ Crash \/ Exhausted

Spec == Init /\ [][Next]_vars
FairSpec == Spec /\ WF_vars(Start) /\ WF_vars(Sender) /\ WF_vars(WriterThread)
                 /\ WF_vars(IdleLimit) /\ WF_vars(End)

-----------------------------------------------------------------------------
(* Properties.                                                              *)

Content == Seq((Files \cup {NoFile}) \X (Nat \ {0}))
Foreign(c) == \A k \in 1..Len(c) : c[k][1] = NoFile

\* The types and ranges of the state.
TypeOK ==
  /\ len \in [Files -> Nat] /\ size \in [Files -> Nat]
  /\ fs \in [Paths -> {Absent} \cup Content]
  /\ phase \in {"idle", "run"} /\ sessions \in 0..MaxSessions
  /\ have \in [Files -> Nat] /\ \A i \in Files : have[i] <= size[i]
  /\ slab \in Content /\ Len(slab) <= SlabLen
  /\ queue \in Seq(Content) /\ Len(queue) <= QueueCap
  /\ rIdx \in 1..(NFiles + 1) /\ rCur \in Files \cup {NoFile} /\ rOff \in Nat
  /\ rCrc \in Content /\ theirs \in [Files -> Content]
  /\ pumpEnd \in {"none", "eof", "lost"} /\ writer \in {"run", "ok", "err"}
  /\ data \in Content /\ curCrc \in Content
  /\ idx \in 1..(NFiles + 1) /\ cur \in Files \cup {NoFile} /\ left \in Nat
  /\ ours \in [Files -> Content]
  /\ verified \subseteq Files /\ bad \subseteq Files
  /\ happened \subseteq Kinds /\ interrupts \in 0..MaxInterrupts

Unchanged == "source" \notin happened
NothingLost == Unchanged /\ "peer" \notin happened

\* A final name holds a complete file or what was there before the first
\* session: "only what is written completely gets the final name, the .part an
\* interruption leaves is the next resume point" (recv.rs:468).
FinalIsComplete ==
  \A i \in Files : LET c == fs[FinPath[i]] IN
    c = Absent \/ c = Source(i) \/ Foreign(c)

\* So it is when the receiver is killed or its disk fails between any two writes,
\* as long as the sources stay as they are and no sender disappears.
FinalIsCompleteUnlessLost == NothingLost => FinalIsComplete

\* A file whose CRCs agreed over at least one byte has on disk, from the offset at
\* which this session resumed it, the bytes of the source from that offset on,
\* whatever was written to the sources meanwhile and however earlier sessions ended;
\* and if nobody wrote to them it is the source, byte for byte.
VerifiedIsRight ==
  phase = "idle" =>
    \A i \in verified : ours[i] # << >> =>
      /\ Rest(fs[FinPath[i]], have[i]) = [k \in 1..Len(ours[i]) |-> <<i, have[i] + k>>]
      /\ Unchanged => fs[FinPath[i]] = Source(i)

FullPart(i) == fs[PartPath[i]] # Absent /\ Len(fs[PartPath[i]]) >= len[i]

\* What the next session may skip of a file never shrinks: no step of a session,
\* no crash between two steps and no new session throws away bytes that a scan
\* would have counted.  The one exception is the moment between the last write
\* to a .part and its renaming.  (A sender that disappears, or sources that shrank,
\* leave an open file that is renamed too early: see FinalIsComplete.)
ResumePointNeverShrinks ==
  [][NothingLost' =>
       \A i \in Files : ResumePoint(i)' >= ResumePoint(i) \/ FullPart(i)']_vars

\* Sessions repeated after interruptions give every file that has any bytes its
\* present size, also when its source was written to in the middle of a session,
\* and its contents if none was.  (A file of size 0 counts as complete before it is
\* there, recv.rs:434, and is never made.)
EventuallyComplete ==
  <>[](\A i \in Files : len[i] > 0 =>
         LET c == fs[FinPath[i]] IN
           /\ c # Absent /\ Len(c) = len[i]
           /\ Unchanged => c = Source(i))

=============================================================================
