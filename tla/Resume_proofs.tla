--------------------------- MODULE Resume_proofs ----------------------------
(* Proofs about Resume for every number and size of files, slab, queue and   *)
(* set of interruptions: what lands under the final names, what a checksum   *)
(* that agrees is worth, and that no progress is thrown away.                *)
EXTENDS Resume, TLAPS

\* No two files share a path, and what stands for no file is no content.
Separate ==
  /\ \A i, j \in Files : FinPath[i] # PartPath[j]
  /\ \A i, j \in Files : i # j => FinPath[i] # FinPath[j] /\ PartPath[i] # PartPath[j]
  /\ Absent \notin Content

-----------------------------------------------------------------------------
(* Sequences of bytes.                                                      *)

Byte == (Files \cup {NoFile}) \X (Nat \ {0})

LEMMA PrefixFacts ==
  ASSUME NEW s \in Content, NEW n \in 0..Len(s)
  PROVE  /\ Prefix(s, n) \in Content /\ Len(Prefix(s, n)) = n
         /\ \A k \in 1..n : Prefix(s, n)[k] = s[k]
BY DEF Prefix, Content

LEMMA RestFacts ==
  ASSUME NEW s \in Content, NEW n \in 0..Len(s)
  PROVE  /\ Rest(s, n) \in Content /\ Len(Rest(s, n)) = Len(s) - n
         /\ \A k \in 1..Len(s) - n : Rest(s, n)[k] = s[n + k]
BY DEF Rest, Content

LEMMA ConcatFacts ==
  ASSUME NEW s \in Content, NEW t \in Content
  PROVE  /\ s \o t \in Content /\ Len(s \o t) = Len(s) + Len(t)
         /\ \A k \in 1..Len(s) : (s \o t)[k] = s[k]
         /\ \A k \in 1..Len(t) : (s \o t)[Len(s) + k] = t[k]
BY DEF Content

\* Sequences of the same bytes are the same.
LEMMA SameBytes ==
  ASSUME NEW s \in Content, NEW t \in Content, Len(s) = Len(t),
         \A k \in 1..Len(s) : s[k] = t[k]
  PROVE  s = t
BY DEF Content

\* The bytes of file i from an offset on.
Bytes(i, from, n) == [k \in 1..n |-> <<i, from + k>>]
IsRun(s, i, from) == \A k \in 1..Len(s) : s[k] = <<i, from + k>>

LEMMA BytesFacts ==
  ASSUME NEW i \in Files \cup {NoFile}, NEW from \in Nat, NEW n \in Nat
  PROVE  /\ Bytes(i, from, n) \in Content /\ Len(Bytes(i, from, n)) = n
         /\ IsRun(Bytes(i, from, n), i, from)
BY DEF Bytes, Content, IsRun

\* Writing after a resumed prefix adds to what comes after the prefix.
LEMMA RestOfConcat ==
  ASSUME NEW s \in Content, NEW t \in Content, NEW n \in 0..Len(s)
  PROVE  Rest(s \o t, n) = Rest(s, n) \o t
<1> DEFINE c == s \o t
           r == Rest(s, n)
<1>1. /\ c \in Content /\ Len(c) = Len(s) + Len(t) /\ Len(s) \in Nat /\ Len(t) \in Nat
      /\ \A k \in 1..Len(s) : c[k] = s[k]
      /\ \A k \in 1..Len(t) : c[Len(s) + k] = t[k]
  BY ConcatFacts DEF Content
<1>2. /\ r \in Content /\ Len(r) = Len(s) - n
      /\ \A k \in 1..Len(s) - n : r[k] = s[n + k]
  BY RestFacts
<1> HIDE DEF c, r
<1>3. n \in 0..Len(c)
  BY <1>1
<1>4. /\ Rest(c, n) \in Content /\ Len(Rest(c, n)) = Len(c) - n
      /\ \A k \in 1..Len(c) - n : Rest(c, n)[k] = c[n + k]
  BY <1>1, <1>3, RestFacts
<1>5. /\ r \o t \in Content /\ Len(r \o t) = Len(r) + Len(t)
      /\ \A k \in 1..Len(r) : (r \o t)[k] = r[k]
      /\ \A k \in 1..Len(t) : (r \o t)[Len(r) + k] = t[k]
  BY <1>2, ConcatFacts
<1>6. ASSUME NEW k \in 1..Len(c) - n
      PROVE  Rest(c, n)[k] = (r \o t)[k]
  <2>1. CASE k <= Len(s) - n
    <3>1. k \in 1..Len(r) /\ k \in 1..Len(s) - n /\ n + k \in 1..Len(s)
      BY <1>1, <1>2, <2>1
    <3> QED
      BY <1>1, <1>2, <1>4, <1>5, <3>1
  <2>2. CASE k > Len(s) - n
    <3>1. k - Len(r) \in 1..Len(t) /\ Len(r) + (k - Len(r)) = k /\ Len(s) + (k - Len(r)) = n + k
      BY <1>1, <1>2, <2>2
    <3>2. c[n + k] = t[k - Len(r)] /\ (r \o t)[k] = t[k - Len(r)]
      BY <1>1, <1>5, <3>1
    <3> QED
      BY <1>4, <3>2
  <2>3. k <= Len(s) - n \/ k > Len(s) - n
    BY <1>1
  <2> QED
    BY <2>1, <2>2, <2>3
<1>7. Len(Rest(c, n)) = Len(c) - n /\ Len(r \o t) = Len(c) - n
  BY <1>1, <1>2, <1>4, <1>5
<1>8. Rest(c, n) = r \o t
  BY <1>4, <1>5, <1>6, <1>7, SameBytes
<1> QED
  BY <1>8 DEF c, r

-----------------------------------------------------------------------------
(* Types, and what is on the disk while a file is written.                  *)

\* Every file still to be opened has the bytes it is resumed from in its .part; the
\* file that is open has what the session needs of it but for left bytes, of which
\* its CRC covers the part after the resume offset; a CRC that is settled covers
\* what is under the final name.
Unopened(i) ==
  have[i] > 0 => fs[PartPath[i]] # Absent /\ Len(fs[PartPath[i]]) = have[i]
Opened ==
  /\ idx = cur + 1 /\ left <= size[cur] - have[cur]
  /\ fs[PartPath[cur]] # Absent /\ Len(fs[PartPath[cur]]) = size[cur] - left
  /\ Rest(fs[PartPath[cur]], have[cur]) = curCrc
Settled(i) ==
  ours[i] # << >> =>
    /\ fs[FinPath[i]] # Absent /\ have[i] <= Len(fs[FinPath[i]])
    /\ Rest(fs[FinPath[i]], have[i]) = ours[i]
Lands ==
  /\ Writing => /\ \A i \in From(idx) : Unopened(i)
                /\ cur # NoFile => Opened
  /\ \A i \in Files : Settled(i)

\* Writing to a .part file touches no other path.
LEMMA PartWritten ==
  ASSUME Separate, fs \in [Paths -> {Absent} \cup Content], NEW i \in Files,
         NEW c \in {Absent} \cup Content, fs' = [fs EXCEPT ![PartPath[i]] = c]
  PROVE  /\ fs' \in [Paths -> {Absent} \cup Content] /\ fs'[PartPath[i]] = c
         /\ \A j \in Files : j # i => fs'[PartPath[j]] = fs[PartPath[j]]
         /\ \A j \in Files : fs'[FinPath[j]] = fs[FinPath[j]]
<1>1. /\ PartPath \in [Files -> Paths] /\ FinPath \in [Files -> Paths]
  BY ResumeAssumption
<1>2. PartPath[i] \in Paths /\ \A j \in Files : PartPath[j] \in Paths /\ FinPath[j] \in Paths
  BY <1>1
<1>3. /\ \A j \in Files : FinPath[j] # PartPath[i]
      /\ \A j \in Files : j # i => PartPath[j] # PartPath[i]
  BY DEF Separate
<1> QED
  BY <1>2, <1>3

\* So does the renaming of the open file, but for its two paths.
LEMMA PartRenamed ==
  ASSUME Separate, fs \in [Paths -> {Absent} \cup Content], cur \in Files, fs' = Renamed
  PROVE  /\ fs' \in [Paths -> {Absent} \cup Content]
         /\ fs'[PartPath[cur]] = Absent /\ fs'[FinPath[cur]] = fs[PartPath[cur]]
         /\ \A j \in Files : j # cur => /\ fs'[PartPath[j]] = fs[PartPath[j]]
                                       /\ fs'[FinPath[j]] = fs[FinPath[j]]
<1>1. /\ PartPath \in [Files -> Paths] /\ FinPath \in [Files -> Paths]
  BY ResumeAssumption
<1>2. /\ PartPath[cur] \in Paths /\ FinPath[cur] \in Paths
      /\ \A j \in Files : PartPath[j] \in Paths /\ FinPath[j] \in Paths
  BY <1>1
<1>3. /\ FinPath[cur] # PartPath[cur]
      /\ \A j \in Files : FinPath[j] # PartPath[cur] /\ PartPath[j] # FinPath[cur]
      /\ \A j \in Files : j # cur => PartPath[j] # PartPath[cur] /\ FinPath[j] # FinPath[cur]
  BY DEF Separate
<1>4. fs[PartPath[cur]] \in {Absent} \cup Content
  BY <1>2
<1> QED
  BY <1>2, <1>3, <1>4 DEF Renamed

Landing == TypeOK /\ Lands

LEMMA SourceIsContent ==
  ASSUME NEW i \in Files, len[i] \in Nat
  PROVE  /\ Source(i) \in Content /\ Len(Source(i)) = len[i]
         /\ \A k \in 1..len[i] : Source(i)[k] = <<i, k>>
BY DEF Source, Content

LEMMA LeftoverIsContent ==
  ASSUME NEW i \in Files, len = Size, NEW c \in Leftover(i), c # Absent
  PROVE  /\ c \in Content
         /\ \/ Len(c) <= Size[i] /\ IsRun(c, i, 0)
            \/ Len(c) = Size[i] + 1 /\ Foreign(c)
<1>1. Size[i] \in Nat
  BY ResumeAssumption
<1> DEFINE n == Shorter(1, Size[i])
<1>2. n \in 0..Size[i]
  BY <1>1 DEF Shorter
<1> HIDE DEF n
<1>3. CASE c = Prefix(Source(i), n)
  <2>1. /\ Source(i) \in Content /\ Len(Source(i)) = Size[i]
        /\ \A k \in 1..Size[i] : Source(i)[k] = <<i, k>>
    BY <1>1, SourceIsContent
  <2>2. /\ c \in Content /\ Len(c) = n /\ \A k \in 1..n : c[k] = Source(i)[k]
    BY <1>2, <1>3, <2>1, PrefixFacts
  <2>3. \A k \in 1..n : c[k] = <<i, 0 + k>>
    BY <1>1, <1>2, <2>1, <2>2
  <2> QED
    BY <1>1, <1>2, <2>2, <2>3 DEF IsRun
<1>4. CASE c = [k \in 1..(Size[i] + 1) |-> <<NoFile, k>>]
  BY <1>1, <1>4 DEF Content, Foreign
<1> QED
  BY <1>3, <1>4 DEF Leftover, n

LEMMA InitLanding == Separate /\ Init => Landing
<1> SUFFICES ASSUME Separate, Init PROVE Landing
  OBVIOUS
<1>1. fs \in [Paths -> {Absent} \cup Content]
  <2>1. PICK f \in [Paths -> {Absent} \cup UNION {Leftover(i) : i \in Files}] : fs = f
    BY DEF Init
  <2>2. ASSUME NEW p \in Paths PROVE f[p] \in {Absent} \cup Content
    <3>1. f[p] = Absent \/ \E i \in Files : f[p] \in Leftover(i)
      BY <2>1
    <3> QED
      BY <3>1, LeftoverIsContent DEF Init
  <2> QED
    BY <2>1, <2>2
<1>2. Size \in [Files -> Nat] /\ SlabLen \in Nat /\ QueueCap \in Nat /\ NFiles \in Nat
      /\ MaxSessions \in Nat /\ MaxInterrupts \in Nat
  BY ResumeAssumption
<1>3. << >> \in Content /\ << >> \in Seq(Content) /\ Len(<< >>) = 0
  BY DEF Content
<1>4. [i \in Files |-> << >>] \in [Files -> Content]
  BY <1>3
<1>5. TypeOK
  BY <1>1, <1>2, <1>3, <1>4 DEF Init, TypeOK, Files, NoFile
<1>6. Lands
  BY DEF Init, Lands, Writing, Settled
<1> QED
  BY <1>5, <1>6 DEF Landing

\* Steps that leave the disk and the Splitter alone.
LEMMA LandsStays ==
  ASSUME Lands, UNCHANGED <<fs, size, have, splitterVars>>, Writing' => Writing
  PROVE  Lands'
BY DEF Lands, Unopened, Opened, Settled, From, splitterVars

LEMMA NextFile ==
  ASSUME NEW n, NEW i, IsNext(i, n)
  PROVE  i \in Files /\ i >= n /\ have[i] < size[i] /\ i \in From(n) /\ i + 1 \in 1..(NFiles + 1)
BY ResumeAssumption DEF IsNext, From, Files

LEMMA StartLanding == Separate /\ Landing /\ Start => Landing'
<1> SUFFICES ASSUME Separate, Landing, Start PROVE Landing'
  OBVIOUS
<1>1. TypeOK
  BY DEF Landing
<1>2. << >> \in Content /\ << >> \in Seq(Content) /\ Len(<< >>) = 0
  BY DEF Content
<1>3. ASSUME NEW i \in Files
      PROVE  /\ ResumePoint(i) \in 0..len[i]
             /\ 0 < ResumePoint(i) /\ ResumePoint(i) < len[i] =>
                  fs[PartPath[i]] # Absent /\ Len(fs[PartPath[i]]) = ResumePoint(i)
  <2>1. FinPath[i] \in Paths /\ PartPath[i] \in Paths
    BY ResumeAssumption
  <2>2. \A q \in Paths : fs[q] # Absent => Len(fs[q]) \in Nat
    BY <1>1 DEF TypeOK, Content
  <2>3. len[i] \in Nat
    BY <1>1 DEF TypeOK
  <2> QED
    BY <2>1, <2>2, <2>3 DEF ResumePoint
<1>4. have' = [i \in Files |-> ResumePoint(i)] /\ size' = len /\ fs' = fs
  BY DEF Start, scan_existing
<1>5. have' \in [Files -> Nat] /\ \A i \in Files : have'[i] <= size'[i]
  BY <1>1, <1>3, <1>4 DEF TypeOK
<1>6. TypeOK'
  <2>1. [i \in Files |-> << >>] \in [Files -> Content]
    BY <1>2
  <2>2. sessions' \in 0..MaxSessions
    BY <1>1, ResumeAssumption DEF TypeOK, Start
  <2>3. SlabLen \in Nat /\ QueueCap \in Nat /\ NFiles \in Nat
    BY ResumeAssumption
  <2>4. size' \in [Files -> Nat]
    BY <1>1, <1>4 DEF TypeOK
  <2>5. /\ len' \in [Files -> Nat] /\ fs' \in [Paths -> {Absent} \cup Content]
        /\ phase' = "run" /\ happened' \subseteq Kinds /\ interrupts' \in 0..MaxInterrupts
    BY <1>1 DEF TypeOK, Start, faultVars
  <2>6. /\ slab' = << >> /\ rIdx' = 1 /\ rCur' = NoFile /\ rOff' = 0 /\ rCrc' = << >>
        /\ queue' = << >> /\ pumpEnd' = "none" /\ writer' = "run" /\ data' = << >>
        /\ idx' = 1 /\ cur' = NoFile /\ left' = 0 /\ curCrc' = << >>
        /\ verified' = {} /\ bad' = {}
        /\ theirs' \in [Files -> Content] /\ ours' \in [Files -> Content]
    BY <2>1 DEF Start
  <2>7. 1 \in 1..(NFiles + 1)
    BY <2>3
  <2> QED
    BY <1>2, <1>5, <2>2, <2>3, <2>4, <2>5, <2>6, <2>7 DEF TypeOK
<1>7. Lands'
  <2>1. ASSUME NEW i \in From(idx)' PROVE Unopened(i)'
    <3>1. i \in Files /\ have'[i] = ResumePoint(i) /\ have'[i] < len[i]
      BY <1>4 DEF From
    <3> QED
      BY <1>1, <1>3, <1>4, <3>1 DEF Unopened
  <2>2. cur' = NoFile /\ \A i \in Files : ours'[i] = << >>
    BY DEF Start
  <2> QED
    BY <2>1, <2>2 DEF Lands, Settled
<1> QED
  BY <1>6, <1>7 DEF Landing

LEMMA SenderLanding == Landing /\ Sender => Landing'
<1> SUFFICES ASSUME Landing, Sender PROVE Landing'
  OBVIOUS
<1>1. TypeOK /\ Lands
  BY DEF Landing
<1>2. UNCHANGED <<len, fs, sessionVars, splitterVars, reportVars, faultVars>> /\ Sending
  BY DEF Sender, SenderOnly, ReadOpen, ReadSome, ReadEnd, SendSlab, SendEof, Filling
<1>3. Lands'
  BY <1>1, <1>2, LandsStays DEF Writing, sessionVars, splitterVars
<1>4. << >> \in Content /\ Len(<< >>) = 0 /\ SlabLen \in Nat \ {0} /\ QueueCap \in Nat
  BY ResumeAssumption DEF Content
<1>5. /\ slab' \in Content /\ Len(slab') <= SlabLen
      /\ queue' \in Seq(Content) /\ Len(queue') <= QueueCap
      /\ rIdx' \in 1..(NFiles + 1) /\ rCur' \in Files \cup {NoFile} /\ rOff' \in Nat
      /\ rCrc' \in Content /\ theirs' \in [Files -> Content]
      /\ pumpEnd' \in {"none", "eof", "lost"}
  <2>1. CASE ReadOpen
    <3>1. PICK i \in From(rIdx) :
            IsNext(i, rIdx) /\ rCur' = i /\ rIdx' = i + 1 /\ rOff' = have[i]
      BY <2>1 DEF ReadOpen
    <3>2. rCur' \in Files /\ rIdx' \in 1..(NFiles + 1) /\ rOff' \in Nat
      BY <1>1, <3>1, NextFile DEF TypeOK
    <3> QED
      BY <1>1, <1>4, <2>1, <3>2 DEF ReadOpen, TypeOK, pipeVars
  <2>2. CASE ReadSome
    <3> DEFINE n == Shorter(SlabLen - Len(slab), len[rCur] - rOff)
               bytes == Bytes(rCur, rOff, n)
    <3>1. /\ slab' = slab \o bytes /\ rCrc' = rCrc \o bytes /\ rOff' = rOff + n
          /\ UNCHANGED <<rIdx, rCur, theirs, pipeVars>>
      BY <2>2 DEF ReadSome, Bytes
    <3>2. /\ slab \in Content /\ Len(slab) \in Nat /\ Len(slab) < SlabLen /\ rCur \in Files
          /\ rOff \in Nat /\ rOff < len[rCur] /\ len[rCur] \in Nat /\ rCrc \in Content
      BY <1>1, <2>2 DEF ReadSome, Filling, TypeOK, Content
    <3>3. n \in Nat /\ n <= SlabLen - Len(slab)
      BY <1>4, <3>2 DEF Shorter
    <3>4. bytes \in Content /\ Len(bytes) = n
      BY <3>2, <3>3, BytesFacts
    <3> HIDE DEF n, bytes
    <3>5. slab' \in Content /\ Len(slab') = Len(slab) + n /\ rCrc' \in Content
      BY <3>1, <3>2, <3>4, ConcatFacts
    <3> QED
      BY <1>1, <1>4, <3>1, <3>2, <3>3, <3>5 DEF TypeOK, pipeVars
  <2>3. CASE ReadEnd
    <3>1. theirs' \in [Files -> Content]
      BY <1>1, <2>3 DEF ReadEnd, TypeOK
    <3> QED
      BY <1>1, <2>3, <3>1 DEF ReadEnd, TypeOK, pipeVars
  <2>4. CASE SendSlab
    <3>1. queue' \in Seq(Content) /\ Len(queue') = Len(queue) + 1 /\ Len(queue) \in Nat
      BY <1>1, <2>4 DEF SendSlab, TypeOK
    <3> QED
      BY <1>1, <1>4, <2>4, <3>1 DEF SendSlab, TypeOK
  <2>5. CASE SendEof
    BY <1>1, <2>5 DEF SendEof, TypeOK, readerVars
  <2> QED
    BY <2>1, <2>2, <2>3, <2>4, <2>5 DEF Sender
<1>6. TypeOK'
  BY <1>1, <1>2, <1>5 DEF TypeOK, sessionVars, splitterVars, reportVars, faultVars
<1> QED
  BY <1>3, <1>6 DEF Landing

LEMMA InterruptedTypes ==
  ASSUME TypeOK, NEW kind, Interrupted(kind)
  PROVE  happened' \subseteq Kinds /\ interrupts' \in 0..MaxInterrupts
BY ResumeAssumption DEF TypeOK, Interrupted

\* Ends of the pump and of the session, and what happens elsewhere.
LEMMA OtherLanding ==
  Landing /\ (IdleLimit \/ PeerLost \/ SourceChanges \/ Crash \/ End \/ UNCHANGED vars) => Landing'
<1> SUFFICES ASSUME Landing, IdleLimit \/ PeerLost \/ SourceChanges \/ Crash \/ End \/ UNCHANGED vars
             PROVE  Landing'
  OBVIOUS
<1>1. TypeOK /\ Lands
  BY DEF Landing
<1>2. UNCHANGED <<fs, size, have, splitterVars>> /\ (phase' = phase \/ phase' = "idle")
  BY DEF IdleLimit, PeerLost, SourceChanges, Crash, End, vars, sessionVars
<1>3. Lands'
  BY <1>1, <1>2, LandsStays DEF Writing, splitterVars
<1>4. happened' \subseteq Kinds /\ interrupts' \in 0..MaxInterrupts
  BY <1>1, InterruptedTypes
  DEF IdleLimit, PeerLost, SourceChanges, Crash, End, vars, faultVars, TypeOK
<1>5. len' \in [Files -> Nat]
  <2>1. CASE SourceChanges
    <3>1. PICK i \in Files : \E n \in Lengths[i] : len' = [len EXCEPT ![i] = n]
      BY <2>1 DEF SourceChanges
    <3>2. PICK n \in Lengths[i] : len' = [len EXCEPT ![i] = n]
      BY <3>1
    <3>3. n \in Nat
      BY ResumeAssumption
    <3> QED
      BY <1>1, <3>2, <3>3 DEF TypeOK
  <2>2. CASE ~SourceChanges
    BY <1>1, <2>2 DEF IdleLimit, PeerLost, Crash, End, vars, TypeOK
  <2> QED
    BY <2>1, <2>2
<1>6. /\ phase' \in {"idle", "run"} /\ pumpEnd' \in {"none", "eof", "lost"}
      /\ verified' \subseteq Files /\ bad' \subseteq Files
      /\ UNCHANGED <<fs, size, have, sessions, readerVars, queue, splitterVars>>
  BY <1>1 DEF TypeOK, IdleLimit, PeerLost, SourceChanges, Crash, End, vars,
              sessionVars, pipeVars, reportVars, From
<1>7. TypeOK'
  BY <1>1, <1>4, <1>5, <1>6 DEF TypeOK, readerVars, splitterVars
<1> QED
  BY <1>3, <1>7 DEF Landing

\* The types after a step of the writer thread.
LEMMA WriterTypes ==
  ASSUME TypeOK, WriterOnly, (UNCHANGED faultVars \/ \E kind : Interrupted(kind)),
         fs' \in [Paths -> {Absent} \cup Content],
         queue' \in Seq(Content), Len(queue') <= QueueCap,
         writer' \in {"run", "ok", "err"}, data' \in Content, curCrc' \in Content,
         idx' \in 1..(NFiles + 1), cur' \in Files \cup {NoFile}, left' \in Nat,
         ours' \in [Files -> Content]
  PROVE  TypeOK'
<1>1. happened' \subseteq Kinds /\ interrupts' \in 0..MaxInterrupts
  BY InterruptedTypes DEF faultVars, TypeOK
<1> QED
  BY <1>1 DEF TypeOK, WriterOnly, sessionVars, readerVars, reportVars

LEMMA TakeChunkLanding == Landing /\ TakeChunk => Landing'
<1> SUFFICES ASSUME Landing, TakeChunk PROVE Landing'
  OBVIOUS
<1>1. TypeOK /\ Lands
  BY DEF Landing
<1>2. Lands'
  BY <1>1 DEF TakeChunk, WriterOnly, Lands, Writing, Unopened, Opened, Settled, From, sessionVars
<1>3. data' \in Content /\ queue' \in Seq(Content) /\ Len(queue') <= QueueCap
  <2>1. queue \in Seq(Content) /\ queue # << >> /\ Len(queue) <= QueueCap
    BY <1>1 DEF TypeOK, TakeChunk
  <2>2. Head(queue) \in Content /\ Tail(queue) \in Seq(Content) /\ Len(Tail(queue)) <= Len(queue)
    BY <2>1
  <2>3. Len(queue) \in Nat /\ Len(Tail(queue)) \in Nat /\ QueueCap \in Nat
    BY <2>1, <2>2, ResumeAssumption
  <2> QED
    BY <2>1, <2>2, <2>3 DEF TakeChunk
<1>4. TypeOK'
  BY <1>1, <1>3, WriterTypes DEF TypeOK, TakeChunk
<1> QED
  BY <1>2, <1>4 DEF Landing

LEMMA DropSurplusLanding == Landing /\ DropSurplus => Landing'
<1> SUFFICES ASSUME Landing, DropSurplus PROVE Landing'
  OBVIOUS
<1>1. TypeOK /\ Lands
  BY DEF Landing
<1>2. Lands'
  BY <1>1 DEF DropSurplus, WriterOnly, Lands, Writing, Unopened, Opened, Settled, From, sessionVars
<1>3. << >> \in Content
  BY DEF Content
<1>4. TypeOK'
  BY <1>1, <1>3, WriterTypes DEF TypeOK, DropSurplus
<1> QED
  BY <1>2, <1>4 DEF Landing

LEMMA OpenNextLanding == Separate /\ Landing /\ OpenNext => Landing'
<1> SUFFICES ASSUME Separate, Landing, OpenNext PROVE Landing'
  OBVIOUS
<1>1. TypeOK /\ Lands
  BY DEF Landing
<1>2. PICK i \in From(idx) :
        /\ Opens(i)
        /\ fs' = IF have[i] > 0 THEN fs ELSE [fs EXCEPT ![PartPath[i]] = << >>]
  BY DEF OpenNext
<1>3. /\ i \in Files /\ i >= idx /\ have[i] < size[i] /\ have[i] \in Nat /\ size[i] \in Nat
      /\ idx' = i + 1 /\ idx' \in 1..(NFiles + 1)
      /\ cur' = i /\ left' = size[i] - have[i] /\ left' \in Nat /\ curCrc' = << >>
  <2>1. /\ IsNext(i, idx) /\ idx' = i + 1 /\ cur' = i /\ left' = size[i] - have[i]
        /\ curCrc' = << >>
    BY <1>2 DEF Opens
  <2>2. i \in Files /\ i >= idx /\ have[i] < size[i] /\ i + 1 \in 1..(NFiles + 1)
    BY <2>1, NextFile
  <2>3. have[i] \in Nat /\ size[i] \in Nat
    BY <1>1, <2>2 DEF TypeOK
  <2> QED
    BY <2>1, <2>2, <2>3
<1>4. << >> \in Content /\ Len(<< >>) = 0 /\ fs \in [Paths -> {Absent} \cup Content]
  BY <1>1 DEF Content, TypeOK
<1>5. /\ fs' \in [Paths -> {Absent} \cup Content]
      /\ \A j \in Files : j # i => fs'[PartPath[j]] = fs[PartPath[j]]
      /\ \A j \in Files : fs'[FinPath[j]] = fs[FinPath[j]]
      /\ fs'[PartPath[i]] = IF have[i] > 0 THEN fs[PartPath[i]] ELSE << >>
  <2>1. CASE have[i] > 0
    BY <1>2, <1>4, <2>1
  <2>2. CASE ~(have[i] > 0)
    <3>1. fs' = [fs EXCEPT ![PartPath[i]] = << >>] /\ << >> \in {Absent} \cup Content
      BY <1>2, <1>4, <2>2
    <3>2. /\ fs' \in [Paths -> {Absent} \cup Content] /\ fs'[PartPath[i]] = << >>
          /\ \A j \in Files : j # i => fs'[PartPath[j]] = fs[PartPath[j]]
          /\ \A j \in Files : fs'[FinPath[j]] = fs[FinPath[j]]
      BY <1>3, <1>4, <3>1, PartWritten
    <3> QED
      BY <2>2, <3>2
  <2> QED
    BY <2>1, <2>2
<1>6. fs'[PartPath[i]] \in Content /\ Len(fs'[PartPath[i]]) = have[i]
  <2>1. CASE have[i] > 0
    <3>1. Unopened(i) /\ PartPath[i] \in Paths
      BY <1>1, <1>2, <1>3, ResumeAssumption DEF Lands, OpenNext
    <3> QED
      BY <1>4, <1>5, <2>1, <3>1 DEF Unopened
  <2>2. CASE ~(have[i] > 0)
    BY <1>3, <1>4, <1>5, <2>2
  <2> QED
    BY <2>1, <2>2
<1>7. UNCHANGED <<queue, writer, data, ours, faultVars, phase, size, have>> /\ WriterOnly
  BY DEF OpenNext, WriterOnly, sessionVars
<1>8. TypeOK'
  BY <1>1, <1>3, <1>4, <1>5, <1>7, WriterTypes DEF TypeOK
<1>9. Lands'
  <2>1. Opened'
    <3>1. Rest(fs'[PartPath[i]], have[i]) = << >>
      <4> DEFINE s == fs'[PartPath[i]]
      <4>1. s \in Content /\ have[i] \in 0..Len(s) /\ Len(s) = have[i]
        BY <1>3, <1>6
      <4> HIDE DEF s
      <4>2. Rest(s, have[i]) \in Content /\ Len(Rest(s, have[i])) = 0
        BY <1>3, <4>1, RestFacts
      <4> QED
        BY <4>2 DEF Content, s
    <3>2. Absent # fs'[PartPath[i]]
      BY <1>6 DEF Separate
    <3> QED
      BY <1>3, <1>6, <1>7, <3>1, <3>2 DEF Opened
  <2>2. ASSUME NEW j \in From(idx)' PROVE Unopened(j)'
    <3>1. j \in Files /\ j >= i + 1 /\ have[j] < size[j] /\ idx \in Nat
      BY <1>1, <1>3, <1>7 DEF From, TypeOK
    <3>2. j # i /\ j >= idx
      BY <1>3, <3>1 DEF Files
    <3>3. Unopened(j)
      BY <1>1, <3>1, <3>2 DEF Lands, From, OpenNext
    <3> QED
      BY <1>5, <1>7, <3>1, <3>2, <3>3 DEF Unopened
  <2>3. ASSUME NEW j \in Files PROVE Settled(j)'
    BY <1>1, <1>5, <1>7 DEF Lands, Settled
  <2> QED
    BY <2>1, <2>2, <2>3 DEF Lands
<1> QED
  BY <1>8, <1>9 DEF Landing

\* The bytes a step of the writer thread adds to the open file.
LEMMA Added ==
  ASSUME Separate, Landing, Writing, cur # NoFile, left > 0, data # << >>,
         NEW n \in Nat, n <= left, n <= Len(data),
         fs' = [fs EXCEPT ![PartPath[cur]] = @ \o Prefix(data, n)]
  PROVE  /\ cur \in Files /\ fs' \in [Paths -> {Absent} \cup Content]
         /\ Prefix(data, n) \in Content /\ Len(Prefix(data, n)) = n
         /\ curCrc \o Prefix(data, n) \in Content
         /\ fs'[PartPath[cur]] = fs[PartPath[cur]] \o Prefix(data, n)
         /\ fs'[PartPath[cur]] \in Content
         /\ Len(fs'[PartPath[cur]]) = size[cur] - (left - n)
         /\ Rest(fs'[PartPath[cur]], have[cur]) = curCrc \o Prefix(data, n)
         /\ \A j \in Files : j # cur => fs'[PartPath[j]] = fs[PartPath[j]]
         /\ \A j \in Files : fs'[FinPath[j]] = fs[FinPath[j]]
<1> DEFINE s == fs[PartPath[cur]]
           t == Prefix(data, n)
<1>1. TypeOK /\ Lands /\ Opened
  BY DEF Landing, Lands
<1>2. /\ cur \in Files /\ data \in Content /\ Len(data) \in Nat /\ n \in 0..Len(data)
      /\ curCrc \in Content /\ left \in Nat
      /\ have[cur] \in Nat /\ size[cur] \in Nat /\ have[cur] <= size[cur]
      /\ fs \in [Paths -> {Absent} \cup Content]
  <2>1. cur \in Files
    BY <1>1 DEF TypeOK
  <2>2. data \in Content /\ Len(data) \in Nat
    BY <1>1 DEF TypeOK, Content
  <2>3. n \in 0..Len(data)
    BY <2>2
  <2> QED
    BY <1>1, <2>1, <2>2, <2>3 DEF TypeOK
<1>3. PartPath[cur] \in Paths
  BY <1>2, ResumeAssumption
<1>4. s \in Content /\ Len(s) = size[cur] - left /\ have[cur] \in 0..Len(s)
      /\ Rest(s, have[cur]) = curCrc
  BY <1>1, <1>2, <1>3 DEF Opened
<1>5. t \in Content /\ Len(t) = n
  BY <1>2, PrefixFacts
<1>6. fs' = [fs EXCEPT ![PartPath[cur]] = s \o t]
  OBVIOUS
<1> HIDE DEF s, t
<1>7. s \o t \in Content /\ Len(s \o t) = Len(s) + n
  BY <1>4, <1>5, ConcatFacts
<1>8. Rest(s \o t, have[cur]) = curCrc \o t
  BY <1>4, <1>5, RestOfConcat
<1>9. curCrc \o t \in Content
  BY <1>2, <1>5, ConcatFacts
<1>10. /\ fs' \in [Paths -> {Absent} \cup Content] /\ fs'[PartPath[cur]] = s \o t
       /\ \A j \in Files : j # cur => fs'[PartPath[j]] = fs[PartPath[j]]
       /\ \A j \in Files : fs'[FinPath[j]] = fs[FinPath[j]]
  BY <1>2, <1>6, <1>7, PartWritten
<1>11. Len(s \o t) = size[cur] - (left - n)
  BY <1>2, <1>4, <1>7
<1> QED
  BY <1>2, <1>5, <1>7, <1>8, <1>9, <1>10, <1>11 DEF s, t

LEMMA WriteTakeLanding == Separate /\ Landing /\ WriteTake => Landing'
<1> SUFFICES ASSUME Separate, Landing, WriteTake PROVE Landing'
  OBVIOUS
<1> DEFINE n == Shorter(left, Len(data))
<1>1. TypeOK /\ Lands /\ Opened
  BY DEF Landing, Lands, WriteTake
<1>2. left \in Nat /\ data \in Content /\ Len(data) \in Nat /\ idx \in Nat
  BY <1>1 DEF TypeOK, Content
<1>3. n \in Nat /\ n <= left /\ n <= Len(data) /\ n \in 0..Len(data)
  BY <1>2 DEF Shorter
<1>4. /\ fs' = [fs EXCEPT ![PartPath[cur]] = @ \o Prefix(data, n)]
      /\ curCrc' = curCrc \o Prefix(data, n)
      /\ left' = left - n /\ data' = Rest(data, n)
      /\ Writing /\ cur # NoFile /\ left > 0 /\ data # << >>
      /\ UNCHANGED <<queue, writer, idx, cur, ours, faultVars, phase, size, have>> /\ WriterOnly
  BY DEF WriteTake, WriterOnly, sessionVars
<1> HIDE DEF n
<1>5. /\ cur \in Files /\ fs' \in [Paths -> {Absent} \cup Content]
      /\ curCrc' \in Content /\ fs'[PartPath[cur]] \in Content
      /\ Len(fs'[PartPath[cur]]) = size[cur] - (left - n)
      /\ Rest(fs'[PartPath[cur]], have[cur]) = curCrc'
      /\ \A j \in Files : j # cur => fs'[PartPath[j]] = fs[PartPath[j]]
      /\ \A j \in Files : fs'[FinPath[j]] = fs[FinPath[j]]
  BY <1>3, <1>4, Added
<1>6. data' \in Content /\ left' \in Nat /\ left' <= left
  BY <1>2, <1>3, <1>4, RestFacts
<1>7. TypeOK'
  BY <1>1, <1>4, <1>5, <1>6, WriterTypes DEF TypeOK
<1>8. Opened'
  <2>1. size[cur] \in Nat /\ have[cur] \in Nat
    BY <1>1, <1>5 DEF TypeOK
  <2>2. left' <= size[cur] - have[cur] /\ left' = left - n
    BY <1>1, <1>2, <1>4, <1>6, <2>1 DEF Opened
  <2>3. fs'[PartPath[cur]] # Absent
    BY <1>5 DEF Separate
  <2> QED
    BY <1>1, <1>4, <1>5, <2>2, <2>3 DEF Opened
<1>9. Lands'
  <2>1. ASSUME NEW j \in From(idx)' PROVE Unopened(j)'
    <3>1. j \in Files /\ j # cur /\ j \in From(idx)
      BY <1>1, <1>2, <1>4, <1>5 DEF From, Opened, Files
    <3> QED
      BY <1>1, <1>4, <1>5, <3>1 DEF Lands, Unopened
  <2>2. ASSUME NEW j \in Files PROVE Settled(j)'
    BY <1>1, <1>4, <1>5 DEF Lands, Settled
  <2> QED
    BY <1>8, <2>1, <2>2 DEF Lands
<1> QED
  BY <1>7, <1>9 DEF Landing

LEMMA DiskErrorLanding == Separate /\ Landing /\ DiskError => Landing'
<1> SUFFICES ASSUME Separate, Landing, DiskError PROVE Landing'
  OBVIOUS
<1>1. TypeOK /\ Lands
  BY DEF Landing
<1>2. /\ fs' \in [Paths -> {Absent} \cup Content]
      /\ \A j \in Files : fs'[FinPath[j]] = fs[FinPath[j]]
  <2>1. CASE fs' = fs
    BY <1>1, <2>1 DEF TypeOK
  <2>2. CASE fs' # fs
    <3>1. PICK n \in 0..(Shorter(left, Len(data)) - 1) :
            /\ fs' = [fs EXCEPT ![PartPath[cur]] = @ \o Prefix(data, n)]
            /\ Writing /\ data # << >> /\ cur # NoFile /\ left > 0
      BY <2>2 DEF DiskError
    <3>2. left \in Nat /\ Len(data) \in Nat
      BY <1>1 DEF TypeOK, Content
    <3>3. n \in Nat /\ n <= left /\ n <= Len(data)
      BY <3>2 DEF Shorter
    <3> QED
      BY <3>1, <3>3, Added
  <2> QED
    BY <2>1, <2>2
<1>3. /\ writer' = "err" /\ WriterOnly /\ Interrupted("disk")
      /\ UNCHANGED <<queue, data, idx, cur, left, curCrc, ours, size, have>>
  BY DEF DiskError, WriterOnly, sessionVars
<1>4. TypeOK'
  BY <1>1, <1>2, <1>3, WriterTypes DEF TypeOK
<1>5. Lands'
  BY <1>1, <1>2, <1>3 DEF Lands, Writing, Settled
<1> QED
  BY <1>4, <1>5 DEF Landing

\* The open file takes its final name.
LEMMA Closes ==
  ASSUME Separate, Landing, Writing, cur # NoFile, fs' = Renamed,
         ours' = [ours EXCEPT ![cur] = curCrc], UNCHANGED <<size, have, idx>>
  PROVE  /\ cur \in Files /\ fs' \in [Paths -> {Absent} \cup Content]
         /\ ours' \in [Files -> Content]
         /\ fs'[FinPath[cur]] = fs[PartPath[cur]] /\ fs'[PartPath[cur]] = Absent
         /\ \A j \in Files : j # cur => /\ fs'[PartPath[j]] = fs[PartPath[j]]
                                       /\ fs'[FinPath[j]] = fs[FinPath[j]]
         /\ \A j \in From(idx) : Unopened(j)'
         /\ \A j \in Files : Settled(j)'
<1>1. TypeOK /\ Lands /\ Opened
  BY DEF Landing, Lands
<1>2. /\ cur \in Files /\ curCrc \in Content /\ fs \in [Paths -> {Absent} \cup Content]
      /\ ours \in [Files -> Content] /\ size[cur] \in Nat /\ have[cur] \in Nat /\ left \in Nat
  BY <1>1 DEF TypeOK
<1>3. /\ fs' \in [Paths -> {Absent} \cup Content]
      /\ fs'[FinPath[cur]] = fs[PartPath[cur]] /\ fs'[PartPath[cur]] = Absent
      /\ \A j \in Files : j # cur => /\ fs'[PartPath[j]] = fs[PartPath[j]]
                                    /\ fs'[FinPath[j]] = fs[FinPath[j]]
  BY <1>2, PartRenamed
<1>4. ours' \in [Files -> Content] /\ ours'[cur] = curCrc
      /\ \A j \in Files : j # cur => ours'[j] = ours[j]
  BY <1>2
<1>5. ASSUME NEW j \in Files PROVE Settled(j)'
  <2>1. CASE j = cur
    <3>1. fs[PartPath[cur]] # Absent /\ have[cur] <= Len(fs[PartPath[cur]])
          /\ Rest(fs[PartPath[cur]], have[cur]) = curCrc
      BY <1>1, <1>2 DEF Opened
    <3> QED
      BY <1>3, <1>4, <2>1, <3>1 DEF Settled
  <2>2. CASE j # cur
    BY <1>1, <1>3, <1>4, <2>2 DEF Lands, Settled
  <2> QED
    BY <2>1, <2>2
<1>6. ASSUME NEW j \in From(idx) PROVE Unopened(j)'
  <2>1. j \in Files /\ j # cur
    BY <1>1, <1>2 DEF From, Opened, Files
  <2> QED
    BY <1>1, <1>3, <2>1 DEF Lands, Unopened
<1> QED
  BY <1>2, <1>3, <1>4, <1>5, <1>6

LEMMA FinishFileLanding == Separate /\ Landing /\ FinishFile => Landing'
<1> SUFFICES ASSUME Separate, Landing, FinishFile PROVE Landing'
  OBVIOUS
<1>1. TypeOK
  BY DEF Landing
<1>2. /\ Writing /\ cur # NoFile /\ fs' = Renamed /\ ours' = [ours EXCEPT ![cur] = curCrc]
      /\ cur' = NoFile /\ WriterOnly
      /\ UNCHANGED <<queue, writer, data, idx, left, curCrc, faultVars, phase, size, have>>
  BY DEF FinishFile, WriterOnly, sessionVars
<1>3. /\ fs' \in [Paths -> {Absent} \cup Content] /\ ours' \in [Files -> Content]
      /\ \A j \in From(idx) : Unopened(j)'
      /\ \A j \in Files : Settled(j)'
  BY <1>2, Closes
<1>4. TypeOK'
  BY <1>1, <1>2, <1>3, WriterTypes DEF TypeOK
<1>5. Lands'
  BY <1>2, <1>3 DEF Lands, From
<1> QED
  BY <1>4, <1>5 DEF Landing

LEMMA WriterEndLanding == Separate /\ Landing /\ WriterEnd => Landing'
<1> SUFFICES ASSUME Separate, Landing, WriterEnd PROVE Landing'
  OBVIOUS
<1>1. TypeOK /\ Lands
  BY DEF Landing
<1>2. /\ Writing /\ writer' = "ok" /\ WriterOnly
      /\ UNCHANGED <<queue, data, idx, left, curCrc, faultVars, phase, size, have>>
  BY DEF WriterEnd, WriterOnly, sessionVars
<1>3. /\ fs' \in [Paths -> {Absent} \cup Content] /\ ours' \in [Files -> Content]
      /\ cur' \in Files \cup {NoFile}
      /\ \A j \in Files : Settled(j)'
  <2>1. CASE UNCHANGED <<fs, ours, cur>>
    BY <1>1, <1>2, <2>1 DEF TypeOK, Lands, Settled
  <2>2. CASE cur # NoFile /\ fs' = Renamed /\ ours' = [ours EXCEPT ![cur] = curCrc] /\ cur' = NoFile
    BY <1>2, <2>2, Closes
  <2> QED
    BY <2>1, <2>2 DEF WriterEnd
<1>4. TypeOK'
  BY <1>1, <1>2, <1>3, WriterTypes DEF TypeOK
<1>5. Lands'
  BY <1>2, <1>3 DEF Lands, Writing
<1> QED
  BY <1>4, <1>5 DEF Landing

LEMMA NextLanding == Separate /\ Landing /\ [Next]_vars => Landing'
BY StartLanding, SenderLanding, OtherLanding, TakeChunkLanding, DropSurplusLanding,
   OpenNextLanding, WriteTakeLanding, DiskErrorLanding, FinishFileLanding, WriterEndLanding
DEF Next, WriterThread, Exhausted

\* Throughout every sequence of sessions, with crashes, failing disks, lost peers
\* and sources that are written to: the state has its types, an open .part file and
\* a file under its final name hold exactly what their CRCs cover.
THEOREM LandingHolds == Separate => (Spec => []Landing)
<1> SUFFICES ASSUME Separate PROVE Spec => []Landing
  OBVIOUS
<1>1. Init => Landing
  BY InitLanding
<1>2. Landing /\ [Next]_vars => Landing'
  BY NextLanding
<1> QED
  BY <1>1, <1>2, PTL DEF Spec

\* The types and ranges of TypeOK hold for every number of files and sessions.
THEOREM TypeCorrectness == Separate => (Spec => []TypeOK)
<1> SUFFICES ASSUME Separate PROVE Spec => []TypeOK
  OBVIOUS
<1>1. Landing => TypeOK
  BY DEF Landing
<1> QED
  BY <1>1, LandingHolds, PTL

-----------------------------------------------------------------------------
(* The sender's side: what its CRCs cover, and what an agreement is of.      *)

Reads ==
  /\ \A i \in Files : IsRun(theirs[i], i, have[i])
  /\ rCur # NoFile => /\ rIdx = rCur + 1 /\ have[rCur] <= rOff
                      /\ Len(rCrc) = rOff - have[rCur] /\ IsRun(rCrc, rCur, have[rCur])
  /\ phase = "run" => verified = {}
  /\ \A i \in verified : ours[i] = theirs[i]

LEMMA RunsJoin ==
  ASSUME NEW i \in Files, NEW from \in Nat, NEW s \in Content, NEW t \in Content,
         IsRun(s, i, from), IsRun(t, i, from + Len(s))
  PROVE  IsRun(s \o t, i, from)
<1> DEFINE c == s \o t
<1>1. Len(s) \in Nat /\ Len(t) \in Nat
  BY DEF Content
<1>2. \A k \in 1..Len(t) : t[k] = <<i, from + Len(s) + k>>
  BY DEF IsRun
<1>3. /\ c \in Content /\ Len(c) = Len(s) + Len(t)
      /\ \A k \in 1..Len(s) : c[k] = s[k]
      /\ \A k \in 1..Len(t) : c[Len(s) + k] = t[k]
  BY ConcatFacts
<1> HIDE DEF c
<1>4. ASSUME NEW k \in 1..Len(c) PROVE c[k] = <<i, from + k>>
  <2>1. CASE k <= Len(s)
    <3>1. k \in 1..Len(s)
      BY <1>1, <1>3, <2>1
    <3>2. s[k] = <<i, from + k>>
      BY <3>1 DEF IsRun
    <3> QED
      BY <1>3, <3>1, <3>2
  <2>2. CASE k > Len(s)
    <3>1. k - Len(s) \in 1..Len(t) /\ Len(s) + (k - Len(s)) = k
          /\ from + Len(s) + (k - Len(s)) = from + k
      BY <1>1, <1>3, <2>2
    <3> QED
      BY <1>2, <1>3, <3>1
  <2>3. k <= Len(s) \/ k > Len(s)
    BY <1>1
  <2> QED
    BY <2>1, <2>2, <2>3
<1> QED
  BY <1>4 DEF IsRun, c

LEMMA RunConcat ==
  ASSUME NEW i \in Files, NEW from \in Nat, NEW s \in Content, NEW n \in Nat,
         IsRun(s, i, from)
  PROVE  /\ Len(s \o Bytes(i, from + Len(s), n)) = Len(s) + n
         /\ IsRun(s \o Bytes(i, from + Len(s), n), i, from)
<1> DEFINE t == Bytes(i, from + Len(s), n)
<1>1. from + Len(s) \in Nat
  BY DEF Content
<1>2. t \in Content /\ Len(t) = n /\ IsRun(t, i, from + Len(s))
  BY <1>1, BytesFacts
<1> HIDE DEF t
<1>3. Len(s \o t) = Len(s) + n /\ IsRun(s \o t, i, from)
  BY <1>2, ConcatFacts, RunsJoin
<1> QED
  BY <1>3 DEF t

\* What the reader adds to the slab and to its CRC in one turn.
LEMMA Reading ==
  ASSUME TypeOK, ReadSome
  PROVE  \E n \in Nat :
           /\ n > 0 /\ rOff + n <= len[rCur] /\ rOff' = rOff + n /\ rCur \in Files
           /\ slab' = slab \o Bytes(rCur, rOff, n) /\ rCrc' = rCrc \o Bytes(rCur, rOff, n)
<1> DEFINE n == Shorter(SlabLen - Len(slab), len[rCur] - rOff)
<1>1. /\ slab' = slab \o Bytes(rCur, rOff, n) /\ rCrc' = rCrc \o Bytes(rCur, rOff, n)
      /\ rOff' = rOff + n
  BY DEF ReadSome, Bytes
<1>2. /\ Len(slab) \in Nat /\ Len(slab) < SlabLen /\ rCur \in Files
      /\ rOff \in Nat /\ rOff < len[rCur] /\ len[rCur] \in Nat /\ SlabLen \in Nat
  BY ResumeAssumption DEF ReadSome, Filling, TypeOK, Content
<1>3. n \in Nat /\ n > 0 /\ rOff + n <= len[rCur]
  BY <1>2 DEF Shorter
<1> HIDE DEF n
<1> QED
  BY <1>1, <1>2, <1>3

LEMMA ReadsStays ==
  ASSUME Reads, UNCHANGED <<have, readerVars>>,
         \/ phase' = phase /\ UNCHANGED ours /\ verified' = verified
         \/ phase = "run" /\ phase' \in {"run", "idle"} /\ verified' = verified
         \/ phase' = "idle" /\ \A i \in verified' : ours'[i] = theirs'[i]
  PROVE  Reads'
BY DEF Reads, readerVars, IsRun

LEMMA NextReads == TypeOK /\ Reads /\ [Next]_vars => Reads'
<1> SUFFICES ASSUME TypeOK, Reads, [Next]_vars PROVE Reads'
  OBVIOUS
<1>1. CASE Start
  BY <1>1 DEF Start, Reads, IsRun
<1>2. CASE ReadOpen
  <2>1. PICK i \in From(rIdx) : IsNext(i, rIdx) /\ rCur' = i /\ rIdx' = i + 1 /\ rOff' = have[i]
    BY <1>2 DEF ReadOpen
  <2>2. i \in Files /\ have[i] \in Nat
    BY <2>1, NextFile DEF TypeOK
  <2>3. /\ rCrc' = << >> /\ Len(<< >>) = 0
        /\ UNCHANGED <<theirs, have, phase, verified, ours>>
    BY <1>2 DEF ReadOpen, SenderOnly, sessionVars, splitterVars, reportVars
  <2> QED
    BY <2>1, <2>2, <2>3 DEF Reads, IsRun
<1>3. CASE ReadSome
  <2>1. PICK n \in Nat :
          /\ n > 0 /\ rOff + n <= len[rCur] /\ rOff' = rOff + n /\ rCur \in Files
          /\ rCrc' = rCrc \o Bytes(rCur, rOff, n)
    BY <1>3, Reading
  <2>2. /\ rCur # NoFile /\ UNCHANGED <<rIdx, rCur, theirs, have, phase, verified, ours>>
    BY <1>3 DEF ReadSome, SenderOnly, sessionVars, splitterVars, reportVars
  <2>3. /\ have[rCur] \in Nat /\ rCrc \in Content /\ rOff \in Nat
        /\ IsRun(rCrc, rCur, have[rCur]) /\ have[rCur] + Len(rCrc) = rOff
        /\ have[rCur] <= rOff /\ Len(rCrc) = rOff - have[rCur]
    BY <2>1, <2>2 DEF TypeOK, Reads
  <2>4. Len(rCrc') = Len(rCrc) + n /\ IsRun(rCrc', rCur, have[rCur])
    BY <2>1, <2>3, RunConcat
  <2>5. Len(rCrc') = rOff' - have'[rCur'] /\ have'[rCur'] <= rOff'
        /\ IsRun(rCrc', rCur', have'[rCur'])
    BY <2>1, <2>2, <2>3, <2>4
  <2> QED
    BY <2>2, <2>5 DEF Reads
<1>4. CASE ReadEnd
  <2>1. /\ theirs' = [theirs EXCEPT ![rCur] = rCrc] /\ rCur' = NoFile /\ rCur # NoFile
        /\ UNCHANGED <<have, phase, verified, ours>> /\ phase = "run"
    BY <1>4 DEF ReadEnd, SenderOnly, sessionVars, splitterVars, reportVars, Filling, Sending
  <2>2. ASSUME NEW i \in Files PROVE IsRun(theirs'[i], i, have'[i])
    BY <2>1 DEF Reads, TypeOK
  <2> QED
    BY <2>1, <2>2 DEF Reads
<1>5. CASE SendSlab
  BY <1>5 DEF SendSlab, SenderOnly, sessionVars, splitterVars, reportVars, Reads
<1>6. CASE SendEof
  BY <1>6, ReadsStays DEF SendEof, SenderOnly, sessionVars, splitterVars, reportVars
<1>7. CASE WriterThread \/ DiskError
  <2>1. UNCHANGED <<have, readerVars, phase, verified>> /\ phase = "run"
    BY <1>7 DEF WriterThread, DiskError, TakeChunk, OpenNext, DropSurplus, WriteTake, FinishFile,
                WriterEnd, WriterOnly, sessionVars, reportVars, Writing
  <2> QED
    BY <2>1, ReadsStays
<1>8. CASE End
  <2>1. UNCHANGED <<have, readerVars, ours>> /\ phase' = "idle" /\ phase = "run"
    BY <1>8 DEF End, splitterVars
  <2>2. ASSUME NEW i \in verified' PROVE ours'[i] = theirs'[i]
    BY <1>8, <2>1 DEF End, Reads, reportVars, readerVars
  <2> QED
    BY <2>1, <2>2, ReadsStays
<1>9. CASE IdleLimit \/ PeerLost \/ SourceChanges \/ Crash
  BY <1>9, ReadsStays DEF IdleLimit, PeerLost, SourceChanges, Crash, sessionVars, splitterVars,
     reportVars, Sending
<1>10. CASE UNCHANGED vars
  BY <1>10, ReadsStays DEF vars, sessionVars, splitterVars, reportVars
<1> QED
  BY <1>1, <1>2, <1>3, <1>4, <1>5, <1>6, <1>7, <1>8, <1>9, <1>10
  DEF Next, Sender, WriterThread, Exhausted

-----------------------------------------------------------------------------
(* The stream of a session: the bytes of every file from its resume offset h *)
(* to its size z, in the order of the manifest.                              *)

NextOf(h, z, i, n) ==
  /\ i \in Files /\ i >= n /\ h[i] < z[i]
  /\ \A j \in Files : j >= n /\ h[j] < z[j] => i <= j
\* The position of the first byte of the files from the n-th on.
FirstByte(h, z, n) ==
  IF \E i \in Files : NextOf(h, z, i, n)
    THEN LET i == CHOOSE i \in Files : NextOf(h, z, i, n) IN <<i, h[i] + 1>>
    ELSE <<NFiles + 1, 1>>
\* The position after p.
After(h, z, p) ==
  IF p[2] < z[p[1]] THEN <<p[1], p[2] + 1>> ELSE FirstByte(h, z, p[1] + 1)

InStream(h, z, p) == p[1] \in Files /\ h[p[1]] < p[2] /\ p[2] <= z[p[1]]
\* Consecutive bytes of the stream; those of one file are at consecutive offsets.
Chained(h, z, s) ==
  /\ \A k \in 1..Len(s) : InStream(h, z, s[k])
  /\ \A k \in 1..Len(s) : k < Len(s) => s[k + 1] = After(h, z, s[k])
  /\ \A j, k \in 1..Len(s) :
       j <= k /\ s[j][2] + (k - j) <= z[s[j][1]] => s[k] = <<s[j][1], s[j][2] + (k - j)>>
\* s is the stream from position p up to position q.
Links(h, z, s, p, q) ==
  IF s = << >> THEN p = q
  ELSE Chained(h, z, s) /\ s[1] = p /\ After(h, z, s[Len(s)]) = q

LEMMA FirstByteIs ==
  ASSUME NEW h, NEW z, NEW n, NEW i, NextOf(h, z, i, n)
  PROVE  FirstByte(h, z, n) = <<i, h[i] + 1>>
<1>1. ASSUME NEW j \in Files, NextOf(h, z, j, n) PROVE j = i
  BY <1>1, ResumeAssumption DEF NextOf, Files
<1> QED
  BY <1>1 DEF FirstByte, NextOf

LEMMA NoFirstByte ==
  ASSUME NEW h, NEW z, NEW n, \A i \in Files : ~NextOf(h, z, i, n)
  PROVE  FirstByte(h, z, n) = <<NFiles + 1, 1>>
BY DEF FirstByte

\* Part of one file.
LEMMA RunLinks ==
  ASSUME NEW h \in [Files -> Nat], NEW z \in [Files -> Nat], NEW i \in Files,
         NEW from \in Nat, NEW n \in Nat \ {0}, h[i] <= from, from + n <= z[i]
  PROVE  /\ Links(h, z, Bytes(i, from, n), <<i, from + 1>>, After(h, z, <<i, from + n>>))
         /\ Bytes(i, from, n) # << >>
<1> DEFINE s == Bytes(i, from, n)
<1>1. s \in Content /\ Len(s) = n /\ \A k \in 1..n : s[k] = <<i, from + k>>
  BY BytesFacts DEF IsRun
<1> HIDE DEF s
<1>2. h[i] \in Nat /\ z[i] \in Nat
  OBVIOUS
<1>3. \A k \in 1..Len(s) : InStream(h, z, s[k])
  BY <1>1, <1>2 DEF InStream
<1>4. ASSUME NEW k \in 1..Len(s), k < Len(s) PROVE s[k + 1] = After(h, z, s[k])
  <2>1. s[k] = <<i, from + k>> /\ s[k + 1] = <<i, from + (k + 1)>>
    BY <1>1, <1>4
  <2>2. from + k < z[i] /\ from + (k + 1) = (from + k) + 1
    BY <1>1, <1>2, <1>4
  <2> QED
    BY <2>1, <2>2 DEF After
<1>5. ASSUME NEW j \in 1..Len(s), NEW k \in 1..Len(s)
      PROVE  s[k] = <<s[j][1], s[j][2] + (k - j)>>
  BY <1>1
<1>6. Chained(h, z, s)
  BY <1>3, <1>4, <1>5 DEF Chained
<1>7. s[1] = <<i, from + 1>> /\ s[Len(s)] = <<i, from + n>> /\ s # << >>
  BY <1>1 DEF Content
<1> QED
  BY <1>6, <1>7 DEF Links, s

LEMMA LinksConcat ==
  ASSUME NEW h \in [Files -> Nat], NEW z \in [Files -> Nat],
         NEW s \in Content, NEW t \in Content, NEW p, NEW q, NEW r,
         Links(h, z, s, p, q), Links(h, z, t, q, r)
  PROVE  Links(h, z, s \o t, p, r)
<1> DEFINE c == s \o t
<1>1. /\ c \in Content /\ Len(c) = Len(s) + Len(t) /\ Len(s) \in Nat /\ Len(t) \in Nat
      /\ \A k \in 1..Len(s) : c[k] = s[k]
      /\ \A k \in 1..Len(t) : c[Len(s) + k] = t[k]
  BY ConcatFacts DEF Content
<1>2. (s = << >> <=> Len(s) = 0) /\ (t = << >> <=> Len(t) = 0)
  BY DEF Content
<1>3. CASE s = << >>
  <2>1. s \o t = t /\ p = q
    BY <1>3 DEF Content, Links
  <2> QED
    BY <2>1
<1>4. CASE t = << >>
  <2>1. s \o t = s
    BY <1>4 DEF Content
  <2>2. q = r
    BY <1>4 DEF Links
  <2> QED
    BY <2>1, <2>2
<1>5. CASE s # << >> /\ t # << >>
  <2> HIDE DEF c
  <2>1. /\ Chained(h, z, s) /\ s[1] = p /\ After(h, z, s[Len(s)]) = t[1]
        /\ Chained(h, z, t) /\ After(h, z, t[Len(t)]) = r
    BY <1>5 DEF Links
  <2>2. Len(s) > 0 /\ Len(t) > 0
    BY <1>1, <1>2, <1>5
  <2>3. ASSUME NEW k \in 1..Len(c), k > Len(s)
        PROVE  k - Len(s) \in 1..Len(t) /\ c[k] = t[k - Len(s)]
    <3>1. k - Len(s) \in 1..Len(t) /\ Len(s) + (k - Len(s)) = k
      BY <1>1, <2>3
    <3> QED
      BY <1>1, <3>1
  <2>4. ASSUME NEW k \in 1..Len(c) PROVE InStream(h, z, c[k])
    <3>1. CASE k <= Len(s)
      BY <1>1, <2>1, <3>1 DEF Chained
    <3>2. CASE k > Len(s)
      BY <2>1, <2>3, <3>2 DEF Chained
    <3>3. k <= Len(s) \/ k > Len(s)
      BY <1>1
    <3> QED
      BY <3>1, <3>2, <3>3
  <2>5. ASSUME NEW k \in 1..Len(c), k < Len(c) PROVE c[k + 1] = After(h, z, c[k])
    <3>1. CASE k < Len(s)
      <4>1. c[k] = s[k] /\ c[k + 1] = s[k + 1] /\ k \in 1..Len(s)
        BY <1>1, <3>1
      <4> QED
        BY <2>1, <3>1, <4>1 DEF Chained
    <3>2. CASE k = Len(s)
      <4>1. c[k] = s[Len(s)] /\ c[k + 1] = t[1]
        BY <1>1, <2>2, <3>2
      <4> QED
        BY <2>1, <4>1
    <3>3. CASE k > Len(s)
      <4>1. c[k] = t[k - Len(s)] /\ k - Len(s) \in 1..Len(t) /\ k - Len(s) < Len(t)
        BY <1>1, <2>3, <2>5, <3>3
      <4>2. k + 1 \in 1..Len(c) /\ k + 1 > Len(s)
        BY <1>1, <2>5, <3>3
      <4>3. c[k + 1] = t[(k + 1) - Len(s)]
        BY <2>3, <4>2
      <4>4. (k + 1) - Len(s) = (k - Len(s)) + 1
        BY <1>1
      <4> QED
        BY <2>1, <4>1, <4>3, <4>4 DEF Chained
    <3>4. k < Len(s) \/ k = Len(s) \/ k > Len(s)
      BY <1>1
    <3> QED
      BY <3>1, <3>2, <3>3, <3>4
  <2>6. ASSUME NEW j \in 1..Len(c), NEW k \in 1..Len(c), j <= k,
               c[j][2] + (k - j) <= z[c[j][1]]
        PROVE  c[k] = <<c[j][1], c[j][2] + (k - j)>>
    <3>1. CASE k <= Len(s)
      <4>1. c[j] = s[j] /\ c[k] = s[k] /\ j \in 1..Len(s) /\ k \in 1..Len(s)
        BY <1>1, <2>6, <3>1
      <4> QED
        BY <2>1, <2>6, <4>1 DEF Chained
    <3>2. CASE j > Len(s)
      <4> DEFINE a == j - Len(s)
                 b == k - Len(s)
      <4>1. k > Len(s)
        BY <1>1, <2>6, <3>2
      <4>2. a \in 1..Len(t) /\ c[j] = t[a] /\ b \in 1..Len(t) /\ c[k] = t[b]
        BY <2>3, <3>2, <4>1
      <4>3. b - a = k - j /\ a <= b
        BY <1>1, <2>6
      <4> HIDE DEF a, b
      <4> QED
        BY <2>1, <2>6, <4>2, <4>3 DEF Chained
    <3>3. CASE j <= Len(s) /\ k > Len(s)
      <4> DEFINE a == Len(s)
                 b == k - Len(s)
      <4>1. b \in 1..Len(t) /\ c[k] = t[b] /\ b \in Nat /\ b > 0
        BY <2>3, <3>3
      <4>2. a \in 1..Len(s) /\ j \in 1..Len(s) /\ j <= a /\ c[j] = s[j] /\ k = a + b
            /\ 1 \in 1..Len(t)
        BY <1>1, <2>2, <3>3
      <4>3. s[j] \in Byte /\ s[j][1] \in Files /\ s[j][2] \in Nat /\ z[s[j][1]] \in Nat
        <5>1. s[j] \in Byte
          BY <4>2 DEF Content, Byte
        <5>2. s[j][1] \in Files
          BY <2>1, <4>2 DEF Chained, InStream
        <5> QED
          BY <5>1, <5>2 DEF Byte
      <4> HIDE DEF b
      <4>4. s[j][2] + (k - j) <= z[s[j][1]]
        BY <2>6, <4>2
      <4> DEFINE o == s[j][2]
                 m == z[s[j][1]]
      <4>5. o \in Nat /\ m \in Nat /\ a \in Nat /\ b \in Nat /\ j \in Nat /\ k = a + b /\ b > 0
             /\ o + (k - j) <= m
        BY <1>1, <4>1, <4>2, <4>3, <4>4
      <4> HIDE DEF o, m, a
      <4>6. o + (a - j) < m /\ o + (a - j) <= m /\ o + (a - j) + 1 + (b - 1) = o + (k - j)
        BY <4>5
      <4> USE DEF a
      <4>7. s[j][2] + (a - j) < z[s[j][1]] /\ s[j][2] + (a - j) <= z[s[j][1]]
            /\ s[j][2] + (a - j) + 1 + (b - 1) = s[j][2] + (k - j)
        BY <4>6 DEF o, m
      <4>8. s[a] = <<s[j][1], s[j][2] + (a - j)>>
        BY <2>1, <4>2, <4>7 DEF Chained
      <4>9. t[1] = <<s[j][1], s[j][2] + (a - j) + 1>>
        BY <2>1, <4>7, <4>8 DEF After
      <4>10. t[1][2] + (b - 1) <= z[t[1][1]] /\ 1 <= b
        <5>1. t[1][1] = s[j][1] /\ t[1][2] = s[j][2] + (a - j) + 1
          BY <4>9
        <5>2. s[j][2] + (a - j) + 1 + (b - 1) <= z[s[j][1]]
          BY <4>4, <4>7
        <5>3. 1 <= b
          BY <4>1
        <5> QED
          BY <5>1, <5>2, <5>3
      <4>11. t[b] = <<t[1][1], t[1][2] + (b - 1)>>
        BY <2>1, <4>1, <4>2, <4>10 DEF Chained
      <4>12. t[b] = <<s[j][1], s[j][2] + (a - j) + 1 + (b - 1)>>
        BY <4>9, <4>11
      <4> QED
        BY <4>1, <4>2, <4>7, <4>12
    <3>4. k <= Len(s) \/ j > Len(s) \/ (j <= Len(s) /\ k > Len(s))
      BY <1>1
    <3> QED
      BY <3>1, <3>2, <3>3, <3>4
  <2>7. Chained(h, z, c)
    BY <2>4, <2>5, <2>6 DEF Chained
  <2>8. c # << >> /\ c[1] = p /\ c[Len(c)] = t[Len(t)]
    <3>1. 1 \in 1..Len(s) /\ Len(t) \in 1..Len(t) /\ Len(c) = Len(s) + Len(t) /\ Len(c) # 0
      BY <1>1, <2>2
    <3>2. c # << >>
      BY <3>1
    <3>3. c[1] = s[1] /\ c[Len(s) + Len(t)] = t[Len(t)]
      BY <1>1, <3>1
    <3> QED
      BY <2>1, <3>1, <3>2, <3>3
  <2>9. Links(h, z, c, p, r)
    BY <2>1, <2>7, <2>8 DEF Links
  <2> QED
    BY <2>9 DEF c
<1> QED
  BY <1>3, <1>4, <1>5

\* Bytes that one file still needs, taken from the front of a piece of the stream.
LEMMA LinksTake ==
  ASSUME NEW h \in [Files -> Nat], NEW z \in [Files -> Nat], NEW s \in Content, NEW q,
         NEW i \in Files, NEW from \in Nat, NEW n \in 1..Len(s), from + n <= z[i],
         Links(h, z, s, <<i, from + 1>>, q)
  PROVE  /\ IsRun(Prefix(s, n), i, from)
         /\ Links(h, z, Rest(s, n), After(h, z, <<i, from + n>>), q)
<1> DEFINE l == Prefix(s, n)
           r == Rest(s, n)
<1>1. Len(s) \in Nat /\ s # << >> /\ n \in Nat /\ n > 0 /\ n <= Len(s) /\ n \in 0..Len(s)
      /\ 1 \in 1..Len(s) /\ z[i] \in Nat
  BY DEF Content
<1>2. Chained(h, z, s) /\ s[1] = <<i, from + 1>> /\ After(h, z, s[Len(s)]) = q
  BY <1>1 DEF Links
<1>3. ASSUME NEW k \in 1..n PROVE k \in 1..Len(s) /\ s[k] = <<i, from + k>>
  <2>1. k \in 1..Len(s) /\ 1 <= k /\ (from + 1) + (k - 1) = from + k /\ from + k <= z[i]
    BY <1>1
  <2>2. s[1][2] + (k - 1) <= z[s[1][1]]
    BY <1>2, <2>1
  <2>3. s[k] = <<s[1][1], s[1][2] + (k - 1)>>
    BY <1>1, <1>2, <2>1, <2>2 DEF Chained
  <2> QED
    BY <1>2, <2>1, <2>3
<1>4. Len(l) = n /\ \A k \in 1..n : l[k] = s[k]
  BY <1>1, PrefixFacts
<1>5. IsRun(l, i, from)
  BY <1>3, <1>4 DEF IsRun
<1>6. r \in Content /\ Len(r) = Len(s) - n /\ \A k \in 1..Len(s) - n : r[k] = s[n + k]
  BY <1>1, RestFacts
<1> HIDE DEF l, r
<1>7. s[n] = <<i, from + n>>
  BY <1>1, <1>3
<1>8. CASE n = Len(s)
  <2>1. r = << >>
    BY <1>1, <1>6, <1>8 DEF Content
  <2> QED
    BY <1>2, <1>5, <1>7, <1>8, <2>1 DEF Links, l, r
<1>9. CASE n < Len(s)
  <2>1. Len(r) \in Nat /\ Len(r) > 0 /\ r # << >>
    BY <1>1, <1>6, <1>9 DEF Content
  <2>2. ASSUME NEW k \in 1..Len(r) PROVE n + k \in 1..Len(s) /\ r[k] = s[n + k]
    BY <1>1, <1>6
  <2>3. \A k \in 1..Len(r) : InStream(h, z, r[k])
    BY <1>2, <2>2 DEF Chained
  <2>4. ASSUME NEW k \in 1..Len(r), k < Len(r) PROVE r[k + 1] = After(h, z, r[k])
    <3>1. k + 1 \in 1..Len(r) /\ n + (k + 1) = (n + k) + 1 /\ n + k < Len(s)
      BY <1>1, <1>6, <2>1, <2>4
    <3>2. r[k + 1] = s[n + (k + 1)] /\ r[k] = s[n + k] /\ n + k \in 1..Len(s)
      BY <2>2, <3>1
    <3> QED
      BY <1>2, <3>1, <3>2 DEF Chained
  <2>5. ASSUME NEW j \in 1..Len(r), NEW k \in 1..Len(r), j <= k,
               r[j][2] + (k - j) <= z[r[j][1]]
        PROVE  r[k] = <<r[j][1], r[j][2] + (k - j)>>
    <3> DEFINE a == n + j
               b == n + k
    <3>1. a \in 1..Len(s) /\ b \in 1..Len(s) /\ r[j] = s[a] /\ r[k] = s[b]
      BY <2>2
    <3>2. b - a = k - j /\ a <= b
      BY <1>1, <2>5
    <3> HIDE DEF a, b
    <3> QED
      BY <1>2, <2>5, <3>1, <3>2 DEF Chained
  <2>6. Chained(h, z, r)
    BY <2>3, <2>4, <2>5 DEF Chained
  <2>7. r[1] = After(h, z, <<i, from + n>>)
    <3>1. 1 \in 1..Len(r) /\ n \in 1..Len(s)
      BY <1>1, <2>1
    <3>2. r[1] = s[n + 1]
      BY <2>2, <3>1
    <3> QED
      BY <1>2, <1>7, <1>9, <3>1, <3>2 DEF Chained
  <2>8. r[Len(r)] = s[Len(s)]
    <3>1. Len(r) \in 1..Len(r) /\ n + Len(r) = Len(s)
      BY <1>1, <1>6, <2>1
    <3> QED
      BY <2>2, <3>1
  <2>9. Links(h, z, r, After(h, z, <<i, from + n>>), q)
    BY <1>2, <2>1, <2>6, <2>7, <2>8 DEF Links
  <2> QED
    BY <1>5, <2>9 DEF l, r
<1>10. n = Len(s) \/ n < Len(s)
  BY <1>1
<1> QED
  BY <1>8, <1>9, <1>10

-----------------------------------------------------------------------------
(* Sessions with sources nobody writes to: what is under way is the stream   *)
(* from where the writer is to where the reader is, so every byte lands at   *)
(* its place.                                                                *)

WriterAt == IF cur # NoFile /\ left > 0 THEN <<cur, size[cur] - left + 1>>
            ELSE FirstByte(have, size, idx)
ReaderAt == IF rCur # NoFile /\ rOff < size[rCur] THEN <<rCur, rOff + 1>>
            ELSE FirstByte(have, size, rIdx)
SlabAt == IF slab = << >> THEN ReaderAt ELSE slab[1]
QueueAt(j) == IF j <= Len(queue) THEN queue[j][1] ELSE SlabAt

Flow ==
  /\ Links(have, size, data, WriterAt, QueueAt(1))
  /\ \A j \in 1..Len(queue) :
       queue[j] # << >> /\ Links(have, size, queue[j], queue[j][1], QueueAt(j + 1))
  /\ Links(have, size, slab, SlabAt, ReaderAt)

\* A .part that is no longer than the file is a prefix of it, and so is a final file
\* unless it was there before and has a wrong length.
PartRight(i) ==
  LET c == fs[PartPath[i]] IN c # Absent /\ Len(c) <= Size[i] => IsRun(c, i, 0)
FinalRight(i) ==
  LET c == fs[FinPath[i]] IN
    c = Absent \/ (Foreign(c) /\ Len(c) = Size[i] + 1) \/ (IsRun(c, i, 0) /\ Len(c) <= Size[i])
SameSizes == len = Size /\ size = Size
DiskRight == \A i \in Files : PartRight(i) /\ FinalRight(i)
ReaderRight ==
  /\ \A i \in Files : theirs[i] = << >> \/ Len(theirs[i]) = Size[i] - have[i]
  /\ rCur # NoFile => rOff <= Size[rCur]
  /\ pumpEnd = "eof" => slab = << >> /\ AllRead
\* The scan still holds for a file that is yet to be opened.
Fresh == \A i \in From(idx) : ResumePoint(i) <= have[i]
Undisturbed == SameSizes /\ DiskRight /\ ReaderRight /\ (Writing => Flow /\ Fresh)

LEMMA FlowStays ==
  ASSUME Flow, WriterAt' = WriterAt, ReaderAt' = ReaderAt,
         UNCHANGED <<have, size, data, queue, slab>>
  PROVE  Flow'
<1>1. SlabAt' = SlabAt
  BY DEF SlabAt
<1>2. \A j : QueueAt(j)' = QueueAt(j)
  BY <1>1 DEF QueueAt
<1> QED
  BY <1>1, <1>2 DEF Flow

LEMMA OpensNext ==
  ASSUME NEW i, NEW n, IsNext(i, n)
  PROVE  FirstByte(have, size, n) = <<i, have[i] + 1>>
<1>1. NextOf(have, size, i, n)
  BY DEF IsNext, From, NextOf
<1> QED
  BY <1>1, FirstByteIs

LEMMA SenderFlow ==
  ASSUME TypeOK, Reads, SameSizes, ReaderRight, Flow, Sender
  PROVE  Flow'
<1>1. UNCHANGED <<have, size, data, idx, cur, left, len>>
  BY DEF Sender, SenderOnly, ReadOpen, ReadSome, ReadEnd, SendSlab, SendEof, sessionVars,
         splitterVars
<1>2. WriterAt' = WriterAt
  BY <1>1 DEF WriterAt
<1>3. CASE ReadOpen
  <2>1. PICK i \in From(rIdx) : IsNext(i, rIdx) /\ rCur' = i /\ rIdx' = i + 1 /\ rOff' = have[i]
    BY <1>3 DEF ReadOpen
  <2>2. i \in Files /\ have[i] < size[i] /\ i # NoFile
    BY <2>1, NextFile DEF Files, NoFile
  <2>3. ReaderAt = <<i, have[i] + 1>>
    BY <1>3, <2>1, OpensNext DEF ReaderAt, ReadOpen
  <2>4. ReaderAt' = <<i, have[i] + 1>>
    BY <1>1, <2>1, <2>2 DEF ReaderAt
  <2>5. UNCHANGED <<queue, slab>>
    BY <1>3 DEF ReadOpen, pipeVars
  <2> QED
    BY <1>1, <1>2, <2>3, <2>4, <2>5, FlowStays
<1>4. CASE ReadSome
  <2>1. PICK n \in Nat :
          /\ n > 0 /\ rOff + n <= len[rCur] /\ rOff' = rOff + n /\ rCur \in Files
          /\ slab' = slab \o Bytes(rCur, rOff, n)
    BY <1>4, Reading
  <2>2. /\ rCur # NoFile /\ UNCHANGED <<rIdx, rCur, queue>> /\ rIdx = rCur + 1
        /\ have[rCur] <= rOff
    BY <1>4 DEF ReadSome, pipeVars, Reads
  <2>3. /\ have \in [Files -> Nat] /\ size \in [Files -> Nat] /\ rOff \in Nat /\ slab \in Content
        /\ rOff + n <= size[rCur] /\ n \in Nat \ {0} /\ size[rCur] \in Nat
    BY <2>1 DEF TypeOK, SameSizes
  <2> DEFINE t == Bytes(rCur, rOff, n)
             q == After(have, size, <<rCur, rOff + n>>)
  <2>4. t \in Content /\ Len(t) = n
    BY <2>1, <2>3, BytesFacts
  <2>5. Links(have, size, t, <<rCur, rOff + 1>>, q)
    BY <2>1, <2>2, <2>3, RunLinks
  <2>6. ReaderAt = <<rCur, rOff + 1>>
    BY <2>2, <2>3 DEF ReaderAt
  <2>7. ReaderAt' = q
    BY <1>1, <2>1, <2>2, <2>3 DEF ReaderAt, After
  <2> HIDE DEF q, t
  <2>8. Links(have, size, slab \o t, SlabAt, q)
    BY <2>3, <2>4, <2>5, <2>6, LinksConcat DEF Flow
  <2>9. slab' = slab \o t /\ slab' # << >>
    <3>1. slab' = slab \o t
      BY <2>1 DEF t
    <3>2. Len(slab \o t) = Len(slab) + n
      BY <2>3, <2>4, ConcatFacts
    <3>3. Len(slab) \in Nat
      BY <2>3 DEF Content
    <3>4. Len(slab \o t) # 0
      BY <2>3, <3>2, <3>3
    <3> QED
      BY <3>1, <3>4
  <2>10. SlabAt' = SlabAt
    BY <2>8, <2>9 DEF SlabAt, Links
  <2>11. \A j : QueueAt(j)' = QueueAt(j)
    BY <2>2, <2>10 DEF QueueAt
  <2> QED
    BY <1>1, <1>2, <2>2, <2>7, <2>8, <2>9, <2>10, <2>11 DEF Flow
<1>5. CASE ReadEnd
  <2>1. rOff >= size[rCur] /\ rCur \in Files /\ size[rCur] \in Nat /\ rOff \in Nat
        /\ rCur # NoFile /\ rCur' = NoFile /\ UNCHANGED <<slab, queue, rIdx, rOff>>
    BY <1>5 DEF ReadEnd, TypeOK, SameSizes, pipeVars
  <2>2. ReaderAt = FirstByte(have, size, rIdx) /\ ReaderAt' = FirstByte(have, size, rIdx)
    BY <1>1, <2>1 DEF ReaderAt
  <2> QED
    BY <1>1, <1>2, <2>1, <2>2, FlowStays
<1>6. CASE SendSlab
  <2>1. /\ slab # << >> /\ queue' = Append(queue, slab) /\ slab' = << >>
        /\ UNCHANGED <<rIdx, rCur, rOff>> /\ queue \in Seq(Content) /\ slab \in Content
    BY <1>6 DEF SendSlab, TypeOK
  <2>2. ReaderAt' = ReaderAt
    BY <1>1, <2>1 DEF ReaderAt
  <2>3. SlabAt' = ReaderAt /\ SlabAt = slab[1]
    BY <2>1, <2>2 DEF SlabAt
  <2>4. /\ Len(queue) \in Nat /\ Len(queue') = Len(queue) + 1
        /\ queue'[Len(queue) + 1] = slab /\ \A j \in 1..Len(queue) : queue'[j] = queue[j]
    BY <2>1
  <2>5. \A j \in 1..(Len(queue) + 1) : QueueAt(j)' = QueueAt(j)
    BY <2>3, <2>4 DEF QueueAt
  <2>7. ASSUME NEW j \in 1..Len(queue')
        PROVE  queue'[j] # << >> /\ Links(have, size, queue'[j], queue'[j][1], QueueAt(j + 1)')
    <3>1. CASE j = Len(queue) + 1
      <4>1. (j + 1) = Len(queue) + 2 /\ queue'[j] = slab
        BY <2>4, <3>1
      <4>2. QueueAt(j + 1)' = ReaderAt
        BY <2>3, <2>4, <4>1 DEF QueueAt
      <4> QED
        BY <2>1, <2>3, <4>1, <4>2 DEF Flow
    <3>2. CASE j # Len(queue) + 1
      <4>1. j \in 1..Len(queue) /\ j + 1 \in 1..(Len(queue) + 1)
        BY <2>4, <3>2
      <4>2. QueueAt(j + 1)' = QueueAt(j + 1) /\ queue'[j] = queue[j]
        BY <2>4, <2>5, <4>1
      <4> QED
        BY <4>1, <4>2 DEF Flow
    <3> QED
      BY <3>1, <3>2
  <2>8. QueueAt(1)' = QueueAt(1)
    BY <2>4, <2>5
  <2>9. Links(have, size, slab', SlabAt', ReaderAt')
    BY <2>1, <2>2, <2>3 DEF Links
  <2> QED
    BY <1>1, <1>2, <2>7, <2>8, <2>9 DEF Flow
<1>7. CASE SendEof
  <2>1. UNCHANGED <<rIdx, rCur, rOff, slab, queue>>
    BY <1>7 DEF SendEof, readerVars
  <2>2. ReaderAt' = ReaderAt
    BY <1>1, <2>1 DEF ReaderAt
  <2> QED
    BY <1>1, <1>2, <2>1, <2>2, FlowStays
<1> QED
  BY <1>3, <1>4, <1>5, <1>6, <1>7 DEF Sender

LEMMA WriterFlow ==
  ASSUME TypeOK, Lands, SameSizes, Flow, TakeChunk \/ OpenNext \/ DropSurplus \/ WriteTake \/ FinishFile
  PROVE  Flow'
<1>1. UNCHANGED <<have, size, slab, rIdx, rCur, rOff>>
  BY DEF TakeChunk, OpenNext, DropSurplus, WriteTake, FinishFile, WriterOnly, sessionVars, readerVars
<1>2. ReaderAt' = ReaderAt
  BY <1>1 DEF ReaderAt
<1>3. SlabAt' = SlabAt
  BY <1>1, <1>2 DEF SlabAt
<1>4. CASE TakeChunk
  <2>1. /\ data = << >> /\ queue # << >> /\ data' = Head(queue) /\ queue' = Tail(queue)
        /\ UNCHANGED <<idx, cur, left>> /\ queue \in Seq(Content)
    BY <1>4 DEF TakeChunk, TypeOK
  <2>2. /\ data' = queue[1] /\ Len(queue) \in Nat /\ Len(queue) > 0 /\ Len(queue') = Len(queue) - 1
        /\ \A j \in 1..(Len(queue) - 1) : queue'[j] = queue[j + 1]
    BY <2>1
  <2>3. WriterAt' = WriterAt
    BY <1>1, <2>1 DEF WriterAt
  <2>4. ASSUME NEW j \in Nat \ {0} PROVE QueueAt(j)' = QueueAt(j + 1)
    <3>1. CASE j <= Len(queue) - 1
      <4>1. j \in 1..(Len(queue) - 1) /\ j + 1 <= Len(queue) /\ j <= Len(queue')
        BY <2>2, <3>1
      <4> QED
        BY <2>2, <4>1 DEF QueueAt
    <3>2. CASE ~(j <= Len(queue) - 1)
      <4>1. ~(j + 1 <= Len(queue)) /\ ~(j <= Len(queue'))
        BY <2>2, <3>2
      <4> QED
        BY <1>3, <4>1 DEF QueueAt
    <3> QED
      BY <3>1, <3>2
  <2>5. WriterAt = queue[1][1]
    BY <2>1, <2>2 DEF Flow, Links, QueueAt
  <2>6. Links(have, size, data', WriterAt', QueueAt(1)')
    <3>1. QueueAt(1)' = QueueAt(2) /\ 1 \in 1..Len(queue)
      BY <2>2, <2>4
    <3>2. Links(have, size, queue[1], queue[1][1], QueueAt(2))
      BY <3>1 DEF Flow
    <3> QED
      BY <2>2, <2>3, <2>5, <3>1, <3>2
  <2>7. ASSUME NEW j \in 1..Len(queue')
        PROVE  queue'[j] # << >> /\ Links(have, size, queue'[j], queue'[j][1], QueueAt(j + 1)')
    <3>1. j \in 1..(Len(queue) - 1) /\ j + 1 \in 1..Len(queue) /\ j + 1 \in Nat \ {0}
      BY <2>2
    <3>2. queue'[j] = queue[j + 1] /\ QueueAt(j + 1)' = QueueAt((j + 1) + 1)
      BY <2>2, <2>4, <3>1
    <3> QED
      BY <3>1, <3>2 DEF Flow
  <2> QED
    BY <1>1, <1>2, <1>3, <2>6, <2>7 DEF Flow
<1>5. CASE OpenNext
  <2>1. PICK i \in From(idx) : Opens(i)
    BY <1>5 DEF OpenNext
  <2>2. /\ IsNext(i, idx) /\ i \in Files /\ i # NoFile /\ cur' = i /\ left' = size[i] - have[i]
        /\ have[i] \in Nat /\ size[i] \in Nat /\ left' > 0
    BY <2>1, NextFile DEF Opens, TypeOK, Files, NoFile
  <2>3. WriterAt = <<i, have[i] + 1>>
    BY <1>5, <2>2, OpensNext DEF WriterAt, OpenNext
  <2>4. size[i] - left' + 1 = have[i] + 1
    BY <2>2
  <2>5. WriterAt' = <<i, have[i] + 1>>
    BY <1>1, <2>2, <2>4 DEF WriterAt
  <2>6. UNCHANGED <<data, queue>>
    BY <1>5 DEF OpenNext
  <2> QED
    BY <1>1, <1>2, <2>3, <2>5, <2>6, FlowStays
<1>6. CASE DropSurplus
  <2>1. data # << >> /\ cur = NoFile /\ From(idx) = {} /\ data \in Content
    BY <1>6 DEF DropSurplus, TypeOK
  <2>2. WriterAt = <<NFiles + 1, 1>>
    <3>1. \A i \in Files : ~NextOf(have, size, i, idx)
      BY <2>1 DEF From, NextOf
    <3> QED
      BY <2>1, <3>1, NoFirstByte DEF WriterAt
  <2>3. Chained(have, size, data) /\ data[1] = <<NFiles + 1, 1>> /\ 1 \in 1..Len(data)
    BY <2>1, <2>2 DEF Flow, Links, Content
  <2>4. NFiles + 1 \in Files
    BY <2>3 DEF Chained, InStream
  <2> QED
    BY <2>4, ResumeAssumption DEF Files
<1>7. CASE WriteTake
  <2> DEFINE n == Shorter(left, Len(data))
             from == size[cur] - left
  <2>1. /\ data # << >> /\ cur # NoFile /\ left > 0 /\ left' = left - n /\ data' = Rest(data, n)
        /\ UNCHANGED <<queue, idx, cur>> /\ Opened
    BY <1>7 DEF WriteTake, Lands
  <2>2. /\ cur \in Files /\ left \in Nat /\ size[cur] \in Nat /\ have[cur] \in Nat /\ data \in Content
        /\ Len(data) \in Nat /\ Len(data) > 0 /\ left <= size[cur] - have[cur]
        /\ have \in [Files -> Nat] /\ size \in [Files -> Nat] /\ idx = cur + 1
    <3>1. /\ cur \in Files /\ left \in Nat /\ data \in Content
          /\ have \in [Files -> Nat] /\ size \in [Files -> Nat]
      BY <2>1 DEF TypeOK
    <3>2. Len(data) \in Nat /\ Len(data) > 0
      BY <2>1, <3>1 DEF Content
    <3> QED
      BY <2>1, <3>1, <3>2 DEF Opened
  <2>3. n \in 1..Len(data) /\ n <= left
    BY <2>1, <2>2 DEF Shorter
  <2> HIDE DEF n
  <2>4. from \in Nat /\ have[cur] <= from /\ from + n <= size[cur] /\ n \in Nat
    BY <2>2, <2>3
  <2>5. WriterAt = <<cur, from + 1>>
    BY <2>1 DEF WriterAt
  <2>6. WriterAt' = After(have, size, <<cur, from + n>>)
    <3>1. CASE n < left
      <4>1. from + n < size[cur] /\ left' > 0 /\ size[cur] - left' + 1 = from + n + 1
        BY <2>1, <2>2, <2>3, <3>1
      <4> QED
        BY <1>1, <2>1, <4>1 DEF WriterAt, After
    <3>2. CASE n = left
      <4>1. ~(from + n < size[cur]) /\ ~(left' > 0)
        BY <2>1, <2>2, <2>3, <3>2
      <4> QED
        BY <1>1, <2>1, <2>2, <4>1 DEF WriterAt, After
    <3> QED
      BY <2>2, <2>3, <3>1, <3>2
  <2> HIDE DEF from
  <2>7. Links(have, size, data, <<cur, from + 1>>, QueueAt(1))
    BY <2>5 DEF Flow
  <2>8. Links(have, size, Rest(data, n), After(have, size, <<cur, from + n>>), QueueAt(1))
    BY <2>2, <2>3, <2>4, <2>7, LinksTake
  <2>9. \A j : QueueAt(j)' = QueueAt(j)
    BY <1>3, <2>1 DEF QueueAt
  <2> QED
    BY <1>1, <1>2, <1>3, <2>1, <2>6, <2>8, <2>9 DEF Flow
<1>8. CASE FinishFile
  <2>1. cur' = NoFile /\ left = 0 /\ UNCHANGED <<queue, data, idx, left>>
    BY <1>8 DEF FinishFile
  <2>2. WriterAt' = WriterAt
    BY <1>1, <2>1 DEF WriterAt
  <2> QED
    BY <1>1, <1>2, <2>1, <2>2, FlowStays
<1> QED
  BY <1>4, <1>5, <1>6, <1>7, <1>8

\* The bytes a step adds to the open file are the next of that file.
LEMMA WritesRight ==
  ASSUME Separate, Landing, SameSizes, DiskRight, Flow, Writing, cur # NoFile, left > 0,
         data # << >>, NEW n \in Nat, n <= left, n <= Len(data),
         fs' = [fs EXCEPT ![PartPath[cur]] = @ \o Prefix(data, n)]
  PROVE  IsRun(fs'[PartPath[cur]], cur, 0)
<1> DEFINE s == fs[PartPath[cur]]
           t == Prefix(data, n)
           from == size[cur] - left
<1>1. TypeOK /\ Opened
  BY DEF Landing, Lands
<1>2. /\ cur \in Files /\ left \in Nat /\ data \in Content
      /\ have \in [Files -> Nat] /\ size \in [Files -> Nat]
      /\ fs \in [Paths -> {Absent} \cup Content]
  BY <1>1 DEF TypeOK
<1>3. /\ Len(data) \in Nat /\ n \in 0..Len(data) /\ size[cur] \in Nat /\ have[cur] \in Nat
      /\ from \in Nat /\ from + n <= size[cur] /\ from <= size[cur] /\ PartPath[cur] \in Paths
  <2>1. Len(data) \in Nat /\ PartPath[cur] \in Paths
    BY <1>2, ResumeAssumption DEF Content
  <2>2. size[cur] \in Nat /\ have[cur] \in Nat /\ left <= size[cur] - have[cur]
    BY <1>1, <1>2 DEF Opened
  <2> QED
    BY <1>2, <2>1, <2>2
<1>4. s \in Content /\ Len(s) = from /\ IsRun(s, cur, 0)
  <2>1. s # Absent /\ Len(s) = from /\ s \in Content
    BY <1>1, <1>2, <1>3 DEF Opened
  <2>2. Len(s) <= Size[cur]
    BY <1>3, <2>1 DEF SameSizes
  <2> QED
    BY <1>2, <2>1, <2>2 DEF DiskRight, PartRight
<1>5. t \in Content /\ Len(t) = n
  BY <1>2, <1>3, PrefixFacts
<1>6. IsRun(t, cur, from)
  <2>1. CASE n = 0
    BY <1>5, <2>1 DEF IsRun
  <2>2. CASE n # 0
    <3>1. n \in 1..Len(data)
      BY <1>3, <2>2
    <3>2. Links(have, size, data, <<cur, from + 1>>, QueueAt(1))
      BY DEF Flow, WriterAt
    <3> HIDE DEF from
    <3> QED
      BY <1>2, <1>3, <3>1, <3>2, LinksTake
  <2> QED
    BY <2>1, <2>2
<1>7. fs'[PartPath[cur]] = s \o t
  BY <1>2, <1>3
<1> HIDE DEF s, t, from
<1>8. 0 + Len(s) = from /\ 0 \in Nat
  BY <1>3, <1>4
<1>9. IsRun(t, cur, 0 + Len(s))
  BY <1>6, <1>8
<1>10. IsRun(s \o t, cur, 0)
  BY <1>2, <1>4, <1>5, <1>8, <1>9, RunsJoin
<1> QED
  BY <1>7, <1>10

\* The open file as it is renamed.
LEMMA OpenIsRight ==
  ASSUME Landing, SameSizes, DiskRight, Writing, cur # NoFile
  PROVE  /\ cur \in Files /\ fs[PartPath[cur]] \in Content /\ fs[PartPath[cur]] # Absent
         /\ Len(fs[PartPath[cur]]) = Size[cur] - left /\ left \in Nat /\ Size[cur] \in Nat
         /\ IsRun(fs[PartPath[cur]], cur, 0)
<1>1. TypeOK /\ Opened
  BY DEF Landing, Lands
<1>2. /\ cur \in Files /\ left \in Nat /\ size[cur] \in Nat /\ PartPath[cur] \in Paths
      /\ fs \in [Paths -> {Absent} \cup Content]
  BY <1>1, ResumeAssumption DEF TypeOK
<1>3. /\ fs[PartPath[cur]] # Absent /\ Len(fs[PartPath[cur]]) = Size[cur] - left
      /\ fs[PartPath[cur]] \in Content /\ Size[cur] \in Nat
  BY <1>1, <1>2 DEF Opened, SameSizes
<1>4. Len(fs[PartPath[cur]]) <= Size[cur]
  BY <1>2, <1>3
<1> QED
  BY <1>2, <1>3, <1>4 DEF DiskRight, PartRight

\* How a step may change the disk.
OpensPart == \E i \in From(idx) : IsNext(i, idx) /\ idx' = i + 1 /\ have[i] = 0
                                 /\ fs' = [fs EXCEPT ![PartPath[i]] = << >>]
WritesPart == /\ cur # NoFile /\ left > 0 /\ data # << >>
              /\ \E n \in Nat : n <= left /\ n <= Len(data)
                                /\ fs' = [fs EXCEPT ![PartPath[cur]] = @ \o Prefix(data, n)]
ClosesPart == cur # NoFile /\ fs' = Renamed /\ (left = 0 \/ WriterEnd)

LEMMA DiskSteps ==
  ASSUME Landing, [Next]_vars
  PROVE  fs' = fs \/ (Writing /\ (OpensPart \/ WritesPart \/ ClosesPart))
<1>1. TypeOK
  BY DEF Landing
<1>2. left \in Nat /\ Len(data) \in Nat /\ have \in [Files -> Nat]
  <2>1. data \in Content
    BY <1>1 DEF TypeOK
  <2>2. Len(data) \in Nat
    BY <2>1 DEF Content
  <2> QED
    BY <1>1, <2>2 DEF TypeOK
<1>3. CASE OpenNext
  <2>1. PICK i \in From(idx) :
          Opens(i) /\ fs' = IF have[i] > 0 THEN fs ELSE [fs EXCEPT ![PartPath[i]] = << >>]
    BY <1>3 DEF OpenNext
  <2>2. IsNext(i, idx) /\ idx' = i + 1 /\ have[i] \in Nat /\ Writing
    BY <1>2, <1>3, <2>1 DEF Opens, From, OpenNext
  <2> QED
    BY <2>1, <2>2 DEF OpensPart
<1>4. CASE WriteTake
  <2>1. Shorter(left, Len(data)) \in Nat /\ Shorter(left, Len(data)) <= left
        /\ Shorter(left, Len(data)) <= Len(data)
    BY <1>2 DEF Shorter
  <2>2. WritesPart /\ Writing
    BY <1>4, <2>1 DEF WriteTake, WritesPart
  <2> QED
    BY <2>2
<1>5. CASE DiskError
  <2>1. CASE fs' # fs
    <3>1. PICK n \in 0..(Shorter(left, Len(data)) - 1) :
            fs' = [fs EXCEPT ![PartPath[cur]] = @ \o Prefix(data, n)]
      BY <1>5, <2>1 DEF DiskError
    <3>2. n \in Nat /\ n <= left /\ n <= Len(data)
      BY <1>2 DEF Shorter
    <3>3. WritesPart /\ Writing
      BY <1>5, <2>1, <3>1, <3>2 DEF DiskError, WritesPart
    <3> QED
      BY <3>3
  <2> QED
    BY <2>1
<1>6. CASE FinishFile
  BY <1>6 DEF FinishFile, ClosesPart
<1>7. CASE WriterEnd
  BY <1>7 DEF WriterEnd, ClosesPart
<1>8. CASE UNCHANGED fs
  BY <1>8
<1>9. OpenNext \/ WriteTake \/ DiskError \/ FinishFile \/ WriterEnd \/ UNCHANGED fs
  BY DEF Next, Sender, WriterThread, Start, ReadOpen, ReadSome, ReadEnd, SendSlab, SendEof,
         SenderOnly, TakeChunk, DropSurplus, End, IdleLimit, PeerLost, SourceChanges, Crash,
         Exhausted, vars
<1> QED
  BY <1>3, <1>4, <1>5, <1>6, <1>7, <1>8, <1>9

LEMMA DiskRightStays ==
  ASSUME Separate, Landing, SameSizes, DiskRight, Writing => Flow, [Next]_vars
  PROVE  DiskRight'
<1>1. TypeOK /\ fs \in [Paths -> {Absent} \cup Content]
  BY DEF Landing, TypeOK
<1>2. CASE fs' = fs
  BY <1>2 DEF DiskRight, PartRight, FinalRight
<1>3. CASE Writing /\ OpensPart
  <2>1. PICK i \in From(idx) : fs' = [fs EXCEPT ![PartPath[i]] = << >>]
    BY <1>3 DEF OpensPart
  <2>2. i \in Files /\ << >> \in {Absent} \cup Content
    BY DEF From, Content
  <2>3. /\ fs'[PartPath[i]] = << >>
        /\ \A j \in Files : j # i => fs'[PartPath[j]] = fs[PartPath[j]]
        /\ \A j \in Files : fs'[FinPath[j]] = fs[FinPath[j]]
    BY <1>1, <2>1, <2>2, PartWritten
  <2>4. PartRight(i)'
    BY <2>3 DEF PartRight, IsRun
  <2> QED
    BY <2>3, <2>4 DEF DiskRight, PartRight, FinalRight
<1>4. CASE Writing /\ WritesPart
  <2>1. PICK n \in Nat : n <= left /\ n <= Len(data)
                         /\ fs' = [fs EXCEPT ![PartPath[cur]] = @ \o Prefix(data, n)]
    BY <1>4 DEF WritesPart
  <2>2. cur # NoFile /\ left > 0 /\ data # << >> /\ Flow
    BY <1>4 DEF WritesPart
  <2>3. IsRun(fs'[PartPath[cur]], cur, 0)
    BY <1>4, <2>1, <2>2, WritesRight
  <2>4. /\ \A j \in Files : j # cur => fs'[PartPath[j]] = fs[PartPath[j]]
        /\ \A j \in Files : fs'[FinPath[j]] = fs[FinPath[j]]
    BY <1>4, <2>1, <2>2, Added
  <2> QED
    BY <2>3, <2>4 DEF DiskRight, PartRight, FinalRight
<1>5. CASE Writing /\ ClosesPart
  <2>1. cur # NoFile /\ fs' = Renamed
    BY <1>5 DEF ClosesPart
  <2>2. /\ cur \in Files
        /\ Len(fs[PartPath[cur]]) <= Size[cur] /\ IsRun(fs[PartPath[cur]], cur, 0)
    <3>1. /\ cur \in Files /\ Len(fs[PartPath[cur]]) = Size[cur] - left
          /\ left \in Nat /\ Size[cur] \in Nat /\ IsRun(fs[PartPath[cur]], cur, 0)
      BY <1>5, <2>1, OpenIsRight
    <3> QED
      BY <3>1
  <2>3. /\ fs'[PartPath[cur]] = Absent /\ fs'[FinPath[cur]] = fs[PartPath[cur]]
        /\ \A j \in Files : j # cur => /\ fs'[PartPath[j]] = fs[PartPath[j]]
                                      /\ fs'[FinPath[j]] = fs[FinPath[j]]
    BY <1>1, <2>1, <2>2, PartRenamed
  <2>4. ASSUME NEW i \in Files PROVE PartRight(i)' /\ FinalRight(i)'
    <3>1. CASE i = cur
      <4>1. fs'[PartPath[i]] = Absent
        BY <2>3, <3>1
      <4>2. IsRun(fs'[FinPath[i]], i, 0) /\ Len(fs'[FinPath[i]]) <= Size[i]
        BY <2>2, <2>3, <3>1
      <4> QED
        BY <4>1, <4>2 DEF PartRight, FinalRight
    <3>2. CASE i # cur
      BY <2>3, <3>2 DEF DiskRight, PartRight, FinalRight
    <3> QED
      BY <3>1, <3>2
  <2> QED
    BY <2>4 DEF DiskRight
<1> QED
  BY <1>2, <1>3, <1>4, <1>5, DiskSteps

LEMMA ReaderRightStays ==
  ASSUME TypeOK, Reads, SameSizes, ReaderRight, [Next]_vars
  PROVE  ReaderRight'
<1>1. CASE Start
  BY <1>1 DEF Start, ReaderRight
<1>2. CASE Sender
  <2>1. UNCHANGED <<have, size>> /\ pumpEnd = "none"
    BY <1>2 DEF Sender, SenderOnly, ReadOpen, ReadSome, ReadEnd, SendSlab, SendEof, sessionVars,
                Filling, Sending
  <2>2. CASE ReadOpen
    <3>1. PICK i \in From(rIdx) : IsNext(i, rIdx) /\ rCur' = i /\ rOff' = have[i]
      BY <2>2 DEF ReadOpen
    <3>2. have[i] <= Size[i]
      BY <3>1, NextFile DEF SameSizes, TypeOK
    <3> QED
      BY <2>1, <2>2, <3>1, <3>2 DEF ReadOpen, pipeVars, ReaderRight
  <2>3. CASE ReadSome
    <3>1. rOff' <= Size[rCur]
      BY <2>3, Reading DEF SameSizes
    <3> QED
      BY <2>1, <2>3, <3>1 DEF ReadSome, pipeVars, ReaderRight
  <2>4. CASE ReadEnd
    <3>1. /\ rCur \in Files /\ rOff >= Size[rCur] /\ rOff \in Nat /\ Size[rCur] \in Nat
          /\ theirs' = [theirs EXCEPT ![rCur] = rCrc] /\ rCur' = NoFile /\ pumpEnd' = pumpEnd
          /\ rCur # NoFile
      BY <2>4 DEF ReadEnd, TypeOK, SameSizes, pipeVars
    <3>2. Len(rCrc) = Size[rCur] - have[rCur]
      BY <3>1 DEF Reads, ReaderRight
    <3>3. ASSUME NEW i \in Files
          PROVE  theirs'[i] = << >> \/ Len(theirs'[i]) = Size[i] - have'[i]
      BY <2>1, <3>1, <3>2 DEF ReaderRight, TypeOK
    <3> QED
      BY <2>1, <3>1, <3>3 DEF ReaderRight
  <2>5. CASE SendSlab
    BY <2>1, <2>5 DEF SendSlab, ReaderRight
  <2>6. CASE SendEof
    <3>1. slab' = << >> /\ AllRead' /\ UNCHANGED <<theirs, rCur, rOff>>
      BY <2>1, <2>6 DEF SendEof, readerVars, AllRead, From
    <3> QED
      BY <2>1, <3>1 DEF ReaderRight
  <2> QED
    BY <1>2, <2>2, <2>3, <2>4, <2>5, <2>6 DEF Sender
<1>3. CASE ~Start /\ ~Sender
  <2>1. UNCHANGED <<have, size, readerVars>> /\ (pumpEnd' = pumpEnd \/ pumpEnd' = "lost")
    BY <1>3 DEF Next, WriterThread, TakeChunk, OpenNext, DropSurplus, WriteTake, FinishFile,
       WriterEnd, DiskError, WriterOnly, End, IdleLimit, PeerLost, SourceChanges, Crash,
       Exhausted, vars, sessionVars, pipeVars
  <2> QED
    BY <2>1 DEF ReaderRight, readerVars, AllRead, From
<1> QED
  BY <1>1, <1>2, <1>3

\* Steps of a session that has started, while its writer runs.
LEMMA WhileWriting ==
  ASSUME [Next]_vars, ~Start, Writing'
  PROVE  Writing /\ UNCHANGED <<have, size>> /\ (idx' = idx \/ OpenNext)
BY DEF Next, Sender, SenderOnly, ReadOpen, ReadSome, ReadEnd, SendSlab, SendEof, WriterThread,
       TakeChunk, OpenNext, DropSurplus, WriteTake, FinishFile, WriterEnd, DiskError, WriterOnly,
       End, IdleLimit, PeerLost, SourceChanges, Crash, Exhausted, vars, sessionVars, splitterVars,
       Writing

\* What a step does not touch, it leaves for the next scan as it was.
LEMMA PointStays ==
  ASSUME Separate, Landing, NEW j \in Files, len' = len,
         \/ fs' = fs
         \/ \E i \in From(idx) : i # j /\ fs' = [fs EXCEPT ![PartPath[i]] = << >>]
         \/ cur # j /\ Writing /\ (WritesPart \/ ClosesPart)
  PROVE  ResumePoint(j)' = ResumePoint(j)
<1>1. TypeOK /\ fs \in [Paths -> {Absent} \cup Content]
  BY DEF Landing, TypeOK
<1>2. CASE fs' = fs
  BY <1>2 DEF ResumePoint
<1>3. CASE \E i \in From(idx) : i # j /\ fs' = [fs EXCEPT ![PartPath[i]] = << >>]
  <2>1. PICK i \in From(idx) : i # j /\ fs' = [fs EXCEPT ![PartPath[i]] = << >>]
    BY <1>3
  <2>2. i \in Files /\ << >> \in {Absent} \cup Content
    BY DEF From, Content
  <2>3. fs'[PartPath[j]] = fs[PartPath[j]] /\ fs'[FinPath[j]] = fs[FinPath[j]]
    BY <1>1, <2>1, <2>2, PartWritten
  <2> QED
    BY <2>3 DEF ResumePoint
<1>4. CASE cur # j /\ Writing /\ WritesPart
  <2>1. PICK n \in Nat : n <= left /\ n <= Len(data)
                         /\ fs' = [fs EXCEPT ![PartPath[cur]] = @ \o Prefix(data, n)]
    BY <1>4 DEF WritesPart
  <2>2. cur # NoFile /\ left > 0 /\ data # << >>
    BY <1>4 DEF WritesPart
  <2>3. fs'[PartPath[j]] = fs[PartPath[j]] /\ fs'[FinPath[j]] = fs[FinPath[j]]
    BY <1>4, <2>1, <2>2, Added
  <2> QED
    BY <2>3 DEF ResumePoint
<1>5. CASE cur # j /\ Writing /\ ClosesPart
  <2>1. cur \in Files /\ fs' = Renamed
    BY <1>1, <1>5 DEF ClosesPart, TypeOK
  <2>2. fs'[PartPath[j]] = fs[PartPath[j]] /\ fs'[FinPath[j]] = fs[FinPath[j]]
    BY <1>1, <1>5, <2>1, PartRenamed
  <2> QED
    BY <2>2 DEF ResumePoint
<1> QED
  BY <1>2, <1>3, <1>4, <1>5

LEMMA FreshStays ==
  ASSUME Separate, Landing, SameSizes, Writing => Fresh, [Next]_vars, len' = len
  PROVE  Writing' => Fresh'
<1>1. TypeOK /\ idx \in Nat
  BY DEF Landing, TypeOK
<1>2. CASE Start
  <2>1. /\ have' = [i \in Files |-> ResumePoint(i)] /\ fs' = fs
    BY <1>2 DEF Start, scan_existing
  <2>2. ASSUME NEW j \in Files PROVE ResumePoint(j)' <= have'[j]
    <3>1. ResumePoint(j)' = ResumePoint(j) /\ have'[j] = ResumePoint(j)
      BY <2>1 DEF ResumePoint
    <3>2. ResumePoint(j) \in Int
      <4>1. FinPath[j] \in Paths /\ PartPath[j] \in Paths
        BY ResumeAssumption
      <4>2. \A q \in Paths : fs[q] # Absent => Len(fs[q]) \in Nat
        BY <1>1 DEF TypeOK, Content
      <4>3. len[j] \in Nat
        BY <1>1 DEF TypeOK
      <4> QED
        BY <4>1, <4>2, <4>3 DEF ResumePoint
    <3> QED
      BY <3>1, <3>2
  <2> QED
    BY <2>2 DEF Fresh, From
<1>3. CASE ~Start /\ Writing'
  <2>1. Writing /\ UNCHANGED <<have, size>> /\ (idx' = idx \/ OpenNext) /\ Fresh
    BY <1>3, WhileWriting
  <2>2. ASSUME NEW j \in From(idx)' PROVE ResumePoint(j)' <= have'[j]
    <3>1. j \in Files /\ j >= idx' /\ have[j] < size[j]
      BY <2>1 DEF From
    <3>2. CASE OpenNext
      <4>1. PICK i \in From(idx) :
              Opens(i) /\ fs' = IF have[i] > 0 THEN fs ELSE [fs EXCEPT ![PartPath[i]] = << >>]
        BY <3>2 DEF OpenNext
      <4>2. i \in Files /\ i >= idx /\ idx' = i + 1
        BY <4>1 DEF Opens, From
      <4>3. i # j /\ j >= idx
        BY <1>1, <3>1, <4>2 DEF Files
      <4>4. ResumePoint(j)' = ResumePoint(j)
        BY <3>1, <4>1, <4>3, PointStays
      <4> QED
        BY <2>1, <3>1, <4>3, <4>4 DEF Fresh, From
    <3>3. CASE ~OpenNext /\ idx' = idx
      <4>1. fs' = fs \/ OpensPart \/ WritesPart \/ ClosesPart
        BY DiskSteps
      <4>2. ~OpensPart
        BY <1>1, <3>3 DEF OpensPart, From, Files
      <4>3. cur # j
        BY <1>1, <2>1, <3>1, <3>3 DEF Landing, Lands, Opened, Files, NoFile, TypeOK
      <4>4. ResumePoint(j)' = ResumePoint(j)
        BY <2>1, <3>1, <4>1, <4>2, <4>3, PointStays
      <4> QED
        BY <2>1, <3>1, <3>3, <4>4 DEF Fresh, From
    <3> QED
      BY <2>1, <3>2, <3>3
  <2> QED
    BY <2>2 DEF Fresh
<1> QED
  BY <1>2, <1>3

\* No step makes the sources unchanged again, and none changes them while they
\* count as unchanged.
LEMMA StillUnchanged ==
  ASSUME [Next]_vars, Unchanged'
  PROVE  Unchanged /\ len' = len
BY DEF Next, Sender, SenderOnly, ReadOpen, ReadSome, ReadEnd, SendSlab, SendEof, WriterThread,
       TakeChunk, OpenNext, DropSurplus, WriteTake, FinishFile, WriterEnd, DiskError, WriterOnly,
       Start, End, IdleLimit, PeerLost, SourceChanges, Crash, Exhausted, vars, sessionVars,
       splitterVars, faultVars, Interrupted, Unchanged

LEMMA InitUndisturbed == Separate /\ Init => Undisturbed
<1> SUFFICES ASSUME Separate, Init PROVE Undisturbed
  OBVIOUS
<1>1. SameSizes /\ ReaderRight /\ ~Writing
  BY DEF Init, SameSizes, ReaderRight, Writing
<1>2. ASSUME NEW i \in Files PROVE PartRight(i) /\ FinalRight(i)
  <2>1. PartPath[i] \in Paths /\ FinPath[i] \in Paths /\ Size[i] \in Nat
    BY ResumeAssumption
  <2>2. \A p \in Paths :
          \/ fs[p] = Absent
          \/ \E j \in Files : p = PartPath[j] /\ fs[p] \in Leftover(j)
          \/ \E j \in Files : p = FinPath[j] /\ Len(fs[p]) = Size[j] + 1
                              /\ fs[p] \in Leftover(j)
    BY DEF Init
  <2>3. fs[PartPath[i]] = Absent \/ fs[PartPath[i]] \in Leftover(i)
    BY <2>1, <2>2 DEF Separate
  <2>4. fs[FinPath[i]] = Absent
        \/ (fs[FinPath[i]] \in Leftover(i) /\ Len(fs[FinPath[i]]) = Size[i] + 1)
    BY <2>1, <2>2 DEF Separate
  <2>5. PartRight(i)
    <3>1. CASE fs[PartPath[i]] = Absent
      BY <3>1 DEF PartRight
    <3>2. CASE fs[PartPath[i]] \in Leftover(i) /\ fs[PartPath[i]] # Absent
      BY <2>1, <3>2, LeftoverIsContent DEF PartRight, Init
    <3> QED
      BY <2>3, <3>1, <3>2
  <2>6. FinalRight(i)
    <3>1. CASE fs[FinPath[i]] = Absent
      BY <3>1 DEF FinalRight
    <3>2. CASE /\ fs[FinPath[i]] \in Leftover(i) /\ fs[FinPath[i]] # Absent
               /\ Len(fs[FinPath[i]]) = Size[i] + 1
      <4>1. \/ Len(fs[FinPath[i]]) <= Size[i]
            \/ Len(fs[FinPath[i]]) = Size[i] + 1 /\ Foreign(fs[FinPath[i]])
        BY <3>2, LeftoverIsContent DEF Init
      <4> QED
        BY <2>1, <3>2, <4>1 DEF FinalRight
    <3> QED
      BY <2>4, <3>1, <3>2
  <2> QED
    BY <2>5, <2>6
<1> QED
  BY <1>1, <1>2 DEF Undisturbed, DiskRight

LEMMA StartFlow ==
  ASSUME Start
  PROVE  Flow'
<1>1. /\ cur' = NoFile /\ idx' = 1 /\ rCur' = NoFile /\ rIdx' = 1
      /\ slab' = << >> /\ queue' = << >> /\ data' = << >>
  BY DEF Start
<1>2. WriterAt' = FirstByte(have', size', 1) /\ ReaderAt' = FirstByte(have', size', 1)
  BY <1>1 DEF WriterAt, ReaderAt
<1>3. SlabAt' = ReaderAt' /\ QueueAt(1)' = ReaderAt'
  BY <1>1 DEF SlabAt, QueueAt
<1> QED
  BY <1>1, <1>2, <1>3 DEF Flow, Links

LEMMA NextUndisturbed ==
  ASSUME Separate, Landing, Reads, Unchanged => Undisturbed, [Next]_vars
  PROVE  Unchanged' => Undisturbed'
<1> SUFFICES ASSUME Unchanged' PROVE Undisturbed'
  OBVIOUS
<1>1. Unchanged /\ len' = len
  BY StillUnchanged
<1>2. TypeOK /\ Lands /\ SameSizes /\ DiskRight /\ ReaderRight /\ (Writing => Flow /\ Fresh)
  BY <1>1 DEF Landing, Undisturbed
<1>3. DiskRight' /\ ReaderRight' /\ (Writing' => Fresh')
  BY <1>1, <1>2, DiskRightStays, ReaderRightStays, FreshStays
<1>4. SameSizes'
  <2>1. size' = len \/ size' = size
    BY DEF Next, Sender, SenderOnly, ReadOpen, ReadSome, ReadEnd, SendSlab, SendEof, WriterThread,
       TakeChunk, OpenNext, DropSurplus, WriteTake, FinishFile, WriterEnd, DiskError, WriterOnly,
       Start, End, IdleLimit, PeerLost, SourceChanges, Crash, Exhausted, vars, sessionVars
  <2> QED
    BY <1>1, <1>2, <2>1 DEF SameSizes
<1>5. ASSUME Writing' PROVE Flow'
  <2>1. CASE Start
    BY <2>1, StartFlow
  <2>2. CASE ~Start
    <3>1. Flow
      BY <1>2, <1>5, <2>2, WhileWriting
    <3>2. CASE Sender
      BY <1>2, <3>1, <3>2, SenderFlow
    <3>3. CASE TakeChunk \/ OpenNext \/ DropSurplus \/ WriteTake \/ FinishFile
      BY <1>2, <3>1, <3>3, WriterFlow
    <3>4. CASE WriterEnd \/ DiskError
      BY <1>5, <3>4 DEF WriterEnd, DiskError, Writing
    <3>5. CASE IdleLimit \/ PeerLost \/ SourceChanges \/ Crash \/ End \/ UNCHANGED vars
      <4>1. UNCHANGED <<have, size, readerVars, queue, splitterVars>>
        BY <3>5 DEF IdleLimit, PeerLost, SourceChanges, Crash, End, vars, sessionVars, pipeVars
      <4>2. WriterAt' = WriterAt /\ ReaderAt' = ReaderAt
        BY <4>1 DEF WriterAt, ReaderAt, readerVars, splitterVars
      <4>3. UNCHANGED <<have, size, data, queue, slab>>
        BY <4>1 DEF readerVars, splitterVars
      <4> QED
        BY <3>1, <4>2, <4>3, FlowStays
    <3> QED
      BY <2>2, <3>2, <3>3, <3>4, <3>5 DEF Next, WriterThread, Exhausted
  <2> QED
    BY <2>1, <2>2
<1> QED
  BY <1>3, <1>4, <1>5 DEF Undisturbed

-----------------------------------------------------------------------------
(* Sessions that end early only because of the receiver.                     *)

FinalWhole(i) ==
  LET c == fs[FinPath[i]] IN
    c = Absent \/ Foreign(c) \/ (IsRun(c, i, 0) /\ Len(c) = Size[i])
Kept == (pumpEnd = "lost" => writer = "err") /\ \A i \in Files : FinalWhole(i)

\* At the end of the stream, with nothing left to write, no file is open that needs
\* more bytes.
LEMMA NothingOpenAtEof ==
  ASSUME TypeOK, ReaderRight, Flow, pumpEnd = "eof", queue = << >>, data = << >>
  PROVE  ~(cur # NoFile /\ left > 0)
<1>1. slab = << >> /\ rCur = NoFile /\ From(rIdx) = {}
  BY DEF ReaderRight, AllRead
<1>2. ReaderAt = <<NFiles + 1, 1>>
  <2>1. \A i \in Files : ~NextOf(have, size, i, rIdx)
    BY <1>1 DEF From, NextOf
  <2> QED
    BY <1>1, <2>1, NoFirstByte DEF ReaderAt
<1>3. WriterAt = <<NFiles + 1, 1>>
  BY <1>1, <1>2 DEF Flow, Links, QueueAt, SlabAt
<1>4. cur # NFiles + 1
  BY ResumeAssumption DEF TypeOK, Files, NoFile
<1> QED
  BY <1>3, <1>4 DEF WriterAt

LEMMA HappenedGrows ==
  ASSUME [Next]_vars
  PROVE  happened \subseteq happened'
BY DEF Next, Sender, SenderOnly, ReadOpen, ReadSome, ReadEnd, SendSlab, SendEof, WriterThread,
       TakeChunk, OpenNext, DropSurplus, WriteTake, FinishFile, WriterEnd, DiskError, WriterOnly,
       Start, End, IdleLimit, PeerLost, SourceChanges, Crash, Exhausted, vars, faultVars, Interrupted

LEMMA StillNothingLost ==
  ASSUME [Next]_vars, NothingLost'
  PROVE  NothingLost /\ ~PeerLost
<1>1. NothingLost
  BY HappenedGrows DEF NothingLost, Unchanged
<1>2. ~PeerLost
  BY DEF PeerLost, Interrupted, NothingLost
<1> QED
  BY <1>1, <1>2

\* So a file is renamed only when it has all its bytes.
LEMMA ClosesWhole ==
  ASSUME Landing, Undisturbed, Kept, [Next]_vars, Writing, ClosesPart
  PROVE  /\ cur \in Files /\ fs' = Renamed /\ left = 0
         /\ IsRun(fs[PartPath[cur]], cur, 0) /\ Len(fs[PartPath[cur]]) = Size[cur]
<1>1. TypeOK
  BY DEF Landing
<1>2. left = 0
  <2>1. CASE WriterEnd
    <3>1. pumpEnd # "none" /\ queue = << >> /\ data = << >> /\ writer = "run"
      BY <2>1 DEF WriterEnd, Writing
    <3>2. pumpEnd = "eof"
      BY <1>1, <3>1 DEF Kept, TypeOK
    <3>3. ~(left > 0)
      BY <1>1, <3>1, <3>2, NothingOpenAtEof DEF Undisturbed, ClosesPart
    <3> QED
      BY <1>1, <3>3 DEF TypeOK
  <2> QED
    BY <2>1 DEF ClosesPart
<1>3. /\ cur \in Files /\ Len(fs[PartPath[cur]]) = Size[cur] - left /\ Size[cur] \in Nat
      /\ IsRun(fs[PartPath[cur]], cur, 0) /\ fs' = Renamed
  BY OpenIsRight DEF Undisturbed, ClosesPart
<1> QED
  BY <1>2, <1>3

LEMMA NextKept ==
  ASSUME Separate, Landing, Unchanged => Undisturbed, NothingLost => Kept, [Next]_vars
  PROVE  NothingLost' => Kept'
<1> SUFFICES ASSUME NothingLost' PROVE Kept'
  OBVIOUS
<1>1. NothingLost /\ Kept /\ ~PeerLost /\ Undisturbed
  BY StillNothingLost DEF NothingLost
<1>2. TypeOK /\ fs \in [Paths -> {Absent} \cup Content]
  BY DEF Landing, TypeOK
<1>3. pumpEnd' = "lost" => writer' = "err"
  BY <1>1 DEF Kept, Next, Sender, SenderOnly, ReadOpen, ReadSome, ReadEnd, SendSlab, SendEof,
     WriterThread, TakeChunk, OpenNext, DropSurplus, WriteTake, FinishFile, WriterEnd, DiskError,
     WriterOnly, Writing, Start, End, IdleLimit, SourceChanges, Crash, Exhausted, vars,
     pipeVars, splitterVars
<1>4. ASSUME NEW j \in Files PROVE FinalWhole(j)'
  <2>1. FinalWhole(j)
    BY <1>1 DEF Kept
  <2>2. CASE fs' = fs
    BY <2>1, <2>2 DEF FinalWhole
  <2>3. CASE Writing /\ OpensPart
    <3>1. PICK i \in From(idx) : fs' = [fs EXCEPT ![PartPath[i]] = << >>]
      BY <2>3 DEF OpensPart
    <3>2. i \in Files /\ << >> \in {Absent} \cup Content
      BY DEF From, Content
    <3>3. fs'[FinPath[j]] = fs[FinPath[j]]
      BY <1>2, <3>1, <3>2, PartWritten
    <3> QED
      BY <2>1, <3>3 DEF FinalWhole
  <2>4. CASE Writing /\ WritesPart
    <3>1. PICK n \in Nat : n <= left /\ n <= Len(data)
                           /\ fs' = [fs EXCEPT ![PartPath[cur]] = @ \o Prefix(data, n)]
      BY <2>4 DEF WritesPart
    <3>2. cur # NoFile /\ left > 0 /\ data # << >>
      BY <2>4 DEF WritesPart
    <3>3. fs'[FinPath[j]] = fs[FinPath[j]]
      BY <2>4, <3>1, <3>2, Added
    <3> QED
      BY <2>1, <3>3 DEF FinalWhole
  <2>5. CASE Writing /\ ClosesPart
    <3>1. /\ cur \in Files /\ fs' = Renamed /\ IsRun(fs[PartPath[cur]], cur, 0)
          /\ Len(fs[PartPath[cur]]) = Size[cur]
      BY <1>1, <2>5, ClosesWhole
    <3>2. /\ fs'[FinPath[cur]] = fs[PartPath[cur]]
          /\ j # cur => fs'[FinPath[j]] = fs[FinPath[j]]
      BY <1>2, <3>1, PartRenamed
    <3>3. CASE j = cur
      <4>1. IsRun(fs'[FinPath[j]], j, 0) /\ Len(fs'[FinPath[j]]) = Size[j]
        BY <3>1, <3>2, <3>3
      <4> QED
        BY <4>1 DEF FinalWhole
    <3>4. CASE j # cur
      BY <2>1, <3>2, <3>4 DEF FinalWhole
    <3> QED
      BY <3>3, <3>4
  <2> QED
    BY <2>2, <2>3, <2>4, <2>5, DiskSteps
<1> QED
  BY <1>3, <1>4 DEF Kept

LEMMA InitKept == Separate /\ Init => Kept
<1> SUFFICES ASSUME Separate, Init PROVE Kept
  OBVIOUS
<1>1. Undisturbed
  BY InitUndisturbed
<1>2. ASSUME NEW i \in Files PROVE FinalWhole(i)
  <2>1. FinPath[i] \in Paths
    BY ResumeAssumption
  <2>2. fs[FinPath[i]] = Absent \/ Len(fs[FinPath[i]]) = Size[i] + 1
    BY <2>1 DEF Init, Separate
  <2>3. Size[i] \in Nat
    BY ResumeAssumption
  <2> QED
    BY <1>1, <2>2, <2>3 DEF Undisturbed, DiskRight, FinalRight, FinalWhole
<1> QED
  BY <1>2 DEF Init, Kept

-----------------------------------------------------------------------------
(* The theorems.                                                            *)

ResumeInv ==
  /\ Landing /\ Reads
  /\ Unchanged => Undisturbed
  /\ NothingLost => Kept

\* The inductive invariant of every sequence of sessions.
THEOREM ResumeInvHolds == Separate => (Spec => []ResumeInv)
<1> SUFFICES ASSUME Separate PROVE Spec => []ResumeInv
  OBVIOUS
<1>1. Init => ResumeInv
  <2> SUFFICES ASSUME Init PROVE ResumeInv
    OBVIOUS
  <2>1. Reads
    BY DEF Init, Reads, IsRun
  <2> QED
    BY <2>1, InitLanding, InitUndisturbed, InitKept DEF ResumeInv
<1>2. ResumeInv /\ [Next]_vars => ResumeInv'
  <2> SUFFICES ASSUME ResumeInv, [Next]_vars PROVE ResumeInv'
    OBVIOUS
  <2>1. Landing /\ Reads /\ (Unchanged => Undisturbed) /\ (NothingLost => Kept) /\ TypeOK
    BY DEF ResumeInv, Landing
  <2>2. Landing' /\ Reads'
    BY <2>1, NextLanding, NextReads
  <2>3. Unchanged' => Undisturbed'
    BY <2>1, NextUndisturbed
  <2>4. NothingLost' => Kept'
    BY <2>1, NextKept
  <2> QED
    BY <2>2, <2>3, <2>4 DEF ResumeInv
<1> QED
  BY <1>1, <1>2, PTL DEF Spec

\* A run of a file's bytes as long as the file is the file.
LEMMA RunIsSource ==
  ASSUME NEW i \in Files, NEW c \in Content, IsRun(c, i, 0), len[i] \in Nat, Len(c) = len[i]
  PROVE  c = Source(i)
<1>1. /\ Source(i) \in Content /\ Len(Source(i)) = len[i]
      /\ \A k \in 1..len[i] : Source(i)[k] = <<i, k>>
  BY SourceIsContent
<1>2. ASSUME NEW k \in 1..Len(c) PROVE c[k] = Source(i)[k]
  <2>1. c[k] = <<i, 0 + k>> /\ 0 + k = k
    BY DEF IsRun
  <2> QED
    BY <1>1, <2>1
<1> QED
  BY <1>1, <1>2, SameBytes

\* A final name holds a complete file or what was there before the first session, as
\* long as the sources stay as they are and no sender disappears, whenever the
\* receiver is killed or its disk fails.
THEOREM FinalIsCompleteAlways == Separate => (Spec => []FinalIsCompleteUnlessLost)
<1> SUFFICES ASSUME Separate PROVE Spec => []FinalIsCompleteUnlessLost
  OBVIOUS
<1>1. ResumeInv => FinalIsCompleteUnlessLost
  <2> SUFFICES ASSUME ResumeInv, NothingLost, NEW i \in Files
               PROVE  \/ fs[FinPath[i]] = Absent \/ fs[FinPath[i]] = Source(i)
                      \/ Foreign(fs[FinPath[i]])
    BY DEF FinalIsCompleteUnlessLost, FinalIsComplete
  <2>1. FinalWhole(i) /\ TypeOK /\ SameSizes
    BY DEF ResumeInv, NothingLost, Kept, Landing, Undisturbed
  <2>2. len[i] \in Nat /\ len = Size /\ FinPath[i] \in Paths
        /\ fs[FinPath[i]] \in {Absent} \cup Content
    BY <2>1, ResumeAssumption DEF TypeOK, SameSizes
  <2> QED
    BY <2>1, <2>2, RunIsSource DEF FinalWhole
<1> QED
  BY <1>1, ResumeInvHolds, PTL

\* What agreeing checksums are worth: the bytes from the resume offset on are the
\* source's, whatever happened; the whole file is, if nobody wrote to the sources.
THEOREM VerifiedIsRightAlways == Separate => (Spec => []VerifiedIsRight)
<1> SUFFICES ASSUME Separate PROVE Spec => []VerifiedIsRight
  OBVIOUS
<1>1. ResumeInv => VerifiedIsRight
  <2> SUFFICES ASSUME ResumeInv, NEW i \in verified, ours[i] # << >>
               PROVE  /\ Rest(fs[FinPath[i]], have[i])
                           = [k \in 1..Len(ours[i]) |-> <<i, have[i] + k>>]
                      /\ Unchanged => fs[FinPath[i]] = Source(i)
    BY DEF VerifiedIsRight
  <2>1. TypeOK /\ Lands /\ Reads /\ i \in Files
    BY DEF ResumeInv, Landing, TypeOK
  <2>2. /\ ours[i] = theirs[i] /\ ours[i] \in Content /\ IsRun(ours[i], i, have[i])
        /\ have[i] \in Nat /\ len[i] \in Nat /\ FinPath[i] \in Paths
    BY <2>1, ResumeAssumption DEF Reads, TypeOK
  <2>3. /\ fs[FinPath[i]] \in Content /\ have[i] <= Len(fs[FinPath[i]])
        /\ Rest(fs[FinPath[i]], have[i]) = ours[i] /\ fs[FinPath[i]] # Absent
    BY <2>1, <2>2 DEF Lands, Settled, TypeOK
  <2>4. ours[i] = Bytes(i, have[i], Len(ours[i]))
    <3>1. Len(ours[i]) \in Nat
      BY <2>2 DEF Content
    <3> DEFINE b == Bytes(i, have[i], Len(ours[i]))
    <3>2. b \in Content /\ Len(b) = Len(ours[i]) /\ IsRun(b, i, have[i])
      BY <2>1, <2>2, <3>1, BytesFacts
    <3> HIDE DEF b
    <3>3. \A k \in 1..Len(ours[i]) : ours[i][k] = b[k]
      BY <2>2, <3>2 DEF IsRun
    <3>4. ours[i] = b
      BY <2>2, <3>2, <3>3, SameBytes
    <3> QED
      BY <3>4 DEF b
  <2>5. ASSUME Unchanged PROVE fs[FinPath[i]] = Source(i)
    <3> DEFINE c == fs[FinPath[i]]
    <3>1. FinalRight(i) /\ SameSizes /\ Len(theirs[i]) = Size[i] - have[i]
      BY <2>1, <2>2, <2>5 DEF ResumeInv, Undisturbed, DiskRight, ReaderRight
    <3>2. c \in Content /\ Len(c) \in Nat /\ have[i] \in 0..Len(c)
      BY <2>2, <2>3 DEF Content
    <3>3. Len(Rest(c, have[i])) = Len(c) - have[i]
      BY <3>2, RestFacts
    <3>4. Len(c) = len[i] /\ len = Size
      BY <2>2, <2>3, <3>1, <3>2, <3>3 DEF SameSizes
    <3>5. IsRun(c, i, 0)
      BY <2>2, <2>3, <3>1, <3>4 DEF FinalRight
    <3> QED
      BY <2>1, <2>2, <3>2, <3>4, <3>5, RunIsSource
  <2> QED
    BY <2>3, <2>4, <2>5 DEF Bytes
<1> QED
  BY <1>1, ResumeInvHolds, PTL

\* No step of a session throws away bytes that a scan would have counted.
THEOREM ResumePointNeverShrinksAlways == Separate => (Spec => ResumePointNeverShrinks)
<1> SUFFICES ASSUME Separate PROVE Spec => ResumePointNeverShrinks
  OBVIOUS
<1>1. ResumeInv /\ [Next]_vars =>
        [NothingLost' =>
           \A i \in Files : ResumePoint(i)' >= ResumePoint(i) \/ FullPart(i)']_vars
  <2> SUFFICES ASSUME ResumeInv, [Next]_vars, NothingLost', NEW i \in Files
               PROVE  ResumePoint(i)' >= ResumePoint(i) \/ FullPart(i)'
    OBVIOUS
  <2>1. NothingLost /\ len' = len /\ Landing /\ TypeOK /\ Lands /\ Undisturbed /\ Kept
    BY StillNothingLost, StillUnchanged DEF NothingLost, ResumeInv, Landing
  <2>2. /\ FinPath[i] \in Paths /\ PartPath[i] \in Paths /\ len[i] \in Nat /\ len[i] = Size[i]
        /\ size[i] = Size[i]
        /\ fs \in [Paths -> {Absent} \cup Content]
    BY <2>1, ResumeAssumption DEF TypeOK, Undisturbed, SameSizes
  <2>3. \A q \in Paths : fs[q] # Absent => Len(fs[q]) \in Nat
    BY <2>2 DEF Content
  <2>4. ResumePoint(i) \in 0..len[i]
    BY <2>2, <2>3 DEF ResumePoint
  <2>5. ASSUME ResumePoint(i)' = ResumePoint(i)
        PROVE  ResumePoint(i)' >= ResumePoint(i)
    BY <2>4, <2>5
  <2>6. CASE fs' = fs
    BY <2>1, <2>5, <2>6, PointStays
  <2>7. CASE Writing /\ OpensPart
    <3>1. PICK j \in From(idx) : have[j] = 0 /\ fs' = [fs EXCEPT ![PartPath[j]] = << >>]
      BY <2>7 DEF OpensPart
    <3>2. CASE j = i
      <4>1. ResumePoint(i) = 0
        BY <2>1, <2>4, <2>7, <3>1, <3>2 DEF Undisturbed, Fresh
      <4>2. /\ fs'[PartPath[i]] = << >> /\ Len(<< >>) = 0 /\ fs'[FinPath[i]] = fs[FinPath[i]]
        <5>1. << >> \in {Absent} \cup Content
          BY DEF Content
        <5> QED
          BY <2>2, <3>1, <3>2, <5>1, PartWritten
      <4>3. ResumePoint(i)' \in Nat
        BY <2>1, <2>2, <4>2 DEF ResumePoint
      <4> QED
        BY <4>1, <4>3
    <3>3. CASE j # i
      BY <2>1, <2>5, <3>1, <3>3, PointStays
    <3> QED
      BY <3>2, <3>3
  <2>8. CASE Writing /\ WritesPart /\ cur = i
    <3>1. PICK n \in Nat : n <= left /\ n <= Len(data)
                           /\ fs' = [fs EXCEPT ![PartPath[cur]] = @ \o Prefix(data, n)]
      BY <2>8 DEF WritesPart
    <3>2. cur # NoFile /\ left > 0 /\ data # << >> /\ left \in Nat
      BY <2>1, <2>8 DEF WritesPart, TypeOK
    <3>3. /\ fs'[FinPath[i]] = fs[FinPath[i]] /\ fs'[PartPath[i]] \in Content
          /\ Len(fs'[PartPath[i]]) = size[i] - (left - n)
      BY <2>1, <2>8, <3>1, <3>2, Added
    <3>4. fs[PartPath[i]] # Absent /\ Len(fs[PartPath[i]]) = size[i] - left
      BY <2>1, <2>8, <3>2 DEF Lands, Opened
    <3>5. fs'[PartPath[i]] # Absent /\ Len(fs[PartPath[i]]) < len[i]
          /\ Len(fs'[PartPath[i]]) >= Len(fs[PartPath[i]])
      <4>1. fs'[PartPath[i]] # Absent
        BY <3>3 DEF Separate
      <4>2. size[i] = len[i] /\ left > 0 /\ left \in Nat /\ n \in Nat /\ len[i] \in Nat
        BY <2>2, <3>2
      <4> DEFINE was == Len(fs[PartPath[i]])
                 is == Len(fs'[PartPath[i]])
      <4>3. was = len[i] - left /\ is = len[i] - (left - n)
        BY <3>3, <3>4, <4>2
      <4> HIDE DEF was, is
      <4>4. was < len[i] /\ is >= was
        BY <4>2, <4>3
      <4> QED
        BY <4>1, <4>4 DEF was, is
    <3> QED
      BY <2>1, <2>2, <2>3, <3>3, <3>4, <3>5 DEF ResumePoint, FullPart
  <2>9. CASE Writing /\ ClosesPart /\ cur = i
    <3>1. fs' = Renamed /\ Len(fs[PartPath[i]]) = Size[i] /\ fs[PartPath[i]] # Absent
      <4>1. fs' = Renamed /\ Len(fs[PartPath[cur]]) = Size[cur]
        BY <2>1, <2>9, ClosesWhole
      <4>2. fs[PartPath[cur]] # Absent
        BY <2>1, <2>9, OpenIsRight DEF Undisturbed, ClosesPart
      <4> QED
        BY <2>9, <4>1, <4>2
    <3>2. fs'[FinPath[i]] = fs[PartPath[i]]
      BY <2>2, <2>9, <3>1, PartRenamed
    <3>3. ResumePoint(i)' = len[i]
      BY <2>1, <2>2, <3>1, <3>2 DEF ResumePoint
    <3> QED
      BY <2>2, <2>4, <3>3
  <2>10. CASE Writing /\ (WritesPart \/ ClosesPart) /\ cur # i
    BY <2>1, <2>5, <2>10, PointStays
  <2> QED
    BY <2>1, <2>6, <2>7, <2>8, <2>9, <2>10, DiskSteps
<1> QED
  BY <1>1, ResumeInvHolds, PTL DEF Spec, ResumePointNeverShrinks

=============================================================================
