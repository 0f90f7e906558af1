-------------------------- MODULE SlabPipe_proofs --------------------------
(* Proofs about SlabPipe for every number of blocks, window, read-ahead,    *)
(* capacity and set of faults.                                              *)
EXTENDS SlabPipe, Counting

(***************************************************************************)
(* Arithmetic of the slots and of the derived constants.                    *)
(***************************************************************************)

\* A slot number is inside its pool.
LEMMA SlotInPool ==
  ASSUME NEW w \in Nat \ {0}, NEW a \in Nat
  PROVE  a % w \in 0..(w - 1)
OBVIOUS

\* The derived constants: both pools have a slab, and the read-ahead never
\* exceeds what send.rs believes to be the local pool, nor the window.
LEMMA DerivedConstants ==
  /\ LocalSlabs \in Nat /\ LocalSlabs >= 2
  /\ Local \in Nat \ {0} /\ Local <= LocalSlabs
  /\ Depth \in Nat \ {0} /\ Depth <= LocalSlabs /\ Depth <= Window
  /\ CfgSlabs <= MaxLocal => Local = LocalSlabs
  /\ Window \in Nat \ {0} /\ NBlocks \in Nat /\ EOF = NBlocks /\ Batch \in Nat
  /\ ImmCap \in Nat
BY ConstantsAssumption DEF LocalSlabs, Local, Depth, Least, Most, EOF

(***************************************************************************)
(* The invariant is inductive.                                              *)
(***************************************************************************)

\* The stages of the pipeline are in order initially.
LEMMA InitEstablishesStages == Init => StageInv
<1> SUFFICES ASSUME Init PROVE StageInv
  OBVIOUS
<1> USE DerivedConstants DEF Init
<1>1. TypeOK
  BY DEF TypeOK, SlabOrEmpty
<1>2. StageOrder /\ ReaderStage /\ WindowStage /\ ReadAhead
  BY DEF StageOrder, ReaderStage, WindowStage, ReadAhead, recvSeq, Least
<1>3. ControlStage
  BY DEF ControlStage, ReceiverClosed, recvSeq, Least
<1>4. ContentStage
  BY DEF ContentStage, DiskIsPrefix
<1> QED
  BY <1>1, <1>2, <1>3, <1>4 DEF StageInv

\* Every step keeps them: one case per action of Next, and under it one
\* step for each part of StageInv that the action can disturb (the parts whose
\* variables it leaves alone share a step).
LEMMA NextKeepsStages == StageInv /\ [Next]_vars => StageInv'
<1> SUFFICES ASSUME StageInv, [Next]_vars PROVE StageInv'
  OBVIOUS
<1> USE DerivedConstants DEF StageInv
<1>1. CASE SAcquire
  <2>1. TypeOK'
    BY <1>1 DEF SAcquire, readerVars, netVars, creditVars, recvVars,
      writerVars, TypeOK
  <2>2. StageOrder'
    BY <1>1 DEF SAcquire, readerVars, netVars, recvVars, writerVars, TypeOK,
      StageOrder, recvSeq
  <2>3. ReaderStage'
    BY <1>1 DEF SAcquire, readerVars, ReaderStage
  <2>4. WindowStage'
    BY <1>1 DEF SAcquire, creditVars, recvVars, TypeOK, WindowStage
  <2>5. ReadAhead'
    BY <1>1 DEF SAcquire, writerVars, TypeOK, ReaderStage, ReadAhead,
      inflight, WantsSlab
  <2>6. ControlStage'
    BY <1>1 DEF SAcquire, netVars, recvVars, writerVars, ControlStage,
      recvSeq, WantsSlab, ReceiverClosed
  <2>7. ContentStage'
    BY <1>1 DEF SAcquire, readerVars, netVars, writerVars, ContentStage,
      DiskIsPrefix
  <2> QED
    BY <2>1, <2>2, <2>3, <2>4, <2>5, <2>6, <2>7
<1>2. CASE SCollect
  <2>1. TypeOK'
    BY <1>2 DEF SCollect, readerVars, netVars, creditVars, recvVars,
      writerVars, TypeOK
  <2>2. StageOrder'
    BY <1>2 DEF SCollect, readerVars, netVars, recvVars, writerVars, TypeOK,
      StageOrder, recvSeq
  <2>3. ReadAhead'
    BY <1>2 DEF SCollect, TypeOK, ReadAhead
  <2>4. ControlStage'
    BY <1>2 DEF SCollect, netVars, recvVars, writerVars, TypeOK, ControlStage,
      recvSeq, ReceiverClosed
  <2>5. ReaderStage' /\ WindowStage' /\ ContentStage'
    BY <1>2 DEF SCollect, readerVars, netVars, creditVars, recvVars,
      writerVars, ReaderStage, WindowStage, ContentStage, DiskIsPrefix
  <2> QED
    BY <2>1, <2>2, <2>3, <2>4, <2>5
<1>3. CASE SReadError
  <2>1. TypeOK'
    BY <1>3 DEF SReadError, readerVars, netVars, creditVars, recvVars,
      writerVars, TypeOK
  <2>2. ReadAhead'
    BY <1>3 DEF SReadError, ReadAhead
  <2>3. ControlStage'
    BY <1>3 DEF SReadError, netVars, recvVars, writerVars, ControlStage,
      recvSeq, ReceiverClosed
  <2>4. StageOrder' /\ ReaderStage' /\ WindowStage' /\ ContentStage'
    BY <1>3 DEF SReadError, readerVars, netVars, creditVars, recvVars,
      writerVars, StageOrder, ReaderStage, WindowStage, ContentStage, recvSeq,
      DiskIsPrefix
  <2> QED
    BY <2>1, <2>2, <2>3, <2>4
<1>4. CASE SPollData
  <2>1. TypeOK'
    BY <1>4 DEF SPollData, readerVars, netVars, creditVars, recvVars,
      writerVars, TypeOK
  <2>2. StageOrder'
    BY <1>4 DEF SPollData, readerVars, netVars, recvVars, writerVars, TypeOK,
      StageOrder, recvSeq
  <2>3. WindowStage'
    BY <1>4 DEF SPollData, creditVars, recvVars, TypeOK, WindowStage
  <2>4. ControlStage'
    BY <1>4 DEF SPollData, netVars, recvVars, writerVars, TypeOK, StageOrder,
      ReaderStage, ControlStage, recvSeq, ReceiverClosed
  <2>5. ReaderStage' /\ ReadAhead' /\ ContentStage'
    BY <1>4 DEF SPollData, readerVars, netVars, writerVars, ReaderStage,
      ReadAhead, ContentStage, DiskIsPrefix
  <2> QED
    BY <2>1, <2>2, <2>3, <2>4, <2>5
<1>5. CASE SPollCredit
  <2>1. TypeOK'
    BY <1>5 DEF SPollCredit, readerVars, netVars, recvVars, writerVars, TypeOK
  <2>2. WindowStage'
    <3>1. /\ credit' = credQ[1] /\ Len(credQ') = Len(credQ) - 1
          /\ \A i \in 1..Len(credQ') : credQ'[i] = credQ[i + 1]
          /\ 1 \in 1..Len(credQ)
      BY <1>5 DEF SPollCredit, TypeOK
    <3>2. UNCHANGED <<reserved, completed, released>>
      BY <1>5 DEF SPollCredit, recvVars
    <3>3. credit \in Nat /\ \A i \in 1..Len(credQ) : credQ[i] \in Nat
      BY DEF TypeOK
    <3>4. \A i \in 1..Len(credQ') : i + 1 \in 1..Len(credQ) /\ 1 < i + 1
      BY <3>1 DEF TypeOK
    <3>5. /\ \A i \in 1..Len(credQ) : credQ[i] <= released
          /\ \A i, j \in 1..Len(credQ) : i < j => credQ[i] <= credQ[j]
          /\ credit <= credQ[1]
      BY <3>1 DEF WindowStage
    <3>6. /\ reserved' <= credit' + Window /\ reserved' <= completed' + Local
          /\ credit' <= released'
      BY <3>1, <3>2, <3>3, <3>5 DEF TypeOK, WindowStage
    <3>7. \A i \in 1..Len(credQ') : credit' <= credQ'[i] /\ credQ'[i] <= released'
      BY <3>1, <3>2, <3>4, <3>5
    <3>8. \A i, j \in 1..Len(credQ') : i < j => credQ'[i] <= credQ'[j]
      <4>1. SUFFICES ASSUME NEW i \in 1..Len(credQ'), NEW j \in 1..Len(credQ'),
                            i < j
                     PROVE  credQ'[i] <= credQ'[j]
        OBVIOUS
      <4>2. i + 1 < j + 1
        BY <4>1
      <4> QED
        BY <3>1, <3>4, <3>5, <4>1, <4>2
    <3> QED
      BY <3>6, <3>7, <3>8 DEF WindowStage
  <2>3. /\ StageOrder' /\ ReaderStage' /\ ReadAhead'
        /\ ControlStage' /\ ContentStage'
    BY <1>5 DEF SPollCredit, readerVars, netVars, recvVars, writerVars,
      StageOrder, ReaderStage, ReadAhead, ControlStage, ContentStage, recvSeq,
      ReceiverClosed, DiskIsPrefix
  <2> QED
    BY <2>1, <2>2, <2>3
<1>6. CASE SPollError
  <2>1. TypeOK'
    BY <1>6 DEF SPollError, readerVars, netVars, creditVars, recvVars,
      writerVars, TypeOK
  <2>2. ReadAhead'
    BY <1>6 DEF SPollError, ReadAhead
  <2>3. ControlStage'
    BY <1>6 DEF SPollError, netVars, recvVars, writerVars, ControlStage,
      recvSeq, ReceiverClosed
  <2>4. StageOrder' /\ ReaderStage' /\ WindowStage' /\ ContentStage'
    BY <1>6 DEF SPollError, readerVars, netVars, creditVars, recvVars,
      writerVars, StageOrder, ReaderStage, WindowStage, ContentStage, recvSeq,
      DiskIsPrefix
  <2> QED
    BY <2>1, <2>2, <2>3, <2>4
<1>7. CASE SDrained
  <2>1. TypeOK'
    BY <1>7 DEF SDrained, readerVars, netVars, creditVars, recvVars,
      writerVars, TypeOK
  <2>2. ReadAhead'
    BY <1>7 DEF SDrained, ReadAhead
  <2>3. ControlStage'
    BY <1>7 DEF SDrained, netVars, recvVars, writerVars, ControlStage,
      recvSeq, ReceiverClosed
  <2>4. StageOrder' /\ ReaderStage' /\ WindowStage' /\ ContentStage'
    BY <1>7 DEF SDrained, readerVars, netVars, creditVars, recvVars,
      writerVars, StageOrder, ReaderStage, WindowStage, ContentStage, recvSeq,
      DiskIsPrefix
  <2> QED
    BY <2>1, <2>2, <2>3, <2>4
<1>8. CASE SDone
  <2>1. TypeOK'
    BY <1>8 DEF SDone, readerVars, netVars, creditVars, recvVars, writerVars,
      TypeOK
  <2>2. ReadAhead'
    BY <1>8 DEF SDone, ReadAhead
  <2>3. ControlStage'
    BY <1>8 DEF SDone, netVars, recvVars, writerVars, ControlStage, recvSeq,
      ReceiverClosed
  <2>4. StageOrder' /\ ReaderStage' /\ WindowStage' /\ ContentStage'
    BY <1>8 DEF SDone, readerVars, netVars, creditVars, recvVars, writerVars,
      StageOrder, ReaderStage, WindowStage, ContentStage, recvSeq, DiskIsPrefix
  <2> QED
    BY <2>1, <2>2, <2>3, <2>4
<1>9. CASE ReaderFill
  <2>1. TypeOK'
    <3>1. filled % Local \in 0..(Local - 1)
      BY SlotInPool DEF TypeOK
    <3>2. CASE filled = EOF
      BY <1>9, <3>2 DEF ReaderFill, senderVars, netVars, creditVars, recvVars,
                        writerVars, TypeOK
    <3>3. CASE filled # EOF
      <4>1. filled \in SlabOrEmpty
        BY <1>9, <3>3 DEF ReaderFill, TypeOK, ReaderStage, SlabOrEmpty, Blocks
      <4>2. localPool' \in [0..(Local - 1) -> SlabOrEmpty]
        BY <1>9, <3>1, <3>3, <4>1 DEF ReaderFill, TypeOK
      <4> QED
        BY <1>9, <3>3, <4>2 DEF ReaderFill, senderVars, netVars, creditVars,
                                recvVars, writerVars, TypeOK
    <3> QED
      BY <3>2, <3>3
  <2>2. StageOrder' /\ ReaderStage'
    BY <1>9 DEF ReaderFill, senderVars, netVars, recvVars, writerVars, TypeOK,
      StageOrder, ReaderStage, recvSeq
  <2>3. ContentStage'
    <3>1. SUFFICES ASSUME NEW s \in delivered..filled, s < NBlocks
                   PROVE  localPool'[s % Local] = s
      BY <1>9 DEF ReaderFill, ContentStage, DiskIsPrefix, netVars, writerVars,
        TypeOK
    <3>2. s \in Nat /\ filled \in Nat /\ filled < s + Local
      BY <1>9 DEF ReaderFill, TypeOK, StageOrder, WindowStage
    <3>3. s % Local \in 0..(Local - 1) /\ filled % Local \in 0..(Local - 1)
      BY <3>2, SlotInPool
    <3>4. CASE s = filled
      BY <1>9, <3>1, <3>3, <3>4 DEF ReaderFill, TypeOK
    <3>5. CASE s < filled
      <4>1. s % Local # filled % Local
        BY <3>2, <3>5, SlotsDistinct
      <4>2. localPool[s % Local] = s
        BY <3>1, <3>2, <3>5 DEF ContentStage, TypeOK
      <4> QED
        BY <1>9, <3>3, <4>1, <4>2 DEF ReaderFill, TypeOK
    <3> QED
      BY <3>1, <3>2, <3>4, <3>5
  <2>4. WindowStage' /\ ReadAhead' /\ ControlStage'
    BY <1>9 DEF ReaderFill, senderVars, netVars, creditVars, recvVars,
      writerVars, WindowStage, ReadAhead, ControlStage, recvSeq, ReceiverClosed
  <2> QED
    BY <2>1, <2>2, <2>3, <2>4
<1>10. CASE ReaderFails
  <2>1. TypeOK'
    BY <1>10 DEF ReaderFails, netVars, creditVars, recvVars, writerVars,
      TypeOK, SlabOrEmpty, Blocks
  <2>2. ReaderStage'
    BY <1>10 DEF ReaderFails, ReaderStage
  <2>3. /\ StageOrder' /\ WindowStage' /\ ReadAhead'
        /\ ControlStage' /\ ContentStage'
    BY <1>10 DEF ReaderFails, senderVars, netVars, creditVars, recvVars,
      writerVars, StageOrder, WindowStage, ReadAhead, ControlStage,
      ContentStage, recvSeq, ReceiverClosed, DiskIsPrefix
  <2> QED
    BY <2>1, <2>2, <2>3
<1>11. CASE NetDeliver
  <2>1. TypeOK'
    <3>1. /\ delivered % Window \in 0..(Window - 1)
          /\ delivered % Local \in 0..(Local - 1)
      BY SlotInPool DEF TypeOK
    <3>2. pool' \in [0..(Window - 1) -> SlabOrEmpty]
      BY <1>11, <3>1 DEF NetDeliver, TypeOK
    <3> QED
      BY <1>11, <3>2 DEF NetDeliver, senderVars, readerVars, netVars,
        creditVars,
                        recvVars, writerVars, TypeOK
  <2>2. StageOrder'
    BY <1>11 DEF NetDeliver, senderVars, readerVars, recvVars, writerVars,
      TypeOK, StageOrder, recvSeq
  <2>3. ContentStage'
    <3>0. /\ \A s \in delivered'..(filled' - 1) :
                s < NBlocks => localPool'[s % Local] = s
          /\ DiskIsPrefix'
      <4>1. DiskIsPrefix'
        BY <1>11 DEF NetDeliver, ContentStage, DiskIsPrefix, writerVars
      <4>2. /\ delivered' = delivered + 1 /\ filled' = filled
            /\ localPool' = localPool
        BY <1>11 DEF NetDeliver, readerVars
      <4>3. SUFFICES ASSUME NEW s \in (delivered + 1)..(filled - 1), s < NBlocks
                     PROVE  localPool[s % Local] = s
        BY <4>1, <4>2
      <4>4. s \in delivered..(filled - 1)
        BY DEF TypeOK
      <4> QED
        BY <4>3, <4>4 DEF ContentStage
    <3>1. SUFFICES ASSUME NEW s \in Len(disk)..delivered, s < NBlocks
                   PROVE  pool'[s % Window] = s
      BY <1>11, <3>0 DEF NetDeliver, ContentStage, writerVars, TypeOK
    <3>2. s \in Nat /\ delivered \in Nat /\ delivered < s + Window
      BY <1>11 DEF NetDeliver, TypeOK, StageOrder, WindowStage
    <3>3. s % Window \in 0..(Window - 1) /\ delivered % Window \in 0..(Window - 1)
      BY <3>2, SlotInPool
    <3>4. CASE s = delivered
      <4>1. localPool[delivered % Local] = delivered
        BY <1>11, <3>1, <3>4 DEF NetDeliver, TypeOK, StageOrder, ContentStage
      <4> QED
        BY <1>11, <3>1, <3>3, <3>4, <4>1 DEF NetDeliver, TypeOK, EOF
    <3>5. CASE s < delivered
      <4>1. s % Window # delivered % Window
        BY <3>2, <3>5, SlotsDistinct
      <4>2. pool[s % Window] = s
        BY <3>1, <3>2, <3>5 DEF ContentStage, TypeOK
      <4> QED
        BY <1>11, <3>3, <4>1, <4>2 DEF NetDeliver, TypeOK
    <3> QED
      BY <3>1, <3>2, <3>4, <3>5
  <2>4. ReaderStage' /\ WindowStage' /\ ReadAhead' /\ ControlStage'
    BY <1>11 DEF NetDeliver, senderVars, readerVars, creditVars, recvVars,
      writerVars, ReaderStage, WindowStage, ReadAhead, ControlStage, recvSeq,
      ReceiverClosed
  <2> QED
    BY <2>1, <2>2, <2>3, <2>4
<1>12. CASE NetCredit
  <2>1. TypeOK'
    BY <1>12 DEF NetCredit, senderVars, readerVars, netVars, recvVars,
      writerVars, TypeOK
  <2>2. WindowStage'
    <3>1. /\ Len(credQ') = Len(credQ) + 1
          /\ credQ'[Len(credQ')] = released
          /\ \A i \in 1..Len(credQ) : credQ'[i] = credQ[i]
          /\ Len(credQ) \in Nat
          /\ credQ' \in Seq(Nat)
      BY <1>12 DEF NetCredit, TypeOK
    <3> DEFINE n == Len(credQ)
    <3>2. \A i \in 1..Len(credQ') : credit <= credQ'[i] /\ credQ'[i] <= released
      <4>1. SUFFICES ASSUME NEW i \in 1..Len(credQ')
                     PROVE  credit <= credQ'[i] /\ credQ'[i] <= released
        OBVIOUS
      <4>2. CASE i = n + 1
        BY <3>1, <4>2 DEF TypeOK, WindowStage
      <4>3. CASE i # n + 1
        <5>1. i \in 1..n
          BY <3>1, <4>3
        <5> QED
          BY <3>1, <5>1 DEF WindowStage
      <4> QED
        BY <4>2, <4>3
    <3>3. \A i, j \in 1..Len(credQ') : i < j => credQ'[i] <= credQ'[j]
      <4>1. SUFFICES ASSUME NEW i \in 1..Len(credQ'), NEW j \in 1..Len(credQ'), i < j
                     PROVE  credQ'[i] <= credQ'[j]
        OBVIOUS
      <4>2. i \in 1..n
        BY <3>1, <4>1
      <4>3. CASE j = n + 1
        BY <3>1, <4>2, <4>3 DEF WindowStage
      <4>4. CASE j # n + 1
        <5>1. j \in 1..n
          BY <3>1, <4>4
        <5> QED
          BY <3>1, <4>1, <4>2, <5>1 DEF WindowStage
      <4> QED
        BY <4>3, <4>4
    <3> QED
      BY <1>12, <3>2, <3>3 DEF NetCredit, WindowStage, senderVars, recvVars
  <2>3. /\ StageOrder' /\ ReaderStage' /\ ReadAhead'
        /\ ControlStage' /\ ContentStage'
    BY <1>12 DEF NetCredit, senderVars, readerVars, netVars, recvVars,
      writerVars, StageOrder, ReaderStage, ReadAhead, ControlStage,
      ContentStage, recvSeq, ReceiverClosed, DiskIsPrefix
  <2> QED
    BY <2>1, <2>2, <2>3
<1>13. CASE NetTrailer
  <2>1. TypeOK'
    BY <1>13 DEF NetTrailer, senderVars, readerVars, creditVars, recvVars,
      writerVars, TypeOK
  <2>2. ControlStage'
    BY <1>13 DEF NetTrailer, senderVars, recvVars, writerVars, ControlStage,
      recvSeq, ReceiverClosed
  <2>3. /\ StageOrder' /\ ReaderStage' /\ WindowStage'
        /\ ReadAhead' /\ ContentStage'
    BY <1>13 DEF NetTrailer, senderVars, readerVars, creditVars, recvVars,
      writerVars, StageOrder, ReaderStage, WindowStage, ReadAhead, ContentStage,
      recvSeq, DiskIsPrefix
  <2> QED
    BY <2>1, <2>2, <2>3
<1>14. CASE LinkFails
  <2>1. TypeOK'
    <3>1. link' \in BOOLEAN
      BY <1>14 DEF LinkFails
    <3> QED
      BY <1>14, <3>1 DEF LinkFails, senderVars, readerVars, creditVars,
        recvVars,
                        writerVars, TypeOK
  <2>2. /\ StageOrder' /\ ReaderStage' /\ WindowStage'
        /\ ReadAhead' /\ ControlStage' /\ ContentStage'
    BY <1>14 DEF LinkFails, senderVars, readerVars, creditVars, recvVars,
      writerVars, StageOrder, ReaderStage, WindowStage, ReadAhead, ControlStage,
      ContentStage, recvSeq, ReceiverClosed, DiskIsPrefix
  <2> QED
    BY <2>1, <2>2
<1>15. CASE RRelease
  <2>1. TypeOK'
    BY <1>15 DEF RRelease, senderVars, readerVars, netVars, writerVars, TypeOK
  <2>2. StageOrder'
    BY <1>15 DEF RRelease, senderVars, readerVars, netVars, writerVars,
      TypeOK, StageOrder, recvSeq, written
  <2>3. WindowStage'
    BY <1>15 DEF RRelease, senderVars, TypeOK, WindowStage
  <2>4. ControlStage'
    BY <1>15 DEF RRelease, senderVars, netVars, writerVars, ControlStage,
      ReceiverClosed
  <2>5. ReaderStage' /\ ReadAhead' /\ ContentStage'
    BY <1>15 DEF RRelease, senderVars, readerVars, netVars, writerVars,
      ReaderStage, ReadAhead, ContentStage, DiskIsPrefix
  <2> QED
    BY <2>1, <2>2, <2>3, <2>4, <2>5
<1>16. CASE RPollImm
  <2>1. TypeOK'
    <3>1. wake' \in BOOLEAN
      BY <1>16 DEF RPollImm, TypeOK
    <3>2. polled' \in Nat /\ res' \in {"none", "eof", "overflow", "peer", "idle"}
          /\ rPc' \in {"credit", "join", "reap", "next"}
      BY <1>16 DEF RPollImm, TypeOK
    <3> QED
      BY <1>16, <3>1, <3>2 DEF RPollImm, senderVars, readerVars, netVars,
        creditVars,
                        writerVars, TypeOK
  <2>2. StageOrder'
    BY <1>16 DEF RPollImm, senderVars, readerVars, netVars, writerVars,
      TypeOK, StageOrder, recvSeq, inCQ, Least
  <2>3. ControlStage'
    BY <1>16 DEF RPollImm, senderVars, netVars, writerVars, TypeOK,
      StageOrder, WindowStage, ControlStage, recvSeq, inCQ, immQLen,
      ReceiverClosed, Least
  <2>4. ReaderStage' /\ WindowStage' /\ ReadAhead' /\ ContentStage'
    BY <1>16 DEF RPollImm, senderVars, readerVars, netVars, creditVars,
      writerVars, ReaderStage, WindowStage, ReadAhead, ContentStage,
      DiskIsPrefix
  <2> QED
    BY <2>1, <2>2, <2>3, <2>4
<1>17. CASE RCredited
  <2>1. TypeOK'
    BY <1>17 DEF RCredited, senderVars, readerVars, netVars, writerVars,
      TypeOK
  <2>2. StageOrder'
    BY <1>17 DEF RCredited, senderVars, readerVars, netVars, writerVars,
      TypeOK, StageOrder, recvSeq
  <2>3. ControlStage'
    BY <1>17 DEF RCredited, senderVars, netVars, writerVars, ControlStage,
      ReceiverClosed
  <2>4. ReaderStage' /\ WindowStage' /\ ReadAhead' /\ ContentStage'
    BY <1>17 DEF RCredited, senderVars, readerVars, netVars, writerVars,
      ReaderStage, WindowStage, ReadAhead, ContentStage, DiskIsPrefix
  <2> QED
    BY <2>1, <2>2, <2>3, <2>4
<1>18. CASE RCreditError
  <2>1. TypeOK'
    BY <1>18 DEF RCreditError, senderVars, readerVars, netVars, creditVars,
      writerVars, TypeOK
  <2>2. ControlStage'
    BY <1>18 DEF RCreditError, senderVars, netVars, writerVars, ControlStage,
      ReceiverClosed
  <2>3. /\ StageOrder' /\ ReaderStage' /\ WindowStage'
        /\ ReadAhead' /\ ContentStage'
    BY <1>18 DEF RCreditError, senderVars, readerVars, netVars, creditVars,
      writerVars, StageOrder, ReaderStage, WindowStage, ReadAhead, ContentStage,
      recvSeq, DiskIsPrefix
  <2> QED
    BY <2>1, <2>2, <2>3
<1>19. CASE RReaped
  <2>1. TypeOK'
    BY <1>19 DEF RReaped, senderVars, readerVars, netVars, creditVars,
      writerVars, TypeOK
  <2>2. ControlStage'
    BY <1>19 DEF RReaped, senderVars, netVars, writerVars, ControlStage,
      ReceiverClosed
  <2>3. /\ StageOrder' /\ ReaderStage' /\ WindowStage'
        /\ ReadAhead' /\ ContentStage'
    BY <1>19 DEF RReaped, senderVars, readerVars, netVars, creditVars,
      writerVars, StageOrder, ReaderStage, WindowStage, ReadAhead, ContentStage,
      recvSeq, DiskIsPrefix
  <2> QED
    BY <2>1, <2>2, <2>3
<1>20. CASE RPop
  <2>1. TypeOK'
    BY <1>20 DEF RPop, senderVars, readerVars, netVars, creditVars,
      writerVars, TypeOK
  <2>2. StageOrder'
    BY <1>20 DEF RPop, senderVars, readerVars, netVars, writerVars, TypeOK,
      StageOrder, recvSeq, immQLen, Least
  <2>3. ControlStage'
    BY <1>20 DEF RPop, senderVars, netVars, writerVars, TypeOK, ControlStage,
      ReceiverClosed
  <2>4. ReaderStage' /\ WindowStage' /\ ReadAhead' /\ ContentStage'
    BY <1>20 DEF RPop, senderVars, readerVars, netVars, creditVars,
      writerVars, ReaderStage, WindowStage, ReadAhead, ContentStage,
      DiskIsPrefix
  <2> QED
    BY <2>1, <2>2, <2>3, <2>4
<1>21. CASE RSleep
  <2>1. TypeOK'
    BY <1>21 DEF RSleep, senderVars, readerVars, netVars, creditVars,
      writerVars, TypeOK
  <2>2. ControlStage'
    BY <1>21 DEF RSleep, senderVars, netVars, writerVars, ControlStage,
      ReceiverClosed
  <2>3. /\ StageOrder' /\ ReaderStage' /\ WindowStage'
        /\ ReadAhead' /\ ContentStage'
    BY <1>21 DEF RSleep, senderVars, readerVars, netVars, creditVars,
      writerVars, StageOrder, ReaderStage, WindowStage, ReadAhead, ContentStage,
      recvSeq, DiskIsPrefix
  <2> QED
    BY <2>1, <2>2, <2>3
<1>22. CASE RWoken
  <2>1. TypeOK'
    <3>1. /\ wake' \in BOOLEAN
          /\ rPc' \in {"reap", "credit", "next", "sleep", "join", "trailer", "ok",
                      "err"}
      BY <1>22 DEF RWoken
    <3>2. /\ UNCHANGED <<sPc, reserved, jobs, committed, completed, credit>>
          /\ UNCHANGED <<filled, reader, localPool, delivered, pool, trailer, link>>
          /\ UNCHANGED <<credWire, credQ, wPc, disk>>
          /\ UNCHANGED <<res, polled, popped, released, advertised>>
      BY <1>22 DEF RWoken, senderVars, readerVars, netVars, creditVars, writerVars
    <3> QED
      BY <3>1, <3>2 DEF TypeOK
  <2>2. ControlStage'
    BY <1>22 DEF RWoken, senderVars, netVars, writerVars, ControlStage,
      ReceiverClosed
  <2>3. /\ StageOrder' /\ ReaderStage' /\ WindowStage'
        /\ ReadAhead' /\ ContentStage'
    BY <1>22 DEF RWoken, senderVars, readerVars, netVars, creditVars,
      writerVars, StageOrder, ReaderStage, WindowStage, ReadAhead, ContentStage,
      recvSeq, DiskIsPrefix
  <2> QED
    BY <2>1, <2>2, <2>3
<1>23. CASE RTimeout
  <2>1. TypeOK'
    BY <1>23 DEF RTimeout, senderVars, readerVars, netVars, creditVars,
      writerVars, TypeOK
  <2>2. ControlStage'
    BY <1>23 DEF RTimeout, senderVars, netVars, writerVars, ControlStage,
      ReceiverClosed
  <2>3. /\ StageOrder' /\ ReaderStage' /\ WindowStage'
        /\ ReadAhead' /\ ContentStage'
    BY <1>23 DEF RTimeout, senderVars, readerVars, netVars, creditVars,
      writerVars, StageOrder, ReaderStage, WindowStage, ReadAhead, ContentStage,
      recvSeq, DiskIsPrefix
  <2> QED
    BY <2>1, <2>2, <2>3
<1>24. CASE RIdle
  <2>1. TypeOK'
    BY <1>24 DEF RIdle, senderVars, readerVars, netVars, creditVars,
      writerVars, TypeOK
  <2>2. ControlStage'
    BY <1>24 DEF RIdle, senderVars, netVars, writerVars, ControlStage,
      ReceiverClosed
  <2>3. /\ StageOrder' /\ ReaderStage' /\ WindowStage'
        /\ ReadAhead' /\ ContentStage'
    BY <1>24 DEF RIdle, senderVars, readerVars, netVars, creditVars,
      writerVars, StageOrder, ReaderStage, WindowStage, ReadAhead, ContentStage,
      recvSeq, DiskIsPrefix
  <2> QED
    BY <2>1, <2>2, <2>3
<1>25. CASE RJoined
  <2>1. TypeOK'
    BY <1>25 DEF RJoined, senderVars, readerVars, netVars, creditVars,
      writerVars, TypeOK
  <2>2. ControlStage'
    BY <1>25 DEF RJoined, senderVars, netVars, writerVars, ControlStage,
      recvSeq
  <2>3. /\ StageOrder' /\ ReaderStage' /\ WindowStage'
        /\ ReadAhead' /\ ContentStage'
    BY <1>25 DEF RJoined, senderVars, readerVars, netVars, creditVars,
      writerVars, StageOrder, ReaderStage, WindowStage, ReadAhead, ContentStage,
      recvSeq, DiskIsPrefix
  <2> QED
    BY <2>1, <2>2, <2>3
<1>26. CASE RTrailer
  <2>1. TypeOK'
    BY <1>26 DEF RTrailer, senderVars, readerVars, netVars, creditVars,
      writerVars, TypeOK
  <2>2. ControlStage'
    BY <1>26 DEF RTrailer, senderVars, netVars, writerVars, ControlStage,
      recvSeq
  <2>3. /\ StageOrder' /\ ReaderStage' /\ WindowStage'
        /\ ReadAhead' /\ ContentStage'
    BY <1>26 DEF RTrailer, senderVars, readerVars, netVars, creditVars,
      writerVars, StageOrder, ReaderStage, WindowStage, ReadAhead, ContentStage,
      recvSeq, DiskIsPrefix
  <2> QED
    BY <2>1, <2>2, <2>3
<1>27. CASE RTrailerTimeout
  <2>1. TypeOK'
    BY <1>27 DEF RTrailerTimeout, senderVars, readerVars, netVars, creditVars,
      writerVars, TypeOK
  <2>2. ControlStage'
    BY <1>27 DEF RTrailerTimeout, senderVars, netVars, writerVars,
      ControlStage, recvSeq
  <2>3. /\ StageOrder' /\ ReaderStage' /\ WindowStage'
        /\ ReadAhead' /\ ContentStage'
    BY <1>27 DEF RTrailerTimeout, senderVars, readerVars, netVars, creditVars,
      writerVars, StageOrder, ReaderStage, WindowStage, ReadAhead, ContentStage,
      recvSeq, DiskIsPrefix
  <2> QED
    BY <2>1, <2>2, <2>3
<1>28. CASE WWrite
  <2>1. TypeOK'
    <3>1. written % Window \in 0..(Window - 1)
      BY SlotInPool DEF TypeOK, written
    <3>2. disk' \in Seq(SlabOrEmpty)
      BY <1>28, <3>1 DEF WWrite, TypeOK
    <3> QED
      BY <1>28, <3>2 DEF WWrite, senderVars, readerVars, netVars, creditVars,
                        recvVars, TypeOK
  <2>2. StageOrder'
    BY <1>28 DEF WWrite, senderVars, readerVars, netVars, recvVars, TypeOK,
      StageOrder, recvSeq, written, Least
  <2>3. ControlStage'
    BY <1>28 DEF WWrite, senderVars, netVars, recvVars, ControlStage,
      ReceiverClosed
  <2>4. ContentStage'
    <3>1. /\ Len(disk) \in Nat /\ Len(disk') = Len(disk) + 1
          /\ disk'[Len(disk')] = pool[Len(disk) % Window]
          /\ \A i \in 1..Len(disk) : disk'[i] = disk[i]
      BY <1>28 DEF WWrite, TypeOK, written
    <3>2. Len(disk) \in Len(disk)..(delivered - 1) /\ Len(disk) < NBlocks
      <4>1. Len(disk) < popped /\ Len(disk) < NBlocks
        BY <1>28, <3>1 DEF WWrite, TypeOK, recvSeq, written, Least
      <4>2. popped \in Nat /\ delivered \in Nat /\ popped <= delivered
        BY DEF TypeOK, StageOrder
      <4> QED
        BY <3>1, <4>1, <4>2
    <3>3. pool[Len(disk) % Window] = Len(disk)
      BY <3>2 DEF ContentStage
    <3>4. DiskIsPrefix'
      BY <3>1, <3>3 DEF ContentStage, DiskIsPrefix
    <3> QED
      BY <1>28, <3>1, <3>4 DEF WWrite, ContentStage, readerVars, netVars, TypeOK
  <2>5. ReaderStage' /\ WindowStage' /\ ReadAhead'
    BY <1>28 DEF WWrite, senderVars, readerVars, creditVars, recvVars,
      ReaderStage, WindowStage, ReadAhead
  <2> QED
    BY <2>1, <2>2, <2>3, <2>4, <2>5
<1>29. CASE WWake
  <2>1. TypeOK'
    BY <1>29 DEF WWake, senderVars, readerVars, netVars, creditVars, recvVars,
      TypeOK
  <2>2. ControlStage'
    BY <1>29 DEF WWake, senderVars, netVars, recvVars, ControlStage,
      ReceiverClosed
  <2>3. /\ StageOrder' /\ ReaderStage' /\ WindowStage'
        /\ ReadAhead' /\ ContentStage'
    BY <1>29 DEF WWake, senderVars, readerVars, netVars, creditVars, recvVars,
      StageOrder, ReaderStage, WindowStage, ReadAhead, ContentStage, recvSeq,
      DiskIsPrefix
  <2> QED
    BY <2>1, <2>2, <2>3
<1>30. CASE WEnd
  <2>1. TypeOK'
    BY <1>30 DEF WEnd, senderVars, readerVars, netVars, creditVars, recvVars,
      TypeOK
  <2>2. ControlStage'
    BY <1>30 DEF WEnd, senderVars, netVars, recvVars, ControlStage, recvSeq,
      written
  <2>3. /\ StageOrder' /\ ReaderStage' /\ WindowStage'
        /\ ReadAhead' /\ ContentStage'
    BY <1>30 DEF WEnd, senderVars, readerVars, netVars, creditVars, recvVars,
      StageOrder, ReaderStage, WindowStage, ReadAhead, ContentStage, recvSeq,
      DiskIsPrefix
  <2> QED
    BY <2>1, <2>2, <2>3
<1>31. CASE WFail
  <2>1. TypeOK'
    BY <1>31 DEF WFail, senderVars, readerVars, netVars, creditVars, recvVars,
      TypeOK
  <2>2. ControlStage'
    BY <1>31 DEF WFail, senderVars, netVars, recvVars, ControlStage
  <2>3. /\ StageOrder' /\ ReaderStage' /\ WindowStage'
        /\ ReadAhead' /\ ContentStage'
    BY <1>31 DEF WFail, senderVars, readerVars, netVars, creditVars, recvVars,
      StageOrder, ReaderStage, WindowStage, ReadAhead, ContentStage, recvSeq,
      DiskIsPrefix
  <2> QED
    BY <2>1, <2>2, <2>3
<1>32. CASE UNCHANGED vars
  BY <1>32 DEF vars, senderVars, readerVars, netVars, creditVars, recvVars,
    writerVars, TypeOK, StageOrder, ReaderStage, WindowStage, ReadAhead,
    ControlStage, ContentStage, recvSeq, ReceiverClosed, DiskIsPrefix
<1> QED
  BY <1>1, <1>2, <1>3, <1>4, <1>5, <1>6, <1>7, <1>8, <1>9, <1>10, <1>11,
    <1>12, <1>13, <1>14, <1>15, <1>16, <1>17, <1>18, <1>19, <1>20, <1>21, <1>22,
    <1>23, <1>24, <1>25, <1>26, <1>27, <1>28, <1>29, <1>30, <1>31, <1>32
     DEF Next, SenderMain, Reader, Net, ReceiverMain, Writer, Finished

\* The pace of the commits is kept: a slab is committed with the pipeline full,
\* or after the reader has put the end of the stream into its channel.
LEMMA NextKeepsPace == StageInv /\ CommitPace /\ [Next]_vars => CommitPace'
<1> SUFFICES ASSUME StageInv, CommitPace, [Next]_vars, NBlocks >= Depth, reader' # "failed"
             PROVE  /\ committed' > 0 => reserved' + 1 >= committed' + Depth
                    /\ sPc' = "collect" => reserved' >= committed' + Depth
  BY DEF CommitPace
<1>1. /\ reserved \in Nat /\ committed \in Nat /\ jobs \in Nat /\ jobs <= reserved
      /\ Depth \in Nat /\ NBlocks \in Nat
  BY DerivedConstants DEF StageInv, TypeOK, StageOrder
<1>2. CASE SAcquire
  <2>1. /\ sPc = "feed" /\ reserved' = reserved + 1 /\ UNCHANGED <<committed, reader>>
        /\ reader = "run" => sPc' = sPc
    BY <1>2 DEF SAcquire, WantsSlab, readerVars
  <2>2. CASE committed = 0
    <3>1. reader = "stop" => reserved >= NBlocks + 1 /\ reserved <= Depth
      BY <2>2, <1>1 DEF StageInv, TypeOK, StageOrder, ReaderStage, ReadAhead
    <3>2. reader = "run"
      BY <3>1, <2>1, <1>1 DEF StageInv, TypeOK
    <3> QED
      BY <3>2, <2>1, <2>2
  <2>3. CASE committed > 0
    BY <1>1, <2>1, <2>3 DEF CommitPace
  <2> QED
    BY <1>1, <2>2, <2>3
<1>3. CASE SCollect
  <2>1. /\ sPc = "collect" \/ jobs - committed >= Depth
        /\ committed' = committed + 1 /\ sPc' # "collect" /\ UNCHANGED <<reserved, reader>>
    BY <1>3 DEF SCollect, inflight, readerVars
  <2>2. reserved >= committed + Depth
    BY <1>1, <2>1 DEF CommitPace
  <2> QED
    BY <1>1, <2>1, <2>2
<1>4. CASE /\ UNCHANGED <<reserved, committed>> /\ (reader' = reader \/ reader' = "stop")
           /\ (sPc' = sPc \/ sPc' # "collect") /\ reader # "failed"
  BY <1>4 DEF CommitPace
<1>5. SReadError \/ SPollData \/ SPollCredit \/ SPollError \/ SDrained \/ SDone
        => UNCHANGED <<reserved, committed, reader>> /\ (sPc' = sPc \/ sPc' # "collect")
  BY DEF SReadError, SPollData, SPollCredit, SPollError, SDrained, SDone, readerVars
<1>6. ReaderFill => UNCHANGED <<reserved, committed, sPc>> /\ reader # "failed"
                      /\ (reader' = reader \/ reader' = "stop")
  BY DEF ReaderFill, senderVars
<1>7. ~ReaderFails
  BY DEF ReaderFails
<1>8. Net \/ ReceiverMain \/ Writer \/ Finished \/ UNCHANGED vars
        => UNCHANGED <<reserved, committed, reader, sPc>>
  BY DEF Net, ReceiverMain, Writer, Finished, NetDeliver, NetCredit, NetTrailer, LinkFails,
     RRelease, RPollImm, RCredited, RCreditError, RReaped, RPop, RSleep, RWoken, RTimeout,
     RIdle, RJoined, RTrailer, RTrailerTimeout, WWrite, WWake, WEnd, WFail,
     vars, senderVars, readerVars
<1> QED
  BY <1>2, <1>3, <1>4, <1>5, <1>6, <1>7, <1>8 DEF Next, SenderMain, Reader

\* The invariant holds in every reachable state.
LEMMA InvariantHolds == Spec => []IInv
<1>1. Init => IInv
  BY InitEstablishesStages DEF IInv, Init, CommitPace
<1>2. IInv /\ [Next]_vars => IInv'
  BY NextKeepsStages, NextKeepsPace DEF IInv
<1> QED
  BY <1>1, <1>2, PTL DEF Spec

(***************************************************************************)
(* The theorems.                                                            *)
(***************************************************************************)

\* The state keeps its types, whatever the constants.
THEOREM TypeCorrectness == Spec => []TypeOK
<1>1. IInv => TypeOK
  BY DEF IInv, StageInv
<1> QED
  BY <1>1, InvariantHolds, PTL

\* Whatever the widths of the two pools and of the window and whatever fails,
\* the blocks on disk are a prefix of the stream sent.
THEOREM DiskHoldsPrefix == Spec => []DiskIsPrefix
<1>1. IInv => DiskIsPrefix
  BY DEF IInv, StageInv, ContentStage
<1> QED
  BY <1>1, InvariantHolds, PTL

\* No WRITE under way targets a slab that has not been given back.
THEOREM NoWriteIntoBusy == Spec => []NoWriteIntoBusySlab
<1>1. IInv => NoWriteIntoBusySlab
  <2> SUFFICES ASSUME IInv, NEW s \in delivered..(committed - 1)
               PROVE  s - Window < released
    BY DEF NoWriteIntoBusySlab
  <2> QED
    BY DerivedConstants DEF IInv, StageInv, TypeOK, StageOrder, WindowStage
<1> QED
  BY <1>1, InvariantHolds, PTL

\* No slab that the reader may be filling is still read by the adapter.
THEOREM NoFillOfSlab == Spec => []NoFillOfSlabInFlight
<1>1. IInv => NoFillOfSlabInFlight
  <2> SUFFICES ASSUME IInv, NEW s \in filled..(jobs - 1)
               PROVE  s - Local < completed
    BY DEF NoFillOfSlabInFlight
  <2> QED
    BY DerivedConstants DEF IInv, StageInv, TypeOK, StageOrder, WindowStage
<1> QED
  BY <1>1, InvariantHolds, PTL

\* Whatever the widths, a local pool that is the narrower one keeps the sender at
\* one WRITE at a time until a read fails (send.rs:159).
THEOREM OneWriteAtATime == Spec => []OneWriteInFlight
<1>1. IInv => OneWriteInFlight
  <2> SUFFICES ASSUME IInv, LocalSlabs <= Least(MaxLocal, Window), NBlocks >= Depth,
                      reader # "failed"
               PROVE  committed - completed <= 1
    BY DEF OneWriteInFlight
  <2>1. Local = LocalSlabs /\ Depth = LocalSlabs /\ LocalSlabs \in Nat
    BY ConstantsAssumption DEF Local, Depth, LocalSlabs, Least, Most
  <2>2. /\ committed \in Nat /\ completed \in Nat /\ reserved \in Nat
        /\ reserved <= completed + Local /\ completed <= committed
    BY DEF IInv, StageInv, TypeOK, StageOrder, WindowStage
  <2>3. committed > 0 => reserved + 1 >= committed + Depth
    BY DEF IInv, CommitPace
  <2> QED
    BY <2>1, <2>2, <2>3
<1> QED
  BY <1>1, InvariantHolds, PTL

\* At most one window of immediates waits at the receiver, so imm_q cannot
\* overflow when it is as wide as the window.
THEOREM ImmediatesFit == Spec => []ImmediatesFitWindow
<1>1. IInv => ImmediatesFitWindow
  BY DerivedConstants DEF IInv, StageInv, TypeOK, StageOrder, WindowStage, ControlStage,
     ImmediatesFitWindow, recvSeq, Least
<1> QED
  BY <1>1, InvariantHolds, PTL

\* With no more slabs asked for than ibx_send_arm grants, the sender never
\* sleeps in acquire with nothing on the way that can wake it.
THEOREM AcquireIsWakeable ==
  ASSUME CfgSlabs <= MaxLocal
  PROVE  Spec => []AcquireCanBeWoken
<1>1. IInv => AcquireCanBeWoken
  <2> SUFFICES ASSUME IInv, WantsSlab, WindowShut
               PROVE  completed < committed \/ credit < Least(committed, NBlocks)
    BY DEF AcquireCanBeWoken
  <2>1. /\ reserved < committed + Depth /\ committed <= NBlocks
        /\ reserved \in Nat /\ committed \in Nat /\ credit \in Nat
        /\ completed \in Nat
    BY DerivedConstants DEF IInv, StageInv, TypeOK, ReadAhead, ControlStage, WantsSlab, inflight
  <2>2. CASE reserved - credit >= Window
    BY <2>1, <2>2, DerivedConstants DEF Least
  <2>3. CASE reserved - completed >= Local
    BY <2>1, <2>3, DerivedConstants
  <2> QED
    BY <2>2, <2>3 DEF WindowShut
<1> QED
  BY <1>1, InvariantHolds, PTL

\* A receiver that reports success has the whole stream on disk.
THEOREM SuccessMeansComplete == Spec => []SuccessIsComplete
<1>1. IInv => SuccessIsComplete
  BY DerivedConstants DEF IInv, StageInv, TypeOK, ControlStage, SuccessIsComplete, recvSeq,
     Least, ReceiverClosed
<1> QED
  BY <1>1, InvariantHolds, PTL

\* Credit never shrinks.
THEOREM CreditIsMonotone == Spec => CreditOnlyGrows
<1>1. IInv /\ [Next]_vars => [credit' >= credit]_vars
  <2> SUFFICES ASSUME IInv, [Next]_vars PROVE credit' >= credit
    OBVIOUS
  <2>1. CASE SPollCredit
    BY <2>1 DEF SPollCredit, IInv, StageInv, TypeOK, WindowStage
  <2>2. CASE UNCHANGED credit
    BY <2>2 DEF IInv, StageInv, TypeOK
  <2> QED
    BY <2>1, <2>2 DEF Next, SenderMain, Reader, Net, ReceiverMain, Writer, Finished,
       vars, senderVars, SAcquire, SCollect, SReadError, SPollData, SPollError,
       SDrained, SDone, ReaderFill, ReaderFails, NetDeliver, NetCredit, NetTrailer,
       LinkFails, RRelease, RPollImm, RCredited, RCreditError, RReaped, RPop, RSleep,
       RWoken, RTimeout, RIdle, RJoined, RTrailer, RTrailerTimeout, WWrite, WWake,
       WEnd, WFail
<1> QED
  BY <1>1, InvariantHolds, PTL DEF Spec, CreditOnlyGrows

\* The data plane refines the bounded FIFO of BlockStream.
THEOREM RefinesBlockStream == Spec => StreamSpec
<1> USE DerivedConstants
<1>1. Init => Stream!Init
  BY DEF Init, Stream!Init, ReceiverClosed, Least
<1>2. IInv /\ [Next]_vars => [Stream!Next]_Stream!streamVars
  <2> SUFFICES ASSUME IInv, [Next]_vars
               PROVE  Stream!Next \/ UNCHANGED Stream!streamVars
    OBVIOUS
  <2> USE DEF IInv, StageInv
  <2>1. CASE SCollect
    <3>1. UNCHANGED disk /\ UNCHANGED rPc /\ committed' = committed + 1
      BY <2>1 DEF SCollect, recvVars, writerVars
    <3>2. committed < Len(disk) + Window /\ committed \in Nat /\ Len(disk) \in Nat
      BY <2>1 DEF SCollect, TypeOK, StageOrder, WindowStage
    <3>3. CASE committed < NBlocks
      <4>1. Least(committed, NBlocks) = committed
            /\ Least(committed', NBlocks) = committed + 1
        BY <3>1, <3>2, <3>3 DEF Least
      <4> QED
        BY <3>1, <3>2, <3>3, <4>1 DEF Stream!Next, Stream!Send, ReceiverClosed
    <3>4. CASE committed >= NBlocks
      <4>1. Least(committed', NBlocks) = Least(committed, NBlocks)
        BY <3>1, <3>2, <3>4 DEF Least
      <4> QED
        BY <3>1, <4>1 DEF Stream!streamVars, ReceiverClosed
    <3> QED
      BY <3>2, <3>3, <3>4
  <2>2. CASE WWrite
    <3>1. UNCHANGED committed /\ UNCHANGED rPc /\ ~ReceiverClosed
          /\ disk' = Append(disk, pool[Len(disk) % Window])
      BY <2>2 DEF WWrite, senderVars, recvVars, ControlStage, written
    <3>2. Len(disk) \in Len(disk)..(delivered - 1) /\ Len(disk) < NBlocks
          /\ Len(disk) < committed
      BY <2>2 DEF WWrite, TypeOK, StageOrder, recvSeq, written, Least
    <3>3. pool[Len(disk) % Window] = Len(disk)
      BY <3>2 DEF ContentStage
    <3>4. Len(disk) < Least(committed, NBlocks)
      BY <3>2 DEF Least
    <3> QED
      BY <3>1, <3>3, <3>4 DEF Stream!Next, Stream!Write, ReceiverClosed
  <2>3. CASE RJoined \/ RTrailerTimeout
    <3>1. UNCHANGED committed /\ UNCHANGED disk
          /\ rPc \notin {"ok", "err"} /\ rPc' \in {"trailer", "err"}
      BY <2>3 DEF RJoined, RTrailerTimeout, senderVars, writerVars
    <3> QED
      BY <3>1 DEF Stream!Next, Stream!Fail, Stream!streamVars, ReceiverClosed
  <2>4. CASE RTrailer
    <3>1. UNCHANGED committed /\ UNCHANGED disk /\ rPc = "trailer" /\ rPc' = "ok"
      BY <2>4 DEF RTrailer, senderVars, writerVars
    <3>2. Len(disk) = NBlocks
      BY <3>1 DEF TypeOK, ControlStage, recvSeq, Least
    <3> QED
      BY <3>1, <3>2 DEF Stream!Next, Stream!Succeed, ReceiverClosed
  <2>5. CASE UNCHANGED <<committed, disk, rPc>>
    BY <2>5 DEF Stream!streamVars, ReceiverClosed
  <2>6. CASE UNCHANGED <<committed, disk, ReceiverClosed>> /\ ~ReceiverClosed
    BY <2>6 DEF Stream!streamVars
  <2>7. \/ SCollect \/ WWrite \/ RJoined \/ RTrailerTimeout \/ RTrailer
        \/ UNCHANGED <<committed, disk, rPc>>
        \/ UNCHANGED <<committed, disk, ReceiverClosed>> /\ ~ReceiverClosed
    <3>1. CASE RRelease \/ RPollImm \/ RCredited \/ RCreditError \/ RReaped
               \/ RPop \/ RSleep \/ RWoken \/ RTimeout \/ RIdle
      BY <3>1 DEF RRelease, RPollImm, RCredited, RCreditError, RReaped, RPop, RSleep,
         RWoken, RTimeout, RIdle, ReceiverClosed, senderVars, writerVars
    <3>2. CASE SAcquire \/ SReadError \/ SPollData \/ SPollCredit \/ SPollError
               \/ SDrained \/ SDone
      BY <3>2 DEF SAcquire, SReadError, SPollData, SPollCredit, SPollError, SDrained,
         SDone, recvVars, writerVars
    <3>3. CASE ReaderFill \/ ReaderFails \/ NetDeliver \/ NetCredit \/ NetTrailer
               \/ LinkFails
      BY <3>3 DEF ReaderFill, ReaderFails, NetDeliver, NetCredit, NetTrailer, LinkFails,
         senderVars, recvVars, writerVars
    <3>4. CASE WWake \/ WEnd \/ WFail
      BY <3>4 DEF WWake, WEnd, WFail, senderVars, recvVars
    <3>5. CASE UNCHANGED vars
      BY <3>5 DEF vars, senderVars, recvVars, writerVars
    <3> QED
      BY <3>1, <3>2, <3>3, <3>4, <3>5
         DEF Next, SenderMain, Reader, Net, ReceiverMain, Writer, Finished
  <2> QED
    BY <2>1, <2>2, <2>3, <2>4, <2>5, <2>6, <2>7
<1> QED
  BY <1>1, <1>2, InvariantHolds, PTL DEF Spec, StreamSpec, Stream!Spec

=============================================================================
