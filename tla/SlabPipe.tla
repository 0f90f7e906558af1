------------------------------ MODULE SlabPipe ------------------------------
(***************************************************************************)
(* The data plane of one transfer: the sender's main thread and its reader *)
(* thread (src/src/send.rs), the two ring pools and the credit window of   *)
(* the C transport (src/csrc/ibx.c), the receiver's pump loop and its      *)
(* writer thread (src/src/recv.rs).  The session is already armed (GO has  *)
(* been received) and ends when both programs have returned.               *)
(*                                                                         *)
(* A slab is identified by its sequence number: 0..NBlocks-1 carry data,   *)
(* NBlocks is the zero-length end-of-stream marker.  All queues whose      *)
(* content is "the next sequence numbers in order" (the two mpsc channels  *)
(* of each side, the posted WRITEs, the CQ, imm_q) are kept as the counter *)
(* of their tail; what is in a pool slot is kept explicitly.               *)
(***************************************************************************)
EXTENDS Integers, Sequences

CONSTANTS
  NBlocks,     \* number of data slabs in the stream
  CfgSlabs,    \* --slabs, the sender's pipeline depth
  MaxLocal,    \* MAX_LOCAL, the clamp of ibx_send_arm
  Window,      \* reply.nslabs: slabs in the receiver's pool
  CreditDiv,   \* credit is announced per 1/CreditDiv of the pool (16)
  ImmCap,      \* capacity of imm_q (1024)
  CredSlots,   \* receive slots of the sender (CRED_SLOTS)
  Batch,       \* completions taken by one ibv_poll_cq (16)
  Faults       \* which faults may happen, a subset of FaultKinds

FaultKinds == {"read", "disk", "link", "idle"}

ASSUME ConstantsAssumption ==
  /\ NBlocks \in Nat
  /\ CfgSlabs \in Nat
  /\ MaxLocal \in Nat /\ MaxLocal >= 2
  /\ Window \in Nat \ {0}
  /\ CreditDiv \in Nat \ {0}
  /\ ImmCap \in Nat \ {0}
  /\ CredSlots \in Nat \ {0}
  /\ Batch \in Nat \ {0}
  /\ Faults \subseteq FaultKinds

Least(a, b) == IF a <= b THEN a ELSE b
Most(a, b) == IF a >= b THEN a ELSE b

LocalSlabs == Most(CfgSlabs, 2)              \* what send.rs believes it has
Local == Least(LocalSlabs, MaxLocal)         \* what ibx_send_arm gives it
\* Mutant: the prefetch depth looks at the remote window alone.
DepthRemoteOnly == Most(1, Window)
\* Mutant: one slab is kept out of the read-ahead.
DepthSpareOne == Most(1, Least(LocalSlabs, Window) - 1)
Depth == Most(1, Least(LocalSlabs, Window))  \* the prefetch depth
CreditStep == Most(1, Window \div CreditDiv)

Empty == -1                                  \* a slot never written
Blocks == 0..(NBlocks - 1)
EOF == NBlocks

VARIABLES
  sPc,         \* the sender's main thread
  reserved,    \* slabs acquired                           (ibx.reserved)
  jobs,        \* jobs put in the reader's channel
  filled,      \* results the reader has put in its channel
  reader,      \* "run", "stop" (returned) or "failed" (sent an error)
  committed,   \* WRITE_WITH_IMMs posted                   (ibx.committed)
  completed,   \* their completions handled                (ibx.completed)
  credit,      \* the last credit handled                  (ibx.credit)
  localPool,   \* slot -> sequence number of its content
  delivered,   \* immediates in the receiver's CQ or beyond
  pool,        \* the receiver's pool: slot -> sequence number of its content
  credWire,    \* the receiver's credit SEND: "idle", "posted" or "acked"
  credQ,       \* credit frames in the sender's CQ
  trailer,     \* the TRAILER message has reached the receiver
  link,        \* the fabric carries packets
  rPc,         \* the receiver's main thread
  res,         \* how pump ended
  polled,      \* immediates moved to imm_q                (ibx.imm_qt)
  popped,      \* immediates taken out of imm_q            (ibx.imm_qh)
  released,    \* slabs given back                         (ibx.released)
  advertised,  \* the last credit sent                     (ibx.advertised)
  wake,        \* the eventfd is readable
  wPc,         \* the writer thread
  disk         \* what the writer has written, in order

senderVars == <<sPc, reserved, jobs, committed, completed, credit>>
readerVars == <<filled, reader, localPool>>
netVars == <<delivered, pool, trailer, link>>
creditVars == <<credWire, credQ>>
recvVars == <<rPc, res, polled, popped, released, advertised>>
writerVars == <<wPc, disk>>
vars == <<senderVars, readerVars, netVars, creditVars, recvVars, wake,
          writerVars>>

inflight == jobs - committed
written == Len(disk)                         \* also the messages on done_tx
recvSeq == Least(popped, NBlocks)            \* ibx.recv_seq
immQLen == polled - popped

SenderClosed == sPc \in {"ok", "err"}
ReceiverClosed == rPc \in {"ok", "err"}

Init ==
  /\ sPc = "feed" /\ reserved = 0 /\ jobs = 0 /\ committed = 0
  /\ completed = 0 /\ credit = 0
  /\ filled = 0 /\ reader = "run"
  /\ localPool = [i \in 0..(Local - 1) |-> Empty]
  /\ delivered = 0 /\ pool = [i \in 0..(Window - 1) |-> Empty]
  /\ credWire = "idle" /\ credQ = << >>
  /\ trailer = FALSE /\ link = TRUE
  /\ rPc = "reap" /\ res = "none" /\ polled = 0 /\ popped = 0
  /\ released = 0 /\ advertised = 0
  /\ wake = FALSE
  /\ wPc = "recv" /\ disk = << >>

-----------------------------------------------------------------------------
(* The sender's main thread: the loop of send.rs around ibx_send_acquire,   *)
(* ibx_send_commit, ibx_send_drain and the trailer.                         *)

\* Mutants: the window one slab too wide; one of the two pools not looked at.
WindowShutLate == \/ reserved - credit > Window
                  \/ reserved - completed >= Local
WindowShutRemoteOnly == reserved - credit >= Window
WindowShutLocalOnly == reserved - completed >= Local

WindowShut == \/ reserved - credit >= Window
              \/ reserved - completed >= Local

WantsSlab == sPc = "feed" /\ inflight < Depth

\* acquire succeeds and the job goes to the reader; a reader that has already
\* returned makes the send fail, which leaves the feeding loop with the slab
\* reserved and never used.
SAcquire ==
  /\ WantsSlab /\ ~WindowShut
  /\ reserved' = reserved + 1
  /\ IF reader = "run" THEN jobs' = jobs + 1 /\ UNCHANGED sPc
                       ELSE sPc' = "collect" /\ UNCHANGED jobs
  /\ UNCHANGED <<committed, completed, credit, readerVars, netVars,
                 creditVars, recvVars, wake, writerVars>>

\* The main thread takes the next result and commits it; the zero-length one
\* ends the loop.
SCollect ==
  /\ sPc = "collect" \/ (sPc = "feed" /\ inflight >= Depth)
  /\ filled > committed
  /\ committed' = committed + 1
  /\ sPc' = IF committed = EOF THEN "drain" ELSE "feed"
  /\ UNCHANGED <<reserved, jobs, completed, credit, readerVars, netVars,
                 creditVars, recvVars, wake, writerVars>>

\* The result is a read error: the session is given up.
SReadError ==
  /\ sPc = "collect" \/ (sPc = "feed" /\ inflight >= Depth)
  /\ filled = committed /\ reader = "failed"
  /\ sPc' = "err"
  /\ UNCHANGED <<reserved, jobs, committed, completed, credit, readerVars,
                 netVars, creditVars, recvVars, wake, writerVars>>

\* The places where the main thread sleeps in poll_cq.
SPolls == \/ WantsSlab /\ WindowShut
          \/ sPc = "drain" /\ completed < committed
          \/ sPc = "trailer"

SPollData ==
  /\ SPolls /\ completed < delivered
  /\ completed' = completed + 1
  /\ UNCHANGED <<sPc, reserved, jobs, committed, credit, readerVars, netVars,
                 creditVars, recvVars, wake, writerVars>>

\* Mutant: the newest credit frame is taken first.
SPollCreditNewest ==
  /\ SPolls /\ credQ # << >>
  /\ credit' = credQ[Len(credQ)] /\ credQ' = SubSeq(credQ, 1, Len(credQ) - 1)
  /\ UNCHANGED <<sPc, reserved, jobs, committed, completed, readerVars,
                 netVars, credWire, recvVars, wake, writerVars>>

SPollCredit ==
  /\ SPolls /\ credQ # << >>
  /\ credit' = Head(credQ) /\ credQ' = Tail(credQ)
  /\ UNCHANGED <<sPc, reserved, jobs, committed, completed, readerVars,
                 netVars, credWire, recvVars, wake, writerVars>>

\* A work request that can no longer be acknowledged completes with an error.
SPollError ==
  /\ SPolls
  /\ \/ ReceiverClosed /\ (delivered < committed \/ (sPc = "trailer" /\ ~trailer))
     \/ ~link /\ (completed < committed \/ sPc = "trailer")
  /\ sPc' = "err"
  /\ UNCHANGED <<reserved, jobs, committed, completed, credit, readerVars,
                 netVars, creditVars, recvVars, wake, writerVars>>

SDrained ==
  /\ sPc = "drain" /\ completed = committed
  /\ sPc' = "trailer"
  /\ UNCHANGED <<reserved, jobs, committed, completed, credit, readerVars,
                 netVars, creditVars, recvVars, wake, writerVars>>

\* The trailer is acknowledged; send() returns and ibx_close destroys the QP.
SDone ==
  /\ sPc = "trailer" /\ trailer
  /\ sPc' = "ok"
  /\ UNCHANGED <<reserved, jobs, committed, completed, credit, readerVars,
                 netVars, creditVars, recvVars, wake, writerVars>>

-----------------------------------------------------------------------------
(* The sender's reader thread.                                              *)

ReaderFill ==
  /\ reader = "run" /\ filled < jobs
  /\ filled' = filled + 1
  /\ IF filled = EOF
       THEN reader' = "stop" /\ UNCHANGED localPool
       ELSE localPool' = [localPool EXCEPT ![filled % Local] = filled]
            /\ UNCHANGED reader
  /\ UNCHANGED <<senderVars, netVars, creditVars, recvVars, wake, writerVars>>

ReaderFails ==
  /\ "read" \in Faults
  /\ reader = "run" /\ filled < jobs /\ filled # EOF
  /\ reader' = "failed"
  /\ UNCHANGED <<senderVars, filled, localPool, netVars, creditVars, recvVars,
                 wake, writerVars>>

-----------------------------------------------------------------------------
(* The fabric and the two adapters (external): a reliable connection        *)
(* executes the posted work requests in order, an immediate after its data. *)

Connected == link /\ ~SenderClosed /\ ~ReceiverClosed

NetDeliver ==
  /\ Connected /\ delivered < committed
  /\ delivered' = delivered + 1
  /\ pool' = IF delivered = EOF THEN pool
             ELSE [pool EXCEPT ![delivered % Window] =
                                 localPool[delivered % Local]]
  /\ UNCHANGED <<senderVars, readerVars, trailer, link, creditVars, recvVars,
                 wake, writerVars>>

\* A credit SEND needs a free receive slot of the sender; the sender posts the
\* slot again when it handles the frame.  Without one the adapter retries.
NetCredit ==
  /\ Connected /\ credWire = "posted" /\ Len(credQ) < CredSlots
  /\ credQ' = Append(credQ, released) /\ credWire' = "acked"
  /\ UNCHANGED <<senderVars, readerVars, netVars, recvVars, wake, writerVars>>

NetTrailer ==
  /\ Connected /\ sPc = "trailer" /\ ~trailer
  /\ trailer' = TRUE
  /\ UNCHANGED <<senderVars, readerVars, delivered, pool, link, creditVars,
                 recvVars, wake, writerVars>>

LinkFails ==
  /\ "link" \in Faults /\ link
  /\ link' = FALSE
  /\ UNCHANGED <<senderVars, readerVars, delivered, pool, trailer, creditVars,
                 recvVars, wake, writerVars>>

-----------------------------------------------------------------------------
(* The receiver's main thread: Receiver::pump around ibx_recv_release and   *)
(* ibx_recv_next, then the join of the writer and the wait for the trailer. *)

inCQ == delivered - polled                   \* immediates not yet polled

\* Mutant: credit is announced in whole steps only.
CreditDueInSteps(r) == r - advertised >= CreditStep

\* Announce at once when a whole step is free or nothing is left to write.
CreditDue(r) == r - advertised >= CreditStep \/ r >= recvSeq

\* Mutant: a slab is given back when its block is handed to the writer.
RReleaseOnReceipt ==
  /\ rPc = "reap" /\ released < recvSeq
  /\ released' = released + 1
  /\ IF CreditDue(released + 1)
       THEN rPc' = "credit" /\ credWire' = "posted"
       ELSE UNCHANGED <<rPc, credWire>>
  /\ UNCHANGED <<senderVars, readerVars, netVars, credQ, res, polled, popped,
                 advertised, wake, writerVars>>

\* A message on done_rx: ibx_recv_release, which posts the credit SEND when
\* one is due and then waits for its completion.
RRelease ==
  /\ rPc = "reap" /\ released < written
  /\ released' = released + 1
  /\ IF CreditDue(released + 1)
       THEN rPc' = "credit" /\ credWire' = "posted"
       ELSE UNCHANGED <<rPc, credWire>>
  /\ UNCHANGED <<senderVars, readerVars, netVars, credQ, res, polled, popped,
                 advertised, wake, writerVars>>

\* handle_wc on immediates: each batch goes to imm_q, which must have room.
\* The receiver polls both in ibx_recv_next and while it waits for its credit.
RPollImm ==
  /\ rPc = "credit" \/ (rPc \in {"next", "sleep"} /\ immQLen = 0)
  /\ \E n \in 1..Least(Batch, inCQ) :
       IF immQLen + n > ImmCap
         THEN rPc' = "join" /\ res' = "overflow" /\ UNCHANGED <<polled, wake>>
         ELSE /\ polled' = polled + n
              /\ IF rPc = "sleep" /\ wake
                   THEN rPc' = "reap" /\ wake' = FALSE
                   ELSE /\ rPc' = IF rPc = "credit" THEN rPc ELSE "next"
                        /\ UNCHANGED wake
              /\ UNCHANGED res
  /\ UNCHANGED <<senderVars, readerVars, netVars, creditVars, popped,
                 released, advertised, writerVars>>

RCredited ==
  /\ rPc = "credit" /\ credWire = "acked"
  /\ advertised' = released
  /\ credWire' = "idle" /\ rPc' = "reap"
  /\ UNCHANGED <<senderVars, readerVars, netVars, credQ, res, polled, popped,
                 released, wake, writerVars>>

\* The sender has destroyed its QP, or the fabric is gone: the SEND fails.
RCreditError ==
  /\ rPc = "credit" /\ credWire = "posted"
  /\ SenderClosed \/ ~link
  /\ rPc' = "join" /\ res' = "peer"
  /\ UNCHANGED <<senderVars, readerVars, netVars, creditVars, polled, popped,
                 released, advertised, wake, writerVars>>

\* done_rx is empty: on to ibx_recv_next.
RReaped ==
  /\ rPc = "reap" /\ released = written
  /\ rPc' = "next"
  /\ UNCHANGED <<senderVars, readerVars, netVars, creditVars, res, polled,
                 popped, released, advertised, wake, writerVars>>

\* The head of imm_q: a data block goes to the writer's channel, the
\* zero-length one ends pump.
RPop ==
  /\ rPc = "next" /\ immQLen > 0
  /\ popped' = popped + 1
  /\ IF popped = EOF THEN rPc' = "join" /\ res' = "eof"
                     ELSE rPc' = "reap" /\ UNCHANGED res
  /\ UNCHANGED <<senderVars, readerVars, netVars, creditVars, polled,
                 released, advertised, wake, writerVars>>

\* Nothing in imm_q nor in the CQ after it was armed: poll() on both fds.
RSleep ==
  /\ rPc = "next" /\ immQLen = 0 /\ inCQ = 0
  /\ rPc' = "sleep"
  /\ UNCHANGED <<senderVars, readerVars, netVars, creditVars, res, polled,
                 popped, released, advertised, wake, writerVars>>

\* Mutant: the eventfd is drained, but ibx_recv_next keeps waiting for data.
RWokenStays ==
  /\ rPc = "sleep" /\ wake /\ inCQ = 0
  /\ wake' = FALSE /\ rPc' = "next"
  /\ UNCHANGED <<senderVars, readerVars, netVars, creditVars, res, polled,
                 popped, released, advertised, writerVars>>

\* The eventfd: drained, and ibx_recv_next returns 2.
RWoken ==
  /\ rPc = "sleep" /\ wake /\ inCQ = 0
  /\ wake' = FALSE /\ rPc' = "reap"
  /\ UNCHANGED <<senderVars, readerVars, netVars, creditVars, res, polled,
                 popped, released, advertised, writerVars>>

\* The 200 ms timeout of the poll().
RTimeout ==
  /\ rPc = "sleep" /\ ~wake /\ inCQ = 0
  /\ rPc' = "reap"
  /\ UNCHANGED <<senderVars, readerVars, netVars, creditVars, res, polled,
                 popped, released, advertised, wake, writerVars>>

\* IDLE_LIMIT: no data block for 30 s.
RIdle ==
  /\ "idle" \in Faults
  /\ rPc = "sleep" /\ inCQ = 0
  /\ rPc' = "join" /\ res' = "idle"
  /\ UNCHANGED <<senderVars, readerVars, netVars, creditVars, polled, popped,
                 released, advertised, wake, writerVars>>

\* The writer has returned; an error of pump or of the writer fails the
\* session, otherwise the trailer is awaited.
RJoined ==
  /\ rPc = "join" /\ wPc \in {"end", "fail"}
  /\ rPc' = IF res = "eof" /\ wPc = "end" THEN "trailer" ELSE "err"
  /\ UNCHANGED <<senderVars, readerVars, netVars, creditVars, res, polled,
                 popped, released, advertised, wake, writerVars>>

RTrailer ==
  /\ rPc = "trailer" /\ trailer
  /\ rPc' = "ok"
  /\ UNCHANGED <<senderVars, readerVars, netVars, creditVars, res, polled,
                 popped, released, advertised, wake, writerVars>>

\* Mutant: the wait for the trailer has no limit.
RTrailerForever == FALSE /\ UNCHANGED vars

\* The 30 s limit on the trailer.
RTrailerTimeout ==
  /\ rPc = "trailer" /\ ~trailer
  /\ SenderClosed \/ ~link
  /\ rPc' = "err"
  /\ UNCHANGED <<senderVars, readerVars, netVars, creditVars, res, polled,
                 popped, released, advertised, wake, writerVars>>

-----------------------------------------------------------------------------
(* The receiver's writer thread.                                            *)

\* Write the next chunk from the pool, then report it on done_tx.
WWrite ==
  /\ wPc = "recv" /\ written < recvSeq
  /\ disk' = Append(disk, pool[written % Window])
  /\ wPc' = "wake"
  /\ UNCHANGED <<senderVars, readerVars, netVars, creditVars, recvVars, wake>>

WWake ==
  /\ wPc = "wake"
  /\ wake' = TRUE /\ wPc' = "recv"
  /\ UNCHANGED <<senderVars, readerVars, netVars, creditVars, recvVars, disk>>

\* Mutant: the thread ends as soon as work_tx is dropped.
WEndEarly ==
  /\ wPc = "recv" /\ rPc = "join"
  /\ wPc' = "end"
  /\ UNCHANGED <<senderVars, readerVars, netVars, creditVars, recvVars, wake,
                 disk>>

\* work_tx was dropped and the channel is empty.
WEnd ==
  /\ wPc = "recv" /\ written = recvSeq /\ rPc = "join"
  /\ wPc' = "end"
  /\ UNCHANGED <<senderVars, readerVars, netVars, creditVars, recvVars, wake,
                 disk>>

\* A disk error ends the thread; the pump loop is not told.
WFail ==
  /\ "disk" \in Faults
  /\ wPc = "recv" /\ written < recvSeq
  /\ wPc' = "fail"
  /\ UNCHANGED <<senderVars, readerVars, netVars, creditVars, recvVars, wake,
                 disk>>

-----------------------------------------------------------------------------
SenderMain == \/ SAcquire \/ SCollect \/ SReadError \/ SPollData
              \/ SPollCredit \/ SPollError \/ SDrained \/ SDone
Reader == ReaderFill \/ ReaderFails
Net == NetDeliver \/ NetCredit \/ NetTrailer \/ LinkFails
ReceiverMain == \/ RRelease \/ RPollImm \/ RCredited \/ RCreditError
                \/ RReaped \/ RPop \/ RSleep \/ RWoken \/ RTimeout \/ RIdle
                \/ RJoined \/ RTrailer \/ RTrailerTimeout
Writer == WWrite \/ WWake \/ WEnd \/ WFail

\* Both programs have returned.
Finished == SenderClosed /\ ReceiverClosed /\ UNCHANGED vars

Next == SenderMain \/ Reader \/ Net \/ ReceiverMain \/ Writer \/ Finished

\* Each thread and each adapter goes on working.  Nothing is assumed of the
\* 200 ms timeout (RTimeout) nor of the faults; the 30 s limit expires in a
\* receiver that keeps falling asleep.
Fairness ==
  /\ WF_vars(SAcquire \/ SCollect \/ SReadError \/ SDrained \/ SDone)
  /\ WF_vars(SPollData) /\ WF_vars(SPollCredit) /\ WF_vars(SPollError)
  /\ WF_vars(ReaderFill)
  /\ WF_vars(NetDeliver) /\ WF_vars(NetCredit) /\ WF_vars(NetTrailer)
  /\ WF_vars(RRelease \/ RReaped \/ RPop \/ RSleep \/ RWoken \/ RJoined
             \/ RTrailer \/ RTrailerTimeout)
  /\ WF_vars(RPollImm) /\ WF_vars(RCredited) /\ WF_vars(RCreditError)
  /\ SF_vars(RIdle)
  /\ WF_vars(WWrite \/ WWake \/ WEnd)

Spec == Init /\ [][Next]_vars
FairSpec == Spec /\ Fairness

-----------------------------------------------------------------------------
(* Properties.                                                              *)

SlabOrEmpty == Blocks \cup {Empty}

\* The types and ranges of the state.
TypeOK ==
  /\ sPc \in {"feed", "collect", "drain", "trailer", "ok", "err"}
  /\ reserved \in Nat /\ jobs \in Nat /\ committed \in Nat
  /\ completed \in Nat /\ credit \in Nat
  /\ filled \in Nat /\ reader \in {"run", "stop", "failed"}
  /\ localPool \in [0..(Local - 1) -> SlabOrEmpty]
  /\ delivered \in Nat
  /\ pool \in [0..(Window - 1) -> SlabOrEmpty]
  /\ credWire \in {"idle", "posted", "acked"} /\ credQ \in Seq(Nat)
  /\ trailer \in BOOLEAN /\ link \in BOOLEAN
  /\ rPc \in {"reap", "credit", "next", "sleep", "join", "trailer", "ok", "err"}
  /\ res \in {"none", "eof", "overflow", "peer", "idle"}
  /\ polled \in Nat /\ popped \in Nat /\ released \in Nat /\ advertised \in Nat
  /\ wake \in BOOLEAN
  /\ wPc \in {"recv", "wake", "end", "fail"}
  /\ disk \in Seq(SlabOrEmpty)

\* What reaches the disk is a prefix of the stream: no block is lost, repeated,
\* reordered or overwritten in either pool while the network, the reader and
\* the writer work at their own pace (the ownership promised by ibx.h).
DiskIsPrefix == \A i \in 1..Len(disk) : disk[i] = i - 1

\* A posted WRITE may land at any moment until it completes, so the remote slot
\* it targets must already have been given back by the writer's side.
NoWriteIntoBusySlab ==
  \A s \in delivered..(committed - 1) : s # EOF => s - Window < released

\* The reader may be filling any slab whose job it holds, so the adapter must
\* be done with the slab that used the same local slot before.
NoFillOfSlabInFlight ==
  \A s \in filled..(jobs - 1) : s - Local < completed

\* The receive slots and imm_q see at most one window of immediates, so neither
\* overflows when imm_q is as wide as the window (ibx.c:386).
ImmediatesFitWindow ==
  /\ delivered - popped <= Window
  /\ Window <= ImmCap => res # "overflow"

\* The sender never sleeps in acquire with nothing under way that could wake it:
\* a WRITE not completed yet, or a committed block whose credit is still to come
\* (send.rs:151-153, the reason the prefetch depth respects both windows).
AcquireCanBeWoken ==
  WantsSlab /\ WindowShut =>
    completed < committed \/ credit < Least(committed, NBlocks)

\* The main thread commits only with Depth slabs reserved (send.rs:159), so when
\* the local pool is the narrower one there is never more than one WRITE under
\* way: --slabs buys read-ahead, not WRITEs in flight.  A read error ends that:
\* the slabs filled before it are committed with whatever is reserved.
OneWriteInFlight ==
  LocalSlabs <= Least(MaxLocal, Window) /\ NBlocks >= Depth /\ reader # "failed"
    => committed - completed <= 1

\* A receiver that reports success has every block on disk, in order, and the
\* sender's trailer was sent only after every WRITE had completed.
SuccessIsComplete ==
  rPc = "ok" => Len(disk) = NBlocks /\ completed = NBlocks + 1

\* A new credit never takes back what an earlier one gave: credit frames are
\* handled in order and each says more than the last.
CreditOnlyGrows == [][credit' >= credit]_vars

\* Without faults both programs return, although nothing is assumed of the
\* 200 ms timeout: every sleeper is woken by a completion or by the eventfd.
BothReturn == <>(SenderClosed /\ ReceiverClosed)

\* Whatever fails, the receiver's session ends: the idle limit and the trailer
\* limit cover a silent sender (design.md:65-66).
ReceiverReturns == <>ReceiverClosed

\* The data plane implements a bounded FIFO of the width of the receiver's pool.
Stream == INSTANCE BlockStream WITH
            Capacity <- Window,
            sent <- Least(committed, NBlocks),
            out <- disk,
            outcome <- IF ReceiverClosed THEN rPc ELSE "open"
StreamSpec == Stream!Spec

-----------------------------------------------------------------------------
(* The inductive invariant behind the safety properties, part by part.      *)

\* How far the stages of the pipeline are ahead of one another.
StageOrder ==
  /\ completed <= delivered /\ delivered <= committed /\ committed <= filled
  /\ filled <= jobs /\ jobs <= reserved
  /\ popped <= polled /\ polled <= delivered
  /\ released <= Len(disk) /\ Len(disk) <= recvSeq
  /\ advertised <= released

\* The reader stops at the end of the stream, and only then are slabs wasted.
ReaderStage ==
  /\ filled <= NBlocks + 1
  /\ reader = "run" => filled <= NBlocks /\ jobs = reserved
  /\ reader = "stop" => filled = NBlocks + 1
  /\ reader = "failed" => filled <= NBlocks

\* The two windows of acquire, the read-ahead and what credit stands for.
WindowStage ==
  /\ reserved <= credit + Window
  /\ reserved <= completed + Local
  /\ credit <= released
  /\ \A i \in 1..Len(credQ) : credit <= credQ[i] /\ credQ[i] <= released
  /\ \A i, j \in 1..Len(credQ) : i < j => credQ[i] <= credQ[j]

ReadAhead ==
  /\ reserved <= committed + Depth
  /\ sPc = "feed" /\ reserved # jobs => reserved < committed + Depth

\* Where each thread is says how far the stream has got.
ControlStage ==
  /\ sPc \in {"feed", "collect"} => committed <= NBlocks
  /\ sPc = "drain" => committed = NBlocks + 1
  /\ sPc \in {"trailer", "ok"} => completed = NBlocks + 1
  /\ trailer => completed = NBlocks + 1
  /\ res = "eof" <=> popped = NBlocks + 1
  /\ res = "none" <=> rPc \in {"reap", "credit", "next", "sleep"}
  /\ rPc \in {"trailer", "ok"} => res = "eof" /\ wPc = "end"
  /\ rPc = "ok" => trailer
  /\ wPc = "end" => res # "none" /\ Len(disk) = recvSeq
  /\ ReceiverClosed => wPc \in {"end", "fail"}
  /\ Window <= ImmCap => res # "overflow"

\* What the slabs and the disk hold.
ContentStage ==
  /\ \A s \in delivered..(filled - 1) : s < NBlocks => localPool[s % Local] = s
  /\ \A s \in Len(disk)..(delivered - 1) : s < NBlocks => pool[s % Window] = s
  /\ DiskIsPrefix

StageInv ==
  /\ TypeOK /\ StageOrder /\ ReaderStage /\ WindowStage /\ ReadAhead
  /\ ControlStage /\ ContentStage

\* Until a read fails, the pipeline is full whenever a slab is committed: what is
\* reserved stays within one slab of the read-ahead, and in "collect" reaches it.
CommitPace ==
  NBlocks >= Depth /\ reader # "failed" =>
    /\ committed > 0 => reserved + 1 >= committed + Depth
    /\ sPc = "collect" => reserved >= committed + Depth

IInv == StageInv /\ CommitPace

-----------------------------------------------------------------------------
(* Statements of the documentation that the code does not keep.             *)

\* README.md:199-200, "Memory buffering lets the sender finish while the receiver
\* continues writing": a sender that has returned with success does not make the
\* receiver fail.
SenderMayFinishFirst == sPc = "ok" => res # "peer"

=============================================================================
