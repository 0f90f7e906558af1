----------------------------- MODULE CtlChannel -----------------------------
(***************************************************************************)
(* One session as its control channel sees it (src/csrc/ibx.c,              *)
(* src/src/ffi.rs, and the calls of src/src/send.rs, recv.rs, discover.rs). *)
(* ctl_send_flagged cuts a message into frames of CTL_PAY digits and sends  *)
(* them one at a time from its only send slot; ibx_ctl_recv puts a message  *)
(* together from the ring of receive slots.  The same slots take the        *)
(* immediates of the data plane and the frames that announce credit, and    *)
(* whoever polls the completion queue handles what belongs to the others.   *)
(***************************************************************************)
EXTENDS Proto

CONSTANTS
  client, server,  \* the two ends
  Jobs,            \* what the client may be there for
  Blocks,          \* WRITEs of a transfer, the empty one at the end included
  Window,          \* the server's slabs
  NRecv,           \* end -> receive slots (CRED_SLOTS, max_nslabs + 16)
  CTL_PAY,         \* digits in a frame
  CTL_MAX,         \* digits in the longest message
  ImmCap,          \* immediates that imm_q holds
  Batch            \* completions taken by one call of poll_cq_to (16)

Ends == {client, server}
Peer == [e \in Ends |-> IF e = client THEN server ELSE client]

ASSUME CtlAssumption ==
  /\ client # server
  /\ Jobs \subseteq [does : {"probe", "transfer"}, version : Nat, arms : BOOLEAN,
                      manifest : [files : Seq([name : Seq(Nat), size : Nat]),
                                  sender_budget : Nat]]
  /\ NRecv \in [Ends -> Nat \ {0}]
  /\ Blocks \in Nat \ {0} /\ Window \in Nat \ {0}
  /\ CTL_PAY \in Nat \ {0} /\ CTL_MAX \in Nat /\ ImmCap \in Nat /\ Batch \in Nat \ {0}

\* What poll_cq_to returns when nothing came, apart from every count.
POLL_TIMEOUT == -2

VARIABLES
  job,       \* what the client is there for, and the version it was built with
  plan,      \* end -> the calls it has made and those it is going to make
  pc,        \* end -> the call it is in
  mode,      \* end -> "run", or how it stopped: "err", "timeout"
  polled,    \* end -> completions handled by the poll_cq_to under way
  off,       \* end -> units of the message it has put into frames
  out,       \* end -> its send slot
  sendOut,   \* end -> ctl_send_out, frames not acknowledged
  writes,    \* end -> WRITEs posted and not completed
  credit,    \* end -> the credit it has been told of
  rq,        \* end -> receive slots posted, in order
  slot,      \* end -> what its receive slots hold
  ctlq,      \* end -> the ring of slots with frames not read
  qh, qt,    \* end -> its head and tail, which count up
  imm,       \* end -> immediates in imm_q
  got,       \* end -> what the message being read has so far
  rcvd,      \* end -> the messages ibx_ctl_recv has returned
  wire,      \* end -> what is on its way to it
  acks,      \* end -> acknowledgements on their way to it
  cq         \* end -> its completion queue

sendVars == <<off, out, sendOut, writes, credit>>
recvVars == <<rq, slot, ctlq, qh, qt, imm>>
readVars == <<got, rcvd>>
netVars == <<wire, acks, cq>>
stepVars == <<plan, pc, mode, polled, sendVars, recvVars, readVars, netVars>>
vars == <<job, stepVars>>

Slots(e) == 0..NRecv[e] - 1
NoFrame == [load |-> << >>, last |-> FALSE, cred |-> FALSE]

-----------------------------------------------------------------------------
(* The calls an end makes, as far as the messages it has read decide them:  *)
(* a message out, a message in, a WRITE posted, the WRITEs drained, credit  *)
(* waited for, an immediate taken out, credit announced.                    *)

Send(m) == <<[op |-> "send", msg |-> m]>>
Recv == <<[op |-> "recv"]>>

\* What an end makes of a message.
VersionOf(e) == IF e = client THEN job.version ELSE VERSION
Heard(e, msg) == decode_checked(VersionOf(e), msg)

Why == <<7>>    \* the reason given in an ABORT
InfoOfServer == [name |-> <<1, 2>>, note |-> << >>, inbox |-> <<3>>]
ReplyTo(m) == [slab_size |-> 1, nslabs |-> Window, pool_addr |-> 6, pool_rkey |-> 5,
               inbox |-> InfoOfServer.inbox, have |-> [i \in 1..Len(m.files) |-> 0]]
TrailerOf(m) == [crcs |-> [i \in 1..Len(m.files) |-> i]]

\* The data plane of the sender: every block acquires a slab, which waits for
\* credit once the window is used up, and is written; then the WRITEs are drained.
DataOut ==
  [i \in 1..2 * Blocks + 1 |->
     IF i > 2 * Blocks THEN [op |-> "drain"]
     ELSE IF i % 2 = 0 THEN [op |-> "write"]
     ELSE [op |-> "acquire", count |-> i \div 2 + 1 - Window]]

\* And of the receiver: every block that is not the last is given back.
DataIn ==
  [i \in 1..2 * Blocks - 1 |->
     IF i % 2 = 1 THEN [op |-> "pop"] ELSE [op |-> "credit", count |-> i \div 2]]

Hello ==
  IF job.does = "probe" THEN encode_bare(job.version, MSG_PROBE)
  ELSE encode(job.version, MSG_TRANSFER, Manifest_write(job.manifest))

\* send_files after the answer to its manifest; probe ends with the answer.
ClientGoesOn(answer) ==
  IF job.does = "probe" \/ ~IsMessage(answer, MSG_REPLY) \/ Reply_read(answer.body) = Refused
    THEN << >>
  ELSE IF ~job.arms THEN Send(encode(job.version, MSG_ABORT, Why))
  ELSE Send(encode_bare(job.version, MSG_GO)) \o DataOut
         \o Send(encode(job.version, MSG_TRAILER, Trailer_write(TrailerOf(job.manifest))))

\* accept_one and the start of receive: the answer to the first message.
Answer(hello) ==
  IF hello.kind = "mismatch" THEN Send(encode(VERSION, MSG_ABORT, Why))
  ELSE IF IsMessage(hello, MSG_PROBE)
    THEN Send(encode(VERSION, MSG_PEERINFO, PeerInfo_write(InfoOfServer)))
  ELSE IF IsMessage(hello, MSG_TRANSFER) /\ Manifest_read(hello.body) # Refused
    THEN Send(encode(VERSION, MSG_REPLY, Reply_write(ReplyTo(Manifest_read(hello.body))))) \o Recv
  ELSE << >>

\* receive after GO or ABORT; the trailer is the last message.
Receive(go) == IF IsMessage(go, MSG_GO) THEN DataIn \o Recv ELSE << >>

\* The calls that follow the n-th message read.
GoesOn(e, n, msg) ==
  CASE e = client -> ClientGoesOn(Heard(e, msg))
    [] e = server /\ n = 1 -> Answer(Heard(e, msg))
    [] e = server /\ n = 2 -> Receive(Heard(e, msg))
    [] OTHER -> << >>

-----------------------------------------------------------------------------
Init ==
  /\ job \in Jobs
  /\ plan = [e \in Ends |-> IF e = client THEN Send(Hello) \o Recv ELSE Recv]
  /\ pc = [e \in Ends |-> 1] /\ mode = [e \in Ends |-> "run"]
  /\ polled = [e \in Ends |-> 0] /\ off = [e \in Ends |-> 0]
  /\ out = [e \in Ends |-> NoFrame] /\ sendOut = [e \in Ends |-> 0]
  /\ writes = [e \in Ends |-> 0] /\ credit = [e \in Ends |-> 0]
  /\ rq = [e \in Ends |-> [i \in 1..NRecv[e] |-> i - 1]]
  /\ slot = [e \in Ends |-> [i \in Slots(e) |-> NoFrame]]
  /\ ctlq = [e \in Ends |-> [i \in Slots(e) |-> 0]]
  /\ qh = [e \in Ends |-> 0] /\ qt = [e \in Ends |-> 0]
  /\ imm = [e \in Ends |-> 0] /\ got = [e \in Ends |-> << >>]
  /\ rcvd = [e \in Ends |-> << >>]
  /\ wire = [e \in Ends |-> << >>] /\ acks = [e \in Ends |-> << >>]
  /\ cq = [e \in Ends |-> << >>]

Running(e) == mode[e] = "run" /\ pc[e] <= Len(plan[e])
Call(e) == plan[e][pc[e]]
In(e, op) == Running(e) /\ Call(e).op = op
\* The end is between two calls of poll_cq_to.
Idle(e) == polled[e] = 0

Set(f, e, v) == [f EXCEPT ![e] = v]


-----------------------------------------------------------------------------
(* The adapters (external): what is on the wire takes the next receive slot *)
(* that is posted, and waits for one (rnr_retry_count = 7).  A frame is     *)
(* read from the send slot when it is delivered.                            *)

Deliver(e) ==
  /\ wire[e] # << >> /\ rq[e] # << >>
  /\ LET w == Head(wire[e])
         i == Head(rq[e])
     IN /\ cq' = Set(cq, e, Append(cq[e], [kind |-> "recv", what |-> w, slot |-> i]))
        /\ acks' = Set(acks, Peer[e], Append(acks[Peer[e]], w))
        /\ slot' = IF w = "imm" THEN slot
                   ELSE Set(slot, e, [slot[e] EXCEPT ![i] = out[Peer[e]]])
  /\ wire' = Set(wire, e, Tail(wire[e])) /\ rq' = Set(rq, e, Tail(rq[e]))
  /\ UNCHANGED <<plan, pc, mode, polled, sendVars, ctlq, qh, qt, imm, readVars>>

Acknowledge(e) ==
  /\ acks[e] # << >>
  /\ cq' = Set(cq, e, Append(cq[e], [kind |-> "sent", what |-> Head(acks[e])]))
  /\ acks' = Set(acks, e, Tail(acks[e]))
  /\ UNCHANGED <<plan, pc, mode, polled, sendVars, recvVars, readVars, wire>>

-----------------------------------------------------------------------------
(* handle_wc and poll_cq_to.                                                *)

\* The calls that wait for a completion, and for which.
Waits(e) ==
  \/ In(e, "send") /\ sendOut[e] > 0
  \/ In(e, "credit") /\ sendOut[e] > 0
  \/ In(e, "recv") /\ qh[e] = qt[e]
  \/ In(e, "drain") /\ writes[e] > 0
  \/ In(e, "acquire") /\ credit[e] < Call(e).count
  \/ In(e, "pop") /\ imm[e] = 0

\* A completion of our own: a frame or a WRITE was acknowledged.
HandleSent(e) ==
  LET what == Head(cq[e]).what IN
    /\ Head(cq[e]).kind = "sent"
    /\ sendOut' = Set(sendOut, e, IF what = "frame" THEN sendOut[e] - 1 ELSE sendOut[e])
    /\ writes' = Set(writes, e, IF what = "imm" THEN writes[e] - 1 ELSE writes[e])
    /\ UNCHANGED <<mode, credit, recvVars>>

\* An immediate is queued and its slot posted again at once.
HandleImm(e) ==
  LET wc == Head(cq[e]) IN
    /\ wc.kind = "recv" /\ wc.what = "imm"
    /\ IF imm[e] >= ImmCap
         THEN mode' = Set(mode, e, "err") /\ UNCHANGED <<imm, rq>>
         ELSE /\ imm' = Set(imm, e, imm[e] + 1)
              /\ rq' = Set(rq, e, Append(rq[e], wc.slot))
              /\ UNCHANGED mode
    /\ UNCHANGED <<sendOut, writes, credit, slot, ctlq, qh, qt>>

\* So is the slot of a credit frame, whose count replaces the one known.
HandleCredit(e) ==
  LET wc == Head(cq[e]) IN
    /\ wc.kind = "recv" /\ wc.what = "frame" /\ slot[e][wc.slot].cred
    /\ credit' = Set(credit, e, Head(slot[e][wc.slot].load))
    /\ rq' = Set(rq, e, Append(rq[e], wc.slot))
    /\ UNCHANGED <<mode, sendOut, writes, slot, ctlq, qh, qt, imm>>

\* Mutant: the slot of a control frame is posted again before it has been read.
HandleFrameReposts(e) ==
  LET wc == Head(cq[e]) IN
    /\ wc.kind = "recv" /\ wc.what = "frame" /\ ~slot[e][wc.slot].cred
    /\ ctlq' = Set(ctlq, e, [ctlq[e] EXCEPT ![qt[e] % NRecv[e]] = wc.slot])
    /\ qt' = Set(qt, e, qt[e] + 1)
    /\ rq' = Set(rq, e, Append(rq[e], wc.slot))
    /\ UNCHANGED <<mode, sendOut, writes, credit, slot, qh, imm>>

\* Any other frame waits in the ring, its slot taken until it is read.
HandleFrame(e) ==
  LET wc == Head(cq[e]) IN
    /\ wc.kind = "recv" /\ wc.what = "frame" /\ ~slot[e][wc.slot].cred
    /\ IF qt[e] - qh[e] >= NRecv[e]
         THEN mode' = Set(mode, e, "err") /\ UNCHANGED <<ctlq, qt>>
         ELSE /\ ctlq' = Set(ctlq, e, [ctlq[e] EXCEPT ![qt[e] % NRecv[e]] = wc.slot])
              /\ qt' = Set(qt, e, qt[e] + 1)
              /\ UNCHANGED mode
    /\ UNCHANGED <<sendOut, writes, credit, rq, slot, qh, imm>>

\* One completion of a batch: the first of a call comes only to a caller that
\* waits, the others whether it still would or not.
HandleWc(e) ==
  /\ Running(e) /\ cq[e] # << >>
  /\ (Idle(e) /\ Waits(e)) \/ polled[e] \in 1..Batch - 1
  /\ HandleSent(e) \/ HandleImm(e) \/ HandleCredit(e) \/ HandleFrame(e)
  /\ cq' = Set(cq, e, Tail(cq[e])) /\ polled' = Set(polled, e, polled[e] + 1)
  /\ UNCHANGED <<plan, pc, off, out, readVars, wire, acks>>

\* Mutant: a batch of two is taken for a timeout.
PollReturnsTwo(e) ==
  /\ mode[e] = "run" /\ polled[e] > 0
  /\ polled' = Set(polled, e, 0)
  /\ mode' = IF In(e, "recv") /\ polled[e] = 2 THEN Set(mode, e, "timeout") ELSE mode
  /\ UNCHANGED <<plan, pc, sendVars, recvVars, readVars, netVars>>

\* poll_cq_to returns how many there were; ibx_ctl_recv asks whether that means
\* a timeout.
PollReturns(e) ==
  /\ mode[e] = "run" /\ polled[e] > 0
  /\ polled' = Set(polled, e, 0)
  /\ mode' = IF In(e, "recv") /\ polled[e] = POLL_TIMEOUT
               THEN Set(mode, e, "timeout") ELSE mode
  /\ UNCHANGED <<plan, pc, sendVars, recvVars, readVars, netVars>>

-----------------------------------------------------------------------------
(* The calls.                                                               *)

Returns(e) == pc' = Set(pc, e, pc[e] + 1)
Smaller(a, b) == IF a <= b THEN a ELSE b

\* The frame goes into the send slot and from there on the wire.
Post(e, frame) ==
  /\ out' = Set(out, e, frame) /\ sendOut' = Set(sendOut, e, sendOut[e] + 1)
  /\ wire' = Set(wire, Peer[e], Append(wire[Peer[e]], "frame"))

\* Mutant: the send slot is used again before its frame is acknowledged.
SendFrameEarly(e) ==
  LET left == Len(Call(e).msg) - off[e]
      n == Smaller(left, CTL_PAY)
  IN /\ In(e, "send") /\ Idle(e) /\ Len(Call(e).msg) <= CTL_MAX /\ left > 0
     /\ Post(e, [load |-> SubSeq(Call(e).msg, off[e] + 1, off[e] + n),
                 last |-> left = n, cred |-> FALSE])
     /\ off' = Set(off, e, off[e] + n)
     /\ UNCHANGED <<plan, pc, mode, polled, writes, credit, recvVars, readVars, acks, cq>>

\* The loop of ctl_send_flagged: the next frame, once the last one has landed.
SendFrame(e) ==
  LET left == Len(Call(e).msg) - off[e]
      n == Smaller(left, CTL_PAY)
  IN /\ In(e, "send") /\ Idle(e) /\ sendOut[e] = 0 /\ Len(Call(e).msg) <= CTL_MAX
     /\ left > 0
     /\ Post(e, [load |-> SubSeq(Call(e).msg, off[e] + 1, off[e] + n),
                 last |-> left = n, cred |-> FALSE])
     /\ off' = Set(off, e, off[e] + n)
     /\ UNCHANGED <<plan, pc, mode, polled, writes, credit, recvVars, readVars, acks, cq>>

SendDone(e) ==
  /\ In(e, "send") /\ Idle(e) /\ sendOut[e] = 0 /\ off[e] = Len(Call(e).msg)
  /\ Returns(e) /\ off' = Set(off, e, 0)
  /\ UNCHANGED <<plan, mode, polled, out, sendOut, writes, credit, recvVars, readVars, netVars>>

\* ctl_send refuses a message that is too long.
SendRefused(e) ==
  /\ In(e, "send") /\ off[e] = 0 /\ Len(Call(e).msg) > CTL_MAX
  /\ mode' = Set(mode, e, "err")
  /\ UNCHANGED <<plan, pc, polled, sendVars, recvVars, readVars, netVars>>

\* Credit is a message of one frame from the same slot.
CreditFrame(e) ==
  /\ In(e, "credit") /\ Idle(e) /\ sendOut[e] = 0 /\ off[e] = 0
  /\ Post(e, [load |-> <<Call(e).count>>, last |-> TRUE, cred |-> TRUE])
  /\ off' = Set(off, e, 1)
  /\ UNCHANGED <<plan, pc, mode, polled, writes, credit, recvVars, readVars, acks, cq>>

CreditDone(e) ==
  /\ In(e, "credit") /\ Idle(e) /\ sendOut[e] = 0 /\ off[e] = 1
  /\ Returns(e) /\ off' = Set(off, e, 0)
  /\ UNCHANGED <<plan, mode, polled, out, sendOut, writes, credit, recvVars, readVars, netVars>>

\* Mutant: the ring is read modulo a constant that is not its capacity, as the
\* code once did (ibx.c:465).
NextSlotModTwo(e) == ctlq[e][qh[e] % 2]

NextSlot(e) == ctlq[e][qh[e] % NRecv[e]]

\* The loop of ibx_ctl_recv: the next frame is copied and its slot posted again;
\* the last one completes the message.
ReadFrame(e) ==
  LET f == slot[e][NextSlot(e)]
      msg == got[e] \o f.load
  IN /\ In(e, "recv") /\ Idle(e) /\ qh[e] # qt[e]
     /\ qh' = Set(qh, e, qh[e] + 1)
     /\ IF Len(msg) > CTL_MAX
          THEN /\ mode' = Set(mode, e, "err")
               /\ UNCHANGED <<plan, pc, rq, got, rcvd>>
          ELSE /\ rq' = Set(rq, e, Append(rq[e], NextSlot(e)))
               /\ IF f.last
                    THEN /\ rcvd' = Set(rcvd, e, Append(rcvd[e], msg))
                         /\ plan' = Set(plan, e, plan[e] \o GoesOn(e, Len(rcvd'[e]), msg))
                         /\ got' = Set(got, e, << >>) /\ Returns(e)
                    ELSE got' = Set(got, e, msg) /\ UNCHANGED <<plan, pc, rcvd>>
               /\ UNCHANGED mode
     /\ UNCHANGED <<polled, sendVars, slot, ctlq, qt, imm, netVars>>

\* ibx_send_commit: a WRITE_WITH_IMM is posted and not waited for.
Write(e) ==
  /\ In(e, "write") /\ Idle(e)
  /\ Returns(e) /\ writes' = Set(writes, e, writes[e] + 1)
  /\ wire' = Set(wire, Peer[e], Append(wire[Peer[e]], "imm"))
  /\ UNCHANGED <<plan, mode, polled, off, out, sendOut, credit, recvVars, readVars, acks, cq>>

\* ibx_send_drain and ibx_send_acquire return.
WaitDone(e) ==
  /\ Idle(e)
  /\ \/ In(e, "drain") /\ writes[e] = 0
     \/ In(e, "acquire") /\ credit[e] >= Call(e).count
  /\ Returns(e)
  /\ UNCHANGED <<plan, mode, polled, sendVars, recvVars, readVars, netVars>>

\* ibx_recv_next takes an immediate out.
Pop(e) ==
  /\ In(e, "pop") /\ Idle(e) /\ imm[e] > 0
  /\ Returns(e) /\ imm' = Set(imm, e, imm[e] - 1)
  /\ UNCHANGED <<plan, mode, polled, sendVars, rq, slot, ctlq, qh, qt, readVars, netVars>>

EndStep(e) ==
  \/ HandleWc(e) \/ PollReturns(e)
  \/ SendFrame(e) \/ SendDone(e) \/ SendRefused(e) \/ CreditFrame(e) \/ CreditDone(e)
  \/ ReadFrame(e) \/ Write(e) \/ WaitDone(e) \/ Pop(e)

Next == (\E e \in Ends : EndStep(e) \/ Deliver(e) \/ Acknowledge(e)) /\ UNCHANGED job

Spec == Init /\ [][Next]_vars

\* Both threads run and the adapters do what is posted.
Fairness ==
  \A e \in Ends : /\ WF_stepVars(EndStep(e)) /\ WF_stepVars(Deliver(e))
                     /\ WF_stepVars(Acknowledge(e))

FairSpec == Spec /\ Fairness

-----------------------------------------------------------------------------
Frames == [load : Seq(Nat), last : BOOLEAN, cred : BOOLEAN]
Tokens == {"frame", "imm"}
Completions(e) == [kind : {"recv"}, what : Tokens, slot : Slots(e)]
                    \cup [kind : {"sent"}, what : Tokens]

\* The types of the variables.
TypeOK ==
  /\ job \in Jobs
  /\ \A e \in Ends : pc[e] \in 1..Len(plan[e]) + 1
  /\ mode \in [Ends -> {"run", "err", "timeout"}]
  /\ polled \in [Ends -> 0..Batch]
  /\ off \in [Ends -> Nat] /\ out \in [Ends -> Frames]
  /\ sendOut \in [Ends -> 0..1] /\ writes \in [Ends -> 0..Blocks]
  /\ credit \in [Ends -> 0..Blocks]
  /\ \A e \in Ends : /\ rq[e] \in Seq(Slots(e)) /\ slot[e] \in [Slots(e) -> Frames]
                     /\ ctlq[e] \in [Slots(e) -> Slots(e)]
                     /\ cq[e] \in Seq(Completions(e))
  /\ qh \in [Ends -> Nat] /\ qt \in [Ends -> Nat] /\ imm \in [Ends -> 0..ImmCap]
  /\ got \in [Ends -> Seq(Nat)] /\ rcvd \in [Ends -> Seq(Seq(Nat))]
  /\ wire \in [Ends -> Seq(Tokens)] /\ acks \in [Ends -> Seq(Tokens)]

\* The receive slots, the ring and imm_q are wide enough for all that can be on
\* its way, and a batch of completions is never taken for a timeout: no call
\* fails but the send of a message that is too long.
NoCallFails ==
  \A e \in Ends : mode[e] # "run" =>
    /\ e = client /\ mode[e] = "err" /\ Len(Hello) > CTL_MAX /\ rcvd[server] = << >>

\* A receive slot is at one place: posted, holding a completion not handled, or
\* waiting in the ring.
InCq(e) == {cq[e][i].slot : i \in {j \in 1..Len(cq[e]) : cq[e][j].kind = "recv"}}
InRing(e) == {ctlq[e][i % NRecv[e]] : i \in qh[e]..qt[e] - 1}
SlotsConserved ==
  \A e \in Ends :
    /\ ToSet(rq[e]) \cap InCq(e) = {} /\ ToSet(rq[e]) \cap InRing(e) = {}
    /\ InCq(e) \cap InRing(e) = {}
    /\ mode[e] = "run" => ToSet(rq[e]) \cup InCq(e) \cup InRing(e) = Slots(e)

\* Each direction is a queue of whole messages.
SendsIn(calls, n) ==
  LET upTo[k \in 0..Len(calls)] ==
        IF k = 0 THEN << >>
        ELSE IF calls[k].op = "send" THEN Append(upTo[k - 1], calls[k].msg)
        ELSE upTo[k - 1]
  IN upTo[n]
SentBy(e) == SendsIn(plan[e], IF off[e] > 0 THEN pc[e] ELSE pc[e] - 1)

Queues == INSTANCE MessageQueues WITH sent <- [e \in Ends |-> SentBy(e)], delivered <- rcvd

QueuesSpec == Queues!Spec

AtEnd(e) == mode[e] = "run" /\ pc[e] > Len(plan[e])

\* What is read of a message is what was written: the server serves the files of
\* the client's manifest, the client holds the server's reply, and the CRCs are
\* those that were sent.
ReadsBack ==
  /\ AtEnd(client) /\ job.version = VERSION /\ job.does = "transfer" =>
       /\ Manifest_read(Heard(server, rcvd[server][1]).body) = job.manifest
       /\ Reply_read(Heard(client, rcvd[client][1]).body) = ReplyTo(job.manifest)
  /\ AtEnd(client) /\ job.version = VERSION /\ job.does = "probe" =>
       PeerInfo_read(Heard(client, rcvd[client][1]).body) = InfoOfServer
  /\ AtEnd(server) /\ Len(rcvd[server]) = 3 =>
       Trailer_read(Heard(server, rcvd[server][3]).body) = TrailerOf(job.manifest)

\* Programs of different versions both learn it, and learn which version the
\* other one has: "both sides see words for it, instead of one dropping the
\* connection and the other waiting for its limit" (recv.rs:175).
BothToldOfVersions ==
  job.version # VERSION =>
    /\ AtEnd(server) => Heard(server, rcvd[server][1]) = VersionMismatch(job.version)
    /\ AtEnd(client) => Heard(client, rcvd[client][1]) = VersionMismatch(VERSION)

\* Every session of the control channel comes to its end: nobody waits for a
\* frame, a slot or an acknowledgement that does not come.
PlansFinish == <>((AtEnd(client) /\ AtEnd(server)) \/ mode[client] = "err")

=============================================================================
