------------------------------ MODULE Session -------------------------------
(***************************************************************************)
(* Sessions: one receiving daemon (src/src/daemon.rs, Receiver in           *)
(* src/src/recv.rs, ibx_listen_*, ibx_session_end in src/csrc/ibx.c) and    *)
(* several peers that connect to it, a sender (src/src/send.rs) or a probe  *)
(* of the discovery scan (src/src/discover.rs).  A session is: connection   *)
(* set-up through rdma_cm, the first message, the layout of the transfer    *)
(* (Carve), GO, the data plane (SlabPipe, one step here), the trailer, and  *)
(* the tearing down that keeps the registered pool.                         *)
(*                                                                         *)
(* An attempt of a peer to connect is <<peer, number of the attempt>>; the  *)
(* daemon's rdma_cm events are one queue for the listener and the session.  *)
(***************************************************************************)
EXTENDS Carve, Sequences, SequencesExt

CONSTANTS
  Senders, Probes,   \* the peers
  Tries,             \* connection attempts of a sender (20 in send.rs)
  Backlog,           \* unread connection requests that rdma_cm keeps
  MaxDrain,          \* events read by ibx_session_end (8)
  Pool,              \* the daemon's pool in bytes
  Slab,              \* its --slab, or NoOverride
  Total,             \* sender -> bytes to transfer
  Budget,            \* sender -> what it can pin, or Unlimited
  Faults             \* a subset of FaultKinds

\* The registration may fail; the daemon may get no queue pair for a session; a peer may
\* end; the receiver's disk may fail; either side may take longer than the limit of the
\* other one's wait.
FaultKinds == {"pool", "verbs", "die", "stall", "disk"}
Peers == Senders \cup Probes

ASSUME SessionAssumption ==
  /\ Senders \cap Probes = {}
  /\ Tries \in Nat \ {0} /\ Backlog \in Nat \ {0} /\ MaxDrain \in Nat \ {0}
  /\ Pool \in Nat /\ Pool >= HUGE /\ Slab \in Nat
  /\ Total \in [Senders -> Nat] /\ Budget \in [Senders -> Nat]
  /\ Faults \subseteq FaultKinds

VARIABLES
  reg,        \* the registration thread: "run", "ready" or "failed"
  phase,      \* what the daemon is doing
  conn,       \* the attempt behind ibx.id, or NoConn
  drained,    \* events ibx_session_end has read
  cmq,        \* rdma_cm events not read yet
  layout,     \* the layout of the session, or NoLayout
  cut,        \* the session's DISCONNECTED event has been queued
  toD,        \* messages the daemon has received and not read
  inbox,      \* peer -> messages it has received and not read
  peer,       \* peer -> what it is doing
  try,        \* peer -> attempts made
  local       \* sender -> the layout it uses, or NoLayout

daemonVars == <<reg, phase, conn, drained, layout>>
peerVars == <<peer, try, local>>
wireVars == <<cmq, cut, toD, inbox>>
vars == <<daemonVars, wireVars, peerVars>>

NoConn == <<>>
NoLayout == <<>>
Attempt(p) == <<p, try[p]>>
Event(kind, c) == [kind |-> kind, conn |-> c]
Ended == {"done", "failed"}

\* The states of a peer that has a connected queue pair.
Up == {"hello", "wait", "arm", "data"}

\* The daemon's queue pair works until ibx_session_end or the daemon's end.
InSession == phase \in {"establish", "hello", "arm", "go", "data"}

\* Both ends of the connection are there.
Joined(p) == InSession /\ conn = Attempt(p) /\ peer[p] \in Up
PeerIsThere == \E p \in Peers : Joined(p)

\* The attempt has not been given up by its peer.
Alive(c) == \E p \in Peers : c = Attempt(p) /\ peer[p] \in Up \cup {"connecting"}

Init ==
  /\ reg = "run" /\ phase = "pool" /\ conn = NoConn /\ drained = 0
  /\ cmq = << >> /\ cut = FALSE /\ layout = NoLayout /\ toD = << >>
  /\ inbox = [p \in Peers |-> << >>]
  /\ peer = [p \in Peers |-> "start"] /\ try = [p \in Peers |-> 0]
  /\ local = [p \in Senders |-> NoLayout]

-----------------------------------------------------------------------------
(* The background registration and the loop that waits for it.              *)

Registered ==
  /\ reg = "run" /\ reg' = "ready"
  /\ UNCHANGED <<phase, conn, drained, layout, wireVars, peerVars>>

RegistrationFails ==
  /\ "pool" \in Faults
  /\ reg = "run" /\ reg' = "failed"
  /\ UNCHANGED <<phase, conn, drained, layout, wireVars, peerVars>>

PoolProgress ==
  /\ phase = "pool" /\ reg # "run"
  /\ phase' = IF reg = "ready" THEN "accept" ELSE "dead"
  /\ UNCHANGED <<reg, conn, drained, layout, wireVars, peerVars>>

-----------------------------------------------------------------------------
(* ibx_listen_accept.  Any event that is not the expected one is an error   *)
(* of the listener, which ends the daemon.                                  *)

\* 2 s without a request.
AcceptIdle == phase = "accept" /\ cmq = << >> /\ UNCHANGED vars

\* The queue pair is made and rdma_accept answers the request; either may fail, the
\* latter when it already knows that the attempt was given up.
AcceptRequest ==
  /\ phase = "accept" /\ cmq # << >>
  /\ cmq' = Tail(cmq)
  /\ LET e == Head(cmq) IN
       \/ /\ e.kind = "CONNECT_REQUEST"
          /\ phase' = "establish" /\ conn' = e.conn /\ cut' = FALSE
       \/ /\ e.kind = "CONNECT_REQUEST" => "verbs" \in Faults \/ ~Alive(e.conn)
          /\ phase' = "dead" /\ UNCHANGED <<conn, cut>>
  /\ UNCHANGED <<reg, drained, layout, toD, inbox, peerVars>>

AcceptEstablished ==
  /\ phase = "establish" /\ cmq # << >>
  /\ cmq' = Tail(cmq)
  /\ phase' = IF Head(cmq).kind = "ESTABLISHED" THEN "hello" ELSE "dead"
  /\ UNCHANGED <<reg, conn, drained, layout, cut, toD, inbox, peerVars>>

-----------------------------------------------------------------------------
(* Receiver::accept_one: the first message.                                 *)

\* A message of the daemon is acknowledged only if the peer is there.
Answer(m) == IF PeerIsThere
               THEN inbox' = [inbox EXCEPT ![conn[1]] = Append(@, m)]
               ELSE UNCHANGED inbox

Hello ==
  /\ phase = "hello" /\ toD # << >>
  /\ toD' = Tail(toD)
  /\ \/ /\ Head(toD).type = "PROBE"
        /\ Answer([type |-> "PEERINFO"]) /\ phase' = "end"
     \/ /\ Head(toD).type = "TRANSFER"
        /\ phase' = "arm" /\ UNCHANGED inbox
  /\ UNCHANGED <<reg, conn, drained, layout, cmq, cut, peerVars>>

\* Mutant: the wait for the first message has no limit.
HelloForever == FALSE /\ UNCHANGED vars

\* 10 s without a message; a connected peer that works sends one at once.
HelloTimeout ==
  /\ phase = "hello" /\ toD = << >>
  /\ ~PeerIsThere \/ "stall" \in Faults
  /\ phase' = "end"
  /\ UNCHANGED <<reg, conn, drained, layout, wireVars, peerVars>>

-----------------------------------------------------------------------------
(* Receiver::receive: carve, arm, REPLY, GO, data, trailer.                 *)

\* The carving is a function of what the two ends bring.
LayoutFor == [s \in Senders |-> carve(Pool, Total[s], Slab, Budget[s])]

\* The layout is checked by ibx_recv_arm; a refusal ends the session without a
\* word to the sender.
Arm ==
  /\ phase = "arm"
  /\ LET l == LayoutFor[conn[1]] IN
       IF CanArm(Pool, l)
          THEN /\ layout' = [slab |-> Stride(l.slab), nslabs |-> l.nslabs]
               /\ Answer([type |-> "REPLY", layout |-> l])
               /\ phase' = IF PeerIsThere THEN "go" ELSE "end"
          ELSE phase' = "end" /\ UNCHANGED <<layout, inbox>>
  /\ UNCHANGED <<reg, conn, drained, cmq, cut, toD, peerVars>>

\* Mutant: the data plane starts on any message.
GoOnAny ==
  /\ phase = "go" /\ toD # << >>
  /\ toD' = Tail(toD) /\ phase' = "data"
  /\ UNCHANGED <<reg, conn, drained, layout, cmq, cut, inbox, peerVars>>

Go ==
  /\ phase = "go" /\ toD # << >>
  /\ toD' = Tail(toD)
  /\ phase' = IF Head(toD).type = "GO" THEN "data" ELSE "end"
  /\ UNCHANGED <<reg, conn, drained, layout, cmq, cut, inbox, peerVars>>

\* 30 s without GO.
GoTimeout ==
  /\ phase = "go" /\ toD = << >>
  /\ ~PeerIsThere \/ "stall" \in Faults
  /\ phase' = "end"
  /\ UNCHANGED <<reg, conn, drained, layout, wireVars, peerVars>>

\* The end of the stream and the trailer; or the idle limit, once the sender is
\* gone or silent.
Received ==
  /\ phase = "data" /\ toD # << >> /\ Head(toD).type = "TRAILER"
  /\ toD' = Tail(toD) /\ phase' = "end"
  /\ UNCHANGED <<reg, conn, drained, layout, cmq, cut, inbox, peerVars>>

IdleLimit ==
  /\ phase = "data" /\ toD = << >>
  /\ ~PeerIsThere \/ "stall" \in Faults
  /\ phase' = "end"
  /\ UNCHANGED <<reg, conn, drained, layout, wireVars, peerVars>>

\* An error of receive itself: the inbox cannot be made, the disk is full, a
\* block cannot be written.
ReceiveFails ==
  /\ "disk" \in Faults
  /\ phase \in {"arm", "data"}
  /\ phase' = "end"
  /\ UNCHANGED <<reg, conn, drained, layout, wireVars, peerVars>>

-----------------------------------------------------------------------------
(* ibx_session_end: rdma_disconnect, a bounded draining of the event queue, *)
(* then the queue pair and the id are destroyed.                            *)

\* The events that are not of this session, in their order.
OfOthers(q) ==
  LET kept[i \in 0..Len(q)] ==
        IF i = 0 THEN << >>
        ELSE IF q[i].conn # conn THEN Append(kept[i - 1], q[i]) ELSE kept[i - 1]
  IN kept[Len(q)]

\* Destroying the id drops its events; the pool stays registered.
TornDown(q) ==
  /\ phase' = "accept" /\ conn' = NoConn /\ drained' = 0
  /\ layout' = NoLayout /\ toD' = << >>
  /\ cmq' = OfOthers(q)

\* One event of the queue, whatever it is: a request that is read here is never
\* answered.
DrainEvent ==
  /\ phase = "end" /\ cmq # << >>
  /\ IF Head(cmq).kind = "DISCONNECTED" \/ drained + 1 = MaxDrain
       THEN TornDown(Tail(cmq))
       ELSE /\ cmq' = Tail(cmq) /\ drained' = drained + 1
            /\ UNCHANGED <<phase, conn, layout, toD>>
  /\ UNCHANGED <<reg, cut, inbox, peerVars>>

\* Nothing for 150 ms.
DrainTimeout ==
  /\ phase = "end" /\ cmq = << >>
  /\ TornDown(cmq)
  /\ UNCHANGED <<reg, cut, inbox, peerVars>>

-----------------------------------------------------------------------------
(* rdma_cm (external).                                                      *)

\* The disconnection that ibx_session_end asked for is confirmed.
NetDisconnected ==
  /\ phase = "end" /\ ~cut
  /\ cut' = TRUE /\ cmq' = Append(cmq, Event("DISCONNECTED", conn))
  /\ UNCHANGED <<daemonVars, toD, inbox, peerVars>>

\* An accepted attempt whose peer gave up ends in an error event.
NetUnreachable ==
  /\ phase = "establish" /\ ~Alive(conn)
  /\ \A i \in DOMAIN cmq : cmq[i].conn # conn
  /\ cmq' = Append(cmq, Event("UNREACHABLE", conn))
  /\ UNCHANGED <<daemonVars, cut, toD, inbox, peerVars>>

\* What the end of a connected peer leaves in the daemon's event queue.
HangUp(p) ==
  IF Joined(p) /\ ~cut
    THEN cmq' = Append(cmq, Event("DISCONNECTED", conn)) /\ cut' = TRUE
    ELSE UNCHANGED <<cmq, cut>>

-----------------------------------------------------------------------------
(* The peers: ibx_connect with the retries of send_files, or the one try of *)
(* a probe.                                                                 *)

Requests == SelectSeq(cmq, LAMBDA e : e.kind = "CONNECT_REQUEST")

\* Mutant: one attempt too many.
MayRetryOnceMore(p) == p \in Senders /\ try[p] <= Tries

MayRetry(p) == p \in Senders /\ try[p] < Tries

\* A request that finds the backlog full, or no daemon, is rejected.
Connect(p) ==
  /\ peer[p] = "start"
  /\ try' = [try EXCEPT ![p] = @ + 1]
  /\ IF phase # "dead" /\ Len(Requests) < Backlog
       THEN /\ peer' = [peer EXCEPT ![p] = "connecting"]
            /\ cmq' = Append(cmq, Event("CONNECT_REQUEST", <<p, try[p] + 1>>))
       ELSE /\ peer' = [peer EXCEPT ![p] =
                          IF p \in Senders /\ try[p] + 1 < Tries
                            THEN "start" ELSE "failed"]
            /\ UNCHANGED cmq
  /\ UNCHANGED <<daemonVars, cut, toD, inbox, local>>

Established(p) ==
  /\ peer[p] = "connecting" /\ phase = "establish" /\ conn = Attempt(p)
  /\ peer' = [peer EXCEPT ![p] = "hello"]
  /\ cmq' = Append(cmq, Event("ESTABLISHED", conn))
  /\ UNCHANGED <<daemonVars, cut, toD, inbox, try, local>>

\* Mutant: ibx_connect waits for ESTABLISHED without a limit.
ConnectForever(p) == FALSE /\ UNCHANGED vars

\* The request is in the queue or being answered.
Pending(p) ==
  /\ phase # "dead"
  /\ \/ \E i \in DOMAIN cmq : cmq[i].conn = Attempt(p)
     \/ phase = "establish" /\ conn = Attempt(p)

\* 7 s without an answer: the daemon has swallowed the request or ended, or it is
\* busy (registering its pool, serving another peer) for so long.
ConnectTimeout(p) ==
  /\ peer[p] = "connecting"
  /\ ~Pending(p) \/ "stall" \in Faults
  /\ peer' = [peer EXCEPT ![p] = IF MayRetry(p) THEN "start" ELSE "failed"]
  /\ UNCHANGED <<daemonVars, wireVars, try, local>>

\* The peer's last step; ibx_close disconnects.
Ends(p, how) == peer' = [peer EXCEPT ![p] = how] /\ HangUp(p)

\* A message goes through only if the daemon's queue pair is there.
Tell(p, m, next) ==
  IF Joined(p)
    THEN /\ toD' = Append(toD, m) /\ peer' = [peer EXCEPT ![p] = next]
         /\ UNCHANGED <<cmq, cut>>
    ELSE Ends(p, "failed") /\ UNCHANGED toD

SendHello(p) ==
  /\ peer[p] = "hello"
  /\ Tell(p, [type |-> IF p \in Senders THEN "TRANSFER" ELSE "PROBE"], "wait")
  /\ UNCHANGED <<daemonVars, inbox, try, local>>

TakeInfo(p) ==
  /\ peer[p] = "wait" /\ inbox[p] # << >> /\ Head(inbox[p]).type = "PEERINFO"
  /\ inbox' = [inbox EXCEPT ![p] = Tail(@)]
  /\ Ends(p, "done")
  /\ UNCHANGED <<daemonVars, toD, try, local>>

TakeReply(s) ==
  /\ peer[s] = "wait" /\ inbox[s] # << >> /\ Head(inbox[s]).type = "REPLY"
  /\ inbox' = [inbox EXCEPT ![s] = Tail(@)]
  /\ local' = [local EXCEPT ![s] = Head(inbox[s]).layout]
  /\ peer' = [peer EXCEPT ![s] = "arm"]
  /\ UNCHANGED <<daemonVars, cmq, cut, toD, try>>

\* 20 s (a sender) or 3 s (a probe) without an answer.
AnswerTimeout(p) ==
  /\ peer[p] = "wait" /\ inbox[p] = << >>
  /\ ~Joined(p) \/ "stall" \in Faults
  /\ Ends(p, "failed")
  /\ UNCHANGED <<daemonVars, toD, inbox, try, local>>

\* The local pool is made of slabs of the peer's size, or the peer is told that
\* it cannot be.
ArmLocal(s) ==
  /\ peer[s] = "arm"
  /\ IF SenderArms(local[s], Budget[s])
       THEN /\ local' = [local EXCEPT ![s] = [slab |-> SenderSlab(@), nslabs |-> @.nslabs]]
            /\ Tell(s, [type |-> "GO"], "data")
       ELSE /\ local' = [local EXCEPT ![s] = NoLayout]
            /\ toD' = IF Joined(s) THEN Append(toD, [type |-> "ABORT"]) ELSE toD
            /\ Ends(s, "failed")
  /\ UNCHANGED <<daemonVars, inbox, try>>

\* The stream is drained and the trailer sent.
DataDone(s) ==
  /\ peer[s] = "data" /\ Joined(s)
  /\ toD' = Append(toD, [type |-> "TRAILER"])
  /\ Ends(s, "done")
  /\ UNCHANGED <<daemonVars, inbox, try, local>>

\* The daemon's session is gone: an outstanding write fails; without one the
\* sender waits for credit that never comes.
DataBroken(s) ==
  /\ peer[s] = "data" /\ ~Joined(s)
  /\ \E how \in {"failed", "stuck"} : peer' = [peer EXCEPT ![s] = how]
  /\ UNCHANGED <<daemonVars, wireVars, try, local>>

\* The peer ends anywhere, by an error of its own or a kill; a machine that
\* crashes does not even disconnect.
Die(p) ==
  /\ "die" \in Faults
  /\ peer[p] \in Up \cup {"connecting"}
  /\ \/ Ends(p, "failed")
     \/ peer' = [peer EXCEPT ![p] = "failed"] /\ UNCHANGED <<cmq, cut>>
  /\ UNCHANGED <<daemonVars, toD, inbox, try, local>>

-----------------------------------------------------------------------------
DaemonStep ==
  \/ Registered \/ PoolProgress
  \/ AcceptIdle \/ AcceptRequest \/ AcceptEstablished
  \/ Hello \/ HelloTimeout \/ Arm \/ Go \/ GoTimeout \/ Received \/ IdleLimit
  \/ DrainEvent \/ DrainTimeout

PeerStep(p) ==
  \/ Connect(p) \/ Established(p) \/ ConnectTimeout(p)
  \/ SendHello(p) \/ TakeInfo(p) \/ AnswerTimeout(p)

SenderStep(s) ==
  TakeReply(s) \/ ArmLocal(s) \/ DataDone(s) \/ DataBroken(s)

Next ==
  \/ DaemonStep \/ RegistrationFails \/ ReceiveFails
  \/ NetDisconnected \/ NetUnreachable
  \/ \E p \in Peers : PeerStep(p) \/ Die(p)
  \/ \E s \in Senders : SenderStep(s)

Spec == Init /\ [][Next]_vars

\* Every thread is scheduled, every limit of a wait ends, and rdma_cm reports the
\* end of an accepted attempt; a probe or a sender is started at will.
Fairness ==
  /\ WF_vars(DaemonStep) /\ WF_vars(NetUnreachable)
  /\ \A p \in Peers : WF_vars(try[p] > 0 /\ PeerStep(p))
  /\ \A s \in Senders : WF_vars(SenderStep(s))

FairSpec == Spec /\ Fairness

-----------------------------------------------------------------------------
Layouts == [slab : Nat, nslabs : Nat]

Messages == {"PROBE", "TRANSFER", "GO", "ABORT", "TRAILER"}

\* The types of the variables.
TypeOK ==
  /\ reg \in {"run", "ready", "failed"}
  /\ phase \in {"pool", "accept", "establish", "hello", "arm", "go", "data",
                "end", "dead"}
  /\ conn \in {NoConn} \cup (Peers \X (1..Tries))
  /\ drained \in 0..MaxDrain - 1 /\ cut \in BOOLEAN
  /\ \A i \in DOMAIN cmq : cmq[i].conn \in Peers \X (1..Tries)
  /\ layout \in Layouts \cup {NoLayout}
  /\ toD \in Seq([type : Messages])
  /\ peer \in [Peers -> {"start", "connecting", "stuck"} \cup Up \cup Ended]
  /\ try \in [Peers -> 0..Tries]
  /\ local \in [Senders -> Layouts \cup {NoLayout}]

\* The two ends of a data plane address the same slots: when the receiver starts
\* to wait for blocks, the sender of this very session has armed its end, with
\* the receiver's own stride and number of slabs.  (recv.rs:250-262 sends the
\* layout, ibx.c:572 rounds it, send.rs:90-122 adopts it and sends GO.)
LayoutAgreed ==
  phase = "data" => local[conn[1]] = layout

\* What tune::carve decides, ibx_recv_arm accepts: ibx_listen_accept makes "as many
\* receive slots as this pool can be cut into: a slab is at least 1 MB, so the limit
\* is pool / 1 MB" (ibx.c:548-550).
CarveAlwaysArms == phase = "arm" => CanArm(Pool, LayoutFor[conn[1]])

\* A daemon, once its pool is registered, outlives whatever its peers do: a peer
\* that goes away or a second one that connects costs at most its own session
\* (daemon.rs:69, "a failed transfer must not take the daemon down").
DaemonSurvives == phase = "dead" => reg = "failed"

\* Every attempt to set up a session ends, in a data plane or an error: the limit
\* of each wait frees a peer whose request was swallowed by ibx_session_end,
\* waited behind a long transfer, or met a daemon that ended.
SetUpEnds ==
  \A p \in Peers :
    peer[p] \in {"connecting", "hello", "wait", "arm"} ~>
      peer[p] \in {"start", "data", "stuck"} \cup Ended

\* The daemon comes back to accepting, whatever a peer does or does not do in its
\* session, unless it ended: each wait of a session has its limit.
ServesAgain == []<>(phase \in {"accept", "dead"})

=============================================================================
