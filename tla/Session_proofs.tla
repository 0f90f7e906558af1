--------------------------- MODULE Session_proofs ---------------------------
(* Proofs about Session for every set of peers, number of tries, backlog,    *)
(* pool and set of faults: which layout the two ends of a session use.       *)
EXTENDS Session, Carve_proofs, Counting

\* The slabs that are carved are whole pages (recv_arm rounds what --slab or a
\* budget asked for, send_files does not).
WholePages ==
  \A s \in Senders : \E k \in Nat \ {0} : LayoutFor[s].slab = k * Page

\* ... and, as for every sender that can pin 2 MB, no smaller than MIN_SLAB.
LargeSlabs == \A s \in Senders : LayoutFor[s].slab >= MIN_SLAB /\ LayoutFor[s].slab <= Pool

-----------------------------------------------------------------------------
(* The inductive invariant.                                                 *)

Committed == {"data", "stuck"} \cup Ended

\* What a sender uses once it has armed.
ArmedLayout(s) == [slab |-> SenderSlab(LayoutFor[s]), nslabs |-> LayoutFor[s].nslabs]

\* What the receiver uses once it has armed.
CarvedLayout(s) == [slab |-> Stride(LayoutFor[s].slab), nslabs |-> LayoutFor[s].nslabs]

\* The maps are maps of their peers, the messages are messages.
Shape ==
  /\ toD \in Seq([type : Messages])
  /\ DOMAIN inbox = Peers /\ DOMAIN peer = Peers /\ DOMAIN local = Senders

\* A peer is told nothing but the layout that was carved for it.
RepliesTo(p) ==
  {[type |-> "PEERINFO"], [type |-> "REPLY", layout |-> LayoutFor[p]]}
Replied == \A p \in Peers : inbox[p] \in Seq(RepliesTo(p))

\* A sender about to arm holds the layout that was carved for it.
Adopted == \A s \in Senders : peer[s] = "arm" => local[s] = LayoutFor[s]

\* The sender of the session has said GO: it stays with the layout it armed.
HasArmed ==
  /\ conn[1] \in Senders /\ peer[conn[1]] \in Committed
  /\ local[conn[1]] = ArmedLayout(conn[1])

\* Nothing is left of the last session when a new one is accepted, and the
\* messages are those of the session's peer.
FreshChannel == phase \in {"pool", "accept"} => toD = << >>
FromThePeer ==
  \A i \in 1..Len(toD) :
    /\ toD[i].type = "TRANSFER" => conn[1] \in Senders
    /\ toD[i].type = "GO" => HasArmed

\* The daemon's place in receive.
Receiving ==
  /\ phase \in {"arm", "go", "data"} => conn[1] \in Senders
  /\ phase \in {"go", "data"} => layout = CarvedLayout(conn[1])
  /\ phase = "data" => HasArmed

SInv == Shape /\ Replied /\ Adopted /\ FreshChannel /\ FromThePeer /\ Receiving

-----------------------------------------------------------------------------
(* The initial states and the steps.                                        *)

LEMMA InitEstablishesSInv == Init => SInv
<1> SUFFICES ASSUME Init PROVE SInv
  OBVIOUS
<1> QED
  BY SessionAssumption
  DEF Init, SInv, Shape, Replied, Adopted, FreshChannel, FromThePeer, Receiving, Peers

\* Reading a message keeps those behind it.
LEMMA TailKeeps ==
  ASSUME toD \in Seq([type : Messages]), toD # << >>, toD' = Tail(toD),
         FromThePeer, UNCHANGED <<conn, peer, local>>
  PROVE  /\ toD' \in Seq([type : Messages]) /\ FromThePeer'
         /\ Head(toD).type = "TRANSFER" => conn[1] \in Senders
         /\ Head(toD).type = "GO" => HasArmed
<1>1. /\ Tail(toD) \in Seq([type : Messages]) /\ Len(Tail(toD)) = Len(toD) - 1
      /\ Len(toD) \in Nat \ {0} /\ Head(toD) = toD[1]
      /\ \A i \in 1..Len(Tail(toD)) : Tail(toD)[i] = toD[i + 1]
  OBVIOUS
<1>2. HasArmed' = HasArmed
  BY DEF HasArmed, ArmedLayout
<1>3. ASSUME NEW i \in 1..Len(toD')
      PROVE  /\ toD'[i].type = "TRANSFER" => conn'[1] \in Senders
             /\ toD'[i].type = "GO" => HasArmed'
  <2>1. i + 1 \in 1..Len(toD) /\ toD'[i] = toD[i + 1]
    BY <1>1, <1>3
  <2> QED
    BY <1>2, <2>1 DEF FromThePeer
<1> QED
  BY <1>1, <1>3 DEF FromThePeer

\* What the daemon knows does not depend on steps of a peer that leave its queue
\* pair and the sender that has armed alone.
LEMMA ArmedStays ==
  ASSUME Shape, UNCHANGED conn, HasArmed,
         peer'[conn[1]] \in Committed, local'[conn[1]] = local[conn[1]]
  PROVE  HasArmed'
BY DEF HasArmed, ArmedLayout

\* Steps of the daemon that read no message and begin no session: they may wait
\* on, give the session up, or end.
LEMMA DaemonMoves ==
  ASSUME SInv, UNCHANGED <<toD, inbox, peer, local, conn, layout>>,
         \/ phase' = phase
         \/ phase' \in {"hello", "end", "dead"}
         \/ phase = "pool" /\ phase' = "accept"
  PROVE  SInv'
<1>1. Shape' /\ Replied' /\ Adopted' /\ FreshChannel'
  BY DEF SInv, Shape, Replied, RepliesTo, Adopted, FreshChannel
<1>2. HasArmed' = HasArmed
  BY DEF HasArmed, ArmedLayout
<1>3. FromThePeer' /\ Receiving'
  BY <1>2 DEF SInv, FromThePeer, Receiving, CarvedLayout
<1> QED
  BY <1>1, <1>3 DEF SInv

\* A message of the peer, of the kinds that say nothing wrong of it.
Says(p, m) ==
  /\ conn[1] = p /\ phase \notin {"pool", "accept"}
  /\ m \in [type : Messages] /\ toD' = Append(toD, m)
  /\ m.type = "TRANSFER" => p \in Senders
  /\ m.type = "GO" => HasArmed'

\* Steps of a peer: it may read a message, take another layout as long as it has
\* not armed one, and tell the daemon something; a peer that has said GO never
\* starts again.
LEMMA PeerMoves ==
  ASSUME SInv, NEW p \in Peers, NEW st, NEW l, NEW m,
         UNCHANGED <<phase, conn, layout>>,
         toD' = toD \/ Says(p, m),
         \/ inbox' = inbox
         \/ inbox[p] # << >> /\ inbox' = [inbox EXCEPT ![p] = Tail(@)],
         peer' = [peer EXCEPT ![p] = st],
         peer[p] \in Committed => st \in Committed,
         \/ local' = local /\ st # "arm"
         \/ /\ p \in Senders /\ peer[p] \notin Committed
            /\ local' = [local EXCEPT ![p] = l]
            /\ st = "arm" => l = LayoutFor[p]
  PROVE  SInv'
<1>1. DOMAIN inbox' = Peers /\ DOMAIN peer' = Peers /\ DOMAIN local' = Senders
  BY DEF SInv, Shape
<1>2. Replied'
  <2> SUFFICES ASSUME NEW q \in Peers PROVE inbox'[q] \in Seq(RepliesTo(q))
    BY DEF Replied, RepliesTo
  <2> DEFINE R == RepliesTo(q)
  <2>1. inbox[q] \in Seq(R)
    BY DEF SInv, Replied
  <2> HIDE DEF R
  <2>2. inbox[q] # << >> => Tail(inbox[q]) \in Seq(R)
    BY <2>1
  <2>3. \/ inbox'[q] = inbox[q]
        \/ inbox[q] # << >> /\ inbox'[q] = Tail(inbox[q])
    BY DEF SInv, Shape
  <2>4. inbox'[q] \in Seq(R)
    BY <2>1, <2>2, <2>3
  <2> QED
    BY <2>4 DEF R
<1>3. Adopted'
  <2> SUFFICES ASSUME NEW s \in Senders, peer'[s] = "arm" PROVE local'[s] = LayoutFor[s]
    BY DEF Adopted
  <2>1. CASE s = p
    BY <2>1 DEF SInv, Shape, Peers
  <2>2. CASE s # p
    <3>1. peer'[s] = peer[s] /\ local'[s] = local[s]
      BY <2>2 DEF SInv, Shape, Peers
    <3> QED
      BY <3>1 DEF SInv, Adopted
  <2> QED
    BY <2>1, <2>2
<1>4. HasArmed => HasArmed'
  <2> SUFFICES ASSUME HasArmed PROVE HasArmed'
    OBVIOUS
  <2>1. peer'[conn[1]] \in Committed /\ local'[conn[1]] = local[conn[1]]
    BY DEF HasArmed, SInv, Shape, Peers
  <2> QED
    BY <2>1, ArmedStays DEF SInv
<1>5. /\ toD' \in Seq([type : Messages]) /\ FreshChannel'
      /\ FromThePeer'
  <2>1. CASE toD' = toD
    BY <1>4, <2>1 DEF SInv, Shape, FreshChannel, FromThePeer
  <2>2. CASE Says(p, m)
    <3>1. toD \in Seq([type : Messages]) /\ m \in [type : Messages]
      BY <2>2 DEF Says, SInv, Shape
    <3>2. /\ toD' \in Seq([type : Messages]) /\ Len(toD') = Len(toD) + 1 /\ Len(toD) \in Nat
          /\ toD'[Len(toD')] = m /\ \A i \in 1..Len(toD) : toD'[i] = toD[i]
      BY <2>2, <3>1 DEF Says
    <3>3. ASSUME NEW i \in 1..Len(toD')
          PROVE  /\ toD'[i].type = "TRANSFER" => conn'[1] \in Senders
                 /\ toD'[i].type = "GO" => HasArmed'
      <4>1. i \in 1..Len(toD) \/ i = Len(toD')
        BY <3>2
      <4> QED
        BY <1>4, <2>2, <3>2, <4>1 DEF SInv, FromThePeer, Says
    <3> QED
      BY <2>2, <3>2, <3>3 DEF Says, FreshChannel, FromThePeer
  <2> QED
    BY <2>1, <2>2
<1>6. Receiving'
  BY <1>4 DEF SInv, Receiving, CarvedLayout
<1> QED
  BY <1>1, <1>2, <1>3, <1>5, <1>6 DEF SInv, Shape

\* The daemon answers its peer.
LEMMA AnswerKeeps ==
  ASSUME SInv, NEW m, Answer(m), \A p \in Peers : p = conn[1] => m \in RepliesTo(p)
  PROVE  DOMAIN inbox' = Peers /\ Replied'
<1>1. CASE UNCHANGED inbox
  BY <1>1 DEF SInv, Shape, Replied, RepliesTo
<1>2. CASE PeerIsThere /\ inbox' = [inbox EXCEPT ![conn[1]] = Append(@, m)]
  <2>1. PICK p \in Peers : conn = Attempt(p)
    BY <1>2 DEF PeerIsThere, Joined
  <2>2. conn[1] = p
    BY <2>1 DEF Attempt
  <2>3. DOMAIN inbox' = Peers
    BY <1>2 DEF SInv, Shape
  <2>4. ASSUME NEW q \in Peers PROVE inbox'[q] \in Seq(RepliesTo(q))
    <3>1. inbox[q] \in Seq(RepliesTo(q)) /\ (q = p => m \in RepliesTo(q))
      BY <2>2 DEF SInv, Replied
    <3>2. q = p => Append(inbox[q], m) \in Seq(RepliesTo(q))
      BY <3>1
    <3> QED
      BY <1>2, <2>2, <3>1, <3>2 DEF SInv, Shape
  <2> QED
    BY <2>3, <2>4 DEF Replied, RepliesTo
<1> QED
  BY <1>1, <1>2 DEF Answer

-----------------------------------------------------------------------------
(* One step per action.                                                     *)

\* A first message, read by the daemon, keeps the invariant.
LEMMA HelloKeeps == ASSUME SInv, Hello PROVE SInv'
<1>1. toD \in Seq([type : Messages]) /\ toD # << >> /\ toD' = Tail(toD)
  BY DEF Hello, SInv, Shape
<1>2. UNCHANGED <<conn, layout, peer, local>>
  BY DEF Hello, peerVars
<1>3. /\ toD' \in Seq([type : Messages]) /\ FromThePeer'
      /\ Head(toD).type = "TRANSFER" => conn[1] \in Senders
  BY <1>1, <1>2, TailKeeps DEF SInv
<1>4. /\ phase' = "end" \/ (phase' = "arm" /\ conn[1] \in Senders)
      /\ UNCHANGED inbox \/ Answer([type |-> "PEERINFO"])
  BY <1>3 DEF Hello
<1>5. DOMAIN inbox' = Peers /\ Replied'
  <2>1. CASE UNCHANGED inbox
    BY <2>1 DEF SInv, Shape, Replied, RepliesTo
  <2>2. CASE Answer([type |-> "PEERINFO"])
    BY <2>2, AnswerKeeps DEF RepliesTo
  <2> QED
    BY <1>4, <2>1, <2>2
<1>6. Adopted' /\ FreshChannel' /\ Receiving'
  BY <1>2, <1>4 DEF SInv, Adopted, FreshChannel, Receiving
<1> QED
  BY <1>2, <1>3, <1>5, <1>6 DEF SInv, Shape

\* Arming: the layout that is sent is the one the receiver uses.
LEMMA ArmKeeps == ASSUME SInv, Arm PROVE SInv'
<1> DEFINE l == LayoutFor[conn[1]]
           reply == [type |-> "REPLY", layout |-> l]
<1>1. UNCHANGED <<toD, conn, peer, local>> /\ phase = "arm" /\ phase' \in {"go", "end"}
  BY DEF Arm, peerVars
<1>2. /\ UNCHANGED inbox \/ Answer(reply)
      /\ phase' = "go" => layout' = CarvedLayout(conn[1])
  BY DEF Arm, CarvedLayout
<1>3. DOMAIN inbox' = Peers /\ Replied'
  <2>1. CASE UNCHANGED inbox
    BY <2>1 DEF SInv, Shape, Replied, RepliesTo
  <2>2. CASE Answer(reply)
    <3>1. \A p \in Peers : p = conn[1] => reply \in RepliesTo(p)
      BY DEF RepliesTo
    <3> HIDE DEF reply
    <3> QED
      BY <2>2, <3>1, AnswerKeeps
  <2> QED
    BY <1>2, <2>1, <2>2
<1>4. HasArmed' = HasArmed
  BY <1>1 DEF HasArmed, ArmedLayout
<1>5. Adopted' /\ FreshChannel' /\ FromThePeer' /\ Receiving'
  BY <1>1, <1>2, <1>4
  DEF SInv, Adopted, FreshChannel, FromThePeer, Receiving, CarvedLayout
<1> QED
  BY <1>1, <1>3, <1>5 DEF SInv, Shape

\* GO or the trailer, read by the daemon.
LEMMA ReadKeeps ==
  ASSUME SInv, Go \/ Received
  PROVE  SInv'
<1>1. /\ toD \in Seq([type : Messages]) /\ toD # << >> /\ toD' = Tail(toD)
      /\ UNCHANGED <<conn, layout, inbox, peer, local>>
  BY DEF Go, Received, peerVars, SInv, Shape
<1>2. /\ toD' \in Seq([type : Messages]) /\ FromThePeer'
      /\ Head(toD).type = "GO" => HasArmed
  BY <1>1, TailKeeps DEF SInv
<1>3. HasArmed' = HasArmed
  BY <1>1 DEF HasArmed, ArmedLayout
<1>4. phase' = "end" \/ (phase = "go" /\ phase' = "data" /\ HasArmed)
  BY <1>2 DEF Go, Received
<1>5. Replied' /\ Adopted' /\ FreshChannel' /\ Receiving'
  BY <1>1, <1>3, <1>4
  DEF SInv, Replied, RepliesTo, Adopted, FreshChannel, Receiving, CarvedLayout
<1> QED
  BY <1>1, <1>2, <1>5 DEF SInv, Shape

\* Accepting a request or tearing a session down: the channel is empty.
LEMMA FreshKeeps ==
  ASSUME SInv, UNCHANGED <<inbox, peer, local>>, toD' = << >>,
         phase' \in {"accept", "establish", "dead"}
  PROVE  SInv'
<1>1. Shape' /\ Replied' /\ Adopted'
  BY DEF SInv, Shape, Replied, RepliesTo, Adopted
<1>2. FreshChannel' /\ FromThePeer' /\ Receiving'
  BY DEF FreshChannel, FromThePeer, Receiving
<1> QED
  BY <1>1, <1>2 DEF SInv

\* Steps of the daemon.
LEMMA DaemonKeeps == ASSUME SInv, DaemonStep \/ ReceiveFails \/ RegistrationFails PROVE SInv'
<1>1. CASE Registered \/ RegistrationFails \/ PoolProgress \/ AcceptIdle
  <2>1. /\ UNCHANGED <<toD, inbox, peer, local, conn, layout>>
        /\ \/ phase' = phase
           \/ phase' \in {"hello", "end", "dead"}
           \/ phase = "pool" /\ phase' = "accept"
    BY <1>1 DEF Registered, RegistrationFails, PoolProgress, AcceptIdle, vars, daemonVars,
                wireVars, peerVars
  <2> QED
    BY <2>1, DaemonMoves
<1>2. CASE AcceptEstablished \/ HelloTimeout \/ GoTimeout \/ IdleLimit \/ ReceiveFails
  <2>1. /\ UNCHANGED <<toD, inbox, peer, local, conn, layout>>
        /\ phase' \in {"hello", "end", "dead"}
    BY <1>2 DEF AcceptEstablished, HelloTimeout, GoTimeout, IdleLimit, ReceiveFails,
                wireVars, peerVars
  <2> QED
    BY <2>1, DaemonMoves
<1>3. CASE AcceptRequest
  <2>1. toD = << >> /\ UNCHANGED <<toD, inbox, peer, local>>
        /\ phase' \in {"establish", "dead"}
    BY <1>3 DEF AcceptRequest, peerVars, SInv, FreshChannel
  <2> QED
    BY <2>1, FreshKeeps
<1>4. CASE Hello
  BY <1>4, HelloKeeps
<1>5. CASE Arm
  BY <1>5, ArmKeeps
<1>6. CASE Go \/ Received
  BY <1>6, ReadKeeps
<1>7. CASE DrainEvent \/ DrainTimeout
  <2>1. UNCHANGED <<inbox, peer, local>>
    BY <1>7 DEF DrainEvent, DrainTimeout, peerVars
  <2>2. CASE toD' = << >> /\ phase' = "accept"
    BY <2>1, <2>2, FreshKeeps
  <2>3. CASE UNCHANGED <<toD, phase, conn, layout>>
    BY <2>1, <2>3, DaemonMoves
  <2> QED
    BY <1>7, <2>2, <2>3 DEF DrainEvent, DrainTimeout, TornDown
<1> QED
  BY <1>1, <1>2, <1>3, <1>4, <1>5, <1>6, <1>7 DEF DaemonStep

\* A peer's last step, or its failure, says nothing.
LEMMA EndKeeps ==
  ASSUME SInv, NEW p \in Peers, NEW st, st \in {"failed", "done", "stuck"},
         UNCHANGED <<phase, conn, layout, toD, local>>,
         \/ inbox' = inbox
         \/ inbox[p] # << >> /\ inbox' = [inbox EXCEPT ![p] = Tail(@)],
         peer' = [peer EXCEPT ![p] = st]
  PROVE  SInv'
<1>1. st # "arm" /\ st \in Committed
  BY DEF Committed, Ended
<1> QED
  BY <1>1, PeerMoves

\* The steps every peer takes.
LEMMA PeerKeeps ==
  ASSUME SInv, NEW p \in Peers, PeerStep(p) \/ Die(p)
  PROVE  SInv'
<1> USE DEF daemonVars, wireVars, Ends
<1>1. CASE Connect(p) \/ Established(p) \/ ConnectTimeout(p)
  <2>1. PICK st : /\ peer' = [peer EXCEPT ![p] = st]
                  /\ st # "arm" /\ peer[p] \notin Committed
    BY <1>1 DEF Connect, Established, ConnectTimeout, Committed, Ended
  <2>2. UNCHANGED <<phase, conn, layout, toD, local, inbox>>
    BY <1>1 DEF Connect, Established, ConnectTimeout
  <2> QED
    BY <2>1, <2>2, PeerMoves
<1>2. CASE SendHello(p)
  <2> DEFINE m == [type |-> IF p \in Senders THEN "TRANSFER" ELSE "PROBE"]
  <2>1. UNCHANGED <<phase, conn, layout, local, inbox>> /\ peer[p] = "hello"
    BY <1>2 DEF SendHello
  <2>2. CASE Joined(p)
    <3>1. toD' = Append(toD, m) /\ peer' = [peer EXCEPT ![p] = "wait"]
      BY <1>2, <2>2 DEF SendHello, Tell
    <3>2. Says(p, m)
      BY <2>2, <3>1 DEF Says, Joined, InSession, Attempt, Messages
    <3>3. peer[p] \notin Committed
      BY <2>1 DEF Committed, Ended
    <3> HIDE DEF m
    <3> QED
      BY <2>1, <3>1, <3>2, <3>3, PeerMoves
  <2>3. CASE ~Joined(p)
    <3>1. toD' = toD /\ peer' = [peer EXCEPT ![p] = "failed"]
      BY <1>2, <2>3 DEF SendHello, Tell
    <3> QED
      BY <2>1, <3>1, EndKeeps
  <2> QED
    BY <2>2, <2>3
<1>3. CASE TakeInfo(p)
  <2>1. /\ UNCHANGED <<phase, conn, layout, toD, local>>
        /\ inbox[p] # << >> /\ inbox' = [inbox EXCEPT ![p] = Tail(@)]
        /\ peer' = [peer EXCEPT ![p] = "done"]
    BY <1>3 DEF TakeInfo
  <2> QED
    BY <2>1, EndKeeps
<1>4. CASE AnswerTimeout(p) \/ Die(p)
  <2>1. /\ UNCHANGED <<phase, conn, layout, toD, local, inbox>>
        /\ peer' = [peer EXCEPT ![p] = "failed"]
    BY <1>4 DEF AnswerTimeout, Die
  <2> QED
    BY <2>1, EndKeeps
<1> QED
  BY <1>1, <1>2, <1>3, <1>4 DEF PeerStep

\* Adopting the receiver's layout and arming with it, or refusing it.
LEMMA ArmLocalKeeps ==
  ASSUME SInv, NEW s \in Senders, ArmLocal(s)
  PROVE  SInv'
<1> USE DEF daemonVars, Ends
<1>1. UNCHANGED <<phase, conn, layout, inbox>> /\ peer[s] = "arm" /\ s \in Peers
  BY DEF ArmLocal, Peers
<1>2. peer[s] \notin Committed
  BY <1>1 DEF Committed, Ended
<1>3. CASE SenderArms(local[s], Budget[s])
  <2> DEFINE l == [slab |-> SenderSlab(local[s]), nslabs |-> local[s].nslabs]
             m == [type |-> "GO"]
  <2>1. local' = [local EXCEPT ![s] = l] /\ l = ArmedLayout(s)
    BY <1>1, <1>3 DEF ArmLocal, SInv, Adopted, ArmedLayout
  <2>2. CASE Joined(s)
    <3>1. toD' = Append(toD, m) /\ peer' = [peer EXCEPT ![s] = "data"]
      BY <1>3, <2>2 DEF ArmLocal, Tell
    <3>2. conn[1] = s /\ phase \notin {"pool", "accept"}
      BY <2>2 DEF Joined, InSession, Attempt
    <3>3. HasArmed'
      <4>1. conn'[1] = s /\ local'[s] = ArmedLayout(s) /\ peer'[s] = "data"
        BY <1>1, <2>1, <3>1, <3>2 DEF SInv, Shape
      <4> QED
        BY <4>1 DEF HasArmed, ArmedLayout, Committed
    <3>4. Says(s, m)
      BY <3>1, <3>2, <3>3 DEF Says, Messages
    <3> HIDE DEF l, m
    <3> QED
      BY <1>1, <1>2, <2>1, <3>1, <3>4, PeerMoves
  <2>3. CASE ~Joined(s)
    <3>1. toD' = toD /\ peer' = [peer EXCEPT ![s] = "failed"]
      BY <1>3, <2>3 DEF ArmLocal, Tell
    <3> HIDE DEF l
    <3> QED
      BY <1>1, <1>2, <2>1, <3>1, PeerMoves
  <2> QED
    BY <2>2, <2>3
<1>4. CASE ~SenderArms(local[s], Budget[s])
  <2> DEFINE m == [type |-> "ABORT"]
  <2>1. /\ local' = [local EXCEPT ![s] = NoLayout]
        /\ toD' = IF Joined(s) THEN Append(toD, m) ELSE toD
        /\ peer' = [peer EXCEPT ![s] = "failed"]
    BY <1>4 DEF ArmLocal
  <2>2. toD' = toD \/ Says(s, m)
    BY <2>1 DEF Says, Joined, InSession, Attempt, Messages
  <2> HIDE DEF m
  <2> QED
    BY <1>1, <1>2, <2>1, <2>2, PeerMoves
<1> QED
  BY <1>3, <1>4

\* The other steps of a sender.
LEMMA SenderKeeps ==
  ASSUME SInv, NEW s \in Senders, SenderStep(s)
  PROVE  SInv'
<1> USE DEF daemonVars, Ends
<1>1. s \in Peers
  BY DEF Peers
<1>2. CASE TakeReply(s)
  <2> DEFINE l == Head(inbox[s]).layout
  <2>1. /\ UNCHANGED <<phase, conn, layout, toD>>
        /\ inbox[s] # << >> /\ inbox' = [inbox EXCEPT ![s] = Tail(@)]
        /\ local' = [local EXCEPT ![s] = l]
        /\ peer' = [peer EXCEPT ![s] = "arm"] /\ peer[s] = "wait"
    BY <1>2 DEF TakeReply
  <2>2. Head(inbox[s]) \in RepliesTo(s) /\ Head(inbox[s]).type = "REPLY"
    <3> DEFINE R == RepliesTo(s)
    <3>1. inbox[s] \in Seq(R)
      BY <1>1 DEF SInv, Replied
    <3> HIDE DEF R
    <3>2. Head(inbox[s]) \in R
      BY <2>1, <3>1
    <3> QED
      BY <1>2, <3>2 DEF TakeReply, R
  <2>3. l = LayoutFor[s]
    BY <2>2 DEF RepliesTo
  <2>4. peer[s] \notin Committed
    BY <2>1 DEF Committed, Ended
  <2> HIDE DEF l
  <2> QED
    BY <1>1, <2>1, <2>3, <2>4, PeerMoves
<1>3. CASE ArmLocal(s)
  BY <1>3, ArmLocalKeeps
<1>4. CASE DataDone(s)
  <2> DEFINE m == [type |-> "TRAILER"]
  <2>1. /\ UNCHANGED <<phase, conn, layout, local, inbox>>
        /\ toD' = Append(toD, m) /\ peer' = [peer EXCEPT ![s] = "done"]
        /\ Joined(s)
    BY <1>4 DEF DataDone
  <2>2. Says(s, m)
    BY <2>1 DEF Says, Joined, InSession, Attempt, Messages
  <2>3. "done" \in Committed
    BY DEF Committed, Ended
  <2> HIDE DEF m
  <2> QED
    BY <1>1, <2>1, <2>2, <2>3, PeerMoves
<1>5. CASE DataBroken(s)
  <2>1. PICK st : st \in {"failed", "stuck"} /\ peer' = [peer EXCEPT ![s] = st]
    BY <1>5 DEF DataBroken
  <2>2. UNCHANGED <<phase, conn, layout, toD, local, inbox>>
    BY <1>5 DEF DataBroken, wireVars
  <2> QED
    BY <1>1, <2>1, <2>2, EndKeeps
<1> QED
  BY <1>2, <1>3, <1>4, <1>5 DEF SenderStep

\* Every step keeps the invariant.
LEMMA NextKeepsSInv == SInv /\ [Next]_vars => SInv'
<1> SUFFICES ASSUME SInv, [Next]_vars PROVE SInv'
  OBVIOUS
<1>1. CASE DaemonStep \/ RegistrationFails \/ ReceiveFails
  BY <1>1, DaemonKeeps
<1>2. CASE NetDisconnected \/ NetUnreachable \/ UNCHANGED vars
  <2>1. UNCHANGED <<phase, toD, inbox, peer, local, conn, layout>>
    BY <1>2 DEF NetDisconnected, NetUnreachable, vars, daemonVars, wireVars, peerVars
  <2> QED
    BY <2>1, DaemonMoves
<1>3. CASE \E p \in Peers : PeerStep(p) \/ Die(p)
  BY <1>3, PeerKeeps
<1>4. CASE \E s \in Senders : SenderStep(s)
  BY <1>4, SenderKeeps
<1> QED
  BY <1>1, <1>2, <1>3, <1>4 DEF Next

\* The inductive invariant holds throughout.
THEOREM SessionInvariant == Spec => []SInv
<1> QED
  BY InitEstablishesSInv, NextKeepsSInv, PTL DEF Spec

-----------------------------------------------------------------------------
(* What follows.                                                            *)

\* For whole pages the two roundings (ibx.c:572, send.rs) agree, so the receiver
\* never waits for blocks in other slots than those its sender writes to.
THEOREM LayoutAgreement ==
  ASSUME WholePages
  PROVE  Spec => []LayoutAgreed
<1>1. ASSUME NEW s \in Senders PROVE CarvedLayout(s) = ArmedLayout(s)
  <2>1. PICK k \in Nat \ {0} : LayoutFor[s].slab = k * Page
    BY <1>1 DEF WholePages
  <2>2. Stride(k * Page) = k * Page /\ k * Page >= Page
    BY DEF Stride, CeilDiv, Page
  <2>3. SenderSlab(LayoutFor[s]) = Stride(LayoutFor[s].slab)
    BY <2>1, <2>2 DEF SenderSlab, AtLeast
  <2> QED
    BY <2>3 DEF CarvedLayout, ArmedLayout
<1>2. SInv => LayoutAgreed
  BY <1>1 DEF SInv, Receiving, HasArmed, LayoutAgreed
<1> QED
  BY <1>2, SessionInvariant, PTL

\* ibx_recv_arm never refuses what was carved, if the sender can pin 2 MB and
\* --slab does not ask for less.
THEOREM CarvedLayoutIsAccepted ==
  ASSUME WholePages, LargeSlabs
  PROVE  Spec => []CarveAlwaysArms
<1>1. ASSUME NEW s \in Senders PROVE CanArm(Pool, LayoutFor[s])
  <2> DEFINE slab == SlabSize(Pool, Total[s], Slab, Budget[s])
             useful == Useful(Pool, Total[s])
  <2>1. LayoutFor[s] = [slab |-> slab, nslabs |-> SlabCount(Pool, useful, slab)]
    BY <1>1 DEF LayoutFor, carve
  <2>2. useful \in Nat /\ Pool \in Nat
    BY <1>1, SessionAssumption
    DEF Useful, AtMost, AtLeast, MIN_SLAB, MIN_SLABS, MB, HUGE
  <2>3. PICK pages \in Nat : slab = pages * Page
    <3>1. PICK k \in Nat \ {0} : LayoutFor[s].slab = k * Page
      BY <1>1 DEF WholePages
    <3> QED
      BY <2>1, <3>1
  <2>4. slab >= MIN_SLAB /\ slab <= Pool
    BY <1>1, <2>1 DEF LargeSlabs
  <2> HIDE DEF slab, useful
  <2> QED
    BY <2>1, <2>2, <2>3, <2>4, ArmAcceptsCarved
<1>2. SInv => CarveAlwaysArms
  BY <1>1 DEF SInv, Receiving, CarveAlwaysArms
<1> QED
  BY <1>2, SessionInvariant, PTL

\* Both hold with the defaults: no --slab, and senders that may pin any amount.
THEOREM DefaultsAgree ==
  ASSUME Slab = NoOverride, \A s \in Senders : Budget[s] = Unlimited
  PROVE  Spec => [](LayoutAgreed /\ CarveAlwaysArms)
<1>1. ASSUME NEW s \in Senders
      PROVE  /\ \E k \in Nat \ {0} : LayoutFor[s].slab = k * Page
             /\ LayoutFor[s].slab >= MIN_SLAB /\ LayoutFor[s].slab <= Pool
  <2>1. LayoutFor[s].slab = SlabSize(Pool, Total[s], NoOverride, Unlimited)
    BY <1>1 DEF LayoutFor, carve
  <2>2. PICK k \in 1..16 : LayoutFor[s].slab = k * MIN_SLAB /\ k * MIN_SLAB <= Pool
    BY <1>1, <2>1, SessionAssumption, DefaultSlab
  <2>3. k * MIN_SLAB = (256 * k) * Page /\ k * MIN_SLAB >= MIN_SLAB /\ 256 * k \in Nat \ {0}
    BY DEF MIN_SLAB, MB, Page
  <2> QED
    BY <2>2, <2>3
<1>2. WholePages /\ LargeSlabs
  BY <1>1 DEF WholePages, LargeSlabs
<1>3. Spec => []LayoutAgreed
  BY <1>2, LayoutAgreement
<1>4. Spec => []CarveAlwaysArms
  BY <1>2, CarvedLayoutIsAccepted
<1> QED
  BY <1>3, <1>4, PTL

-----------------------------------------------------------------------------
(* The types.                                                               *)

Attempts == Peers \X (1..Tries)
Events ==
  [kind : {"CONNECT_REQUEST", "ESTABLISHED", "DISCONNECTED", "UNREACHABLE"}, conn : Attempts]

\* The daemon is in a session, or tears it down.
Connected == {"establish", "hello", "arm", "go", "data", "end"}

Daemon ==
  /\ reg \in {"run", "ready", "failed"} /\ phase \in {"pool", "accept", "dead"} \cup Connected
  /\ drained \in 0..MaxDrain - 1 /\ cut \in BOOLEAN

\* There is an attempt behind a session, and an event is one of an attempt.
Known ==
  /\ conn \in {NoConn} \cup Attempts /\ (phase \in Connected => conn \in Attempts)
  /\ cmq \in Seq(Events)

\* A peer that is about to connect has an attempt left.
Tried ==
  /\ peer \in [Peers -> {"start", "connecting", "stuck"} \cup Up \cup Ended]
  /\ try \in [Peers -> 0..Tries]
  /\ \A p \in Peers : peer[p] = "start" => try[p] < Tries

Measured == layout \in Layouts \cup {NoLayout} /\ local \in [Senders -> Layouts \cup {NoLayout}]

TInv == Daemon /\ Known /\ Tried /\ Measured

\* What the daemon leaves of its event queue when a session ends are events.
LEMMA KeptEvents ==
  ASSUME NEW q \in Seq(Events)
  PROVE  OfOthers(q) \in Seq(Events)
<1> DEFINE W == Seq(Events)
           L == Len(q)
           other(k) == q[k].conn # conn
           g == [k \in 1..L |-> [w \in W |-> IF other(k) THEN Append(w, q[k]) ELSE w]]
           IsKept(f) == f = [i \in 0..L |-> IF i = 0 THEN << >>
                                            ELSE IF q[i].conn # conn THEN Append(f[i - 1], q[i])
                                            ELSE f[i - 1]]
           kept == CHOOSE f : IsKept(f)
<1>1. L \in Nat /\ \A k \in 1..L : q[k] \in Events
  OBVIOUS
<1>2. g \in [1..L -> [W -> W]]
  <2>1. ASSUME NEW k \in 1..L, NEW w \in W
        PROVE (IF other(k) THEN Append(w, q[k]) ELSE w) \in W
    BY <1>1
  <2> QED
    BY <2>1
<1>3. << >> \in W
  OBVIOUS
<1>4. \A k \in 1..L : \A w \in W : g[k][w] = IF other(k) THEN Append(w, q[k]) ELSE w
  OBVIOUS
<1> HIDE DEF g, W, L
<1>5. PICK f \in [0..L -> W] : Follows(f, L, << >>, g)
  <2>1. L \in Nat
    BY <1>1
  <2> QED
    BY <2>1, <1>2, <1>3, Recursion
<1>6. \A k \in 1..L : f[k] = IF other(k) THEN Append(f[k - 1], q[k]) ELSE f[k - 1]
  <2>1. \A k \in 1..L : k - 1 \in 0..L /\ f[k - 1] \in W
    BY <1>1
  <2> QED
    BY <1>4, <1>5, <2>1 DEF Follows
<1>7. IsKept(f)
  <2>1. \A k \in 0..L : k = 0 \/ k \in 1..L
    BY <1>1
  <2>2. f[0] = << >> /\ f = [i \in 0..L |-> f[i]]
    BY <1>5 DEF Follows
  <2>3. \A i \in 0..L : f[i] = IF i = 0 THEN << >> ELSE IF other(i) THEN Append(f[i - 1], q[i])
                                 ELSE f[i - 1]
    BY <1>6, <2>1, <2>2
  <2> HIDE DEF other
  <2>4. f = [i \in 0..L |-> IF i = 0 THEN << >> ELSE IF other(i) THEN Append(f[i - 1], q[i])
                            ELSE f[i - 1]]
    BY <2>2, <2>3
  <2> QED
    BY <2>4 DEF other
<1>8. IsKept(kept)
  <2> HIDE DEF IsKept
  <2> QED
    BY <1>7 DEF kept
<1> HIDE DEF kept
<1>9. L \in 0..L /\ 0..L \subseteq {k \in 0..L : kept[k] \in W}
  <2> DEFINE T == {k \in 0..L : kept[k] \in W}
  <2>1. 0 \in T /\ L \in 0..L
    BY <1>1, <1>3, <1>8
  <2>2. ASSUME NEW k \in 0..L - 1, k \in T PROVE k + 1 \in T
    <3> DEFINE j == k + 1
    <3>1. j \in 1..L /\ j \in 0..L /\ j - 1 = k /\ j # 0
      BY <1>1
    <3> HIDE DEF j
    <3>2. kept[j] = IF other(j) THEN Append(kept[j - 1], q[j]) ELSE kept[j - 1]
      BY <1>8, <3>1
    <3>3. kept[k] \in W /\ q[j] \in Events
      BY <1>1, <2>2, <3>1
    <3>4. kept[j] \in W
      BY <3>1, <3>2, <3>3 DEF W
    <3> QED
      BY <3>1, <3>4 DEF j
  <2> HIDE DEF T
  <2>3. 0..L \subseteq T
    BY <1>1, <2>1, <2>2, UpTo
  <2> QED
    BY <2>1, <2>3 DEF T
<1>10. OfOthers(q) = kept[L]
  BY DEF OfOthers, kept, L
<1> QED
  BY <1>9, <1>10 DEF W


\* What is carved is a layout, and so is what each end makes of it.
LEMMA LayoutsTyped ==
  ASSUME NEW s \in Senders
  PROVE  /\ LayoutFor[s] \in Layouts
         /\ CarvedLayout(s) \in Layouts /\ ArmedLayout(s) \in Layouts
<1>1. /\ Pool \in Nat /\ Pool >= HUGE /\ Slab \in Nat /\ Total[s] \in Nat /\ Budget[s] \in Nat
  BY SessionAssumption
<1> DEFINE wanted == WantedSlab(Pool, Total[s], Slab)
           slab == SlabSize(Pool, Total[s], Slab, Budget[s])
           useful == Useful(Pool, Total[s])
           nslabs == SlabCount(Pool, useful, slab)
<1>2. \A x \in Nat \ {0} : floor_pow2(x) \in Nat \ {0}
  BY FloorPow2Bounds
<1>3. useful \in Nat
  BY <1>1 DEF Useful, AtMost, AtLeast, MIN_SLAB, MIN_SLABS, MB
<1>4. wanted \in Nat \ {0}
  <2>1. Slab # NoOverride => wanted \in Nat \ {0}
    BY <1>1 DEF WantedSlab, Clamp, AtMost, AtLeast, Page, MAX_SLAB, MB
  <2>2. Slab = NoOverride => wanted \in Nat \ {0}
    <3> DEFINE want == Clamp(useful \div 64, MIN_SLAB, MAX_SLAB)
               m == AtLeast(want \div MIN_SLAB, 1)
               k == AtMost(floor_pow2(m), 16)
    <3>1. want \in Nat
      <4> HIDE DEF useful
      <4> QED
        BY <1>3 DEF Clamp, AtMost, AtLeast, MIN_SLAB, MAX_SLAB, MB
    <3>2. m \in Nat \ {0}
      <4> HIDE DEF want
      <4> QED
        BY <3>1 DEF AtLeast, MIN_SLAB, MB
    <3>3. k \in Nat \ {0}
      <4> HIDE DEF m
      <4> QED
        BY <1>2, <3>2 DEF AtMost
    <3>4. Slab = NoOverride => wanted = MIN_SLAB * k
      BY DEF WantedSlab
    <3> HIDE DEF k
    <3> QED
      BY <3>3, <3>4 DEF MIN_SLAB, MB
  <2> QED
    BY <2>1, <2>2
<1>5. slab \in Nat \ {0}
  <2>1. slab = wanted
        \/ slab = AtLeast(AtMost(wanted, floor_pow2(AtLeast(Budget[s] \div 2, Page))), Page)
    BY DEF SlabSize
  <2>2. AtLeast(Budget[s] \div 2, Page) \in Nat \ {0}
    BY <1>1 DEF AtLeast, Page
  <2>3. floor_pow2(AtLeast(Budget[s] \div 2, Page)) \in Nat
    BY <1>2, <2>2
  <2> DEFINE p == floor_pow2(AtLeast(Budget[s] \div 2, Page))
  <2> HIDE DEF p, wanted
  <2>4. AtLeast(AtMost(wanted, p), Page) \in Nat \ {0}
    BY <1>4, <2>3 DEF AtLeast, AtMost, Page, p
  <2> QED
    BY <1>4, <2>1, <2>4 DEF p
<1>6. nslabs \in Nat
  <2> HIDE DEF slab, useful
  <2>1. CeilDiv(useful, slab) \in Nat /\ Pool \div slab \in Nat
    BY <1>1, <1>3, <1>5 DEF CeilDiv
  <2> DEFINE a == CeilDiv(useful, slab)
             b == Pool \div slab
  <2>2. nslabs = AtLeast(AtMost(Clamp(a, MIN_SLABS, MAX_SLABS), b), 1)
    BY DEF SlabCount
  <2>3. a \in Nat /\ b \in Nat
    BY <2>1
  <2> HIDE DEF a, b, nslabs
  <2> QED
    BY <2>2, <2>3 DEF AtLeast, AtMost, Clamp, MIN_SLABS, MAX_SLABS
<1>7. LayoutFor[s] = [slab |-> slab, nslabs |-> nslabs]
  BY DEF LayoutFor, carve
<1> HIDE DEF slab, nslabs
<1>8. Stride(slab) \in Nat
  BY <1>5 DEF Stride, CeilDiv, Page
<1>9. AtLeast(slab, Page) \in Nat
  BY <1>5 DEF AtLeast, Page
<1> QED
  BY <1>5, <1>6, <1>7, <1>8, <1>9 DEF Layouts, CarvedLayout, ArmedLayout, SenderSlab

\* The initial states are typed.
LEMMA InitTypes == Init => TInv
<1> SUFFICES ASSUME Init PROVE TInv
  OBVIOUS
<1>1. Daemon
  <2>1. drained \in 0..MaxDrain - 1
    BY SessionAssumption DEF Init
  <2>2. cut \in BOOLEAN
    BY DEF Init
  <2> QED
    BY <2>1, <2>2 DEF Init, Daemon
<1>2. Known
  BY DEF Init, Known, Connected, NoConn
<1>3. Tried
  BY SessionAssumption DEF Init, Tried
<1>4. Measured
  BY DEF Init, Measured, NoLayout
<1> QED
  BY <1>1, <1>2, <1>3, <1>4 DEF TInv

\* The layouts of the session and of the senders.
LEMMA NextMeasured ==
  ASSUME SInv, Measured, [Next]_vars
  PROVE  Measured'
<1>1. \A s \in Senders : /\ LayoutFor[s] \in Layouts
                         /\ CarvedLayout(s) \in Layouts /\ ArmedLayout(s) \in Layouts
  BY LayoutsTyped
<1>2. CASE UNCHANGED <<layout, local>>
  BY <1>2 DEF Measured
<1>3. CASE DrainEvent \/ DrainTimeout
  BY <1>3 DEF DrainEvent, DrainTimeout, TornDown, Measured, peerVars
<1>4. CASE Arm
  BY <1>1, <1>4 DEF Arm, Measured, peerVars, SInv, Receiving, CarvedLayout
<1>5. ASSUME NEW s \in Senders, TakeReply(s) PROVE Measured'
  <2>1. inbox[s] # << >> /\ Head(inbox[s]).type = "REPLY" /\ inbox[s] \in Seq(RepliesTo(s))
        /\ local' = [local EXCEPT ![s] = Head(inbox[s]).layout] /\ layout' = layout
    BY <1>5 DEF TakeReply, SInv, Replied, Peers, daemonVars
  <2>2. Head(inbox[s]) \in RepliesTo(s)
    BY <2>1
  <2>3. Head(inbox[s]).layout = LayoutFor[s]
    BY <2>1, <2>2 DEF RepliesTo
  <2> QED
    BY <1>1, <2>1, <2>3 DEF Measured
<1>6. ASSUME NEW s \in Senders, ArmLocal(s) PROVE Measured'
  <2>1. local[s] = LayoutFor[s] /\ layout' = layout
    BY <1>6 DEF ArmLocal, SInv, Adopted, daemonVars
  <2>2. local' = [local EXCEPT ![s] = ArmedLayout(s)] \/ local' = [local EXCEPT ![s] = NoLayout]
    BY <1>6, <2>1 DEF ArmLocal, ArmedLayout, Measured
  <2> QED
    BY <1>1, <2>1, <2>2 DEF Measured
<1>7. CASE Registered \/ PoolProgress \/ AcceptIdle \/ AcceptRequest \/ AcceptEstablished
           \/ Hello \/ HelloTimeout \/ Go \/ GoTimeout \/ Received \/ IdleLimit
           \/ RegistrationFails \/ ReceiveFails \/ NetDisconnected \/ NetUnreachable
           \/ UNCHANGED vars
  <2> USE DEF daemonVars, wireVars, peerVars
  <2>1. UNCHANGED <<layout, local>>
    BY <1>7
    DEF Registered, PoolProgress, AcceptIdle, AcceptRequest, AcceptEstablished, Hello,
        HelloTimeout, Go, GoTimeout, Received, IdleLimit, RegistrationFails, ReceiveFails,
        NetDisconnected, NetUnreachable, vars
  <2> QED
    BY <1>2, <2>1
<1>8. ASSUME NEW p \in Peers, PeerStep(p) \/ Die(p) \/ DataDone(p) \/ DataBroken(p)
      PROVE  Measured'
  <2> USE DEF daemonVars, wireVars, peerVars
  <2>1. UNCHANGED <<layout, local>>
    BY <1>8
    DEF PeerStep, Connect, Established, ConnectTimeout, SendHello, TakeInfo, AnswerTimeout, Die,
        DataDone, DataBroken
  <2> QED
    BY <1>2, <2>1
<1> QED
  BY <1>3, <1>4, <1>5, <1>6, <1>7, <1>8 DEF Next, DaemonStep, SenderStep, Peers


\* What happens to the daemon's registers.
LEMMA NextDaemon ==
  ASSUME Daemon, [Next]_vars
  PROVE  Daemon'
<1> USE DEF daemonVars, wireVars, peerVars, Connected
<1>1. MaxDrain \in Nat \ {0}
  BY SessionAssumption
<1>2. CASE /\ UNCHANGED <<reg, drained>> /\ cut' \in BOOLEAN
           /\ phase' \in {"pool", "accept", "dead"} \cup Connected
  BY <1>2 DEF Daemon
<1>3. CASE Registered \/ RegistrationFails
  BY <1>3 DEF Registered, RegistrationFails, Daemon
<1>4. CASE \/ PoolProgress \/ AcceptIdle \/ AcceptRequest \/ AcceptEstablished
           \/ Hello \/ HelloTimeout \/ Arm \/ Go \/ GoTimeout \/ Received \/ IdleLimit
           \/ ReceiveFails \/ NetDisconnected \/ NetUnreachable \/ UNCHANGED vars
  <2>1. UNCHANGED <<reg, drained>>
    BY <1>4
    DEF PoolProgress, AcceptIdle, AcceptRequest, AcceptEstablished, Hello, HelloTimeout, Arm, Go,
        GoTimeout, Received, IdleLimit, ReceiveFails, NetDisconnected, NetUnreachable, vars
  <2>2. cut' \in {cut, TRUE, FALSE}
    BY <1>4
    DEF PoolProgress, AcceptIdle, AcceptRequest, AcceptEstablished, Hello, HelloTimeout, Arm, Go,
        GoTimeout, Received, IdleLimit, ReceiveFails, NetDisconnected, NetUnreachable, vars
  <2>3. phase' \in {phase, "pool", "accept", "dead"} \cup Connected
    BY <1>4
    DEF PoolProgress, AcceptIdle, AcceptRequest, AcceptEstablished, Hello, HelloTimeout, Arm, Go,
        GoTimeout, Received, IdleLimit, ReceiveFails, NetDisconnected, NetUnreachable, vars
  <2> QED
    BY <1>2, <2>1, <2>2, <2>3 DEF Daemon
<1>5. CASE DrainEvent \/ DrainTimeout
  <2>1. UNCHANGED <<reg, cut>> /\ phase' \in {phase, "accept"}
    BY <1>5 DEF DrainEvent, DrainTimeout, TornDown
  <2>2. drained' = 0 \/ (drained' = drained + 1 /\ drained + 1 # MaxDrain)
    BY <1>5 DEF DrainEvent, DrainTimeout, TornDown
  <2>3. drained' \in 0..MaxDrain - 1
    BY <1>1, <2>2 DEF Daemon
  <2> QED
    BY <2>1, <2>3 DEF Daemon
<1>6. ASSUME NEW p \in Peers,
             PeerStep(p) \/ Die(p) \/ TakeReply(p) \/ ArmLocal(p) \/ DataDone(p) \/ DataBroken(p)
      PROVE  Daemon'
  <2>1. UNCHANGED <<reg, drained, phase>> /\ cut' \in {cut, TRUE}
    BY <1>6
    DEF PeerStep, Connect, Established, ConnectTimeout, SendHello, TakeInfo, AnswerTimeout, Die,
        TakeReply, ArmLocal, DataDone, DataBroken, Tell, Ends, HangUp
  <2> QED
    BY <1>2, <2>1 DEF Daemon
<1> QED
  BY <1>3, <1>4, <1>5, <1>6 DEF Next, DaemonStep, SenderStep, Peers

\* What happens to the attempts and the queue of their events.
LEMMA NextKnown ==
  ASSUME Known, Tried, [Next]_vars
  PROVE  Known'
<1> USE DEF daemonVars, wireVars, peerVars
<1>1. cmq # << >> => Tail(cmq) \in Seq(Events) /\ Head(cmq) \in Events
  BY DEF Known
<1>2. \A k, c : /\ k \in {"CONNECT_REQUEST", "ESTABLISHED", "DISCONNECTED", "UNREACHABLE"}
                /\ c \in Attempts
                => Append(cmq, Event(k, c)) \in Seq(Events)
  <2>1. ASSUME NEW k \in {"CONNECT_REQUEST", "ESTABLISHED", "DISCONNECTED", "UNREACHABLE"},
               NEW c \in Attempts
        PROVE  Append(cmq, Event(k, c)) \in Seq(Events)
    <3>1. Event(k, c) \in Events
      BY DEF Event, Events
    <3> QED
      BY <3>1 DEF Known
  <2> QED
    BY <2>1
<1>3. ASSUME UNCHANGED conn, phase' \in Connected => phase \in Connected,
             \/ cmq' = cmq
             \/ \E k \in {"ESTABLISHED", "DISCONNECTED", "UNREACHABLE"} :
                  phase \in Connected /\ cmq' = Append(cmq, Event(k, conn))
             \/ cmq # << >> /\ cmq' = Tail(cmq)
      PROVE  Known'
  <2>1. cmq' \in Seq(Events)
    BY <1>1, <1>2, <1>3 DEF Known
  <2> QED
    BY <1>3, <2>1 DEF Known
<1>4. CASE Registered \/ RegistrationFails \/ PoolProgress \/ AcceptIdle \/ AcceptEstablished
           \/ Hello \/ HelloTimeout \/ Arm \/ Go \/ GoTimeout \/ Received \/ IdleLimit
           \/ ReceiveFails \/ NetDisconnected \/ NetUnreachable \/ UNCHANGED vars
  <2>1. UNCHANGED conn
    BY <1>4
    DEF Registered, RegistrationFails, PoolProgress, AcceptIdle, AcceptEstablished, Hello,
        HelloTimeout, Arm, Go, GoTimeout, Received, IdleLimit, ReceiveFails, NetDisconnected,
        NetUnreachable, vars
  <2>2. phase' \in Connected => phase \in Connected
    BY <1>4
    DEF Registered, RegistrationFails, PoolProgress, AcceptIdle, AcceptEstablished, Hello,
        HelloTimeout, Arm, Go, GoTimeout, Received, IdleLimit, ReceiveFails, NetDisconnected,
        NetUnreachable, vars, Connected
  <2>3. \/ cmq' = cmq
        \/ \E k \in {"ESTABLISHED", "DISCONNECTED", "UNREACHABLE"} :
             phase \in Connected /\ cmq' = Append(cmq, Event(k, conn))
        \/ cmq # << >> /\ cmq' = Tail(cmq)
    BY <1>4
    DEF Registered, RegistrationFails, PoolProgress, AcceptIdle, AcceptEstablished, Hello,
        HelloTimeout, Arm, Go, GoTimeout, Received, IdleLimit, ReceiveFails, NetDisconnected,
        NetUnreachable, vars, Connected
  <2> QED
    BY <1>3, <2>1, <2>2, <2>3
<1>5. CASE AcceptRequest
  <2>1. cmq # << >> /\ cmq' = Tail(cmq)
    BY <1>5 DEF AcceptRequest
  <2>2. \/ conn' = Head(cmq).conn
        \/ phase' = "dead" /\ UNCHANGED conn
    BY <1>5 DEF AcceptRequest
  <2>3. Head(cmq).conn \in Attempts
    BY <1>1, <2>1 DEF Events
  <2> QED
    BY <1>1, <2>1, <2>2, <2>3 DEF Known, Connected
<1>6. CASE DrainEvent \/ DrainTimeout
  <2>1. ASSUME NEW q \in Seq(Events), TornDown(q) PROVE Known'
    <3>1. OfOthers(q) \in Seq(Events)
      BY KeptEvents
    <3> QED
      BY <2>1, <3>1 DEF TornDown, Known, Connected
  <2>2. CASE DrainTimeout
    BY <2>1, <2>2 DEF DrainTimeout, Known
  <2>3. CASE DrainEvent
    <3>1. cmq # << >>
      BY <2>3 DEF DrainEvent
    <3>2. TornDown(Tail(cmq)) \/ (cmq' = Tail(cmq) /\ UNCHANGED <<phase, conn>>)
      BY <2>3 DEF DrainEvent
    <3> QED
      BY <1>1, <2>1, <3>1, <3>2 DEF Known
  <2> QED
    BY <1>6, <2>2, <2>3
<1>7. ASSUME NEW p \in Peers, Connect(p) PROVE Known'
  <2>1. UNCHANGED <<conn, phase>>
    BY <1>7 DEF Connect
  <2>2. cmq' = cmq \/ cmq' = Append(cmq, Event("CONNECT_REQUEST", <<p, try[p] + 1>>))
    BY <1>7 DEF Connect
  <2>3. try[p] + 1 \in 1..Tries
    BY <1>7, SessionAssumption DEF Connect, Tried
  <2>4. <<p, try[p] + 1>> \in Attempts
    BY <2>3 DEF Attempts
  <2> QED
    BY <1>2, <2>1, <2>2, <2>4 DEF Known
<1>8. ASSUME NEW p \in Peers,
             \/ Established(p) \/ ConnectTimeout(p) \/ SendHello(p) \/ TakeInfo(p)
             \/ AnswerTimeout(p) \/ Die(p) \/ TakeReply(p) \/ ArmLocal(p) \/ DataDone(p)
             \/ DataBroken(p)
      PROVE  Known'
  <2>1. UNCHANGED <<conn, phase>>
    BY <1>8
    DEF Established, ConnectTimeout, SendHello, TakeInfo, AnswerTimeout, Die,
        TakeReply, ArmLocal, DataDone, DataBroken
  <2>2. \/ cmq' = cmq
        \/ \E k \in {"ESTABLISHED", "DISCONNECTED", "UNREACHABLE"} :
             phase \in Connected /\ cmq' = Append(cmq, Event(k, conn))
    BY <1>8
    DEF Established, ConnectTimeout, SendHello, TakeInfo, AnswerTimeout, Die,
        TakeReply, ArmLocal, DataDone, DataBroken, Tell, Ends, HangUp, Joined, InSession, Connected
  <2> QED
    BY <1>3, <2>1, <2>2
<1> QED
  BY <1>4, <1>5, <1>6, <1>7, <1>8 DEF Next, DaemonStep, PeerStep, SenderStep, Peers

\* What happens to the peers: none makes more attempts than it has.
LEMMA NextTried ==
  ASSUME Tried, [Next]_vars
  PROVE  Tried'
<1> USE DEF daemonVars, wireVars, peerVars
<1>1. CASE UNCHANGED <<peer, try>>
  BY <1>1 DEF Tried
<1>2. CASE DaemonStep \/ RegistrationFails \/ ReceiveFails \/ NetDisconnected \/ NetUnreachable
           \/ UNCHANGED vars
  <2>1. UNCHANGED <<peer, try>>
    BY <1>2
    DEF DaemonStep, Registered, RegistrationFails, PoolProgress, AcceptIdle, AcceptRequest,
        AcceptEstablished, Hello, HelloTimeout, Arm, Go, GoTimeout, Received, IdleLimit,
        ReceiveFails, DrainEvent, DrainTimeout, NetDisconnected, NetUnreachable, vars
  <2> QED
    BY <1>1, <2>1
<1>3. ASSUME NEW p \in Peers, Connect(p) PROVE Tried'
  <2>1. try' = [try EXCEPT ![p] = @ + 1] /\ try[p] \in 0..Tries /\ try[p] < Tries /\ Tries \in Nat
    BY <1>3, SessionAssumption DEF Connect, Tried
  <2>2. PICK st \in {"connecting", "start", "failed"} :
          peer' = [peer EXCEPT ![p] = st] /\ (st = "start" => try[p] + 1 < Tries)
    BY <1>3 DEF Connect
  <2>3. try[p] + 1 \in 0..Tries
    BY <2>1
  <2> QED
    BY <2>1, <2>2, <2>3 DEF Tried, Ended
<1>4. ASSUME NEW p \in Peers, ConnectTimeout(p) PROVE Tried'
  BY <1>4 DEF ConnectTimeout, MayRetry, Tried, Ended
<1>5. ASSUME NEW p \in Peers,
             \/ Established(p) \/ SendHello(p) \/ TakeInfo(p)
             \/ AnswerTimeout(p) \/ Die(p) \/ TakeReply(p) \/ ArmLocal(p) \/ DataDone(p)
             \/ DataBroken(p)
      PROVE  Tried'
  <2>1. UNCHANGED try
    BY <1>5
    DEF Established, SendHello, TakeInfo, AnswerTimeout, Die, TakeReply, ArmLocal, DataDone,
        DataBroken
  <2>2. \E st \in {"hello", "wait", "done", "failed", "arm", "data", "stuck"} :
          peer' = [peer EXCEPT ![p] = st]
    BY <1>5
    DEF Established, SendHello, TakeInfo, AnswerTimeout, Die, TakeReply, ArmLocal, DataDone,
        DataBroken, Tell, Ends
  <2> QED
    BY <2>1, <2>2 DEF Tried, Up, Ended
<1> QED
  BY <1>2, <1>3, <1>4, <1>5 DEF Next, PeerStep, SenderStep, Peers

\* The types hold throughout; in particular no attempt is made beyond the last one,
\* a session has an attempt behind it, and ibx_session_end reads no more events than
\* it may.
THEOREM SessionTypes == Spec => []TypeOK
<1>1. Init => TInv
  BY InitTypes
<1>2. SInv /\ TInv /\ [Next]_vars => TInv'
  BY NextDaemon, NextKnown, NextTried, NextMeasured DEF TInv
<1>3. SInv /\ TInv => TypeOK
  <2> SUFFICES ASSUME SInv, TInv PROVE TypeOK
    OBVIOUS
  <2>1. \A i \in DOMAIN cmq : cmq[i].conn \in Peers \X (1..Tries)
    <3>1. \A i \in DOMAIN cmq : cmq[i] \in Events
      BY DEF TInv, Known
    <3> QED
      BY <3>1 DEF Events, Attempts
  <2> QED
    BY <2>1 DEF TInv, Daemon, Known, Tried, Measured, SInv, Shape, TypeOK, Attempts, Connected
<1> QED
  BY <1>1, <1>2, <1>3, SessionInvariant, PTL DEF Spec

=============================================================================
