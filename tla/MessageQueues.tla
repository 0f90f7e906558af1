--------------------------- MODULE MessageQueues ----------------------------
(***************************************************************************)
(* What the control channel promises its two ends: each direction is a      *)
(* queue of whole messages, handed out in the order in which they were      *)
(* sent, each once.                                                         *)
(***************************************************************************)
EXTENDS Naturals, Sequences, SequencesExt

CONSTANTS Ends, Peer    \* the two ends; the other one of each

VARIABLES
  sent,       \* end -> the messages it has begun to send
  delivered   \* end -> the messages its reads have returned

vars == <<sent, delivered>>

Init == /\ sent = [e \in Ends |-> << >>]
        /\ delivered = [e \in Ends |-> << >>]

\* Any message may be sent.
Send(e) ==
  /\ Len(sent'[e]) = Len(sent[e]) + 1
  /\ sent' = [sent EXCEPT ![e] = Append(@, Last(sent'[e]))]
  /\ UNCHANGED delivered

Receive(e) ==
  LET n == Len(delivered[e]) + 1 IN
    /\ n <= Len(sent[Peer[e]])
    /\ delivered' = [delivered EXCEPT ![e] = Append(@, sent[Peer[e]][n])]
    /\ UNCHANGED sent

Next == \E e \in Ends : Send(e) \/ Receive(e)

Spec == Init /\ [][Next]_vars

=============================================================================
