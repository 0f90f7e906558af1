---------------------------- MODULE BlockStream -----------------------------
(***************************************************************************)
(* What the data plane promises: a bounded FIFO.  The sender hands over     *)
(* blocks 0, 1, 2, ... of a stream of NBlocks; the receiver writes them out *)
(* in that order, each once; never more than Capacity blocks are handed     *)
(* over and not yet written.  The receiver may fail at any time, but it     *)
(* reports success only with the whole stream written.                      *)
(***************************************************************************)
EXTENDS Naturals, Sequences

CONSTANTS NBlocks, Capacity

VARIABLES sent,      \* blocks handed over
          out,       \* blocks written, in order
          outcome    \* what the receiver reports: "open", "ok" or "err"

streamVars == <<sent, out, outcome>>

Init == sent = 0 /\ out = << >> /\ outcome = "open"

Send == /\ sent < NBlocks /\ sent < Len(out) + Capacity
        /\ sent' = sent + 1
        /\ UNCHANGED <<out, outcome>>

Write == /\ outcome = "open" /\ Len(out) < sent
         /\ out' = Append(out, Len(out))
         /\ UNCHANGED <<sent, outcome>>

Succeed == /\ outcome = "open" /\ Len(out) = NBlocks
           /\ outcome' = "ok"
           /\ UNCHANGED <<sent, out>>

Fail == /\ outcome = "open"
        /\ outcome' = "err"
        /\ UNCHANGED <<sent, out>>

Next == Send \/ Write \/ Succeed \/ Fail

Spec == Init /\ [][Next]_streamVars

=============================================================================
