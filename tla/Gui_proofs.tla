----------------------------- MODULE Gui_proofs ------------------------------
(* Proofs about Gui for every memlock limit, memory, list of peers and number *)
(* of sends and transfers: the selection, the transfer on the screen, which   *)
(* flag stands for which thread, and who may be refused memory.               *)
EXTENDS Gui, Carve_proofs, Counting, TLAPS

-----------------------------------------------------------------------------
(* The selection.                                                           *)

\* The list shown and the one in the channel are lists, the index a number.
SelInv ==
  /\ shown \in Seq(Nat) /\ selected \in Nat
  /\ scanCh = << >> \/ scanCh \in {<<l>> : l \in Lists}
  /\ SelectionInRange

\* The drain of the scan's channel brings the selection into the new list.
LEMMA DrainScanKeeps ==
  ASSUME SelInv, DrainScan
  PROVE  shown' \in Seq(Nat) /\ selected' \in Nat /\ SelectionInRange'
<1>1. CASE scanCh = << >>
  BY <1>1 DEF DrainScan, SelInv, SelectionInRange
<1>2. CASE scanCh # << >>
  <2>1. PICK l \in Lists : scanCh = <<l>>
    BY <1>2 DEF SelInv
  <2>2. shown' = l /\ selected' = AtMost(selected, AtLeast(Len(l) - 1, 0)) /\ l \in Seq(Nat)
    BY <2>1, GuiAssumption DEF DrainScan
  <2>3. Len(l) \in Nat /\ (l # << >> => Len(l) > 0)
    BY <2>2
  <2> QED
    BY <2>2, <2>3 DEF AtMost, AtLeast, SelInv, SelectionInRange
<1> QED
  BY <1>1, <1>2

\* Scans, clicks and frames in any order keep it so.
LEMMA SelectionInvariant == Spec => []SelInv
<1>1. Init => SelInv
  BY DEF Init, SelInv, SelectionInRange
<1>2. SelInv /\ [Next]_vars => SelInv'
  <2> SUFFICES ASSUME SelInv, [Next]_vars PROVE SelInv'
    OBVIOUS
  <2>1. CASE Frame
    <3>1. DrainScan /\ scanCh' = << >>
      BY <2>1 DEF Frame
    <3> QED
      BY <3>1, DrainScanKeeps DEF SelInv
  <2>2. CASE Restart
    BY <2>2 DEF Restart, SelInv, SelectionInRange
  <2>3. CASE Select
    <3>1. PICK k \in 1..Len(shown) : selected' = k - 1
      BY <2>3 DEF Select
    <3>2. shown' = shown /\ scanCh' = scanCh
      BY <2>3 DEF Select, Act, channelVars
    <3>3. Len(shown) \in Nat
      BY DEF SelInv
    <3> QED
      BY <3>1, <3>2, <3>3 DEF SelInv, SelectionInRange
  <2>4. CASE ScanReports
    <3>1. UNCHANGED <<shown, selected>> /\ \E l \in Lists : scanCh' = <<l>>
      BY <2>4 DEF ScanReports, shownVars
    <3> QED
      BY <3>1 DEF SelInv, SelectionInRange
  <2>5. CASE UNCHANGED <<shown, selected, scanCh>>
    BY <2>5 DEF SelInv, SelectionInRange
  <2>6. start_scan \/ Fill \/ start_send \/ request_auth => UNCHANGED <<shown, selected, scanCh>>
    BY DEF start_scan, Fill, start_send, request_auth, Act, channelVars
  <2>7. DaemonThread => UNCHANGED <<shown, selected, scanCh>>
    BY DEF DaemonThread, DaemonStarts, StartFails, PoolRegistered, PoolRefused, TransferStarts,
           TransferEnds, SessionEnds, SessionEndFails, ConnectionDropped, DaemonDies,
           DaemonSays, shownVars, channelVars
  <2>8. SenderThread \/ DialogAnswered => UNCHANGED <<shown, selected, scanCh>>
    BY DEF SenderThread, ReadBudget, ArmSend, SendTooBig, SendRefused, SendGoesOn, SendEnds,
           SendReport, SenderOnly, DialogAnswered, shownVars
  <2>9. (\E who \in {"daemon", "scan", "send"} : Repaint(who)) \/ UNCHANGED vars
          => UNCHANGED <<shown, selected, scanCh>>
    BY DEF Repaint, vars, shownVars, channelVars
  <2> QED
    BY <2>1, <2>2, <2>3, <2>4, <2>5, <2>6, <2>7, <2>8, <2>9 DEF Next, User
<1> QED
  BY <1>1, <1>2, PTL DEF Spec

\* The selection is one of the list shown, whichever scans end when.
THEOREM SelectionStaysInRange == Spec => []SelectionInRange
<1>1. SelInv => SelectionInRange
  BY DEF SelInv
<1> QED
  BY <1>1, SelectionInvariant, PTL

-----------------------------------------------------------------------------
(* The fold over the events of the daemon, which Frame shows at once.        *)

\* What OnEvent makes of a view, event by event.
Steps(h, v, s) ==
  /\ DOMAIN h = 0..Len(s)
  /\ h[0] = v
  /\ \A i \in 1..Len(s) : h[i] = OnEvent(h[i - 1], s[i])

\* The library's fold, unfolded: the function it is defined by.
Iter(g, v, s) ==
  g = [t \in SUBSET (1..Len(s)) |->
         IF t = {} THEN v ELSE LET x == Max(t) IN OnEvent(g[t \ {x}], s[x])]

\* What FoldLeft stands for.
LEMMA FoldIsIter ==
  ASSUME NEW v, NEW E, NEW s \in Seq(E)
  PROVE  FoldLeft(OnEvent, v, s) = (CHOOSE g : Iter(g, v, s))[1..Len(s)]
<1>1. DOMAIN s = 1..Len(s)
  OBVIOUS
<1> QED
  BY <1>1 DEF FoldLeft, MapThenFoldSet, Iter

\* The library's Max is the greatest element.
LEMMA MaxOf ==
  ASSUME NEW T \in SUBSET Nat, NEW m \in T, \A k \in T : k <= m
  PROVE  Max(T) = m
<1>1. \A x \in T : (\A y \in T : x >= y) => x = m
  OBVIOUS
<1>2. \A y \in T : m >= y
  OBVIOUS
<1> QED
  BY <1>1, <1>2 DEF Max

\* What is not empty and has a bound has one.
LEMMA MaxIsThere ==
  ASSUME NEW n \in Nat, NEW T \in SUBSET (1..n), T # {}
  PROVE  Max(T) \in T /\ \A k \in T : k <= Max(T)
<1>1. T \in SUBSET Nat /\ \A k \in T : k <= n
  OBVIOUS
<1>2. PICK m \in T : \A k \in T : k <= m
  BY <1>1, GreatestOf
<1> QED
  BY <1>1, <1>2, MaxOf

\* Such a function exists, for the events up to any number and so for all.
LEMMA IterExists ==
  ASSUME NEW v, NEW E, NEW s \in Seq(E)
  PROVE  \E g : Iter(g, v, s)
<1> DEFINE G(g, n) == g = [t \in SUBSET (1..n) |->
             IF t = {} THEN v ELSE LET x == Max(t) IN OnEvent(g[t \ {x}], s[x])]
           T == {n \in 0..Len(s) : \E g : G(g, n)}
<1>1. Len(s) \in Nat
  OBVIOUS
<1>2. 0 \in T
  <2>1. SUBSET (1..0) = {{}}
    OBVIOUS
  <2>2. G([t \in SUBSET (1..0) |-> v], 0)
    BY <2>1
  <2> QED
    BY <2>2, <1>1
<1>3. ASSUME NEW n \in 0..Len(s) - 1, n \in T
      PROVE  n + 1 \in T
  <2>1. PICK g : G(g, n)
    BY <1>3
  <2> DEFINE f == [t \in SUBSET (1..n + 1) |->
                     IF n + 1 \in t THEN OnEvent(g[t \ {n + 1}], s[n + 1]) ELSE g[t]]
  <2>2. ASSUME NEW t \in SUBSET (1..n + 1), n + 1 \in t
        PROVE  f[t] = OnEvent(f[t \ {Max(t)}], s[Max(t)]) /\ t # {}
    <3>1. Max(t) = n + 1
      <4>1. t \in SUBSET Nat /\ \A k \in t : k <= n + 1
        OBVIOUS
      <4> QED
        BY <2>2, <4>1, MaxOf
    <3>2. t \ {n + 1} \in SUBSET (1..n + 1) /\ n + 1 \notin t \ {n + 1}
      OBVIOUS
    <3>3. f[t \ {n + 1}] = g[t \ {n + 1}]
      BY <3>2
    <3>4. f[t] = OnEvent(g[t \ {n + 1}], s[n + 1])
      BY <2>2
    <3> QED
      BY <3>1, <3>3, <3>4, <2>2
  <2>3. ASSUME NEW t \in SUBSET (1..n + 1), n + 1 \notin t
        PROVE  f[t] = IF t = {} THEN v ELSE OnEvent(f[t \ {Max(t)}], s[Max(t)])
    <3>1. t \in SUBSET (1..n) /\ f[t] = g[t]
      BY <2>3
    <3>2. g[t] = IF t = {} THEN v ELSE OnEvent(g[t \ {Max(t)}], s[Max(t)])
      BY <2>1, <3>1
    <3>3. t \ {Max(t)} \in SUBSET (1..n + 1) /\ n + 1 \notin t \ {Max(t)}
      BY <2>3
    <3>4. f[t \ {Max(t)}] = g[t \ {Max(t)}]
      BY <3>3
    <3> QED
      BY <3>1, <3>2, <3>4
  <2>4. DOMAIN f = SUBSET (1..n + 1) /\ f = [t \in DOMAIN f |-> f[t]]
    OBVIOUS
  <2> HIDE DEF f
  <2>5. \A t \in SUBSET (1..n + 1) :
          f[t] = IF t = {} THEN v ELSE LET x == Max(t) IN OnEvent(f[t \ {x}], s[x])
    BY <2>2, <2>3
  <2>6. G(f, n + 1)
    BY <2>4, <2>5
  <2>7. n + 1 \in 0..Len(s)
    BY <1>1
  <2> QED
    BY <2>6, <2>7
<1> HIDE DEF T
<1>4. 0..Len(s) \subseteq T
  BY <1>1, <1>2, <1>3, UpTo
<1>5. Len(s) \in T
  BY <1>1, <1>4
<1> QED
  BY <1>5 DEF T, Iter

\* The fold goes event by event.
LEMMA FoldHasSteps ==
  ASSUME NEW v, NEW E, NEW s \in Seq(E)
  PROVE  \E h : Steps(h, v, s) /\ h[Len(s)] = FoldLeft(OnEvent, v, s)
<1>1. PICK g : Iter(g, v, s) /\ FoldLeft(OnEvent, v, s) = g[1..Len(s)]
  BY IterExists, FoldIsIter
<1> DEFINE h == [i \in 0..Len(s) |-> g[1..i]]
<1>2. Len(s) \in Nat
  OBVIOUS
<1>3. ASSUME NEW i \in 1..Len(s)
      PROVE  g[1..i] = OnEvent(g[1..i - 1], s[i])
  <2>1. 1..i \in SUBSET (1..Len(s)) /\ 1..i # {} /\ (1..i) \ {i} = 1..i - 1
    <3>1. \A j : j \in 1..i => j \in 1..Len(s)
      BY <1>2
    <3>2. \A j : j \in (1..i) \ {i} <=> j \in 1..i - 1
      BY <1>2
    <3>3. i \in 1..i
      BY <1>2
    <3> QED
      BY <3>1, <3>2, <3>3
  <2>2. 1..i \in SUBSET Nat /\ i \in 1..i /\ \A k \in 1..i : k <= i
    BY <1>2
  <2>3. Max(1..i) = i
    BY <2>2, MaxOf
  <2>4. g[1..i] = OnEvent(g[(1..i) \ {Max(1..i)}], s[Max(1..i)])
    BY <1>1, <2>1 DEF Iter
  <2> QED
    BY <2>1, <2>3, <2>4
<1>4. g[1..0] = v
  <2>1. 1..0 = {} /\ {} \in SUBSET (1..Len(s))
    OBVIOUS
  <2> QED
    BY <1>1, <2>1 DEF Iter
<1>5. \A i \in 1..Len(s) : i \in 0..Len(s) /\ i - 1 \in 0..Len(s)
  BY <1>2
<1>6. Steps(h, v, s)
  BY <1>2, <1>3, <1>4, <1>5 DEF Steps
<1>7. h[Len(s)] = g[1..Len(s)]
  BY <1>2
<1> QED
  BY <1>1, <1>6, <1>7

\* One more event changes the result by that event.
LEMMA FoldOneMore ==
  ASSUME NEW v, NEW E, NEW s \in Seq(E), NEW e \in E
  PROVE  FoldLeft(OnEvent, v, Append(s, e)) = OnEvent(FoldLeft(OnEvent, v, s), e)
<1> DEFINE n == Len(s)
<1>1. /\ n \in Nat /\ Append(s, e) \in Seq(E) /\ Len(Append(s, e)) = n + 1
      /\ Append(s, e)[n + 1] = e /\ \A i \in 1..n : Append(s, e)[i] = s[i]
  <2>1. n \in Nat
    OBVIOUS
  <2>2. Append(s, e) \in Seq(E) /\ Len(Append(s, e)) = n + 1
    OBVIOUS
  <2>3. Append(s, e)[n + 1] = e
    OBVIOUS
  <2>4. \A i \in 1..n : Append(s, e)[i] = s[i]
    OBVIOUS
  <2> QED
    BY <2>1, <2>2, <2>3, <2>4
<1>2. PICK h : Steps(h, v, s) /\ h[n] = FoldLeft(OnEvent, v, s)
  BY FoldHasSteps
<1>3. PICK k : Steps(k, v, Append(s, e)) /\ k[n + 1] = FoldLeft(OnEvent, v, Append(s, e))
  BY <1>1, FoldHasSteps
<1> DEFINE T == {i \in 0..n : k[i] = h[i]}
<1>4. 0 \in T
  BY <1>1, <1>2, <1>3 DEF Steps
<1>5. ASSUME NEW i \in 0..n - 1, i \in T PROVE i + 1 \in T
  <2>1. i + 1 \in 1..n /\ i + 1 \in 1..n + 1 /\ (i + 1) - 1 = i /\ i + 1 \in 0..n
    BY <1>1
  <2>2. h[i + 1] = OnEvent(h[i], s[i + 1]) /\ k[i + 1] = OnEvent(k[i], s[i + 1])
    BY <1>1, <1>2, <1>3, <2>1 DEF Steps
  <2> QED
    BY <1>5, <2>1, <2>2
<1> HIDE DEF T
<1>6. 0..n \subseteq T
  BY <1>1, <1>4, <1>5, UpTo
<1>7. k[n] = h[n]
  BY <1>1, <1>6 DEF T
<1>8. n + 1 \in 1..Len(Append(s, e)) /\ (n + 1) - 1 = n
  BY <1>1
<1>9. k[n + 1] = OnEvent(k[n], e)
  BY <1>1, <1>3, <1>8 DEF Steps
<1> QED
  BY <1>2, <1>3, <1>7, <1>9

\* Without an event the view stays.
LEMMA FoldOfNone ==
  ASSUME NEW v
  PROVE  FoldLeft(OnEvent, v, << >>) = v
<1>1. << >> \in Seq({}) /\ Len(<< >>) = 0
  OBVIOUS
<1>2. PICK h : Steps(h, v, << >>) /\ h[Len(<< >>)] = FoldLeft(OnEvent, v, << >>)
  BY <1>1, FoldHasSteps
<1> QED
  BY <1>1, <1>2 DEF Steps

-----------------------------------------------------------------------------
(* The transfer on the screen.                                              *)

Views == [ready : BOOLEAN, err : BOOLEAN, incoming : BOOLEAN]

\* The view as it will be when the events under way have been seen.
Settled == FoldLeft(OnEvent, view, daemonCh)

ViewInv ==
  /\ view \in Views /\ daemonCh \in Seq(DaemonEvents)
  /\ Settled \in Views
  /\ Settled.incoming = (daemon = "transfer")

\* An event starts a transfer or ends it, if there is one, or has to do with none.
LEMMA EventOnView ==
  ASSUME NEW v \in Views, NEW e \in DaemonEvents
  PROVE  /\ OnEvent(v, e) \in Views
         /\ e = "started" => OnEvent(v, e).incoming = TRUE
         /\ e \in {"done", "failed"} => OnEvent(v, e).incoming = FALSE
         /\ e = "ready" => OnEvent(v, e).incoming = v.incoming
BY DEF OnEvent, Views, DaemonEvents

\* A report of the daemon that fits its new state keeps the invariant.
LEMMA ReportKeepsView ==
  ASSUME ViewInv, NEW e \in DaemonEvents, view' = view, daemonCh' = Append(daemonCh, e),
         e = "started" => daemon' = "transfer",
         e \in {"done", "failed"} => daemon' # "transfer",
         e = "ready" => daemon # "transfer" /\ daemon' # "transfer"
  PROVE  ViewInv'
<1>1. Settled' = OnEvent(Settled, e)
  <2>1. FoldLeft(OnEvent, view, Append(daemonCh, e)) = OnEvent(FoldLeft(OnEvent, view, daemonCh), e)
    BY FoldOneMore DEF ViewInv
  <2> QED
    BY <2>1 DEF Settled
<1>2. OnEvent(Settled, e) \in Views /\ OnEvent(Settled, e).incoming = (daemon' = "transfer")
  <2>1. /\ OnEvent(Settled, e) \in Views
        /\ e = "started" => OnEvent(Settled, e).incoming = TRUE
        /\ e \in {"done", "failed"} => OnEvent(Settled, e).incoming = FALSE
        /\ e = "ready" => OnEvent(Settled, e).incoming = Settled.incoming
    BY EventOnView DEF ViewInv
  <2>2. e \in {"ready", "started", "done", "failed"} /\ Settled.incoming = (daemon = "transfer")
    BY DEF ViewInv, DaemonEvents
  <2> QED
    BY <2>1, <2>2
<1>3. daemonCh' \in Seq(DaemonEvents)
  BY DEF ViewInv
<1> QED
  BY <1>1, <1>2, <1>3 DEF ViewInv

\* Every event changes view and daemon alike.
LEMMA ViewInvariant == Spec => []ViewInv
<1>1. Init => ViewInv
  <2> SUFFICES ASSUME Init PROVE ViewInv
    OBVIOUS
  <2>1. view = Blank /\ daemonCh = << >> /\ daemon = "start"
    BY DEF Init
  <2>2. Settled = Blank
    BY <2>1, FoldOfNone DEF Settled
  <2>3. Blank \in Views /\ Blank.incoming = FALSE /\ << >> \in Seq(DaemonEvents)
    BY DEF Blank, Views
  <2> QED
    BY <2>1, <2>2, <2>3 DEF ViewInv
<1>2. ViewInv /\ [Next]_vars => ViewInv'
  <2> SUFFICES ASSUME ViewInv, [Next]_vars PROVE ViewInv'
    OBVIOUS
  <2>1. CASE Frame
    <3>1. view' = Settled /\ daemonCh' = << >> /\ daemon' = daemon
      BY <2>1 DEF Frame, Settled, daemonVars
    <3>2. Settled' = Settled
      BY <3>1, FoldOfNone DEF Settled
    <3>3. << >> \in Seq(DaemonEvents)
      OBVIOUS
    <3> QED
      BY <3>1, <3>2, <3>3 DEF ViewInv
  <2>2. CASE Restart
    <3>1. view' = Blank /\ daemonCh' = << >> /\ daemon' = "start"
      BY <2>2 DEF Restart
    <3>2. Settled' = Blank
      BY <3>1, FoldOfNone DEF Settled
    <3>3. Blank \in Views /\ Blank.incoming = FALSE /\ << >> \in Seq(DaemonEvents)
      BY DEF Blank, Views
    <3> QED
      BY <3>1, <3>2, <3>3 DEF ViewInv
  <2>3. CASE StartFails \/ PoolRefused \/ SessionEndFails \/ ConnectionDropped \/ DaemonDies
    <3>1. view' = view /\ daemonCh' = Append(daemonCh, "failed") /\ daemon' # "transfer"
      BY <2>3 DEF StartFails, PoolRefused, SessionEndFails, ConnectionDropped, DaemonDies,
                  DaemonSays, shownVars
    <3> QED
      BY <3>1, ReportKeepsView DEF DaemonEvents
  <2>4. CASE PoolRegistered
    <3>1. /\ view' = view /\ daemonCh' = Append(daemonCh, "ready")
          /\ daemon = "reg" /\ daemon' = "idle"
      BY <2>4 DEF PoolRegistered, DaemonSays, shownVars
    <3> QED
      BY <3>1, ReportKeepsView DEF DaemonEvents
  <2>5. CASE TransferStarts
    <3>1. view' = view /\ daemonCh' = Append(daemonCh, "started") /\ daemon' = "transfer"
      BY <2>5 DEF TransferStarts, DaemonSays, shownVars
    <3> QED
      BY <3>1, ReportKeepsView DEF DaemonEvents
  <2>6. CASE TransferEnds
    <3>1. PICK e \in {"done", "failed"} : DaemonSays(e)
      BY <2>6 DEF TransferEnds
    <3>2. view' = view /\ daemonCh' = Append(daemonCh, e) /\ daemon' = "end"
      BY <2>6, <3>1 DEF TransferEnds, DaemonSays, shownVars
    <3> QED
      BY <3>2, ReportKeepsView DEF DaemonEvents
  <2>7. CASE DaemonStarts \/ SessionEnds
    <3>1. /\ UNCHANGED <<view, daemonCh>> /\ daemon # "transfer" /\ daemon' # "transfer"
      BY <2>7 DEF DaemonStarts, SessionEnds, shownVars, channelVars
    <3> QED
      BY <3>1 DEF ViewInv, Settled
  <2>8. CASE UNCHANGED <<view, daemonCh, daemon>>
    BY <2>8 DEF ViewInv, Settled
  <2>9. User \/ ScanReports \/ DialogAnswered
          \/ (\E who \in {"daemon", "scan", "send"} : Repaint(who)) \/ UNCHANGED vars
          => UNCHANGED <<view, daemonCh, daemon>>
    BY DEF User, Select, start_scan, Fill, start_send, request_auth, Act, ScanReports,
           DialogAnswered, Repaint, vars, shownVars, channelVars, daemonVars
  <2>10. SenderThread => UNCHANGED <<view, daemonCh, daemon>>
    BY DEF SenderThread, ReadBudget, ArmSend, SendTooBig, SendRefused, SendGoesOn, SendEnds,
           SendReport, SenderOnly, shownVars, daemonVars
  <2> QED
    BY <2>1, <2>2, <2>3, <2>4, <2>5, <2>6, <2>7, <2>8, <2>9, <2>10 DEF Next, DaemonThread
<1> QED
  BY <1>1, <1>2, PTL DEF Spec

\* The transfer shown is the daemon's when all its events have been seen
\* (gui.rs:248), in whichever order transfers start, end, fail and are dropped.
THEOREM IncomingIsCurrentAlways == Spec => []IncomingIsCurrent
<1>1. ViewInv => IncomingIsCurrent
  <2> SUFFICES ASSUME ViewInv, daemonCh = << >> PROVE view.incoming = (daemon = "transfer")
    BY DEF IncomingIsCurrent
  <2>1. Settled = view
    BY FoldOfNone DEF Settled
  <2> QED
    BY <2>1 DEF ViewInv
<1> QED
  BY <1>1, ViewInvariant, PTL

-----------------------------------------------------------------------------
(* Which flag stands for which thread.                                      *)

SendEvents == {"data", "done", "failed"}

\* A thread is at work or has left its message, never both; a send that is over
\* has said so last.
FlagInv ==
  /\ shown \in Lists \cup {<< >>}
  /\ scanCh \in {<< >>} \cup {<<l>> : l \in Lists}
  /\ scanning = (scan \/ scanCh # << >>) /\ ~(scan /\ scanCh # << >>)
  /\ owes \subseteq {"daemon", "scan", "send"}
  /\ authCh \in {<< >>} \cup {<<o>> : o \in Outcomes}
  /\ authRx = (asking \/ authCh # << >>) /\ ~(asking /\ authCh # << >>)
  /\ sendCh \in Seq(SendEvents)
  /\ sender \in {"off", "budget", "arm", "data"}
  /\ sendRx = (sender # "off" \/ sendCh # << >>)
  /\ SendOver <=> sender = "off" /\ sendCh # << >>
  /\ daemon \in {"start", "reg", "idle", "transfer", "end", "dead"}

\* A message of the sender is its last one or says that it goes on.
LEMMA SendChannel ==
  ASSUME NEW c \in Seq(SendEvents), NEW e \in SendEvents
  PROVE  /\ Append(c, e) \in Seq(SendEvents) /\ Append(c, e) # << >>
         /\ (\E k \in DOMAIN Append(c, e) : Append(c, e)[k] \in {"done", "failed"})
              <=> e \in {"done", "failed"} \/ \E k \in DOMAIN c : c[k] \in {"done", "failed"}
<1> DEFINE d == Append(c, e)
           n == Len(c)
<1>1. n \in Nat /\ d \in Seq(SendEvents) /\ Len(d) = n + 1
  OBVIOUS
<1>2. d[n + 1] = e
  OBVIOUS
<1>3. \A k \in 1..n : d[k] = c[k]
  OBVIOUS
<1>4. DOMAIN c = 1..n /\ DOMAIN d = 1..n + 1
  BY <1>1
<1> HIDE DEF d, n
<1>5. DOMAIN d = DOMAIN c \cup {n + 1} /\ DOMAIN c \subseteq DOMAIN d
  BY <1>1, <1>4
<1>6. (\E k \in DOMAIN d : d[k] \in {"done", "failed"})
        <=> e \in {"done", "failed"} \/ \E k \in DOMAIN c : c[k] \in {"done", "failed"}
  BY <1>2, <1>3, <1>4, <1>5
<1>7. d # << >>
  BY <1>1
<1> QED
  BY <1>1, <1>6, <1>7 DEF d

\* The flags of the drawing thread follow the threads they stand for.
LEMMA FlagInvariant == Spec => []FlagInv
<1> DEFINE ScanPart == /\ shown \in Lists \cup {<< >>}
                       /\ scanCh \in {<< >>} \cup {<<l>> : l \in Lists}
                       /\ scanning = (scan \/ scanCh # << >>) /\ ~(scan /\ scanCh # << >>)
           AuthPart == /\ authCh \in {<< >>} \cup {<<o>> : o \in Outcomes}
                       /\ authRx = (asking \/ authCh # << >>) /\ ~(asking /\ authCh # << >>)
           SendPart == /\ sendCh \in Seq(SendEvents)
                       /\ sender \in {"off", "budget", "arm", "data"}
                       /\ sendRx = (sender # "off" \/ sendCh # << >>)
                       /\ SendOver <=> sender = "off" /\ sendCh # << >>
           DaemonPart == daemon \in {"start", "reg", "idle", "transfer", "end", "dead"}
           OwesPart == owes \subseteq {"daemon", "scan", "send"}
<1>0. FlagInv <=> ScanPart /\ AuthPart /\ SendPart /\ DaemonPart /\ OwesPart
  BY DEF FlagInv
<1>1. Init => FlagInv
  <2> SUFFICES ASSUME Init PROVE FlagInv
    OBVIOUS
  <2>1. ScanPart /\ AuthPart /\ DaemonPart /\ OwesPart
    BY DEF Init
  <2>2. sendCh = << >> /\ sender = "off" /\ sendRx = FALSE /\ << >> \in Seq(SendEvents)
    BY DEF Init
  <2>3. ~SendOver
    BY <2>2 DEF SendOver
  <2> QED
    BY <1>0, <2>1, <2>2, <2>3
<1>2. ASSUME ScanPart, [Next]_vars PROVE ScanPart'
  <2>1. CASE Frame
    <3>1. CASE scanCh = << >>
      BY <1>2, <2>1, <3>1 DEF Frame, DrainScan
    <3>2. CASE scanCh # << >>
      <4>1. PICK l \in Lists : scanCh = <<l>>
        BY <1>2, <3>2
      <4>2. shown' = l /\ scanning' = FALSE /\ scanCh' = << >> /\ scan' = scan
        BY <2>1, <3>2, <4>1 DEF Frame, DrainScan
      <4> QED
        BY <1>2, <3>2, <4>2
    <3> QED
      BY <3>1, <3>2
  <2>2. CASE Restart
    BY <2>2 DEF Restart
  <2>3. CASE ScanReports
    BY <1>2, <2>3 DEF ScanReports, shownVars
  <2>4. CASE start_scan
    BY <1>2, <2>4 DEF start_scan, Act, channelVars
  <2>5. CASE UNCHANGED <<shown, scan, scanning, scanCh>>
    BY <1>2, <2>5
  <2>6. Select \/ Fill \/ start_send \/ request_auth \/ DialogAnswered
          \/ (\E who \in {"daemon", "scan", "send"} : Repaint(who)) \/ UNCHANGED vars
          => UNCHANGED <<shown, scan, scanning, scanCh>>
    BY DEF Select, Fill, start_send, request_auth, Act, DialogAnswered, Repaint, vars,
           shownVars, channelVars
  <2>7. DaemonThread => UNCHANGED <<shown, scan, scanning, scanCh>>
    BY DEF DaemonThread, DaemonStarts, StartFails, PoolRegistered, PoolRefused, TransferStarts,
           TransferEnds, SessionEnds, SessionEndFails, ConnectionDropped, DaemonDies,
           DaemonSays, shownVars, channelVars
  <2>8. SenderThread => UNCHANGED <<shown, scan, scanning, scanCh>>
    BY DEF SenderThread, ReadBudget, ArmSend, SendTooBig, SendRefused, SendGoesOn, SendEnds,
           SendReport, SenderOnly, shownVars
  <2> QED
    BY <1>2, <2>1, <2>2, <2>3, <2>4, <2>5, <2>6, <2>7, <2>8 DEF Next, User
<1>3. ASSUME AuthPart, [Next]_vars PROVE AuthPart'
  <2>1. CASE Frame
    BY <1>3, <2>1 DEF Frame
  <2>2. CASE Restart
    BY <2>2 DEF Restart
  <2>3. CASE DialogAnswered
    <3>1. PICK exit \in ExitCodes : authCh' = <<request(has_ipc_lock(caps), machine, exit)>>
      BY <2>3 DEF DialogAnswered
    <3>2. request(has_ipc_lock(caps), machine, exit) \in Outcomes
      BY DEF request, Outcomes
    <3>3. asking /\ ~asking' /\ authRx' = authRx
      BY <2>3 DEF DialogAnswered, shownVars
    <3> QED
      BY <1>3, <3>1, <3>2, <3>3
  <2>4. CASE request_auth
    BY <1>3, <2>4 DEF request_auth, Act, channelVars
  <2>5. CASE UNCHANGED <<authCh, authRx, asking>>
    BY <1>3, <2>5
  <2>6. Select \/ Fill \/ start_send \/ start_scan \/ ScanReports
          \/ (\E who \in {"daemon", "scan", "send"} : Repaint(who)) \/ UNCHANGED vars
          => UNCHANGED <<authCh, authRx, asking>>
    BY DEF Select, Fill, start_send, start_scan, Act, ScanReports, Repaint, vars,
           shownVars, channelVars
  <2>7. DaemonThread => UNCHANGED <<authCh, authRx, asking>>
    BY DEF DaemonThread, DaemonStarts, StartFails, PoolRegistered, PoolRefused, TransferStarts,
           TransferEnds, SessionEnds, SessionEndFails, ConnectionDropped, DaemonDies,
           DaemonSays, shownVars, channelVars
  <2>8. SenderThread => UNCHANGED <<authCh, authRx, asking>>
    BY DEF SenderThread, ReadBudget, ArmSend, SendTooBig, SendRefused, SendGoesOn, SendEnds,
           SendReport, SenderOnly, shownVars
  <2> QED
    BY <1>3, <2>1, <2>2, <2>3, <2>4, <2>5, <2>6, <2>7, <2>8 DEF Next, User
<1>4. ASSUME SendPart, [Next]_vars PROVE SendPart'
  <2>1. CASE Frame
    <3>1. sendRx' = (sendRx /\ ~SendOver) /\ sendCh' = << >> /\ sender' = sender
      BY <2>1 DEF Frame, DrainSend, senderVars
    <3>2. ~SendOver'
      BY <3>1 DEF SendOver
    <3>3. << >> \in Seq(SendEvents)
      OBVIOUS
    <3> QED
      BY <1>4, <3>1, <3>2, <3>3
  <2>2. CASE Restart
    <3>1. sendRx' = FALSE /\ sendCh' = << >> /\ sender' = "off"
      BY <2>2 DEF Restart
    <3>2. ~SendOver'
      BY <3>1 DEF SendOver
    <3>3. << >> \in Seq(SendEvents)
      OBVIOUS
    <3> QED
      BY <3>1, <3>2, <3>3
  <2>3. CASE ReadBudget \/ ArmSend
    <3>1. UNCHANGED <<sendRx, sendCh>> /\ sender # "off" /\ sender' \in {"arm", "data"}
      BY <2>3 DEF ReadBudget, ArmSend, SenderOnly, shownVars
    <3> QED
      BY <1>4, <3>1 DEF SendOver
  <2>4. CASE SendTooBig \/ SendRefused \/ SendEnds
    <3>1. PICK e \in {"done", "failed"} : SendReport(e)
      BY <2>4 DEF SendTooBig, SendRefused, SendEnds
    <3>2. sendRx' = sendRx /\ sendCh' = Append(sendCh, e) /\ sender' = "off" /\ sender # "off"
      BY <2>4, <3>1 DEF SendReport, SenderOnly, shownVars, SendTooBig, SendRefused, SendEnds
    <3>3. e \in SendEvents
      BY DEF SendEvents
    <3>4. sendCh' \in Seq(SendEvents) /\ sendCh' # << >> /\ SendOver'
      BY <1>4, <3>2, <3>3, SendChannel DEF SendOver
    <3> QED
      BY <1>4, <3>2, <3>4
  <2>5. CASE SendGoesOn
    <3>1. /\ sendRx' = sendRx /\ sendCh' = Append(sendCh, "data")
          /\ sender' = sender /\ sender = "data"
      BY <2>5 DEF SendGoesOn, SenderOnly, shownVars, senderVars
    <3>2. "data" \in SendEvents
      BY DEF SendEvents
    <3>3. sendCh' \in Seq(SendEvents) /\ sendCh' # << >> /\ ~SendOver'
      BY <1>4, <3>1, <3>2, SendChannel DEF SendOver
    <3> QED
      BY <1>4, <3>1, <3>3
  <2>6. CASE start_send
    <3>1. /\ ~sendRx /\ sendCh' = sendCh
          /\ (sendRx' = TRUE /\ sender' = "budget") \/ UNCHANGED <<sendRx, sender>>
      BY <2>6 DEF start_send, Act, channelVars
    <3> QED
      BY <1>4, <3>1 DEF SendOver
  <2>7. CASE UNCHANGED <<sendCh, sendRx, sender>>
    BY <1>4, <2>7 DEF SendOver
  <2>8. Select \/ Fill \/ start_scan \/ request_auth \/ ScanReports \/ DialogAnswered
          \/ (\E who \in {"daemon", "scan", "send"} : Repaint(who)) \/ UNCHANGED vars
          => UNCHANGED <<sendCh, sendRx, sender>>
    BY DEF Select, Fill, start_scan, request_auth, Act, ScanReports, DialogAnswered, Repaint,
           vars, shownVars, channelVars, senderVars
  <2>9. DaemonThread => UNCHANGED <<sendCh, sendRx, sender>>
    BY DEF DaemonThread, DaemonStarts, StartFails, PoolRegistered, PoolRefused, TransferStarts,
           TransferEnds, SessionEnds, SessionEndFails, ConnectionDropped, DaemonDies,
           DaemonSays, shownVars, channelVars, senderVars
  <2> QED
    BY <1>4, <2>1, <2>2, <2>3, <2>4, <2>5, <2>6, <2>7, <2>8, <2>9 DEF Next, User, SenderThread
<1>5. ASSUME DaemonPart, [Next]_vars PROVE DaemonPart'
  <2>1. CASE DaemonThread
    BY <1>5, <2>1
    DEF DaemonThread, DaemonStarts, StartFails, PoolRegistered, PoolRefused, TransferStarts,
        TransferEnds, SessionEnds, SessionEndFails, ConnectionDropped, DaemonDies
  <2>2. CASE Restart
    BY <2>2 DEF Restart
  <2>3. CASE daemon' = daemon
    BY <1>5, <2>3
  <2>4. Frame \/ User \/ ScanReports \/ DialogAnswered
          \/ (\E who \in {"daemon", "scan", "send"} : Repaint(who)) \/ UNCHANGED vars
          => daemon' = daemon
    BY DEF Frame, User, Select, start_scan, Fill, start_send, request_auth, Act, ScanReports,
           DialogAnswered, Repaint, vars, daemonVars
  <2>5. SenderThread => daemon' = daemon
    BY DEF SenderThread, ReadBudget, ArmSend, SendTooBig, SendRefused, SendGoesOn, SendEnds,
           SendReport, SenderOnly, daemonVars
  <2> QED
    BY <1>5, <2>1, <2>2, <2>3, <2>4, <2>5 DEF Next
<1>6. ASSUME OwesPart, [Next]_vars PROVE OwesPart'
  <2>1. owes' = owes \/ owes' = {} \/ \E who \in {"daemon", "scan", "send"} :
          owes' = owes \cup {who} \/ owes' = owes \ {who}
    <3>1. DaemonThread => owes' = owes \/ owes' = owes \cup {"daemon"}
      BY DEF DaemonThread, DaemonStarts, StartFails, PoolRegistered, PoolRefused, TransferStarts,
             TransferEnds, SessionEnds, SessionEndFails, ConnectionDropped, DaemonDies,
             DaemonSays, Tells, paintVars
    <3>2. SenderThread => owes' = owes \/ owes' = owes \cup {"send"}
      BY DEF SenderThread, ReadBudget, ArmSend, SendTooBig, SendRefused, SendGoesOn, SendEnds,
             SendReport, Tells
    <3>3. Frame \/ User \/ DialogAnswered \/ UNCHANGED vars => owes' = owes
      BY DEF Frame, User, Select, start_scan, Fill, start_send, request_auth, Act,
             DialogAnswered, vars, paintVars
    <3>4. Restart => owes' = {}
      BY DEF Restart
    <3>5. ScanReports => owes' = owes \cup {"scan"}
      BY DEF ScanReports
    <3>6. \A who : Repaint(who) => owes' = owes \ {who}
      BY DEF Repaint
    <3> QED
      BY <1>6, <3>1, <3>2, <3>3, <3>4, <3>5, <3>6 DEF Next
  <2> QED
    BY <1>6, <2>1
<1> HIDE DEF ScanPart, AuthPart, SendPart, DaemonPart, OwesPart
<1>7. FlagInv /\ [Next]_vars => FlagInv'
  <2>1. (ScanPart /\ AuthPart /\ SendPart /\ DaemonPart /\ OwesPart)' <=> FlagInv'
    BY DEF FlagInv, ScanPart, AuthPart, SendPart, DaemonPart, OwesPart
  <2> QED
    BY <1>0, <1>2, <1>3, <1>4, <1>5, <1>6, <2>1
<1> QED
  BY <1>1, <1>7, PTL DEF Spec

-----------------------------------------------------------------------------
(* Who holds how much of the limit.                                         *)

\* The most the pool takes of a limit: half of it, rounded up to huge pages.
Share(l) == pool_alloc_size(AtLeast(l \div 2, MB))

\* Rounding up to huge pages keeps the order of sizes.
LEMMA AllocGrows ==
  ASSUME NEW a \in Nat, NEW b \in Nat, a <= b
  PROVE  /\ pool_alloc_size(a) \in Nat /\ pool_alloc_size(b) \in Nat
         /\ pool_alloc_size(a) <= pool_alloc_size(b)
BY DEF pool_alloc_size, CeilDiv, HUGE, MB

\* The pool that is asked for when h may be pinned, of a limit of l.
LEMMA PoolIsShare ==
  ASSUME NEW l \in Nat, NEW h \in Nat, h <= l
  PROVE  LET p == pool_alloc_size(pool_ceiling(NoUser, Avail, h)) IN p \in Nat /\ p <= Share(l)
<1> DEFINE c == pool_ceiling(NoUser, Avail, h)
           w == pool_want(NoUser, Avail)
           s == AtLeast(l \div 2, MB)
<1>1. w \in Nat
  BY TuneAssumption, GuiAssumption
  DEF pool_want, NoUser, Unknown, Clamp, AtMost, AtLeast, MIN_POOL, MB
<1>2. c = AtLeast(AtMost(w, h \div 2), MB)
  BY DEF pool_ceiling, NoLimit
<1>3. h \div 2 \in Nat /\ l \div 2 \in Nat /\ h \div 2 <= l \div 2
  OBVIOUS
<1> HIDE DEF w, c
<1>4. c \in Nat /\ s \in Nat /\ c <= s
  BY <1>1, <1>2, <1>3 DEF AtLeast, AtMost, MB
<1> HIDE DEF s
<1> QED
  BY <1>4, AllocGrows DEF c, s, Share

\* The pool wanted without a limit is a size.
LEMMA PoolIsSize == pool_alloc_size(pool_ceiling(NoUser, Avail, NoLimit)) \in Nat
<1>1. pool_ceiling(NoUser, Avail, NoLimit) \in Nat
  BY TuneAssumption, GuiAssumption
  DEF pool_ceiling, pool_want, NoUser, Unknown, Clamp, AtMost, AtLeast, MIN_POOL, MB
<1> QED
  BY <1>1, AllocGrows

\* The local pool of a sender: within the budget as soon as two slabs are.
LEMMA LocalPoolFits ==
  ASSUME NEW l, SenderSlab(l) \in Nat, NEW b \in Nat, NEW slabs \in Nat
  PROVE  /\ LocalPool(slabs, l, b) \in Nat
         /\ SenderArms(l, b) /\ b # Unlimited => LocalPool(slabs, l, b) <= b
<1> DEFINE wanted == AtLeast(slabs, 2)
           T == {n \in 2..wanted : n = 2 \/ Fits(n, l, b)}
           P(n) == (n = 2 \/ Fits(n, l, b)) /\ \A m \in n + 1..wanted : ~Fits(m, l, b)
           n0 == LocalSlabs(slabs, l, b)
<1>1. wanted \in Nat /\ wanted >= 2
  BY DEF AtLeast
<1>2. T \in SUBSET Nat /\ 2 \in T /\ \A k \in T : k <= wanted
  BY <1>1
<1>3. PICK n \in T : \A k \in T : k <= n
  BY <1>1, <1>2, GreatestOf
<1>4. \A m \in n + 1..wanted : m \in 2..wanted /\ m \notin T
  BY <1>1, <1>3
<1>5. P(n) /\ n \in 2..wanted
  BY <1>3, <1>4
<1>6. n0 = CHOOSE k \in 2..wanted : P(k)
  BY DEF LocalSlabs
<1> HIDE DEF wanted, n0
<1>7. n0 \in 2..wanted /\ P(n0)
  BY <1>5, <1>6
<1>8. n0 \in Nat /\ (n0 = 2 \/ Fits(n0, l, b))
  BY <1>7, <1>1
<1>9. LocalPool(slabs, l, b) = pool_alloc_size(n0 * SenderSlab(l))
  BY DEF LocalPool, n0
<1>10. n0 * SenderSlab(l) \in Nat
  BY <1>8
<1> QED
  BY <1>8, <1>9, <1>10, AllocGrows DEF Fits, SenderArms

\* The sender of this program has a layout with slabs of a size.
LEMMA LayoutHasSize ==
  ASSUME budget \in Nat
  PROVE  SenderSlab(Layout) \in Nat
<1>1. SlabSize(RemotePool, Total, NoOverride, budget) \in Nat
  BY GuiAssumption, SlabIsSize
<1>2. Layout.slab = SlabSize(RemotePool, Total, NoOverride, budget)
  BY DEF Layout, carve
<1> QED
  BY <1>1, <1>2 DEF SenderSlab, AtLeast, Page

\* What daemon and sender have pinned is within the limit; the pool takes its share
\* at most, and a sender that looked after its registration has a budget that
\* counts it.
MemInv ==
  /\ limit \in Limits
  /\ pool \in Nat /\ poolPin \in {0, pool} /\ sendPin \in Nat /\ budget \in Nat
  /\ sawPool \in BOOLEAN
  /\ Limit # NoLimit => pool <= Share(limit)
  /\ Limit = NoLimit \/ Pinned <= Limit
  /\ daemon \in {"start", "reg"} => poolPin = 0
  /\ sender # "data" => sendPin = 0
  /\ sender = "arm" /\ sawPool =>
       daemon # "start" /\ budget = SenderBudget(memlock_headroom(Limit, pool))

\* The limit is a number or there is none.
LEMMA LimitIsNumber ==
  ASSUME limit \in Limits
  PROVE  Limit = NoLimit \/ (Limit = limit /\ limit \in Nat)
BY GuiAssumption DEF Limit, memlock_limit

\* What is left of it is a number, and no more than the limit.
LEMMA HeadroomIsNumber ==
  ASSUME MemInv
  PROVE  /\ Limit = NoLimit => Headroom = NoLimit
         /\ Limit # NoLimit => Headroom \in Nat /\ Headroom <= limit
         /\ SenderBudget(Headroom) \in Nat
<1>1. poolPin \in Nat /\ sendPin \in Nat
  BY DEF MemInv
<1>2. Limit = NoLimit \/ (Limit = limit /\ limit \in Nat)
  BY LimitIsNumber DEF MemInv
<1>3. Limit = NoLimit => Headroom = NoLimit
  BY DEF Headroom, memlock_headroom
<1>4. Limit # NoLimit => Headroom \in Nat /\ Headroom <= limit
  BY <1>1, <1>2 DEF Headroom, memlock_headroom, locked_now, Pinned, AtLeast
<1>5. \A h \in Nat : h - h \div 8 \in Nat
  OBVIOUS
<1> QED
  BY <1>3, <1>4, <1>5 DEF SenderBudget, Unlimited, NoLimit

\* The memory is shared within the limit, whoever pins and gives back when.
LEMMA MemoryInvariant == Spec => []MemInv
<1>1. Init => MemInv
  <2> SUFFICES ASSUME Init PROVE MemInv
    OBVIOUS
  <2>1. /\ limit \in Limits /\ pool = 0 /\ poolPin = 0 /\ sendPin = 0 /\ budget = 0
        /\ daemon = "start" /\ sender = "off" /\ sawPool = FALSE
    BY DEF Init
  <2>2. Limit = NoLimit \/ (Limit = limit /\ limit \in Nat)
    BY <2>1, LimitIsNumber
  <2>3. Limit # NoLimit => Share(limit) \in Nat
    BY <2>2, AllocGrows DEF Share, AtLeast, MB
  <2>4. Pinned = 0 /\ (Limit # NoLimit => pool <= Share(limit)) /\ sawPool \in BOOLEAN
    <3>1. Pinned = 0 /\ (Limit # NoLimit => pool <= Share(limit))
      BY <2>1, <2>3 DEF Pinned
    <3>2. sawPool \in BOOLEAN
      BY <2>1
    <3> QED
      BY <3>1, <3>2
  <2>5. Limit = NoLimit \/ Pinned <= Limit
    BY <2>2, <2>4
  <2>6. pool \in Nat /\ poolPin \in {0, pool} /\ sendPin \in Nat /\ budget \in Nat
    BY <2>1
  <2>7. sender = "arm" /\ sawPool =>
          daemon # "start" /\ budget = SenderBudget(memlock_headroom(Limit, pool))
    BY <2>1
  <2> QED
    BY <2>1, <2>4, <2>5, <2>6, <2>7 DEF MemInv
<1>2. MemInv /\ FlagInv /\ [Next]_vars => MemInv'
  <2> SUFFICES ASSUME MemInv, FlagInv, [Next]_vars PROVE MemInv'
    OBVIOUS
  <2> USE DEF MemInv
  <2>0. Limit = NoLimit \/ (Limit = limit /\ limit \in Nat)
    BY LimitIsNumber
  <2>1. CASE DaemonStarts
    <3>1. /\ UNCHANGED <<limit, caps, poolPin, sendPin, sender, budget, sawPool>>
          /\ daemon = "start" /\ daemon' = "reg"
          /\ pool' = pool_alloc_size(pool_ceiling(NoUser, Avail, Headroom))
      BY <2>1 DEF DaemonStarts, senderVars, processVars
    <3>2. pool' \in Nat /\ (Limit # NoLimit => pool' <= Share(limit))
      <4>1. CASE Limit = NoLimit
        BY <4>1, <3>1, HeadroomIsNumber, PoolIsSize
      <4>2. CASE Limit # NoLimit
        BY <4>2, <2>0, <3>1, HeadroomIsNumber, PoolIsShare
      <4> QED
        BY <4>1, <4>2
    <3>3. poolPin = 0
      BY <3>1
    <3> QED
      BY <3>1, <3>2, <3>3 DEF Limit, Pinned
  <2>2. CASE PoolRegistered
    <3>1. /\ UNCHANGED <<limit, caps, pool, sendPin, sender, budget, sawPool>>
          /\ daemon = "reg" /\ daemon' = "idle" /\ poolPin' = pool /\ MayPin(pool)
      BY <2>2 DEF PoolRegistered, DaemonSays, senderVars
    <3>2. Limit = NoLimit \/ pool + sendPin <= Limit
      BY <2>0, <3>1 DEF MayPin, Pinned
    <3> QED
      BY <3>1, <3>2 DEF Limit, Pinned
  <2>3. CASE DaemonDies
    <3>1. /\ UNCHANGED <<limit, caps, pool, sendPin, sender, budget, sawPool>>
          /\ daemon' = "dead" /\ poolPin' = 0
      BY <2>3 DEF DaemonDies, DaemonSays, senderVars
    <3>2. Limit = NoLimit \/ 0 + sendPin <= Limit
      BY <2>0 DEF Pinned
    <3> QED
      BY <3>1, <3>2 DEF Limit, Pinned
  <2>4. CASE StartFails \/ PoolRefused \/ TransferStarts \/ TransferEnds \/ SessionEnds
             \/ SessionEndFails \/ ConnectionDropped
    <3>1. /\ UNCHANGED <<limit, caps, pool, poolPin, sendPin, sender, budget, sawPool>>
          /\ daemon' \notin {"start", "reg"}
      BY <2>4 DEF StartFails, PoolRefused, TransferStarts, TransferEnds, SessionEnds,
                  SessionEndFails, ConnectionDropped, DaemonSays, senderVars, processVars
    <3> QED
      BY <3>1 DEF Limit, Pinned
  <2>5. CASE ReadBudget
    <3>1. /\ UNCHANGED <<limit, caps, daemon, pool, poolPin, sendPin>>
          /\ sender = "budget" /\ sender' = "arm"
          /\ budget' = SenderBudget(Headroom) /\ sawPool' = (poolPin > 0)
      BY <2>5 DEF ReadBudget, SenderOnly, daemonVars
    <3>2. sendPin = 0 /\ budget' \in Nat
      BY <3>1, HeadroomIsNumber
    <3>3. ASSUME sawPool'
          PROVE  daemon # "start" /\ budget' = SenderBudget(memlock_headroom(Limit, pool))
      <4>0. poolPin > 0
        BY <3>1, <3>3
      <4>1. poolPin = pool /\ poolPin # 0
        BY <4>0
      <4>2. locked_now(0, Pinned) = pool
        BY <3>2, <4>1 DEF locked_now, Pinned
      <4> QED
        BY <3>1, <4>1, <4>2 DEF Headroom
    <3> QED
      BY <3>1, <3>2, <3>3 DEF Limit, Pinned
  <2>6. CASE ArmSend
    <3>1. /\ UNCHANGED <<limit, caps, daemon, pool, poolPin, budget, sawPool>>
          /\ sender = "arm" /\ sender' = "data"
          /\ sendPin' = LocalPool(Slabs, Layout, budget)
          /\ MayPin(LocalPool(Slabs, Layout, budget))
      BY <2>6 DEF ArmSend, SenderOnly, daemonVars
    <3>2. sendPin' \in Nat
      BY <3>1, LayoutHasSize, LocalPoolFits, GuiAssumption
    <3>3. sendPin = 0
      BY <3>1
    <3>4. Limit = NoLimit \/ poolPin + sendPin' <= Limit
      BY <2>0, <3>1, <3>2, <3>3 DEF MayPin, Pinned
    <3> QED
      BY <3>1, <3>2, <3>4 DEF Limit, Pinned
  <2>7. CASE SendTooBig \/ SendRefused \/ SendEnds
    <3>1. /\ UNCHANGED <<limit, caps, daemon, pool, poolPin>>
          /\ sender' = "off" /\ sendPin' = 0 /\ budget' = 0 /\ sawPool' = FALSE
      BY <2>7 DEF SendTooBig, SendRefused, SendEnds, SendReport, SenderOnly, daemonVars
    <3>2. Limit = NoLimit \/ poolPin + 0 <= Limit
      BY <2>0 DEF Pinned
    <3> QED
      BY <3>1, <3>2 DEF Limit, Pinned
  <2>8. CASE SendGoesOn
    <3>1. UNCHANGED <<limit, caps, daemon, pool, poolPin, sender, sendPin, budget, sawPool>>
      BY <2>8 DEF SendGoesOn, SenderOnly, daemonVars, senderVars
    <3> QED
      BY <3>1 DEF Limit, Pinned
  <2>9. CASE Restart
    <3>1. /\ limit' = limit /\ pool' = 0 /\ poolPin' = 0 /\ sendPin' = 0 /\ budget' = 0
          /\ daemon' = "start" /\ sender' = "off" /\ sawPool' = FALSE
          /\ caps' = {CAP_IPC_LOCK}
      BY <2>9 DEF Restart
    <3>2. Limit' = NoLimit
      BY <3>1 DEF Limit, memlock_limit, has_ipc_lock
    <3> QED
      BY <3>1, <3>2
  <2>10. CASE start_send
    <3>1. /\ UNCHANGED <<limit, caps, daemon, pool, poolPin, sendPin, budget, sawPool>>
          /\ sender' = sender \/ sender' = "budget"
      BY <2>10 DEF start_send, Act, daemonVars, processVars
    <3>2. sender = "off"
      BY <2>10 DEF start_send, FlagInv
    <3> QED
      BY <3>1, <3>2 DEF Limit, Pinned
  <2>11. CASE UNCHANGED <<limit, caps, daemon, pool, poolPin, sender, sendPin, budget, sawPool>>
    BY <2>11 DEF Limit, Pinned
  <2>12. Frame \/ ScanReports \/ DialogAnswered \/ (\E who \in {"daemon", "scan", "send"} : Repaint(who))
           \/ UNCHANGED vars
           => UNCHANGED <<limit, caps, daemon, pool, poolPin, sender, sendPin, budget, sawPool>>
    BY DEF Frame, ScanReports, DialogAnswered, Repaint, vars, daemonVars, senderVars, processVars
  <2>13. Select \/ start_scan \/ Fill \/ request_auth
           => UNCHANGED <<limit, caps, daemon, pool, poolPin, sender, sendPin, budget, sawPool>>
    BY DEF Select, start_scan, Fill, request_auth, Act, daemonVars, processVars
  <2> QED
    BY <2>1, <2>2, <2>3, <2>4, <2>5, <2>6, <2>7, <2>8, <2>9, <2>10, <2>11, <2>12, <2>13
    DEF Next, User, DaemonThread, SenderThread
<1> QED
  BY <1>1, <1>2, FlagInvariant, PTL DEF Spec

-----------------------------------------------------------------------------
(* The daemon's pool.                                                       *)

\* The pool that is asked for fits a limit of at least 2 MB when nothing else of
\* the process is pinned: half the limit, rounded up to huge pages.
LEMMA PoolFits ==
  ASSUME NEW L \in Nat, L >= HUGE
  PROVE  LET p == pool_alloc_size(pool_ceiling(NoUser, Avail, L)) IN p \in Nat /\ p <= L
<1> DEFINE c == pool_ceiling(NoUser, Avail, L)
           w == pool_want(NoUser, Avail)
<1>1. w \in Nat
  BY TuneAssumption, GuiAssumption
  DEF pool_want, NoUser, Unknown, Clamp, AtMost, AtLeast, MIN_POOL, MB
<1>2. c = AtLeast(AtMost(w, L \div 2), MB)
  BY DEF pool_ceiling, NoLimit
<1> HIDE DEF w, c
<1>3. L \div 2 \in Nat /\ 2 * (L \div 2) <= L
  OBVIOUS
<1>4. c \in Nat /\ c >= MB /\ (c <= L \div 2 \/ c = MB)
  BY <1>1, <1>2, <1>3 DEF AtLeast, AtMost, MB
<1>5. CeilDiv(c, HUGE) * HUGE \in Nat /\ CeilDiv(c, HUGE) * HUGE <= L
  BY <1>3, <1>4 DEF CeilDiv, HUGE, MB
<1> QED
  BY <1>5 DEF c, pool_alloc_size

\* Limits that hold at least one huge page.
RoomForAPage == \A l \in Limits : l = NoLimit \/ l >= HUGE

\* As long as no sender has looked before the pool was registered, the daemon
\* has the limit to itself until then.
PoolInv ==
  /\ limit \in Limits
  /\ daemon \in {"start", "reg"} => poolPin = 0
  /\ daemon \in {"start", "reg"} /\ ~early => sendPin = 0 /\ sender \in {"off", "budget"}
  /\ daemon = "reg" /\ ~early =>
       pool = pool_alloc_size(pool_ceiling(NoUser, Avail, memlock_headroom(Limit, 0)))
  /\ early \in BOOLEAN
  /\ <<"pool", FALSE>> \notin shortOf

\* With the limit to itself the pool is not refused.
LEMMA PoolIsGranted ==
  ASSUME RoomForAPage, PoolInv, daemon = "reg", ~early
  PROVE  MayPin(pool)
<1>1. Pinned = 0
  BY DEF PoolInv, Pinned
<1>2. CASE Limit = NoLimit
  BY <1>2 DEF MayPin
<1>3. CASE Limit # NoLimit
  <2>1. Limit = limit /\ limit \in Nat /\ limit >= HUGE
    BY <1>3, GuiAssumption DEF Limit, memlock_limit, PoolInv, RoomForAPage
  <2>2. memlock_headroom(Limit, 0) = limit
    BY <1>3, <2>1 DEF memlock_headroom, AtLeast
  <2>3. pool \in Nat /\ pool <= limit
    BY <2>1, <2>2, PoolFits DEF PoolInv
  <2> QED
    BY <1>1, <2>1, <2>3 DEF MayPin
<1> QED
  BY <1>2, <1>3

\* No step of daemon, sender or user changes that.
LEMMA PoolInvariant ==
  ASSUME RoomForAPage
  PROVE  Spec => []PoolInv
<1>1. Init => PoolInv
  BY DEF Init, PoolInv
<1>2. PoolInv /\ [Next]_vars => PoolInv'
  <2> SUFFICES ASSUME PoolInv, [Next]_vars PROVE PoolInv'
    OBVIOUS
  <2>1. CASE DaemonStarts
    <3>1. /\ daemon = "start" /\ UNCHANGED <<limit, caps, poolPin, sendPin, sender, early, shortOf>>
          /\ daemon' = "reg"
          /\ pool' = pool_alloc_size(pool_ceiling(NoUser, Avail, Headroom))
      BY <2>1 DEF DaemonStarts, senderVars, processVars
    <3>2. ~early => Headroom = memlock_headroom(Limit, 0)
      BY <3>1 DEF PoolInv, Headroom, locked_now, Pinned
    <3> QED
      BY <3>1, <3>2 DEF PoolInv, Limit
  <2>2. CASE PoolRefused
    <3>1. early
      BY <2>2, PoolIsGranted DEF PoolRefused, PoolInv
    <3>2. /\ UNCHANGED <<limit, early>> /\ daemon' = "dead"
          /\ shortOf' = shortOf \cup {<<"pool", early>>}
      BY <2>2 DEF PoolRefused, DaemonSays
    <3> QED
      BY <3>1, <3>2 DEF PoolInv
  <2>3. CASE StartFails \/ PoolRegistered \/ TransferStarts \/ TransferEnds \/ SessionEnds
             \/ SessionEndFails \/ ConnectionDropped \/ DaemonDies
    <3>1. UNCHANGED <<limit, early, shortOf>> /\ daemon' \notin {"start", "reg"}
      BY <2>3 DEF StartFails, PoolRegistered, TransferStarts, TransferEnds, SessionEnds,
                  SessionEndFails, ConnectionDropped, DaemonDies, DaemonSays, processVars
    <3> QED
      BY <3>1 DEF PoolInv
  <2>4. CASE ReadBudget
    <3>1. /\ UNCHANGED <<limit, caps, daemon, pool, poolPin, shortOf>>
          /\ early' = (early \/ poolPin = 0)
      BY <2>4 DEF ReadBudget, SenderOnly, daemonVars
    <3> QED
      BY <3>1 DEF PoolInv
  <2>5. CASE ArmSend \/ SendGoesOn
    <3>1. /\ UNCHANGED <<limit, caps, daemon, pool, poolPin, early, shortOf>>
          /\ sender \in {"arm", "data"}
      BY <2>5 DEF ArmSend, SendGoesOn, SenderOnly, daemonVars
    <3> QED
      BY <3>1 DEF PoolInv, Limit
  <2>6. CASE SendTooBig \/ SendRefused \/ SendEnds
    <3>1. /\ UNCHANGED <<limit, caps, daemon, pool, poolPin, early>>
          /\ sendPin' = 0 /\ sender' = "off"
          /\ shortOf' = shortOf \/ shortOf' = shortOf \cup {<<"send", sawPool>>}
      BY <2>6 DEF SendTooBig, SendRefused, SendEnds, SendReport, SenderOnly, daemonVars
    <3> QED
      BY <3>1 DEF PoolInv, Limit
  <2>7. CASE Restart
    BY <2>7 DEF Restart, PoolInv
  <2>8. CASE start_send
    <3>1. /\ UNCHANGED <<limit, caps, daemon, pool, poolPin, sendPin, early, shortOf>>
          /\ sender' = sender \/ sender' = "budget"
      BY <2>8 DEF start_send, Act, daemonVars, processVars
    <3> QED
      BY <3>1 DEF PoolInv, Limit
  <2>9. CASE UNCHANGED <<limit, caps, daemon, pool, poolPin, sender, sendPin, early, shortOf>>
    BY <2>9 DEF PoolInv, Limit
  <2>10. Frame \/ ScanReports \/ DialogAnswered \/ (\E who \in {"daemon", "scan", "send"} : Repaint(who))
           \/ UNCHANGED vars
           => UNCHANGED <<limit, caps, daemon, pool, poolPin, sender, sendPin, early, shortOf>>
    BY DEF Frame, ScanReports, DialogAnswered, Repaint, vars, daemonVars, senderVars, processVars
  <2>11. Select \/ start_scan \/ Fill \/ request_auth
           => UNCHANGED <<limit, caps, daemon, pool, poolPin, sender, sendPin, early, shortOf>>
    BY DEF Select, start_scan, Fill, request_auth, Act, daemonVars, processVars
  <2> QED
    BY <2>1, <2>2, <2>3, <2>4, <2>5, <2>6, <2>7, <2>8, <2>9, <2>10, <2>11
    DEF Next, User, DaemonThread, SenderThread
<1> QED
  BY <1>1, <1>2, PTL DEF Spec

\* Half of MemlockIsShared, for every limit of 2 MB or more (tune.rs:66): the
\* daemon's pool is refused only where a sender of the same process read its
\* budget before the pool was registered.
THEOREM PoolRefusedOnlyAfterASender ==
  ASSUME RoomForAPage
  PROVE  Spec => [](<<"pool", FALSE>> \notin shortOf)
<1>1. PoolInv => <<"pool", FALSE>> \notin shortOf
  BY DEF PoolInv
<1> QED
  BY <1>1, PoolInvariant, PTL

-----------------------------------------------------------------------------
(* The sender.                                                              *)

\* Limits that leave a budget of 2 MB beside the pool: not those below 7 MB, nor
\* those a little above 8 MB, where rounding the pool up takes most of the rest.
RoomForBoth == \A l \in Limits : l = NoLimit \/ (7 * MB <= l /\ l <= 8 * MB) \/ 9 * MB <= l

\* They do.
LEMMA BudgetBesidePool ==
  ASSUME NEW l \in Nat, (7 * MB <= l /\ l <= 8 * MB) \/ 9 * MB <= l, NEW p \in Nat, p <= Share(l)
  PROVE  LET b == SenderBudget(memlock_headroom(l, p))
         IN  b \in Nat /\ b >= HUGE /\ b <= l - p
<1> DEFINE s == Share(l)
           h == memlock_headroom(l, p)
<1>1. s = CeilDiv(AtLeast(l \div 2, MB), HUGE) * HUGE
  BY DEF Share, pool_alloc_size
<1>2. s \in Nat /\ (l <= 8 * MB => s <= 4 * MB) /\ (9 * MB <= l => 2 * s <= l + 4 * MB)
  <2> DEFINE half == l \div 2
             z == AtLeast(half, MB)
             q == (z + 2097151) \div 2097152
  <2>1. half \in Nat /\ 2 * half <= l
    OBVIOUS
  <2>2. z \in Nat /\ (l <= 8 * MB => z <= 4194304) /\ (9 * MB <= l => 2 * z <= l)
    <3> HIDE DEF half
    <3> QED
      BY <2>1, SMT DEF AtLeast, MB
  <2>3. s = q * 2097152
    BY <1>1, SMT DEF CeilDiv, HUGE, MB
  <2> HIDE DEF z, s
  <2>4. q \in Nat /\ q * 2097152 <= z + 2097151 /\ (z <= 4194304 => q <= 2)
    BY <2>2, SMT
  <2> HIDE DEF q
  <2> QED
    BY <2>2, <2>3, <2>4, SMT DEF MB
<1> HIDE DEF s
<1>3. l - p >= 2621440 /\ l - p \in Nat
  BY <1>2 DEF MB, s
<1>4. h = l - p /\ h # NoLimit
  BY <1>3 DEF memlock_headroom, AtLeast, NoLimit
<1>5. SenderBudget(h) = h - h \div 8
  BY <1>4 DEF SenderBudget
<1> HIDE DEF h
<1>6. SenderBudget(h) \in Nat /\ SenderBudget(h) >= HUGE /\ SenderBudget(h) <= l - p
  BY <1>3, <1>4, <1>5 DEF HUGE, MB
<1> QED
  BY <1>6 DEF h

\* A sender that counted the pool fits its slabs into what is left.
LEMMA SenderIsGranted ==
  ASSUME RoomForBoth, MemInv, sender = "arm", sawPool
  PROVE  SenderArms(Layout, budget) /\ MayPin(LocalPool(Slabs, Layout, budget))
<1>1. Limit = NoLimit \/ (Limit = limit /\ limit \in Nat)
  BY LimitIsNumber DEF MemInv
<1>2. CASE Limit = NoLimit
  <2>1. budget = Unlimited
    BY <1>2 DEF MemInv, memlock_headroom, SenderBudget
  <2> QED
    BY <1>2, <2>1 DEF SenderArms, Fits, MayPin
<1>3. CASE Limit # NoLimit
  <2>1. (7 * MB <= limit /\ limit <= 8 * MB) \/ 9 * MB <= limit
    BY <1>1, <1>3 DEF RoomForBoth, MemInv
  <2>2. pool \in Nat /\ pool <= Share(limit) /\ budget = SenderBudget(memlock_headroom(limit, pool))
    BY <1>1, <1>3 DEF MemInv
  <2>3. budget \in Nat /\ budget >= HUGE /\ budget <= limit - pool
    BY <1>1, <1>3, <2>1, <2>2, BudgetBesidePool
  <2>4. SenderArms(Layout, budget)
    <3>1. Layout.slab = SlabSize(RemotePool, Total, NoOverride, budget)
      BY DEF Layout, carve
    <3>2. /\ Layout.slab \in Nat /\ Layout.slab >= MB
          /\ pool_alloc_size(2 * Layout.slab) <= budget
      <4> DEFINE slab == SlabSize(RemotePool, Total, NoOverride, budget)
      <4>1. slab \in Nat /\ slab >= MB /\ pool_alloc_size(2 * slab) <= budget
        BY <2>3, TwoSlabsFitBudget, GuiAssumption
      <4> QED
        BY <3>1, <4>1
    <3>3. SenderSlab(Layout) = Layout.slab
      BY <3>2 DEF SenderSlab, AtLeast, Page, MB
    <3> QED
      BY <3>2, <3>3 DEF SenderArms, Fits
  <2>5. LocalPool(Slabs, Layout, budget) \in Nat /\ LocalPool(Slabs, Layout, budget) <= budget
    <3>1. budget # Unlimited
      BY <2>3 DEF Unlimited, HUGE, MB
    <3> QED
      BY <2>3, <2>4, <3>1, LayoutHasSize, LocalPoolFits, GuiAssumption
  <2>6. poolPin \in Nat /\ poolPin <= pool /\ sendPin = 0
    BY DEF MemInv
  <2> DEFINE lp == LocalPool(Slabs, Layout, budget)
  <2>7. Pinned + lp <= limit
    <3> HIDE DEF lp
    <3> QED
      BY <1>1, <1>3, <2>2, <2>3, <2>5, <2>6 DEF Pinned, lp
  <2> QED
    BY <1>1, <1>3, <2>4, <2>7 DEF MayPin
<1> QED
  BY <1>2, <1>3

\* Nobody but a sender that did not see the pool is short of memory, or the pool.
SharedInv == shortOf \subseteq {<<"send", FALSE>>, <<"pool", TRUE>>, <<"pool", FALSE>>}

\* The memlock limit is shared without a word (tune.rs:66 and 103): whatever the
\* limit, as long as there is room for both, a sender that looked after the pool
\* was registered gets its slabs, and the pool is refused only after a sender.
THEOREM MemlockIsSharedAlways ==
  ASSUME RoomForBoth
  PROVE  Spec => []MemlockIsShared
<1>1. RoomForAPage
  <2> SUFFICES ASSUME NEW l \in Limits, l # NoLimit PROVE l >= HUGE
    BY DEF RoomForAPage
  <2>1. l \in Nat
    BY GuiAssumption
  <2>2. (7 * MB <= l /\ l <= 8 * MB) \/ 9 * MB <= l
    BY DEF RoomForBoth
  <2> QED
    BY <2>1, <2>2, SMT DEF HUGE, MB
<1>2. Init => SharedInv
  BY DEF Init, SharedInv
<1>3. SharedInv /\ PoolInv /\ MemInv /\ [Next]_vars => SharedInv'
  <2> SUFFICES ASSUME SharedInv, PoolInv, MemInv, [Next]_vars PROVE SharedInv'
    OBVIOUS
  <2>1. CASE PoolRefused
    <3>1. shortOf' = shortOf \cup {<<"pool", early>>} /\ early \in BOOLEAN
      BY <2>1 DEF PoolRefused, PoolInv
    <3> QED
      BY <3>1 DEF SharedInv
  <2>2. CASE SendTooBig
    <3>1. sender = "arm" /\ shortOf' = shortOf \cup {<<"send", sawPool>>}
          /\ ~(SenderArms(Layout, budget) /\ MayPin(LocalPool(Slabs, Layout, budget)))
      BY <2>2 DEF SendTooBig
    <3>2. sawPool = FALSE
      BY <3>1, SenderIsGranted DEF MemInv
    <3> QED
      BY <3>1, <3>2 DEF SharedInv
  <2>3. CASE Restart
    BY <2>3 DEF Restart, SharedInv
  <2>4. CASE shortOf' = shortOf
    BY <2>4 DEF SharedInv
  <2>5. \/ Frame \/ User \/ ScanReports \/ DialogAnswered
        \/ \E who \in {"daemon", "scan", "send"} : Repaint(who)
        \/ UNCHANGED vars
        => shortOf' = shortOf
    BY DEF Frame, User, Select, start_scan, Fill, start_send, request_auth, Act, ScanReports,
           DialogAnswered, Repaint, vars, processVars
  <2>6. DaemonThread => PoolRefused \/ shortOf' = shortOf
    BY DEF DaemonThread, DaemonStarts, StartFails, PoolRegistered, TransferStarts, TransferEnds,
           SessionEnds, SessionEndFails, ConnectionDropped, DaemonDies, processVars
  <2>7. SenderThread => SendTooBig \/ shortOf' = shortOf
    BY DEF SenderThread, ReadBudget, ArmSend, SendRefused, SendGoesOn, SendEnds
  <2> QED
    BY <2>1, <2>2, <2>3, <2>4, <2>5, <2>6, <2>7 DEF Next
<1>4. SharedInv /\ PoolInv => MemlockIsShared
  BY DEF SharedInv, PoolInv, MemlockIsShared
<1> QED
  BY <1>1, <1>2, <1>3, <1>4, PoolInvariant, MemoryInvariant, PTL DEF Spec

-----------------------------------------------------------------------------
\* The types and ranges of the state and the flags of the threads, whatever the
\* limits, the lists and the number of sends and transfers.
THEOREM TypeCorrectness == Spec => []TypeOK
<1>1. FlagInv /\ SelInv /\ MemInv /\ ViewInv => TypeOK
  <2> SUFFICES ASSUME FlagInv, SelInv, MemInv, ViewInv PROVE TypeOK
    OBVIOUS
  <2>1. Len(scanCh) <= 1
    <3>1. CASE scanCh = << >>
      BY <3>1
    <3>2. CASE scanCh # << >>
      <4>1. PICK l \in Lists : scanCh = <<l>>
        BY <3>2 DEF FlagInv
      <4> QED
        BY <4>1
    <3> QED
      BY <3>1, <3>2
  <2>2. Len(authCh) <= 1 /\ Range(authCh) \subseteq Outcomes
    <3>1. CASE authCh = << >>
      BY <3>1 DEF Range
    <3>2. CASE authCh # << >>
      <4>1. PICK o \in Outcomes : authCh = <<o>>
        BY <3>2 DEF FlagInv
      <4> QED
        BY <4>1 DEF Range
    <3> QED
      BY <3>1, <3>2
  <2>3. \A S : \A c \in Seq(S) : Range(c) \subseteq S
    BY DEF Range
  <2>4. Range(daemonCh) \subseteq DaemonEvents /\ Range(sendCh) \subseteq {"data", "done", "failed"}
    BY <2>3 DEF FlagInv, ViewInv, SendEvents
  <2> QED
    BY <2>1, <2>2, <2>4 DEF TypeOK, FlagInv, SelInv, MemInv, ViewInv, Views
<1> QED
  BY <1>1, FlagInvariant, SelectionInvariant, MemoryInvariant, ViewInvariant, PTL

=============================================================================
