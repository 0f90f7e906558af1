-------------------------------- MODULE Gui ---------------------------------
(***************************************************************************)
(* The desktop program (src/src/bin/gui.rs): one process in which a drawing *)
(* thread, the daemon, a scan, a sender and a thread that waits for the     *)
(* authorisation dialog run side by side.  The others talk to the drawing   *)
(* thread through channels that it empties at the start of a frame; a frame *)
(* comes when somebody has asked for it or its own timer runs out.  Daemon  *)
(* and sender pin memory from one memlock limit.                            *)
(***************************************************************************)
EXTENDS Tune, Authorize, Sequences, SequencesExt

CONSTANTS
  Lists,       \* lists of peers a scan may return (see Discover)
  Argv,        \* files are named on the command line
  Limits,      \* soft memlock limits the program may be started with
  Desktops,    \* machines (see Authorize) it may be started on
  Avail,       \* MemAvailable
  RemotePool,  \* the pool of the peer files are sent to
  Total,       \* bytes of a send
  Slabs,       \* --slabs of a send (16)
  ChanCap,     \* bound on the progress messages in a channel
  MaxServes,   \* bound on the connections of senders
  MaxActs      \* bound on what the user does

ASSUME GuiAssumption ==
  /\ Lists \subseteq Seq(Nat) /\ Argv \in BOOLEAN
  /\ Limits \subseteq Nat \cup {NoLimit} /\ Desktops \subseteq Machines
  /\ Avail \in Nat /\ RemotePool \in Nat /\ Total \in Nat /\ Slabs \in Nat
  /\ ChanCap \in Nat /\ MaxServes \in Nat /\ MaxActs \in Nat

VARIABLES
  shown,      \* the peers listed
  selected,   \* index of the one selected, from 0
  scanning,   \* a scan is awaited (scan_rx is Some)
  scan,       \* the scan's threads are at work
  view,       \* the daemon as shown: ready, err, incoming
  queue,      \* there are files to be sent
  sendRx,     \* a send is awaited
  outgoing,   \* the progress of a send is shown
  authRx,     \* an answer to the dialog is awaited
  wake,       \* a repaint has been requested
  timer,      \* a repaint has been requested for later
  owes,       \* threads that have sent a message and not yet asked for a repaint
  scanCh, daemonCh, sendCh, authCh,   \* the channels to the drawing thread
  daemon,     \* "start", "reg", "idle", "transfer", "end" or "dead"
  served,     \* connections of senders
  pool,       \* bytes of the pool asked for
  poolPin,    \* bytes pinned for it
  sender,     \* "off", "budget", "arm" or "data"
  budget,     \* what the sender thinks it may pin
  sawPool,    \* the pool was registered when the sender read its budget
  sendPin,    \* bytes pinned by the sender
  asking,     \* the dialog is open
  limit, caps, machine,   \* of this process
  early,      \* some sender of this process read its budget before the pool was registered
  shortOf,    \* pins that failed: <<who, sawPool or early>>
  acts        \* what the user has done

shownVars == <<shown, selected, scanning, view, queue, sendRx, outgoing, authRx>>
paintVars == <<wake, timer, owes>>
channelVars == <<scanCh, daemonCh, sendCh, authCh>>
daemonVars == <<daemon, served, pool, poolPin>>
senderVars == <<sender, budget, sawPool, sendPin>>
processVars == <<limit, caps, machine, early, shortOf>>
vars == <<scan, shownVars, paintVars, channelVars, daemonVars, senderVars,
          processVars, asking, acts>>

Blank == [ready |-> FALSE, err |-> FALSE, incoming |-> FALSE]

\* App::new: the daemon thread is started and so is a scan.  Files named on the
\* command line are in the queue.
Init ==
  /\ queue = Argv /\ served = 0 /\ acts = 0
  /\ limit \in Limits /\ caps = {} /\ machine \in Desktops
  /\ shown = << >> /\ selected = 0 /\ scanning = TRUE /\ view = Blank
  /\ sendRx = FALSE /\ outgoing = FALSE /\ authRx = FALSE
  /\ wake = TRUE /\ timer = FALSE /\ owes = {}
  /\ scanCh = << >> /\ daemonCh = << >> /\ sendCh = << >> /\ authCh = << >>
  /\ daemon = "start" /\ pool = 0 /\ poolPin = 0
  /\ sender = "off" /\ budget = 0 /\ sawPool = FALSE /\ sendPin = 0
  /\ asking = FALSE /\ early = FALSE /\ shortOf = {}
  /\ scan = TRUE

-----------------------------------------------------------------------------
(* Memory.                                                                  *)

Limit == memlock_limit(caps, limit)
Pinned == poolPin + sendPin
Headroom == memlock_headroom(Limit, locked_now(0, Pinned))
MayPin(bytes) == Limit = NoLimit \/ Pinned + bytes <= Limit

\* The messages of a thread: sent first, the repaint asked for afterwards.
Tells(who) == who \notin owes /\ owes' = owes \cup {who}

Repaint(who) ==
  /\ who \in owes /\ owes' = owes \ {who} /\ wake' = TRUE
  /\ UNCHANGED <<scan, shownVars, timer, channelVars, daemonVars,
                 senderVars, processVars, asking, acts>>

-----------------------------------------------------------------------------
(* The daemon's thread, which serves as in Session.  Its reports of progress  *)
(* change figures only and are left out.                                    *)

DaemonSays(event) ==
  /\ Tells("daemon") /\ daemonCh' = Append(daemonCh, event)
  /\ UNCHANGED <<scan, shownVars, wake, timer, scanCh, sendCh, authCh,
                 senderVars, limit, caps, machine, early, asking, acts>>

\* Receiver::start fixes the size of the pool, registration begins.
DaemonStarts ==
  /\ daemon = "start" /\ daemon' = "reg"
  /\ pool' = pool_alloc_size(pool_ceiling(NoUser, Avail, Headroom))
  /\ UNCHANGED <<scan, shownVars, paintVars, channelVars, served, poolPin,
                 senderVars, processVars, asking, acts>>

\* No interface, or the port cannot be bound.
StartFails ==
  /\ daemon = "start" /\ daemon' = "dead" /\ DaemonSays("failed")
  /\ UNCHANGED <<served, pool, poolPin, shortOf>>

PoolRegistered ==
  /\ daemon = "reg" /\ MayPin(pool) /\ DaemonSays("ready")
  /\ daemon' = "idle" /\ poolPin' = pool
  /\ UNCHANGED <<served, pool, shortOf>>

PoolRefused ==
  /\ daemon = "reg" /\ ~MayPin(pool) /\ DaemonSays("failed")
  /\ daemon' = "dead" /\ shortOf' = shortOf \cup {<<"pool", early>>}
  /\ UNCHANGED <<served, pool, poolPin>>

TransferStarts ==
  /\ daemon = "idle" /\ served < MaxServes /\ DaemonSays("started")
  /\ daemon' = "transfer" /\ served' = served + 1
  /\ UNCHANGED <<pool, poolPin, shortOf>>

TransferEnds ==
  /\ daemon = "transfer" /\ daemon' = "end"
  /\ \E event \in {"done", "failed"} : DaemonSays(event)
  /\ UNCHANGED <<served, pool, poolPin, shortOf>>

\* end_session, which reports a failure of its own.
SessionEnds ==
  /\ daemon = "end" /\ daemon' = "idle"
  /\ UNCHANGED <<scan, shownVars, paintVars, channelVars, served, pool, poolPin,
                 senderVars, processVars, asking, acts>>

SessionEndFails ==
  /\ daemon = "end" /\ daemon' = "idle" /\ DaemonSays("failed")
  /\ UNCHANGED <<served, pool, poolPin, shortOf>>

\* A connection that does not become a transfer is reported as a failure too.
ConnectionDropped ==
  /\ daemon = "idle" /\ served < MaxServes /\ DaemonSays("failed")
  /\ served' = served + 1
  /\ UNCHANGED <<daemon, pool, poolPin, shortOf>>

\* The listener is broken: run returns and the pool goes with it.
DaemonDies ==
  /\ daemon = "idle" /\ DaemonSays("failed")
  /\ daemon' = "dead" /\ poolPin' = 0
  /\ UNCHANGED <<served, pool, shortOf>>

DaemonThread == \/ DaemonStarts \/ StartFails \/ PoolRegistered \/ PoolRefused
                \/ TransferStarts \/ TransferEnds \/ SessionEnds \/ SessionEndFails
                \/ ConnectionDropped \/ DaemonDies

-----------------------------------------------------------------------------
(* The thread of a scan.                                                    *)

ScanReports ==
  /\ scan /\ scan' = FALSE
  /\ \E list \in Lists : scanCh' = <<list>>
  /\ owes' = owes \cup {"scan"}
  /\ UNCHANGED <<shownVars, wake, timer, daemonCh, sendCh, authCh,
                 daemonVars, senderVars, processVars, asking, acts>>

-----------------------------------------------------------------------------
(* The thread of a send.                                                    *)

SenderOnly == UNCHANGED <<scan, shownVars, wake, timer, scanCh,
                          daemonCh, authCh, daemonVars, limit, caps, machine,
                          asking, acts>>

\* The budget is read before the peer is connected.
ReadBudget ==
  /\ sender = "budget" /\ sender' = "arm"
  /\ budget' = SenderBudget(Headroom) /\ sawPool' = (poolPin > 0)
  /\ early' = (early \/ poolPin = 0)
  /\ SenderOnly /\ UNCHANGED <<owes, sendCh, sendPin, shortOf>>

Layout == carve(RemotePool, Total, NoOverride, budget)

SendReport(event) ==
  /\ Tells("send") /\ sendCh' = Append(sendCh, event)
  /\ sender' = "off" /\ sendPin' = 0 /\ budget' = 0 /\ sawPool' = FALSE
  /\ SenderOnly /\ UNCHANGED early

\* The local pool is pinned; the peer has chosen slabs of which two fit the budget.
ArmSend ==
  /\ sender = "arm"
  /\ SenderArms(Layout, budget) /\ MayPin(LocalPool(Slabs, Layout, budget))
  /\ sender' = "data" /\ sendPin' = LocalPool(Slabs, Layout, budget)
  /\ SenderOnly /\ UNCHANGED <<owes, sendCh, budget, sawPool, early, shortOf>>

SendTooBig ==
  /\ sender = "arm"
  /\ ~(SenderArms(Layout, budget) /\ MayPin(LocalPool(Slabs, Layout, budget)))
  /\ shortOf' = shortOf \cup {<<"send", sawPool>>}
  /\ SendReport("failed")

\* The peer cannot be reached or refuses.
SendRefused ==
  /\ sender = "arm" /\ SendReport("failed") /\ UNCHANGED shortOf

SendGoesOn ==
  /\ sender = "data" /\ Len(sendCh) < ChanCap
  /\ Tells("send") /\ sendCh' = Append(sendCh, "data")
  /\ SenderOnly /\ UNCHANGED <<senderVars, early, shortOf>>

SendEnds ==
  /\ sender = "data" /\ UNCHANGED shortOf
  /\ \E event \in {"done", "failed"} : SendReport(event)

SenderThread == \/ ReadBudget \/ ArmSend \/ SendTooBig \/ SendRefused
                \/ SendGoesOn \/ SendEnds

-----------------------------------------------------------------------------
\* The dialog is answered; this thread asks for no repaint.
DialogAnswered ==
  /\ asking /\ asking' = FALSE
  /\ \E exit \in ExitCodes : authCh' = <<request(has_ipc_lock(caps), machine, exit)>>
  /\ UNCHANGED <<scan, shownVars, paintVars, scanCh, daemonCh, sendCh,
                 daemonVars, senderVars, processVars, acts>>

-----------------------------------------------------------------------------
(* The drawing thread.                                                      *)

\* Mutant: a failure leaves the transfer on the screen.
OnEventKeepsFailed(v, event) ==
  CASE event = "ready" -> [v EXCEPT !.ready = TRUE, !.err = FALSE]
    [] event = "started" -> [v EXCEPT !.incoming = TRUE]
    [] event = "done" -> [v EXCEPT !.incoming = FALSE]
    [] event = "failed" -> [v EXCEPT !.err = @ \/ ~v.ready]
    [] OTHER -> v

OnEvent(v, event) ==
  CASE event = "ready" -> [v EXCEPT !.ready = TRUE, !.err = FALSE]
    [] event = "started" -> [v EXCEPT !.incoming = TRUE]
    [] event = "done" -> [v EXCEPT !.incoming = FALSE]
    [] event = "failed" -> [v EXCEPT !.incoming = FALSE, !.err = @ \/ ~v.ready]
    [] OTHER -> v

\* Mutant: the selection survives the list it belongs to.
DrainScanKeepsSelection ==
  IF scanCh = << >> THEN UNCHANGED <<shown, selected, scanning>>
  ELSE shown' = Head(scanCh) /\ scanning' = FALSE /\ UNCHANGED selected

DrainScan ==
  IF scanCh = << >> THEN UNCHANGED <<shown, selected, scanning>>
  ELSE /\ shown' = Head(scanCh) /\ scanning' = FALSE
       /\ selected' = AtMost(selected, AtLeast(Len(shown') - 1, 0))

SendOver == \E k \in DOMAIN sendCh : sendCh[k] \in {"done", "failed"}

\* Mutant: the send is over with its first message.
DrainSendFirst ==
  /\ sendRx' = (sendRx /\ sendCh = << >>)
  /\ outgoing' = (~SendOver /\ (outgoing \/ sendCh # << >>))

DrainSend ==
  /\ sendRx' = (sendRx /\ ~SendOver)
  /\ outgoing' = (~SendOver /\ (outgoing \/ sendCh # << >>))

\* Mutant: the dialog is forgotten.
StaysAwakeNoDialog == scanning \/ view.incoming \/ sendRx \/ ~view.ready

StaysAwake == scanning \/ view.incoming \/ sendRx \/ ~view.ready \/ authRx

\* A frame starts with the drain of all channels and ends with the timer.  After
\* Granted the rest is reached only if the new process could not be started.
Frame ==
  /\ DrainScan /\ DrainSend
  /\ view' = FoldLeft(OnEvent, view, daemonCh)
  /\ authRx' = (authRx /\ authCh = << >>)
  /\ scanCh' = << >> /\ daemonCh' = << >> /\ sendCh' = << >> /\ authCh' = << >>
  /\ wake' = FALSE /\ timer' = StaysAwake'
  /\ UNCHANGED <<scan, queue, owes, daemonVars, senderVars, processVars,
                 asking, acts>>

\* Granted: another process takes over, with the capability and the same arguments.
Restart ==
  /\ authCh = <<"Granted">>
  /\ caps' = {CAP_IPC_LOCK} /\ queue' = Argv
  /\ shown' = << >> /\ selected' = 0 /\ scanning' = TRUE /\ view' = Blank
  /\ sendRx' = FALSE /\ outgoing' = FALSE /\ authRx' = FALSE
  /\ wake' = TRUE /\ timer' = FALSE /\ owes' = {}
  /\ scanCh' = << >> /\ daemonCh' = << >> /\ sendCh' = << >> /\ authCh' = << >>
  /\ daemon' = "start" /\ pool' = 0 /\ poolPin' = 0
  /\ sender' = "off" /\ budget' = 0 /\ sawPool' = FALSE /\ sendPin' = 0
  /\ asking' = FALSE /\ early' = FALSE /\ shortOf' = {} /\ scan' = TRUE
  /\ UNCHANGED <<served, acts, limit, machine>>

-----------------------------------------------------------------------------
(* What the user does in the course of a frame, after its drain; messages    *)
(* may have arrived since.                                                   *)

Act == /\ acts < MaxActs /\ acts' = acts + 1
       /\ UNCHANGED <<wake, owes, channelVars, daemonVars, processVars, view, shown,
                      outgoing, budget, sawPool, sendPin>>
       /\ timer' = StaysAwake'

Select ==
  /\ \E k \in 1..Len(shown) : selected' = k - 1
  /\ UNCHANGED <<scan, scanning, queue, sendRx, authRx, sender, asking>> /\ Act

start_scan ==
  /\ ~scanning /\ scanning' = TRUE /\ scan' = TRUE
  /\ UNCHANGED <<selected, queue, sendRx, authRx, sender, asking>> /\ Act

\* Files are dropped or typed in, or the list is cleared.
Fill ==
  /\ queue' \in BOOLEAN \ {queue}
  /\ UNCHANGED <<scan, selected, scanning, sendRx, authRx, sender, asking>> /\ Act

\* The queue is taken before it is expanded: what cannot be expanded is lost.
start_send ==
  /\ selected < Len(shown) /\ queue /\ ~sendRx
  /\ queue' = FALSE
  /\ \/ sendRx' = TRUE /\ sender' = "budget"
     \/ UNCHANGED <<sendRx, sender>>
  /\ UNCHANGED <<scan, selected, scanning, authRx, asking>> /\ Act

\* The button: the pool is registered, pool_explain has something to say now, and
\* somebody can be asked.
Offered == /\ view.ready /\ ~view.err /\ can_prompt(machine)
           /\ pool_explains(NoUser, Avail, Limit, Headroom)

request_auth ==
  /\ Offered /\ ~authRx /\ authRx' = TRUE /\ asking' = TRUE
  /\ UNCHANGED <<scan, selected, scanning, queue, sendRx, sender>> /\ Act

User == Select \/ start_scan \/ Fill \/ start_send \/ request_auth

-----------------------------------------------------------------------------
Next == \/ Frame \/ Restart \/ User
        \/ DaemonThread \/ ScanReports \/ SenderThread \/ DialogAnswered
        \/ \E who \in {"daemon", "scan", "send"} : Repaint(who)

Spec == Init /\ [][Next]_vars
FairSpec ==
  /\ Spec /\ WF_vars((wake \/ timer) /\ Frame)
  /\ WF_vars(ScanReports)
  /\ \A who \in {"daemon", "scan", "send"} : WF_vars(Repaint(who))

-----------------------------------------------------------------------------
(* Properties.                                                              *)

DaemonEvents == {"ready", "started", "done", "failed"}

\* The types and ranges of the state, and which flag stands for which thread.
TypeOK ==
  /\ shown \in Lists \cup {<< >>} /\ selected \in Nat
  /\ scanning = (scan \/ scanCh # << >>)
  /\ view \in [ready : BOOLEAN, err : BOOLEAN, incoming : BOOLEAN]
  /\ owes \subseteq {"daemon", "scan", "send"}
  /\ Len(scanCh) <= 1 /\ Len(authCh) <= 1 /\ Range(authCh) \subseteq Outcomes
  /\ Range(daemonCh) \subseteq DaemonEvents
  /\ Range(sendCh) \subseteq {"data", "done", "failed"}
  /\ daemon \in {"start", "reg", "idle", "transfer", "end", "dead"}
  /\ sender \in {"off", "budget", "arm", "data"}
  /\ sendRx = (sender # "off" \/ sendCh # << >>)
  /\ authRx = (asking \/ authCh # << >>)
  /\ Limit = NoLimit \/ Pinned <= Limit

\* Whatever scans replace the list (gui.rs:211) and whenever a peer is clicked,
\* the selection is one of the list shown: a send started from it has a peer.
SelectionInRange == shown # << >> => selected < Len(shown)

\* When the drawing thread has seen all events, it shows a transfer exactly if
\* the daemon is in one: also after a transfer that failed, a connection that
\* was dropped, and a daemon that ended.
IncomingIsCurrent == daemonCh = << >> => view.incoming = (daemon = "transfer")

\* The two parts of one process share its memlock limit without telling each
\* other (tune.rs:66 and 103): a sender that looked after the pool was registered
\* always gets its slabs, and the pool is refused only where a sender was first.
MemlockIsShared == shortOf \subseteq {<<"send", FALSE>>, <<"pool", TRUE>>}

\* Nothing stays unseen in a channel, and a scan ends: the thread that sent it
\* asks for a repaint afterwards, or the timer of the frames is running, as for
\* the dialog, whose thread does not ask (gui.rs:139, 350).
EverythingIsShown ==
  []<>(scanCh = << >> /\ daemonCh = << >> /\ sendCh = << >> /\ authCh = << >> /\ ~scanning)

=============================================================================
