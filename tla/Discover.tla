------------------------------ MODULE Discover ------------------------------
(***************************************************************************)
(* The scan for peers (src/src/discover.rs): a pool of threads takes        *)
(* addresses from one list behind a mutex, probes each, and sends what      *)
(* answers into a channel that is collected until its last sender is gone.  *)
(***************************************************************************)
EXTENDS Integers, Sequences, FiniteSets, Functions

CONSTANTS
  Ifaces,      \* the local IPoIB interfaces: a sequence of [ip, mask]
  AddrMod,     \* one more than the largest address (2^32)
  MaxHosts,    \* the largest subnet that is scanned (4096)
  Threads,     \* the scanning threads
  Steady       \* addresses at which an ibsend answers every probe

\* Addresses under a mask: (!mask) + 1, wrapping.
hosts(mask) == ((AddrMod - 1 - mask) + 1) % AddrMod

\* A mask is of leading ones: the sizes of subnets divide the number of addresses.
ASSUME DiscoverAssumption ==
  /\ AddrMod \in Nat \ {0} /\ MaxHosts \in Nat
  /\ Ifaces \in Seq([ip : 0..AddrMod - 1, mask : 0..AddrMod - 1])
  /\ \A k \in DOMAIN Ifaces : LET n == hosts(Ifaces[k].mask) IN n # 0 => AddrMod % n = 0
  /\ Threads # {} /\ IsFiniteSet(Threads)

\* ip & mask
net(ip, mask) == IF hosts(mask) = 0 THEN 0 ELSE ip - (ip % hosts(mask))

\* The addresses probed because of an interface, in order: neither the network
\* address nor the broadcast address nor the interface's own.
TargetsOf(if) ==
  LET n == IF hosts(if.mask) \in 2..MaxHosts THEN hosts(if.mask) - 2 ELSE 0
      upTo[h \in 0..n] ==
        IF h = 0 THEN << >>
        ELSE IF net(if.ip, if.mask) + h = if.ip THEN upTo[h - 1]
        ELSE Append(upTo[h - 1], net(if.ip, if.mask) + h)
  IN upTo[n]

targets ==
  LET upTo[k \in 0..Len(Ifaces)] == IF k = 0 THEN << >> ELSE upTo[k - 1] \o TargetsOf(Ifaces[k])
  IN upTo[Len(Ifaces)]

\* A stable sort: of each element it counts those that come before it.
Sorted(s) ==
  LET before(i, j) == s[i] < s[j] \/ (s[i] = s[j] /\ i < j) IN
    [k \in DOMAIN s |-> s[CHOOSE j \in DOMAIN s :
                            Cardinality({i \in DOMAIN s : before(i, j)}) = k - 1]]

Off == -1
Idle == -2
Ended == -3

VARIABLES
  scan,     \* "off", "run" while threads run, "done" with the list below
  todo,     \* what is left of the list of addresses
  thread,   \* thread -> Off, Idle, Ended or the address being probed
  rx,       \* answers in the channel, in the order of arrival
  peers     \* the list that the scan returns, sorted

scanVars == <<scan, todo, thread, rx, peers>>

ScanInit ==
  /\ scan = "off" /\ todo = << >> /\ rx = << >> /\ peers = << >>
  /\ thread = [t \in Threads |-> Off]

\* Without a target no thread is started.
StartThreads ==
  /\ scan' = (IF targets = << >> THEN "done" ELSE "run")
  /\ todo' = targets /\ rx' = << >> /\ peers' = << >>
  /\ thread' = [t \in Threads |-> IF targets = << >> THEN Off ELSE Idle]

Take(t) ==
  /\ scan = "run" /\ thread[t] = Idle /\ todo # << >>
  /\ thread' = [thread EXCEPT ![t] = Head(todo)] /\ todo' = Tail(todo)
  /\ UNCHANGED <<scan, rx, peers>>

\* Mutant: a thread whose probe has no answer ends.
ProbedOrEnds(t) ==
  /\ scan = "run" /\ thread[t] >= 0
  /\ \/ rx' = Append(rx, thread[t]) /\ thread' = [thread EXCEPT ![t] = Idle]
     \/ /\ thread[t] \notin Steady /\ UNCHANGED rx
        /\ thread' = [thread EXCEPT ![t] = Ended]
  /\ UNCHANGED <<scan, todo, peers>>

\* The probe of an address comes back; a peer that answers goes into the channel.
Probed(t) ==
  /\ scan = "run" /\ thread[t] >= 0
  /\ \/ rx' = Append(rx, thread[t])
     \/ thread[t] \notin Steady /\ UNCHANGED rx
  /\ thread' = [thread EXCEPT ![t] = Idle]
  /\ UNCHANGED <<scan, todo, peers>>

ThreadEnds(t) ==
  /\ scan = "run" /\ thread[t] = Idle /\ todo = << >>
  /\ thread' = [thread EXCEPT ![t] = Ended]
  /\ UNCHANGED <<scan, todo, rx, peers>>

\* Mutant: the scan's own sender is not dropped.
CollectNever ==
  /\ scan = "run" /\ \A t \in Threads : thread[t] = Ended
  /\ FALSE /\ UNCHANGED scanVars

\* The channel's last sender is gone: the list is complete.
Collect ==
  /\ scan = "run" /\ \A t \in Threads : thread[t] = Ended
  /\ peers' = Sorted(rx)
  /\ scan' = "done" /\ thread' = [t \in Threads |-> Off] /\ rx' = << >>
  /\ UNCHANGED todo

ScanThread(t) == Take(t) \/ Probed(t) \/ ThreadEnds(t)

=============================================================================
