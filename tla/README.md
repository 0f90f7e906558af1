# A TLA+ model of ibsend

ibsend copies files between two machines over InfiniBand: a daemon that has
registered a pool of memory receives, a sender writes slabs of data into that
pool with RDMA WRITE_WITH_IMM, and a writer thread puts them on disk. This
directory holds specifications of its parts, their model checking with TLC and
proofs checked by TLAPS. Paths below are relative to the repository.

## Inventory

| component | state | operations | where it is hard | modelled |
|---|---|---|---|---|
| Data plane: `src/send.rs` (main and reader thread), `src/recv.rs` (`pump`, writer thread), `csrc/ibx.c` (`ibx_send_*`, `ibx_recv_*`, `handle_wc`, `poll_cq_to`) | `reserved`, `committed`, `completed`, `credit`; both pools; `imm_q`; `recv_seq`, `released`, `advertised`; channels; the eventfd | acquire, commit, drain, fill, poll, recv_next, release with credit, wake, write, trailer | four threads and the adapters share two rings without locks; two windows; sleeping and waking | `SlabPipe`, `BlockStream` |
| Landing of files: `scan_existing`, `Splitter` (`recv.rs`), `CatReader` (`send.rs`) | destination directory, resume offsets, open file, CRCs | scan, split, append to `.part`, rename, verify | crashes and errors between two writes, sessions repeated, sources that change | `Resume` |
| Layout: `carve` (`tune.rs`), `ibx_recv_arm`, the arming in `send_files` | none (functions of sizes) | carve, check, round, fit a budget | boundaries, rounding | `Carve` |
| Sessions: `daemon.rs`, `Receiver::accept_one`/`receive`, `ibx_listen_*`, `ibx_session_end`, `ibx_connect`, `probe` | registration state, `ibx.id`, event queue of rdma_cm, the layout | register, accept, first message, arm, GO/ABORT, tear down, retry | one event channel for listener and session, peers that die or are slow, several peers | `Session` (partly) |
| Control channel: `ctl_setup`, `ctl_send_flagged`, `ibx_ctl_recv`, `handle_wc`, `poll_cq_to`, `ffi.rs` | receive slots, `ctlq` with `qh` and `qt`, one send slot, `ctl_send_out` | split, put together, repost, poll a batch | frames between immediates and credit in one ring of slots; counts and timeouts in one return value | `CtlChannel`, `MessageQueues` |
| Wire format: `proto.rs` | none | write, read, check the version | lengths that wrap, truncated input, programs of two versions | `Proto` |
| Pool sizing: `tune.rs` | memlock limit, memory in use | limit, headroom, pool wanted and granted, budget, local pool | two parts of one process share a limit | `Tune`, run in `Gui` |
| Discovery: `discover.rs` | list behind a mutex, threads, channel | targets of the interfaces, take, probe, collect, sort | masks at the edges; the channel ends with its last sender | `Discover`, run in `Command` |
| Directory walk: `walk.rs`, `dest` in `recv.rs` | stack of directories, output, counts of what is skipped | expand, list, look at an entry, name, make safe | the file system changes between the listing and the look; names from the peer | `Walk`, run in `Command` |
| CRC32C: `crc.rs` | a register | table-driven step, hardware step, combine pieces | two implementations must agree on every cut | `Crc`, run in `Command` |
| Graphical program: `bin/gui.rs` | list, selection, queue, what is shown; channels; repaint requests | drain, draw, select, scan, send, ask for the capability, restart | five threads and one drawing thread; a selection that outlives its list; a message after the last frame | `Gui` |
| Authorisation: `authorize.rs` | capability of the executable | choose a program, interpret its exit code, start anew | outcome depends on the machine | `Authorize` (partly), run in `Gui` |
| Command line: `main.rs` | none | discover, send, receive, authorize | | `Command` (partly) |
| `smoke.c`, build files | | a hardware test, declarations | | not modelled |

How they interact: `send_files` talks to `Receiver` through rdma_cm (connection),
control messages (TRANSFER, REPLY, GO or ABORT, data, TRAILER; PROBE, PEERINFO)
and WRITEs; inside each program threads use `mpsc` channels and, towards the
receiver's main loop, the eventfd of `ibx_recv_wake`, the one `ibx_*` function
another thread may call. The graphical program runs daemon, scan and sender in
threads of its own and hears of them through three channels.

What makes each part correct is in its properties: the data plane never loses,
mixes or overwrites a block and always returns; a final name means a complete
file; both ends address the same slots and every wait ends; the control channel
is two queues of whole messages; a scan lists every peer once per interface; an
accepted list of files is exact; nothing told to the drawing thread stays unseen.

## Modules

**SlabPipe** has one action per step of each thread. Sender: `SAcquire`,
`SCollect` (take the reader's result and commit), `SPollData`, `SPollCredit`,
`SPollError`, `SDrained` (drain, then post the trailer), `SDone`; reader thread
`ReaderFill`, `ReaderFails`. Adapters (external): `NetDeliver` copies a local
slab into the remote slot of its sequence number at the time of delivery, so a
local slab filled too early or a remote slab written too early corrupts data in
the model as it would in the program; `NetCredit`, `NetTrailer`, `LinkFails`.
Receiver: `RReaped`/`RRelease` (reap `done_rx`, give slabs back, post a credit
frame when due), `RPollImm` (a batch of completions), `RCredited`, `RPop`,
`RSleep`, `RWoken`, `RTimeout`, `RIdle`, `RJoined`, `RTrailer`,
`RTrailerTimeout`; writer thread `WWrite`, `WWake`, `WEnd`, `WFail`. A block is
its sequence number and the stream is 0, 1, 2, ...; `EOF = NBlocks` is the
zero-length commit. Sequence numbers are 64-bit in the code and never wrap here.

**BlockStream** is the abstract promise, a bounded FIFO of the width of the
receiver's pool that may fail and reports success only with everything written.
`SlabPipe!Stream` maps it: `sent` is the number of blocks committed, `out` the
disk, `outcome` the receiver's result.

**Resume** models a destination directory over several sessions. A byte of a
file is `<<file, offset>>`, so a gap, an overlap or a mixture is visible. `len`
has the sizes of the sources now, `size` those in the manifest, which `Start`
makes anew for every session together with the scan. The sender's `CatReader`
goes turn by turn (`ReadOpen` with its seek, `ReadSome`, `ReadEnd`, then
`SendSlab` or `SendEof`) and reads what is there, not what the manifest says; the
receiver's `Splitter` likewise (`TakeChunk`, `OpenNext`, `WriteTake`,
`FinishFile`, `DropSurplus`, `WriterEnd`), at most one change of the disk a step.
Interruptions are kills of the receiver (`Crash`), disk errors (`DiskError`),
lost senders (`PeerLost`) and somebody writing to a file that is being sent
(`SourceChanges`); `happened` remembers their kinds, so that a property can say
which of them it survives. The data plane is a queue in order (that is what
`SlabPipe` shows). CRCs are compared as the byte sequences they are computed over.

**Carve** is `tune::carve`, the checks of `ibx_recv_arm` and the sender's fitting
of its budget, with the constants of the source, in bytes.

**Session** models the daemon and its peers. `phase` is the daemon's place in
`daemon::run`, `accept_one`, `receive` and `ibx_session_end`; `cmq` the event
channel that listener and session share; `peer[p]` a sender (with its retries)
or a probe. The data plane is one step. What is assumed of rdma_cm (marked
external): a listener keeps `Backlog` unread requests and rejects more; an
accepted attempt whose peer is gone ends in an error event, or `rdma_accept`
fails at once; disconnecting yields DISCONNECTED unless a machine crashed;
destroying an id drops its events; a queue pair does not notice that its peer
disconnected, so only the limits of the waits end them.

**Proto** writes and reads every message of `proto.rs`. A number of any width is
one digit, so a message is a short sequence of digits; the length written before
a string is taken modulo `StrMod`, as the code's cast to 16 bits does, and the
reader fails where the input ends. `decode_checked` gives the version that is
not ours.

**CtlChannel** is one session seen by the control channel, frame for frame. Each
end has a `plan`, the calls it makes (send, receive, write, drain, wait for
credit, take an immediate, announce credit), which grows when a message it has
read decides what comes next (`GoesOn`, the control flow of `send_files`,
`probe`, `accept_one` and `receive`). `SendFrame` is the loop of
`ctl_send_flagged`, `ReadFrame` that of `ibx_ctl_recv`; `HandleSent`,
`HandleImm`, `HandleCredit` and `HandleFrame` are the branches of `handle_wc`,
called in batches by whoever polls, and `PollReturns` is what `poll_cq_to`
gives back, apart from which a timeout must stay. `Deliver` and `Acknowledge`
are the adapters (external): what comes takes the next posted receive slot and
waits for one. **MessageQueues** is the promise, two queues of whole messages.

**Tune** has the sizes of `tune.rs` as operators, in bytes. **Authorize** chooses
among `setcap`, `pkexec` and `sudo` by what the machine has and gives each exit
code its outcome.

**Gui** is the desktop program. `Frame` is a frame of the drawing thread, which
empties the channels and decides whether to keep its timer (`StaysAwake`); the
user's acts follow it. A thread first sends and then asks for a repaint, two
steps in the code and in the model (`owes`, `Repaint`), since a frame may fall
in between. Daemon and sender pin memory (`PoolRegistered`, `ArmSend`) from one
limit with the arithmetic of `Tune` and `Carve`, and `Restart` is the new process
after the capability was granted.

**Discover** has the addresses of all interfaces (`targets`, with the mask
arithmetic of the code modulo `AddrMod`) and the threads that share them.
**Walk** is the expansion entry by entry, on a stack in place of the recursion
(`OpenDir`, `NextEntry`, `Return`). What can go wrong: `Vanish` takes entries away,
`Listing` leaves out entries whose reading errs, as `filter_map(|e| e.ok())` does,
and `Metadata` may be an error for an entry that is there as well as for one that is
not; an error of an input or of `read_dir` ends the expansion (`Fails`). `hidden` and
`unread` remember the errors for the properties, no guard reads them. A path is a
sequence of components, a component a sequence of a few numbers. It also has
`safe_relpath` and the final and partial path the receiver makes of a name.
**Crc** has the table-driven loop and that of the instruction over registers of
32 bits, a register being the set of its bits that are one, and as reference
`Checksum`, the remainder of a division of polynomials. **Command** composes the
three: `discover`, and `send` from looking up a name to the checksum of a file
read in pieces.

`MC*` modules give the constants; `*_proofs` and `Counting` hold the theorems.

## Runs

| run | asks | bounds |
|---|---|---|
| `wide` | pools shared without a race, at most a window of immediates, both programs return | 8 blocks, 2 local slabs, window 5, credit announced at half a window (16 in the code, with windows too small to show steps): the stream wraps both rings |
| `faults` | the same with errors of reader, disk and link and the idle limit; prefix on disk, refinement of BlockStream, the inductive invariant `IInv`, the receiver's return | 6 blocks, 2 local slabs, window 4, `imm_q` of 2 (overflow reached), one credit slot |
| `restart` | a final name means a complete file unless a sender was lost or a source changed (see `peer_lost`); agreeing checksums mean the source's bytes, also when the source changes; progress is kept; repeated sessions finish every file | 3 files of 3, 0 and 2 bytes that may become 4, 1, and 1 or 3 bytes long in the middle of a session; slabs of 2 (chunks cross file borders), queue of 1, 2 interruptions of all four kinds in every order, 3 sessions; a source changes only while as many sessions are left as interruptions, and one more (`RoomToRepeat`); 950,792 states |
| `sessions` | both ends address the same slots; every wait of a peer and of the daemon ends | 2 senders (1 GB unlimited; 1 MB with 1 MB to pin, which must ABORT), a probe, 2 tries (20 in the code), backlog 1, 2 events drained (8), pool 64 MB, slab 16 MB, all faults (registration, disk, peers that die, limits that pass, no queue pair for a request) |
| `control` | no call fails for want of a slot, no slot is lost or overwritten, what is read is what was written, programs of two versions both learn it, every session ends; refinement of MessageQueues | transfers with manifests of two and three frames and one too long (other messages take one to three), a sender that cannot arm, probes, the same from version 3; 4 digits a frame, 13 a message, 2 and 3 receive slots, `imm_q` of 2, batches of 3, 3 blocks, window 2; lengths of strings modulo 4 |
| `desktop` | what was told is seen, the selection is in the list, the transfer shown is the daemon's, who may fail to pin memory | memlock 8 MB, scans that find one or two peers, 2 acts of the user, 1 connection, 1 progress message at a time, a machine with pkexec and a display |
| `commands` | the list of a scan, the list of files, the names on the receiver's disk, the checksum, and that a command ends | 4 interfaces (/29, /28, one of a single address, /30) on addresses modulo 256, at most 8 hosts, 2 threads; 15 paths with links, special files and directories too deep or locked, 1 entry vanishing or 1 error (of a listing, which hides any of its entries, or of looking at an entry), at most 4 files and a depth of 1; "123456789", 3 bytes and none |
| `many_slabs`, `late_credit`, `peer_lost`, `daemon_dies`, `arm_refused` | expected violations, see below | as small as shows them |

Why these bounds: rings (local slabs, remote slabs, receive slots, `imm_q`) are
smaller than what passes through them, so every index wraps; a message takes
one frame, two, or three (more than the client has slots; one manifest fills its
third frame); the limits of a walk, of
a subnet and of the pinned memory lie between the cases, so each is met and
exceeded; faults come at any step and sessions are more than interruptions, so
that one without can follow. `control` tells strings of 0 to 3 digits apart,
which is what `StrMod = 4` admits; a longer one wraps.

Deadlock checking is off in `faults` (a sender may hang in acquire, see below) and in the `Session`, `control`, `desktop` and `commands` runs: a
daemon that ended, peers that are through, a program nobody uses and a command
that has returned have nothing left to do.

**Fairness.** `SlabPipe`: each thread is scheduled (WF on its steps), the adapters
execute what is posted and completions are polled while a thread polls; nothing
is assumed of `RTimeout`, the 200 ms timeout, and none of the faults is fair.
`RIdle` is strongly fair, since the loop that checks the limit comes back to it
for as long as a session is silent. `Resume`: threads run and sessions are
started again; interruptions are bounded. `Session`: the daemon, each peer that
has been started and the reports of rdma_cm make progress; the limits of waits
are part of the steps; faults and the start of a peer are not fair. `CtlChannel`:
each end's thread runs, what is posted is delivered and acknowledged. `Gui`: a
frame comes when somebody asked for one or the timer runs, a scan reports in the
end (its probes have a limit), a thread that has sent asks for its repaint;
nothing is assumed of the user, the dialog, the daemon and the sender. `Command`:
the command goes on (WF of its next-state relation), no thread of a scan is
favoured.

## Disagreements between code and documentation

- `many_slabs`: `--slabs` above 64 is clamped in C (`ibx.c:732`) but not in the
  prefetch depth (`send.rs:154`); acquire polls for ever.
- `late_credit`: a sender that returned early makes the receiver's credit SEND,
  hence the transfer, fail although all bytes have arrived.
- `peer_lost`: a sender that disappears makes the writer's `finish` rename an
  incomplete `.part` to the final name (`recv.rs:288`).
- `daemon_dies`: a second peer's CONNECT_REQUEST between `rdma_accept` and
  ESTABLISHED ends the daemon (`ibx.c:566`). The same happens when a queued request
  was given up by its peer before the daemon reads it.
- `arm_refused`: `ibx_listen_accept` makes receive slots for pool / 1 MB slabs, "a slab
  is at least 1 MB" (`ibx.c:548-550`), but `--slab` may be as small as 4096
  (`main.rs:79`, `tune.rs:180`). With 512K, a pool of 64 MB and a transfer of 1 GB
  `carve` decides on 128 slabs, `recv_arm` refuses them (`ibx.c:573`), and the sender
  hears nothing for 20 s. A sender's budget below 2 MB does the same without any
  option (`tune.rs:192`). `ArmAcceptsCarved` states the bound under which it cannot
  happen.

Observations that no run states as a violation. Data plane and sessions:

- `imm_q` holds 1024 immediates, the window may be 8192 (`docs/design.md:31`): while
  the receiver waits for its credit frame to be acknowledged it can overflow, which
  `faults` reaches. Up to 1024 slabs it cannot (`ImmediatesFit`).
- `--slab` with a size that is not whole pages, 1025K say, gives the two ends
  different strides: the assumption `WholePages` of the session proofs excludes it.
- `OneWriteInFlight`: the feed loop commits only with `Depth` slabs reserved, so
  with a narrow local pool one WRITE at a time is under way; the effective
  window is `Window - Depth + 1`, less than `ibx.h:20-22` suggests.
- `ibx.h:63-64` calls the timeout of `ibx_recv_next` necessary; `BothReturn`
  holds without it, thanks to the eventfd.
- A sender with no WRITE outstanding stays in acquire for ever when the receiver
  dies (`ibx.c:762`); `DataBroken` in `Session` therefore has the outcome `stuck`.
- A request read by `ibx_session_end` is not rejected, as the comment at
  `ibx.c:601` says, but unanswered: its peer runs into its own limit and retries.
- A headroom of 0 makes a budget of 0, which the receiver reads as no limit
  (`send.rs:49`). The sender then fails to pin and says ABORT.

Files:

- Files of size 0 are never created: they count as complete (`recv.rs:434`) and the
  sender does not read them (`send.rs:236`).
- A crash between the last write and the rename leaves a complete `.part` that
  `scan_existing` throws away (`recv.rs:105`), the exception in
  `ResumePointNeverShrinks`.
- With changed sources a file resumed with no bytes counts as verified.
- A file that grew while it was read pushes the bytes after it one file further on
  the receiver. Checksums find it if the session ends; if it is interrupted, the
  `.part` keeps the wrong bytes, and a later session verifies only what it adds
  to them (`README.md:170` says that prefixes are not validated again). Hence the
  two halves of `VerifiedIsRight`.
- One directory that vanishes while it is walked fails the whole expansion, a file
  that vanishes is only counted as unreadable.
- So is a file that is there and cannot be looked at (no search permission, an
  input/output error; `walk.rs:93-98`): the walk goes on and returns the list without
  it. An entry whose reading errs is left out without being counted (`walk.rs:83-85`),
  although `Skipped` is there to give the user an account (`walk.rs:17`). `ListIsExact`
  says how much may be lost by either.
- `MAX_FILES` is asked in directories only, not of files named one by one.
- Two inputs with one last component, or names that differ only in what is not
  Unicode, get one name; on the receiver's disk the second overwrites the first.
  Nor do a file and a directory of one path get along (`d` with `d/x`, or `x` with a
  directory `x.part`): opening or renaming fails. `NamesLandApart` covers neither. It
  is about names that differ, and shows that only `x` and `x.part` of one directory
  share a path, where they overwrite each other.

Desktop and discovery:

- The selection is an index: after a scan it is in range, but may name another
  peer than the one clicked.
- `pool_explain` compares with what is left after the registration (`gui.rs:377`,
  `tune.rs:129`), so it asks for a capability once the pool has taken its share.
- Below about 7 MB of memlock a sender of the same process cannot pin anything beside
  the pool, `MemlockIsShared` says who is short. Nor can it a little above 8 MB
  (8493466 bytes, say): the pool takes half of the headroom rounded up to huge pages,
  6 MB, and the rest falls below the 2 MB that two slabs need, although the comment
  in `pool_ceiling` keeps half for the sender (`tune.rs:102`).
- A granted capability restarts the program at once, in the middle of transfers too.
- The daemon's pool stays shown as ready after the daemon has ended.
- When the expansion of the queue fails the queue is gone (`gui.rs:170-177`).
- Two interfaces in one subnet list each peer twice and find this machine itself.

## Proofs

Every theorem holds for all values of the constants that satisfy the named
assumptions of the modules; what is assumed beyond those is stated in the theorem.

**Counting** has what the other proofs keep needing of numbers. Induction is stated
of a set instead of an operator (`LeastOf`, `GreatestOf`, `UpTo`): a set that contains 0
and with a number the next one contains them all. `Recursion` gives a function
that is defined by its previous value, so that a recursive definition can be
unfolded. Two numbers less than a window apart have different slots of a ring
(`SlotsDistinct`), and `RingPush`, `RingPop` say what writing to the tail and
reading from the head do to its contents.

**SlabPipe_proofs**, for every stream length, window, number of slabs, capacity and
set of faults: `IInv` is inductive, and from it follow `TypeCorrectness`,
`DiskHoldsPrefix`, `NoWriteIntoBusy`, `NoFillOfSlab`, `ImmediatesFit`,
`SuccessMeansComplete`, `CreditIsMonotone`, `AcquireIsWakeable` (under
`CfgSlabs <= MaxLocal`, the very bound `many_slabs` breaks), `OneWriteAtATime` and
`RefinesBlockStream`. None of the safety properties is inductive: that a block
arrives intact needs the owner of every slot, hence the order of the stages
(`StageOrder`: completed, delivered, committed, filled, reserved; released, written,
popped), what credit stands for in every place it can be (`WindowStage`: applied,
queued, on the wire), the read-ahead (`ReadAhead`), what each thread's place says
about the stream (`ControlStage`) and the contents of both pools (`ContentStage`).
`CommitPace` is what `OneWriteAtATime` adds: while no read has failed the main
thread commits only with a full read-ahead, and then the narrow pool has one slab
for a WRITE. A failed read ends the feeding, the slabs read before it are then
committed one after the other, and the bound no longer holds; the property says so.
TLC checks `IInv` in the run `faults`.

**Carve_proofs**: the number of slabs is in 1..8192 and fits the pool
(`CarvedSlabsFit`), and `ibx_recv_arm` accepts every layout of whole pages of at
least 1 MB (`ArmAcceptsCarved`), for every pool and transfer; without `--slab` and
without a limit of the sender a slab is 1 to 16 whole megabytes (`DefaultSlab`).
`TwoSlabsFitBudget`: for a budget of at least 2 MB two slabs, rounded up to huge
pages, stay within the budget. That is what the power of two is for: half a budget
cut down to a power of two is 1 MB, or a whole number of huge pages; with `--slab`,
or below 2 MB, it need not be.

**Session_proofs**, for every set of peers, tries, backlog and faults: `SInv` is
inductive, `LayoutAgreement` (if every slab is whole pages, `WholePages`) and
`CarvedLayoutIsAccepted` (and at least 1 MB, `LargeSlabs`, the very bound
`arm_refused` breaks); `DefaultsAgree` shows that the default settings satisfy both
if no sender has a limit on what it can pin. That the two ends agree is not inductive:
the layout travels with the REPLY to the sender and comes back as a GO, and by
then the daemon could be in another session. `SInv` says what each place on that
way holds: a peer is told no layout but its own (`Replied`), a sender about to arm
has the one it was told (`Adopted`), a session starts with an empty channel
(`FreshChannel`), a GO in it means that the peer of this session has armed
(`FromThePeer`), and so has the peer of a daemon that waits for blocks (`Receiving`).
`SessionTypes` needs that a session has an attempt behind it, since events carry
`conn` (`Known`), that a peer at the start has a try left (`Tried`), and that
destroying an id leaves a queue of events (`KeptEvents`).

**CtlChannel_proofs** has, to begin with, the messages themselves, for every manifest,
reply, trailer and description whose strings are shorter than `StrMod` (65536 in the
code, `proto.rs`, `put_str`) and whose lists have at most `MaxEntries` entries: reading
what was written gives it back (`ManifestReadsBack`, `ReplyReadsBack`,
`TrailerReadsBack`, `PeerInfoReadsBack`). `Lie` says where the parts of a message lie
in it (`FlattenPlaces`), and a reader that is at the place of part k is, after that
part, at the place of part k + 1; by `UpTo` it ends at the end. A string of `StrMod`
digits and more is not read back: its length is cast to 16 bits and nothing refuses it.

Then the channel, for all jobs and sizes: `CInv`, hence `SlotsAreConserved`. It
says of each end that posted slots, completions and the part of the ring between
head and tail hold every slot once, as sequences without repetition, and that
tail and head are never more than the number of slots apart; `RingPush` and
`RingPop` carry it over the two steps that touch the ring.

From there it goes on, again for all jobs, numbers of slots, blocks and sizes of
frames and messages. `QInv` adds to `CInv`:

- of the plan, that its calls are sound and only a send or a credit frame is ever
  half done (`PlanOk`);
- of the acknowledgements, that at most one frame is not acknowledged and where it
  is: in flight, arrived, or in a completion (`AckOf`);
- of the reading, that the frames in the ring, in the completions, on the link and in
  the send slot are, in this order, the pieces of the messages from the place the
  reader has come to up to the place the other end has come to (`ReadOf`, a path from
  one place to the next, `Place`).

From it follow `ChannelIsQueues`, the refinement of MessageQueues: a step that
finishes a send appends a message, one that finishes a read takes the first, all
others stutter; and `BothTold`, for which `AllUnread` adds that an end without a
message has not come past its first read. `CountInv` is about the numbers: the plans
have their shape (`Shapes`); a WRITE leaves one trace, its completion or the
immediate it becomes (`Numbers`: those in `imm_q`, in completions and on the link
and those taken out are at most those written); what is granted anywhere is at most
what was taken out (`Credits`), so the client is ahead of the server by at most the
window (`Ahead`). `ChannelTypes` follows, the bounds of the queues in it too.
`CallsSucceed` assumes what the sizes must satisfy: `Window <= ImmCap` (in the code
1024, while the window may be larger, see above) and that the reply to as many files
as a manifest may announce is not too long a message (2^20 entries of 8 bytes and 16
MB in the code, `proto.rs:181`, `ffi.rs:72`). A ring cannot overflow since a
completion of a receive slot means that not every slot is in the ring, and slots
are not there twice (the pigeonhole principle, `RingHasRoom`); a batch is smaller
than `POLL_TIMEOUT`; and only the client's first message can be too long, since
every other one is short or no longer than the manifest that went before (`FitInv`).

`MessagesReadBack` puts both together: that `ReadsBack` holds in whole sessions, over
whatever frames, slots and rings, if no name of a file is too long for its length
(`StringsFit`). The number of files needs no bound, since a manifest that has too many
is not answered. `ReadOf` says that what an end has read is what the other has begun
to send, but not why the other sent it: `ClientSaid` and `ServerSaid` tie what each
end sends to what it has read (an answer is the answer to the first message; a
client goes on only to its own version and only with a transfer, and ends with the
trailer), and the round trips above do the rest.

**Gui_proofs**, for all lists, clicks, limits, numbers of sends and transfers:
`SelectionStaysInRange`; `TypeCorrectness`, with the flags of each thread
(`FlagInvariant`); `IncomingIsCurrentAlways`, from what the drawing thread would
show after the events that are still in its channel (`ViewInvariant`);
`PoolRefusedOnlyAfterASender` for limits of at least 2 MB; and
`MemlockIsSharedAlways`. The last two rest on the daemon having the limit to itself
until the pool is registered, unless a sender of this process looked before
(`PoolInv`), on the wanted pool being what fits the headroom then, on what is pinned
being the sum of pool and slabs (`MemoryInvariant`) and on `TwoSlabsFitBudget`. The
hypothesis `RoomForBoth` leaves out the limits at which the rest is below 2 MB: they
are no artefact of the proof, the property fails there (8493466 bytes, above).

**Resume_proofs**, for all files, sizes, slabs, queues and interruptions, if no two
files share a path (`Separate`; `Walk` has those that do): `TypeCorrectness`,
`FinalIsCompleteAlways`, `VerifiedIsRightAlways`, `ResumePointNeverShrinksAlways`.
`ResumeInv` has four layers. `Landing` holds whatever happens: a file still to be
opened has the `.part` its offset came from, the open one has what it needs but
for `left` bytes, and after the offset it holds what the CRC covers. `Reads` says
the same of the reader's CRC. Both give the first half of `VerifiedIsRight`. While
sources stay as they are, `Undisturbed` adds that every byte lands in its place.
For this the stream of a session is a chain of positions (`FirstByte`, `After`), and
the chunk being written, the queue and the slab being filled are consecutive
pieces of it (`Links`) from where the writer is to where the reader is (`Flow`);
`LinksConcat` and `LinksTake` carry it over reading and writing. What is equal at
both ends of an empty chain is equal, so at the end of the stream nothing is open
(`NothingOpenAtEof`), which with `Kept` (a lost session ends by the writer's own
error) makes final files whole. `Fresh` (the scan still holds for a file that is
not yet open) is what keeps truncation from losing progress.

**Command_proofs** proves the five invariants of `commands` for all interfaces, trees,
inputs, limits, changes and contents. Assumed of them is only what the code can
count on: the sizes of subnets divide the number of addresses, as masks of leading
ones make them, and the threads are finitely many (`DiscoverAssumption`); the tree
is finite, what has something below it is a directory, and a component, or what
`to_string_lossy` makes of one, is never empty, `.` or `..` (`WalkAssumption`); a
content is a sequence of bytes (`CrcAssumption`). One layer for each part:

- `ScanInv` counts, for every address, its places in the list, the threads that probe it
  and its places in the channel: together they are as many as among the targets, or
  fewer if the address may not answer (`Shares`). When the threads have ended only the
  channel is left. `ScanFindsAll` adds that the sort changes the places and nothing
  else, `TargetsAreHosts` that the targets are the hosts of the subnets.
- `ExpandInv`: each listing of a path is on account of one input above it. `Seen` has the
  inputs above an entry that have been begun, without the current one while the entry
  is still ahead of a directory that is open or about to be opened (`AheadOf`),
  nor those for which an error kept the walk from it (`Lost`), which have been passed
  too (`MissInv`). The list and the counts of what is left out agree with `Seen` at
  every moment (`ListInv`). That needs the shape of the stack: each directory lies below the one before it, and
  not on anything that is left of that one (`StackOK`, `FrameOK`, `Aside`); the depth of
  the stack, which `CommandTypes` states, comes from it too. What vanishes takes all
  below it along (`KindInv`), so it may stay ahead until it is passed over. What a
  listing leaves out is passed, with all below it, when the directory is opened
  (`DirOpened`); an entry that could not be looked at is counted once, since no entry
  is looked at twice for one input.
  `WalkListsExactly` counts at the end, when nothing is ahead.
- `LandedInv`: a name that a walk has made consists of plain components, so `safe_relpath`
  keeps it; a final path is then the name, a partial one the name with its last
  component extended, and from both the name can be told.
- `SumInv`: the register is the table-driven loop over the first `at` bytes. `LoopGoesOn`
  cuts a loop anywhere, and eight bytes at a time are eight single bytes. `LoopIsChecksum`
  is the arithmetic, for every content: the register is the remainder of the division so
  far with its coefficients reversed, and a step of the table is eight steps of the
  division, because what is to be subtracted depends only on the eight bits shifted
  out and subtraction is linear.

So every invariant and every action property of the runs that pass, and the refinement
of both abstract specifications, is a theorem too. Only model-checked is liveness
(`BothReturn`, `ReceiverReturns`, `EventuallyComplete`, `SetUpEnds`, `ServesAgain`,
`PlansFinish`, `EverythingIsShown`, `CommandEnds`), since fairness and ENABLED are
outside the prover's reach. Induction over data is possible where a definition is a
recursive function, by way of `Recursion` and `UpTo`; where it was needed, the models
are written with such functions (`SendsIn`, `OfOthers`, `TargetsOf`, `Loop`). Sorting is
written by rank, the element before which there are k - 1 others (`Sorted`,
`ByName`): of operators that take an operator, such as `SortSeq`, `SelectSeq` or a
fold, TLAPS has no facts.

## Not modelled, and abstractions

- `smoke.c` is a test of the hardware; the build files and `ibx.h` declare.
- `Command`: the sending is one checksum (whether it ends is `SlabPipe`'s); options and
  `parse_size`, printing, `authorize` and `recv --once` are left out.
- `Gui`: texts, drawing, figures of progress and the log. Control buffers and the queues
  of the adapter count against memlock too (`tune.rs:106-108`, `send.rs:48`); `MayPin`
  adds up pool and slabs only, and what the code sets aside for the rest stays unused.
- `Authorize`: a restart that fails, and how the program finds its own path.
- `Crc`: the benchmark.
- `Session`: malformed messages, errors of local resources in `ibx_connect` and
  TIMEWAIT events are left out. Versions that differ are in `CtlChannel`.
- `CtlChannel`: the link does not fail here (it does in `SlabPipe` and `Session`), so the
  client's early `ibx_close` has no effect on the server's credit (`late_credit` has it),
  and a message that a peer makes up is not sent.
- `Proto`: a digit stands for a number of any width.
- `Walk`: entries do not appear and keep their kind until they vanish. TLC has one mishap
  (a change or an error) in a walk, the proof any number of them. The file
  system's order and links' targets do not matter, since the code sorts and never
  follows.
- `RPollImm` that overflows leaves `polled` unchanged; the session is lost anyway.
- `RTrailerTimeout` is possible only when the sender is gone or the link is down:
  the 30 s limit is longer than any work of a live sender.
- `Resume`: paths of different files are distinct (`Walk` has those that are not);
  CRC collisions do not happen.

## Plan

1. Done: all modules above; proofs of every invariant and action property the passing runs
   check, and of both refinements.
2. `recv --once` in `Session`; malformed messages in `CtlChannel`.
