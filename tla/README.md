# A TLA+ model of OWL

OWL implements Apple Wireless Direct Link (AWDL): nodes on one Wi-Fi channel
elect a master, synchronise to its sequence of channel slots, and exchange IPv6
frames in the slots they share. This directory holds TLA+ models of the parts
of OWL whose correctness depends on interleavings, time and arithmetic, the TLC
configurations that check them on small instances, and TLAPS proofs of their
main properties for every value of the constants.

## The system and its parts

The daemon (`src/daemon/core.c`) is one thread around a libev loop. All
interleaving inside a node is between callbacks; between nodes it is free.

| Part | Source | Module | State |
|---|---|---|---|
| Master election: the scan over the peer table | `election.c` | `Election`, `ElectionRun` | modelled, proved |
| Peer table, neighbour entries, cleaning | `peers.c`, `rx.c`, `core.c` | `Peers` | modelled, proved |
| Hash table under the peer table | `hashmap.c` | `Hashmap`, `FiniteMap` | modelled, proved |
| Several nodes electing a common master | `election.c`, `core.c`, `rx.c`, `tx.c` | `ElectionNet` | modelled, safety proved |
| Action frames: building and parsing | `tx.c`, `rx.c`, `frame.h`, `wire.c` | `ActionFrame` | modelled, proved |
| Reception: capture to peer table or host | `rx.c`, `core.c`, `wire.c` | `Reception` | modelled, proved |
| Frames from the host to the air | `core.c`, `schedule.c` | `HostTx` | modelled, safety proved |
| Circular buffer of multicast frames | `circular_buffer.c` | `CircularBuffer`, `BoundedQueue` | modelled, proved |
| Synchronisation along a path of masters | `sync.c`, `tx.c`, `rx.c` | `Sync` | modelled, proved |
| Channel switching, PSF and MIF timers | `core.c`, `channel.c`, `sync.c` | `Schedule` | modelled, proved |
| Start-up, devices, network interfaces | `owl.c`, `io.c`, `netutils.c`, `core.c` | `Startup` | modelled (Linux), proved |
| The daemon: start-up, then the timers | `owl.c`, `core.c` | `Daemon` | modelled, safety proved |
| Node state, statistics | `state.c` | `Init` of the modules | initial values; statistics are only printed |
| Logging, CRC, version strings | `log.c`, `crc32.c`, `version.c`, `frame.c` | | not modelled |

How they interact: a captured frame (`Reception`) is an action frame, whose
TLVs (`ActionFrame`) fill the peer table (`Peers`, kept in a `Hashmap`), or a
data frame, which goes to the host. `awdl_clean_peers` expires peers and runs
the election on what is left (`Election`); nodes do this to each other
(`ElectionNet`). The elected sync master's frames move the node in the channel
sequence (`Sync`). That position drives the channel and the announcements
(`Schedule`, once `Startup` is through), and with the peers' sequences it
decides when a frame of the host may be sent (`HostTx`), which waits in the
circular buffer until then.

`PROJECT.json` maps every definition to the lines it models and lists the
hazards each property is aimed at.

## Modules

**Election** has the election as operators on *claims*, the content of
`struct awdl_election_state`. Addresses are integers because
`compare_ether_addr` is `memcmp`. `Eligible`, `Better` and `Adopt` are the
conditions and assignments of `awdl_election_run`; `Incr` keeps the 32-bit wrap
of the height. `Elected(own, S)` is what a run promises: the winner of the
candidates in the order of counter, metric, small height, address. It is a set
of outcomes so that proofs need not show that a winner exists; `ElectionRun`
checks that the code computes exactly that one.

**ElectionRun** is the loop itself, one step per iteration, over any iteration
order of the hash table.

**Peers** is one node: its table, the frame being parsed (TLV by TLV, because a
short TLV leaves the fields read so far), the election state, the kernel's
neighbour table (external; every request may fail), the clock and the cleaning
timer. `Cutoff` keeps the unsigned subtraction. `heard` and `netlinkErr` are
history variables. The table is a function: that the hash table behaves like
one is the subject of `Hashmap`. A failed `hashmap_put` drops the frame and, as
far as the failing insertion goes, changes nothing (`OmemKeepsElements`), so it
needs no action. A failure in the middle of a rehash also loses other peers
(`Hashmap` has it); their neighbour entries then stay, which is left out here. The timer is taken to be due relative to
the time of the last cleaning; libev counts from the start of the loop
iteration, which is never later.

**Hashmap** has `hashmap_put` and `hashmap_rehash` as they call each other:
`calls` is the stack of insertions, each with the rest of the old table it is
copying. `Store`, `Grow`, `OutOfMemory` and `Copy` are the steps; lookups,
removals and the iterator are one action each. `Hash` is an arbitrary function
in place of siphash24. `Init` is `hashmap_new` when it has memory; its callers
do not look whether it had. The caller is the peer table: it inserts only keys it has
not found, and neither inserts nor looks up while it iterates. (`hashmap_put`
would count a key twice if it overwrote one; `peers.c` never makes it do so.)
**FiniteMap** is what the peer table relies on; its one licence is that an
insertion which reports `MAP_OMEM` may lose elements. The refinement mapping
takes the elements of the table, of the old tables and of the copies under way
together.

**ElectionNet** is a net of nodes: `Hear` is one frame from its sender's claim
to the receiver's table (frames that are lost are not heard, frames that are
repeated are heard twice), `Clean` is `awdl_clean_peers`, `Start` and `Stop`
are `awdl_init` and the end of a process, in whatever way it ends (the daemon
itself never calls `awdl_free`). Time is reduced to the number of cleanings an
entry survives, so which of two entries of one age was heard from first is not
kept: the model has more behaviours than the code, never fewer. Foreign nodes stand for other implementations: they
advertise themselves with a rank of their own. `range` is the net: links may be
one-way. `CalmDown` is the moment from which nothing is lost between cleanings.

**ActionFrame** has the two sides of an action frame. `Layout` gives the
fields of each TLV as the packed structures of `frame.h` and the builders of
`tx.c` put them on the wire, `TlvLen` and `EndOf` the lengths; `...Reads` are
the offsets, widths and checks of each handler in `rx.c`, in order. `Effect`
runs a handler over a TLV: reads beyond its end or failed comparisons stop it,
and a handler that stores as it reads leaves what it has read so far. A value is
abstracted to the name of the field it was read from, so that a wrong offset
shows as `"bytes"` or as another field's name. `torn` is a history variable:
the last second-form election TLV was too short.

**Reception** is `awdl_receive_frame` for one neighbour: radiotap flags (read
uninitialised when absent: any flags), check sum, dispatch, action frames,
data frames and A-MSDUs, and what reaches the host. Stored values carry the
generation of the neighbour's state they come from, which tells old values from
new ones. `Elect` and `Forget` are `awdl_clean_peers` seen from this neighbour.
`last` is what the callback that has just run did; `Return` is its return to the
event loop, before which nothing else happens.
A weak signal and a table without room for the sender end in `RX_IGNORE_RSSI`
and `PEERS_INTERNAL`. The host gets the whole buffer of a frame, whose size is
fixed: the length of the payload is kept beside it, because `rx.c` does not
shorten the buffer. `MaxNumAmpdu` is the room for the parts of an aggregate; senders
are taken to keep to it.

**HostTx** is the way of a frame from the tun device: reading ahead one unicast
frame and a bounded number of multicast frames, the two one-shot timers, the
windows and guards of `schedule.c`, with peers that come, go and change their
channel sequence, and sync updates that move the node in the sequence. `match`
abstracts two channel sequences to the slots in which they agree. Timers fire
exactly when due: the latency of the event loop is below the unit of time.
Failing `wlan_send` calls count as sent, as in the code. While the host has
frames that may not be read, the level-triggered watcher keeps calling
`host_device_ready`, which then does nothing: the model lets time pass.

**CircularBuffer** has each function of `circular_buffer.c` as an action.
**BoundedQueue** is the queue its header promises; the refinement mapping reads
the array from tail to head.

**Sync** is a path of the sync tree. Each node has a clock with its own offset,
`last_update` and `aw_counter`. Frames carry whole time units, take up to
`MaxDelay` and may be lost. `synced` is a history variable: the nodes whose
position comes from the top master. The clocks have one rate. Real ones drift
apart by some tens of microseconds in a second, and a node that hears nothing
from its master for about three seconds forgets it, so drift adds a fraction of
a time unit (1024 microseconds) to each hop. The length of the path is not
limited by the guard: `SharesWindow` says which window a node shares at every
depth, and where the guard of `schedule.c` is enough.

**Startup** is `main` and `awdl_init` step by step, every system call with its
failure. A failure that is reported ends the process. Three are not reported.
`io_state_init_wlan` returns the result of `link_up` when the capture cannot be
opened (`io.c:308`), which is modelled as `wlan = "invalid"`; `link_updown`
ignores what `rtnl_link_change` returns (`netutils.c:454`), so that `link` may
stay as it was; and with `-N` the device is in whatever mode it was. What libev
does with a negative descriptor is outside this repository: the model goes on.

**Schedule** has the three callbacks that follow the channel sequence:
`awdl_switch_channel`, `awdl_send_mif`, `awdl_send_psf`. libev reads the clock
once in an iteration of its loop and counts new timers from that reading, while
the code computes their delays from the clock itself. `behind` is the age of the
reading, at most `Busy`; `Wait`, `Work` and `Iterate` are sleep, the time that
callbacks take, and the next reading. So a timer may go off early as well as
late, and callbacks that are due run in any order. `Jump` is a sync update: it
changes the position and leaves running timers alone. `aimed`, `unsettled`,
`refused` and `sent` are history variables. **Daemon** composes the two: the
timers run once start-up is through, and nothing ends them, except that
`wlan_send` may crash on a handle that was never assigned (`Crash`: `main` does
not initialise its `struct daemon_state`). `KeepsAnnouncing` is therefore about
a daemon that has a device.

**MC...** modules give the constants values; the **...Proofs** modules and
**ElectionLemmas** hold the proofs.

## Runs

| Run | Instance | States | Shows |
|---|---|---|---|
| `election_scan` | three peers, heights up to the wrap, two counters and metrics | | the outcome is the best candidate in every order |
| `parent_has_room` | the same | | *violated*: see findings |
| `peers` | one neighbour, five advertisements, six ticks from boot | | neighbour table, sync master, expiry and rank are right under truncated and contradictory frames |
| `net` | a mesh of two OWL nodes, and a one-way ring of three, each with a foreign master; two starts or stops | 93,320 | ranks honest, cycles of two dissolve, ghosts are forgotten, nodes in range converge |
| `no_sync_cycle` | two OWL nodes and a foreign one | | *violated*: see findings |
| `host_tx` | three frames of all kinds, queue of two, three slots of five units, one change of peers or synchronisation | 276,610 | no frame stranded, lost or reordered; retries do not stop the clock; every frame leaves, or one to a peer without a common slot holds the others back |
| `circular_buffer` | size three, four elements | | implements the queue |
| `sync_path` | three nodes, clocks of 64 and counters of 16 values, a guard that is enough for one hop and not for two | 743,360 | lag bounded by the depth; the window a node shares with the master; the measured error is the lag, or off by a cycle |
| `hashmap` | four keys with overlapping windows of two, tables of 8, 16 and 32 | 29,589 | implements the finite map; size counts; nothing out of reach; what a failed allocation loses |
| `reception` | whole, cut, damaged and foreign action and data frames, two generations | 779,408 | frames are understood field by field, the host gets the right parts, rejected frames do not mix election fields |
| `same_channel` | the same | | *violated*: see findings |
| `daemon` | three slots of eight units, a loop time up to one unit old, one jump, sequences of one channel and of two with an idle slot | 943,424 | what start-up guarantees and what it leaves unnoticed; the channel follows the sequence; MIFs in the middle of slots, on the channel of the slot, for ever |

Why the bounds are enough: the election compares pairs, so three peers and
self cover a tie, a better and a worse one together; heights include 0, the
largest allowed, the first rejected and the one that wraps. In `Peers` the
clock starts at 0, below the timeout, and runs until a peer has expired and
returned. In `ElectionNet` two nodes are enough for a cycle and a ring of three
for a stale claim to return to a node that does not hear its source; `MaxHeight`
of 3 lets heights reach the limit. In `HostTx` a slot is long enough for both
guards and a window, the queue of two fills and empties, and the peer's slots
include none, one, and two that are adjacent across the end of the sequence. In
`Sync` clock and counter wrap several times with frames outstanding. In
`Hashmap` the keys collide in the tables of 8 and 16 and wrap around their ends,
so that insertions double the table twice in a row and in the middle of copying.
In `Reception` frames end at, before and after TLV boundaries, lengths have
every alignment, and parts are at, below and above the Ethernet limit; state
carried from one frame to the next is one peer record, so two generations
distinguish old from new. In `Daemon` the jump comes at any time of a running
clock, so that its two targets, the end of a slot and its middle, make every
offset between the old clock and the new one; slots of eight units leave the
loop's one unit less than a sixth of a slot. Each value of each option of the
command line occurs; the two options act on different steps.

`CHECK_DEADLOCK FALSE` is set where the system may stop: a finished scan, a
net in which no OWL node runs, and a daemon whose start-up has failed.

### Fairness

`ElectionNet.FairSpec`: the cleaning timer of a running node keeps firing
(libev repeats it, `ev_timer_again`), and once the radio is calm, frames of each
neighbour keep arriving. The first is weak fairness of `Clean`, with its enabling
condition written out as `Due`, which TLC evaluates much faster. Calm may never come: `CyclesHeal` and `GhostForgotten`
do not need it (`CyclesHeal` is about cycles of two nodes; longer ones are
excluded in so far as `GhostForgotten` and `Convergence` exclude them); `Convergence`, which no lossy net can promise, states it as its
condition. It asks for more than a common master: `Settled` also says that the
nodes remember each other as its followers, which is what makes agreement last.
`HostTx.FairSpec`: the loop runs pending events and time does not
stop. `EveryFrameLeaves` names the one thing that holds frames back for good: a
unicast frame to a peer that shares no slot with the node waits until the peer
expires, and nothing more is read from the host. `Daemon.FairSpec`: start-up
goes on, and the loop keeps running; no single callback is assumed to be
favoured, because `TimersGo` does not let the loop sleep or look at the clock
again while one is due.

## Findings

* `election.c:85` says a rejected peer's "tree would get too large if accepted
  as sync master". The test `height + 1 > MAX` wraps, so a peer that advertises
  the largest 32-bit height is accepted (`ParentHasRoom`). The adopted height
  is then 0, within the bound (`HeightBounded`, proved).
* `election.c:88` says "do not allow cycles in sync tree". The test reads the
  peer's last frame; two nodes can become each other's sync master
  (`NoSyncCycle`). The cycle dissolves (`CyclesHeal`).
* `schedule.h:39` says `awdl_same_channel_as_peer` returns "true if we and
  {@code peer} are on the same non-zero channel, false otherwise". A peer's
  sequence is stored in any encoding (`rx.c:103`) and read in ours
  (`schedule.c:38`): a peer with the legacy encoding does not seem to be on our
  channel, and unicast frames to it wait until it expires (`SameChannelTold`).

Not findings, but worth knowing: nobody looks at what `set_channel` returns, and
the switch is not tried again until the sequence comes to another channel
(`core.c:296-302`; `MifOnSlotChannel` therefore speaks of the radio only while
nothing was refused). The warning that `README.md:62` of the
repository announces is given for channels the regulatory domain forbids
(`netutils.c:315`), not for a request the kernel refuses for another reason. The converted parts of an aggregate that is
rejected later are neither delivered nor freed (`LostOnlyIfRejected`). The
`FIXME` at `rx.c:290` suspects the peer table of losing a peer just added:
`Findable` and `IsFiniteMap` show that the table finds what it stored. A peer
whose *second* election TLV is itself too short does leave fields of two frames
mixed, until a complete one arrives; `ElectionFieldsTogether` says that nothing
else does. The cutoff of `awdl_clean_peers` is an unsigned difference: a daemon
that runs in the first two seconds after boot forgets all its peers at each
cleaning, until it hears them again. The difference of window counters in
`awdl_sync_error_tu` is not reduced, so a synchronised node counts an error of a
whole cycle for a frame that meets a counter just wrapped (`MeasuresLag`). The
guard of 3 units for unicast frames covers the lag of two hops, not of the ten
that `election.h` allows (`SharesWindow`).

## Proofs

All theorems hold for every value of the constants that satisfies the named
assumptions of the modules.

* `ElectionLemmas`: the code's comparison is the lexicographic order of keys,
  which is transitive and total on claims of different addresses; hence a
  winner is unique.
* `ElectionProofs`, one scan: `LoopInv` says that `best` is the own claim or an
  eligible claim already visited and that no candidate visited outranks it. With
  transitivity it is inductive, and at the end it gives `ElectsBestCandidate`.
  A net: `NetInv` states honesty and the root property of *all* claims,
  remembered ones included; a claim adopted from a remembered one inherits them.
  Agreement: `Settled(b)` says what every claim and every remembered claim of a
  net that follows its best node `b` is; whoever elects again from such a table
  elects `b` again, so it is closed under all steps but a start and `b`'s own end
  (`AgreementLasts`). A master that left: `Ghost(a, c, t)` bounds from below the
  heights at which `a` is still claimed and remembered. An election adopts one
  more than it read, and nobody but `a` claims `a` at height 0, so no step lowers
  the bounds and cleaning and hearing raise them in turn (`GhostsRise`). Above
  the maximum height the ghost is forgotten, and stays so (`ForgottenForGood`).
* `PeersProofs`: `PeersInv` joins the types, the link between validity and
  neighbour entries, the sync master's presence, the rank, and `Timing`: each
  `last_update` is the moment the peer was last heard and not ahead of the
  clock; the next cleaning is due within the timeout and one interval of it, and
  runs at most `Late` after it is due. `NoStalePeer` follows from the bounds of
  `Timing`, `FreshPeersKept` from its equation and the types.
* `HostTxProofs`: what `SendUnicast` and `SendMulticast` leave behind has a
  timer; each callback then preserves types and `WaitingHasTimer` together.
  `InOrder` speaks of four places in a row. `AllKept` speaks of each by itself,
  which the steps change one at a time: the frames still with the host are the
  end of what arrived, every other one is gone, read ahead or queued, and the
  lengths add up; within a class the numbers ascend from the gone to the waiting
  ones.
  The circular buffer: head is tail plus size modulo the array, so a store
  appends at the end and a get removes the first element; every step is a step
  of the queue.
  Retries: `Lands` says where in the sequence a retry is due that the code
  computes for a refused frame, by division of the position into slot and offset.
  Hence a delay never exceeds a slot (`RetriesComeSoon`). If three guards fit into
  a slot, as 3 and 16 of 64 units do, a retry is never due in the guard at the
  end of a slot unless the clock has jumped since (`RetriesOnTime`), and one that
  is on time uses the slot if the channel is right and skips none otherwise
  (`WindowsAreUsed`).
* `HashmapProofs`: `Findable` and the size are not inductive in the middle of
  a rehash. The invariant says of every key that it is in one place only: a slot,
  an insertion under way, or an element that waits to be copied; that each slot
  in use lies in its key's window *of the present table*; and that `size` counts
  the slots in use at every step, which needs the removal of one element from a
  finite set to lower its cardinality by one.
  The refinement: with keys in one place only, the mapped `Contents` is a
  function that each step changes in at most one key; `Grow` and `Copy` move
  elements between places and are stutters, `Store` of the outermost insertion
  is `Put`, `OutOfMemory` is `PutFails`. The iterator's `Todo` is the set of
  keys behind its index.
* `TimingProofs`, start-up: `StartupInv` says for each step what the steps before
  it have achieved. The schedule: a timer that was set on the present clock aims
  at a boundary of that clock, up to the age of the loop time it was counted from
  (`ChanAims`, `MifAims`), and one from before a jump runs out within a slot
  (`ChanSettles`), so `unsettled` never exceeds a slot and two iterations. Both
  aims together keep a MIF and a change of channel apart (`MifsOnTheirChannel`). `TimersDue` bounds all three timers and, between jumps, the
  MIF timer by the middle of the next slot. Synchronisation: `Lag` is a remainder of differences that
  wrap at different times; `Base` is the part of a position that only an update
  changes, so that time passes without touching `BaseLag`. `SyncInv` bounds it
  for synchronised nodes and, with `FrameLagBounded`, for frames under way, which
  fall back by less than a unit when they are written and by their age since.
  The window a node shares and the error it measures follow from it by arithmetic
  modulo the cycle, for every depth and every guard.
* `ActionFrameProofs` has the lemmas on frames. For any frame: what the parser
  stores is from the present generation, and the second form's fields stay
  together (`AccOK`, through `HandleTlvOK` to `ParseTlvsOK`). For a frame that
  keeps to the structures: each read falls on a field, and on the one it is
  named for (`Fits...`), so the parser takes every TLV (`ParseRegular`).
* `ReceptionProofs`: `Walked` is the invariant of the loop over the parts of an
  aggregate: the position is the start of the next part, and the host frames so
  far are the wanted parts, in order. `RecInv` adds to the properties that a
  captured frame is one the neighbour may send, of a generation it has had; that
  and the lemmas on frames give the five theorems for every set of frames.

Loops over data are recursive functions here. The library's induction rules
cannot be used with the installed provers, so `UpTo` derives the induction these
proofs need from the least element of a set of naturals, and with it that the
functions exist and satisfy their equations.

Assumptions: the hash function is any function to the naturals; table and
window are not empty; the markers `Free` and `Missing` are no elements and no
values. The counter's cycle divides the clock's, and clocks have one rate
(`Sync`); slots have a middle (`Schedule`); lengths are naturals, a frame that is
not an aggregate has one part, and an aggregate at most `MaxNumAmpdu`
(`Reception`). `MifsOnTheirChannel` states its own condition: an iteration of the
event loop takes less than a sixth of a slot, some ten milliseconds. The other modules' assumptions are named next to their constants.

Model-checked only: the liveness properties `CyclesHeal`, `GhostForgotten`,
`Convergence`, `TimePasses`, `EveryFrameLeaves` and `KeepsAnnouncing`, which need
fairness and so are out of the prover's reach. Every other property of a passing
run is also a theorem. Of four liveness properties the part that needs no fairness is proved:
that agreement, once reached, lasts (`Convergence`); that what is left of a master
fades and does not return (`GhostForgotten`); that the retries of a waiting frame
come soon, in the right places and slot by slot (`EveryFrameLeaves`); and that the
timers of the announcements are always due within a bound (`KeepsAnnouncing`). That
the steps which make progress are taken, and that agreement is reached from every
state, is what TLC shows.

## Not modelled

* Logging, printing, the dump file, the banner and statistics: output only.
* CRC-32 and siphash24: pure byte computations, an arbitrary result here.
* The encoding of netlink requests: they are steps that succeed or fail. What
  `is_channel_available` finds is logged and ignored by its caller. Apple's CoreWLAN and
  other code compiled only there.
* `malloc` that fails outside the hash table's growth (`hashmap_new`, buffers, new
  peers): the callers do not look, or assert.
* What a rehash that fails half way does to neighbour entries and sync master: the
  elements it loses are in `Hashmap`, not in `Peers`.
* libev stopping the process for a negative descriptor, and drifting clocks.
* `daemonize`, and `awdl_free`, which the daemon never reaches: nothing ends the
  event loop.
* Values and byte order of frame fields; TLVs that are not parsed; aggregates of
  more parts than `awdl_receive_frame` has room for.
* `ieee80211_add_fcs`: `state.c:85` switches it off and nothing switches it on.
* A frame that stays in the capture while its sender changes its mind, in
  `ElectionNet` (it is in `Reception`, for one neighbour).
