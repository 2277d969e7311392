-------------------------------- MODULE Sync --------------------------------
(***************************************************************************)
(* How nodes keep a common position in the channel sequence: src/src/sync.c*)
(* with the frames that carry it (awdl_init_sync_params_tlv of tx.c,       *)
(* awdl_handle_sync_params_tlv of rx.c).                                   *)
(*                                                                         *)
(* Nodes 1 .. N are a path of the sync tree: node n + 1 has node n as sync *)
(* master, node 1 is the top master.  Each has a clock of its own offset;  *)
(* all run at the same rate.  Frames take up to MaxDelay from reading the  *)
(* sender's clock to reading the receiver's, or get lost.  Clocks and      *)
(* counters have a finite width.                                           *)
(***************************************************************************)
EXTENDS Integers

CONSTANTS
  N,           \* nodes
  Tu,          \* microseconds per time unit (1024)
  Period,      \* aw_period in time units (16)
  CtrMod,      \* values of the counter of availability windows (2^16)
  ClockMod,    \* values of the clock (2^64)
  Offsets,     \* offset of each node's clock
  Starts,      \* when nodes may start
  MaxDelay,    \* of a frame, in microseconds
  Guard,       \* AWDL_UNICAST_GUARD_TU, AWDL_MULTICAST_GUARD_TU (3 and 16)
  NoFrame

Nodes == 1 .. N

Mode == 4                        \* presence_mode

EawTu == Mode * Period           \* an extended availability window, in TU

Cycle == CtrMod * Period * Tu    \* the counter returns after this time

\* How far a node may fall behind its sync master: the frame carries whole
\* time units, and takes a while.
HopLag == Tu - 1 + MaxDelay

ASSUME SyncAssumption ==
  /\ N \in Nat \ {0} /\ Tu \in Nat \ {0} /\ Period \in Nat \ {0}
  /\ CtrMod \in Nat \ {0} /\ CtrMod % Mode = 0
  /\ ClockMod \in Nat \ {0} /\ ClockMod % Cycle = 0
  /\ Offsets \in [Nodes -> 0 .. ClockMod - 1]
  /\ Starts \subseteq 0 .. ClockMod - 1
  /\ MaxDelay \in Nat
  /\ Guard \in Nat

VARIABLES
  now,       \* time
  started,   \* nodes that run
  sync,      \* struct awdl_sync_state: last_update and aw_counter
  frame,     \* the frame under way to each node, or NoFrame
  synced     \* history: nodes whose position comes from the top master

syncVars == <<now, started, sync, frame, synced>>

SyncInit ==
  /\ now = 0
  /\ started = {}
  /\ sync = [n \in Nodes |-> [last_update |-> 0, aw_counter |-> 0]]
  /\ frame = [n \in Nodes |-> NoFrame]
  /\ synced = {}

-----------------------------------------------------------------------------
\* clock_time_us() of node n, and the time since its last_update in uint64_t
Clock(n) == (now + Offsets[n]) % ClockMod

Since(n) == (Clock(n) - sync[n].last_update) % ClockMod

SinceTu(n) == Since(n) \div Tu

NextAwTu(n) == EawTu - (SinceTu(n) % EawTu)

NextAwUs(n) == EawTu * Tu - (Since(n) % (EawTu * Tu))

CurrentAw(n) ==
  (sync[n].aw_counter + (SinceTu(n) % EawTu) \div Period + Mode * (SinceTu(n) \div EawTu)) % CtrMod

CurrentEaw(n) == CurrentAw(n) \div Mode

\* awdl_sync_error_tu: how far the master is ahead, from its frame f
MutSyncError(n, f) ==
  (f.aw_counter \div Mode - CurrentEaw(n)) * EawTu + (f.next_aw - NextAwTu(n))

SyncError(n, f) ==
  (f.aw_counter \div Mode - CurrentEaw(n)) * EawTu - (f.next_aw - NextAwTu(n))

\* awdl_sync_update_last
MutKeepLowBits(n, f) ==
  [last_update |-> (Clock(n) - (EawTu - f.next_aw) * Tu) % ClockMod,
   aw_counter  |-> f.aw_counter]

MutIgnorePhase(n, f) ==
  [last_update |-> Clock(n), aw_counter |-> f.aw_counter - (f.aw_counter % 4)]

UpdateLast(n, f) ==
  [last_update |-> (Clock(n) - (EawTu - f.next_aw) * Tu) % ClockMod,
   aw_counter  |-> f.aw_counter - (f.aw_counter % 4)]     \* & 0xfffc

-----------------------------------------------------------------------------
\* awdl_sync_state_init
Start(n) ==
  /\ n \notin started /\ now \in Starts
  /\ started' = started \cup {n}
  /\ sync' = [sync EXCEPT ![n] = [last_update |-> Clock(n), aw_counter |-> 0]]
  /\ synced' = IF n = 1 THEN synced \cup {n} ELSE synced
  /\ UNCHANGED <<now, frame>>

\* Node n sends a frame, which its child may get.
MutSendsStale(n) ==
  /\ n \in started /\ n + 1 \in started /\ frame[n + 1] = NoFrame
  /\ frame' = [frame EXCEPT ![n + 1] =
       [next_aw |-> NextAwTu(n), aw_counter |-> sync[n].aw_counter,
        age |-> 0, good |-> n \in synced]]
  /\ UNCHANGED <<now, started, sync, synced>>

Send(n) ==
  /\ n \in started /\ n + 1 \in started /\ frame[n + 1] = NoFrame
  /\ frame' = [frame EXCEPT ![n + 1] =
       [next_aw |-> NextAwTu(n), aw_counter |-> CurrentAw(n),
        age |-> 0, good |-> n \in synced]]
  /\ UNCHANGED <<now, started, sync, synced>>

Lose(n) ==
  /\ frame[n] # NoFrame
  /\ frame' = [frame EXCEPT ![n] = NoFrame]
  /\ UNCHANGED <<now, started, sync, synced>>

\* awdl_handle_sync_params_tlv for a frame of the sync master
Receive(n) ==
  /\ frame[n] # NoFrame
  /\ frame' = [frame EXCEPT ![n] = NoFrame]
  /\ sync' = [sync EXCEPT ![n] = UpdateLast(n, frame[n])]
  /\ synced' = IF frame[n].good THEN synced \cup {n} ELSE synced \ {n}
  /\ UNCHANGED <<now, started>>

InFlight == {n \in Nodes : frame[n] # NoFrame}

ClockTick ==
  /\ \A n \in InFlight : frame[n].age < MaxDelay
  /\ now' = (now + 1) % ClockMod
  /\ frame' = [n \in Nodes |->
       IF n \in InFlight THEN [frame[n] EXCEPT !.age = @ + 1] ELSE NoFrame]
  /\ UNCHANGED <<started, sync, synced>>

SyncNext ==
  \/ \E n \in Nodes : Start(n) \/ Lose(n) \/ Receive(n)
  \/ \E n \in 1 .. N - 1 : Send(n)
  \/ ClockTick

SyncSpec == SyncInit /\ [][SyncNext]_syncVars

-----------------------------------------------------------------------------
Frames == [next_aw: 1 .. EawTu, aw_counter: 0 .. CtrMod - 1, age: 0 .. MaxDelay, good: BOOLEAN]

\* The stored counter is that of the first window of an EAW.
TypeOK ==
  /\ now \in 0 .. ClockMod - 1
  /\ started \subseteq Nodes /\ synced \subseteq started
  /\ sync \in [Nodes -> [last_update: 0 .. ClockMod - 1,
                         aw_counter: {c \in 0 .. CtrMod - 1 : c % Mode = 0}]]
  /\ frame \in [Nodes -> Frames \cup {NoFrame}]

\* Position in the cycle, and how far node n is behind the top master.
Position(n) == (sync[n].aw_counter * Period * Tu + Since(n)) % Cycle

Lag(n) == (Position(1) - Position(n)) % Cycle

(***************************************************************************)
(* Synchronisation is as good as the path is short: a node is never ahead  *)
(* of the top master and behind by at most HopLag for each hop, however    *)
(* many frames were lost since, and although clocks, counters and times    *)
(* since the last update wrap around.  This is for clocks of one rate;     *)
(* what they drift apart between two frames comes on top.                  *)
(***************************************************************************)
LagBounded == \A n \in synced : Lag(n) <= (n - 1) * HopLag

\* awdl_can_send_in with the guard at both ends of an extended window
OutsideGuard(n) ==
  NextAwUs(n) >= Guard * Tu /\ EawTu * Tu - NextAwUs(n) >= Guard * Tu

\* How many windows the top master can be ahead: those that its lead of
\* HopLag for each hop reaches beyond the end of the node's own.
WindowsAhead(n) ==
  ((n - 1) * HopLag + EawTu * Tu - NextAwUs(n)) \div (EawTu * Tu)

(***************************************************************************)
(* Where a node of any depth finds the top master in the channel sequence: *)
(* in its own extended window until the end of that is nearer than the     *)
(* hops' lag, then in the window after it (or, on paths long enough, a     *)
(* later one).  So a guard interval of schedule.c keeps a sender in its    *)
(* master's window at the depths where the lag adds up to less than the    *)
(* guard and not beyond: with frames that take up to half a millisecond    *)
(* 3 TU are enough for two of the ten hops that election.h allows, and     *)
(* 16 TU for all ten.                                                      *)
(***************************************************************************)
SharesWindow ==
  \A n \in synced :
    /\ \E w \in 0 .. WindowsAhead(n) :
         CurrentEaw(1) = (CurrentEaw(n) + w) % (CtrMod \div Mode)
    /\ OutsideGuard(n) /\ CurrentEaw(n) # CurrentEaw(1) => (n - 1) * HopLag >= Guard * Tu

(***************************************************************************)
(* What awdl_sync_error_tu measures from a frame of the sync master is the *)
(* true distance, which the depth bounds, or that distance and one whole   *)
(* cycle of the counter when only one of the two sides has wrapped around: *)
(* the difference of the counters is not reduced.  A cycle is far beyond   *)
(* AWDL_SYNC_THRESHOLD, so each such frame is counted as a sync error.     *)
(***************************************************************************)
MeasuresLag ==
  \A n \in synced \cap InFlight :
    frame[n].good =>
      \E wrap \in {-1, 0, 1} :
        SyncError(n, frame[n]) - wrap * CtrMod * Period
          \in -(((n - 1) * HopLag) \div Tu) .. ((n - 1) * HopLag + Tu - 1) \div Tu

=============================================================================
