------------------------------- MODULE HostTx -------------------------------
(***************************************************************************)
(* The way of a frame from the host to the air: host_device_ready,         *)
(* awdl_send_unicast and awdl_send_multicast of src/daemon/core.c, with    *)
(* the transmission windows of src/src/schedule.c.                         *)
(*                                                                         *)
(* The daemon reads one unicast frame ahead (next) and up to Cap multicast *)
(* frames (mq).  Each has a one-shot timer with the delay to the next try. *)
(* Time is divided into slots (extended availability windows) of Eaw       *)
(* units; time is the position in the channel sequence, which jumps when   *)
(* the node synchronises to a new master.  The event loop serves what is   *)
(* due before time passes.                                                 *)
(***************************************************************************)
EXTENDS Integers, Sequences

CONSTANTS
  Eaw, Slots,       \* length of a slot; slots of the sequence (64 TU, 16)
  McSlots,          \* the multicast slots (0 and 10)
  UcGuard, McGuard, \* AWDL_UNICAST_GUARD_TU, AWDL_MULTICAST_GUARD_TU (3, 16)
  Cap,              \* capacity of tx_queue_multicast (16)
  Peers,            \* addresses of possible peers
  Matches,          \* sets of slots in which a peer is on our channel
  MaxFrames,        \* bound on the frames the host sends
  MaxEvents,        \* bound on updates and losses of peers, jumps of the synchronisation
  None, Off         \* no frame; a timer that is not running

\* Who a frame is addressed to: "runt" is a frame without full address.
Kinds == {"multicast", "self", "runt"} \cup Peers

Frames == [id: 1 .. MaxFrames, to: Kinds]

Times == 0 .. Eaw * Slots - 1

ASSUME HostTxAssumption ==
  /\ Eaw \in Nat \ {0} /\ Slots \in Nat \ {0} /\ McSlots \subseteq 0 .. Slots - 1
  /\ UcGuard \in Nat /\ McGuard \in Nat
  /\ 2 * UcGuard < Eaw /\ 2 * McGuard < Eaw
  /\ Cap \in Nat \ {0}
  /\ Matches \subseteq SUBSET (0 .. Slots - 1)
  /\ MaxFrames \in Nat /\ MaxEvents \in Nat
  /\ None \notin Frames /\ Off \notin Nat

VARIABLES
  time,      \* position in the channel sequence
  host,      \* frames waiting in the tunnel device
  next,      \* state->next
  mq,        \* state->tx_queue_multicast
  txTimer,   \* delay until tx_timer fires, or Off
  mcTimer,   \* the same for tx_mcast_timer
  fed,       \* ev_feed_event: a read event of the host is pending
  match,     \* peer table: address -> slots on our channel
  arrived,   \* history: frames the host sent, in order
  gone,      \* history: frames sent or dropped, in order
  events     \* such updates, losses and jumps so far

vars == <<time, host, next, mq, txTimer, mcTimer, fed, match, arrived, gone, events>>

Init ==
  /\ time = 0                             \* awdl_sync_state_init
  /\ host = <<>> /\ next = None /\ mq = <<>>
  /\ txTimer = 0 /\ mcTimer = 0           \* awdl_schedule starts both
  /\ fed = FALSE
  /\ match = [p \in {} |-> p]
  /\ arrived = <<>> /\ gone = <<>> /\ events = 0

-----------------------------------------------------------------------------
\* awdl_sync_current_eaw, awdl_sync_next_aw_us at time t
SlotOf(t) == t \div Eaw

NextAw(t) == Eaw - (t % Eaw)

\* awdl_can_send_in: 0, or the negative distance into the guard at the end
\* of the slot, or the time until the guard at its start is over.
CanSendIn(t, guard) ==
  IF NextAw(t) < guard THEN NextAw(t) - guard
  ELSE IF Eaw - NextAw(t) < guard THEN guard - (Eaw - NextAw(t))
  ELSE 0

\* awdl_same_channel_as_peer, in the slot at time t plus a number of slots
SameChannel(p, t, slots) == (SlotOf(t) + Slots + slots) % Slots \in match[p]

\* awdl_can_send_unicast_in: the guards do not matter between two slots on
\* the peer's channel.
CanSendUnicastIn(p, t) ==
  IF ~SameChannel(p, t, 0) THEN NextAw(t)
  ELSE IF NextAw(t) < UcGuard
       THEN IF SameChannel(p, t, 1) THEN 0 ELSE NextAw(t) - UcGuard
  ELSE IF Eaw - NextAw(t) < UcGuard
       THEN IF SameChannel(p, t, -1) THEN 0 ELSE UcGuard - (Eaw - NextAw(t))
  ELSE 0

\* The delay after which a refused frame is tried again.
MutRetryNegative(in, guard) == in

MutRetrySlot(in, guard) == Eaw

Retry(in, guard) == IF in < 0 THEN guard - in ELSE in

(***************************************************************************)
(* awdl_send_unicast when nx is state->next and timer the state of its     *)
(* timer: what becomes of both, whether the host is polled again, and the  *)
(* frames that are gone (sent, dropped, or returned to the host).          *)
(***************************************************************************)
SendUnicast(nx, timer) ==
  LET in == IF nx # None /\ nx.to \in DOMAIN match THEN CanSendUnicastIn(nx.to, time) ELSE 0
  IN  IF nx # None /\ in # 0
      THEN [next |-> nx, timer |-> Retry(in, UcGuard), fed |-> FALSE, gone |-> <<>>]
      ELSE [next |-> None, timer |-> timer, fed |-> TRUE,
            gone |-> IF nx = None THEN <<>> ELSE <<nx>>]

\* awdl_send_multicast, in the same form: at most one frame per call.
MutMcSpins(q, timer) ==
  LET in == CanSendIn(time, McGuard)
      send == q # <<>> /\ SlotOf(time) \in McSlots /\ in = 0
      q2 == IF send THEN Tail(q) ELSE q
  IN  [mq    |-> q2,
       timer |-> IF q2 = <<>> THEN timer ELSE IF send THEN 0 ELSE Retry(in, McGuard),
       fed   |-> q2 = <<>>,
       gone  |-> IF send THEN <<Head(q)>> ELSE <<>>]

MutMcNoRearm(q, timer) ==
  LET in == CanSendIn(time, McGuard)
      send == q # <<>> /\ SlotOf(time) \in McSlots /\ in = 0
      q2 == IF send THEN Tail(q) ELSE q
  IN  [mq    |-> q2,
       timer |-> IF send \/ q2 = <<>> THEN timer
                 ELSE IF in = 0 THEN Eaw ELSE Retry(in, McGuard),
       fed   |-> q2 = <<>>,
       gone  |-> IF send THEN <<Head(q)>> ELSE <<>>]

SendMulticast(q, timer) ==
  LET in == CanSendIn(time, McGuard)
      send == q # <<>> /\ SlotOf(time) \in McSlots /\ in = 0
      q2 == IF send THEN Tail(q) ELSE q
  IN  [mq    |-> q2,
       timer |-> IF q2 = <<>> THEN timer
                 ELSE IF send THEN 0
                 ELSE IF in = 0 THEN Eaw ELSE Retry(in, McGuard),
       fed   |-> q2 = <<>>,
       gone  |-> IF send THEN <<Head(q)>> ELSE <<>>]

-----------------------------------------------------------------------------
\* poll_host_device reads an i-th frame: nothing but multicast so far, and
\* room for more.
MutReadsWhenFull(i) ==
  next = None /\ \A j \in 1 .. i - 1 : host[j].to = "multicast"

Reads(i) ==
  /\ next = None
  /\ \A j \in 1 .. i - 1 : host[j].to = "multicast"
  /\ Len(mq) + i - 1 < Cap

\* It reads n frames: the queue overwrites its oldest frames if it has to.
PollsN(n) ==
  /\ \A i \in 1 .. n : Reads(i)
  /\ n < Len(host) => ~Reads(n + 1)

IsUnicast(f) == f.to \notin {"multicast", "runt"}

Newest(q) == SubSeq(q, IF Len(q) > Cap THEN Len(q) - Cap + 1 ELSE 1, Len(q))

HostReady ==
  /\ fed \/ host # <<>>
  /\ \E n \in 0 .. Len(host) :
       LET uc    == n > 0 /\ IsUnicast(host[n])
           runt  == n > 0 /\ host[n].to = "runt"
           mc    == SubSeq(host, 1, IF uc \/ runt THEN n - 1 ELSE n)
           nx    == IF uc THEN host[n] ELSE next
           q     == Newest(mq \o mc)
           m     == IF mc # <<>> THEN SendMulticast(q, mcTimer)
                    ELSE [mq |-> q, timer |-> mcTimer, fed |-> FALSE, gone |-> <<>>]
           u     == IF uc THEN SendUnicast(nx, txTimer)
                    ELSE [next |-> nx, timer |-> txTimer, fed |-> FALSE, gone |-> <<>>]
       IN  /\ PollsN(n)
           /\ host' = SubSeq(host, n + 1, Len(host))
           /\ next' = u.next /\ txTimer' = u.timer
           /\ mq' = m.mq /\ mcTimer' = m.timer
           /\ fed' = (m.fed \/ u.fed)
           /\ gone' = gone \o (IF runt THEN <<host[n]>> ELSE <<>>) \o m.gone \o u.gone
  /\ UNCHANGED <<time, match, arrived, events>>

\* tx_timer fires.
TxTimer ==
  /\ txTimer = 0
  /\ LET u == SendUnicast(next, Off)
     IN  /\ next' = u.next /\ txTimer' = u.timer
         /\ fed' = (fed \/ u.fed)
         /\ gone' = gone \o u.gone
  /\ UNCHANGED <<time, host, mq, mcTimer, match, arrived, events>>

\* tx_mcast_timer fires.
McTimer ==
  /\ mcTimer = 0
  /\ LET m == SendMulticast(mq, Off)
     IN  /\ mq' = m.mq /\ mcTimer' = m.timer
         /\ fed' = (fed \/ m.fed)
         /\ gone' = gone \o m.gone
  /\ UNCHANGED <<time, host, next, txTimer, match, arrived, events>>

-----------------------------------------------------------------------------
\* The host sends a frame.
HostArrive(to) ==
  /\ Len(arrived) < MaxFrames
  /\ LET f == [id |-> Len(arrived) + 1, to |-> to]
     IN  host' = Append(host, f) /\ arrived' = Append(arrived, f)
  /\ UNCHANGED <<time, next, mq, txTimer, mcTimer, fed, match, gone, events>>

\* A peer joins, advertises another channel sequence, or leaves.
PeerJoin(p, slots) ==
  /\ p \notin DOMAIN match
  /\ match' = [a \in DOMAIN match \cup {p} |-> IF a = p THEN slots ELSE match[a]]
  /\ UNCHANGED <<time, host, next, mq, txTimer, mcTimer, fed, arrived, gone, events>>

PeerUpdate(p, slots) ==
  /\ events < MaxEvents
  /\ events' = events + 1
  /\ p \in DOMAIN match
  /\ match' = [a \in DOMAIN match \cup {p} |-> IF a = p THEN slots ELSE match[a]]
  /\ UNCHANGED <<time, host, next, mq, txTimer, mcTimer, fed, arrived, gone>>

PeerLeave(p) ==
  /\ events < MaxEvents
  /\ events' = events + 1
  /\ p \in DOMAIN match
  /\ match' = [a \in DOMAIN match \ {p} |-> match[a]]
  /\ UNCHANGED <<time, host, next, mq, txTimer, mcTimer, fed, arrived, gone>>

\* awdl_sync_update_last: another place in the sequence; timers keep running.
SyncJump(t) ==
  /\ events < MaxEvents
  /\ events' = events + 1
  /\ time' = t
  /\ UNCHANGED <<host, next, mq, txTimer, mcTimer, fed, match, arrived, gone>>

Down(timer) == IF timer = Off THEN Off ELSE timer - 1

\* Time passes when the event loop has nothing to do.  Frames of the host that
\* may not be read yet keep it calling host_device_ready, which does nothing.
Tick ==
  /\ txTimer # 0 /\ mcTimer # 0 /\ ~fed
  /\ host # <<>> => ~Reads(1)
  /\ time' = (time + 1) % (Eaw * Slots)
  /\ txTimer' = Down(txTimer) /\ mcTimer' = Down(mcTimer)
  /\ UNCHANGED <<host, next, mq, fed, match, arrived, gone, events>>

Loop == HostReady \/ TxTimer \/ McTimer \/ Tick

Next ==
  \/ Loop
  \/ \E to \in Kinds : HostArrive(to)
  \/ \E p \in Peers : PeerLeave(p) \/ \E slots \in Matches : PeerJoin(p, slots) \/ PeerUpdate(p, slots)
  \/ \E t \in Times : SyncJump(t)

Spec == Init /\ [][Next]_vars

\* The event loop runs every pending event, and time does not stop.
FairSpec ==
  /\ Spec
  /\ WF_vars(HostReady) /\ WF_vars(TxTimer) /\ WF_vars(McTimer) /\ WF_vars(Tick)

-----------------------------------------------------------------------------
Timers == Nat \cup {Off}

TypeOK ==
  /\ time \in Times
  /\ host \in Seq(Frames) /\ mq \in Seq(Frames) /\ arrived \in Seq(Frames)
  /\ next \in Frames \cup {None}
  /\ txTimer \in Timers /\ mcTimer \in Timers
  /\ fed \in BOOLEAN
  /\ DOMAIN match \subseteq Peers
  /\ \A p \in DOMAIN match : match[p] \in Matches
  /\ Len(mq) <= Cap
  /\ events \in 0 .. MaxEvents

(***************************************************************************)
(* No frame is stranded: whenever a frame waits in the daemon, a timer is  *)
(* running that will try it again.  Both timers are one-shot, and frames   *)
(* come and go from three callbacks.                                       *)
(***************************************************************************)
WaitingHasTimer ==
  /\ next # None => txTimer # Off
  /\ mq # <<>> => mcTimer # Off

\* How the daemon treats a frame.
Class(f) ==
  IF IsUnicast(f) THEN "unicast" ELSE IF f.to = "runt" THEN "runt" ELSE "multicast"

\* Where the frames are, from the ones that are gone to the ones not yet read.
Held == IF next = None THEN <<>> ELSE <<next>>

Everywhere == gone \o Held \o mq \o host

(***************************************************************************)
(* Every frame the host sent is in exactly one place (each is in some      *)
(* place, and there are as many places as frames), and frames of the same  *)
(* class do not overtake each other: neither the single slot for unicast   *)
(* nor the queue that can overwrite its oldest element loses, duplicates,  *)
(* confuses or reorders one.                                               *)
(***************************************************************************)
InOrder ==
  /\ Len(Everywhere) = Len(arrived)
  /\ \A i \in DOMAIN arrived : \E j \in DOMAIN Everywhere : Everywhere[j] = arrived[i]
  /\ \A i, j \in DOMAIN Everywhere :
       i < j /\ Class(Everywhere[i]) = Class(Everywhere[j]) =>
         Everywhere[i].id < Everywhere[j].id
  /\ \A i \in DOMAIN Held : Class(Held[i]) = "unicast"
  /\ \A i \in DOMAIN mq : Class(mq[i]) = "multicast"

(***************************************************************************)
(* The timers do not stop the clock: time keeps passing, so no frame is    *)
(* retried for ever with a delay of zero in a window it may not use.       *)
(***************************************************************************)
TimePasses == []<><<Tick>>_vars

\* A unicast frame that may not be sent in any slot.
Blocked == next # None /\ next.to \in DOMAIN match /\ match[next.to] = {}

(***************************************************************************)
(* Every frame leaves the daemon in the end, or one thing holds frames     *)
(* back from some time on: the daemon holds a unicast frame to a peer that *)
(* is on our channel in no slot, and the multicast frames it has read have *)
(* left all the same.  In all other cases the retry delays, computed from  *)
(* the position in the slot, do reach a window in which the frame may be   *)
(* sent, also after jumps of the synchronisation.  The host sends a        *)
(* bounded number of frames, so that it is enough to say that the daemon   *)
(* keeps running out of them.                                              *)
(***************************************************************************)
EveryFrameLeaves ==
  []<>(Len(gone) = Len(arrived)) \/ <>[](Blocked /\ mq = <<>>)

=============================================================================
