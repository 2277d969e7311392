------------------------------ MODULE Schedule -------------------------------
(***************************************************************************)
(* The timers of the running daemon that follow the channel sequence:      *)
(* awdl_switch_channel, awdl_send_mif and awdl_send_psf of                 *)
(* src/daemon/core.c, as awdl_schedule starts them.                        *)
(*                                                                         *)
(* Time is the position in the channel sequence, in slots (extended        *)
(* availability windows) of Eaw units.  It jumps when the node takes over  *)
(* the position of a master; timers that are running do not know.          *)
(*                                                                         *)
(* libev looks at the time once in every iteration of its loop: it runs    *)
(* the callbacks that were due then, in any order, and counts the timers   *)
(* they set from then, although the callbacks themselves look at the clock *)
(* and an iteration takes up to Busy.  So a timer is due early by as much  *)
(* as the callback that sets it ran late in its iteration, and late by up  *)
(* to two iterations.                                                      *)
(***************************************************************************)
EXTENDS Integers, Sequences

CONSTANTS
  Eaw, Slots,       \* length of a slot; slots of the sequence (64 TU, 16)
  PsfInterval,      \* psf_interval (110 TU)
  Busy,             \* the longest iteration of the event loop
  ChanSequences,    \* channel sequences, 0 where the radio may stay
  MaxJumps,         \* bound on the jumps
  JumpTargets       \* positions that jumps go to

Times == 0 .. Eaw * Slots - 1

ASSUME ScheduleAssumption ==
  /\ Eaw \in Nat \ {0} /\ Eaw % 2 = 0 /\ Slots \in Nat \ {0}
  /\ PsfInterval \in Nat \ {0} /\ Busy \in Nat
  /\ MaxJumps \in Nat /\ JumpTargets \subseteq Times
  /\ \A s \in ChanSequences : DOMAIN s = 0 .. Slots - 1 /\ \A i \in DOMAIN s : s[i] \in Nat

VARIABLES
  time,                           \* position in the channel sequence
  sequence, current,              \* state->channel
  radio,                          \* channel the interface is on
  refused,                        \* history: the kernel has refused a channel
  behind,                         \* time since the event loop looked at the clock
  chanTimer, mifTimer, psfTimer,  \* due so long after that, negative when overdue
  aimed,                          \* history: timers set since the last jump
  unsettled,                      \* history: time since a jump, as far as it matters
  sent,                           \* history: the frame just sent
  jumps

scheduleVars == <<time, sequence, current, radio, refused, behind, chanTimer, mifTimer, psfTimer,
                  aimed, unsettled, sent, jumps>>

NoneSent == [type |-> "none", aimed |-> FALSE]

\* awdl_init_state and awdl_schedule
ScheduleInit ==
  /\ time = 0 /\ sequence \in ChanSequences
  /\ current = 0 /\ radio = 0 /\ refused = FALSE /\ behind = 0
  /\ chanTimer = 0 /\ mifTimer = 0 /\ psfTimer = PsfInterval
  /\ aimed = {} /\ unsettled = 0 /\ sent = NoneSent /\ jumps = 0

\* awdl_sync_current_eaw, awdl_sync_next_aw_us
SlotOf(t) == t \div Eaw

NextAw(t) == Eaw - (t % Eaw)

\* is_channel_available and set_channel: nobody looks at what they return.
TryChannel(c) ==
  \/ radio' = c /\ UNCHANGED refused
  \/ radio' = radio /\ refused' = TRUE

MutRearmChan(t) == Eaw

RearmChan(t) == NextAw(t)

\* awdl_switch_channel.  The channel counts as taken whatever came of it.
MutSwitchForgets(isFile) ==
  /\ chanTimer <= 0
  /\ chanTimer' = RearmChan(time)
  /\ aimed' = aimed \cup {"chan"} /\ unsettled' = 0 /\ sent' = NoneSent
  /\ UNCHANGED <<time, sequence, current, radio, refused, behind, mifTimer, psfTimer, jumps>>

SwitchChannel(isFile) ==
  /\ chanTimer <= 0
  /\ LET c == sequence[SlotOf(time)]
     IN  IF c # 0 /\ c # current
         THEN /\ IF isFile THEN UNCHANGED <<radio, refused>> ELSE TryChannel(c)
              /\ current' = c
         ELSE UNCHANGED <<current, radio, refused>>
  /\ chanTimer' = RearmChan(time)
  /\ aimed' = aimed \cup {"chan"} /\ unsettled' = 0 /\ sent' = NoneSent
  /\ UNCHANGED <<time, sequence, behind, mifTimer, psfTimer, jumps>>

\* awdl_send_mif: in the middle of the next slot again.
MutRearmMif(t) == Eaw

RearmMif(t) == NextAw(t) + Eaw \div 2

SendMif ==
  /\ mifTimer <= 0
  /\ sent' = IF current # 0 THEN [type |-> "mif", aimed |-> "mif" \in aimed] ELSE NoneSent
  /\ mifTimer' = RearmMif(time)
  /\ aimed' = aimed \cup {"mif"}
  /\ UNCHANGED <<time, sequence, current, radio, refused, behind, chanTimer, psfTimer,
                 unsettled, jumps>>

\* awdl_send_psf.  libev repeats the timer from when it was due.
SendPsf ==
  /\ psfTimer <= 0
  /\ sent' = [type |-> "psf", aimed |-> FALSE]
  /\ psfTimer' = IF psfTimer + PsfInterval < 0 THEN 0 ELSE psfTimer + PsfInterval
  /\ UNCHANGED <<time, sequence, current, radio, refused, behind, chanTimer, mifTimer, aimed,
                 unsettled, jumps>>

\* awdl_sync_update_last in the callback that receives frames
Jump(t) ==
  /\ jumps < MaxJumps
  /\ jumps' = jumps + 1
  /\ time' = t /\ aimed' = {} /\ unsettled' = 0 /\ sent' = NoneSent
  /\ UNCHANGED <<sequence, current, radio, refused, behind, chanTimer, mifTimer, psfTimer>>

TimePasses ==
  /\ time' = (time + 1) % (Eaw * Slots)
  /\ unsettled' = IF "chan" \in aimed THEN 0 ELSE unsettled + 1
  /\ sent' = NoneSent
  /\ UNCHANGED <<sequence, current, radio, refused, aimed, jumps>>

TimersGo(d) ==
  /\ chanTimer > 0 /\ mifTimer > 0 /\ psfTimer > 0
  /\ chanTimer' = chanTimer - d /\ mifTimer' = mifTimer - d /\ psfTimer' = psfTimer - d

\* The event loop sleeps.
Wait == behind = 0 /\ TimersGo(1) /\ TimePasses /\ UNCHANGED behind

\* Its callbacks, those of this module or others, take time.
Work ==
  /\ behind < Busy /\ behind' = behind + 1
  /\ TimePasses
  /\ UNCHANGED <<chanTimer, mifTimer, psfTimer>>

\* It has run all callbacks that were due, and looks at the clock again.
Iterate ==
  /\ behind > 0 /\ behind' = 0
  /\ TimersGo(behind) /\ sent' = NoneSent
  /\ UNCHANGED <<time, sequence, current, radio, refused, aimed, unsettled, jumps>>

ScheduleNext(isFile) ==
  \/ SwitchChannel(isFile) \/ SendMif \/ SendPsf \/ Wait \/ Work \/ Iterate
  \/ \E t \in JumpTargets : Jump(t)

-----------------------------------------------------------------------------
(***************************************************************************)
(* The channel goes with the sequence although the timer for the next slot *)
(* is set anew from every callback, early or late as it may be, and jumps  *)
(* leave it aiming at a boundary that is none any more: as long as the     *)
(* timer is not due, the current channel is that of the slot; after a jump *)
(* this holds again within one slot and two iterations of the event loop.  *)
(***************************************************************************)
ChannelFollows ==
  /\ ("chan" \in aimed /\ chanTimer > behind /\ sequence[SlotOf(time)] # 0) =>
       current = sequence[SlotOf(time)]
  /\ unsettled <= Eaw + 2 * Busy

(***************************************************************************)
(* core.c:198: "schedule next in the middle of EAW".  A MIF whose timer    *)
(* was set on the present clock is sent in the middle of a slot, up to one *)
(* iteration of the event loop early or two late: this does not add up.    *)
(***************************************************************************)
MifInMiddle ==
  sent.type = "mif" /\ sent.aimed =>
    \E d \in -Busy .. 2 * Busy : (time - d) % Eaw = Eaw \div 2

=============================================================================
