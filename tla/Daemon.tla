-------------------------------- MODULE Daemon -------------------------------
(***************************************************************************)
(* The daemon from its start: when start-up has gone through, the timers   *)
(* run for ever, as nothing ends the event loop.  Frames are handed to     *)
(* wlan_send whatever the capture is; only a device can inject them.       *)
(***************************************************************************)
EXTENDS Startup, Schedule

vars == <<startupVars, scheduleVars>>

Init == StartupInit /\ ScheduleInit

Running == at = "running" /\ ScheduleNext(wlan = "file") /\ UNCHANGED startupVars

\* Without a capture wlan_handle was never assigned; wlan_send may find it
\* to be NULL and give up, or use whatever it is.
Crash ==
  /\ at = "running" /\ wlan = "invalid" /\ sent.type # "none" /\ at' = "failed"
  /\ UNCHANGED <<options, netlink, wlan, link, monitor, address, host, scheduleVars>>

Next ==
  \/ StartupNext /\ UNCHANGED scheduleVars
  \/ Running
  \/ Crash

Spec == Init /\ [][Next]_vars

\* Start-up goes on and the event loop serves its timers in time.
FairSpec == Spec /\ WF_vars(StartupNext /\ UNCHANGED scheduleVars) /\ WF_vars(Running)

-----------------------------------------------------------------------------
(***************************************************************************)
(* A MIF whose timer was set on the present clock finds the schedule, and  *)
(* the radio as long as the kernel has refused no channel, on the channel  *)
(* of the slot it is sent in, if the slot has one: the channel timer and   *)
(* the MIF timer, each early or late on its own, never meet as long as an  *)
(* iteration of the event loop takes less than a sixth of a slot.          *)
(***************************************************************************)
MifOnSlotChannel ==
  (sent.type = "mif" /\ sent.aimed /\ "chan" \in aimed /\ 6 * Busy < Eaw) =>
    LET c == sequence[SlotOf(time)]
    IN  c # 0 => current = c /\ (wlan = "device" /\ ~refused => radio = c)

(***************************************************************************)
(* A node that runs on a device keeps announcing itself as a master: it    *)
(* hands master indication frames to the device again and again, even if   *)
(* the first MIF timer comes before there is a channel, and whatever       *)
(* set_channel returned.                                                   *)
(***************************************************************************)
KeepsAnnouncing == at = "running" /\ wlan = "device" ~> sent.type = "mif"

=============================================================================
