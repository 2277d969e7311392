---------------------------- MODULE TimingProofs ----------------------------
(***************************************************************************)
(* What the timing of the daemon rests on: it comes up prepared, its       *)
(* timers follow the channel sequence, for every length of slots, every    *)
(* sequence and every lateness of the event loop, and the nodes of a sync  *)
(* tree keep the same position in it, for every depth of the tree, every   *)
(* width of clocks and counters and every delay of frames.                 *)
(***************************************************************************)
EXTENDS Daemon, Sync, TLAPS

-----------------------------------------------------------------------------
\* Quotient and remainder of any integer, and their uniqueness.
LEMMA Division ==
  ASSUME NEW x \in Int, NEW d \in Nat \ {0}
  PROVE  \E q \in Int, r \in 0 .. d - 1 :
           x = d * q + r /\ x % d = r /\ x \div d = q
<1>. DEFINE q == x \div d
            r == x % d
<1>1. q \in Int  OBVIOUS
<1>2. r \in 0 .. d - 1  OBVIOUS
<1>3. q = x \div d /\ r = x % d  OBVIOUS
<1>. HIDE DEF q, r
<1>4. x = d * q + r  BY <1>1, <1>2, <1>3
<1>. QED  BY <1>1, <1>2, <1>3, <1>4, Zenon

LEMMA Remainder ==
  ASSUME NEW d \in Nat \ {0}, NEW q \in Int, NEW r \in 0 .. d - 1
  PROVE  (d * q + r) % d = r /\ (d * q + r) \div d = q
OBVIOUS

\* A multiple of the modulus does not matter.
LEMMA AddMultiple ==
  ASSUME NEW d \in Nat \ {0}, NEW x \in Int, NEW k \in Int
  PROVE  (x + d * k) % d = x % d
<1>1. PICK q \in Int, r \in 0 .. d - 1 : x = d * q + r /\ x % d = r  BY Division, Zenon
<1>2. x + d * k = d * (q + k) + r  BY <1>1
<1>3. (d * (q + k) + r) % d = r  BY Remainder
<1>. QED  BY <1>1, <1>2, <1>3

\* A summand may be reduced before or after adding.
LEMMA AddReduced ==
  ASSUME NEW d \in Nat \ {0}, NEW x \in Int, NEW y \in Int
  PROVE  ((x % d) + y) % d = (x + y) % d /\ (y - (x % d)) % d = (y - x) % d
<1>1. PICK q \in Int, r \in 0 .. d - 1 : x = d * q + r /\ x % d = r  BY Division, Zenon
<1>2. -q \in Int /\ x + y \in Int /\ y - x \in Int  OBVIOUS
<1>3. (x % d) + y = (x + y) + d * (-q) /\ y - (x % d) = (y - x) + d * q
  <2>1. x = d * q + r /\ x % d = r  BY <1>1
  <2>2. d * q \in Int /\ d * (-q) = -(d * q)  OBVIOUS
  <2>3. r + y = (x + y) + d * (-q) /\ y - r = (y - x) + d * q
    <3>1. x = d * q + r  BY <2>1
    <3>. QED  BY <2>2, <3>1
  <2>. QED  BY <2>1, <2>3
<1>4. ((x + y) + d * (-q)) % d = (x + y) % d  BY <1>2, AddMultiple, Zenon
<1>5. ((y - x) + d * q) % d = (y - x) % d  BY <1>2, AddMultiple, Zenon
<1>. QED  BY <1>3, <1>4, <1>5

LEMMA DifferenceReduced ==
  ASSUME NEW d \in Nat \ {0}, NEW x \in Int, NEW y \in Int
  PROVE  ((x % d) - (y % d)) % d = (x - y) % d
<1>. DEFINE v == x % d
<1>1. v \in Int  OBVIOUS
<1>2. (v - (y % d)) % d = (v - y) % d
  <2>. HIDE DEF v
  <2>. QED  BY <1>1, AddReduced, Zenon
<1>3. -y \in Int  OBVIOUS
<1>4. ((x % d) + (-y)) % d = (x + (-y)) % d  BY <1>3, AddReduced, Zenon
<1>5. v + (-y) = v - y /\ x + (-y) = x - y
  <2>. HIDE DEF v
  <2>. QED  BY <1>1
<1>. QED  BY <1>2, <1>4, <1>5

LEMMA ReducedIsLess ==
  ASSUME NEW d \in Nat \ {0}, NEW x \in Nat
  PROVE  x % d \in 0 .. d - 1 /\ x % d <= x /\ (x < d => x % d = x)
<1>0. x \in Int  OBVIOUS
<1>1. PICK q \in Int, r \in 0 .. d - 1 : x = d * q + r /\ x % d = r  BY <1>0, Division, Zenon
<1>2. q >= 0  BY <1>1
<1>3. d * q >= 0  BY <1>2
<1>4. x < d => q = 0  BY <1>1, <1>2
<1>. QED  BY <1>1, <1>3, <1>4

-----------------------------------------------------------------------------
(***************************************************************************)
(* Start-up: what has been done when a step comes next.                    *)
(***************************************************************************)
Steps == {"main", "nlroute", "nl80211", "savefile", "ifindex", "link_down", "monitor",
          "link_up", "open", "address", "host", "host_index", "hostname",
          "running", "failed"}

HostSteps == {"host", "host_index", "hostname", "running"}

StartupInv ==
  /\ at \in Steps
  /\ at \in {"main", "nlroute"} => netlink = {}
  /\ at = "nl80211" => netlink = {"route"}
  /\ at \notin {"main", "nlroute", "nl80211", "failed"} => netlink = {"route", "nl80211"}
  /\ at \notin HostSteps \cup {"address", "failed"} => wlan = "none"
  /\ at \in {"link_up", "open", "address"} => options.no_monitor \/ monitor
  /\ at = "address" => wlan = "device"
  /\ at \notin HostSteps \cup {"failed"} => ~address
  /\ at \in HostSteps =>
       /\ wlan \in {"file", "device", "invalid"}
       /\ wlan = "device" => address /\ (options.no_monitor \/ monitor)
       /\ wlan # "device" => ~address
  /\ at \notin {"host_index", "hostname", "running", "failed"} => host = "unset"
  /\ at = "host_index" => options.host /\ host = "open"
  /\ at \in {"hostname", "running"} => (options.host <=> host = "open")

LEMMA StartupInvInit == StartupInit => StartupInv
BY DEF StartupInit, StartupInv, Steps, HostSteps

LEMMA StartupInvNext == StartupInv /\ StartupNext => StartupInv'
<1>. SUFFICES ASSUME StartupInv, StartupNext PROVE StartupInv'  OBVIOUS
<1>. USE DEF StartupInv, Steps, HostSteps, Go
<1>1. CASE Main  BY <1>1 DEF Main
<1>2. CASE NetutilsInit  BY <1>2 DEF NetutilsInit
<1>3. CASE TrySavefile  BY <1>3 DEF TrySavefile
<1>4. CASE IfIndex  BY <1>4 DEF IfIndex
<1>5. CASE LinkUpDown("link_down", "monitor", FALSE)
  <2>1. /\ at = "link_down" /\ at' \in {"monitor", "failed"}
        /\ UNCHANGED <<options, netlink, wlan, monitor, address, host>>
    BY <1>5, Zenon DEF LinkUpDown
  <2>. QED  BY <2>1
<1>6. CASE SetMonitorMode
  <2>1. /\ at = "monitor" /\ at' \in {"link_up", "failed"}
        /\ UNCHANGED <<options, netlink, wlan, address, host>>
    BY <1>6, Zenon DEF SetMonitorMode
  <2>2. at' = "link_up" => options.no_monitor \/ monitor'
    BY <1>6, <2>1, Zenon DEF SetMonitorMode
  <2>. QED  BY <2>1, <2>2
<1>7. CASE LinkUpDown("link_up", "open", TRUE)
  <2>1. /\ at = "link_up" /\ at' \in {"open", "failed"}
        /\ UNCHANGED <<options, netlink, wlan, monitor, address, host>>
    BY <1>7, Zenon DEF LinkUpDown
  <2>. QED  BY <2>1
<1>8. CASE OpenDevice  BY <1>8 DEF OpenDevice
<1>9. CASE EtherAddrGet  BY <1>9 DEF EtherAddrGet
<1>10. CASE OpenTun  BY <1>10 DEF OpenTun
<1>11. CASE InitHost  BY <1>11 DEF InitHost
<1>12. CASE GetHostname  BY <1>12 DEF GetHostname
<1>. QED  BY <1>1, <1>2, <1>3, <1>4, <1>5, <1>6, <1>7, <1>8, <1>9, <1>10, <1>11, <1>12, Zenon
          DEF StartupNext

(***************************************************************************)
(* A daemon that runs is prepared, whatever failed on the way.             *)
(***************************************************************************)
THEOREM DaemonPrepared == Spec => []RunsOnlyPrepared
<1>1. Init => StartupInv  BY StartupInvInit DEF Init
<1>2. StartupInv /\ [Next]_vars => StartupInv'
  <2>. SUFFICES ASSUME StartupInv, [Next]_vars PROVE StartupInv'  OBVIOUS
  <2>1. CASE StartupNext  BY <2>1, StartupInvNext
  <2>2. CASE UNCHANGED startupVars  BY <2>2 DEF StartupInv, startupVars
  <2>3. CASE Crash  BY <2>3 DEF Crash, StartupInv, Steps, HostSteps
  <2>. QED  BY <2>1, <2>2, <2>3 DEF Next, Running, vars
<1>3. StartupInv => RunsOnlyPrepared  BY DEF StartupInv, RunsOnlyPrepared, HostSteps
<1>. QED  BY <1>1, <1>2, <1>3, PTL DEF Spec

-----------------------------------------------------------------------------
LEMMA SlotFacts ==
  ASSUME NEW t \in Times
  PROVE  /\ NextAw(t) \in 1 .. Eaw
         /\ \E q \in 0 .. Slots - 1, r \in 0 .. Eaw - 1 :
              t = Eaw * q + r /\ SlotOf(t) = q /\ NextAw(t) = Eaw - r
<1>1. Eaw \in Nat \ {0} /\ Slots \in Nat \ {0} /\ t \in Nat /\ t < Eaw * Slots
  BY ScheduleAssumption DEF Times
<1>2. PICK q \in Int, r \in 0 .. Eaw - 1 : t = Eaw * q + r /\ t % Eaw = r /\ t \div Eaw = q
  BY <1>1, Division
<1>3. q >= 0 /\ q < Slots  BY <1>1, <1>2
<1>. QED  BY <1>1, <1>2, <1>3 DEF NextAw, SlotOf

\* The clock within the sequence, when a unit of time passes.
LEMMA TickTime ==
  ASSUME NEW t \in Times
  PROVE  LET u == (t + 1) % (Eaw * Slots)
         IN  /\ u \in Times
             /\ u = t + 1 \/ u = t + 1 - Eaw * Slots
             /\ NextAw(t) > 1 => SlotOf(u) = SlotOf(t) /\ NextAw(u) = NextAw(t) - 1
<1>. DEFINE C == Eaw * Slots
            u == (t + 1) % C
<1>1. Eaw \in Nat \ {0} /\ Slots \in Nat \ {0} /\ C \in Nat \ {0} /\ t \in Nat /\ t < C
  BY ScheduleAssumption DEF Times
<1>2. u = IF t + 1 = C THEN 0 ELSE t + 1
  <2>. HIDE DEF C
  <2>1. CASE t + 1 = C
    <3>1. t + 1 = C * 1 + 0 /\ 0 \in 0 .. C - 1  BY <1>1, <2>1
    <3>2. (C * 1 + 0) % C = 0  BY <1>1, <3>1, Remainder
    <3>. QED  BY <2>1, <3>1, <3>2
  <2>2. CASE t + 1 # C
    <3>1. t + 1 = C * 0 + (t + 1) /\ t + 1 \in 0 .. C - 1  BY <1>1, <2>2
    <3>2. C \in Nat \ {0} /\ 0 \in Int  BY <1>1
    <3>3. (C * 0 + (t + 1)) % C = t + 1  BY <3>1, <3>2, Remainder, Zenon
    <3>. QED  BY <2>2, <3>1, <3>3
  <2>. QED  BY <2>1, <2>2
<1>3. u \in Times  BY <1>1, <1>2 DEF Times
<1>4. ASSUME NextAw(t) > 1
      PROVE  SlotOf(u) = SlotOf(t) /\ NextAw(u) = NextAw(t) - 1
  <2>1. PICK q \in 0 .. Slots - 1, r \in 0 .. Eaw - 1 :
               t = Eaw * q + r /\ SlotOf(t) = q /\ NextAw(t) = Eaw - r
    BY SlotFacts
  <2>2. r + 1 \in 0 .. Eaw - 1  BY <1>1, <1>4, <2>1
  <2>3. t + 1 = Eaw * q + (r + 1)  BY <1>1, <2>1
  <2>4. t + 1 # C
    <3>1. Eaw * q + Eaw <= Eaw * Slots  BY <1>1
    <3>. QED  BY <1>1, <2>2, <2>3, <3>1
  <2>5. u % Eaw = r + 1 /\ u \div Eaw = q
    <3>0. q \in Int  BY <1>1
    <3>1. (Eaw * q + (r + 1)) % Eaw = r + 1 /\ (Eaw * q + (r + 1)) \div Eaw = q
      BY <1>1, <2>2, <3>0, Remainder, Zenon
    <3>2. u = Eaw * q + (r + 1)  BY <1>2, <2>3, <2>4
    <3>. HIDE DEF u
    <3>. QED  BY <3>1, <3>2
  <2>. QED  BY <1>1, <2>1, <2>5 DEF SlotOf, NextAw
<1>5. u = t + 1 \/ u = t + 1 - Eaw * Slots  BY <1>1, <1>2
<1>. QED  BY <1>3, <1>4, <1>5

(***************************************************************************)
(* The running daemon.  How far away a timer is on the clock of its        *)
(* callback.  A timer that was set on the present clock aims, up to an     *)
(* iteration early, at a boundary of that clock: the channel timer at the  *)
(* end of a slot, which is the slot whose channel was taken as long as the *)
(* timer is not due; the MIF timer at the middle of a slot.  A timer from  *)
(* before a jump runs for a slot at most.                                  *)
(***************************************************************************)
Left(timer) == timer - behind

ScheduleType ==
  /\ time \in Times /\ sequence \in ChanSequences
  /\ behind \in 0 .. Busy
  /\ chanTimer \in -Busy .. Eaw
  /\ mifTimer \in Int /\ mifTimer >= -Busy
  /\ unsettled \in Nat

ChanAims ==
  /\ "chan" \in aimed => \E k \in 0 .. Busy : (time + (Left(chanTimer) + k)) % Eaw = 0
  /\ "chan" \in aimed /\ Left(chanTimer) > 0 =>
       /\ Left(chanTimer) <= NextAw(time)
       /\ sequence[SlotOf(time)] # 0 => current = sequence[SlotOf(time)]

ChanSettles ==
  /\ "chan" \in aimed => unsettled = 0
  /\ "chan" \notin aimed => unsettled <= Eaw - Left(chanTimer)

MifAims ==
  "mif" \in aimed => \E k \in 0 .. Busy : (time + (Left(mifTimer) + k)) % Eaw = Eaw \div 2

ScheduleInv == ScheduleType /\ ChanAims /\ ChanSettles /\ MifAims /\ MifInMiddle

LEMMA ScheduleInvInit == ScheduleInit => ScheduleInv
<1>. SUFFICES ASSUME ScheduleInit PROVE ScheduleInv  OBVIOUS
<1>1. Eaw \in Nat /\ Eaw > 0 /\ Slots \in Nat /\ Slots > 0 /\ Eaw * Slots > 0 /\ Busy \in Nat
  BY ScheduleAssumption
<1>2. 0 \in Times  BY <1>1 DEF Times
<1>3. ScheduleType  BY <1>1, <1>2 DEF ScheduleInit, ScheduleType
<1>4. ChanAims /\ MifAims /\ MifInMiddle
  BY DEF ScheduleInit, NoneSent, ChanAims, MifAims, MifInMiddle
<1>5. ChanSettles  BY <1>1 DEF ScheduleInit, ChanSettles, Left
<1>. QED  BY <1>3, <1>4, <1>5 DEF ScheduleInv

\* awdl_switch_channel takes the channel of the slot and aims at its end.
LEMMA SwitchChannelInv ==
  ASSUME ScheduleInv, NEW isFile \in BOOLEAN, SwitchChannel(isFile)
  PROVE  ScheduleInv'
<1>1. Eaw \in Nat \ {0} /\ Busy \in Nat  BY ScheduleAssumption
<1>2. PICK q \in 0 .. Slots - 1, r \in 0 .. Eaw - 1 :
             time = Eaw * q + r /\ NextAw(time) = Eaw - r
  BY SlotFacts DEF ScheduleInv, ScheduleType
<1>3. /\ chanTimer' = NextAw(time) /\ unsettled' = 0 /\ sent' = NoneSent
      /\ aimed' = aimed \cup {"chan"} /\ time' = time /\ sequence' = sequence
      /\ mifTimer' = mifTimer /\ behind' = behind
  BY DEF SwitchChannel, RearmChan
<1>4. behind \in 0 .. Busy  BY DEF ScheduleInv, ScheduleType
<1>5. NextAw(time) \in 1 .. Eaw  BY <1>1, <1>2
<1>6. ScheduleType'  BY <1>1, <1>3, <1>5 DEF ScheduleInv, ScheduleType
<1>7. sequence[SlotOf(time)] # 0 => current' = sequence[SlotOf(time)]
  BY DEF SwitchChannel
<1>8. (time + ((NextAw(time) - behind) + behind)) % Eaw = 0
  <2>1. q \in Int /\ q + 1 \in Int /\ 0 \in 0 .. Eaw - 1  BY <1>1, ScheduleAssumption
  <2>2. time + ((NextAw(time) - behind) + behind) = Eaw * (q + 1) + 0
    BY <1>1, <1>2, <1>4, <2>1
  <2>3. (Eaw * (q + 1) + 0) % Eaw = 0  BY <1>1, <2>1, Remainder, Zenon
  <2>. QED  BY <2>2, <2>3
<1>9. NextAw(time) - behind <= NextAw(time)  BY <1>1, <1>4, <1>5
<1>10. ChanAims'
  <2>1. Left(chanTimer)' = NextAw(time) - behind  BY <1>3 DEF Left
  <2>2. NextAw(time)' = NextAw(time) /\ SlotOf(time)' = SlotOf(time)  BY <1>3, Zenon
  <2>. QED  BY <1>3, <1>4, <1>7, <1>8, <1>9, <2>1, <2>2, Zenon DEF ChanAims
<1>11. ChanSettles'  BY <1>3 DEF ChanSettles
<1>12. MifAims' /\ MifInMiddle'
  BY <1>3 DEF ScheduleInv, MifAims, MifInMiddle, NoneSent, Left
<1>. QED  BY <1>6, <1>10, <1>11, <1>12 DEF ScheduleInv

\* awdl_send_mif aims at the middle of the next slot from wherever it is.
LEMMA SendMifInv ==
  ASSUME ScheduleInv, SendMif
  PROVE  ScheduleInv'
<1>1. Eaw \in Nat \ {0} /\ Busy \in Nat /\ Eaw \div 2 \in 0 .. Eaw - 1
  <2>1. Eaw \in Nat \ {0} /\ Busy \in Nat  BY ScheduleAssumption
  <2>. QED  BY <2>1
<1>2. PICK q \in 0 .. Slots - 1, r \in 0 .. Eaw - 1 :
             time = Eaw * q + r /\ NextAw(time) = Eaw - r
  BY SlotFacts DEF ScheduleInv, ScheduleType
<1>3. /\ mifTimer <= 0 /\ mifTimer' = NextAw(time) + Eaw \div 2
      /\ aimed' = aimed \cup {"mif"} /\ time' = time /\ sequence' = sequence
      /\ chanTimer' = chanTimer /\ unsettled' = unsettled /\ current' = current
      /\ behind' = behind
  BY DEF SendMif, RearmMif
<1>4. ScheduleType'
  BY <1>1, <1>2, <1>3 DEF ScheduleInv, ScheduleType
<1>5. ChanAims' /\ ChanSettles'
  BY <1>3 DEF ScheduleInv, ChanAims, ChanSettles, NextAw, SlotOf, Left
<1>0. behind \in 0 .. Busy  BY DEF ScheduleInv, ScheduleType
<1>6. MifAims'
  <2>. DEFINE half == Eaw \div 2
              k == q + 1
  <2>1. half \in 0 .. Eaw - 1 /\ k \in Int /\ k = q + 1 /\ q \in Int
    BY <1>1, ScheduleAssumption
  <2>2. Left(mifTimer)' = (NextAw(time) + half) - behind  BY <1>3, Zenon DEF Left
  <2>. HIDE DEF half, k
  <2>3. time + (((NextAw(time) + half) - behind) + behind) = Eaw * k + half
    BY <1>1, <1>2, <1>0, <2>1
  <2>4. (Eaw * k + half) % Eaw = half  BY <1>1, <2>1, Remainder, Zenon
  <2>5. \E j \in 0 .. Busy : (time' + (Left(mifTimer)' + j)) % Eaw = half
    BY <1>0, <1>3, <2>2, <2>3, <2>4
  <2>. QED  BY <2>5 DEF MifAims, half
<1>7. MifInMiddle'
  <2>. SUFFICES ASSUME sent'.type = "mif" /\ sent'.aimed
                PROVE  \E d \in -Busy .. 2 * Busy : (time - d) % Eaw = Eaw \div 2
    BY <1>3 DEF MifInMiddle
  <2>1. "mif" \in aimed  BY Zenon DEF SendMif, NoneSent
  <2>2. PICK k \in 0 .. Busy : (time + (Left(mifTimer) + k)) % Eaw = Eaw \div 2
    BY <2>1, Zenon DEF ScheduleInv, MifAims
  <2>3. time \in Int /\ mifTimer \in Int /\ mifTimer >= -Busy
    BY <1>1 DEF ScheduleInv, ScheduleType, Times
  <2>. DEFINE d == behind - mifTimer - k
  <2>4. d \in -Busy .. 2 * Busy /\ time - d = time + ((mifTimer - behind) + k)
    BY <1>0, <1>1, <1>3, <2>3
  <2>5. (time - d) % Eaw = Eaw \div 2  BY <2>2, <2>4 DEF Left
  <2>. HIDE DEF d
  <2>. QED  BY <2>4, <2>5, Zenon
<1>. QED  BY <1>4, <1>5, <1>6, <1>7 DEF ScheduleInv

LEMMA SendPsfInv ==
  ASSUME ScheduleInv, SendPsf
  PROVE  ScheduleInv'
<1>1. /\ sent'.type = "psf" /\ aimed' = aimed /\ time' = time /\ sequence' = sequence
      /\ chanTimer' = chanTimer /\ mifTimer' = mifTimer /\ unsettled' = unsettled
      /\ current' = current /\ behind' = behind
  BY DEF SendPsf
<1>. QED  BY <1>1 DEF ScheduleInv, ScheduleType, ChanAims, ChanSettles, MifAims, MifInMiddle,
                      NextAw, SlotOf, Left

\* A jump leaves no timer that is set on the clock; the channel timer runs
\* for one slot at most.
LEMMA JumpInv ==
  ASSUME ScheduleInv, NEW t \in JumpTargets, Jump(t)
  PROVE  ScheduleInv'
<1>1. Eaw \in Nat /\ Busy \in Nat /\ t \in Times  BY ScheduleAssumption
<1>2. /\ sent' = NoneSent /\ aimed' = {} /\ time' = t /\ sequence' = sequence
      /\ chanTimer' = chanTimer /\ mifTimer' = mifTimer /\ unsettled' = 0
      /\ behind' = behind
  BY DEF Jump
<1>3. ScheduleType'  BY <1>1, <1>2 DEF ScheduleInv, ScheduleType
<1>4. ChanAims' /\ MifAims' /\ MifInMiddle'
  BY <1>2 DEF ChanAims, MifAims, MifInMiddle, NoneSent
<1>5. ChanSettles'
  BY <1>1, <1>2 DEF ScheduleInv, ScheduleType, ChanSettles, Left
<1>. QED  BY <1>3, <1>4, <1>5 DEF ScheduleInv

\* A unit of time passes, and every timer is nearer by it.
LEMMA StillAims ==
  ASSUME NEW t \in Int, NEW u \in Int, NEW x \in Int,
         u = t + 1 \/ u = t + 1 - Eaw * Slots
  PROVE  (u + (x - 1)) % Eaw = (t + x) % Eaw
<1>0. Eaw \in Nat \ {0} /\ Slots \in Nat  BY ScheduleAssumption
<1>1. CASE u = t + 1
  <2>1. u + (x - 1) = t + x  BY <1>1
  <2>. QED  BY <2>1
<1>2. CASE u = t + 1 - Eaw * Slots
  <2>1. -Slots \in Int /\ t + x \in Int  BY <1>0
  <2>2. u + (x - 1) = (t + x) + Eaw * (-Slots)  BY <1>0, <1>2
  <2>3. ((t + x) + Eaw * (-Slots)) % Eaw = (t + x) % Eaw
    BY <1>0, <2>1, AddMultiple, Zenon
  <2>. QED  BY <2>2, <2>3
<1>. QED  BY <1>1, <1>2

LEMMA TimePassesInv ==
  ASSUME ScheduleInv, TimePasses, ScheduleType',
         Left(chanTimer)' = Left(chanTimer) - 1, Left(mifTimer)' = Left(mifTimer) - 1
  PROVE  ScheduleInv'
<1>1. Eaw \in Nat \ {0} /\ Busy \in Nat /\ Slots \in Nat  BY ScheduleAssumption
<1>2. /\ time' = (time + 1) % (Eaw * Slots)
      /\ unsettled' = IF "chan" \in aimed THEN 0 ELSE unsettled + 1
      /\ sent' = NoneSent /\ sequence' = sequence /\ current' = current /\ aimed' = aimed
  BY DEF TimePasses
<1>3. /\ time' \in Times
      /\ time' = time + 1 \/ time' = time + 1 - Eaw * Slots
      /\ NextAw(time) > 1 => SlotOf(time') = SlotOf(time) /\ NextAw(time') = NextAw(time) - 1
  BY <1>2, TickTime DEF ScheduleInv, ScheduleType
<1>. DEFINE c == Left(chanTimer)
            m == Left(mifTimer)
            c2 == Left(chanTimer)'
            m2 == Left(mifTimer)'
<1>4. /\ time \in Int /\ time' \in Int /\ time \in Times /\ unsettled \in Nat
      /\ c \in Int /\ m \in Int /\ c2 = c - 1 /\ m2 = m - 1
  <2>1. time \in Times /\ unsettled \in Nat  BY DEF ScheduleInv, ScheduleType
  <2>2. time \in Int /\ time' \in Int  BY <1>1, <1>3, <2>1 DEF Times
  <2>3. c \in Int /\ m \in Int  BY <1>1 DEF ScheduleInv, ScheduleType, Left
  <2>. QED  BY <2>1, <2>2, <2>3, Zenon
<1>. HIDE DEF c, m, c2, m2
<1>5. ChanAims'
  <2>1. ASSUME "chan" \in aimed PROVE \E k \in 0 .. Busy : (time' + (c2 + k)) % Eaw = 0
    <3>1. PICK k \in 0 .. Busy : (time + (c + k)) % Eaw = 0
      BY <2>1, Zenon DEF ScheduleInv, ChanAims, c
    <3>2. c + k \in Int /\ c2 + k = (c + k) - 1  BY <1>1, <1>4
    <3>3. (time' + ((c + k) - 1)) % Eaw = (time + (c + k)) % Eaw
      BY <1>3, <1>4, <3>2, StillAims, ZenonT(40)
    <3>. QED  BY <3>1, <3>2, <3>3, Zenon
  <2>2. ASSUME "chan" \in aimed, c2 > 0
        PROVE  /\ c2 <= NextAw(time')
               /\ sequence[SlotOf(time')] # 0 => current = sequence[SlotOf(time')]
    <3>1. c > 0 /\ c > 1  BY <1>4, <2>2
    <3>2. /\ c <= NextAw(time)
          /\ sequence[SlotOf(time)] # 0 => current = sequence[SlotOf(time)]
      BY <2>2, <3>1, Zenon DEF ScheduleInv, ChanAims, c
    <3>3. NextAw(time) \in Int
      <4>1. NextAw(time) \in 1 .. Eaw  BY <1>4, SlotFacts, Zenon
      <4>. QED  BY <1>1, <4>1
    <3>4. NextAw(time) > 1  BY <1>4, <3>1, <3>2, <3>3
    <3>5. SlotOf(time') = SlotOf(time) /\ NextAw(time') = NextAw(time) - 1
      BY <1>3, <3>4
    <3>6. c2 <= NextAw(time')  BY <1>4, <3>2, <3>3, <3>5
    <3>. QED  BY <3>2, <3>5, <3>6, Zenon
  <2>. QED  BY <1>2, <2>1, <2>2, Zenon DEF ChanAims, c2
<1>6. ChanSettles'
  <2>1. "chan" \in aimed => unsettled' = 0  BY <1>2
  <2>2. "chan" \notin aimed => unsettled' <= Eaw - c2
    <3>1. "chan" \notin aimed => unsettled <= Eaw - c
      BY Zenon DEF ScheduleInv, ChanSettles, c
    <3>. QED  BY <1>1, <1>2, <1>4, <3>1
  <2>. QED  BY <1>2, <2>1, <2>2, Zenon DEF ChanSettles, c2
<1>7. MifAims'
  <2>. SUFFICES ASSUME "mif" \in aimed
                PROVE  \E k \in 0 .. Busy : (time' + (m2 + k)) % Eaw = Eaw \div 2
    BY <1>2, Zenon DEF MifAims, m2
  <2>1. PICK k \in 0 .. Busy : (time + (m + k)) % Eaw = Eaw \div 2
    BY Zenon DEF ScheduleInv, MifAims, m
  <2>2. m + k \in Int /\ m2 + k = (m + k) - 1  BY <1>1, <1>4
  <2>3. (time' + ((m + k) - 1)) % Eaw = (time + (m + k)) % Eaw
    BY <1>3, <1>4, <2>2, StillAims, ZenonT(40)
  <2>. QED  BY <2>1, <2>2, <2>3, Zenon
<1>8. MifInMiddle'  BY <1>2 DEF MifInMiddle, NoneSent
<1>. QED  BY <1>5, <1>6, <1>7, <1>8, Zenon DEF ScheduleInv

LEMMA WaitInv ==
  ASSUME ScheduleInv, Wait
  PROVE  ScheduleInv'
<1>1. Eaw \in Nat \ {0} /\ Busy \in Nat  BY ScheduleAssumption
<1>2. /\ chanTimer > 0 /\ mifTimer > 0 /\ behind' = behind
      /\ chanTimer' = chanTimer - 1 /\ mifTimer' = mifTimer - 1
  BY DEF Wait, TimersGo
<1>3. ScheduleType'
  <2>1. time' \in Times  BY TickTime DEF Wait, TimePasses, ScheduleInv, ScheduleType
  <2>2. sequence' \in ChanSequences /\ unsettled' \in Nat
    BY DEF Wait, TimePasses, ScheduleInv, ScheduleType
  <2>. QED  BY <1>1, <1>2, <2>1, <2>2 DEF ScheduleInv, ScheduleType
<1>4. Left(chanTimer)' = Left(chanTimer) - 1 /\ Left(mifTimer)' = Left(mifTimer) - 1
  BY <1>1, <1>2 DEF ScheduleInv, ScheduleType, Left
<1>5. TimePasses  BY DEF Wait
<1>. QED  BY <1>3, <1>4, <1>5, TimePassesInv, Zenon

LEMMA WorkInv ==
  ASSUME ScheduleInv, Work
  PROVE  ScheduleInv'
<1>1. Eaw \in Nat \ {0} /\ Busy \in Nat  BY ScheduleAssumption
<1>2. /\ behind < Busy /\ behind' = behind + 1
      /\ chanTimer' = chanTimer /\ mifTimer' = mifTimer
  BY DEF Work
<1>3. ScheduleType'
  <2>1. time' \in Times  BY TickTime DEF Work, TimePasses, ScheduleInv, ScheduleType
  <2>2. sequence' \in ChanSequences /\ unsettled' \in Nat
    BY DEF Work, TimePasses, ScheduleInv, ScheduleType
  <2>. QED  BY <1>1, <1>2, <2>1, <2>2 DEF ScheduleInv, ScheduleType
<1>4. Left(chanTimer)' = Left(chanTimer) - 1 /\ Left(mifTimer)' = Left(mifTimer) - 1
  BY <1>1, <1>2 DEF ScheduleInv, ScheduleType, Left
<1>5. TimePasses  BY DEF Work
<1>. QED  BY <1>3, <1>4, <1>5, TimePassesInv, Zenon

\* When the event loop looks at the clock no timer is nearer or further.
LEMMA IterateInv ==
  ASSUME ScheduleInv, Iterate
  PROVE  ScheduleInv'
<1>1. Eaw \in Nat \ {0} /\ Busy \in Nat  BY ScheduleAssumption
<1>2. /\ behind' = 0 /\ chanTimer > 0 /\ mifTimer > 0
      /\ chanTimer' = chanTimer - behind /\ mifTimer' = mifTimer - behind
      /\ sent' = NoneSent /\ time' = time /\ sequence' = sequence /\ current' = current
      /\ aimed' = aimed /\ unsettled' = unsettled
  BY DEF Iterate, TimersGo
<1>3. ScheduleType'  BY <1>1, <1>2 DEF ScheduleInv, ScheduleType
<1>4. Left(chanTimer)' = Left(chanTimer) /\ Left(mifTimer)' = Left(mifTimer)
  BY <1>1, <1>2 DEF ScheduleInv, ScheduleType, Left
<1>5. ChanAims' /\ ChanSettles' /\ MifAims'
  BY <1>2, <1>4, Zenon DEF ScheduleInv, ChanAims, ChanSettles, MifAims, NextAw, SlotOf
<1>6. MifInMiddle'  BY <1>2 DEF MifInMiddle, NoneSent
<1>. QED  BY <1>3, <1>5, <1>6, Zenon DEF ScheduleInv

LEMMA ScheduleInvNext == ScheduleInv /\ [Next]_vars => ScheduleInv'
<1>. SUFFICES ASSUME ScheduleInv, [Next]_vars PROVE ScheduleInv'  OBVIOUS
<1>1. CASE UNCHANGED scheduleVars
  BY <1>1 DEF scheduleVars, ScheduleInv, ScheduleType, ChanAims, ChanSettles, MifAims,
              MifInMiddle, NextAw, SlotOf, Left
<1>2. CASE ScheduleNext(wlan = "file")
  <2>1. (wlan = "file") \in BOOLEAN  OBVIOUS
  <2>. QED  BY <1>2, <2>1, SwitchChannelInv, SendMifInv, SendPsfInv, JumpInv, WaitInv, WorkInv,
               IterateInv, Zenon
            DEF ScheduleNext
<1>. QED  BY <1>1, <1>2 DEF Next, Running, Crash, vars

LEMMA ScheduleInvariant == Spec => []ScheduleInv
<1>1. Init => ScheduleInv  BY ScheduleInvInit DEF Init
<1>. QED  BY <1>1, ScheduleInvNext, PTL DEF Spec

(***************************************************************************)
(* The current channel is that of the slot, although callbacks may be      *)
(* early or late and jumps leave timers behind; after a jump this is so    *)
(* again within a slot and two iterations of the event loop.               *)
(***************************************************************************)
THEOREM ChannelFollowsSequence == Spec => []ChannelFollows
<1>1. ScheduleInv => ChannelFollows
  <2>. SUFFICES ASSUME ScheduleInv PROVE ChannelFollows  OBVIOUS
  <2>1. Eaw \in Nat /\ Busy \in Nat  BY ScheduleAssumption
  <2>2. chanTimer \in -Busy .. Eaw /\ behind \in 0 .. Busy  BY DEF ScheduleInv, ScheduleType
  <2>3. unsettled <= Eaw + 2 * Busy
    <3>1. unsettled = 0 \/ unsettled <= Eaw - (chanTimer - behind)
      BY Zenon DEF ScheduleInv, ChanSettles, Left
    <3>2. unsettled \in Nat  BY DEF ScheduleInv, ScheduleType
    <3>. QED  BY <2>1, <2>2, <3>1, <3>2
  <2>4. chanTimer > behind => Left(chanTimer) > 0  BY <2>1, <2>2 DEF Left
  <2>. QED  BY <2>3, <2>4, Zenon DEF ScheduleInv, ChanAims, ChannelFollows
<1>. QED  BY <1>1, ScheduleInvariant, PTL

(***************************************************************************)
(* Master indication frames go out in the middle of a slot, up to what the *)
(* event loop is early or late, which does not add up.                     *)
(***************************************************************************)
THEOREM MifStaysInMiddle == Spec => []MifInMiddle
<1>1. ScheduleInv => MifInMiddle  BY DEF ScheduleInv
<1>. QED  BY <1>1, ScheduleInvariant, PTL

(***************************************************************************)
(* How far away the timers are.  awdl_send_mif adds half a slot to the     *)
(* rest of the present one, libev repeats the PSF timer.                   *)
(***************************************************************************)
TimersDue ==
  /\ chanTimer \in -Busy .. Eaw
  /\ mifTimer \in -Busy .. Eaw + Eaw \div 2
  /\ psfTimer \in -Busy .. PsfInterval
  /\ "mif" \in aimed => Left(mifTimer) <= NextAw(time) + Eaw \div 2

(***************************************************************************)
(* No timer gets away: the next MIF is due at the latest in the middle of  *)
(* the next slot when its timer is set on the present clock, so that no    *)
(* slot goes without one, and within one and a half slots when a jump has  *)
(* left the timer behind; PSFs are due within their interval, although     *)
(* their timer repeats from when it was due; when the event loop looks at  *)
(* the clock nothing is overdue for longer than an iteration.              *)
(***************************************************************************)
THEOREM TimersComeDue == Spec => []TimersDue
<1>0. /\ Eaw \in Nat \ {0} /\ Busy \in Nat /\ PsfInterval \in Nat \ {0} /\ Eaw \div 2 \in Nat
      /\ -Busy \in Int
  <2>1. Eaw \in Nat \ {0} /\ Busy \in Nat /\ PsfInterval \in Nat \ {0}  BY ScheduleAssumption
  <2>. QED  BY <2>1
<1>. DEFINE half == Eaw \div 2
<1>1. Init => TimersDue
  <2>. SUFFICES ASSUME Init PROVE TimersDue  OBVIOUS
  <2>1. chanTimer = 0 /\ mifTimer = 0 /\ psfTimer = PsfInterval /\ aimed = {}
    BY DEF Init, ScheduleInit
  <2>2. "mif" \notin aimed  BY <2>1
  <2>3. 0 \in -Busy .. Eaw /\ 0 \in -Busy .. Eaw + half /\ PsfInterval \in -Busy .. PsfInterval
    <3>. HIDE DEF half
    <3>1. half \in Nat  BY <1>0 DEF half
    <3>. QED  BY <1>0, <3>1
  <2>. QED  BY <2>1, <2>2, <2>3, Zenon DEF TimersDue
<1>2. ASSUME ScheduleInv, ScheduleInv', TimersDue, [Next]_vars PROVE TimersDue'
  <2>1. /\ chanTimer' \in -Busy .. Eaw /\ time \in Times /\ behind \in 0 .. Busy
        /\ NextAw(time) \in 1 .. Eaw
    BY <1>2, SlotFacts, Zenon DEF ScheduleInv, ScheduleType
  <2>2. half \in Nat /\ Eaw \in Nat  BY <1>0
  <2>3. /\ mifTimer \in -Busy .. Eaw + half /\ psfTimer \in -Busy .. PsfInterval
        /\ "mif" \in aimed => Left(mifTimer) <= NextAw(time) + half
    BY <1>2, Zenon DEF TimersDue
  <2>. HIDE DEF half
  <2>4. ASSUME mifTimer' = mifTimer, psfTimer' \in -Busy .. PsfInterval, time' = time,
               behind' = behind, "mif" \in aimed' => "mif" \in aimed
        PROVE  TimersDue'
    <3>1. NextAw(time') = NextAw(time)  BY <2>4, Zenon
    <3>2. Left(mifTimer)' = Left(mifTimer)  BY <2>4 DEF Left
    <3>. QED  BY <2>1, <2>3, <2>4, <3>1, <3>2, Zenon DEF TimersDue, half
  <2>5. CASE UNCHANGED scheduleVars  BY <2>3, <2>4, <2>5 DEF scheduleVars
  <2>6. ASSUME NEW isFile, SwitchChannel(isFile) PROVE TimersDue'
    <3>1. mifTimer' = mifTimer /\ psfTimer' = psfTimer /\ time' = time /\ behind' = behind
          /\ aimed' = aimed \cup {"chan"}
      BY <2>6 DEF SwitchChannel
    <3>2. "mif" \in aimed' => "mif" \in aimed  BY <3>1
    <3>3. psfTimer' \in -Busy .. PsfInterval  BY <2>3, <3>1
    <3>. QED  BY <2>4, <3>1, <3>2, <3>3, Zenon
  <2>7. CASE SendMif
    <3>1. mifTimer' = NextAw(time) + half /\ psfTimer' = psfTimer /\ time' = time
          /\ behind' = behind
      BY <2>7 DEF SendMif, RearmMif, half
    <3>. DEFINE a == NextAw(time)
    <3>2. a \in 1 .. Eaw /\ NextAw(time') = a  BY <2>1, <3>1, Zenon
    <3>3. Left(mifTimer)' = (a + half) - behind  BY <3>1, Zenon DEF Left
    <3>. HIDE DEF a
    <3>4. a + half \in -Busy .. Eaw + half /\ (a + half) - behind <= a + half
      BY <1>0, <2>1, <2>2, <3>2
    <3>. QED  BY <2>1, <2>3, <3>1, <3>2, <3>3, <3>4, Zenon DEF TimersDue, half, a
  <2>8. CASE SendPsf
    <3>1. /\ mifTimer' = mifTimer /\ time' = time /\ aimed' = aimed /\ psfTimer <= 0
          /\ behind' = behind
          /\ psfTimer' = IF psfTimer + PsfInterval < 0 THEN 0 ELSE psfTimer + PsfInterval
      BY <2>8 DEF SendPsf
    <3>2. psfTimer' \in -Busy .. PsfInterval  BY <1>0, <2>3, <3>1
    <3>. QED  BY <2>4, <3>1, <3>2, Zenon
  <2>9. ASSUME TimePasses, Left(mifTimer)' = Left(mifTimer) - 1,
               mifTimer' \in -Busy .. Eaw + half, psfTimer' \in -Busy .. PsfInterval
        PROVE  TimersDue'
    <3>1. aimed' = aimed /\ time' = (time + 1) % (Eaw * Slots)  BY <2>9 DEF TimePasses
    <3>. DEFINE a == NextAw(time)
                b == NextAw(time')
                m == Left(mifTimer)
    <3>2. b \in 1 .. Eaw
      BY <1>2, SlotFacts, Zenon DEF ScheduleInv, ScheduleType
    <3>3. a > 1 => b = a - 1  BY <2>1, <3>1, TickTime, Zenon
    <3>4. a \in 1 .. Eaw /\ ("mif" \in aimed => m <= a + half)  BY <2>1, <2>3, Zenon
    <3>5. m \in Int  BY <1>0, <2>1, <2>2, <2>3 DEF Left
    <3>6. Left(mifTimer)' = m - 1  BY <2>9
    <3>. HIDE DEF a, b, m
    <3>7. m <= a + half => m - 1 <= b + half
      <4>1. b >= a - 1  BY <1>0, <3>2, <3>3, <3>4
      <4>2. a \in Int /\ b \in Int  BY <3>2, <3>4
      <4>. QED  BY <2>2, <3>5, <4>1, <4>2
    <3>. QED  BY <2>1, <2>9, <3>1, <3>4, <3>6, <3>7, Zenon DEF TimersDue, half, b
  <2>10. CASE Wait
    <3>1. /\ mifTimer > 0 /\ psfTimer > 0 /\ behind' = behind
          /\ mifTimer' = mifTimer - 1 /\ psfTimer' = psfTimer - 1
      BY <2>10 DEF Wait, TimersGo
    <3>2. mifTimer' \in -Busy .. Eaw + half /\ psfTimer' \in -Busy .. PsfInterval
      BY <1>0, <2>2, <2>3, <3>1
    <3>3. Left(mifTimer)' = Left(mifTimer) - 1  BY <1>0, <2>1, <2>2, <2>3, <3>1 DEF Left
    <3>4. TimePasses  BY <2>10 DEF Wait
    <3>. QED  BY <2>9, <3>2, <3>3, <3>4, Zenon
  <2>11. CASE Work
    <3>1. mifTimer' = mifTimer /\ psfTimer' = psfTimer /\ behind' = behind + 1
      BY <2>11 DEF Work
    <3>2. mifTimer' \in -Busy .. Eaw + half /\ psfTimer' \in -Busy .. PsfInterval
      BY <2>3, <3>1
    <3>3. Left(mifTimer)' = Left(mifTimer) - 1  BY <1>0, <2>1, <2>2, <2>3, <3>1 DEF Left
    <3>4. TimePasses  BY <2>11 DEF Work
    <3>. QED  BY <2>9, <3>2, <3>3, <3>4, Zenon
  <2>12. CASE Iterate
    <3>1. /\ mifTimer > 0 /\ psfTimer > 0 /\ behind' = 0 /\ time' = time /\ aimed' = aimed
          /\ mifTimer' = mifTimer - behind /\ psfTimer' = psfTimer - behind
      BY <2>12 DEF Iterate, TimersGo
    <3>2. mifTimer' \in -Busy .. Eaw + half /\ psfTimer' \in -Busy .. PsfInterval
      BY <1>0, <2>1, <2>2, <2>3, <3>1
    <3>3. Left(mifTimer)' = Left(mifTimer)  BY <1>0, <2>1, <2>2, <2>3, <3>1 DEF Left
    <3>4. NextAw(time') = NextAw(time)  BY <3>1, Zenon
    <3>. QED  BY <2>1, <2>3, <3>1, <3>2, <3>3, <3>4, Zenon DEF TimersDue, half
  <2>13. ASSUME NEW t \in JumpTargets, Jump(t) PROVE TimersDue'
    <3>1. mifTimer' = mifTimer /\ psfTimer' = psfTimer /\ aimed' = {}  BY <2>13 DEF Jump
    <3>2. "mif" \notin aimed'  BY <3>1
    <3>. QED  BY <2>1, <2>3, <3>1, <3>2, Zenon DEF TimersDue, half
  <2>14. UNCHANGED scheduleVars \/ ScheduleNext(wlan = "file")
    BY <1>2 DEF Next, Running, Crash, vars
  <2>. QED
    BY <2>5, <2>6, <2>7, <2>8, <2>10, <2>11, <2>12, <2>13, <2>14, Zenon DEF ScheduleNext
<1>. QED  BY <1>1, <1>2, ScheduleInvariant, PTL DEF Spec

-----------------------------------------------------------------------------
(***************************************************************************)
(* The timers start after start-up has chosen the capture, with no channel *)
(* yet; until the kernel refuses a channel the radio is on the current one.*)
(***************************************************************************)
RadioInv ==
  /\ at \notin {"running", "failed"} => current = 0
  /\ wlan = "device" /\ ~refused /\ current # 0 => radio = current

LEMMA RadioInvariant == Spec => []RadioInv
<1>1. Init => RadioInv
  BY DEF Init, StartupInit, ScheduleInit, RadioInv
<1>2. RadioInv /\ [Next]_vars => RadioInv'
  <2>. SUFFICES ASSUME RadioInv, [Next]_vars PROVE RadioInv'  OBVIOUS
  <2>1. CASE StartupNext /\ UNCHANGED scheduleVars
    <3>1. at \notin {"running", "failed"}
      BY <2>1, Zenon DEF StartupNext, Go, Main, NetutilsInit, TrySavefile, IfIndex, LinkUpDown,
                         SetMonitorMode, OpenDevice, EtherAddrGet, OpenTun, InitHost,
                         GetHostname
    <3>. QED  BY <2>1, <3>1 DEF RadioInv, scheduleVars
  <2>2. CASE Running
    <3>1. at' = "running" /\ wlan' = wlan  BY <2>2 DEF Running, startupVars
    <3>2. CASE SwitchChannel(wlan = "file")
      BY <3>1, <3>2 DEF RadioInv, SwitchChannel, TryChannel
    <3>3. CASE UNCHANGED <<current, radio, refused>>
      BY <3>1, <3>3 DEF RadioInv
    <3>. QED  BY <2>2, <3>2, <3>3, Zenon
              DEF Running, ScheduleNext, SendMif, SendPsf, Wait, Work, Iterate, TimePasses, Jump
  <2>3. CASE Crash  BY <2>3 DEF Crash, scheduleVars, RadioInv
  <2>4. CASE UNCHANGED vars  BY <2>4 DEF vars, startupVars, scheduleVars, RadioInv
  <2>. QED  BY <2>1, <2>2, <2>3, <2>4 DEF Next
<1>. QED  BY <1>1, <1>2, PTL DEF Spec

(***************************************************************************)
(* The channel timer is due near a boundary and the MIF timer near a       *)
(* middle, so that with short iterations of the event loop the channel     *)
(* timer is never due when a MIF leaves: the MIF is on the channel of its  *)
(* slot, although each timer is set from where its own callback was run.   *)
(***************************************************************************)
THEOREM MifsOnTheirChannel == Spec => []MifOnSlotChannel
<1>1. ScheduleInv /\ RadioInv => MifOnSlotChannel
  <2>. DEFINE c == sequence[SlotOf(time)]
              left == Left(chanTimer)
              half == Eaw \div 2
  <2>. SUFFICES ASSUME ScheduleInv, RadioInv, sent.type = "mif" /\ sent.aimed,
                       "chan" \in aimed, 6 * Busy < Eaw, c # 0
                PROVE  current = c /\ (wlan = "device" /\ ~refused => radio = c)
    BY Zenon DEF MifOnSlotChannel
  <2>1. Eaw \in Nat \ {0} /\ Busy \in Nat /\ half \in 0 .. Eaw - 1 /\ Eaw = 2 * half
    <3>1. Eaw \in Nat \ {0} /\ Busy \in Nat /\ Eaw % 2 = 0  BY ScheduleAssumption
    <3>. QED  BY <3>1
  <2>2. time \in Int /\ chanTimer \in -Busy .. Eaw /\ behind \in 0 .. Busy
    BY <2>1 DEF ScheduleInv, ScheduleType, Times
  <2>3. left \in Int /\ left >= -(2 * Busy)  BY <2>1, <2>2 DEF Left
  <2>. HIDE DEF c, left, half
  <2>4. left > 0
    <3>. SUFFICES ASSUME left <= 0 PROVE FALSE  BY <2>3
    <3>1. PICK k \in 0 .. Busy : (time + (left + k)) % Eaw = 0
      BY Zenon DEF ScheduleInv, ChanAims, left
    <3>2. PICK d \in -Busy .. 2 * Busy : (time - d) % Eaw = half
      BY Zenon DEF ScheduleInv, MifInMiddle, half
    <3>3. /\ k \in Int /\ 0 <= k /\ k <= Busy /\ d \in Int /\ -Busy <= d /\ d <= 2 * Busy
          /\ time + (left + k) \in Int /\ time - d \in Int
      BY <2>1, <2>2, <2>3
    <3>4. PICK x \in Int, r \in 0 .. Eaw - 1 :
                 time + (left + k) = Eaw * x + r /\ (time + (left + k)) % Eaw = r
      BY <2>1, <3>3, Division, ZenonT(40)
    <3>5. PICK y \in Int, r2 \in 0 .. Eaw - 1 :
                 time - d = Eaw * y + r2 /\ (time - d) % Eaw = r2
      BY <2>1, <3>3, Division, ZenonT(40)
    <3>6. r = 0 /\ r2 = half  BY <3>1, <3>2, <3>4, <3>5
    <3>. DEFINE z == x - y
                e == left + k + d
    <3>7. z \in Int /\ e \in Int /\ e = Eaw * z - half
      <4>1. Eaw * x - Eaw * y = Eaw * (x - y)  BY <2>1
      <4>. QED  BY <2>1, <2>2, <2>3, <3>3, <3>4, <3>5, <3>6, <4>1
    <3>8. -(3 * Busy) <= e /\ e <= 3 * Busy  BY <2>1, <2>3, <3>3
    <3>. HIDE DEF z, e
    <3>9. e < half /\ e > -half  BY <2>1, <3>7, <3>8
    <3>10. CASE z >= 1
      <4>1. Eaw * z >= Eaw  BY <2>1, <3>7, <3>10
      <4>. QED  BY <2>1, <3>7, <3>9, <4>1
    <3>11. CASE z <= 0
      <4>1. Eaw * z <= 0  BY <2>1, <3>7, <3>11
      <4>. QED  BY <2>1, <3>7, <3>9, <4>1
    <3>. QED  BY <3>7, <3>10, <3>11
  <2>5. current = c  BY <2>4, Zenon DEF ScheduleInv, ChanAims, left, c
  <2>. QED  BY <2>5, Zenon DEF RadioInv
<1>. QED  BY <1>1, ScheduleInvariant, RadioInvariant, PTL

-----------------------------------------------------------------------------
(***************************************************************************)
(* Synchronisation.  EawUs is the length of an extended window, and the    *)
(* cycle of the counter has Turns of them.                                 *)
(***************************************************************************)
EawUs == EawTu * Tu

Turns == CtrMod \div Mode

LEMMA Units ==
  /\ N \in Nat \ {0} /\ Tu \in Nat \ {0} /\ Period \in Nat \ {0} /\ MaxDelay \in Nat
  /\ CtrMod \in Nat \ {0} /\ ClockMod \in Nat \ {0}
  /\ EawTu = 4 * Period /\ EawTu \in Nat \ {0}
  /\ EawUs = 4 * (Period * Tu) /\ EawUs \in Nat \ {0}
  /\ HopLag = Tu - 1 + MaxDelay /\ HopLag \in Nat
<1>1. /\ N \in Nat \ {0} /\ Tu \in Nat \ {0} /\ Period \in Nat \ {0} /\ MaxDelay \in Nat
      /\ CtrMod \in Nat \ {0} /\ ClockMod \in Nat \ {0}
  BY SyncAssumption
<1>2. EawTu = 4 * Period /\ EawTu \in Nat \ {0}  BY <1>1 DEF EawTu, Mode
<1>3. EawUs = 4 * (Period * Tu) /\ EawUs \in Nat \ {0}  BY <1>1, <1>2 DEF EawUs
<1>4. HopLag = Tu - 1 + MaxDelay /\ HopLag \in Nat  BY <1>1 DEF HopLag
<1>. QED  BY <1>1, <1>2, <1>3, <1>4

LEMMA Cycles ==
  /\ Turns \in Nat \ {0} /\ CtrMod = 4 * Turns
  /\ Cycle = EawUs * Turns /\ Cycle \in Nat \ {0} /\ EawUs <= Cycle
  /\ \E w \in Nat \ {0} : ClockMod = Cycle * w
<1>1. CtrMod % 4 = 0 /\ ClockMod % Cycle = 0  BY SyncAssumption DEF Mode
<1>2. Turns \in Nat \ {0} /\ CtrMod = 4 * Turns  BY <1>1, Units DEF Turns, Mode
<1>3. Cycle = EawUs * Turns
  <2>1. Cycle = (4 * Turns * Period) * Tu  BY <1>2 DEF Cycle
  <2>2. EawUs * Turns = (4 * (Period * Tu)) * Turns  BY Units
  <2>. QED  BY <1>2, <2>1, <2>2, Units
<1>4. Cycle \in Nat \ {0} /\ EawUs <= Cycle  BY <1>2, <1>3, Units
<1>5. PICK w \in Int, r \in 0 .. Cycle - 1 : ClockMod = Cycle * w + r /\ ClockMod % Cycle = r
  <2>1. ClockMod \in Int  BY Units
  <2>. QED  BY <1>4, <2>1, Division, Zenon
<1>6. ClockMod = Cycle * w /\ w > 0  BY <1>1, <1>4, <1>5, Units
<1>. QED  BY <1>2, <1>3, <1>4, <1>6

(***************************************************************************)
(* Where the position of a node comes from: however clocks and counters    *)
(* have wrapped, it is the time plus something that depends on what the    *)
(* node has stored only.                                                   *)
(***************************************************************************)
Base(n) == sync[n].aw_counter * (Period * Tu) + Offsets[n] - sync[n].last_update

LEMMA StoredType ==
  ASSUME TypeOK, NEW n \in Nodes
  PROVE  /\ now \in Int /\ Offsets[n] \in Int
         /\ sync[n].last_update \in 0 .. ClockMod - 1
         /\ sync[n].aw_counter \in 0 .. CtrMod - 1 /\ sync[n].aw_counter % 4 = 0
         /\ Base(n) \in Int
<1>1. now \in Int  BY Units DEF TypeOK
<1>2. Offsets[n] \in 0 .. ClockMod - 1  BY SyncAssumption
<1>3. sync[n] \in [last_update: 0 .. ClockMod - 1,
                   aw_counter: {c \in 0 .. CtrMod - 1 : c % Mode = 0}]
  BY DEF TypeOK
<1>4. /\ sync[n].last_update \in 0 .. ClockMod - 1
      /\ sync[n].aw_counter \in 0 .. CtrMod - 1 /\ sync[n].aw_counter % 4 = 0
  BY <1>3 DEF Mode
<1>5. Base(n) \in Int
  <2>1. sync[n].aw_counter \in Int /\ Period * Tu \in Int  BY <1>4, Units
  <2>2. sync[n].aw_counter * (Period * Tu) \in Int  BY <2>1
  <2>. QED  BY <1>2, <1>4, <2>2, Units DEF Base
<1>. QED  BY <1>1, <1>2, <1>4, <1>5, Units

LEMMA SinceIs ==
  ASSUME TypeOK, NEW n \in Nodes
  PROVE  /\ Since(n) = (now + Offsets[n] - sync[n].last_update) % ClockMod
         /\ Since(n) \in 0 .. ClockMod - 1
<1>. DEFINE x == now + Offsets[n]
            y == -sync[n].last_update
<1>1. x \in Int /\ y \in Int /\ ClockMod \in Nat \ {0}  BY StoredType, Units
<1>2. Since(n) = ((x % ClockMod) - sync[n].last_update) % ClockMod  BY DEF Since, Clock
<1>3. ((x % ClockMod) + y) % ClockMod = (x + y) % ClockMod
  <2>. HIDE DEF x, y
  <2>. QED  BY <1>1, AddReduced, ZenonT(40)
<1>4. (x % ClockMod) - sync[n].last_update = (x % ClockMod) + y
  <2>1. x % ClockMod \in Int  BY <1>1
  <2>. QED  BY <2>1, StoredType, Units
<1>5. x + y = now + Offsets[n] - sync[n].last_update  BY StoredType, Units
<1>6. (x + y) % ClockMod \in 0 .. ClockMod - 1
  <2>. HIDE DEF x, y
  <2>. QED  BY <1>1
<1>. QED  BY <1>2, <1>3, <1>4, <1>5, <1>6

LEMMA PositionIs ==
  ASSUME TypeOK, NEW n \in Nodes
  PROVE  Position(n) = (Base(n) + now) % Cycle /\ Position(n) \in 0 .. Cycle - 1
<1>. DEFINE a == sync[n].aw_counter * (Period * Tu)
            x == now + Offsets[n] - sync[n].last_update
<1>1. PICK w \in Nat \ {0} : ClockMod = Cycle * w  BY Cycles
<1>2. a \in Int /\ x \in Int
  <2>1. sync[n].aw_counter \in Int /\ Period * Tu \in Int  BY StoredType, Units
  <2>. QED  BY <2>1, StoredType, Units
<1>3. sync[n].aw_counter * Period * Tu = a  BY StoredType, Units
<1>4. Since(n) = x % ClockMod  BY SinceIs
<1>5. Base(n) + now = a + x  BY <1>2, StoredType, Units DEF Base
<1>. HIDE DEF a, x
<1>6. PICK q \in Int, r \in 0 .. ClockMod - 1 : x = ClockMod * q + r /\ x % ClockMod = r
  BY <1>2, Units, Division, Zenon
<1>7. a + Since(n) = (a + x) + Cycle * (-(w * q))
  BY <1>1, <1>2, <1>4, <1>6, Cycles
<1>8. ((a + x) + Cycle * (-(w * q))) % Cycle = (a + x) % Cycle
  <2>1. -(w * q) \in Int /\ a + x \in Int  BY <1>2
  <2>. QED  BY <2>1, Cycles, AddMultiple, Zenon
<1>9. Position(n) = (a + x) % Cycle  BY <1>3, <1>7, <1>8 DEF Position
<1>10. (a + x) % Cycle \in 0 .. Cycle - 1  BY <1>2, Cycles
<1>. QED  BY <1>5, <1>9, <1>10

\* Time passes for all alike.
LEMMA LagIs ==
  ASSUME TypeOK, NEW n \in Nodes
  PROVE  Lag(n) = (Base(1) - Base(n)) % Cycle /\ Lag(n) \in 0 .. Cycle - 1
<1>. DEFINE x == Base(1) + now
            y == Base(n) + now
<1>0. 1 \in Nodes  BY Units DEF Nodes
<1>1. x \in Int /\ y \in Int /\ x - y = Base(1) - Base(n)  BY <1>0, StoredType
<1>2. Position(1) = x % Cycle /\ Position(n) = y % Cycle  BY <1>0, PositionIs
<1>. HIDE DEF x, y
<1>3. ((x % Cycle) - (y % Cycle)) % Cycle = (x - y) % Cycle
  BY <1>1, Cycles, DifferenceReduced
<1>4. Lag(n) = (x - y) % Cycle  BY <1>2, <1>3 DEF Lag
<1>5. (x - y) % Cycle \in 0 .. Cycle - 1
  <2>1. x - y \in Int  BY <1>1
  <2>. QED  BY <2>1, Cycles
<1>. QED  BY <1>1, <1>4, <1>5

(***************************************************************************)
(* The readings of sync.c: the position of a node is its extended window   *)
(* and b time units and c microseconds into it.                            *)
(***************************************************************************)
LEMMA Readings ==
  ASSUME TypeOK, NEW n \in Nodes
  PROVE  \E b \in 0 .. EawTu - 1, c \in 0 .. Tu - 1 :
           /\ NextAwTu(n) = EawTu - b
           /\ NextAwUs(n) = EawUs - (Tu * b + c)
           /\ Tu * b + c \in 0 .. EawUs - 1
           /\ CurrentAw(n) \in 0 .. CtrMod - 1 /\ CurrentEaw(n) \in 0 .. Turns - 1
           /\ Position(n) = EawUs * CurrentEaw(n) + (Tu * b + c)
<1>. DEFINE s == Since(n)
            aw == sync[n].aw_counter
<1>1. s \in Int /\ s >= 0  BY SinceIs, Units
<1>2. aw \in Int /\ aw % 4 = 0  BY StoredType, Units
<1>3. PICK g \in Int : aw = 4 * g  BY <1>2
<1>. HIDE DEF s, aw
<1>4. PICK tu \in Int, c \in 0 .. Tu - 1 : s = Tu * tu + c /\ s \div Tu = tu
  BY <1>1, Units, Division
<1>5. PICK a \in Int, b \in 0 .. EawTu - 1 :
             tu = EawTu * a + b /\ tu % EawTu = b /\ tu \div EawTu = a
  BY Units, Division
<1>6. b \in Int /\ c \in Int /\ b >= 0 /\ c >= 0  BY Units
<1>7. PICK d \in Int, e \in 0 .. Period - 1 : b = Period * d + e /\ b \div Period = d
  BY <1>6, Units, Division
<1>8. d \in 0 .. 3
  <2>1. Period * d + e < Period * 4 /\ Period * d + e >= 0  BY <1>7, Units
  <2>. QED  BY <1>7, <2>1, Units
<1>9. PICK p \in Int, m \in 0 .. Turns - 1 : g + a = Turns * p + m
  <2>1. g + a \in Int /\ Turns \in Nat \ {0}  BY Cycles
  <2>. QED  BY <2>1, Division, ZenonT(30)
<1>10. CurrentAw(n) = 4 * m + d /\ CurrentAw(n) \in 0 .. CtrMod - 1 /\ CurrentEaw(n) = m
  <2>1. CurrentAw(n) = (aw + d + 4 * a) % CtrMod
    BY <1>4, <1>5, <1>7 DEF CurrentAw, SinceTu, Mode, s, aw
  <2>2. m \in Int /\ 4 * m + d \in 0 .. CtrMod - 1  BY <1>8, Cycles
  <2>3. aw + d + 4 * a = CtrMod * p + (4 * m + d)
    <3>1. aw + d + 4 * a = 4 * (g + a) + d  BY <1>3, <1>8
    <3>2. 4 * (Turns * p + m) = CtrMod * p + 4 * m  BY <2>2, Cycles
    <3>. QED  BY <1>9, <3>1, <3>2, <2>2, <1>8, Cycles
  <2>4. (CtrMod * p + (4 * m + d)) % CtrMod = 4 * m + d
    <3>1. CtrMod \in Nat \ {0}  BY Units
    <3>. QED  BY <2>2, <3>1, Remainder, ZenonT(30)
  <2>5. CurrentAw(n) = 4 * m + d  BY <2>1, <2>3, <2>4
  <2>6. (4 * m + d) \div 4 = m  BY <1>8, <2>2
  <2>. QED  BY <2>2, <2>5, <2>6 DEF CurrentEaw, Mode
<1>11. Tu * b + c \in 0 .. EawUs - 1
  <2>1. Tu * b + Tu <= Tu * EawTu  BY <1>6, Units
  <2>2. Tu * b >= 0 /\ Tu * b \in Int  BY <1>6, Units
  <2>3. EawUs = Tu * EawTu  BY Units DEF EawUs
  <2>. QED  BY <1>6, <2>1, <2>2, <2>3, Units
<1>12. s = EawUs * a + (Tu * b + c)
  <2>1. Tu * (EawTu * a + b) = (EawTu * Tu) * a + Tu * b  BY <1>6, Units
  <2>2. Tu * b \in Int /\ (EawTu * Tu) * a \in Int  BY <1>6, Units
  <2>. QED  BY <1>4, <1>5, <1>6, <2>1, <2>2 DEF EawUs
<1>13. NextAwUs(n) = EawUs - (Tu * b + c)
  <2>1. (EawUs * a + (Tu * b + c)) % EawUs = Tu * b + c
    <3>1. EawUs \in Nat \ {0}  BY Units
    <3>. QED  BY <1>11, <3>1, Remainder, ZenonT(40)
  <2>. QED  BY <1>12, <2>1 DEF NextAwUs, s, EawUs
<1>14. NextAwTu(n) = EawTu - b
  BY <1>4, <1>5 DEF NextAwTu, SinceTu, s
<1>15. Position(n) = EawUs * m + (Tu * b + c)
  <2>. DEFINE rest == Tu * b + c
  <2>1. rest \in 0 .. EawUs - 1 /\ m \in Int /\ rest \in Int  BY <1>11, Cycles, Units
  <2>2. s = EawUs * a + rest  BY <1>12
  <2>. HIDE DEF rest
  <2>3. aw * Period * Tu = EawUs * g  BY <1>3, Units
  <2>4. aw * Period * Tu + s = Cycle * p + (EawUs * m + rest)
    <3>1. aw * Period * Tu + s = EawUs * (g + a) + rest
      <4>1. EawUs * g + (EawUs * a + rest) = EawUs * (g + a) + rest  BY <2>1, Units
      <4>. QED  BY <2>2, <2>3, <4>1
    <3>2. EawUs * (Turns * p + m) = (EawUs * Turns) * p + EawUs * m  BY <2>1, Units, Cycles
    <3>3. EawUs * (g + a) = Cycle * p + EawUs * m  BY <1>9, <3>2, Cycles
    <3>4. Cycle * p \in Int /\ EawUs * m \in Int  BY <2>1, Cycles, Units
    <3>. QED  BY <2>1, <3>1, <3>3, <3>4
  <2>5. EawUs * m + rest \in 0 .. Cycle - 1
    <3>1. EawUs * m >= 0 /\ EawUs * m \in Int  BY <2>1, Units
    <3>2. EawUs * m + EawUs <= EawUs * Turns  BY <2>1, Units, Cycles
    <3>. QED  BY <2>1, <3>1, <3>2, Cycles, Units
  <2>6. (Cycle * p + (EawUs * m + rest)) % Cycle = EawUs * m + rest
    BY <2>5, Cycles, Remainder, ZenonT(40)
  <2>. QED  BY <2>4, <2>6 DEF Position, s, aw, rest
<1>. QED  BY <1>10, <1>11, <1>13, <1>14, <1>15

(***************************************************************************)
(* The position that a frame tells, and how far behind the top master it   *)
(* is.  It is behind the sender by less than a time unit when it is sent,  *)
(* and falls back as it ages.                                              *)
(***************************************************************************)
FramePos(f) == EawUs * (f.aw_counter \div Mode) + (EawTu - f.next_aw) * Tu

FrameLag(f) == ((Base(1) + now) - FramePos(f)) % Cycle

BaseLag(n) == (Base(1) - Base(n)) % Cycle

FrameLagBounded ==
  \A n \in Nodes : frame[n] # NoFrame /\ frame[n].good =>
    FrameLag(frame[n]) <= (n - 2) * HopLag + (Tu - 1) + frame[n].age

SyncInv ==
  /\ TypeOK
  /\ frame[1] = NoFrame
  /\ \A n \in Nodes : frame[n] # NoFrame => n \in started
  /\ 1 \notin started =>
       synced = {} /\ \A n \in Nodes : frame[n] # NoFrame => ~frame[n].good
  /\ \A n \in synced : BaseLag(n) <= (n - 1) * HopLag
  /\ FrameLagBounded

LEMMA FramePosType ==
  ASSUME NEW f \in Frames
  PROVE  /\ f.aw_counter \div Mode \in 0 .. Turns - 1
         /\ (EawTu - f.next_aw) * Tu \in 0 .. EawUs - 1
         /\ FramePos(f) \in 0 .. Cycle - 1 /\ FramePos(f) \in Int
<1>1. f.aw_counter \in 0 .. CtrMod - 1 /\ f.next_aw \in 1 .. EawTu  BY DEF Frames
<1>. DEFINE m == f.aw_counter \div Mode
            b == EawTu - f.next_aw
<1>2. m \in 0 .. Turns - 1 /\ m \in Int  BY <1>1, Cycles DEF Mode
<1>3. b \in 0 .. EawTu - 1 /\ b \in Int  BY <1>1, Units
<1>. HIDE DEF m, b
<1>4. b * Tu \in 0 .. EawUs - 1 /\ b * Tu \in Int
  <2>1. b * Tu + Tu <= EawTu * Tu  BY <1>3, Units
  <2>2. b * Tu >= 0 /\ b * Tu \in Int  BY <1>3, Units
  <2>. QED  BY <2>1, <2>2, Units DEF EawUs
<1>5. EawUs * m + b * Tu \in 0 .. Cycle - 1 /\ EawUs * m + b * Tu \in Int
  <2>1. EawUs * m >= 0 /\ EawUs * m \in Int  BY <1>2, Units
  <2>2. EawUs * m + EawUs <= EawUs * Turns  BY <1>2, Units, Cycles
  <2>. QED  BY <1>4, <2>1, <2>2, Cycles, Units
<1>. QED  BY <1>2, <1>4, <1>5 DEF m, b, FramePos

LEMMA SentType ==
  ASSUME TypeOK, NEW n \in Nodes, NEW good \in BOOLEAN
  PROVE  [next_aw |-> NextAwTu(n), aw_counter |-> CurrentAw(n), age |-> 0, good |-> good]
           \in Frames
<1>1. NextAwTu(n) \in 1 .. EawTu /\ CurrentAw(n) \in 0 .. CtrMod - 1
  <2>1. PICK b \in 0 .. EawTu - 1, c \in 0 .. Tu - 1 :
               NextAwTu(n) = EawTu - b /\ CurrentAw(n) \in 0 .. CtrMod - 1
    BY Readings
  <2>. QED  BY <2>1, Units
<1>2. 0 \in 0 .. MaxDelay  BY Units
<1>. QED  BY <1>1, <1>2 DEF Frames

\* A frame of node n when it leaves.
LEMMA SentFrame ==
  ASSUME TypeOK, NEW n \in Nodes, NEW f \in Frames,
         f.next_aw = NextAwTu(n), f.aw_counter = CurrentAw(n)
  PROVE  FrameLag(f) <= BaseLag(n) + (Tu - 1)
<1>1. PICK b \in 0 .. EawTu - 1, c \in 0 .. Tu - 1 :
             /\ NextAwTu(n) = EawTu - b
             /\ CurrentAw(n) \in 0 .. CtrMod - 1
             /\ Position(n) = EawUs * CurrentEaw(n) + (Tu * b + c)
  BY Readings
<1>2. FramePos(f) = Position(n) - c
  <2>1. FramePos(f) = EawUs * CurrentEaw(n) + (EawTu - (EawTu - b)) * Tu
    BY <1>1 DEF FramePos, CurrentEaw
  <2>2. b \in Int /\ c \in Int /\ EawTu - (EawTu - b) = b  BY Units
  <2>3. b * Tu = Tu * b /\ Tu * b \in Int  BY <2>2, Units
  <2>4. EawUs * CurrentEaw(n) = FramePos(f) - Tu * b
    <3>1. CurrentEaw(n) \in Int  BY <1>1, Units DEF CurrentEaw, Mode
    <3>2. EawUs * CurrentEaw(n) \in Int  BY <3>1, Units
    <3>. QED  BY <2>1, <2>2, <2>3, <3>2
  <2>5. FramePos(f) \in Int  BY FramePosType
  <2>. QED  BY <1>1, <2>2, <2>3, <2>4, <2>5
<1>. DEFINE x == Base(1) + now
            y == Base(n) + now
<1>3. 1 \in Nodes  BY Units DEF Nodes
<1>4. x \in Int /\ y \in Int /\ x - y = Base(1) - Base(n)  BY <1>3, StoredType
<1>5. Position(n) = y % Cycle  BY PositionIs
<1>6. FrameLag(f) = (x - FramePos(f)) % Cycle  BY DEF FrameLag
<1>. HIDE DEF x, y
<1>7. c \in Nat /\ c <= Tu - 1  BY Units
<1>8. FrameLag(f) = ((x + c) - (y % Cycle)) % Cycle
  <2>1. y % Cycle \in Int  BY <1>4, Cycles
  <2>2. x - FramePos(f) = (x + c) - (y % Cycle)
    <3>. DEFINE z == y % Cycle
    <3>1. z \in Int /\ FramePos(f) = z - c  BY <1>2, <1>5, <2>1
    <3>. HIDE DEF z
    <3>2. x - FramePos(f) = (x + c) - z  BY <1>4, <1>7, <3>1
    <3>. QED  BY <3>2 DEF z
  <2>. QED  BY <1>6, <2>2
<1>9. ((x + c) - (y % Cycle)) % Cycle = ((x + c) - y) % Cycle
  <2>1. x + c \in Int /\ Cycle \in Nat \ {0}  BY <1>4, <1>7, Cycles
  <2>. QED  BY <1>4, <2>1, AddReduced, Zenon
<1>. DEFINE z == x - y
<1>10. z \in Int /\ (x + c) - y = z + c /\ BaseLag(n) = z % Cycle
  BY <1>4, <1>7 DEF BaseLag
<1>. HIDE DEF z
<1>11. ((z % Cycle) + c) % Cycle = (z + c) % Cycle
  <2>1. c \in Int /\ Cycle \in Nat \ {0}  BY <1>7, Cycles
  <2>. QED  BY <1>10, <2>1, AddReduced, ZenonT(40)
<1>12. FrameLag(f) = (BaseLag(n) + c) % Cycle  BY <1>8, <1>9, <1>10, <1>11
<1>13. BaseLag(n) \in Nat  BY <1>10, Cycles
<1>14. (BaseLag(n) + c) % Cycle <= BaseLag(n) + c
  <2>1. BaseLag(n) + c \in Nat /\ Cycle \in Nat \ {0}  BY <1>7, <1>13, Cycles
  <2>. QED  BY <2>1, ReducedIsLess
<1>15. FrameLag(f) \in Int
  <2>1. BaseLag(n) + c \in Int /\ Cycle \in Nat \ {0}  BY <1>7, <1>13, Cycles
  <2>. QED  BY <1>12, <2>1
<1>. QED  BY <1>7, <1>12, <1>13, <1>14, <1>15, Units

\* awdl_sync_update_last puts node n where the frame says.
LEMMA UpdatedType ==
  ASSUME TypeOK, NEW n \in Nodes, NEW f \in Frames
  PROVE  /\ UpdateLast(n, f) \in [last_update: 0 .. ClockMod - 1,
                                  aw_counter: {c \in 0 .. CtrMod - 1 : c % Mode = 0}]
         /\ UpdateLast(n, f).aw_counter = 4 * (f.aw_counter \div Mode)
<1>1. f.aw_counter \in 0 .. CtrMod - 1 /\ f.next_aw \in 1 .. EawTu  BY DEF Frames
<1>. DEFINE k == f.aw_counter
            x == Clock(n) - (EawTu - f.next_aw) * Tu
<1>2. /\ k - (k % 4) \in 0 .. CtrMod - 1 /\ (k - (k % 4)) % 4 = 0
      /\ k - (k % 4) = 4 * (k \div 4)
  BY <1>1, Units
<1>3. x \in Int
  <2>1. Clock(n) \in Int  BY StoredType, Units DEF Clock
  <2>2. (EawTu - f.next_aw) * Tu \in Int  BY FramePosType, Units
  <2>. QED  BY <2>1, <2>2
<1>4. x % ClockMod \in 0 .. ClockMod - 1
  <2>. HIDE DEF x
  <2>. QED  BY <1>3, Units
<1>. QED  BY <1>2, <1>4 DEF UpdateLast, Mode

LEMMA ReceivedLag ==
  ASSUME TypeOK, NEW n \in Nodes, NEW f \in Frames, NEW u, u = UpdateLast(n, f)
  PROVE  (Base(1) - (u.aw_counter * (Period * Tu) + Offsets[n] - u.last_update)) % Cycle
           = FrameLag(f)
<1>. DEFINE e == (EawTu - f.next_aw) * Tu
            m == f.aw_counter \div Mode
            x == now + Offsets[n]
<1>1. e \in Int /\ m \in Int /\ FramePos(f) = EawUs * m + e
  BY FramePosType, Cycles, Units DEF FramePos
<1>2. x \in Int /\ Offsets[n] \in Int /\ now \in Int  BY StoredType
<1>3. u.last_update = ((x % ClockMod) - e) % ClockMod
  BY DEF UpdateLast, Clock
<1>4. u.aw_counter = 4 * m  BY UpdatedType
<1>5. u.aw_counter * (Period * Tu) = EawUs * m
  <2>. HIDE DEF m
  <2>. QED  BY <1>1, <1>4, Units
<1>6. x = now + Offsets[n]  OBVIOUS
<1>. HIDE DEF e, m, x
<1>. DEFINE last == u.last_update
            a == u.aw_counter * (Period * Tu)
<1>7. last = (x - e) % ClockMod
  <2>1. -e \in Int /\ ClockMod \in Nat \ {0}  BY <1>1, Units
  <2>2. ((x % ClockMod) + (-e)) % ClockMod = (x + (-e)) % ClockMod
    BY <1>2, <2>1, AddReduced, Zenon
  <2>3. x + (-e) = x - e  BY <1>1, <1>2
  <2>4. (x % ClockMod) + (-e) = (x % ClockMod) - e
    <3>. DEFINE v == x % ClockMod
    <3>1. v \in Int  BY <1>2, Units
    <3>. HIDE DEF v
    <3>2. v + (-e) = v - e  BY <1>1, <3>1
    <3>. QED  BY <3>2 DEF v
  <2>. QED  BY <1>3, <2>2, <2>3, <2>4
<1>. HIDE DEF last
<1>8. PICK q \in Int, r \in 0 .. ClockMod - 1 :
             x - e = ClockMod * q + r /\ (x - e) % ClockMod = r
  <2>1. x - e \in Int /\ ClockMod \in Nat \ {0}  BY <1>1, <1>2, Units
  <2>. QED  BY <2>1, Division, ZenonT(40)
<1>9. PICK w \in Nat \ {0} : ClockMod = Cycle * w  BY Cycles
<1>. DEFINE k == w * q
<1>10. k \in Int /\ ClockMod * q = Cycle * k  BY <1>9, Cycles
<1>. HIDE DEF k
<1>11. Cycle * k \in Int /\ Cycle * (-k) = -(Cycle * k) /\ -k \in Int  BY <1>10, Cycles
<1>12. last \in Int /\ x - e = Cycle * k + last
  BY <1>7, <1>8, <1>10, SMTT(30)
<1>13. 1 \in Nodes  BY Units DEF Nodes
<1>14. Base(1) \in Int /\ FramePos(f) \in Int /\ a \in Int /\ a = EawUs * m
  <2>1. EawUs * m \in Int  BY <1>1, Units
  <2>. QED  BY <1>5, <1>13, <2>1, StoredType, FramePosType
<1>. HIDE DEF a
<1>15. Base(1) - (a + Offsets[n] - last) = ((Base(1) + now) - FramePos(f)) + Cycle * (-k)
  <2>1. FramePos(f) = a + e  BY <1>1, <1>14
  <2>. QED  BY <1>1, <1>2, <1>6, <1>11, <1>12, <1>14, <2>1
<1>16. (((Base(1) + now) - FramePos(f)) + Cycle * (-k)) % Cycle = FrameLag(f)
  <2>1. (Base(1) + now) - FramePos(f) \in Int /\ Cycle \in Nat \ {0}  BY <1>2, <1>14, Cycles
  <2>. QED  BY <1>11, <2>1, AddMultiple, ZenonT(40) DEF FrameLag
<1>. QED  BY <1>15, <1>16 DEF a, last

LEMMA SyncInvInit == SyncInit => SyncInv
<1>. SUFFICES ASSUME SyncInit PROVE SyncInv  OBVIOUS
<1>1. TypeOK
  <2>1. 0 \in 0 .. ClockMod - 1 /\ 0 \in 0 .. CtrMod - 1 /\ 0 % Mode = 0  BY Units DEF Mode
  <2>. QED  BY <2>1 DEF SyncInit, TypeOK
<1>2. 1 \in Nodes  BY Units DEF Nodes
<1>. QED  BY <1>1, <1>2 DEF SyncInit, SyncInv, FrameLagBounded

LEMMA StartInv ==
  ASSUME SyncInv, NEW n \in Nodes, Start(n)
  PROVE  SyncInv'
<1>. USE DEF SyncInv
<1>0. 1 \in Nodes  BY Units DEF Nodes
<1>1. Clock(n) \in 0 .. ClockMod - 1
  <2>. DEFINE x == now + Offsets[n]
  <2>1. x \in Int  BY StoredType
  <2>2. x % ClockMod \in 0 .. ClockMod - 1
    <3>. HIDE DEF x
    <3>. QED  BY <2>1, Units
  <2>. QED  BY <2>2 DEF Clock
<1>2. TypeOK'
  <2>1. 0 \in 0 .. CtrMod - 1 /\ 0 % Mode = 0  BY Units DEF Mode
  <2>2. sync' \in [Nodes -> [last_update: 0 .. ClockMod - 1,
                             aw_counter: {c \in 0 .. CtrMod - 1 : c % Mode = 0}]]
    BY <1>1, <2>1 DEF Start, TypeOK
  <2>3. started' \subseteq Nodes /\ synced' \subseteq started'  BY DEF Start, TypeOK
  <2>. QED  BY <2>2, <2>3 DEF Start, TypeOK
<1>3. CASE n = 1
  <2>1. synced' = {1} /\ 1 \in started'  BY <1>3 DEF Start
  <2>2. \A m \in Nodes : frame'[m] # NoFrame => ~frame'[m].good /\ m \in started'
    BY <1>3 DEF Start
  <2>3. BaseLag(1)' <= (1 - 1) * HopLag
    <3>1. Base(1)' \in Int
      <4>1. sync'[1].aw_counter = 0 /\ sync'[1].last_update = Clock(1)
        BY <1>0, <1>3 DEF Start, TypeOK
      <4>2. 0 * (Period * Tu) = 0 /\ Offsets[1] \in Int  BY <1>0, Units, StoredType, SMTT(30)
      <4>. QED  BY <1>1, <1>3, <4>1, <4>2, Units DEF Base
    <3>2. Base(1)' - Base(1)' = 0  BY <3>1
    <3>3. 0 % Cycle = 0 /\ (1 - 1) * HopLag = 0  BY Cycles, Units
    <3>. QED  BY <3>2, <3>3 DEF BaseLag
  <2>. QED  BY <1>2, <2>1, <2>2, <2>3, ZenonT(40) DEF FrameLagBounded, Start
<1>4. CASE n # 1
  <2>1. synced' = synced /\ frame' = frame /\ now' = now /\ started' = started \cup {n}
    BY <1>4 DEF Start
  <2>2. \A m \in Nodes \ {n} : Base(m)' = Base(m)  BY DEF Start, TypeOK, Base
  <2>3. Base(1)' = Base(1)  BY <1>0, <1>4, <2>2
  <2>4. \A m \in synced : m \in Nodes \ {n} /\ BaseLag(m)' = BaseLag(m)
    BY <2>2, <2>3 DEF Start, TypeOK, BaseLag
  <2>5. \A m \in Nodes : FrameLag(frame[m])' = FrameLag(frame[m])
    BY <2>1, <2>3, ZenonT(40) DEF FrameLag, FramePos
  <2>6. FrameLagBounded'  BY <2>1, <2>5 DEF FrameLagBounded
  <2>. QED  BY <1>2, <1>4, <2>1, <2>4, <2>6
<1>. QED  BY <1>3, <1>4

LEMMA SendInv ==
  ASSUME SyncInv, NEW n \in 1 .. N - 1, Send(n)
  PROVE  SyncInv'
<1>. USE DEF SyncInv
<1>. DEFINE f == [next_aw |-> NextAwTu(n), aw_counter |-> CurrentAw(n),
                  age |-> 0, good |-> n \in synced]
<1>1. n \in Nodes /\ n + 1 \in Nodes /\ n + 1 # 1 /\ 1 \in Nodes  BY Units DEF Nodes
<1>2. f \in Frames
  <2>1. (n \in synced) \in BOOLEAN  OBVIOUS
  <2>. QED  BY <1>1, <2>1, SentType, ZenonT(40)
<1>3. /\ frame' = [frame EXCEPT ![n + 1] = f] /\ n + 1 \in started
      /\ sync' = sync /\ synced' = synced /\ started' = started /\ now' = now
  BY DEF Send
<1>4. /\ f.next_aw = NextAwTu(n) /\ f.aw_counter = CurrentAw(n)
      /\ f.age = 0 /\ f.good = (n \in synced)
  OBVIOUS
<1>. HIDE DEF f
<1>5. TypeOK'  BY <1>2, <1>3 DEF TypeOK
<1>6. \A m \in Nodes : frame'[m] = IF m = n + 1 THEN f ELSE frame[m]
  BY <1>3 DEF TypeOK
<1>7. \A m \in Nodes : BaseLag(m)' = BaseLag(m) /\ Base(m)' = Base(m)
  BY <1>3, ZenonT(40) DEF BaseLag, Base
<1>8. \A g : FrameLag(g)' = ((Base(1)' + now') - FramePos(g)) % Cycle
  BY DEF FrameLag, FramePos
<1>9. n \in synced => FrameLag(f) <= ((n + 1) - 2) * HopLag + (Tu - 1) + f.age
  <2>. SUFFICES ASSUME n \in synced
                PROVE  FrameLag(f) <= ((n + 1) - 2) * HopLag + (Tu - 1) + f.age
    OBVIOUS
  <2>1. FrameLag(f) <= BaseLag(n) + (Tu - 1)  BY <1>1, <1>2, <1>4, SentFrame
  <2>2. BaseLag(n) <= (n - 1) * HopLag  OBVIOUS
  <2>3. BaseLag(n) \in Int /\ FrameLag(f) \in Int
    <3>1. Base(1) \in Int /\ Base(n) \in Int /\ now \in Int /\ FramePos(f) \in Int
      BY <1>1, <1>2, StoredType, FramePosType
    <3>2. Base(1) - Base(n) \in Int /\ (Base(1) + now) - FramePos(f) \in Int  BY <3>1
    <3>. QED  BY <3>2, Cycles DEF BaseLag, FrameLag
  <2>4. (n - 1) * HopLag \in Int /\ (n + 1) - 2 = n - 1  BY <1>1, Units DEF Nodes
  <2>. QED  BY <1>4, <2>1, <2>2, <2>3, <2>4, Units
<1>10. FrameLagBounded'
  <2>1. ASSUME NEW m \in Nodes, frame'[m] # NoFrame, frame'[m].good
        PROVE  ((Base(1)' + now') - FramePos(frame'[m])) % Cycle
                 <= (m - 2) * HopLag + (Tu - 1) + frame'[m].age
    <3>1. Base(1)' = Base(1) /\ now' = now  BY <1>1, <1>3, <1>7
    <3>2. CASE m = n + 1
      BY <1>4, <1>6, <1>9, <2>1, <3>1, <3>2, ZenonT(40) DEF FrameLag
    <3>3. CASE m # n + 1
      BY <1>6, <2>1, <3>1, <3>3, Zenon DEF FrameLag, FrameLagBounded
    <3>. QED  BY <3>2, <3>3
  <2>. QED  BY <2>1 DEF FrameLagBounded, FrameLag, FramePos
<1>11. 1 \notin started' =>
         synced' = {} /\ \A m \in Nodes : frame'[m] # NoFrame => ~frame'[m].good
  BY <1>3, <1>4, <1>6, ZenonT(40)
<1>12. \A m \in Nodes : frame'[m] # NoFrame => m \in started'  BY <1>3, <1>6
<1>13. \A m \in synced' : BaseLag(m)' <= (m - 1) * HopLag  BY <1>3, <1>7 DEF TypeOK
<1>14. frame'[1] = NoFrame  BY <1>1, <1>6
<1>. QED  BY <1>5, <1>10, <1>11, <1>12, <1>13, <1>14, ZenonT(40)

LEMMA LoseInv ==
  ASSUME SyncInv, NEW n \in Nodes, Lose(n)
  PROVE  SyncInv'
<1>. USE DEF SyncInv
<1>1. /\ frame' = [frame EXCEPT ![n] = NoFrame]
      /\ sync' = sync /\ synced' = synced /\ started' = started /\ now' = now
  BY DEF Lose
<1>2. \A m \in Nodes : frame'[m] # NoFrame => frame'[m] = frame[m]  BY <1>1 DEF TypeOK
<1>3. TypeOK'  BY <1>1 DEF TypeOK
<1>4. \A m \in Nodes : BaseLag(m)' = BaseLag(m)  BY <1>1, ZenonT(40) DEF BaseLag, Base
<1>5. \A m \in Nodes : frame'[m] # NoFrame => FrameLag(frame[m])' = FrameLag(frame[m])
  BY <1>1, <1>2, ZenonT(40) DEF FrameLag, FramePos, Base
<1>6. FrameLagBounded'  BY <1>2, <1>5, ZenonT(40) DEF FrameLagBounded
<1>7. 1 \in Nodes  BY Units DEF Nodes
<1>. QED  BY <1>1, <1>2, <1>3, <1>4, <1>6, <1>7, SMTT(30) DEF TypeOK

LEMMA ReceiveInv ==
  ASSUME SyncInv, NEW n \in Nodes, Receive(n)
  PROVE  SyncInv'
<1>. USE DEF SyncInv
<1>. DEFINE f == frame[n]
            u == UpdateLast(n, f)
<1>1. /\ frame' = [frame EXCEPT ![n] = NoFrame] /\ f # NoFrame
      /\ sync' = [sync EXCEPT ![n] = u]
      /\ synced' = IF f.good THEN synced \cup {n} ELSE synced \ {n}
      /\ started' = started /\ now' = now
  BY DEF Receive
<1>2. n # 1 /\ 1 \in Nodes /\ f \in Frames /\ n \in started
  BY <1>1, Units DEF Nodes, TypeOK
<1>3. /\ u \in [last_update: 0 .. ClockMod - 1,
                aw_counter: {c \in 0 .. CtrMod - 1 : c % Mode = 0}]
      /\ u = UpdateLast(n, f)
  BY <1>2, UpdatedType, ZenonT(40)
<1>4. f = frame[n]  OBVIOUS
<1>. HIDE DEF f, u
<1>5. TypeOK'
  <2>1. sync' \in [Nodes -> [last_update: 0 .. ClockMod - 1,
                             aw_counter: {c \in 0 .. CtrMod - 1 : c % Mode = 0}]]
    BY <1>1, <1>3 DEF TypeOK
  <2>2. frame' \in [Nodes -> Frames \cup {NoFrame}]  BY <1>1 DEF TypeOK
  <2>3. started' \subseteq Nodes /\ synced' \subseteq started'  BY <1>1, <1>2 DEF TypeOK
  <2>. QED  BY <1>1, <2>1, <2>2, <2>3 DEF TypeOK
<1>6. \A m \in Nodes : frame'[m] # NoFrame => frame'[m] = frame[m]  BY <1>1 DEF TypeOK
<1>7. frame'[1] = NoFrame  BY <1>2, <1>6, ZenonT(40)
<1>8. \A m \in Nodes : frame'[m] # NoFrame => m \in started'  BY <1>1, <1>6
<1>9. 1 \notin started' =>
        synced' = {} /\ \A m \in Nodes : frame'[m] # NoFrame => ~frame'[m].good
  BY <1>1, <1>4, <1>6
<1>10. \A m \in Nodes \ {n} : Base(m)' = Base(m)  BY <1>1 DEF TypeOK, Base
<1>11. Base(1)' = Base(1)  BY <1>2, <1>10
<1>12. \A m \in synced' : BaseLag(m)' <= (m - 1) * HopLag
  <2>1. \A m \in synced' : m # n => m \in synced /\ m \in Nodes  BY <1>1 DEF TypeOK
  <2>2. \A m \in synced' : m # n => BaseLag(m)' = BaseLag(m)
    BY <1>10, <1>11, <2>1 DEF BaseLag
  <2>3. ASSUME n \in synced'  PROVE BaseLag(n)' <= (n - 1) * HopLag
    <3>1. f.good  BY <1>1, <2>3
    <3>2. FrameLag(f) <= (n - 2) * HopLag + (Tu - 1) + f.age
      BY <1>1, <1>4, <3>1 DEF FrameLagBounded
    <3>3. sync'[n] = u  BY <1>1 DEF TypeOK
    <3>4. (Base(1) - (u.aw_counter * (Period * Tu) + Offsets[n] - u.last_update)) % Cycle
            = FrameLag(f)
      BY <1>2, <1>3, ReceivedLag
    <3>5. BaseLag(n)' = FrameLag(f)  BY <1>11, <3>3, <3>4, ZenonT(40) DEF BaseLag, Base
    <3>6. f.age \in 0 .. MaxDelay  BY <1>2 DEF Frames
    <3>7. (n - 2) * HopLag + HopLag = (n - 1) * HopLag /\ (n - 2) * HopLag \in Int
      BY Units DEF Nodes
    <3>8. FrameLag(f) \in Int
      <4>1. Base(1) \in Int /\ now \in Int /\ FramePos(f) \in Int
        BY <1>2, StoredType, FramePosType, ZenonT(40)
      <4>2. (Base(1) + now) - FramePos(f) \in Int  BY <4>1
      <4>. QED  BY <4>2, Cycles DEF FrameLag
    <3>. QED  BY <3>2, <3>5, <3>6, <3>7, <3>8, Units
  <2>. QED  BY <2>1, <2>2, <2>3
<1>13. FrameLagBounded'
  <2>1. \A m \in Nodes : frame'[m] # NoFrame => FrameLag(frame[m])' = FrameLag(frame[m])
    BY <1>1, <1>6, <1>11, ZenonT(40) DEF FrameLag, FramePos
  <2>. QED  BY <1>6, <2>1 DEF FrameLagBounded
<1>. QED  BY <1>5, <1>7, <1>8, <1>9, <1>12, <1>13

\* A frame under way falls back by a microsecond in a microsecond.
LEMMA TickedLag ==
  ASSUME TypeOK, NEW f \in Frames
  PROVE  /\ ((Base(1) + ((now + 1) % ClockMod)) - FramePos(f)) % Cycle <= FrameLag(f) + 1
         /\ ((Base(1) + ((now + 1) % ClockMod)) - FramePos(f)) % Cycle \in Nat
         /\ FrameLag(f) \in Nat
<1>. DEFINE z == (Base(1) + now) - FramePos(f)
            t == (now + 1) % ClockMod
<1>0. 1 \in Nodes  BY Units DEF Nodes
<1>1. Base(1) \in Int /\ now \in Int /\ FramePos(f) \in Int
  BY <1>0, StoredType, FramePosType
<1>2. z \in Int /\ z = (Base(1) + now) - FramePos(f) /\ FrameLag(f) = z % Cycle
  BY <1>1 DEF FrameLag
<1>. HIDE DEF z
<1>3. PICK q \in Int, r \in 0 .. ClockMod - 1 : now + 1 = ClockMod * q + r /\ t = r
  <2>1. now + 1 \in Int /\ ClockMod \in Nat \ {0}  BY <1>1, Units
  <2>. QED  BY <2>1, Division, ZenonT(40)
<1>. HIDE DEF t
<1>4. PICK w \in Nat \ {0} : ClockMod = Cycle * w  BY Cycles
<1>. DEFINE k == w * q
<1>5. k \in Int /\ ClockMod * q = Cycle * k  BY <1>4, Cycles
<1>. HIDE DEF k
<1>6. -k \in Int /\ Cycle * k \in Int /\ Cycle * (-k) = -(Cycle * k) /\ Cycle \in Nat \ {0}
  BY <1>5, Cycles
<1>7. t \in Int /\ now + 1 = Cycle * k + t  BY <1>3, <1>5, Units
<1>8. (Base(1) + t) - FramePos(f) = (z + 1) + Cycle * (-k)
  <2>. DEFINE g == Cycle * k
  <2>1. g \in Int /\ now + 1 = g + t /\ Cycle * (-k) = -g  BY <1>6, <1>7
  <2>. HIDE DEF g
  <2>2. t = (now + 1) - g  BY <1>1, <1>7, <2>1
  <2>3. (Base(1) + t) - FramePos(f) = (z + 1) + (-g)  BY <1>1, <1>2, <2>1, <2>2
  <2>. QED  BY <2>1, <2>3
<1>9. ((z + 1) + Cycle * (-k)) % Cycle = (z + 1) % Cycle
  <2>1. z + 1 \in Int  BY <1>2
  <2>. QED  BY <1>6, <2>1, AddMultiple, ZenonT(40)
<1>10. ((z % Cycle) + 1) % Cycle = (z + 1) % Cycle  BY <1>2, <1>6, AddReduced
<1>11. z % Cycle \in Nat  BY <1>2, <1>6
<1>12. ((z % Cycle) + 1) % Cycle <= (z % Cycle) + 1 /\ ((z % Cycle) + 1) % Cycle \in Nat
  <2>. DEFINE v == z % Cycle
  <2>. SUFFICES (v + 1) % Cycle <= v + 1 /\ (v + 1) % Cycle \in Nat  OBVIOUS
  <2>1. v + 1 \in Nat  BY <1>11
  <2>2. (v + 1) % Cycle \in 0 .. Cycle - 1 /\ (v + 1) % Cycle <= v + 1
    <3>. HIDE DEF v
    <3>. QED  BY <1>6, <2>1, ReducedIsLess, Zenon
  <2>. HIDE DEF v
  <2>. QED  BY <1>6, <2>2
<1>. QED  BY <1>2, <1>8, <1>9, <1>10, <1>11, <1>12 DEF t

LEMMA ClockTickInv ==
  ASSUME SyncInv, ClockTick
  PROVE  SyncInv'
<1>. USE DEF SyncInv
<1>0. 1 \in Nodes  BY Units DEF Nodes
<1>1. /\ now' = (now + 1) % ClockMod
      /\ sync' = sync /\ synced' = synced /\ started' = started
      /\ frame' = [n \in Nodes |->
           IF n \in InFlight THEN [frame[n] EXCEPT !.age = @ + 1] ELSE NoFrame]
      /\ \A n \in InFlight : frame[n].age < MaxDelay
  BY DEF ClockTick
<1>2. now' \in 0 .. ClockMod - 1
  <2>1. now + 1 \in Int  BY <1>0, StoredType, SMTT(30)
  <2>. QED  BY <1>1, <2>1, Units
<1>3. \A n \in InFlight : n \in Nodes /\ frame[n] # NoFrame /\ frame[n] \in Frames
  BY DEF InFlight, TypeOK
<1>4. \A n \in InFlight : /\ frame'[n] \in Frames
                          /\ frame'[n].next_aw = frame[n].next_aw
                          /\ frame'[n].aw_counter = frame[n].aw_counter
                          /\ frame'[n].good = frame[n].good
                          /\ frame'[n].age = frame[n].age + 1
  <2>. SUFFICES ASSUME NEW n \in InFlight
                PROVE  /\ frame'[n] \in Frames
                       /\ frame'[n].next_aw = frame[n].next_aw
                       /\ frame'[n].aw_counter = frame[n].aw_counter
                       /\ frame'[n].good = frame[n].good
                       /\ frame'[n].age = frame[n].age + 1
    BY Zenon
  <2>1. frame'[n] = [frame[n] EXCEPT !.age = @ + 1]  BY <1>1, <1>3
  <2>2. frame[n].age + 1 \in 0 .. MaxDelay  BY <1>1, <1>3, Units DEF Frames
  <2>. QED  BY <1>3, <2>1, <2>2 DEF Frames
<1>5. \A n \in Nodes : frame'[n] # NoFrame => n \in InFlight  BY <1>1
<1>6. TypeOK'
  <2>1. frame' \in [Nodes -> Frames \cup {NoFrame}]
    <3>1. \A n \in Nodes : frame'[n] \in Frames \cup {NoFrame}  BY <1>1, <1>4, ZenonT(40)
    <3>. QED  BY <1>1, <3>1
  <2>. QED  BY <1>1, <1>2, <2>1 DEF TypeOK
<1>7. \A n \in Nodes : BaseLag(n)' = BaseLag(n)  BY <1>1 DEF BaseLag, Base
<1>8. Base(1)' = Base(1)  BY <1>1 DEF Base
<1>9. FrameLagBounded'
  <2>1. ASSUME NEW n \in Nodes, frame'[n] # NoFrame, frame'[n].good
        PROVE  ((Base(1)' + now') - FramePos(frame'[n])) % Cycle
                 <= (n - 2) * HopLag + (Tu - 1) + frame'[n].age
    <3>1. n \in InFlight  BY <1>5, <2>1
    <3>2. FramePos(frame'[n]) = FramePos(frame[n])  BY <1>4, <3>1 DEF FramePos
    <3>. DEFINE a == ((Base(1)' + now') - FramePos(frame'[n])) % Cycle
                b == FrameLag(frame[n])
                h == (n - 2) * HopLag
    <3>3. a <= b + 1 /\ a \in Nat /\ b \in Nat
      BY <1>1, <1>3, <1>8, <3>1, <3>2, TickedLag
    <3>4. b <= h + (Tu - 1) + frame[n].age
      BY <1>3, <1>4, <2>1, <3>1, ZenonT(40) DEF FrameLagBounded
    <3>5. h \in Int  BY Units DEF Nodes
    <3>6. frame[n].age \in Nat /\ frame'[n].age = frame[n].age + 1
      BY <1>3, <1>4, <3>1, Units, SMTT(30) DEF Frames
    <3>. HIDE DEF a, b, h
    <3>7. a <= h + (Tu - 1) + frame'[n].age  BY <3>3, <3>4, <3>5, <3>6, Units, SMTT(30)
    <3>. QED  BY <3>7 DEF a, h
  <2>. QED  BY <2>1, Zenon DEF FrameLagBounded, FrameLag, FramePos
<1>10. /\ frame'[1] = NoFrame
       /\ \A n \in Nodes : frame'[n] # NoFrame => n \in started'
       /\ 1 \notin started' =>
            synced' = {} /\ \A n \in Nodes : frame'[n] # NoFrame => ~frame'[n].good
  BY <1>0, <1>1, <1>3, <1>4, <1>5
<1>11. \A n \in synced' : BaseLag(n)' <= (n - 1) * HopLag  BY <1>1, <1>7 DEF TypeOK
<1>. QED  BY <1>6, <1>9, <1>10, <1>11

LEMMA SyncInvNext == SyncInv /\ [SyncNext]_syncVars => SyncInv'
<1>. SUFFICES ASSUME SyncInv, [SyncNext]_syncVars PROVE SyncInv'  OBVIOUS
<1>1. ASSUME NEW n \in Nodes, Start(n) \/ Lose(n) \/ Receive(n) PROVE SyncInv'
  BY <1>1, StartInv, LoseInv, ReceiveInv
<1>2. ASSUME NEW n \in 1 .. N - 1, Send(n) PROVE SyncInv'  BY <1>2, SendInv
<1>3. CASE ClockTick  BY <1>3, ClockTickInv
<1>4. CASE UNCHANGED syncVars
  BY <1>4, ZenonT(40) DEF syncVars, SyncInv, TypeOK, FrameLagBounded, FrameLag, FramePos, BaseLag, Base
<1>. QED  BY <1>1, <1>2, <1>3, <1>4 DEF SyncNext

LEMMA SyncInvariant == SyncSpec => []SyncInv
<1>. QED  BY SyncInvInit, SyncInvNext, PTL DEF SyncSpec

-----------------------------------------------------------------------------
\* Counters and clocks stay in their widths, and the stored counter is that
\* of the first window of an extended window.
THEOREM SyncTypeCorrect == SyncSpec => []TypeOK
<1>1. SyncInv => TypeOK  BY DEF SyncInv
<1>. QED  BY <1>1, SyncInvariant, PTL

LEMMA LagWithinHops ==
  ASSUME SyncInv, NEW n \in synced
  PROVE  /\ n \in Nodes
         /\ Lag(n) <= (n - 1) * HopLag /\ Lag(n) \in Nat
         /\ (n - 1) * HopLag \in Int
<1>1. n \in Nodes /\ TypeOK  BY DEF SyncInv, TypeOK
<1>2. Lag(n) = BaseLag(n) /\ Lag(n) \in Nat  BY <1>1, LagIs, Cycles DEF BaseLag
<1>3. n - 1 \in Nat  BY <1>1, Units DEF Nodes
<1>4. (n - 1) * HopLag \in Int  BY <1>3, Units
<1>. QED  BY <1>1, <1>2, <1>4 DEF SyncInv

(***************************************************************************)
(* awdl_sync_update_last: a synchronised node is behind the top master by  *)
(* at most a time unit and the delay of a frame for each hop, on paths of  *)
(* any length and for clocks and counters of any width.                    *)
(***************************************************************************)
THEOREM NodesStayTogether == SyncSpec => []LagBounded
<1>1. SyncInv => LagBounded  BY LagWithinHops DEF LagBounded
<1>. QED  BY <1>1, SyncInvariant, PTL

\* What lags behind z by so much modulo d is z, up to a multiple of d.
LEMMA CatchUp ==
  ASSUME NEW d \in Nat \ {0}, NEW z \in Int, NEW a \in Int
  PROVE  \E k \in Int : ((z - a) % d) + a = (z % d) + d * k
<1>1. z - a \in Int  OBVIOUS
<1>2. PICK q \in Int, r \in 0 .. d - 1 : z - a = d * q + r /\ (z - a) % d = r
  BY <1>1, Division, ZenonT(40)
<1>3. PICK p \in Int, t \in 0 .. d - 1 : z = d * p + t /\ z % d = t  BY Division, ZenonT(40)
<1>4. d * p \in Int /\ d * q \in Int /\ d * (p - q) = d * p - d * q  OBVIOUS
<1>5. r + a = t + d * (p - q)
  <2>1. r \in Int /\ t \in Int  OBVIOUS
  <2>2. z - a = d * q + r /\ z = d * p + t  BY <1>2, <1>3
  <2>. QED  BY <1>4, <2>1, <2>2
<1>6. p - q \in Int  OBVIOUS
<1>. QED  BY <1>2, <1>3, <1>5, <1>6, Zenon

\* Position and lag make up the position of the top master.
LEMMA LeadIs ==
  ASSUME TypeOK, NEW n \in Nodes
  PROVE  \E k \in Int : Lag(n) + Position(n) = Position(1) + Cycle * k
<1>. DEFINE z == Position(1)
            a == Position(n)
<1>0. 1 \in Nodes  BY Units DEF Nodes
<1>1. z \in 0 .. Cycle - 1 /\ a \in 0 .. Cycle - 1  BY <1>0, PositionIs
<1>2. /\ z \in Nat /\ z \in Int /\ z < Cycle /\ a \in Int /\ Cycle \in Nat \ {0}
      /\ Lag(n) = (z - a) % Cycle
  BY <1>1, Cycles DEF Lag
<1>. HIDE DEF z, a
<1>3. z % Cycle = z  BY <1>2, ReducedIsLess, Zenon
<1>4. \E k \in Int : ((z - a) % Cycle) + a = (z % Cycle) + Cycle * k  BY <1>2, CatchUp, ZenonT(40)
<1>. QED  BY <1>2, <1>3, <1>4, Zenon DEF z, a

\* The top master is as many windows ahead as the lag reaches beyond the end of
\* the window.
LEMMA AheadIs ==
  ASSUME SyncInv, NEW n \in synced
  PROVE  \E a \in 0 .. WindowsAhead(n) : CurrentEaw(1) = (CurrentEaw(n) + a) % Turns
<1>0. n \in Nodes /\ 1 \in Nodes /\ TypeOK
  BY LagWithinHops, Units, SMTT(30) DEF Nodes, SyncInv
<1>1. PICK b \in 0 .. EawTu - 1, c \in 0 .. Tu - 1 :
             /\ NextAwUs(n) = EawUs - (Tu * b + c) /\ Tu * b + c \in 0 .. EawUs - 1
             /\ CurrentEaw(n) \in 0 .. Turns - 1
             /\ Position(n) = EawUs * CurrentEaw(n) + (Tu * b + c)
  BY <1>0, Readings
<1>2. PICK b1 \in 0 .. EawTu - 1, c1 \in 0 .. Tu - 1 :
             /\ Tu * b1 + c1 \in 0 .. EawUs - 1
             /\ CurrentEaw(1) \in 0 .. Turns - 1
             /\ Position(1) = EawUs * CurrentEaw(1) + (Tu * b1 + c1)
  BY <1>0, Readings
<1>3. PICK k \in Int : Lag(n) + Position(n) = Position(1) + Cycle * k  BY <1>0, LeadIs
<1>. DEFINE x == Tu * b + c
            x1 == Tu * b1 + c1
            m == CurrentEaw(n)
            m1 == CurrentEaw(1)
            D == (n - 1) * HopLag
            L == Lag(n)
            A == WindowsAhead(n)
<1>4. L \in Nat /\ L \in Int /\ L <= D /\ D \in Int  BY LagWithinHops
<1>5. /\ x \in 0 .. EawUs - 1 /\ m \in 0 .. Turns - 1 /\ Position(n) = EawUs * m + x
      /\ x1 \in 0 .. EawUs - 1 /\ m1 \in 0 .. Turns - 1 /\ Position(1) = EawUs * m1 + x1
      /\ NextAwUs(n) = EawUs - x
  BY <1>1, <1>2
<1>6. A = (D + EawUs - NextAwUs(n)) \div EawUs  BY DEF WindowsAhead, EawUs
<1>7. L + (EawUs * m + x) = (EawUs * m1 + x1) + Cycle * k  BY <1>3, <1>5, Zenon
<1>. HIDE DEF x, x1, m, m1, D, L, A
<1>8. /\ x \in Int /\ x >= 0 /\ m \in Int /\ x1 \in Int /\ m1 \in Int
      /\ EawUs \in Nat \ {0} /\ EawUs \in Int /\ Turns \in Nat \ {0}
  BY <1>5, Units, Cycles
<1>9. A = (D + x) \div EawUs
  <2>1. D + EawUs - NextAwUs(n) = D + x  BY <1>4, <1>5, <1>8
  <2>. QED  BY <1>6, <2>1
<1>10. L + x \in Int /\ D + x \in Int /\ L + x >= 0 /\ L + x <= D + x  BY <1>4, <1>8
<1>11. PICK a \in Int, r \in 0 .. EawUs - 1 : L + x = EawUs * a + r /\ (L + x) \div EawUs = a
  BY <1>8, <1>10, Division, ZenonT(40)
<1>12. PICK q \in Int, r2 \in 0 .. EawUs - 1 : D + x = EawUs * q + r2 /\ (D + x) \div EawUs = q
  BY <1>8, <1>10, Division, ZenonT(40)
<1>13. a \in 0 .. A
  <2>1. A = q  BY <1>9, <1>12
  <2>2. EawUs * a \in Int /\ EawUs * q \in Int /\ r \in Int /\ r2 \in Int  BY <1>8, <1>11, <1>12
  <2>3. EawUs * a > -EawUs /\ EawUs * a < EawUs * q + EawUs
    BY <1>8, <1>10, <1>11, <1>12, <2>2
  <2>4. a > -1  BY <1>8, <2>3
  <2>5. a < q + 1
    <3>1. EawUs * (q + 1) = EawUs * q + EawUs  BY <1>8
    <3>2. EawUs * a < EawUs * (q + 1)  BY <2>3, <3>1
    <3>. QED  BY <1>8, <3>2
  <2>. QED  BY <2>1, <2>4, <2>5
<1>14. m + a = Turns * k + m1
  <2>1. Turns * k \in Int /\ m + a \in Int /\ Turns * k + m1 \in Int  BY <1>8
  <2>2. EawUs * (m + a) + r = EawUs * (Turns * k + m1) + x1
    <3>1. EawUs * (m + a) = EawUs * m + EawUs * a  BY <1>8
    <3>2. EawUs * (Turns * k + m1) = EawUs * (Turns * k) + EawUs * m1  BY <1>8, <2>1
    <3>3. Cycle * k = EawUs * (Turns * k)  BY <1>8, Cycles
    <3>4. /\ EawUs * m \in Int /\ EawUs * a \in Int /\ EawUs * m1 \in Int
          /\ EawUs * (Turns * k) \in Int /\ r \in Int
      BY <1>8, <1>11, <2>1
    <3>5. L + (EawUs * m + x) = (EawUs * m1 + x1) + EawUs * (Turns * k)  BY <1>7, <3>3
    <3>. QED  BY <1>4, <1>8, <1>11, <3>1, <3>2, <3>4, <3>5
  <2>3. (EawUs * (m + a) + r) \div EawUs = m + a  BY <1>8, <1>11, <2>1, Remainder, ZenonT(40)
  <2>4. (EawUs * (Turns * k + m1) + x1) \div EawUs = Turns * k + m1
    BY <1>5, <1>8, <2>1, Remainder, ZenonT(40)
  <2>. QED  BY <2>2, <2>3, <2>4
<1>15. m1 = (m + a) % Turns
  <2>1. (Turns * k + m1) % Turns = m1  BY <1>5, <1>8, Remainder, ZenonT(40)
  <2>. QED  BY <1>14, <2>1
<1>. QED  BY <1>13, <1>15 DEF A, m, m1

(***************************************************************************)
(* At every depth of the sync tree the top master is in the node's own     *)
(* extended window, or in one that the lag of the hops reaches; a guard    *)
(* longer than that lag (awdl_can_send_in) rules out all but the first.    *)
(***************************************************************************)
THEOREM WindowsAgree == SyncSpec => []SharesWindow
<1>1. ASSUME SyncInv, NEW n \in synced
      PROVE  /\ \E w \in 0 .. WindowsAhead(n) :
                  CurrentEaw(1) = (CurrentEaw(n) + w) % (CtrMod \div Mode)
             /\ OutsideGuard(n) /\ CurrentEaw(n) # CurrentEaw(1) => (n - 1) * HopLag >= Guard * Tu
  <2>1. PICK a \in 0 .. WindowsAhead(n) : CurrentEaw(1) = (CurrentEaw(n) + a) % Turns
    BY <1>1, AheadIs
  <2>2. ASSUME OutsideGuard(n), ~((n - 1) * HopLag >= Guard * Tu)
        PROVE  CurrentEaw(n) = CurrentEaw(1)
    <3>0. n \in Nodes /\ TypeOK  BY <1>1, LagWithinHops DEF SyncInv
    <3>1. PICK b \in 0 .. EawTu - 1, c \in 0 .. Tu - 1 :
                 /\ NextAwUs(n) = EawUs - (Tu * b + c) /\ Tu * b + c \in 0 .. EawUs - 1
                 /\ CurrentEaw(n) \in 0 .. Turns - 1
      BY <3>0, Readings
    <3>. DEFINE x == Tu * b + c
                m == CurrentEaw(n)
                D == (n - 1) * HopLag
                g == Guard * Tu
    <3>2. g \in Int  BY SyncAssumption, Units
    <3>3. D \in Int /\ D >= 0 /\ D < g
      <4>1. D \in Int /\ Lag(n) <= D /\ Lag(n) \in Nat  BY <1>1, LagWithinHops
      <4>2. ~(D >= g)  BY <2>2
      <4>. HIDE DEF D, g
      <4>. QED  BY <3>2, <4>1, <4>2
    <3>4. EawUs - x >= g  BY <2>2, <3>1 DEF OutsideGuard
    <3>5. WindowsAhead(n) = (D + EawUs - NextAwUs(n)) \div EawUs  BY DEF WindowsAhead, EawUs
    <3>6. x \in 0 .. EawUs - 1 /\ NextAwUs(n) = EawUs - x /\ m \in 0 .. Turns - 1  BY <3>1
    <3>. HIDE DEF x, D, g, m
    <3>7. D + EawUs - NextAwUs(n) = D + x /\ D + x \in 0 .. EawUs - 1
      BY <3>2, <3>3, <3>4, <3>6, Units
    <3>8. WindowsAhead(n) = 0
      <4>1. EawUs \in Nat \ {0} /\ EawUs * 0 + (D + x) = D + x  BY <3>3, <3>6, Units
      <4>2. (EawUs * 0 + (D + x)) \div EawUs = 0  BY <3>7, <4>1, Remainder
      <4>. QED  BY <3>5, <3>7, <4>1, <4>2
    <3>9. CurrentEaw(1) = m % Turns
      <4>1. a = 0  BY <2>1, <3>8
      <4>2. m + 0 = m  BY <3>6, Cycles
      <4>. QED  BY <2>1, <4>1, <4>2 DEF m
    <3>10. m \in Nat /\ m < Turns /\ Turns \in Nat \ {0}  BY <3>6, Cycles
    <3>11. m % Turns = m  BY <3>10, ReducedIsLess, Zenon
    <3>. QED  BY <3>9, <3>11 DEF m
  <2>. QED  BY <2>1, <2>2 DEF Turns
<1>2. SyncInv => SharesWindow  BY <1>1 DEF SharesWindow
<1>. QED  BY <1>2, SyncInvariant, PTL

(***************************************************************************)
(* A synchronised node and the frame of its master that reaches it are     *)
(* both close behind the top master, hence close to each other, or one is  *)
(* just before and the other just after the counter wraps around.          *)
(***************************************************************************)
LEMMA FrameIsClose ==
  ASSUME SyncInv, NEW n \in synced \cap InFlight, frame[n].good
  PROVE  \E e \in Int, k \in {-1, 0, 1} :
           /\ FramePos(frame[n]) - Position(n) = e + Cycle * k
           /\ -((n - 1) * HopLag) <= e /\ e <= (n - 1) * HopLag
<1>. DEFINE f == frame[n]
            F == FramePos(f)
            P == Position(n)
            L == Lag(n)
            G == FrameLag(f)
            D == (n - 1) * HopLag
            x == Base(1) + now
            P1 == Position(1)
<1>1. n \in Nodes /\ 1 \in Nodes /\ TypeOK /\ f \in Frames /\ f # NoFrame
  BY Units, ZenonT(40) DEF SyncInv, TypeOK, InFlight, Nodes
<1>2. L \in Nat /\ L <= D /\ D \in Int  BY LagWithinHops
<1>3. x \in Int /\ F \in 0 .. Cycle - 1 /\ F \in Int /\ P \in 0 .. Cycle - 1 /\ P \in Int
  BY <1>1, StoredType, FramePosType, PositionIs, Cycles, SMTT(30)
<1>6. P1 = x % Cycle /\ P1 \in 0 .. Cycle - 1 /\ P1 \in Int  BY <1>1, PositionIs, Cycles
<1>4. G \in 0 .. Cycle - 1 /\ L \in 0 .. Cycle - 1
  <2>1. x - F \in Int /\ P1 - P \in Int  BY <1>3, <1>6
  <2>2. G = (x - F) % Cycle /\ L = (P1 - P) % Cycle  BY DEF FrameLag, Lag
  <2>. HIDE DEF G, L, x, F, P1, P
  <2>. QED  BY <2>1, <2>2, Cycles
<1>5. G <= D
  <2>1. G <= (n - 2) * HopLag + (Tu - 1) + f.age  BY <1>1 DEF SyncInv, FrameLagBounded
  <2>2. f.age \in 0 .. MaxDelay  BY <1>1 DEF Frames
  <2>3. (n - 2) * HopLag + HopLag = D /\ (n - 2) * HopLag \in Int
    BY <1>1, Units DEF Nodes
  <2>. HIDE DEF G, D, f
  <2>. QED  BY <1>2, <1>4, <2>1, <2>2, <2>3, Units, Cycles
<1>7. G = (x - F) % Cycle  BY DEF FrameLag
<1>10. PICK j \in Int : L + P = P1 + Cycle * j  BY <1>1, LeadIs
<1>. HIDE DEF f, F, P, L, G, D, x, P1
<1>9. PICK i \in Int : G + F = P1 + Cycle * i
  <2>1. Cycle \in Nat \ {0}  BY Cycles
  <2>2. \E i \in Int : ((x - F) % Cycle) + F = (x % Cycle) + Cycle * i
    BY <1>3, <2>1, CatchUp, Zenon
  <2>. QED  BY <1>6, <1>7, <2>2
<1>. DEFINE k == i - j
            e == L - G
<1>11. /\ k \in Int /\ e \in Int /\ -D <= e /\ e <= D /\ e = L - G
       /\ -Cycle < e /\ e < Cycle /\ G \in Int /\ L \in Int
  BY <1>2, <1>4, <1>5, Cycles
<1>12. F - P = e + Cycle * k
  <2>1. Cycle * k = Cycle * i - Cycle * j /\ Cycle * i \in Int /\ Cycle * j \in Int
    BY Cycles
  <2>2. F = (P1 + Cycle * i) - G /\ P = (P1 + Cycle * j) - L
    BY <1>3, <1>6, <1>9, <1>10, <1>11, <2>1
  <2>. HIDE DEF k
  <2>. QED  BY <1>6, <1>11, <2>1, <2>2
<1>. HIDE DEF k, e
<1>13. k \in {-1, 0, 1}
  <2>1. Cycle * k \in Int  BY <1>11, Cycles
  <2>2. Cycle * k < 2 * Cycle /\ -(2 * Cycle) < Cycle * k
    BY <1>3, <1>11, <1>12, <2>1, Cycles, SMTT(30)
  <2>3. k < 2 /\ -2 < k  BY <1>11, <2>2, Cycles
  <2>. QED  BY <1>11, <2>3
<1>. QED  BY <1>11, <1>12, <1>13 DEF F, P, f, D

(***************************************************************************)
(* awdl_sync_error_tu: at every depth the error is the distance of node    *)
(* and frame, or that and a whole cycle.                                   *)
(***************************************************************************)
THEOREM ErrorsAreLag == SyncSpec => []MeasuresLag
<1>1. ASSUME SyncInv, NEW n \in synced \cap InFlight, frame[n].good
      PROVE  \E wrap \in {-1, 0, 1} :
               SyncError(n, frame[n]) - wrap * CtrMod * Period
                 \in -(((n - 1) * HopLag) \div Tu) .. ((n - 1) * HopLag + Tu - 1) \div Tu
  <2>. DEFINE f == frame[n]
              F == FramePos(f)
              P == Position(n)
              m == CurrentEaw(n)
              mf == f.aw_counter \div Mode
              bf == EawTu - f.next_aw
              D == (n - 1) * HopLag
              err == SyncError(n, f)
  <2>1. n \in Nodes /\ TypeOK /\ f \in Frames
    BY <1>1 DEF SyncInv, TypeOK, InFlight
  <2>2. PICK e \in Int, k \in {-1, 0, 1} : F - P = e + Cycle * k /\ -D <= e /\ e <= D
    BY <1>1, FrameIsClose
  <2>3. PICK b \in 0 .. EawTu - 1, c \in 0 .. Tu - 1 :
               /\ NextAwTu(n) = EawTu - b
               /\ Tu * b + c \in 0 .. EawUs - 1
               /\ m \in 0 .. Turns - 1
               /\ P = EawUs * m + (Tu * b + c)
    BY <2>1, Readings
  <2>4. /\ mf \in 0 .. Turns - 1 /\ bf * Tu \in 0 .. EawUs - 1
        /\ F \in 0 .. Cycle - 1 /\ F = EawUs * mf + bf * Tu
    BY <2>1, FramePosType DEF FramePos
  <2>5. P \in 0 .. Cycle - 1  BY <2>1, PositionIs
  <2>6. D \in Int  BY <1>1, LagWithinHops
  <2>7. f.next_aw \in Int /\ bf \in Int /\ f.next_aw = EawTu - bf
    BY <2>1, Units DEF Frames
  <2>8. err = (mf - m) * EawTu - ((EawTu - bf) - (EawTu - b))
    BY <2>3, <2>7 DEF SyncError
  <2>. DEFINE C == CtrMod * Period
              true == err - k * CtrMod * Period
  <2>9. C \in Int /\ Cycle = C * Tu  BY Units DEF Cycle
  <2>9a. true = err - k * C
    <3>1. k \in Int /\ k * CtrMod * Period = k * (CtrMod * Period)  BY <2>2, Units
    <3>. QED  BY <3>1
  <2>. HIDE DEF f, F, P, m, mf, bf, D, err, C, true
  <2>10. /\ m \in Int /\ mf \in Int /\ b \in Int /\ c \in Int /\ F \in Int /\ P \in Int
         /\ k \in Int /\ c >= 0 /\ c <= Tu - 1
    BY <2>2, <2>3, <2>4, <2>5, Cycles, Units, SMTT(30)
  <2>11. err = (mf - m) * EawTu + (bf - b) /\ err \in Int
    <3>1. (mf - m) * EawTu \in Int  BY <2>10, Units
    <3>. QED  BY <2>7, <2>8, <2>10, <3>1, Units
  <2>12. err * Tu = (F - P) + c
    <3>1. ((mf - m) * EawTu + (bf - b)) * Tu
            = (EawUs * mf - EawUs * m) + (bf * Tu - Tu * b)
      <4>1. ((mf - m) * EawTu) * Tu = EawUs * mf - EawUs * m
        BY <2>10, Units DEF EawUs
      <4>2. (bf - b) * Tu = bf * Tu - Tu * b  BY <2>7, <2>10, Units
      <4>3. (mf - m) * EawTu \in Int /\ bf - b \in Int  BY <2>7, <2>10, Units
      <4>. DEFINE u == (mf - m) * EawTu
                  v == bf - b
      <4>4. (u + v) * Tu = u * Tu + v * Tu
        <5>. HIDE DEF u, v
        <5>1. u \in Int /\ v \in Int  BY <4>3 DEF u, v
        <5>. QED  BY <5>1, Units
      <4>. QED  BY <4>1, <4>2, <4>4
    <3>2. EawUs * mf \in Int /\ EawUs * m \in Int /\ bf * Tu \in Int /\ Tu * b \in Int
      BY <2>7, <2>10, Units
    <3>. QED  BY <2>3, <2>4, <2>10, <2>11, <3>1, <3>2, SMTT(30)
  <2>13. true \in Int /\ true * Tu = e + c
    <3>1. k * C \in Int /\ true \in Int  BY <2>9, <2>9a, <2>10, <2>11
    <3>2. (k * C) * Tu = Cycle * k  BY <2>9, <2>10, Units
    <3>3. (err - k * C) * Tu = err * Tu - (k * C) * Tu  BY <2>11, <3>1, Units
    <3>4. err * Tu \in Int /\ Cycle * k \in Int  BY <2>10, <2>11, Units, Cycles
    <3>5. true * Tu = err * Tu - Cycle * k  BY <2>9a, <3>2, <3>3, Zenon
    <3>6. F - P = e + Cycle * k  BY <2>2
    <3>. HIDE DEF true
    <3>. DEFINE t == err * Tu
                s == Cycle * k
    <3>7. t \in Int /\ s \in Int /\ t = (F - P) + c /\ F - P = e + s /\ true * Tu = t - s
      BY <2>12, <3>4, <3>5, <3>6
    <3>. HIDE DEF t, s
    <3>. QED  BY <2>10, <3>1, <3>7
  <2>14. -D <= true * Tu /\ true * Tu <= D + Tu - 1
    BY <2>2, <2>6, <2>10, <2>13, Units
  <2>15. true >= -(D \div Tu)
    <3>1. PICK q \in Int, r \in 0 .. Tu - 1 : D = Tu * q + r /\ D \div Tu = q
      BY <2>6, Units, Division, ZenonT(40)
    <3>2. Tu * q \in Int /\ r \in Int /\ true * Tu \in Int /\ (-(q + 1)) * Tu = -(Tu * q) - Tu
      BY <2>13, <3>1, Units
    <3>3. true * Tu > (-(q + 1)) * Tu  BY <2>14, <3>1, <3>2, Units
    <3>4. true > -(q + 1)  BY <2>13, <3>1, <3>3, Units
    <3>. QED  BY <2>13, <3>1, <3>4
  <2>16. true <= (D + Tu - 1) \div Tu
    <3>0. D + Tu - 1 \in Int  BY <2>6, Units
    <3>1. PICK q \in Int, r \in 0 .. Tu - 1 : D + Tu - 1 = Tu * q + r /\ (D + Tu - 1) \div Tu = q
      BY <3>0, Units, Division, ZenonT(40)
    <3>2. Tu * q \in Int /\ r \in Int /\ true * Tu \in Int /\ (q + 1) * Tu = Tu * q + Tu
      BY <2>13, <3>1, Units
    <3>3. true * Tu < (q + 1) * Tu  BY <2>14, <3>1, <3>2, Units
    <3>4. true < q + 1  BY <2>13, <3>1, <3>3, Units
    <3>. QED  BY <2>13, <3>1, <3>4
  <2>17. D \div Tu \in Int /\ (D + Tu - 1) \div Tu \in Int  BY <2>6, Units
  <2>18. true \in -(D \div Tu) .. (D + Tu - 1) \div Tu  BY <2>13, <2>15, <2>16, <2>17
  <2>. QED  BY <2>2, <2>18, Zenon DEF true, err, f, D
<1>2. SyncInv => MeasuresLag  BY <1>1 DEF MeasuresLag
<1>. QED  BY <1>2, SyncInvariant, PTL

=============================================================================
