---------------------------- MODULE HostTxProofs ----------------------------
(***************************************************************************)
(* The transmit path strands no frame, keeps its queue within bounds and   *)
(* every frame in its order, for every slot length, guard, capacity and    *)
(* load; the retries of a frame that waits come soon and where they can    *)
(* succeed.  The circular buffer its multicast frames wait in implements   *)
(* the bounded queue, for every size and every set of elements.            *)
(***************************************************************************)
EXTENDS HostTx, CircularBuffer, TLAPS

TxInv == TypeOK /\ WaitingHasTimer

\* The distance to the next slot is between one unit and a whole slot.
LEMMA NextAwRange ==
  ASSUME NEW t \in Times
  PROVE  NextAw(t) \in 1 .. Eaw
<1>1. t \in Nat /\ Eaw \in Nat /\ Eaw > 0
  BY HostTxAssumption DEF Times
<1>2. t % Eaw \in 0 .. Eaw - 1  BY <1>1
<1>. QED  BY <1>1, <1>2 DEF NextAw

\* The delays until the next try are never negative.
LEMMA RetryType ==
  ASSUME NEW in \in Int, NEW guard \in Nat
  PROVE  Retry(in, guard) \in Nat
BY DEF Retry

LEMMA CanSendType ==
  ASSUME NEW t \in Times, NEW guard \in Nat
  PROVE  CanSendIn(t, guard) \in Int
<1>1. NextAw(t) \in Int /\ Eaw \in Int  BY NextAwRange, HostTxAssumption
<1>. QED  BY <1>1 DEF CanSendIn

LEMMA CanSendUnicastType ==
  ASSUME NEW t \in Times, NEW p
  PROVE  CanSendUnicastIn(p, t) \in Int
<1>1. NextAw(t) \in Int /\ Eaw \in Int /\ UcGuard \in Int
  BY NextAwRange, HostTxAssumption
<1>. QED  BY <1>1 DEF CanSendUnicastIn

(***************************************************************************)
(* awdl_send_unicast leaves a frame only with its timer rearmed.           *)
(***************************************************************************)
LEMMA SendUnicastFacts ==
  ASSUME time \in Times, NEW nx \in Frames \cup {None}, NEW timer \in Timers
  PROVE  LET u == SendUnicast(nx, timer)
         IN  /\ u.next \in Frames \cup {None} /\ u.timer \in Timers /\ u.fed \in BOOLEAN
             /\ u.next # None => u.timer # Off
<1>. DEFINE in == IF nx # None /\ nx.to \in DOMAIN match
                  THEN CanSendUnicastIn(nx.to, time) ELSE 0
<1>1. in \in Int  BY CanSendUnicastType
<1>2. Retry(in, UcGuard) \in Nat  BY <1>1, RetryType, HostTxAssumption, Zenon
<1>3. Off \notin Nat  BY HostTxAssumption
<1>4. SendUnicast(nx, timer) =
        IF nx # None /\ in # 0
        THEN [next |-> nx, timer |-> Retry(in, UcGuard), fed |-> FALSE, gone |-> <<>>]
        ELSE [next |-> None, timer |-> timer, fed |-> TRUE,
              gone |-> IF nx = None THEN <<>> ELSE <<nx>>]
  BY DEF SendUnicast
<1>. HIDE DEF in
<1>. QED  BY <1>2, <1>3, <1>4 DEF Timers

(***************************************************************************)
(* awdl_send_multicast leaves frames only with the timer rearmed, and      *)
(* never more than there were.                                             *)
(***************************************************************************)
LEMMA SendMulticastFacts ==
  ASSUME time \in Times, NEW q \in Seq(Frames), NEW timer \in Timers
  PROVE  LET m == SendMulticast(q, timer)
         IN  /\ m.mq \in Seq(Frames) /\ Len(m.mq) <= Len(q)
             /\ m.timer \in Timers /\ m.fed \in BOOLEAN
             /\ m.mq # <<>> => m.timer # Off
<1>. DEFINE in == CanSendIn(time, McGuard)
            send == q # <<>> /\ SlotOf(time) \in McSlots /\ in = 0
            q2 == IF send THEN Tail(q) ELSE q
            tm == IF q2 = <<>> THEN timer
                  ELSE IF send THEN 0
                  ELSE IF in = 0 THEN Eaw ELSE Retry(in, McGuard)
<1>1. in \in Int  BY CanSendType, HostTxAssumption
<1>2. Retry(in, McGuard) \in Nat /\ Eaw \in Nat /\ Off \notin Nat
  BY <1>1, RetryType, HostTxAssumption
<1>3. q2 \in Seq(Frames) /\ Len(q2) <= Len(q)
  <2>1. CASE send
    <3>1. q # <<>>  BY <2>1
    <3>2. Tail(q) \in Seq(Frames) /\ Len(Tail(q)) = Len(q) - 1  BY <3>1
    <3>3. Len(q) \in Nat  OBVIOUS
    <3>. QED  BY <2>1, <3>2, <3>3
  <2>2. CASE ~send
    <3>1. Len(q) \in Nat  OBVIOUS
    <3>. QED  BY <2>2, <3>1
  <2>. QED  BY <2>1, <2>2
<1>4. tm \in Timers /\ (q2 # <<>> => tm # Off)
  BY <1>2 DEF Timers
<1>5. SendMulticast(q, timer) =
        [mq |-> q2, timer |-> tm, fed |-> q2 = <<>>,
         gone |-> IF send THEN <<Head(q)>> ELSE <<>>]
  BY DEF SendMulticast
<1>6. (q2 = <<>>) \in BOOLEAN  OBVIOUS
<1>. HIDE DEF q2, tm, send
<1>. QED  BY <1>3, <1>4, <1>5, <1>6

-----------------------------------------------------------------------------
LEMMA TxInit == Init => TxInv
<1>. SUFFICES ASSUME Init PROVE TxInv  OBVIOUS
<1>1. Eaw \in Nat /\ Eaw > 0 /\ Slots \in Nat /\ Slots > 0 /\ Eaw * Slots > 0
  BY HostTxAssumption
<1>2. 0 \in Times  BY <1>1 DEF Times
<1>3. /\ time \in Times /\ host \in Seq(Frames) /\ mq \in Seq(Frames)
      /\ arrived \in Seq(Frames) /\ next \in Frames \cup {None}
      /\ txTimer \in Timers /\ mcTimer \in Timers /\ fed \in BOOLEAN
  <2>1. time = 0 /\ host = <<>> /\ mq = <<>> /\ arrived = <<>> /\ next = None
        /\ txTimer = 0 /\ mcTimer = 0 /\ fed = FALSE
    BY Zenon DEF Init
  <2>2. <<>> \in Seq(Frames)  OBVIOUS
  <2>3. 0 \in Timers  BY DEF Timers
  <2>. QED  BY <1>2, <2>1, <2>2, <2>3, Zenon
<1>4. DOMAIN match = {}  BY DEF Init
<1>5. Len(mq) <= Cap /\ events \in 0 .. MaxEvents
  BY HostTxAssumption DEF Init
<1>6. WaitingHasTimer  BY DEF Init, WaitingHasTimer
<1>. QED  BY <1>3, <1>4, <1>5, <1>6 DEF TxInv, TypeOK

\* The queue never holds more than its capacity.
LEMMA NewestType ==
  ASSUME NEW q \in Seq(Frames)
  PROVE  Newest(q) \in Seq(Frames) /\ Len(Newest(q)) <= Cap
<1>1. Cap \in Nat /\ Len(q) \in Nat  BY HostTxAssumption
<1>2. CASE Len(q) > Cap
  <2>1. Newest(q) = SubSeq(q, Len(q) - Cap + 1, Len(q))  BY <1>2, Zenon DEF Newest
  <2>2. Len(q) - Cap + 1 \in 1 .. Len(q) + 1  BY <1>1, <1>2
  <2>. QED  BY <1>1, <1>2, <2>1, <2>2
<1>3. CASE ~(Len(q) > Cap)
  <2>1. Newest(q) = SubSeq(q, 1, Len(q))  BY <1>3 DEF Newest
  <2>. QED  BY <1>1, <1>3, <2>1
<1>. QED  BY <1>2, <1>3

(***************************************************************************)
(* host_device_ready: what it reads it either sends or leaves with a timer *)
(* running, since it reads only while there is room.                       *)
(***************************************************************************)
LEMMA HostReadyInv ==
  ASSUME TxInv, HostReady
  PROVE  TxInv'
<1>. USE DEF TxInv
<1>1. PICK n \in 0 .. Len(host) :
       LET uc    == n > 0 /\ IsUnicast(host[n])
           runt  == n > 0 /\ host[n].to = "runt"
           mc    == SubSeq(host, 1, IF uc \/ runt THEN n - 1 ELSE n)
           nx    == IF uc THEN host[n] ELSE next
           q     == Newest(mq \o mc)
           m     == IF mc # <<>> THEN SendMulticast(q, mcTimer)
                    ELSE [mq |-> q, timer |-> mcTimer, fed |-> FALSE, gone |-> <<>>]
           u     == IF uc THEN SendUnicast(nx, txTimer)
                    ELSE [next |-> nx, timer |-> txTimer, fed |-> FALSE, gone |-> <<>>]
       IN  /\ host' = SubSeq(host, n + 1, Len(host))
           /\ next' = u.next /\ txTimer' = u.timer
           /\ mq' = m.mq /\ mcTimer' = m.timer
           /\ fed' = (m.fed \/ u.fed)
  BY ZenonT(40) DEF HostReady
<1>. DEFINE uc   == n > 0 /\ IsUnicast(host[n])
            runt == n > 0 /\ host[n].to = "runt"
            mc   == SubSeq(host, 1, IF uc \/ runt THEN n - 1 ELSE n)
            nx   == IF uc THEN host[n] ELSE next
            q    == Newest(mq \o mc)
            m    == IF mc # <<>> THEN SendMulticast(q, mcTimer)
                    ELSE [mq |-> q, timer |-> mcTimer, fed |-> FALSE, gone |-> <<>>]
            u    == IF uc THEN SendUnicast(nx, txTimer)
                    ELSE [next |-> nx, timer |-> txTimer, fed |-> FALSE, gone |-> <<>>]
<1>2. /\ host' = SubSeq(host, n + 1, Len(host))
      /\ next' = u.next /\ txTimer' = u.timer
      /\ mq' = m.mq /\ mcTimer' = m.timer /\ fed' = (m.fed \/ u.fed)
  BY <1>1
<1>3. time' = time /\ match' = match /\ arrived' = arrived /\ events' = events
  BY ZenonT(40) DEF HostReady
<1>4. /\ time \in Times /\ host \in Seq(Frames) /\ mq \in Seq(Frames)
      /\ next \in Frames \cup {None} /\ txTimer \in Timers /\ mcTimer \in Timers
      /\ Len(mq) <= Cap /\ Cap \in Nat /\ Len(host) \in Nat
  BY HostTxAssumption DEF TypeOK
<1>5. host' \in Seq(Frames)
  BY <1>2, <1>4
<1>6. nx \in Frames \cup {None}
  <2>1. n > 0 => host[n] \in Frames  BY <1>4
  <2>. QED  BY <1>4, <2>1
<1>7. /\ next' \in Frames \cup {None} /\ txTimer' \in Timers /\ u.fed \in BOOLEAN
      /\ next' # None => txTimer' # Off
  <2>1. CASE uc
    <3>1. u = SendUnicast(nx, txTimer)  BY <2>1
    <3>. HIDE DEF u, nx
    <3>. QED  BY <1>2, <1>4, <1>6, <3>1, SendUnicastFacts, Zenon
  <2>2. CASE ~uc
    BY <1>2, <1>4, <2>2, Zenon DEF WaitingHasTimer
  <2>. QED  BY <2>1, <2>2, Zenon
<1>8. mc \in Seq(Frames) /\ (mc = <<>> => mq \o mc = mq)
  <2>1. (IF uc \/ runt THEN n - 1 ELSE n) \in 0 .. Len(host)  BY <1>4
  <2>2. mc \in Seq(Frames)  BY <1>4, <2>1
  <2>. HIDE DEF mc
  <2>. QED  BY <1>4, <2>2
<1>9. q \in Seq(Frames) /\ Len(q) <= Cap
  <2>1. mq \o mc \in Seq(Frames)  BY <1>4, <1>8
  <2>. HIDE DEF mc
  <2>. QED  BY <2>1, NewestType, Zenon
<1>10. /\ mq' \in Seq(Frames) /\ Len(mq') <= Cap
       /\ mcTimer' \in Timers /\ m.fed \in BOOLEAN
       /\ mq' # <<>> => mcTimer' # Off
  <2>1. CASE mc # <<>>
    <3>1. m = SendMulticast(q, mcTimer)  BY <2>1
    <3>. HIDE DEF m, q
    <3>2. /\ m.mq \in Seq(Frames) /\ Len(m.mq) <= Len(q)
          /\ m.timer \in Timers /\ m.fed \in BOOLEAN
          /\ m.mq # <<>> => m.timer # Off
      BY <1>4, <1>9, <3>1, SendMulticastFacts
    <3>3. Len(m.mq) \in Nat /\ Len(q) \in Nat  BY <1>9, <3>2
    <3>. QED  BY <1>2, <1>4, <1>9, <3>2, <3>3
  <2>2. CASE mc = <<>>
    <3>1. q = mq
      <4>1. q = Newest(mq)  BY <1>8, <2>2, Zenon
      <4>2. Newest(mq) = SubSeq(mq, 1, Len(mq))
        <5>1. Len(mq) \in Nat  BY <1>4
        <5>2. ~(Len(mq) > Cap)  BY <1>4, <5>1
        <5>. QED  BY <5>2, Zenon DEF Newest
      <4>3. SubSeq(mq, 1, Len(mq)) = mq  BY <1>4
      <4>. HIDE DEF q
      <4>. QED  BY <4>1, <4>2, <4>3
    <3>2. m = [mq |-> q, timer |-> mcTimer, fed |-> FALSE, gone |-> <<>>]  BY <2>2
    <3>. HIDE DEF m, q
    <3>. QED  BY <1>2, <1>4, <3>1, <3>2 DEF WaitingHasTimer
  <2>. QED  BY <2>1, <2>2, ZenonT(40)
<1>. HIDE DEF m, u
<1>11. fed' \in BOOLEAN  BY <1>2
<1>12. TypeOK'
  BY <1>3, <1>5, <1>7, <1>10, <1>11 DEF TypeOK
<1>. QED  BY <1>7, <1>10, <1>12 DEF WaitingHasTimer

LEMMA TxTimerInv ==
  ASSUME TxInv, TxTimer
  PROVE  TxInv'
<1>. USE DEF TxInv
<1>. DEFINE u == SendUnicast(next, Off)
<1>1. /\ next' = u.next /\ txTimer' = u.timer /\ fed' = (fed \/ u.fed)
      /\ time' = time /\ host' = host /\ mq' = mq /\ mcTimer' = mcTimer
      /\ match' = match /\ arrived' = arrived /\ events' = events
  BY DEF TxTimer
<1>. HIDE DEF u
<1>2. /\ u.next \in Frames \cup {None} /\ u.timer \in Timers /\ u.fed \in BOOLEAN
      /\ u.next # None => u.timer # Off
  BY SendUnicastFacts, Zenon DEF TypeOK, Timers, u
<1>3. fed' \in BOOLEAN  BY <1>1
<1>4. TypeOK'  BY <1>1, <1>2, <1>3 DEF TypeOK
<1>. QED  BY <1>1, <1>2, <1>4 DEF WaitingHasTimer

LEMMA McTimerInv ==
  ASSUME TxInv, McTimer
  PROVE  TxInv'
<1>. USE DEF TxInv
<1>. DEFINE m == SendMulticast(mq, Off)
<1>1. /\ mq' = m.mq /\ mcTimer' = m.timer /\ fed' = (fed \/ m.fed)
      /\ time' = time /\ host' = host /\ next' = next /\ txTimer' = txTimer
      /\ match' = match /\ arrived' = arrived /\ events' = events
  BY DEF McTimer
<1>. HIDE DEF m
<1>2. /\ m.mq \in Seq(Frames) /\ Len(m.mq) <= Len(mq)
      /\ m.timer \in Timers /\ m.fed \in BOOLEAN
      /\ m.mq # <<>> => m.timer # Off
  BY SendMulticastFacts, Zenon DEF TypeOK, Timers, m
<1>3. fed' \in BOOLEAN  BY <1>1
<1>4. Len(mq') <= Cap
  <2>1. Len(m.mq) \in Nat /\ Len(mq) \in Nat /\ Len(mq) <= Cap /\ Cap \in Nat
    BY <1>2, HostTxAssumption DEF TypeOK
  <2>. QED  BY <1>1, <1>2, <2>1
<1>5. TypeOK'  BY <1>1, <1>2, <1>3, <1>4 DEF TypeOK
<1>. QED  BY <1>1, <1>2, <1>5 DEF WaitingHasTimer

LEMMA HostArriveInv ==
  ASSUME TxInv, NEW to \in Kinds, HostArrive(to)
  PROVE  TxInv'
<1>. USE DEF TxInv
<1>. DEFINE f == [id |-> Len(arrived) + 1, to |-> to]
<1>1. host' = Append(host, f) /\ arrived' = Append(arrived, f) /\ Len(arrived) < MaxFrames
  BY DEF HostArrive
<1>2. Len(arrived) \in Nat /\ MaxFrames \in Nat  BY HostTxAssumption DEF TypeOK
<1>3. Len(arrived) + 1 \in 1 .. MaxFrames  BY <1>1, <1>2
<1>4. f \in Frames  BY <1>3 DEF Frames
<1>. HIDE DEF f
<1>5. host' \in Seq(Frames) /\ arrived' \in Seq(Frames)
  BY <1>1, <1>4 DEF TypeOK
<1>6. UNCHANGED <<time, next, mq, txTimer, mcTimer, fed, match, events>>
  BY DEF HostArrive
<1>7. TypeOK'  BY <1>5, <1>6 DEF TypeOK
<1>. QED  BY <1>6, <1>7 DEF WaitingHasTimer

\* Changes of the peer table and of the synchronisation leave frames and
\* timers alone.
LEMMA EventsInv ==
  ASSUME TxInv, \/ \E p \in Peers : PeerLeave(p) \/ \E slots \in Matches : PeerJoin(p, slots) \/ PeerUpdate(p, slots)
                \/ \E t \in Times : SyncJump(t)
  PROVE  TxInv'
<1>. USE DEF TxInv
<1>1. ASSUME NEW p \in Peers, PeerLeave(p) PROVE TxInv'
  <2>1. events' \in 0 .. MaxEvents
    BY <1>1, HostTxAssumption DEF PeerLeave, TypeOK
  <2>2. DOMAIN match' \subseteq Peers /\ \A a \in DOMAIN match' : match'[a] \in Matches
    BY <1>1 DEF PeerLeave, TypeOK
  <2>3. UNCHANGED <<time, host, next, mq, txTimer, mcTimer, fed, arrived>>
    BY <1>1 DEF PeerLeave
  <2>4. TypeOK'  BY <2>1, <2>2, <2>3 DEF TypeOK
  <2>. QED  BY <2>3, <2>4 DEF WaitingHasTimer
<1>2. ASSUME NEW p \in Peers, NEW slots \in Matches, PeerUpdate(p, slots) PROVE TxInv'
  <2>1. events' \in 0 .. MaxEvents
    BY <1>2, HostTxAssumption DEF PeerUpdate, TypeOK
  <2>2. DOMAIN match' \subseteq Peers /\ \A a \in DOMAIN match' : match'[a] \in Matches
    BY <1>2 DEF PeerUpdate, TypeOK
  <2>3. UNCHANGED <<time, host, next, mq, txTimer, mcTimer, fed, arrived>>
    BY <1>2 DEF PeerUpdate
  <2>4. TypeOK'  BY <2>1, <2>2, <2>3 DEF TypeOK
  <2>. QED  BY <2>3, <2>4 DEF WaitingHasTimer
<1>3. ASSUME NEW t \in Times, SyncJump(t) PROVE TxInv'
  <2>1. events' \in 0 .. MaxEvents
    BY <1>3, HostTxAssumption DEF SyncJump, TypeOK
  <2>2. time' \in Times /\ UNCHANGED <<host, next, mq, txTimer, mcTimer, fed, match, arrived>>
    BY <1>3 DEF SyncJump
  <2>3. TypeOK'  BY <2>1, <2>2 DEF TypeOK
  <2>. QED  BY <2>2, <2>3 DEF WaitingHasTimer
<1>4. ASSUME NEW p \in Peers, NEW slots \in Matches, PeerJoin(p, slots) PROVE TxInv'
  <2>1. DOMAIN match' \subseteq Peers /\ \A a \in DOMAIN match' : match'[a] \in Matches
    BY <1>4 DEF PeerJoin, TypeOK
  <2>2. UNCHANGED <<time, host, next, mq, txTimer, mcTimer, fed, arrived, events>>
    BY <1>4 DEF PeerJoin
  <2>3. TypeOK'  BY <2>1, <2>2 DEF TypeOK
  <2>. QED  BY <2>2, <2>3 DEF WaitingHasTimer
<1>. QED  BY <1>1, <1>2, <1>3, <1>4

\* A timer that runs keeps running until it fires.
LEMMA TickInv ==
  ASSUME TxInv, Tick
  PROVE  TxInv'
<1>. USE DEF TxInv
<1>1. UNCHANGED <<host, next, mq, fed, match, arrived, events>>
  BY DEF Tick
<1>2. time' \in Times
  <2>. DEFINE N == Eaw * Slots
  <2>1. N \in Nat /\ N > 0  BY HostTxAssumption
  <2>2. time \in Nat /\ time' = (time + 1) % N  BY <2>1 DEF TypeOK, Times, Tick
  <2>. HIDE DEF N
  <2>3. time' \in 0 .. N - 1  BY <2>1, <2>2
  <2>. QED  BY <2>3 DEF Times, N
<1>3. ASSUME NEW tm \in Timers, tm # 0
      PROVE  Down(tm) \in Timers /\ (tm # Off => Down(tm) # Off)
  BY <1>3, HostTxAssumption DEF Timers, Down
<1>4. /\ txTimer' \in Timers /\ (txTimer # Off => txTimer' # Off)
      /\ mcTimer' \in Timers /\ (mcTimer # Off => mcTimer' # Off)
  BY <1>3 DEF Tick, TypeOK
<1>5. TypeOK'  BY <1>1, <1>2, <1>4 DEF TypeOK
<1>. QED  BY <1>1, <1>4, <1>5 DEF WaitingHasTimer

-----------------------------------------------------------------------------
(***************************************************************************)
(* No interleaving of the host, the timers, changes of the peers and jumps *)
(* of the synchronisation leaves a frame without a timer, for every slot   *)
(* length, guard, queue capacity and channel sequence.                     *)
(***************************************************************************)
THEOREM NoFrameStranded == Spec => [](TypeOK /\ WaitingHasTimer)
<1>1. TxInv /\ [Next]_vars => TxInv'
  <2>. SUFFICES ASSUME TxInv, [Next]_vars PROVE TxInv'  OBVIOUS
  <2>1. CASE HostReady  BY <2>1, HostReadyInv
  <2>2. CASE TxTimer  BY <2>2, TxTimerInv
  <2>3. CASE McTimer  BY <2>3, McTimerInv
  <2>4. CASE Tick  BY <2>4, TickInv
  <2>5. CASE \E to \in Kinds : HostArrive(to)  BY <2>5, HostArriveInv
  <2>6. CASE \/ \E p \in Peers : PeerLeave(p) \/ \E slots \in Matches : PeerJoin(p, slots) \/ PeerUpdate(p, slots)
             \/ \E t \in Times : SyncJump(t)
    BY <2>6, EventsInv
  <2>7. CASE UNCHANGED vars
    BY <2>7 DEF vars, TxInv, TypeOK, WaitingHasTimer
  <2>. QED  BY <2>1, <2>2, <2>3, <2>4, <2>5, <2>6, <2>7, Zenon DEF Next, Loop
<1>2. TxInv => TypeOK /\ WaitingHasTimer  BY DEF TxInv
<1>. QED  BY TxInit, <1>1, <1>2, PTL DEF Spec

(***************************************************************************)
(* The queue never exceeds its capacity and no timer gets a negative       *)
(* delay, whatever the order of the callbacks.                             *)
(***************************************************************************)
THEOREM TransmitTypes == Spec => []TypeOK
<1>1. TypeOK /\ WaitingHasTimer => TypeOK  OBVIOUS
<1>. QED  BY <1>1, NoFrameStranded, PTL

-----------------------------------------------------------------------------
(***************************************************************************)
(* Frames on their way: g are gone, x is read ahead or None, q is queued,  *)
(* h is still with the host, and a are all that arrived.  h is the end of  *)
(* a, the others are in one place before it, in order of class.            *)
(***************************************************************************)
In(f, s) == \E i \in 1 .. Len(s) : s[i] = f

Count(x) == IF x = None THEN 0 ELSE 1

Kept(g, x, q, h, a) ==
  /\ g \in Seq(Frames) /\ q \in Seq(Frames) /\ h \in Seq(Frames) /\ a \in Seq(Frames)
  /\ x \in Frames \cup {None}
  /\ \A i \in 1 .. Len(a) : a[i].id = i
  /\ Len(a) - Len(h) = Len(g) + Count(x) + Len(q)
  /\ \A i \in 1 .. Len(h) : h[i] = a[(Len(a) - Len(h)) + i]
  /\ \A i \in 1 .. Len(a) - Len(h) : In(a[i], g) \/ x = a[i] \/ In(a[i], q)
  /\ \A i \in 1 .. Len(g) : g[i].id <= Len(a) - Len(h)
  /\ \A i \in 1 .. Len(q) : q[i].id <= Len(a) - Len(h) /\ Class(q[i]) = "multicast"
  /\ x # None => x.id <= Len(a) - Len(h) /\ Class(x) = "unicast"
  /\ \A i, j \in 1 .. Len(g) : i < j /\ Class(g[i]) = Class(g[j]) => g[i].id < g[j].id
  /\ \A i, j \in 1 .. Len(q) : i < j => q[i].id < q[j].id
  /\ \A i \in 1 .. Len(g) : \A j \in 1 .. Len(q) :
       Class(g[i]) = "multicast" => g[i].id < q[j].id
  /\ \A i \in 1 .. Len(g) :
       x # None /\ Class(g[i]) = "unicast" => g[i].id < x.id

LEMMA FrameType ==
  ASSUME NEW s \in Seq(Frames)
  PROVE  \A i \in 1 .. Len(s) : s[i] \in Frames /\ s[i].id \in Int
<1>1. \A i \in 1 .. Len(s) : s[i] \in Frames  OBVIOUS
<1>2. \A f \in Frames : f.id \in Int  BY HostTxAssumption DEF Frames
<1>. QED  BY <1>1, <1>2

LEMMA Joined ==
  ASSUME NEW s \in Seq(Frames), NEW t \in Seq(Frames)
  PROVE  /\ s \o t \in Seq(Frames) /\ Len(s \o t) = Len(s) + Len(t)
         /\ \A i \in 1 .. Len(s) : (s \o t)[i] = s[i]
         /\ \A i \in 1 .. Len(t) : (s \o t)[Len(s) + i] = t[i]
<1>1. Len(s) \in Nat /\ Len(t) \in Nat  OBVIOUS
<1>2. s \o t \in Seq(Frames) /\ Len(s \o t) = Len(s) + Len(t)  OBVIOUS
<1>3. \A i \in 1 .. Len(s) + Len(t) :
        (s \o t)[i] = IF i <= Len(s) THEN s[i] ELSE t[i - Len(s)]
  OBVIOUS
<1>4. \A i \in 1 .. Len(s) : (s \o t)[i] = s[i]  BY <1>1, <1>3
<1>5. ASSUME NEW i \in 1 .. Len(t) PROVE (s \o t)[Len(s) + i] = t[i]
  <2>1. /\ Len(s) + i \in 1 .. Len(s) + Len(t) /\ ~(Len(s) + i <= Len(s))
        /\ (Len(s) + i) - Len(s) = i
    BY <1>1
  <2>. QED  BY <1>3, <2>1
<1>. QED  BY <1>2, <1>4, <1>5

\* poll_host_device reads multicast frames into the queue, in order.
LEMMA ReadsMulticast ==
  ASSUME NEW g, NEW x, NEW q, NEW h, NEW a, Kept(g, x, q, h, a),
         NEW k \in 0 .. Len(h), \A i \in 1 .. k : Class(h[i]) = "multicast"
  PROVE  Kept(g, x, q \o SubSeq(h, 1, k), SubSeq(h, k + 1, Len(h)), a)
<1>. DEFINE s == SubSeq(h, 1, k)
            t == SubSeq(h, k + 1, Len(h))
            p == q \o s
            r == Len(a) - Len(h)
<1>1. /\ g \in Seq(Frames) /\ q \in Seq(Frames) /\ h \in Seq(Frames) /\ a \in Seq(Frames)
      /\ x \in Frames \cup {None}
      /\ r = Len(g) + Count(x) + Len(q)
  BY DEF Kept
<1>2. /\ Len(g) \in Nat /\ Len(q) \in Nat /\ Len(h) \in Nat /\ Len(a) \in Nat
      /\ k \in Nat /\ k <= Len(h) /\ Count(x) \in Nat /\ r \in Nat /\ r + Len(h) = Len(a)
  BY <1>1 DEF Count
<1>3. s \in Seq(Frames) /\ Len(s) = k /\ \A i \in 1 .. k : s[i] = h[i]
  BY <1>1, <1>2
<1>4. t \in Seq(Frames) /\ Len(t) = Len(h) - k /\ \A i \in 1 .. Len(h) - k : t[i] = h[k + i]
  BY <1>1, <1>2
<1>. HIDE DEF s, t
<1>5. /\ p \in Seq(Frames) /\ Len(p) = Len(q) + k
      /\ \A i \in 1 .. Len(q) : p[i] = q[i]
      /\ \A i \in 1 .. k : p[Len(q) + i] = h[i]
  <2>1. /\ p \in Seq(Frames) /\ Len(p) = Len(q) + Len(s)
        /\ \A i \in 1 .. Len(q) : p[i] = q[i]
        /\ \A i \in 1 .. Len(s) : p[Len(q) + i] = s[i]
    BY <1>1, <1>3, Joined, Zenon
  <2>. HIDE DEF p
  <2>. QED  BY <1>3, <2>1, Zenon
<1>. HIDE DEF p
<1>p. Len(p) = Len(q) + k  BY <1>5
<1>6. Len(a) - Len(t) = r + k  BY <1>2, <1>4
<1>7. \A i \in 1 .. Len(h) : h[i] = a[r + i]  BY DEF Kept
<1>8. \A i \in 1 .. k : h[i] = a[r + i] /\ r + i \in 1 .. Len(a) /\ h[i].id = r + i
  <2>1. \A i \in 1 .. Len(a) : a[i].id = i  BY DEF Kept
  <2>2. \A i \in 1 .. k : i \in 1 .. Len(h) /\ r + i \in 1 .. Len(a)
    <3>. HIDE DEF r
    <3>. QED  BY <1>2
  <2>. HIDE DEF r
  <2>. QED  BY <1>7, <2>1, <2>2
<1>9. \A i \in 1 .. Len(g) : g[i].id \in Int /\ g[i].id <= r
  <2>1. \A i \in 1 .. Len(g) : g[i].id \in Int  BY <1>1, FrameType
  <2>. QED  BY <2>1 DEF Kept
<1>10. \A i \in 1 .. Len(q) : q[i].id \in Int /\ q[i].id <= r /\ Class(q[i]) = "multicast"
  <2>1. \A i \in 1 .. Len(q) : q[i].id \in Int  BY <1>1, FrameType
  <2>. QED  BY <2>1 DEF Kept
<1>11. \A i \in 1 .. r : In(a[i], g) \/ x = a[i] \/ In(a[i], q)  BY ZenonT(40) DEF Kept
<1>12. x # None => x.id \in Int /\ x.id <= r /\ Class(x) = "unicast"
  <2>1. x # None => x.id \in Int  BY <1>1 DEF Frames
  <2>. QED  BY <2>1 DEF Kept
<1>13. /\ \A i, j \in 1 .. Len(q) : i < j => q[i].id < q[j].id
       /\ \A i \in 1 .. Len(g) : \A j \in 1 .. Len(q) :
            Class(g[i]) = "multicast" => g[i].id < q[j].id
  BY DEF Kept
<1>. HIDE DEF r
<1>14. \A i \in 1 .. Len(t) : t[i] = a[(r + k) + i]
  <2>. SUFFICES ASSUME NEW i \in 1 .. Len(h) - k PROVE t[i] = a[(r + k) + i]
    BY <1>4
  <2>1. k + i \in 1 .. Len(h) /\ r + (k + i) = (r + k) + i  BY <1>2
  <2>2. h[k + i] = a[r + (k + i)]  BY <1>7, <2>1
  <2>. QED  BY <1>4, <2>1, <2>2
<1>15. \A i \in 1 .. r + k : In(a[i], g) \/ x = a[i] \/ In(a[i], p)
  <2>. SUFFICES ASSUME NEW i \in 1 .. r + k PROVE In(a[i], g) \/ x = a[i] \/ In(a[i], p)
    OBVIOUS
  <2>1. CASE i <= r
    <3>1. i \in 1 .. r  BY <2>1, <1>2
    <3>2. In(a[i], q) => In(a[i], p)
      <4>1. \A j \in 1 .. Len(q) : j \in 1 .. Len(p) /\ p[j] = q[j]  BY <1>2, <1>5
      <4>. QED  BY <4>1 DEF In
    <3>. QED  BY <1>11, <3>1, <3>2
  <2>2. CASE i > r
    <3>. DEFINE j == i - r
    <3>1. j \in 1 .. k /\ r + j = i  BY <2>2, <1>2
    <3>. HIDE DEF j
    <3>2. Len(q) + j \in 1 .. Len(p)  BY <1>2, <1>5, <3>1
    <3>3. p[Len(q) + j] = a[i]  BY <1>5, <1>8, <3>1
    <3>. QED  BY <3>2, <3>3 DEF In
  <2>. QED  BY <2>1, <2>2, <1>2
<1>16. ASSUME NEW i \in 1 .. Len(p)
       PROVE  \/ i \in 1 .. Len(q) /\ p[i] = q[i]
              \/ i > Len(q) /\ p[i].id = r + (i - Len(q)) /\ Class(p[i]) = "multicast"
  <2>1. CASE i <= Len(q)  BY <1>2, <1>5, <2>1
  <2>2. CASE i > Len(q)
    <3>. DEFINE j == i - Len(q)
    <3>1. j \in 1 .. k /\ Len(q) + j = i /\ j = i - Len(q)  BY <1>2, <1>p, <2>2
    <3>. HIDE DEF j
    <3>2. p[i] = h[j]  BY <1>5, <3>1
    <3>. QED  BY <1>8, <2>2, <3>1, <3>2
  <2>. QED  BY <1>2, <1>5, <2>1, <2>2
<1>17. \A i \in 1 .. Len(p) : p[i].id <= r + k /\ Class(p[i]) = "multicast"
  <2>. SUFFICES ASSUME NEW i \in 1 .. Len(p)
                PROVE  p[i].id <= r + k /\ Class(p[i]) = "multicast"
    OBVIOUS
  <2>1. CASE i \in 1 .. Len(q) /\ p[i] = q[i]
    <3>1. \A v \in Int : v <= r => v <= r + k  BY <1>2
    <3>. QED  BY <1>10, <2>1, <3>1, Zenon
  <2>2. CASE i > Len(q) /\ p[i].id = r + (i - Len(q)) /\ Class(p[i]) = "multicast"
    <3>1. r + (i - Len(q)) <= r + k  BY <1>2, <1>p, <2>2
    <3>. QED  BY <2>2, <3>1, Zenon
  <2>. QED  BY <1>16, <2>1, <2>2
<1>18. \A i, j \in 1 .. Len(p) : i < j => p[i].id < p[j].id
  <2>. SUFFICES ASSUME NEW i \in 1 .. Len(p), NEW j \in 1 .. Len(p), i < j
                PROVE  p[i].id < p[j].id
    OBVIOUS
  <2>1. CASE j \in 1 .. Len(q)
    <3>1. i \in 1 .. Len(q)  BY <1>2, <1>p, <2>1
    <3>. QED  BY <1>5, <1>13, <2>1, <3>1, Zenon
  <2>2. CASE j \notin 1 .. Len(q)
    <3>1. p[j].id = r + (j - Len(q)) /\ j > Len(q)  BY <1>16, <2>2, Zenon
    <3>2. CASE i \in 1 .. Len(q)
      <4>1. p[i].id \in Int /\ p[i].id <= r  BY <1>5, <1>10, <3>2, Zenon
      <4>2. \A v \in Int : v <= r => v < r + (j - Len(q))  BY <1>2, <1>p, <3>1
      <4>. QED  BY <3>1, <4>1, <4>2, Zenon
    <3>3. CASE i \notin 1 .. Len(q)
      <4>1. p[i].id = r + (i - Len(q))  BY <1>16, <3>3, Zenon
      <4>2. r + (i - Len(q)) < r + (j - Len(q))  BY <1>2, <1>p
      <4>. QED  BY <3>1, <4>1, <4>2, Zenon
    <3>. QED  BY <3>2, <3>3
  <2>. QED  BY <2>1, <2>2
<1>19. \A i \in 1 .. Len(g) : \A j \in 1 .. Len(p) :
         Class(g[i]) = "multicast" => g[i].id < p[j].id
  <2>. SUFFICES ASSUME NEW i \in 1 .. Len(g), NEW j \in 1 .. Len(p),
                       Class(g[i]) = "multicast"
                PROVE  g[i].id < p[j].id
    OBVIOUS
  <2>1. CASE j \in 1 .. Len(q) /\ p[j] = q[j]  BY <1>13, <2>1
  <2>2. CASE j > Len(q) /\ p[j].id = r + (j - Len(q))
    <3>1. \A v \in Int : v <= r => v < r + (j - Len(q))  BY <1>2, <1>p, <2>2
    <3>. QED  BY <1>9, <2>2, <3>1, Zenon
  <2>. QED  BY <1>16, <2>1, <2>2, Zenon
<1>20. r + k = Len(g) + Count(x) + Len(p)
  <2>1. r = Len(g) + Count(x) + Len(q)  BY <1>1
  <2>. QED  BY <1>2, <1>p, <2>1, SMTT(30)
<1>21. \A i \in 1 .. Len(g) : g[i].id <= r + k  BY <1>2, <1>9
<1>22. x # None => x.id <= r + k /\ Class(x) = "unicast"  BY <1>2, <1>12
<1>23. Kept(g, x, p, t, a)
  <2>1. /\ \A i \in 1 .. Len(a) : a[i].id = i
        /\ \A i, j \in 1 .. Len(g) : i < j /\ Class(g[i]) = Class(g[j]) => g[i].id < g[j].id
        /\ \A i \in 1 .. Len(g) : x # None /\ Class(g[i]) = "unicast" => g[i].id < x.id
    BY DEF Kept
  <2>. QED
    BY <1>1, <1>4, <1>5, <1>6, <1>14, <1>15, <1>17, <1>18, <1>19, <1>20, <1>21, <1>22,
       <2>1, Zenon DEF Kept
<1>. QED  BY <1>23 DEF p, t, s

LEMMA Appended ==
  ASSUME NEW g \in Seq(Frames), NEW f \in Frames
  PROVE  /\ g \o <<f>> \in Seq(Frames) /\ Len(g \o <<f>>) = Len(g) + 1
         /\ \A i \in 1 .. Len(g) : (g \o <<f>>)[i] = g[i]
         /\ (g \o <<f>>)[Len(g) + 1] = f
         /\ \A e : In(e, g \o <<f>>) <=> In(e, g) \/ e = f
<1>. DEFINE p == g \o <<f>>
<1>0. <<f>> \in Seq(Frames) /\ Len(<<f>>) = 1 /\ <<f>>[1] = f /\ Len(g) \in Nat  OBVIOUS
<1>1. /\ p \in Seq(Frames) /\ Len(p) = Len(g) + 1
      /\ \A i \in 1 .. Len(g) : p[i] = g[i]
      /\ \A i \in 1 .. 1 : p[Len(g) + i] = <<f>>[i]
  BY <1>0, Joined
<1>2. p[Len(g) + 1] = f  BY <1>0, <1>1
<1>. HIDE DEF p
<1>3. \A e : In(e, p) <=> In(e, g) \/ e = f
  <2>1. \A i : i \in 1 .. Len(p) <=> i \in 1 .. Len(g) \/ i = Len(g) + 1  BY <1>0, <1>1
  <2>. QED  BY <1>1, <1>2, <2>1 DEF In
<1>. QED  BY <1>1, <1>2, <1>3, Zenon DEF p

\* The frame read ahead leaves.
LEMMA SendsUnicast ==
  ASSUME NEW g, NEW x, NEW q, NEW h, NEW a, Kept(g, x, q, h, a), x # None
  PROVE  Kept(g \o <<x>>, None, q, h, a)
<1>. DEFINE p == g \o <<x>>
            r == Len(a) - Len(h)
<1>1. g \in Seq(Frames) /\ x \in Frames /\ Len(g) \in Nat /\ Len(q) \in Nat  BY DEF Kept
<1>2. /\ p \in Seq(Frames) /\ Len(p) = Len(g) + 1
      /\ \A i \in 1 .. Len(g) : p[i] = g[i]
      /\ p[Len(g) + 1] = x
      /\ \A e : In(e, p) <=> In(e, g) \/ e = x
  BY <1>1, Appended
<1>. HIDE DEF p
<1>3. \A i \in 1 .. Len(p) : i \in 1 .. Len(g) \/ i = Len(g) + 1  BY <1>1, <1>2
<1>4. x.id <= r /\ Class(x) = "unicast"  BY DEF Kept
<1>5. r = Len(p) + Count(None) + Len(q)
  <2>1. r = Len(g) + 1 + Len(q)  BY DEF Kept, Count
  <2>. QED  BY <1>1, <1>2, <2>1 DEF Count
<1>6. \A i \in 1 .. r : In(a[i], p) \/ None = a[i] \/ In(a[i], q)  BY <1>2 DEF Kept
<1>7. \A i \in 1 .. Len(p) : p[i].id <= r
  <2>1. \A i \in 1 .. Len(g) : g[i].id <= r  BY DEF Kept
  <2>. QED  BY <1>2, <1>3, <1>4, <2>1
<1>8. \A i, j \in 1 .. Len(p) : i < j /\ Class(p[i]) = Class(p[j]) => p[i].id < p[j].id
  <2>. SUFFICES ASSUME NEW i \in 1 .. Len(p), NEW j \in 1 .. Len(p), i < j,
                       Class(p[i]) = Class(p[j])
                PROVE  p[i].id < p[j].id
    OBVIOUS
  <2>1. i \in 1 .. Len(g)  BY <1>1, <1>2
  <2>2. CASE j \in 1 .. Len(g)  BY <1>2, <2>1, <2>2, ZenonT(40) DEF Kept
  <2>3. CASE j = Len(g) + 1  BY <1>2, <1>4, <2>1, <2>3, Zenon DEF Kept
  <2>. QED  BY <1>3, <2>2, <2>3
<1>9. \A i \in 1 .. Len(p) : \A j \in 1 .. Len(q) :
        Class(p[i]) = "multicast" => p[i].id < q[j].id
  <2>1. \A i \in 1 .. Len(g) : \A j \in 1 .. Len(q) :
          Class(g[i]) = "multicast" => g[i].id < q[j].id
    BY DEF Kept
  <2>2. Class(x) # "multicast"  BY <1>4
  <2>. QED  BY <1>2, <1>3, <2>1, <2>2
<1>10. Kept(p, None, q, h, a)
  <2>1. /\ q \in Seq(Frames) /\ h \in Seq(Frames) /\ a \in Seq(Frames)
        /\ \A i \in 1 .. Len(a) : a[i].id = i
        /\ \A i \in 1 .. Len(h) : h[i] = a[r + i]
        /\ \A i \in 1 .. Len(q) : q[i].id <= r /\ Class(q[i]) = "multicast"
        /\ \A i, j \in 1 .. Len(q) : i < j => q[i].id < q[j].id
    BY DEF Kept
  <2>. QED  BY <1>2, <1>5, <1>6, <1>7, <1>8, <1>9, <2>1, Zenon DEF Kept
<1>. QED  BY <1>10 DEF p

\* The oldest frame of the queue leaves.
LEMMA SendsMulticast ==
  ASSUME NEW g, NEW x, NEW q, NEW h, NEW a, Kept(g, x, q, h, a), q # <<>>
  PROVE  Kept(g \o <<Head(q)>>, x, Tail(q), h, a)
<1>. DEFINE f == Head(q)
            t == Tail(q)
            p == g \o <<f>>
            r == Len(a) - Len(h)
<1>1. g \in Seq(Frames) /\ q \in Seq(Frames) /\ Len(g) \in Nat /\ Len(q) \in Nat  BY DEF Kept
<1>2. /\ f \in Frames /\ f = q[1] /\ Len(q) > 0
      /\ t \in Seq(Frames) /\ Len(t) = Len(q) - 1
      /\ \A i \in 1 .. Len(q) - 1 : t[i] = q[i + 1]
  BY <1>1
<1>. HIDE DEF f, t
<1>3. /\ p \in Seq(Frames) /\ Len(p) = Len(g) + 1
      /\ \A i \in 1 .. Len(g) : p[i] = g[i]
      /\ p[Len(g) + 1] = f
      /\ \A e : In(e, p) <=> In(e, g) \/ e = f
  BY <1>1, <1>2, Appended
<1>. HIDE DEF p
<1>4. \A i \in 1 .. Len(p) : i \in 1 .. Len(g) \/ i = Len(g) + 1  BY <1>1, <1>3
<1>5. 1 \in 1 .. Len(q) /\ \A i \in 1 .. Len(t) : i + 1 \in 1 .. Len(q) /\ 1 < i + 1
                                                  /\ t[i] = q[i + 1]
  BY <1>1, <1>2
<1>6. /\ f.id <= r /\ Class(f) = "multicast"
      /\ \A i \in 1 .. Len(g) : \A j \in 1 .. Len(q) :
           Class(g[i]) = "multicast" => g[i].id < q[j].id
  <2>1. /\ \A i \in 1 .. Len(q) : q[i].id <= r /\ Class(q[i]) = "multicast"
        /\ \A i \in 1 .. Len(g) : \A j \in 1 .. Len(q) :
             Class(g[i]) = "multicast" => g[i].id < q[j].id
    BY DEF Kept
  <2>. QED  BY <1>2, <1>5, <2>1, Zenon
<1>7. r = Len(p) + Count(x) + Len(t)
  <2>1. r = Len(g) + Count(x) + Len(q) /\ Count(x) \in Nat  BY DEF Kept, Count
  <2>. QED  BY <1>1, <1>2, <1>3, <2>1
<1>8. \A e : In(e, q) => In(e, p) \/ In(e, t)
  <2>1. ASSUME NEW i \in 1 .. Len(q) PROVE In(q[i], p) \/ In(q[i], t)
    <3>1. CASE i = 1  BY <1>2, <1>3, <3>1, Zenon
    <3>2. CASE i # 1
      <4>1. i - 1 \in 1 .. Len(t) /\ t[i - 1] = q[i]  BY <1>1, <1>2, <3>2
      <4>. QED  BY <4>1, Zenon DEF In
    <3>. QED  BY <3>1, <3>2
  <2>. QED  BY <2>1, Zenon DEF In
<1>9. \A i \in 1 .. r : In(a[i], p) \/ x = a[i] \/ In(a[i], t)
  BY <1>3, <1>8 DEF Kept
<1>10. \A i \in 1 .. Len(p) : p[i].id <= r
  <2>1. \A i \in 1 .. Len(g) : g[i].id <= r  BY DEF Kept
  <2>. QED  BY <1>3, <1>4, <1>6, <2>1, Zenon
<1>11. \A i \in 1 .. Len(t) : t[i].id <= r /\ Class(t[i]) = "multicast"
  <2>1. \A i \in 1 .. Len(q) : q[i].id <= r /\ Class(q[i]) = "multicast"  BY DEF Kept
  <2>. QED  BY <1>5, <2>1, Zenon
<1>12. \A i, j \in 1 .. Len(p) : i < j /\ Class(p[i]) = Class(p[j]) => p[i].id < p[j].id
  <2>. SUFFICES ASSUME NEW i \in 1 .. Len(p), NEW j \in 1 .. Len(p), i < j,
                       Class(p[i]) = Class(p[j])
                PROVE  p[i].id < p[j].id
    OBVIOUS
  <2>1. i \in 1 .. Len(g)  BY <1>1, <1>3
  <2>2. CASE j \in 1 .. Len(g)  BY <1>3, <2>1, <2>2, Zenon DEF Kept
  <2>3. CASE j = Len(g) + 1
    <3>1. Class(g[i]) = "multicast"  BY <1>3, <1>6, <2>1, <2>3
    <3>2. g[i].id < q[1].id  BY <1>5, <1>6, <2>1, <3>1, Zenon
    <3>. QED  BY <1>2, <1>3, <2>1, <2>3, <3>2, Zenon
  <2>. QED  BY <1>4, <2>2, <2>3
<1>13. \A i, j \in 1 .. Len(q) : i < j => q[i].id < q[j].id  BY DEF Kept
<1>14. \A i, j \in 1 .. Len(t) : i < j => t[i].id < t[j].id
  <2>. SUFFICES ASSUME NEW i \in 1 .. Len(t), NEW j \in 1 .. Len(t), i < j
                PROVE  t[i].id < t[j].id
    OBVIOUS
  <2>1. i + 1 < j + 1  BY <1>1, <1>2
  <2>. QED  BY <1>5, <1>13, <2>1, Zenon
<1>15. \A i \in 1 .. Len(p) : \A j \in 1 .. Len(t) :
         Class(p[i]) = "multicast" => p[i].id < t[j].id
  <2>. SUFFICES ASSUME NEW i \in 1 .. Len(p), NEW j \in 1 .. Len(t),
                       Class(p[i]) = "multicast"
                PROVE  p[i].id < t[j].id
    OBVIOUS
  <2>1. CASE i \in 1 .. Len(g)  BY <1>3, <1>5, <1>6, <2>1, Zenon
  <2>2. CASE i = Len(g) + 1  BY <1>2, <1>3, <1>5, <1>13, <2>2, ZenonT(40)
  <2>. QED  BY <1>4, <2>1, <2>2
<1>16. \A i \in 1 .. Len(p) : x # None /\ Class(p[i]) = "unicast" => p[i].id < x.id
  <2>1. \A i \in 1 .. Len(g) : x # None /\ Class(g[i]) = "unicast" => g[i].id < x.id
    BY DEF Kept
  <2>2. Class(f) # "unicast"  BY <1>6
  <2>. QED  BY <1>3, <1>4, <2>1, <2>2
<1>17. Kept(p, x, t, h, a)
  <2>1. /\ h \in Seq(Frames) /\ a \in Seq(Frames) /\ x \in Frames \cup {None}
        /\ \A i \in 1 .. Len(a) : a[i].id = i
        /\ \A i \in 1 .. Len(h) : h[i] = a[r + i]
        /\ x # None => x.id <= r /\ Class(x) = "unicast"
    BY DEF Kept
  <2>. QED
    BY <1>2, <1>3, <1>7, <1>9, <1>10, <1>11, <1>12, <1>14, <1>15, <1>16, <2>1, Zenon DEF Kept
<1>. QED  BY <1>17 DEF p, f, t

\* t is h without its first frame.
IsTail(t, h) ==
  /\ t \in Seq(Frames) /\ Len(h) > 0 /\ Len(t) = Len(h) - 1
  /\ \A i \in 1 .. Len(t) : t[i] = h[i + 1]

LEMMA FirstOff ==
  ASSUME NEW s \in Seq(Frames), NEW n \in 1 .. Len(s)
  PROVE  /\ IsTail(SubSeq(s, n + 1, Len(s)), SubSeq(s, n, Len(s)))
         /\ SubSeq(s, n, Len(s))[1] = s[n]
<1>. DEFINE t == SubSeq(s, n + 1, Len(s))
            u == SubSeq(s, n, Len(s))
            k == Len(s) - n
<1>1. Len(s) \in Nat /\ n \in Nat /\ 1 <= n /\ n <= Len(s)  OBVIOUS
<1>2. t \in Seq(Frames) /\ Len(t) = k /\ \A i \in 1 .. k : t[i] = s[n + i]  BY <1>1
<1>3. u \in Seq(Frames) /\ Len(u) = k + 1 /\ \A i \in 1 .. k + 1 : u[i] = s[n + i - 1]
  BY <1>1
<1>4. /\ Len(u) > 0 /\ Len(t) = Len(u) - 1 /\ 1 \in 1 .. k + 1 /\ n + 1 - 1 = n
      /\ \A i \in 1 .. k : i + 1 \in 1 .. k + 1 /\ n + (i + 1) - 1 = n + i
  <2>1. k \in Nat  BY <1>1
  <2>2. Len(t) = k /\ Len(u) = k + 1  BY <1>2, <1>3
  <2>. HIDE DEF t, u
  <2>. QED  BY <1>1, <2>1, <2>2
<1>. HIDE DEF t, u, k
<1>5. ASSUME NEW i \in 1 .. k PROVE t[i] = u[i + 1]
  <2>1. t[i] = s[n + i]  BY <1>2, Zenon
  <2>2. i + 1 \in 1 .. k + 1 /\ n + (i + 1) - 1 = n + i  BY <1>4, Zenon
  <2>3. u[i + 1] = s[n + (i + 1) - 1]  BY <1>3, <2>2, Zenon
  <2>. QED  BY <2>1, <2>2, <2>3, Zenon
<1>6. u[1] = s[n]  BY <1>3, <1>4, Zenon
<1>7. IsTail(t, u)  BY <1>2, <1>4, <1>5, Zenon DEF IsTail
<1>. QED  BY <1>6, <1>7 DEF t, u

\* f is the frame that arrived after the first r, t what the host has left once f
\* is read, and g, x and q hold nothing younger than f.
ReadsNext(g, x, q, t, a, f, r) ==
  /\ Len(a) - Len(t) = r + 1 /\ r \in Nat /\ r + 1 \in 1 .. Len(a)
  /\ f \in Frames /\ f = a[r + 1] /\ f.id = r + 1
  /\ \A i \in 1 .. Len(t) : t[i] = a[(r + 1) + i]
  /\ \A i \in 1 .. Len(g) : g[i].id \in Int /\ g[i].id <= r /\ g[i].id <= r + 1
  /\ \A i \in 1 .. Len(q) : q[i].id \in Int /\ q[i].id <= r /\ q[i].id <= r + 1
  /\ x # None => x.id \in Int /\ x.id <= r /\ x.id <= r + 1
  /\ \A i \in 1 .. r + 1 : i \in 1 .. r \/ a[i] = f

\* The next frame of the host is the one that arrived next.
LEMMA NextRead ==
  ASSUME NEW g, NEW x, NEW q, NEW h, NEW a, Kept(g, x, q, h, a),
         NEW t, IsTail(t, h)
  PROVE  ReadsNext(g, x, q, t, a, h[1], Len(a) - Len(h))
<1>. DEFINE r == Len(a) - Len(h)
<1>0. t \in Seq(Frames) /\ Len(h) > 0 /\ Len(t) = Len(h) - 1  BY DEF IsTail
<1>1. /\ g \in Seq(Frames) /\ q \in Seq(Frames) /\ h \in Seq(Frames) /\ a \in Seq(Frames)
      /\ x \in Frames \cup {None} /\ r = Len(g) + Count(x) + Len(q)
  BY DEF Kept
<1>2. /\ Len(g) \in Nat /\ Len(q) \in Nat /\ Len(h) \in Nat /\ Len(a) \in Nat
      /\ Len(t) \in Nat /\ Count(x) \in Nat /\ r \in Nat /\ r + Len(h) = Len(a)
  BY <1>0, <1>1 DEF Count
<1>3. \A i \in 1 .. Len(h) : h[i] = a[r + i]  BY DEF Kept
<1>4. \A i \in 1 .. Len(a) : a[i].id = i  BY DEF Kept
<1>5. /\ \A i \in 1 .. Len(g) : g[i].id <= r
      /\ \A i \in 1 .. Len(q) : q[i].id <= r
      /\ x # None => x.id <= r
  BY DEF Kept
<1>6. /\ \A i \in 1 .. Len(g) : g[i].id \in Int
      /\ \A i \in 1 .. Len(q) : q[i].id \in Int
      /\ x # None => x.id \in Int
  <2>1. x # None => x.id \in Int  BY <1>1, HostTxAssumption DEF Frames
  <2>. QED  BY <1>1, <2>1, FrameType
<1>. HIDE DEF r
<1>7. Len(a) - Len(t) = r + 1 /\ r + 1 \in 1 .. Len(a) /\ 1 \in 1 .. Len(h)
  BY <1>0, <1>2
<1>8. h[1] \in Frames /\ h[1] = a[r + 1] /\ h[1].id = r + 1  BY <1>1, <1>3, <1>4, <1>7
<1>9. ASSUME NEW i \in 1 .. Len(t) PROVE t[i] = a[(r + 1) + i]
  <2>1. i + 1 \in 1 .. Len(h) /\ r + (i + 1) = (r + 1) + i  BY <1>0, <1>2
  <2>2. h[i + 1] = a[r + (i + 1)]  BY <1>3, <2>1
  <2>3. t[i] = h[i + 1]  BY DEF IsTail
  <2>. QED  BY <2>1, <2>2, <2>3
<1>10. /\ \A i \in 1 .. Len(g) : g[i].id <= r + 1
       /\ \A i \in 1 .. Len(q) : q[i].id <= r + 1
       /\ x # None => x.id <= r + 1
  <2>1. \A v \in Int : v <= r => v <= r + 1  BY <1>2
  <2>. QED  BY <1>5, <1>6, <2>1, Zenon
<1>11. \A i \in 1 .. r + 1 : i \in 1 .. r \/ a[i] = h[1]  BY <1>2, <1>8
<1>12. ReadsNext(g, x, q, t, a, h[1], r)
  BY <1>2, <1>5, <1>6, <1>7, <1>8, <1>9, <1>10, <1>11, ZenonT(30) DEF ReadsNext
<1>. QED  BY <1>12 DEF r

\* poll_host_device reads a unicast frame ahead.
LEMMA ReadsUnicast ==
  ASSUME NEW g, NEW q, NEW h, NEW a, Kept(g, None, q, h, a),
         NEW t, IsTail(t, h), Class(h[1]) = "unicast"
  PROVE  Kept(g, h[1], q, t, a)
<1>. DEFINE r == Len(a) - Len(h)
            f == h[1]
<1>1. /\ Len(a) - Len(t) = r + 1 /\ r \in Nat
      /\ f \in Frames /\ f = a[r + 1] /\ f.id = r + 1
      /\ \A i \in 1 .. Len(t) : t[i] = a[(r + 1) + i]
      /\ \A i \in 1 .. Len(g) : g[i].id \in Int /\ g[i].id <= r /\ g[i].id <= r + 1
      /\ \A i \in 1 .. Len(q) : q[i].id <= r + 1
      /\ \A i \in 1 .. r + 1 : i \in 1 .. r \/ a[i] = f
  <2>1. ReadsNext(g, None, q, t, a, f, r)  BY NextRead
  <2>. HIDE DEF r, f
  <2>. QED  BY <2>1 DEF ReadsNext
<1>2. f # None  BY <1>1, HostTxAssumption
<1>3. r + 1 = Len(g) + Count(f) + Len(q)
  <2>1. r = Len(g) + 0 + Len(q) /\ Len(g) \in Nat /\ Len(q) \in Nat  BY DEF Kept, Count
  <2>. HIDE DEF r, f
  <2>. QED  BY <1>2, <2>1 DEF Count
<1>4. \A i \in 1 .. r + 1 : In(a[i], g) \/ f = a[i] \/ In(a[i], q)
  <2>1. \A i \in 1 .. r : In(a[i], g) \/ None = a[i] \/ In(a[i], q)  BY DEF Kept
  <2>2. \A i \in 1 .. r : a[i] # None
    <3>1. \A i \in 1 .. r : i \in 1 .. Len(a)
      <4>1. Len(h) \in Nat /\ Len(a) \in Nat  BY DEF Kept
      <4>. QED  BY <4>1
    <3>2. \A i \in 1 .. Len(a) : a[i] \in Frames  BY DEF Kept
    <3>. QED  BY <3>1, <3>2, HostTxAssumption
  <2>. QED  BY <1>1, <2>1, <2>2
<1>5. \A i \in 1 .. Len(g) : g[i].id < f.id  BY <1>1
<1>. HIDE DEF r, f
<1>6. /\ g \in Seq(Frames) /\ q \in Seq(Frames) /\ a \in Seq(Frames)
      /\ \A i \in 1 .. Len(a) : a[i].id = i
      /\ \A i \in 1 .. Len(q) : Class(q[i]) = "multicast"
      /\ \A i, j \in 1 .. Len(g) : i < j /\ Class(g[i]) = Class(g[j]) => g[i].id < g[j].id
      /\ \A i, j \in 1 .. Len(q) : i < j => q[i].id < q[j].id
      /\ \A i \in 1 .. Len(g) : \A j \in 1 .. Len(q) :
           Class(g[i]) = "multicast" => g[i].id < q[j].id
  BY DEF Kept
<1>7. Class(f) = "unicast" /\ f.id <= r + 1  BY <1>1 DEF f
<1>8. Kept(g, f, q, t, a)  BY <1>1, <1>3, <1>4, <1>5, <1>6, <1>7, Zenon DEF Kept, IsTail
<1>. QED  BY <1>8 DEF f

\* poll_host_device drops a frame that is too short.
LEMMA ReadsRunt ==
  ASSUME NEW g, NEW x, NEW q, NEW h, NEW a, Kept(g, x, q, h, a),
         NEW t, IsTail(t, h), Class(h[1]) = "runt"
  PROVE  Kept(g \o <<h[1]>>, x, q, t, a)
<1>. DEFINE r == Len(a) - Len(h)
            f == h[1]
            p == g \o <<f>>
<1>0. r = Len(a) - Len(h) /\ f = h[1]  OBVIOUS
<1>. HIDE DEF r, f
<1>1. /\ Len(a) - Len(t) = r + 1 /\ r \in Nat
      /\ f \in Frames /\ f = a[r + 1] /\ f.id = r + 1
      /\ \A i \in 1 .. Len(t) : t[i] = a[(r + 1) + i]
      /\ \A i \in 1 .. Len(g) : g[i].id \in Int /\ g[i].id <= r /\ g[i].id <= r + 1
      /\ \A i \in 1 .. Len(q) : q[i].id <= r + 1
      /\ x # None => x.id <= r + 1
      /\ \A i \in 1 .. r + 1 : i \in 1 .. r \/ a[i] = f
  <2>1. ReadsNext(g, x, q, t, a, f, r)  BY NextRead DEF f, r
  <2>. QED  BY <2>1 DEF ReadsNext
<1>2. g \in Seq(Frames) /\ Len(g) \in Nat /\ Class(f) = "runt"  BY <1>0 DEF Kept
<1>3. /\ p \in Seq(Frames) /\ Len(p) = Len(g) + 1
      /\ \A i \in 1 .. Len(g) : p[i] = g[i]
      /\ p[Len(g) + 1] = f
      /\ \A e : In(e, p) <=> In(e, g) \/ e = f
  BY <1>1, <1>2, Appended, ZenonT(40)
<1>. HIDE DEF p
<1>p. Len(g) \in Nat /\ Len(p) = Len(g) + 1  BY <1>2, <1>3, Zenon
<1>4. \A i \in 1 .. Len(p) : i \in 1 .. Len(g) \/ i = Len(g) + 1  BY <1>p
<1>5. r + 1 = Len(p) + Count(x) + Len(q)
  <2>1. r = Len(g) + Count(x) + Len(q) /\ Len(q) \in Nat /\ Count(x) \in Nat
    BY <1>0 DEF Kept, Count
  <2>. QED  BY <1>p, <2>1
<1>6. \A i \in 1 .. r + 1 : In(a[i], p) \/ x = a[i] \/ In(a[i], q)
  <2>1. \A i \in 1 .. r : In(a[i], g) \/ x = a[i] \/ In(a[i], q)  BY <1>0, ZenonT(40) DEF Kept
  <2>. QED  BY <1>1, <1>3, <2>1
<1>7. \A i \in 1 .. Len(p) : p[i].id <= r + 1
  <2>1. \A i \in 1 .. Len(g) : p[i].id <= r + 1  BY <1>1, <1>3, ZenonT(40)
  <2>2. p[Len(g) + 1].id <= r + 1
    <3>1. r + 1 <= r + 1  BY <1>1
    <3>. QED  BY <1>1, <1>3, <3>1
  <2>. QED  BY <1>4, <2>1, <2>2
<1>8. \A i, j \in 1 .. Len(p) : i < j /\ Class(p[i]) = Class(p[j]) => p[i].id < p[j].id
  <2>. SUFFICES ASSUME NEW i \in 1 .. Len(p), NEW j \in 1 .. Len(p), i < j,
                       Class(p[i]) = Class(p[j])
                PROVE  p[i].id < p[j].id
    OBVIOUS
  <2>1. i \in 1 .. Len(g)  BY <1>p
  <2>2. CASE j \in 1 .. Len(g)  BY <1>3, <2>1, <2>2, ZenonT(40) DEF Kept
  <2>3. CASE j = Len(g) + 1
    <3>1. g[i].id \in Int /\ g[i].id <= r  BY <1>1, <2>1
    <3>2. p[i] = g[i] /\ p[j].id = r + 1  BY <1>1, <1>3, <2>1, <2>3
    <3>3. g[i].id < r + 1
      <4>1. r \in Nat  BY <1>1
      <4>2. \A v \in Int : v <= r => v < r + 1  BY <4>1
      <4>. QED  BY <3>1, <4>2, Zenon
    <3>. QED  BY <3>2, <3>3, Zenon
  <2>. QED  BY <1>4, <2>2, <2>3
<1>9. /\ \A i \in 1 .. Len(g) : \A j \in 1 .. Len(q) :
           Class(g[i]) = "multicast" => g[i].id < q[j].id
      /\ \A i \in 1 .. Len(g) : x # None /\ Class(g[i]) = "unicast" => g[i].id < x.id
  BY DEF Kept
<1>10. /\ \A i \in 1 .. Len(p) : \A j \in 1 .. Len(q) :
            Class(p[i]) = "multicast" => p[i].id < q[j].id
       /\ \A i \in 1 .. Len(p) : x # None /\ Class(p[i]) = "unicast" => p[i].id < x.id
  <2>1. Class(f) # "multicast" /\ Class(f) # "unicast"  BY <1>2
  <2>. QED  BY <1>3, <1>4, <1>9, <2>1, ZenonT(40)
<1>11. /\ q \in Seq(Frames) /\ a \in Seq(Frames) /\ x \in Frames \cup {None}
       /\ \A i \in 1 .. Len(a) : a[i].id = i
       /\ \A i \in 1 .. Len(q) : Class(q[i]) = "multicast"
       /\ x # None => Class(x) = "unicast"
       /\ \A i, j \in 1 .. Len(q) : i < j => q[i].id < q[j].id
  BY DEF Kept
<1>12. Kept(p, x, q, t, a)
  BY <1>1, <1>3, <1>5, <1>6, <1>7, <1>8, <1>10, <1>11, Zenon DEF Kept, IsTail
<1>. QED  BY <1>12 DEF p, f

\* The host sends one more.
LEMMA Arrives ==
  ASSUME NEW g, NEW x, NEW q, NEW h, NEW a, Kept(g, x, q, h, a),
         NEW f \in Frames, f.id = Len(a) + 1
  PROVE  Kept(g, x, q, Append(h, f), Append(a, f))
<1>. DEFINE hf == Append(h, f)
            af == Append(a, f)
            r == Len(a) - Len(h)
<1>1. h \in Seq(Frames) /\ a \in Seq(Frames)  BY DEF Kept
<1>2. Len(h) \in Nat /\ Len(a) \in Nat /\ r = Len(a) - Len(h)  BY <1>1
<1>3. /\ hf \in Seq(Frames) /\ Len(hf) = Len(h) + 1
      /\ \A i \in 1 .. Len(h) : hf[i] = h[i]
      /\ hf[Len(h) + 1] = f
  BY <1>1
<1>4. /\ af \in Seq(Frames) /\ Len(af) = Len(a) + 1
      /\ \A i \in 1 .. Len(a) : af[i] = a[i]
      /\ af[Len(a) + 1] = f
  BY <1>1
<1>5. r \in Nat
  <2>1. /\ r = Len(g) + Count(x) + Len(q)
        /\ g \in Seq(Frames) /\ q \in Seq(Frames) /\ Count(x) \in Nat
    BY DEF Kept, Count
  <2>2. Len(g) \in Nat /\ Len(q) \in Nat  BY <2>1
  <2>. HIDE DEF r
  <2>. QED  BY <2>1, <2>2
<1>6. /\ \A i \in 1 .. Len(h) : h[i] = a[r + i]
      /\ \A i \in 1 .. r : In(a[i], g) \/ x = a[i] \/ In(a[i], q)
      /\ \A i \in 1 .. Len(a) : a[i].id = i
  BY DEF Kept
<1>. HIDE DEF hf, af, r
<1>7. Len(af) - Len(hf) = r  BY <1>2, <1>3, <1>4
<1>8. \A i \in 1 .. Len(af) : af[i].id = i
  <2>1. \A i \in 1 .. Len(af) : i \in 1 .. Len(a) \/ i = Len(a) + 1  BY <1>2, <1>4
  <2>. QED  BY <1>4, <1>6, <2>1
<1>9. \A i \in 1 .. Len(hf) : hf[i] = af[r + i]
  <2>. SUFFICES ASSUME NEW i \in 1 .. Len(hf) PROVE hf[i] = af[r + i]  OBVIOUS
  <2>1. CASE i \in 1 .. Len(h)
    <3>1. r + i \in 1 .. Len(a)  BY <1>2, <1>5, <2>1
    <3>. QED  BY <1>3, <1>4, <1>6, <2>1, <3>1, Zenon
  <2>2. CASE i = Len(h) + 1
    <3>1. r + i = Len(a) + 1  BY <1>2, <2>2
    <3>. QED  BY <1>3, <1>4, <2>2, <3>1
  <2>. QED  BY <1>2, <1>3, <2>1, <2>2
<1>10. \A i \in 1 .. r : In(af[i], g) \/ x = af[i] \/ In(af[i], q)
  <2>1. \A i \in 1 .. r : i \in 1 .. Len(a)  BY <1>2, <1>5
  <2>. QED  BY <1>4, <1>6, <2>1
<1>11. Kept(g, x, q, hf, af)
  <2>1. /\ g \in Seq(Frames) /\ q \in Seq(Frames) /\ x \in Frames \cup {None}
        /\ r = Len(g) + Count(x) + Len(q)
        /\ \A i \in 1 .. Len(g) : g[i].id <= r
        /\ \A i \in 1 .. Len(q) : q[i].id <= r /\ Class(q[i]) = "multicast"
        /\ x # None => x.id <= r /\ Class(x) = "unicast"
        /\ \A i, j \in 1 .. Len(g) : i < j /\ Class(g[i]) = Class(g[j]) => g[i].id < g[j].id
        /\ \A i, j \in 1 .. Len(q) : i < j => q[i].id < q[j].id
        /\ \A i \in 1 .. Len(g) : \A j \in 1 .. Len(q) :
             Class(g[i]) = "multicast" => g[i].id < q[j].id
        /\ \A i \in 1 .. Len(g) : x # None /\ Class(g[i]) = "unicast" => g[i].id < x.id
    BY DEF Kept, r
  <2>. QED  BY <1>3, <1>4, <1>7, <1>8, <1>9, <1>10, <2>1, Zenon DEF Kept
<1>. QED  BY <1>11 DEF hf, af

-----------------------------------------------------------------------------
AllKept == Kept(gone, next, mq, host, arrived)

LEMMA KeptInit == Init => AllKept
<1>. SUFFICES ASSUME Init PROVE AllKept  OBVIOUS
<1>1. gone = <<>> /\ next = None /\ mq = <<>> /\ host = <<>> /\ arrived = <<>>
  BY Zenon DEF Init
<1>2. <<>> \in Seq(Frames) /\ Len(<<>>) = 0  OBVIOUS
<1>3. \A i : i \notin 1 .. 0  OBVIOUS
<1>4. 0 - 0 = 0 /\ 0 + 0 + 0 = 0  OBVIOUS
<1>5. Kept(<<>>, None, <<>>, <<>>, <<>>)
  BY <1>2, <1>3, <1>4 DEF Kept, Count
<1>. QED  BY <1>1, <1>5 DEF AllKept

\* awdl_send_unicast keeps the frame or it is gone.
LEMMA SendUnicastKept ==
  ASSUME NEW g, NEW x, NEW q, NEW h, NEW a, Kept(g, x, q, h, a), NEW timer
  PROVE  Kept(g \o SendUnicast(x, timer).gone, SendUnicast(x, timer).next, q, h, a)
<1>. DEFINE u == SendUnicast(x, timer)
<1>1. \/ u.next = x /\ u.gone = <<>>
      \/ x # None /\ u.next = None /\ u.gone = <<x>>
  BY Zenon DEF SendUnicast
<1>. HIDE DEF u
<1>2. g \o <<>> = g
  <2>1. g \in Seq(Frames)  BY DEF Kept
  <2>. QED  BY <2>1
<1>3. CASE u.next = x /\ u.gone = <<>>  BY <1>2, <1>3 DEF u
<1>4. CASE x # None /\ u.next = None /\ u.gone = <<x>>  BY <1>4, SendsUnicast DEF u
<1>. QED  BY <1>1, <1>3, <1>4

\* awdl_send_multicast keeps the queue or its oldest frame is gone.
LEMMA SendMulticastKept ==
  ASSUME NEW g, NEW x, NEW q, NEW h, NEW a, Kept(g, x, q, h, a), NEW timer
  PROVE  Kept(g \o SendMulticast(q, timer).gone, x, SendMulticast(q, timer).mq, h, a)
<1>. DEFINE m == SendMulticast(q, timer)
<1>1. \/ m.mq = q /\ m.gone = <<>>
      \/ q # <<>> /\ m.mq = Tail(q) /\ m.gone = <<Head(q)>>
  BY DEF SendMulticast
<1>. HIDE DEF m
<1>2. g \o <<>> = g
  <2>1. g \in Seq(Frames)  BY DEF Kept
  <2>. QED  BY <2>1
<1>3. CASE m.mq = q /\ m.gone = <<>>  BY <1>2, <1>3 DEF m
<1>4. CASE q # <<>> /\ m.mq = Tail(q) /\ m.gone = <<Head(q)>>  BY <1>4, SendsMulticast DEF m
<1>. QED  BY <1>1, <1>3, <1>4

\* host_device_ready: the queue has room for what is read.
LEMMA HostReadyKept ==
  ASSUME TypeOK, AllKept, HostReady
  PROVE  AllKept'
<1>1. PICK n \in 0 .. Len(host) :
       LET uc    == n > 0 /\ IsUnicast(host[n])
           runt  == n > 0 /\ host[n].to = "runt"
           mc    == SubSeq(host, 1, IF uc \/ runt THEN n - 1 ELSE n)
           nx    == IF uc THEN host[n] ELSE next
           q     == Newest(mq \o mc)
           m     == IF mc # <<>> THEN SendMulticast(q, mcTimer)
                    ELSE [mq |-> q, timer |-> mcTimer, fed |-> FALSE, gone |-> <<>>]
           u     == IF uc THEN SendUnicast(nx, txTimer)
                    ELSE [next |-> nx, timer |-> txTimer, fed |-> FALSE, gone |-> <<>>]
       IN  /\ PollsN(n)
           /\ host' = SubSeq(host, n + 1, Len(host))
           /\ next' = u.next /\ mq' = m.mq
           /\ gone' = gone \o (IF runt THEN <<host[n]>> ELSE <<>>) \o m.gone \o u.gone
  BY ZenonT(40) DEF HostReady
<1>. DEFINE uc    == n > 0 /\ IsUnicast(host[n])
            runt  == n > 0 /\ host[n].to = "runt"
            k     == IF uc \/ runt THEN n - 1 ELSE n
            mc    == SubSeq(host, 1, k)
            rest  == SubSeq(host, k + 1, Len(host))
            t     == SubSeq(host, n + 1, Len(host))
            nx    == IF uc THEN host[n] ELSE next
            q     == Newest(mq \o mc)
            rn    == IF runt THEN <<host[n]>> ELSE <<>>
            m     == IF mc # <<>> THEN SendMulticast(q, mcTimer)
                     ELSE [mq |-> q, timer |-> mcTimer, fed |-> FALSE, gone |-> <<>>]
            u     == IF uc THEN SendUnicast(nx, txTimer)
                     ELSE [next |-> nx, timer |-> txTimer, fed |-> FALSE, gone |-> <<>>]
<1>2. /\ PollsN(n) /\ host' = t /\ next' = u.next /\ mq' = m.mq
      /\ gone' = gone \o rn \o m.gone \o u.gone
  BY <1>1, ZenonT(40)
<1>3. arrived' = arrived  BY ZenonT(40) DEF HostReady
<1>4. /\ host \in Seq(Frames) /\ mq \in Seq(Frames) /\ Len(mq) <= Cap
      /\ gone \in Seq(Frames) /\ Len(host) \in Nat /\ Len(mq) \in Nat /\ Cap \in Nat
  <2>1. host \in Seq(Frames) /\ mq \in Seq(Frames) /\ gone \in Seq(Frames)
    BY Zenon DEF AllKept, Kept
  <2>2. Len(mq) <= Cap  BY DEF TypeOK
  <2>. QED  BY <2>1, <2>2, HostTxAssumption
<1>5. n > 0 => /\ next = None /\ Len(mq) + n - 1 < Cap
               /\ \A j \in 1 .. n - 1 : host[j].to = "multicast"
  <2>1. \A i \in 1 .. n : Reads(i)  BY <1>2, Zenon DEF PollsN
  <2>2. n > 0 => Reads(n)
    <3>1. n > 0 => n \in 1 .. n  OBVIOUS
    <3>. QED  BY <2>1, <3>1, Zenon
  <2>. QED  BY <2>2 DEF Reads
<1>6. /\ k \in 0 .. Len(host) /\ Len(mq) + k <= Cap
      /\ \A i \in 1 .. k : Class(host[i]) = "multicast"
      /\ uc \/ runt => n > 0 /\ k = n - 1
      /\ ~(uc \/ runt) => k = n
  <2>1. CASE uc \/ runt
    <3>1. n > 0 /\ k = n - 1  BY <2>1
    <3>2. \A i \in 1 .. n - 1 : Class(host[i]) = "multicast"
      BY <1>5, <3>1 DEF Class, IsUnicast
    <3>3. k \in 0 .. Len(host) /\ Len(mq) + k <= Cap
      <4>. HIDE DEF k
      <4>. QED  BY <1>4, <1>5, <3>1
    <3>. QED  BY <2>1, <3>1, <3>2, <3>3
  <2>2. CASE ~(uc \/ runt)
    <3>1. k = n  BY <2>2
    <3>2. \A i \in 1 .. n : i \in 1 .. n - 1 \/ i = n  OBVIOUS
    <3>3. \A i \in 1 .. n : Class(host[i]) = "multicast"
      BY <1>5, <2>2, <3>2 DEF Class, IsUnicast
    <3>4. Len(mq) + n <= Cap  BY <1>4, <1>5
    <3>. QED  BY <2>2, <3>1, <3>3, <3>4
  <2>. QED  BY <2>1, <2>2
<1>. HIDE DEF k
<1>7. q = mq \o mc
  <2>1. mc \in Seq(Frames) /\ Len(mc) = k  BY <1>4, <1>6
  <2>. HIDE DEF mc
  <2>2. mq \o mc \in Seq(Frames) /\ Len(mq \o mc) = Len(mq) + k
    BY <1>4, <2>1, Joined, SMTT(30)
  <2>3. ~(Len(mq \o mc) > Cap)  BY <1>4, <1>6, <2>2
  <2>4. Newest(mq \o mc) = SubSeq(mq \o mc, 1, Len(mq \o mc))  BY <2>3 DEF Newest
  <2>. QED  BY <2>2, <2>4
<1>8. Kept(gone, next, q, rest, arrived)
  BY <1>6, <1>7, ReadsMulticast, Zenon DEF AllKept
<1>9. uc \/ runt => IsTail(t, rest) /\ rest[1] = host[n]
  <2>. SUFFICES ASSUME n > 0, k = n - 1
                PROVE  IsTail(t, rest) /\ rest[1] = host[n]
    BY <1>6, Zenon
  <2>1. rest = SubSeq(host, n, Len(host))  OBVIOUS
  <2>2. n \in 1 .. Len(host)  BY <1>4
  <2>. HIDE DEF rest
  <2>. QED  BY <1>4, <2>1, <2>2, FirstOff, Zenon
<1>. HIDE DEF q, t, rest
<1>10. gone \o <<>> = gone  BY <1>4
<1>11. Kept(gone \o rn, nx, q, t, arrived)
  <2>1. CASE uc
    <3>1. Class(host[n]) = "unicast" /\ ~runt /\ next = None
      BY <1>5, <1>6, <2>1 DEF Class, IsUnicast
    <3>2. Kept(gone, host[n], q, t, arrived)
      BY <1>8, <1>9, <2>1, <3>1, ReadsUnicast
    <3>. QED  BY <1>10, <2>1, <3>1, <3>2, Zenon
  <2>2. CASE runt
    <3>1. Class(host[n]) = "runt" /\ ~uc  BY <2>2 DEF Class, IsUnicast
    <3>2. Kept(gone \o <<host[n]>>, next, q, t, arrived)
      BY <1>8, <1>9, <2>2, <3>1, ReadsRunt
    <3>. QED  BY <2>2, <3>1, <3>2
  <2>3. CASE ~(uc \/ runt)
    <3>1. rest = t  BY <1>6, <2>3, ZenonT(40) DEF rest, t
    <3>. QED  BY <1>8, <1>10, <2>3, <3>1, Zenon
  <2>. QED  BY <2>1, <2>2, <2>3
<1>12. Kept(gone \o rn \o m.gone, nx, m.mq, t, arrived)
  <2>. DEFINE g == gone \o rn
  <2>1. g \in Seq(Frames)  BY <1>11 DEF Kept
  <2>. HIDE DEF rn, nx, g, mc
  <2>2. CASE mc # <<>>  BY <1>11, <2>2, SendMulticastKept DEF g
  <2>3. CASE ~(mc # <<>>)
    <3>1. m.mq = q /\ m.gone = <<>>  BY <2>3
    <3>2. g \o <<>> = g  BY <2>1
    <3>. QED  BY <1>11, <3>1, <3>2, ZenonT(40) DEF g
  <2>. QED  BY <2>2, <2>3
<1>13. Kept(gone \o rn \o m.gone \o u.gone, u.next, m.mq, t, arrived)
  <2>. DEFINE g == gone \o rn \o m.gone
  <2>1. g \in Seq(Frames)  BY <1>12, Zenon DEF Kept
  <2>. HIDE DEF rn, nx, g, m, uc
  <2>2. CASE uc
    <3>1. Kept(g \o SendUnicast(nx, txTimer).gone, SendUnicast(nx, txTimer).next, m.mq, t, arrived)
      BY <1>12, SendUnicastKept DEF g
    <3>. QED  BY <2>2, <3>1 DEF g
  <2>3. CASE ~uc
    <3>1. u.next = nx /\ u.gone = <<>>  BY <2>3
    <3>2. g \o <<>> = g  BY <2>1
    <3>. QED  BY <1>12, <3>1, <3>2, Zenon DEF g
  <2>. QED  BY <2>2, <2>3
<1>. HIDE DEF u, m, rn
<1>. QED  BY <1>2, <1>3, <1>13, Zenon DEF AllKept

\* Every step keeps the frames in their places and in their order.
LEMMA KeptNext ==
  ASSUME TypeOK, AllKept, [Next]_vars
  PROVE  AllKept'
<1>1. CASE HostReady  BY <1>1, HostReadyKept
<1>2. CASE TxTimer
  <2>. DEFINE u == SendUnicast(next, Off)
  <2>1. /\ next' = u.next /\ gone' = gone \o u.gone
        /\ mq' = mq /\ host' = host /\ arrived' = arrived
    BY <1>2 DEF TxTimer
  <2>2. Kept(gone \o u.gone, u.next, mq, host, arrived)  BY SendUnicastKept DEF AllKept
  <2>. HIDE DEF u
  <2>. QED  BY <2>1, <2>2, Zenon DEF AllKept
<1>3. CASE McTimer
  <2>. DEFINE m == SendMulticast(mq, Off)
  <2>1. /\ mq' = m.mq /\ gone' = gone \o m.gone
        /\ next' = next /\ host' = host /\ arrived' = arrived
    BY <1>3 DEF McTimer
  <2>2. Kept(gone \o m.gone, next, m.mq, host, arrived)  BY SendMulticastKept DEF AllKept
  <2>. HIDE DEF m
  <2>. QED  BY <2>1, <2>2, Zenon DEF AllKept
<1>4. ASSUME NEW to \in Kinds, HostArrive(to) PROVE AllKept'
  <2>. DEFINE f == [id |-> Len(arrived) + 1, to |-> to]
  <2>1. /\ host' = Append(host, f) /\ arrived' = Append(arrived, f)
        /\ next' = next /\ mq' = mq /\ gone' = gone
    BY <1>4 DEF HostArrive
  <2>2. f \in Frames /\ f.id = Len(arrived) + 1
    <3>1. Len(arrived) + 1 \in 1 .. MaxFrames
      BY <1>4, HostTxAssumption DEF HostArrive, TypeOK
    <3>. QED  BY <3>1 DEF Frames
  <2>. HIDE DEF f
  <2>3. Kept(gone, next, mq, Append(host, f), Append(arrived, f))
    BY <2>2, Arrives DEF AllKept
  <2>. QED  BY <2>1, <2>3, Zenon DEF AllKept
<1>5. ASSUME UNCHANGED <<gone, next, mq, host, arrived>> PROVE AllKept'
  BY <1>5, Zenon DEF AllKept
<1>6. CASE Tick  BY <1>5, <1>6 DEF Tick
<1>7. ASSUME NEW p \in Peers, PeerLeave(p) PROVE AllKept'  BY <1>5, <1>7 DEF PeerLeave
<1>8. ASSUME NEW p \in Peers, NEW slots \in Matches, PeerJoin(p, slots) \/ PeerUpdate(p, slots)
      PROVE  AllKept'
  BY <1>5, <1>8 DEF PeerJoin, PeerUpdate
<1>9. ASSUME NEW t \in Times, SyncJump(t) PROVE AllKept'  BY <1>5, <1>9 DEF SyncJump
<1>10. CASE UNCHANGED vars  BY <1>5, <1>10 DEF vars
<1>. QED
  BY <1>1, <1>2, <1>3, <1>4, <1>6, <1>7, <1>8, <1>9, <1>10, Zenon DEF Next, Loop

-----------------------------------------------------------------------------
\* The frames of s keep their order; none of s is overtaken by one of t.
Ascends(s) == \A i, j \in 1 .. Len(s) : i < j /\ Class(s[i]) = Class(s[j]) => s[i].id < s[j].id

Before(s, t) ==
  \A i \in 1 .. Len(s) : \A j \in 1 .. Len(t) : Class(s[i]) = Class(t[j]) => s[i].id < t[j].id

\* What two places hold one after the other.
LEMMA JoinedPlaces ==
  ASSUME NEW s \in Seq(Frames), NEW t \in Seq(Frames)
  PROVE  \A i \in 1 .. Len(s \o t) :
           \/ i \in 1 .. Len(s) /\ (s \o t)[i] = s[i]
           \/ i > Len(s) /\ i - Len(s) \in 1 .. Len(t) /\ (s \o t)[i] = t[i - Len(s)]
<1>. SUFFICES ASSUME NEW i \in 1 .. Len(s \o t)
              PROVE  \/ i \in 1 .. Len(s) /\ (s \o t)[i] = s[i]
                     \/ i > Len(s) /\ i - Len(s) \in 1 .. Len(t) /\ (s \o t)[i] = t[i - Len(s)]
  OBVIOUS
<1>1. Len(s) \in Nat /\ Len(t) \in Nat /\ Len(s \o t) = Len(s) + Len(t)  BY Joined
<1>2. CASE i <= Len(s)
  <2>1. i \in 1 .. Len(s)  BY <1>1, <1>2
  <2>. QED  BY <2>1, Joined
<1>3. CASE i > Len(s)
  <2>1. i - Len(s) \in 1 .. Len(t) /\ Len(s) + (i - Len(s)) = i  BY <1>1, <1>3
  <2>2. (s \o t)[Len(s) + (i - Len(s))] = t[i - Len(s)]  BY <2>1, Joined
  <2>. QED  BY <1>3, <2>1, <2>2
<1>. QED  BY <1>1, <1>2, <1>3

LEMMA JoinedAscends ==
  ASSUME NEW s \in Seq(Frames), NEW t \in Seq(Frames), Ascends(s), Ascends(t), Before(s, t)
  PROVE  Ascends(s \o t)
<1>. DEFINE e == s \o t
            n == Len(s)
<1>1. \A i \in 1 .. Len(e) : \/ i \in 1 .. n /\ e[i] = s[i]
                             \/ i > n /\ i - n \in 1 .. Len(t) /\ e[i] = t[i - n]
  BY JoinedPlaces
<1>2. n \in Nat  OBVIOUS
<1>. HIDE DEF e, n
<1>3. ASSUME NEW i \in 1 .. Len(e), NEW j \in 1 .. Len(e), i < j, Class(e[i]) = Class(e[j])
      PROVE  e[i].id < e[j].id
  <2>1. CASE i \in 1 .. n /\ e[i] = s[i] /\ j \in 1 .. n /\ e[j] = s[j]
    BY <1>3, <2>1, Zenon DEF Ascends, n
  <2>2. CASE i \in 1 .. n /\ e[i] = s[i] /\ j - n \in 1 .. Len(t) /\ e[j] = t[j - n]
    <3>. DEFINE m == j - n
    <3>1. m \in 1 .. Len(t) /\ e[j] = t[m]  BY <2>2
    <3>. HIDE DEF m
    <3>. QED  BY <1>3, <2>2, <3>1, Zenon DEF Before, n
  <2>3. CASE i > n /\ i - n \in 1 .. Len(t) /\ e[i] = t[i - n]
             /\ j - n \in 1 .. Len(t) /\ e[j] = t[j - n]
    <3>. DEFINE m == i - n
                k == j - n
    <3>1. m \in 1 .. Len(t) /\ e[i] = t[m] /\ k \in 1 .. Len(t) /\ e[j] = t[k] /\ m < k
      BY <1>2, <1>3, <2>3, SMTT(30)
    <3>. HIDE DEF m, k
    <3>. QED  BY <1>3, <3>1, Zenon DEF Ascends
  <2>4. i > n => ~(j \in 1 .. n)  BY <1>2, <1>3
  <2>. QED  BY <1>1, <2>1, <2>2, <2>3, <2>4, ZenonT(40)
<1>. QED  BY <1>3, Zenon DEF Ascends, e

LEMMA JoinedBefore ==
  ASSUME NEW s \in Seq(Frames), NEW t \in Seq(Frames), NEW v \in Seq(Frames),
         Before(s, v), Before(t, v)
  PROVE  Before(s \o t, v)
<1>. DEFINE e == s \o t
            n == Len(s)
<1>1. \A i \in 1 .. Len(e) : \/ i \in 1 .. n /\ e[i] = s[i]
                             \/ i > n /\ i - n \in 1 .. Len(t) /\ e[i] = t[i - n]
  BY JoinedPlaces
<1>. HIDE DEF e, n
<1>2. ASSUME NEW i \in 1 .. Len(e), NEW j \in 1 .. Len(v), Class(e[i]) = Class(v[j])
      PROVE  e[i].id < v[j].id
  <2>1. CASE i \in 1 .. n /\ e[i] = s[i]  BY <1>2, <2>1, Zenon DEF Before, n
  <2>2. CASE i - n \in 1 .. Len(t) /\ e[i] = t[i - n]
    <3>. DEFINE m == i - n
    <3>1. m \in 1 .. Len(t) /\ e[i] = t[m]  BY <2>2
    <3>. HIDE DEF m
    <3>. QED  BY <1>2, <3>1, Zenon DEF Before
  <2>. QED  BY <1>1, <2>1, <2>2, Zenon
<1>. QED  BY <1>2, Zenon DEF Before, e

LEMMA JoinedIn ==
  ASSUME NEW s \in Seq(Frames), NEW t \in Seq(Frames), NEW f
  PROVE  /\ In(f, s) => In(f, s \o t)
         /\ In(f, t) => In(f, s \o t)
<1>1. Len(s) \in Nat /\ Len(t) \in Nat /\ Len(s \o t) = Len(s) + Len(t)  BY Joined
<1>2. ASSUME NEW i \in 1 .. Len(s), s[i] = f PROVE In(f, s \o t)
  <2>1. i \in 1 .. Len(s \o t) /\ (s \o t)[i] = f  BY <1>1, <1>2, Joined
  <2>. QED  BY <2>1 DEF In
<1>3. ASSUME NEW i \in 1 .. Len(t), t[i] = f PROVE In(f, s \o t)
  <2>1. Len(s) + i \in 1 .. Len(s \o t) /\ (s \o t)[Len(s) + i] = f  BY <1>1, <1>3, Joined
  <2>. QED  BY <2>1 DEF In
<1>. QED  BY <1>2, <1>3 DEF In

\* The order of the pieces is the order of the whole.
LEMMA KeptInOrder ==
  ASSUME AllKept
  PROVE  InOrder
<1>. DEFINE r == Len(arrived) - Len(host)
            b == gone \o Held
            c == b \o mq
<1>1. /\ gone \in Seq(Frames) /\ mq \in Seq(Frames) /\ host \in Seq(Frames)
      /\ arrived \in Seq(Frames) /\ next \in Frames \cup {None}
      /\ r = Len(gone) + Count(next) + Len(mq)
      /\ \A i \in 1 .. Len(arrived) : arrived[i].id = i
      /\ \A i \in 1 .. Len(host) : host[i] = arrived[r + i]
      /\ \A i \in 1 .. r : In(arrived[i], gone) \/ next = arrived[i] \/ In(arrived[i], mq)
  BY Zenon DEF AllKept, Kept
<1>2. /\ \A i \in 1 .. Len(gone) : gone[i].id <= r
      /\ \A i \in 1 .. Len(mq) : mq[i].id <= r /\ Class(mq[i]) = "multicast"
      /\ next # None => next.id <= r /\ Class(next) = "unicast"
  BY Zenon DEF AllKept, Kept
<1>3. /\ \A i, j \in 1 .. Len(gone) :
           i < j /\ Class(gone[i]) = Class(gone[j]) => gone[i].id < gone[j].id
      /\ \A i, j \in 1 .. Len(mq) : i < j => mq[i].id < mq[j].id
      /\ \A i \in 1 .. Len(gone) : \A j \in 1 .. Len(mq) :
           Class(gone[i]) = "multicast" => gone[i].id < mq[j].id
      /\ \A i \in 1 .. Len(gone) :
           next # None /\ Class(gone[i]) = "unicast" => gone[i].id < next.id
  BY ZenonT(40) DEF AllKept, Kept
<1>4. /\ Held \in Seq(Frames) /\ Len(Held) = Count(next)
      /\ \A i \in 1 .. Len(Held) : next # None /\ Held[i] = next
      /\ next # None => In(next, Held)
  <2>1. CASE next = None
    <3>1. Held = <<>>  BY <2>1 DEF Held
    <3>. QED  BY <2>1, <3>1 DEF Count
  <2>2. CASE next # None
    <3>1. Held = <<next>> /\ next \in Frames  BY <1>1, <2>2 DEF Held
    <3>2. Held \in Seq(Frames) /\ Len(Held) = 1 /\ Held[1] = next  BY <3>1
    <3>3. \A i \in 1 .. Len(Held) : Held[i] = next  BY <3>2
    <3>4. In(next, Held)  BY <3>2 DEF In
    <3>. QED  BY <2>2, <3>2, <3>3, <3>4 DEF Count
  <2>. QED  BY <2>1, <2>2
<1>5. /\ Len(gone) \in Nat /\ Len(mq) \in Nat /\ Len(host) \in Nat /\ Len(arrived) \in Nat
      /\ Len(Held) \in Nat /\ r \in Nat /\ Len(arrived) = r + Len(host)
  <2>1. Len(gone) \in Nat /\ Len(mq) \in Nat /\ Len(host) \in Nat /\ Len(arrived) \in Nat
        /\ Len(Held) \in Nat
    BY <1>1, <1>4
  <2>2. r = Len(gone) + Len(Held) + Len(mq)  BY <1>1, <1>4
  <2>. QED  BY <2>1, <2>2
<1>. HIDE DEF r
<1>6. b \in Seq(Frames) /\ Len(b) = Len(gone) + Len(Held)  BY <1>1, <1>4, Joined, ZenonT(40)
<1>7. c \in Seq(Frames) /\ Len(c) = Len(b) + Len(mq)  BY <1>1, <1>6, Joined
<1>8. Everywhere = c \o host  BY DEF Everywhere
<1>9. Everywhere \in Seq(Frames) /\ Len(Everywhere) = Len(c) + Len(host)
  BY <1>1, <1>7, <1>8, Joined
<1>10. Len(Everywhere) = Len(arrived)
  <2>. HIDE DEF b, c
  <2>. QED  BY <1>1, <1>4, <1>5, <1>6, <1>7, <1>9
<1>11. \A i \in 1 .. Len(host) : host[i].id = r + i
  <2>1. \A i \in 1 .. Len(host) : r + i \in 1 .. Len(arrived)  BY <1>5
  <2>. QED  BY <1>1, <2>1, Zenon
<1>12. Ascends(gone) /\ Ascends(mq) /\ Ascends(host) /\ Ascends(Held)
  <2>1. Ascends(gone) /\ Ascends(mq)  BY <1>3, Zenon DEF Ascends
  <2>2. Ascends(host)  BY <1>5, <1>11 DEF Ascends
  <2>3. Len(Held) = 0 \/ Len(Held) = 1  BY <1>4 DEF Count
  <2>4. Ascends(Held)  BY <2>3 DEF Ascends
  <2>. QED  BY <2>1, <2>2, <2>4
<1>13. Before(gone, Held) /\ Before(gone, mq) /\ Before(Held, mq)
  <2>1. Before(gone, Held)  BY <1>2, <1>3, <1>4, Zenon DEF Before
  <2>2. Before(gone, mq)  BY <1>2, <1>3, ZenonT(40) DEF Before
  <2>3. \A i \in 1 .. Len(Held) : Class(Held[i]) = "unicast"  BY <1>2, <1>4
  <2>4. "unicast" # "multicast"  OBVIOUS
  <2>5. Before(Held, mq)  BY <1>2, <2>3, <2>4, Zenon DEF Before
  <2>. QED  BY <2>1, <2>2, <2>5
<1>14. Before(gone, host) /\ Before(Held, host) /\ Before(mq, host)
  <2>1. ASSUME NEW s \in Seq(Frames), \A i \in 1 .. Len(s) : s[i].id <= r
        PROVE  Before(s, host)
    <3>1. \A i \in 1 .. Len(s) : s[i].id \in Int  BY FrameType
    <3>2. ASSUME NEW i \in 1 .. Len(s), NEW j \in 1 .. Len(host)
          PROVE  s[i].id < host[j].id
      <4>1. s[i].id \in Int /\ s[i].id <= r  BY <2>1, <3>1
      <4>2. host[j].id = r + j /\ r \in Nat /\ j \in Nat /\ j > 0  BY <1>5, <1>11
      <4>. QED  BY <4>1, <4>2
    <3>. QED  BY <3>2, Zenon DEF Before
  <2>2. \A i \in 1 .. Len(Held) : Held[i].id <= r  BY <1>2, <1>4
  <2>. QED  BY <1>1, <1>2, <1>4, <2>1, <2>2, ZenonT(40)
<1>15. Ascends(Everywhere)
  <2>1. Ascends(b)  BY <1>1, <1>4, <1>12, <1>13, JoinedAscends
  <2>2. Before(b, mq) /\ Before(b, host)  BY <1>1, <1>4, <1>13, <1>14, JoinedBefore
  <2>. HIDE DEF b
  <2>3. Ascends(c)  BY <1>1, <1>6, <1>12, <2>1, <2>2, JoinedAscends
  <2>4. Before(c, host)  BY <1>1, <1>6, <1>14, <2>2, JoinedBefore
  <2>. HIDE DEF c
  <2>. QED  BY <1>1, <1>7, <1>8, <1>12, <2>3, <2>4, JoinedAscends
<1>16. \A i \in 1 .. Len(arrived) : In(arrived[i], Everywhere)
  <2>. SUFFICES ASSUME NEW i \in 1 .. Len(arrived) PROVE In(arrived[i], Everywhere)
    OBVIOUS
  <2>1. CASE i <= r
    <3>1. i \in 1 .. r  BY <1>5, <2>1
    <3>2. In(arrived[i], gone) \/ next = arrived[i] \/ In(arrived[i], mq)  BY <1>1, <3>1
    <3>3. arrived[i] # None  BY <1>1, HostTxAssumption
    <3>4. In(arrived[i], gone) \/ In(arrived[i], Held) \/ In(arrived[i], mq)
      BY <1>4, <3>2, <3>3
    <3>5. In(arrived[i], b) \/ In(arrived[i], mq)  BY <1>1, <1>4, <3>4, JoinedIn
    <3>. HIDE DEF b
    <3>6. In(arrived[i], c)  BY <1>1, <1>6, <3>5, JoinedIn
    <3>. HIDE DEF c
    <3>. QED  BY <1>1, <1>7, <1>8, <3>6, JoinedIn
  <2>2. CASE i > r
    <3>. DEFINE j == i - r
    <3>1. j \in 1 .. Len(host) /\ r + j = i  BY <1>5, <2>2
    <3>. HIDE DEF j, c
    <3>2. host[j] = arrived[i]  BY <1>1, <3>1
    <3>3. In(arrived[i], host)  BY <3>1, <3>2 DEF In
    <3>. QED  BY <1>1, <1>7, <1>8, <3>3, JoinedIn
  <2>. QED  BY <1>5, <2>1, <2>2
<1>17. /\ DOMAIN arrived = 1 .. Len(arrived) /\ DOMAIN Everywhere = 1 .. Len(Everywhere)
       /\ DOMAIN Held = 1 .. Len(Held) /\ DOMAIN mq = 1 .. Len(mq)
  BY <1>1, <1>4, <1>9
<1>18. \A i \in 1 .. Len(Held) : Class(Held[i]) = "unicast"  BY <1>2, <1>4
<1>. QED  BY <1>2, <1>10, <1>15, <1>16, <1>17, <1>18, Zenon DEF InOrder, Ascends, In

(***************************************************************************)
(* Every frame the host sent is in exactly one place of the transmit path, *)
(* and frames of one class never overtake each other, whatever the peers,  *)
(* the synchronisation, the guards and the capacity of the queue.          *)
(***************************************************************************)
THEOREM FramesKeepOrder == Spec => []InOrder
<1>1. Init => AllKept  BY KeptInit
<1>2. TypeOK /\ AllKept /\ [Next]_vars => AllKept'  BY KeptNext
<1>3. AllKept => InOrder  BY KeptInOrder
<1>4. Spec => []TypeOK  BY TransmitTypes
<1>. QED  BY <1>1, <1>2, <1>3, <1>4, PTL DEF Spec

-----------------------------------------------------------------------------

\* Sequences of the same length with the same elements are equal.
LEMMA SameElements ==
  ASSUME NEW S, NEW s \in Seq(S), NEW t \in Seq(S), Len(s) = Len(t),
         \A i \in 1 .. Len(s) : s[i] = t[i]
  PROVE  s = t
<1>1. s \in [1 .. Len(s) -> S] /\ t \in [1 .. Len(t) -> S]  OBVIOUS
<1>. QED  BY <1>1

\* A sum of two indices is reduced to the array by at most one subtraction.
LEMMA WrapOnce ==
  ASSUME NEW x \in 0 .. 2 * Max - 1
  PROVE  x % Max = IF x < Max THEN x ELSE x - Max
<1>1. Max \in Nat /\ Max > 0 /\ x \in Nat /\ x < 2 * Max  BY BufferAssumption
<1>2. CASE x < Max  BY <1>1, <1>2
<1>3. CASE x >= Max  BY <1>1, <1>3
<1>. QED  BY <1>1, <1>2, <1>3

\* The i-th element behind t.
LEMMA IndexOf ==
  ASSUME NEW t \in Cells, NEW i \in 1 .. Max
  PROVE  (t + i - 1) % Max = IF t + i - 1 < Max THEN t + i - 1 ELSE t + i - 1 - Max
<1>1. Max \in Nat /\ t \in Nat /\ t < Max /\ i \in Nat /\ 1 <= i /\ i <= Max
  BY BufferAssumption DEF Cells
<1>. DEFINE x == t + i - 1
<1>2. x \in 0 .. 2 * Max - 1  BY <1>1
<1>3. x % Max = IF x < Max THEN x ELSE x - Max
  <2>. HIDE DEF x
  <2>. QED  BY <1>2, WrapOnce
<1>. QED  BY <1>1, <1>3

LEMMA TypeInit == BufInit => BufferOK
<1>. SUFFICES ASSUME BufInit PROVE BufferOK  OBVIOUS
<1>1. 0 \in Cells  BY BufferAssumption DEF Cells
<1>. QED  BY <1>1, Zenon DEF BufInit, BufferOK, Result

\* The successor of an index is an index.
LEMMA Successor ==
  ASSUME NEW x \in Cells
  PROVE  (x + 1) % Max = (IF x = Max - 1 THEN 0 ELSE x + 1) /\ (x + 1) % Max \in Cells
<1>1. Max \in Nat /\ Max > 0 /\ x \in Nat /\ x < Max  BY BufferAssumption DEF Cells
<1>2. x + 1 \in 0 .. 2 * Max - 1  BY <1>1
<1>. QED  BY <1>1, <1>2, WrapOnce DEF Cells

LEMMA StoreType ==
  ASSUME BufferOK, NEW d \in Data, Store(d)
  PROVE  /\ buffer' \in [Cells -> Data] /\ head' \in Cells /\ tail' \in Cells
         /\ full' \in BOOLEAN /\ (full' => head' = tail')
<1>1. head' \in Cells /\ tail' \in Cells  BY Successor DEF BufferOK, Store
<1>2. buffer' \in [Cells -> Data]  BY DEF BufferOK, Store
<1>. QED  BY <1>1, <1>2, ZenonT(40) DEF Store

LEMMA ResultType ==
  ASSUME NEW ok \in BOOLEAN, NEW d \in Data \cup {Nothing}
  PROVE  Result(ok, d) \in [ok: BOOLEAN, data: Data \cup {Nothing}]
BY Zenon DEF Result

LEMMA TypeNext == BufferOK /\ [BufNext]_bufVars => BufferOK'
<1>. SUFFICES ASSUME BufferOK, [BufNext]_bufVars PROVE BufferOK'  OBVIOUS
<1>1. ASSUME NEW d \in Data, Put(d) PROVE BufferOK'
  <2>1. Store(d) /\ out' = Result(TRUE, Nothing)  BY <1>1 DEF Put
  <2>. QED  BY <2>1, StoreType DEF BufferOK, Result
<1>2. ASSUME NEW d \in Data, Put2(d) PROVE BufferOK'
  <2>1. CASE full
    <3>1. UNCHANGED <<buffer, head, tail, full>> /\ out' = Result(FALSE, Nothing)
      BY <1>2, <2>1 DEF Put2
    <3>. QED  BY <3>1, ResultType, Zenon DEF BufferOK
  <2>2. CASE ~full
    <3>1. Store(d) /\ out' = Result(TRUE, Nothing)  BY <1>2, <2>2 DEF Put2
    <3>. QED  BY <3>1, StoreType DEF BufferOK, Result
  <2>. QED  BY <2>1, <2>2
<1>3. ASSUME NEW peek \in BOOLEAN, Get(peek) PROVE BufferOK'
  <2>1. CASE IsEmpty
    <3>1. UNCHANGED <<buffer, head, tail, full>> /\ out' = Result(FALSE, Nothing)
      BY <1>3, <2>1 DEF Get
    <3>. QED  BY <3>1, ResultType, Zenon DEF BufferOK
  <2>2. CASE ~IsEmpty
    <3>1. tail' \in Cells /\ full' \in BOOLEAN /\ (full' => head' = tail')
      BY <1>3, <2>2, Successor, Zenon DEF Get, BufferOK
    <3>2. out' \in [ok: BOOLEAN, data: Data \cup {Nothing}]
      <4>1. out' = Result(TRUE, buffer[tail])  BY <1>3, <2>2 DEF Get
      <4>2. buffer[tail] \in Data  BY DEF BufferOK
      <4>. QED  BY <4>1, <4>2, ResultType, Zenon
    <3>. QED  BY <1>3, <2>2, <3>1, <3>2, Zenon DEF Get, BufferOK
  <2>. QED  BY <2>1, <2>2
<1>4. CASE Reset
  <2>1. 0 \in Cells  BY BufferAssumption DEF Cells
  <2>. QED  BY <1>4, <2>1, Zenon DEF Reset, BufferOK, Result
<1>5. CASE UNCHANGED bufVars  BY <1>5 DEF bufVars, BufferOK
<1>. QED  BY <1>1, <1>2, <1>3, <1>4, <1>5 DEF BufNext

-----------------------------------------------------------------------------
\* circular_buf_size counts the elements of the queue.
LEMMA SizeFacts ==
  ASSUME BufferOK
  PROVE  /\ Size \in 0 .. Max
         /\ Size = Max <=> full
         /\ Size = 0 <=> IsEmpty
         /\ head = (tail + Size) % Max
<1>1. /\ Max \in Nat /\ Max > 0
      /\ head \in Nat /\ head < Max /\ tail \in Nat /\ tail < Max
      /\ full => head = tail
  BY BufferAssumption DEF BufferOK, Cells
<1>2. Size \in 0 .. Max  BY <1>1 DEF Size
<1>3. Size = Max <=> full  BY <1>1 DEF Size
<1>4. Size = 0 <=> IsEmpty  BY <1>1 DEF Size, IsEmpty
<1>5. tail + Size \in 0 .. 2 * Max - 1  BY <1>1, <1>2
<1>6. (tail + Size) % Max = IF tail + Size < Max THEN tail + Size ELSE tail + Size - Max
  <2>. DEFINE x == tail + Size
  <2>1. x \in 0 .. 2 * Max - 1  BY <1>5
  <2>. HIDE DEF x
  <2>2. x % Max = IF x < Max THEN x ELSE x - Max  BY <2>1, WrapOnce
  <2>. QED  BY <1>1, <1>2, <2>2 DEF x
<1>7. head = (tail + Size) % Max
  <2>1. CASE full
    <3>1. Size = Max /\ head = tail  BY <1>1, <2>1 DEF Size
    <3>. QED  BY <1>1, <1>6, <3>1
  <2>2. CASE ~full /\ head >= tail
    <3>1. Size = head - tail  BY <2>2 DEF Size
    <3>2. tail + Size = head  BY <1>1, <3>1
    <3>. QED  BY <1>1, <1>6, <3>2
  <2>3. CASE ~full /\ ~(head >= tail)
    <3>1. Size = Max + head - tail  BY <2>3 DEF Size
    <3>2. tail + Size = Max + head  BY <1>1, <3>1
    <3>. QED  BY <1>1, <1>6, <3>2
  <2>. QED  BY <2>1, <2>2, <2>3
<1>. QED  BY <1>2, <1>3, <1>4, <1>7

ContentsFacts ==
  /\ Contents \in Seq(Data) /\ Len(Contents) = Size
  /\ \A i \in 1 .. Size : /\ Contents[i] = buffer[(tail + i - 1) % Max]
                          /\ (tail + i - 1) % Max \in Cells

LEMMA ContentsType == BufferOK => ContentsFacts
<1>. SUFFICES ASSUME BufferOK PROVE ContentsFacts  OBVIOUS
<1>1. Size \in Nat /\ Size <= Max  BY SizeFacts, BufferAssumption
<1>2. ASSUME NEW i \in 1 .. Size
      PROVE  (tail + i - 1) % Max \in Cells
  <2>1. tail \in Nat /\ tail < Max /\ Max \in Nat  BY BufferAssumption DEF BufferOK, Cells
  <2>2. tail + i - 1 \in 0 .. 2 * Max - 1  BY <1>1, <2>1
  <2>. QED  BY <2>1, <2>2, WrapOnce DEF Cells
<1>3. \A i \in 1 .. Size : buffer[(tail + i - 1) % Max] \in Data
  BY <1>2 DEF BufferOK
<1>4. Contents \in [1 .. Size -> Data]  BY <1>3 DEF Contents
<1>5. Contents \in Seq(Data) /\ Len(Contents) = Size
  BY <1>1, <1>4
<1>. QED  BY <1>2, <1>5, Zenon DEF Contents, ContentsFacts

LEMMA ContentsTypePrime == BufferOK' => ContentsFacts'
BY ContentsType, PTL

\* Storing an element appends it to the queue; the oldest one makes room.
LEMMA StoreAppends ==
  ASSUME BufferOK, BufferOK', NEW d \in Data, Store(d)
  PROVE  Contents' = IF Len(Contents) = Max THEN Append(Tail(Contents), d)
                     ELSE Append(Contents, d)
<1>1. /\ Max \in Nat /\ Max > 0
      /\ head \in Nat /\ head < Max /\ tail \in Nat /\ tail < Max
      /\ head' \in Nat /\ head' < Max /\ tail' \in Nat /\ tail' < Max
  BY BufferAssumption DEF BufferOK, Cells
<1>2. head' = IF head = Max - 1 THEN 0 ELSE head + 1
  BY Successor DEF Store, BufferOK
<1>3. /\ Contents' \in Seq(Data) /\ Len(Contents') = Size'
      /\ \A i \in 1 .. Size' : Contents'[i] = buffer'[(tail' + i - 1) % Max]
  BY ContentsTypePrime DEF ContentsFacts
<1>4. \A x \in Cells : buffer'[x] = IF x = head THEN d ELSE buffer[x]
  BY DEF Store, BufferOK
<1>5. /\ Contents \in Seq(Data) /\ Len(Contents) = Size
      /\ \A i \in 1 .. Size : /\ Contents[i] = buffer[(tail + i - 1) % Max]
                              /\ (tail + i - 1) % Max \in Cells
  BY ContentsType DEF ContentsFacts
<1>6. Size \in Nat /\ Size <= Max /\ (Size = Max <=> full) /\ head = (tail + Size) % Max
  BY <1>1, SizeFacts
<1>7. ASSUME NEW i \in 1 .. Max
      PROVE  (tail + i - 1) % Max =
               IF tail + i - 1 < Max THEN tail + i - 1 ELSE tail + i - 1 - Max
  BY <1>1, WrapOnce
<1>8. CASE ~full
  <2>1. tail' = tail  BY <1>8 DEF Store
  <2>2. Size' = Size + 1
    <3>1. full' = (head' = tail')  BY DEF Store
    <3>2. Size = IF head >= tail THEN head - tail ELSE Max + head - tail
      BY <1>8 DEF Size
    <3>3. Size' = IF head' = tail' THEN Max
                  ELSE IF head' >= tail' THEN head' - tail' ELSE Max + head' - tail'
      BY <3>1, Zenon DEF Size
    <3>4. CASE head = Max - 1  BY <1>1, <1>2, <2>1, <3>2, <3>3, <3>4
    <3>5. CASE head # Max - 1  BY <1>1, <1>2, <2>1, <3>2, <3>3, <3>5
    <3>. QED  BY <3>4, <3>5
  <2>3. ASSUME NEW i \in 1 .. Size + 1
        PROVE  Contents'[i] = Append(Contents, d)[i]
    <3>1. CASE i = Size + 1
      <4>1. Contents'[i] = buffer'[head]
        <5>1. tail' + i - 1 = tail + Size  BY <1>1, <1>6, <2>1, <3>1
        <5>. QED  BY <1>3, <1>6, <2>2, <5>1
      <4>2. head \in Cells  BY DEF BufferOK
      <4>3. Contents'[i] = d  BY <1>4, <4>1, <4>2
      <4>. QED  BY <1>5, <3>1, <4>3
    <3>2. CASE i \in 1 .. Size
      <4>1. (tail + i - 1) % Max # head
        BY <1>1, <1>6, <1>7, <1>8, <3>2 DEF Size
      <4>2. Contents'[i] = buffer'[(tail + i - 1) % Max]
        BY <1>3, <2>1, <2>2
      <4>3. Contents'[i] = Contents[i]  BY <1>4, <1>5, <3>2, <4>1, <4>2
      <4>. QED  BY <1>5, <3>2, <4>3
    <3>3. i = Size + 1 \/ i \in 1 .. Size  BY <1>6
    <3>. QED  BY <3>1, <3>2, <3>3, ZenonT(40)
  <2>4. Append(Contents, d) \in Seq(Data) /\ Len(Append(Contents, d)) = Size + 1
    BY <1>5
  <2>5. Contents' = Append(Contents, d)
    BY <1>3, <2>2, <2>3, <2>4, SameElements
  <2>. QED  BY <1>5, <1>6, <1>8, <2>5
<1>9. CASE full
  <2>1. head = tail /\ Size = Max  BY <1>6, <1>9 DEF BufferOK
  <2>2. tail' = head' /\ full'  BY <1>9, <2>1, ZenonT(40) DEF Store
  <2>3. Size' = Max  BY <2>2 DEF Size
  <2>. DEFINE new == Append(Tail(Contents), d)
  <2>4. /\ Tail(Contents) \in Seq(Data) /\ Len(Tail(Contents)) = Max - 1
        /\ \A i \in 1 .. Max - 1 : Tail(Contents)[i] = Contents[i + 1]
    BY <1>1, <1>5, <2>1
  <2>5. /\ new \in Seq(Data) /\ Len(new) = Max /\ new[Max] = d
        /\ \A i \in 1 .. Max - 1 : new[i] = Contents[i + 1]
    BY <1>1, <2>4
  <2>. HIDE DEF new
  <2>6. ASSUME NEW i \in 1 .. Max
        PROVE  Contents'[i] = new[i]
    <3>1. Contents'[i] = buffer'[(tail' + i - 1) % Max]  BY <1>3, <2>3
    <3>2. (tail' + i - 1) % Max =
            IF tail' + i - 1 < Max THEN tail' + i - 1 ELSE tail' + i - 1 - Max
      BY IndexOf DEF BufferOK
    <3>3. CASE i = Max
      <4>1. (tail' + i - 1) % Max = head
        BY <1>1, <1>2, <2>2, <3>2, <3>3
      <4>2. head \in Cells  BY DEF BufferOK
      <4>. QED  BY <1>4, <2>5, <3>1, <3>3, <4>1, <4>2
    <3>4. CASE i \in 1 .. Max - 1
      <4>. DEFINE j == i + 1
                  y == (tail + j - 1) % Max
      <4>1. j \in 1 .. Max /\ tail + j - 1 = tail + i  BY <1>1, <3>4
      <4>2. y = IF tail + i < Max THEN tail + i ELSE tail + i - Max
        <5>. HIDE DEF j
        <5>1. y = IF tail + j - 1 < Max THEN tail + j - 1 ELSE tail + j - 1 - Max
          BY <1>7, <4>1, Zenon
        <5>. HIDE DEF y
        <5>. QED  BY <1>1, <4>1, <5>1
      <4>3. Contents[j] = buffer[y]
        <5>1. j \in 1 .. Size  BY <2>1, <4>1
        <5>. HIDE DEF j
        <5>. QED  BY <1>5, <5>1, Zenon
      <4>4. new[i] = Contents[j]  BY <2>5, <3>4
      <4>. HIDE DEF j, y
      <4>5. y \in Cells /\ y # head  BY <1>1, <2>1, <3>4, <4>2 DEF Cells
      <4>6. (tail' + i - 1) % Max = y
        BY <1>1, <1>2, <2>1, <2>2, <3>2, <3>4, <4>2
      <4>7. buffer'[y] = buffer[y]  BY <1>4, <4>5
      <4>. QED  BY <3>1, <4>3, <4>4, <4>6, <4>7
    <3>. QED  BY <1>1, <3>3, <3>4
  <2>7. Contents' = new
    BY <1>3, <2>3, <2>5, <2>6, SameElements
  <2>. QED  BY <1>5, <2>1, <2>7 DEF new
<1>. QED  BY <1>8, <1>9

\* Removing the element at the tail removes the head of the queue.
LEMMA GetRemoves ==
  ASSUME BufferOK, BufferOK', ~IsEmpty, ~full',
         tail' = (tail + 1) % Max, head' = head, buffer' = buffer
  PROVE  Contents' = Tail(Contents)
<1>1. /\ Max \in Nat /\ Max > 0
      /\ head \in Nat /\ head < Max /\ tail \in Nat /\ tail < Max
  BY BufferAssumption DEF BufferOK, Cells
<1>2. tail' = IF tail = Max - 1 THEN 0 ELSE tail + 1
  BY Successor DEF BufferOK
<1>3. /\ Contents' \in Seq(Data) /\ Len(Contents') = Size'
      /\ \A i \in 1 .. Size' : Contents'[i] = buffer[(tail' + i - 1) % Max]
  BY ContentsTypePrime DEF ContentsFacts
<1>4. /\ Contents \in Seq(Data) /\ Len(Contents) = Size
      /\ \A i \in 1 .. Size : Contents[i] = buffer[(tail + i - 1) % Max]
  BY ContentsType DEF ContentsFacts
<1>5. Size \in Nat /\ Size > 0 /\ Size <= Max
  BY <1>1, SizeFacts
<1>6. Size' = Size - 1
  <2>1. Size' = IF head >= tail' THEN head - tail' ELSE Max + head - tail'
    BY DEF Size
  <2>2. Size = IF head = tail THEN Max
               ELSE IF head >= tail THEN head - tail ELSE Max + head - tail
    BY <1>1 DEF Size, IsEmpty, BufferOK
  <2>3. CASE tail = Max - 1  BY <1>1, <1>2, <2>1, <2>2, <2>3
  <2>4. CASE tail # Max - 1  BY <1>1, <1>2, <2>1, <2>2, <2>4
  <2>. QED  BY <2>3, <2>4
<1>7. /\ Tail(Contents) \in Seq(Data) /\ Len(Tail(Contents)) = Size - 1
      /\ \A i \in 1 .. Size - 1 : Tail(Contents)[i] = Contents[i + 1]
  BY <1>4, <1>5
<1>8. ASSUME NEW i \in 1 .. Size - 1
      PROVE  Contents'[i] = Tail(Contents)[i]
  <2>1. PICK t \in Nat : t = tail' /\ t < Max  BY <1>1, <1>2
  <2>. DEFINE x == t + i - 1
              y == tail + (i + 1) - 1
  <2>2. x \in 0 .. 2 * Max - 1 /\ y \in 0 .. 2 * Max - 1  BY <1>1, <1>5, <2>1
  <2>3. x % Max = (IF x < Max THEN x ELSE x - Max) /\ y % Max = (IF y < Max THEN y ELSE y - Max)
    <3>. HIDE DEF x, y
    <3>. QED  BY <2>2, WrapOnce
  <2>4. x % Max = y % Max
    BY <1>1, <1>2, <1>5, <2>1, <2>3
  <2>5. Contents[i + 1] = buffer[y % Max]  BY <1>4, <1>5
  <2>6. Contents'[i] = buffer[x % Max]  BY <1>3, <1>6, <2>1
  <2>. QED  BY <1>7, <2>4, <2>5, <2>6
<1>. QED  BY <1>3, <1>6, <1>7, <1>8, SameElements

\* The head of the queue is the element at the tail of the array.
LEMMA HeadAtTail ==
  ASSUME BufferOK, ~IsEmpty
  PROVE  Contents # <<>> /\ Head(Contents) = buffer[tail]
<1>1. Max \in Nat /\ Max > 0 /\ tail \in Nat /\ tail < Max
  BY BufferAssumption DEF BufferOK, Cells
<1>2. Size \in Nat /\ Size > 0  BY <1>1, SizeFacts
<1>3. /\ Contents \in Seq(Data) /\ Len(Contents) = Size
      /\ \A i \in 1 .. Size : Contents[i] = buffer[(tail + i - 1) % Max]
  BY ContentsType DEF ContentsFacts
<1>4. Contents[1] = buffer[(tail + 1 - 1) % Max]  BY <1>2, <1>3
<1>5. (tail + 1 - 1) % Max = tail  BY <1>1
<1>. QED  BY <1>2, <1>3, <1>4, <1>5

LEMMA EmptyContents == BufferOK => (Contents = <<>> <=> IsEmpty)
<1>. SUFFICES ASSUME BufferOK PROVE Contents = <<>> <=> IsEmpty  OBVIOUS
<1>1. Contents \in Seq(Data) /\ Len(Contents) = Size
  BY ContentsType DEF ContentsFacts
<1>2. Size = 0 <=> IsEmpty  BY SizeFacts
<1>3. Contents = <<>> <=> Len(Contents) = 0  BY <1>1
<1>. QED  BY <1>1, <1>2, <1>3

LEMMA EmptyContentsPrime == BufferOK' => (Contents = <<>> <=> IsEmpty)'
BY EmptyContents, PTL

-----------------------------------------------------------------------------
\* Steps that leave the array and the pointers alone leave the queue alone.
LEMMA SameContents ==
  ASSUME UNCHANGED <<buffer, head, tail, full>>
  PROVE  Contents' = Contents
BY DEF Contents, Size

LEMMA RefinesInit == BufInit => Queue!Init
<1>. SUFFICES ASSUME BufInit PROVE Queue!Init  OBVIOUS
<1>1. Contents = <<>>
  <2>1. BufferOK /\ IsEmpty  BY TypeInit DEF BufInit, IsEmpty
  <2>. QED  BY <2>1, EmptyContents
<1>. QED  BY <1>1 DEF BufInit, Result, Queue!Init, Queue!Result

LEMMA RefinesNext ==
  ASSUME BufferOK, BufferOK', BufNext
  PROVE  Queue!Next
<1>. USE DEF Result, Queue!Result
<1>1. Contents \in Seq(Data) /\ Len(Contents) = Size /\ (Len(Contents) = Max <=> full)
  BY ContentsType, SizeFacts DEF ContentsFacts
<1>2. ASSUME NEW d \in Data, Put(d) PROVE Queue!Put(d)
  <2>1. Store(d) /\ out' = Result(TRUE, Nothing)  BY <1>2 DEF Put
  <2>2. Contents' = IF Len(Contents) = Max THEN Append(Tail(Contents), d)
                    ELSE Append(Contents, d)
    BY <2>1, StoreAppends
  <2>. QED  BY <2>1, <2>2 DEF Queue!Put
<1>3. ASSUME NEW d \in Data, Put2(d) PROVE Queue!Put2(d)
  <2>1. CASE full
    <3>1. UNCHANGED <<buffer, head, tail, full>> /\ out' = Result(FALSE, Nothing)
      BY <1>3, <2>1 DEF Put2
    <3>2. Contents' = Contents  BY <3>1, SameContents
    <3>. QED  BY <1>1, <2>1, <3>1, <3>2 DEF Queue!Put2
  <2>2. CASE ~full
    <3>1. Store(d) /\ out' = Result(TRUE, Nothing)  BY <1>3, <2>2 DEF Put2
    <3>2. Contents' = IF Len(Contents) = Max THEN Append(Tail(Contents), d)
                      ELSE Append(Contents, d)
      BY <3>1, StoreAppends
    <3>. QED  BY <1>1, <2>2, <3>1, <3>2 DEF Queue!Put2
  <2>. QED  BY <2>1, <2>2
<1>4. ASSUME NEW peek \in BOOLEAN, Get(peek) PROVE Queue!Get(peek)
  <2>1. CASE IsEmpty
    <3>1. UNCHANGED <<buffer, head, tail, full>> /\ out' = Result(FALSE, Nothing)
      BY <1>4, <2>1 DEF Get
    <3>2. Contents' = Contents /\ Contents = <<>>
      BY <2>1, <3>1, SameContents, EmptyContents
    <3>. QED  BY <3>1, <3>2 DEF Queue!Get
  <2>2. CASE ~IsEmpty
    <3>1. Contents # <<>> /\ Head(Contents) = buffer[tail]  BY <2>2, HeadAtTail
    <3>2. out' = Result(TRUE, buffer[tail])  BY <1>4, <2>2 DEF Get
    <3>3. Contents' = IF peek THEN Contents ELSE Tail(Contents)
      <4>1. CASE peek
        <5>1. UNCHANGED <<buffer, head, tail, full>>  BY <1>4, <2>2, <4>1 DEF Get
        <5>. QED  BY <4>1, <5>1, SameContents
      <4>2. CASE ~peek
        <5>1. /\ ~full' /\ tail' = (tail + 1) % Max
              /\ head' = head /\ buffer' = buffer
          BY <1>4, <2>2, <4>2 DEF Get
        <5>. QED  BY <2>2, <4>2, <5>1, GetRemoves
      <4>. QED  BY <4>1, <4>2
    <3>. QED  BY <3>1, <3>2, <3>3, ZenonT(40) DEF Queue!Get
  <2>. QED  BY <2>1, <2>2
<1>5. ASSUME Reset PROVE Queue!Reset
  <2>1. IsEmpty'  BY <1>5 DEF Reset, IsEmpty
  <2>2. Contents' = <<>>  BY <2>1, EmptyContentsPrime
  <2>. QED  BY <1>5, <2>2 DEF Reset, Queue!Reset
<1>. QED  BY <1>2, <1>3, <1>4, <1>5, Zenon DEF BufNext, Queue!Next

\* The pointers stay inside the array, and full is set only where head and
\* tail meet (circular_buffer.c).
THEOREM PointersInBuffer == BufSpec => []BufferOK
BY TypeInit, TypeNext, PTL DEF BufSpec

(***************************************************************************)
(* Every call on the circular buffer returns and leaves what the bounded   *)
(* queue of circular_buffer.h would, for every size and every sequence of  *)
(* calls.                                                                  *)
(***************************************************************************)
THEOREM BufferIsQueue == BufSpec => IsBoundedQueue
<1>1. BufferOK /\ BufferOK' /\ [BufNext]_bufVars => [Queue!Next]_(Queue!vars)
  <2>. SUFFICES ASSUME BufferOK, BufferOK', [BufNext]_bufVars
                PROVE  [Queue!Next]_(Queue!vars)
    OBVIOUS
  <2>1. CASE BufNext  BY <2>1, RefinesNext
  <2>2. CASE UNCHANGED bufVars
    <3>1. Contents' = Contents /\ out' = out
      BY <2>2, SameContents DEF bufVars
    <3>. QED  BY <3>1 DEF Queue!vars
  <2>. QED  BY <2>1, <2>2
<1>. QED  BY RefinesInit, PointersInBuffer, <1>1, PTL DEF BufSpec, IsBoundedQueue, Queue!Spec

-----------------------------------------------------------------------------
\* Positions of the channel sequence as a slot and an offset in it.
LEMMA SlotAndOffset ==
  ASSUME NEW q \in Int, NEW r \in 0 .. Eaw - 1
  PROVE  SlotOf(Eaw * q + r) = q /\ NextAw(Eaw * q + r) = Eaw - r
<1>1. Eaw \in Nat \ {0}  BY HostTxAssumption
<1>2. (Eaw * q + r) % Eaw = r /\ (Eaw * q + r) \div Eaw = q  BY <1>1
<1>. QED  BY <1>2, Zenon DEF SlotOf, NextAw

LEMMA AsSlotAndOffset ==
  ASSUME NEW t \in Int
  PROVE  \E q \in Int, r \in 0 .. Eaw - 1 :
           t = Eaw * q + r /\ SlotOf(t) = q /\ NextAw(t) = Eaw - r
<1>. DEFINE q == t \div Eaw
            r == t % Eaw
<1>0. Eaw \in Nat \ {0}  BY HostTxAssumption
<1>1. q \in Int /\ r \in 0 .. Eaw - 1  BY <1>0
<1>2. q = t \div Eaw /\ r = t % Eaw  OBVIOUS
<1>. HIDE DEF q, r
<1>3. t = Eaw * q + r  BY <1>0, <1>1, <1>2
<1>. QED  BY <1>1, <1>3, SlotAndOffset, Zenon

\* The position after d units: in the same slot, or in the next one.
LEMMA Later ==
  ASSUME NEW t \in Nat, NEW d \in Nat
  PROVE  /\ SlotOf(t) \in Int /\ NextAw(t) \in 1 .. Eaw
         /\ d < NextAw(t) => SlotOf(t + d) = SlotOf(t) /\ NextAw(t + d) = NextAw(t) - d
         /\ NextAw(t) <= d /\ d < NextAw(t) + Eaw =>
              SlotOf(t + d) = SlotOf(t) + 1 /\ NextAw(t + d) = NextAw(t) + Eaw - d
<1>0. Eaw \in Nat \ {0} /\ t \in Int  BY HostTxAssumption
<1>1. PICK q \in Int, r \in 0 .. Eaw - 1 :
             t = Eaw * q + r /\ SlotOf(t) = q /\ NextAw(t) = Eaw - r
  BY <1>0, AsSlotAndOffset, Zenon
<1>2. ASSUME d < Eaw - r
      PROVE  SlotOf(t + d) = q /\ NextAw(t + d) = Eaw - r - d
  <2>1. r + d \in 0 .. Eaw - 1 /\ Eaw - (r + d) = Eaw - r - d  BY <1>0, <1>2
  <2>2. t + d = Eaw * q + (r + d)
    <3>1. Eaw * q \in Int  BY <1>0
    <3>. QED  BY <1>0, <1>1, <3>1
  <2>. QED  BY <2>1, <2>2, SlotAndOffset, Zenon
<1>3. ASSUME Eaw - r <= d, d < Eaw - r + Eaw
      PROVE  SlotOf(t + d) = q + 1 /\ NextAw(t + d) = Eaw - r + Eaw - d
  <2>. DEFINE s == r + d - Eaw
  <2>1. s \in 0 .. Eaw - 1 /\ Eaw - s = Eaw - r + Eaw - d /\ q + 1 \in Int  BY <1>0, <1>3
  <2>2. t + d = Eaw * (q + 1) + s
    <3>1. Eaw * q \in Int /\ Eaw * (q + 1) = Eaw * q + Eaw  BY <1>0
    <3>. QED  BY <1>0, <1>1, <3>1
  <2>. HIDE DEF s
  <2>. QED  BY <2>1, <2>2, SlotAndOffset, Zenon
<1>4. Eaw - r \in 1 .. Eaw  BY <1>0
<1>. QED  BY <1>1, <1>2, <1>3, <1>4, Zenon

\* The end of the sequence is the end of a slot.
LEMMA SequenceWraps ==
  ASSUME NEW y \in Nat
  PROVE  NextAw(Eaw * Slots + y) = NextAw(y)
<1>0. Eaw \in Nat \ {0} /\ Slots \in Nat /\ y \in Int  BY HostTxAssumption
<1>1. PICK q \in Int, r \in 0 .. Eaw - 1 : y = Eaw * q + r /\ NextAw(y) = Eaw - r
  BY <1>0, AsSlotAndOffset, Zenon
<1>2. Slots + q \in Int /\ Eaw * Slots + y = Eaw * (Slots + q) + r
  <2>1. Eaw * q \in Int /\ Eaw * Slots \in Int /\ Eaw * (Slots + q) = Eaw * Slots + Eaw * q
    BY <1>0
  <2>. QED  BY <1>0, <1>1, <2>1
<1>. QED  BY <1>1, <1>2, SlotAndOffset, Zenon

(***************************************************************************)
(* When the next try is due in d units: not at once, within the length of  *)
(* a slot, without skipping a slot, and in the same slot only where its    *)
(* window is open.  If three guards fit into a slot, as in the code, it is *)
(* never due in the guard at the end of a slot.                            *)
(***************************************************************************)
Lands(t, d, guard) ==
  /\ d \in 1 .. Eaw
  /\ SlotOf(t + d) = SlotOf(t) \/ SlotOf(t + d) = SlotOf(t) + 1
  /\ SlotOf(t + d) = SlotOf(t) => CanSendIn(t + d, guard) = 0
  /\ 3 * guard <= Eaw + 2 => NextAw(t + d) >= guard

\* A retry after the guard that awdl_can_send_in found.
LEMMA GuardLands ==
  ASSUME NEW t \in Times, NEW guard \in Nat, 2 * guard < Eaw, CanSendIn(t, guard) # 0
  PROVE  LET d == Retry(CanSendIn(t, guard), guard)
         IN  Lands(t, d, guard) /\ (NextAw(t) >= guard => SlotOf(t + d) = SlotOf(t))
<1>. DEFINE a == NextAw(t)
            in == CanSendIn(t, guard)
            d == Retry(in, guard)
<1>1. Eaw \in Nat \ {0} /\ t \in Nat  BY HostTxAssumption DEF Times
<1>2. a \in 1 .. Eaw  BY NextAwRange
<1>3. CASE a < guard
  <2>1. in = a - guard /\ in < 0  BY <1>1, <1>2, <1>3 DEF CanSendIn
  <2>2. d = guard - (a - guard)  BY <2>1 DEF Retry
  <2>. HIDE DEF a, in, d
  <2>3. d \in Nat /\ d \in 1 .. Eaw /\ a <= d /\ d < a + Eaw  BY <1>1, <1>2, <1>3, <2>2
  <2>4. SlotOf(t) \in Int /\ SlotOf(t + d) = SlotOf(t) + 1 /\ NextAw(t + d) = a + Eaw - d
    BY <1>1, <2>3, Later, Zenon DEF a
  <2>5. 3 * guard <= Eaw + 2 => a + Eaw - d >= guard  BY <1>1, <1>2, <2>2
  <2>6. SlotOf(t + d) # SlotOf(t)  BY <2>4
  <2>7. Lands(t, d, guard)  BY <2>3, <2>4, <2>5, <2>6, Zenon DEF Lands
  <2>8. ~(a >= guard)  BY <1>2, <1>3
  <2>. QED  BY <2>7, <2>8, Zenon DEF d, in, a
<1>4. CASE ~(a < guard)
  <2>1. Eaw - a < guard /\ in = guard - (Eaw - a)  BY <1>4 DEF CanSendIn
  <2>2. ~(in < 0)  BY <1>1, <1>2, <2>1
  <2>3. d = guard - (Eaw - a)  BY <2>1, <2>2 DEF Retry
  <2>. HIDE DEF a, in, d
  <2>4. d \in Nat /\ d \in 1 .. Eaw /\ d < a /\ a - d = Eaw - guard /\ Eaw - (a - d) = guard
        /\ a - d >= guard
    BY <1>1, <1>2, <2>1, <2>3
  <2>5. SlotOf(t + d) = SlotOf(t) /\ NextAw(t + d) = a - d
    BY <1>1, <2>4, Later, Zenon DEF a
  <2>6. ~(NextAw(t + d) < guard) /\ ~(Eaw - NextAw(t + d) < guard)
    BY <1>1, <1>2, <2>4, <2>5
  <2>7. CanSendIn(t + d, guard) = 0  BY <2>6, Zenon DEF CanSendIn
  <2>8. Lands(t, d, guard)  BY <2>4, <2>5, <2>7, Zenon DEF Lands
  <2>. QED  BY <2>5, <2>8, Zenon DEF d, in
<1>. QED  BY <1>3, <1>4

\* A retry in the next slot, or a slot later.
LEMMA SlotLands ==
  ASSUME NEW t \in Times, NEW guard \in Nat, 2 * guard < Eaw
  PROVE  /\ Lands(t, NextAw(t), guard)
         /\ CanSendIn(t, guard) = 0 => Lands(t, Eaw, guard)
<1>. DEFINE a == NextAw(t)
<1>1. Eaw \in Nat \ {0} /\ t \in Nat  BY HostTxAssumption DEF Times
<1>2. a \in 1 .. Eaw /\ a \in Nat /\ Eaw \in 1 .. Eaw  BY <1>1, NextAwRange
<1>3. SlotOf(t) \in Int  BY <1>1, Later, Zenon
<1>4. Lands(t, a, guard)
  <2>1. a <= a /\ a < a + Eaw  BY <1>1, <1>2
  <2>2. SlotOf(t + a) = SlotOf(t) + 1 /\ NextAw(t + a) = a + Eaw - a
    BY <1>1, <1>2, <2>1, Later, Zenon
  <2>. HIDE DEF a
  <2>3. SlotOf(t + a) # SlotOf(t)  BY <1>3, <2>2
  <2>4. a + Eaw - a >= guard  BY <1>1, <1>2
  <2>. QED  BY <1>2, <2>2, <2>3, <2>4, Zenon DEF Lands
<1>5. ASSUME CanSendIn(t, guard) = 0 PROVE Lands(t, Eaw, guard)
  <2>1. a >= guard  BY <1>1, <1>2, <1>5 DEF CanSendIn
  <2>2. a <= Eaw /\ Eaw < a + Eaw /\ a + Eaw - Eaw >= guard  BY <1>1, <1>2, <2>1
  <2>3. SlotOf(t + Eaw) = SlotOf(t) + 1 /\ NextAw(t + Eaw) = a + Eaw - Eaw
    BY <1>1, <2>2, Later, Zenon
  <2>4. SlotOf(t + Eaw) # SlotOf(t)  BY <1>3, <2>3
  <2>. HIDE DEF a
  <2>. QED  BY <1>2, <2>2, <2>3, <2>4, Zenon DEF Lands
<1>. QED  BY <1>4, <1>5

\* awdl_send_unicast: the frame stays only with a timer that lands.
LEMMA UnicastLands ==
  ASSUME time \in Times, NEW nx, NEW timer, NEW u, u = SendUnicast(nx, timer)
  PROVE  \/ u.next = None /\ u.timer = timer
         \/ Lands(time, u.timer, UcGuard)
<1>. DEFINE in == IF nx # None /\ nx.to \in DOMAIN match
                  THEN CanSendUnicastIn(nx.to, time) ELSE 0
            a == NextAw(time)
<1>1. u = IF nx # None /\ in # 0
          THEN [next |-> nx, timer |-> Retry(in, UcGuard), fed |-> FALSE, gone |-> <<>>]
          ELSE [next |-> None, timer |-> timer, fed |-> TRUE,
                gone |-> IF nx = None THEN <<>> ELSE <<nx>>]
  BY DEF SendUnicast
<1>2. in = 0 \/ in = a \/ in = CanSendIn(time, UcGuard)
  BY Zenon DEF CanSendUnicastIn, CanSendIn
<1>3. UcGuard \in Nat /\ 2 * UcGuard < Eaw  BY HostTxAssumption
<1>4. a \in 1 .. Eaw  BY NextAwRange
<1>5. ~(a < 0)  BY <1>4
<1>. HIDE DEF in, a
<1>6. ASSUME in # 0 PROVE Lands(time, Retry(in, UcGuard), UcGuard)
  <2>1. CASE in = a
    <3>1. Retry(in, UcGuard) = a  BY <1>5, <2>1, Zenon DEF Retry
    <3>. QED  BY <1>3, <3>1, SlotLands, Zenon DEF a
  <2>2. CASE in = CanSendIn(time, UcGuard)  BY <1>3, <1>6, <2>2, GuardLands, Zenon
  <2>. QED  BY <1>2, <1>6, <2>1, <2>2
<1>7. CASE nx # None /\ in # 0
  <2>1. u.timer = Retry(in, UcGuard)  BY <1>1, <1>7
  <2>. QED  BY <1>6, <1>7, <2>1, Zenon
<1>8. CASE ~(nx # None /\ in # 0)
  <2>1. u.next = None /\ u.timer = timer  BY <1>1, <1>8
  <2>. QED  BY <2>1
<1>. QED  BY <1>7, <1>8

\* The window for multicast frames is open.
McOpen == NextAw(time) >= McGuard /\ SlotOf(time) \in McSlots

\* awdl_send_multicast: it sends a frame and is at once ready for the next
\* one, or the frames stay with a timer that lands.
LEMMA MulticastLands ==
  ASSUME time \in Times, NEW q \in Seq(Frames), NEW timer, NEW m, m = SendMulticast(q, timer)
  PROVE  \/ m.mq = <<>> /\ m.timer = timer
         \/ m.timer = 0 /\ McOpen
         \/ Lands(time, m.timer, McGuard)
<1>. DEFINE in == CanSendIn(time, McGuard)
            send == q # <<>> /\ SlotOf(time) \in McSlots /\ in = 0
            q2 == IF send THEN Tail(q) ELSE q
            tm == IF q2 = <<>> THEN timer
                  ELSE IF send THEN 0
                  ELSE IF in = 0 THEN Eaw ELSE Retry(in, McGuard)
<1>1. m.mq = q2 /\ m.timer = tm
  <2>1. m = [mq |-> q2, timer |-> tm, fed |-> q2 = <<>>,
             gone |-> IF send THEN <<Head(q)>> ELSE <<>>]
    BY DEF SendMulticast
  <2>. HIDE DEF q2, tm, send
  <2>. QED  BY <2>1
<1>2. McGuard \in Nat /\ 2 * McGuard < Eaw /\ Eaw \in Nat  BY HostTxAssumption
<1>3. NextAw(time) \in 1 .. Eaw  BY NextAwRange
<1>4. in = 0 => NextAw(time) >= McGuard  BY <1>2, <1>3 DEF CanSendIn
<1>. HIDE DEF in
<1>5. CASE q2 = <<>>  BY <1>1, <1>5, Zenon
<1>6. CASE q2 # <<>> /\ send
  <2>1. tm = 0  BY <1>6
  <2>2. McOpen  BY <1>4, <1>6, Zenon DEF McOpen
  <2>. QED  BY <1>1, <2>1, <2>2, Zenon
<1>7. CASE q2 # <<>> /\ ~send /\ in = 0
  <2>1. tm = Eaw  BY <1>7
  <2>2. Lands(time, Eaw, McGuard)  BY <1>2, <1>7, SlotLands, Zenon DEF in
  <2>. QED  BY <1>1, <2>1, <2>2, Zenon
<1>8. CASE q2 # <<>> /\ ~send /\ in # 0
  <2>1. tm = Retry(in, McGuard)  BY <1>8
  <2>2. Lands(time, Retry(in, McGuard), McGuard)  BY <1>2, <1>8, GuardLands, Zenon DEF in
  <2>. QED  BY <1>1, <2>1, <2>2, Zenon
<1>. QED  BY <1>5, <1>6, <1>7, <1>8, Zenon

-----------------------------------------------------------------------------
\* What a step that takes no time does to the two timers: it keeps the timer, for
\* no frame that was not there, or sets it to a time that lands.
UcStep ==
  \/ Lands(time, txTimer', UcGuard)
  \/ txTimer' \in {txTimer, Off} /\ (next' # None => next # None)

McStep ==
  \/ Lands(time, mcTimer', McGuard)
  \/ mcTimer' = 0 /\ McOpen
  \/ mcTimer' \in {mcTimer, Off} /\ (mq' # <<>> => mq # <<>>)

LEMMA HostReadyTimers ==
  ASSUME TxInv, HostReady
  PROVE  time' = time /\ UcStep /\ McStep
<1>1. PICK n \in 0 .. Len(host) :
       LET uc    == n > 0 /\ IsUnicast(host[n])
           runt  == n > 0 /\ host[n].to = "runt"
           mc    == SubSeq(host, 1, IF uc \/ runt THEN n - 1 ELSE n)
           nx    == IF uc THEN host[n] ELSE next
           q     == Newest(mq \o mc)
           m     == IF mc # <<>> THEN SendMulticast(q, mcTimer)
                    ELSE [mq |-> q, timer |-> mcTimer, fed |-> FALSE, gone |-> <<>>]
           u     == IF uc THEN SendUnicast(nx, txTimer)
                    ELSE [next |-> nx, timer |-> txTimer, fed |-> FALSE, gone |-> <<>>]
       IN  next' = u.next /\ txTimer' = u.timer /\ mq' = m.mq /\ mcTimer' = m.timer
  BY ZenonT(40) DEF HostReady
<1>. DEFINE uc   == n > 0 /\ IsUnicast(host[n])
            runt == n > 0 /\ host[n].to = "runt"
            k    == IF uc \/ runt THEN n - 1 ELSE n
            mc   == SubSeq(host, 1, k)
            nx   == IF uc THEN host[n] ELSE next
            q    == Newest(mq \o mc)
            m    == IF mc # <<>> THEN SendMulticast(q, mcTimer)
                    ELSE [mq |-> q, timer |-> mcTimer, fed |-> FALSE, gone |-> <<>>]
            u    == IF uc THEN SendUnicast(nx, txTimer)
                    ELSE [next |-> nx, timer |-> txTimer, fed |-> FALSE, gone |-> <<>>]
<1>2. next' = u.next /\ txTimer' = u.timer /\ mq' = m.mq /\ mcTimer' = m.timer  BY <1>1, Zenon
<1>3. time' = time  BY ZenonT(40) DEF HostReady
<1>4. /\ time \in Times /\ host \in Seq(Frames) /\ mq \in Seq(Frames)
      /\ Len(mq) <= Cap /\ Cap \in Nat /\ Len(host) \in Nat /\ Len(mq) \in Nat
  BY HostTxAssumption DEF TxInv, TypeOK
<1>5. UcStep
  <2>1. CASE uc
    <3>1. u = SendUnicast(nx, txTimer)  BY <2>1
    <3>. HIDE DEF u, nx
    <3>2. (u.next = None /\ u.timer = txTimer) \/ Lands(time, u.timer, UcGuard)
      BY <1>4, <3>1, UnicastLands, Zenon
    <3>. QED  BY <1>2, <3>2, Zenon DEF UcStep
  <2>2. CASE ~uc
    <3>1. u.next = next /\ u.timer = txTimer  BY <2>2, Zenon
    <3>. QED  BY <1>2, <3>1, Zenon DEF UcStep
  <2>. QED  BY <2>1, <2>2, Zenon
<1>6. mc \in Seq(Frames)
  <2>1. k \in 0 .. Len(host)  BY <1>4
  <2>. HIDE DEF k
  <2>. QED  BY <1>4, <2>1
<1>. HIDE DEF k, mc, uc, runt
<1>7. mq \o mc \in Seq(Frames) /\ (mc = <<>> => mq \o mc = mq)  BY <1>4, <1>6
<1>8. q \in Seq(Frames)  BY <1>7, NewestType, Zenon
<1>9. McStep
  <2>1. CASE mc # <<>>
    <3>1. m = SendMulticast(q, mcTimer)  BY <2>1
    <3>. HIDE DEF m, q
    <3>2. \/ m.mq = <<>> /\ m.timer = mcTimer
          \/ m.timer = 0 /\ McOpen
          \/ Lands(time, m.timer, McGuard)
      BY <1>4, <1>8, <3>1, MulticastLands, Zenon
    <3>. QED  BY <1>2, <3>2, Zenon DEF McStep
  <2>2. CASE mc = <<>>
    <3>1. q = mq
      <4>1. q = Newest(mq)  BY <1>7, <2>2, Zenon
      <4>2. Newest(mq) = SubSeq(mq, 1, Len(mq))
        <5>1. ~(Len(mq) > Cap)  BY <1>4
        <5>. QED  BY <5>1, Zenon DEF Newest
      <4>3. SubSeq(mq, 1, Len(mq)) = mq  BY <1>4
      <4>. HIDE DEF q
      <4>. QED  BY <4>1, <4>2, <4>3, Zenon
    <3>2. m.mq = q /\ m.timer = mcTimer  BY <2>2, Zenon
    <3>. HIDE DEF m, q
    <3>. QED  BY <1>2, <3>1, <3>2, Zenon DEF McStep
  <2>. QED  BY <2>1, <2>2, Zenon
<1>. QED  BY <1>3, <1>5, <1>9

\* A sync update moves the node in the channel sequence.
Jumps == \E t \in Times : SyncJump(t)

\* Every step leaves the timers in place, sets them to times that land, or is one
\* of time itself.
LEMMA TimersStep ==
  ASSUME TxInv, [Next]_vars
  PROVE  \/ time' = time /\ UcStep /\ McStep
         \/ Tick
         \/ Jumps
<1>1. CASE HostReady  BY <1>1, HostReadyTimers
<1>2. CASE TxTimer
  <2>. DEFINE u == SendUnicast(next, Off)
  <2>1. /\ next' = u.next /\ txTimer' = u.timer
        /\ time' = time /\ mq' = mq /\ mcTimer' = mcTimer
    BY <1>2 DEF TxTimer
  <2>. HIDE DEF u
  <2>2. (u.next = None /\ u.timer = Off) \/ Lands(time, u.timer, UcGuard)
    BY UnicastLands, Zenon DEF TxInv, TypeOK, u
  <2>. QED  BY <2>1, <2>2, Zenon DEF UcStep, McStep
<1>3. CASE McTimer
  <2>. DEFINE m == SendMulticast(mq, Off)
  <2>1. /\ mq' = m.mq /\ mcTimer' = m.timer
        /\ time' = time /\ next' = next /\ txTimer' = txTimer
    BY <1>3 DEF McTimer
  <2>. HIDE DEF m
  <2>2. \/ m.mq = <<>> /\ m.timer = Off
        \/ m.timer = 0 /\ McOpen
        \/ Lands(time, m.timer, McGuard)
    BY MulticastLands, Zenon DEF TxInv, TypeOK, m
  <2>. QED  BY <2>1, <2>2, Zenon DEF UcStep, McStep
<1>4. ASSUME time' = time, next' = next, mq' = mq, txTimer' = txTimer, mcTimer' = mcTimer
      PROVE  time' = time /\ UcStep /\ McStep
  BY <1>4, Zenon DEF UcStep, McStep
<1>5. ASSUME NEW to \in Kinds, HostArrive(to) PROVE time' = time /\ UcStep /\ McStep
  BY <1>4, <1>5 DEF HostArrive
<1>6. ASSUME NEW p \in Peers, PeerLeave(p) PROVE time' = time /\ UcStep /\ McStep
  BY <1>4, <1>6 DEF PeerLeave
<1>7. ASSUME NEW p \in Peers, NEW slots \in Matches, PeerJoin(p, slots) \/ PeerUpdate(p, slots)
      PROVE  time' = time /\ UcStep /\ McStep
  BY <1>4, <1>7 DEF PeerJoin, PeerUpdate
<1>8. UNCHANGED vars => time' = time /\ UcStep /\ McStep  BY <1>4 DEF vars
<1>. QED
  BY <1>1, <1>2, <1>3, <1>5, <1>6, <1>7, <1>8, Zenon DEF Next, Loop, Jumps

\* A unit of time takes the timers with it.
LEMMA TickTimers ==
  ASSUME TxInv, Tick, NEW tm \in Nat \ {0}
  PROVE  Down(tm) = tm - 1 /\ tm - 1 \in Nat /\ NextAw(time' + (tm - 1)) = NextAw(time + tm)
<1>. DEFINE C == Eaw * Slots
<1>0. Off \notin Nat  BY HostTxAssumption
<1>1. C \in Nat \ {0} /\ time \in Nat /\ time < C /\ time' = (time + 1) % C
  BY HostTxAssumption DEF TxInv, TypeOK, Times, Tick
<1>2. Down(tm) = tm - 1 /\ tm - 1 \in Nat
  <2>1. tm # Off  BY <1>0
  <2>. QED  BY <2>1 DEF Down
<1>3. CASE time + 1 < C
  <2>. HIDE DEF C
  <2>1. time' = time + 1  BY <1>1, <1>3
  <2>2. time' + (tm - 1) = time + tm  BY <1>1, <2>1
  <2>. QED  BY <1>2, <2>2, Zenon
<1>4. CASE ~(time + 1 < C)
  <2>1. time + 1 = C /\ time' = 0
    <3>. HIDE DEF C
    <3>1. time + 1 = C  BY <1>1, <1>4
    <3>2. C % C = 0  BY <1>1
    <3>. QED  BY <1>1, <3>1, <3>2
  <2>2. time + tm = C + (tm - 1) /\ time' + (tm - 1) = tm - 1
    <3>. HIDE DEF C
    <3>. QED  BY <1>1, <2>1
  <2>3. NextAw(C + (tm - 1)) = NextAw(tm - 1)  BY <1>2, SequenceWraps, Zenon
  <2>. HIDE DEF C
  <2>. QED  BY <1>2, <2>2, <2>3, Zenon
<1>. QED  BY <1>3, <1>4

\* A frame is tried again within the length of a slot.
RetriesSoon ==
  /\ txTimer # Off => txTimer <= Eaw
  /\ mcTimer # Off => mcTimer <= Eaw

(***************************************************************************)
(* No retry delay exceeds the length of a slot, whatever the position at   *)
(* which a frame was refused and wherever the synchronisation jumps: a     *)
(* jump can spoil one retry of a frame, and the next comes within a slot.  *)
(***************************************************************************)
THEOREM RetriesComeSoon == Spec => []RetriesSoon
<1>0. Eaw \in Nat \ {0} /\ Off \notin Nat  BY HostTxAssumption
<1>1. Init => RetriesSoon  BY <1>0 DEF Init, RetriesSoon
<1>2. ASSUME TxInv, RetriesSoon, [Next]_vars PROVE RetriesSoon'
  <2>1. CASE time' = time /\ UcStep /\ McStep
    <3>1. txTimer' \in 1 .. Eaw \/ txTimer' \in {txTimer, Off}  BY <2>1, Zenon DEF UcStep, Lands
    <3>2. mcTimer' \in 1 .. Eaw \/ mcTimer' = 0 \/ mcTimer' \in {mcTimer, Off}
      BY <2>1, Zenon DEF McStep, Lands
    <3>3. \A d \in 1 .. Eaw : d <= Eaw  BY <1>0
    <3>4. 0 <= Eaw  BY <1>0
    <3>. QED  BY <1>2, <3>1, <3>2, <3>3, <3>4, Zenon DEF RetriesSoon
  <2>2. CASE Tick
    <3>1. /\ txTimer' = Down(txTimer) /\ mcTimer' = Down(mcTimer)
          /\ txTimer # 0 /\ mcTimer # 0
      BY <2>2 DEF Tick
    <3>2. ASSUME NEW tm \in Timers, tm # 0, tm # Off => tm <= Eaw
          PROVE  Down(tm) # Off => Down(tm) <= Eaw
      BY <1>0, <3>2 DEF Timers, Down
    <3>3. txTimer \in Timers /\ mcTimer \in Timers  BY <1>2 DEF TxInv, TypeOK
    <3>. QED  BY <1>2, <3>1, <3>2, <3>3, Zenon DEF RetriesSoon
  <2>3. CASE Jumps
    <3>1. txTimer' = txTimer /\ mcTimer' = mcTimer  BY <2>3 DEF Jumps, SyncJump
    <3>. QED  BY <1>2, <3>1, Zenon DEF RetriesSoon
  <2>. QED  BY <1>2, <2>1, <2>2, <2>3, TimersStep, Zenon
<1>3. TypeOK /\ WaitingHasTimer => TxInv  BY DEF TxInv
<1>. QED  BY <1>1, <1>2, <1>3, NoFrameStranded, PTL DEF Spec

\* Three guards fit into a slot: they are 3 and 16 of its 64 time units in
\* the code.
GuardsFit == 3 * UcGuard <= Eaw + 2 /\ 3 * McGuard <= Eaw + 2

\* The waiting frames are tried again before the guard at the end of a slot.
UcOnTime == next # None => NextAw(time + txTimer) >= UcGuard
McOnTime == mq # <<>> => NextAw(time + mcTimer) >= McGuard

(***************************************************************************)
(* The delay that awdl_send_unicast and awdl_send_multicast compute for a  *)
(* refused frame never makes its retry due in the guard at the end of a    *)
(* slot, where it would be refused again, and no other step moves it       *)
(* there: not the time that passes, not the frames and the peers that come *)
(* and go, not the other timer.  Only a jump of the synchronisation does,  *)
(* and the retry after the next one is on time again.                      *)
(***************************************************************************)
THEOREM RetriesOnTime ==
  ASSUME GuardsFit
  PROVE  Spec => [][/\ (UcOnTime /\ ~Jumps) \/ TxTimer => UcOnTime'
                    /\ (McOnTime /\ ~Jumps) \/ McTimer => McOnTime']_vars
<1>1. ASSUME TxInv, TxInv', [Next]_vars
      PROVE  /\ (UcOnTime /\ ~Jumps) \/ TxTimer => UcOnTime'
             /\ (McOnTime /\ ~Jumps) \/ McTimer => McOnTime'
  <2>0. /\ time \in Times /\ time \in Nat
        /\ next # None => txTimer \in Nat
        /\ mq # <<>> => mcTimer \in Nat
        /\ next' # None => txTimer' # Off
        /\ mq' # <<>> => mcTimer' # Off
    <3>1. time \in Times /\ txTimer \in Timers /\ mcTimer \in Timers
      BY <1>1, Zenon DEF TxInv, TypeOK
    <3>2. WaitingHasTimer /\ WaitingHasTimer'  BY <1>1, Zenon DEF TxInv
    <3>3. time \in Nat  BY <3>1 DEF Times
    <3>4. \A tm \in Timers : tm # Off => tm \in Nat  BY DEF Timers
    <3>. QED  BY <3>1, <3>2, <3>3, <3>4, Zenon DEF WaitingHasTimer
  <2>1. ASSUME time' = time, UcStep, UcOnTime PROVE UcOnTime'
    <3>1. CASE Lands(time, txTimer', UcGuard)
      BY <2>1, <3>1, GuardsFit, Zenon DEF Lands, UcOnTime, GuardsFit
    <3>2. CASE txTimer' \in {txTimer, Off} /\ (next' # None => next # None)
      BY <2>0, <2>1, <3>2, Zenon DEF UcOnTime
    <3>. QED  BY <2>1, <3>1, <3>2, Zenon DEF UcStep
  <2>2. ASSUME time' = time, McStep, McOnTime PROVE McOnTime'
    <3>1. CASE Lands(time, mcTimer', McGuard)
      BY <2>2, <3>1, GuardsFit, Zenon DEF Lands, McOnTime, GuardsFit
    <3>2. CASE mcTimer' = 0 /\ McOpen
      <4>1. time' + mcTimer' = time  BY <2>0, <2>2, <3>2
      <4>. QED  BY <3>2, <4>1, Zenon DEF McOnTime, McOpen
    <3>3. CASE mcTimer' \in {mcTimer, Off} /\ (mq' # <<>> => mq # <<>>)
      BY <2>0, <2>2, <3>3, Zenon DEF McOnTime
    <3>. QED  BY <2>2, <3>1, <3>2, <3>3, Zenon DEF McStep
  <2>3. ASSUME Tick PROVE (UcOnTime => UcOnTime') /\ (McOnTime => McOnTime')
    <3>1. /\ txTimer' = Down(txTimer) /\ mcTimer' = Down(mcTimer)
          /\ txTimer # 0 /\ mcTimer # 0 /\ next' = next /\ mq' = mq
      BY <2>3 DEF Tick
    <3>2. ASSUME NEW tm \in Nat, tm # 0 PROVE NextAw(time' + Down(tm)) = NextAw(time + tm)
      <4>1. tm \in Nat \ {0}  BY <3>2
      <4>. QED  BY <1>1, <2>3, <4>1, TickTimers, Zenon
    <3>. QED  BY <2>0, <3>1, <3>2, Zenon DEF UcOnTime, McOnTime
  <2>4. ASSUME TxTimer PROVE UcOnTime'
    <3>. DEFINE u == SendUnicast(next, Off)
    <3>1. next' = u.next /\ txTimer' = u.timer /\ time' = time  BY <2>4 DEF TxTimer
    <3>. HIDE DEF u
    <3>2. u.next = None \/ Lands(time, u.timer, UcGuard)  BY <2>0, UnicastLands, Zenon DEF u
    <3>. QED  BY <3>1, <3>2, GuardsFit, Zenon DEF Lands, UcOnTime, GuardsFit
  <2>5. ASSUME McTimer PROVE McOnTime'
    <3>. DEFINE m == SendMulticast(mq, Off)
    <3>1. mq' = m.mq /\ mcTimer' = m.timer /\ time' = time  BY <2>5 DEF McTimer
    <3>. HIDE DEF m
    <3>2. m.mq = <<>> \/ (m.timer = 0 /\ McOpen) \/ Lands(time, m.timer, McGuard)
      BY <1>1, <2>0, MulticastLands, Zenon DEF m, TxInv, TypeOK
    <3>3. time + 0 = time  BY <2>0
    <3>. QED  BY <3>1, <3>2, <3>3, GuardsFit, Zenon DEF Lands, McOnTime, McOpen, GuardsFit
  <2>. QED  BY <1>1, <2>1, <2>2, <2>3, <2>4, <2>5, TimersStep, Zenon
<1>2. TypeOK /\ WaitingHasTimer => TxInv  BY DEF TxInv
<1>. QED  BY <1>1, <1>2, NoFrameStranded, PTL DEF Spec

\* What a timer that fires does for the frames that wait.
UcUsed ==
  TxTimer =>
    /\ next' # None => txTimer' \in 1 .. Eaw /\ SlotOf(time + txTimer') <= SlotOf(time) + 1
    /\ UcOnTime /\ next # None /\ next.to \in DOMAIN match /\ SameChannel(next.to, time, 0) =>
         \/ next' = None
         \/ SlotOf(time + txTimer') = SlotOf(time) /\ CanSendIn(time + txTimer', UcGuard) = 0

McUsed ==
  McTimer =>
    /\ mq' # <<>> => mcTimer' \in 0 .. Eaw /\ SlotOf(time + mcTimer') <= SlotOf(time) + 1
    /\ McOnTime /\ mq # <<>> /\ SlotOf(time) \in McSlots =>
         \/ mq' = Tail(mq)
         \/ SlotOf(time + mcTimer') = SlotOf(time) /\ CanSendIn(time + mcTimer', McGuard) = 0

(***************************************************************************)
(* The retries of awdl_send_unicast and awdl_send_multicast use the slots  *)
(* they meet.  On the peer's channel, or in a multicast slot, a timer that *)
(* fires on time sends, or comes back in the same slot when the guard at   *)
(* its start is over.  Elsewhere it comes back in the same or in the next  *)
(* slot, so none is skipped.                                               *)
(***************************************************************************)
THEOREM WindowsAreUsed == Spec => [][UcUsed /\ McUsed]_vars
<1>0. /\ UcGuard \in Nat /\ 2 * UcGuard < Eaw /\ McGuard \in Nat /\ 2 * McGuard < Eaw
      /\ Eaw \in Nat \ {0}
  BY HostTxAssumption
<1>1. ASSUME NEW t \in Times, NEW d, NEW guard, Lands(t, d, guard)
      PROVE  d \in 1 .. Eaw /\ d \in 0 .. Eaw /\ SlotOf(t + d) <= SlotOf(t) + 1
  <2>1. d \in 1 .. Eaw /\ (SlotOf(t + d) = SlotOf(t) \/ SlotOf(t + d) = SlotOf(t) + 1)
    BY <1>1, Zenon DEF Lands
  <2>2. SlotOf(t) \in Int
    <3>1. t \in Nat /\ 0 \in Nat  BY DEF Times
    <3>. QED  BY <3>1, Later, Zenon
  <2>3. d \in 0 .. Eaw  BY <1>0, <2>1
  <2>4. \A s \in Int : s <= s + 1 /\ s + 1 <= s + 1  OBVIOUS
  <2>. QED  BY <2>1, <2>2, <2>3, <2>4, Zenon
<1>2. ASSUME TxInv, TxTimer PROVE UcUsed
  <2>. DEFINE u == SendUnicast(next, Off)
              in == CanSendUnicastIn(next.to, time)
  <2>0. time \in Times /\ time \in Nat /\ txTimer = 0 /\ time + txTimer = time
    BY <1>2 DEF TxInv, TypeOK, Times, TxTimer
  <2>1. next' = u.next /\ txTimer' = u.timer /\ time' = time  BY <1>2 DEF TxTimer
  <2>2. u.next = None \/ Lands(time, u.timer, UcGuard)  BY <2>0, UnicastLands, Zenon
  <2>3. ASSUME UcOnTime, next # None, next.to \in DOMAIN match, SameChannel(next.to, time, 0)
        PROVE  \/ u.next = None
               \/ SlotOf(time + u.timer) = SlotOf(time) /\ CanSendIn(time + u.timer, UcGuard) = 0
    <3>1. u = IF in # 0
              THEN [next |-> next, timer |-> Retry(in, UcGuard), fed |-> FALSE, gone |-> <<>>]
              ELSE [next |-> None, timer |-> Off, fed |-> TRUE, gone |-> <<next>>]
      BY <2>3, Zenon DEF SendUnicast
    <3>2. NextAw(time) >= UcGuard  BY <2>0, <2>3, Zenon DEF UcOnTime
    <3>3. in = 0 \/ in = CanSendIn(time, UcGuard)
      BY <2>3, Zenon DEF CanSendUnicastIn, CanSendIn
    <3>. HIDE DEF in, u
    <3>4. CASE in = 0
      <4>1. u.next = None  BY <3>1, <3>4
      <4>. QED  BY <4>1
    <3>5. CASE in # 0
      <4>1. u.timer = Retry(in, UcGuard)  BY <3>1, <3>5
      <4>. DEFINE d == Retry(CanSendIn(time, UcGuard), UcGuard)
      <4>2. u.timer = d  BY <3>3, <3>5, <4>1, Zenon
      <4>3. Lands(time, d, UcGuard) /\ SlotOf(time + d) = SlotOf(time)
        BY <1>0, <2>0, <3>2, <3>3, <3>5, GuardLands, Zenon
      <4>. HIDE DEF d
      <4>. QED  BY <4>2, <4>3, Zenon DEF Lands
    <3>. QED  BY <3>4, <3>5, Zenon
  <2>. HIDE DEF u
  <2>4. next' # None => txTimer' \in 1 .. Eaw /\ SlotOf(time + txTimer') <= SlotOf(time) + 1
    BY <1>1, <2>0, <2>1, <2>2, Zenon
  <2>. QED  BY <2>1, <2>3, <2>4, Zenon DEF UcUsed
<1>3. ASSUME TxInv, McTimer PROVE McUsed
  <2>. DEFINE in == CanSendIn(time, McGuard)
              send == mq # <<>> /\ SlotOf(time) \in McSlots /\ in = 0
              q2 == IF send THEN Tail(mq) ELSE mq
              tm == IF q2 = <<>> THEN Off
                    ELSE IF send THEN 0
                    ELSE IF in = 0 THEN Eaw ELSE Retry(in, McGuard)
              m == SendMulticast(mq, Off)
  <2>0. /\ time \in Times /\ time \in Nat /\ mcTimer = 0 /\ time + mcTimer = time
        /\ time + 0 = time /\ mq \in Seq(Frames)
    BY <1>3 DEF TxInv, TypeOK, Times, McTimer
  <2>1. mq' = m.mq /\ mcTimer' = m.timer /\ time' = time  BY <1>3 DEF McTimer
  <2>2. \/ m.mq = <<>> \/ m.timer = 0
        \/ Lands(time, m.timer, McGuard)
    BY <2>0, MulticastLands, Zenon
  <2>3. m.mq = q2 /\ m.timer = tm
    <3>1. m = [mq |-> q2, timer |-> tm, fed |-> q2 = <<>>,
               gone |-> IF send THEN <<Head(mq)>> ELSE <<>>]
      BY DEF SendMulticast
    <3>. HIDE DEF m, q2, tm, send
    <3>. QED  BY <3>1
  <2>. HIDE DEF in, m
  <2>4. ASSUME McOnTime, mq # <<>>, SlotOf(time) \in McSlots
        PROVE  \/ q2 = Tail(mq)
               \/ SlotOf(time + tm) = SlotOf(time) /\ CanSendIn(time + tm, McGuard) = 0
    <3>1. CASE in = 0  BY <2>4, <3>1
    <3>2. CASE in # 0
      <4>. DEFINE d == Retry(CanSendIn(time, McGuard), McGuard)
      <4>1. tm = d  BY <2>4, <3>2, Zenon DEF in
      <4>2. NextAw(time) >= McGuard  BY <2>0, <2>4, Zenon DEF McOnTime
      <4>3. Lands(time, d, McGuard) /\ SlotOf(time + d) = SlotOf(time)
        BY <1>0, <2>0, <3>2, <4>2, GuardLands, Zenon DEF in
      <4>. HIDE DEF d, tm
      <4>. QED  BY <4>1, <4>3, Zenon DEF Lands
    <3>. QED  BY <3>1, <3>2, Zenon
  <2>. HIDE DEF q2, tm, send
  <2>5. mq' # <<>> => mcTimer' \in 0 .. Eaw /\ SlotOf(time + mcTimer') <= SlotOf(time) + 1
    <3>1. 0 \in 0 .. Eaw  BY <1>0
    <3>2. SlotOf(time) \in Int
      <4>1. 0 \in Nat  OBVIOUS
      <4>. QED  BY <2>0, <4>1, Later, Zenon
    <3>3. SlotOf(time) <= SlotOf(time) + 1  BY <3>2
    <3>. QED  BY <1>1, <2>0, <2>1, <2>2, <3>1, <3>3, Zenon
  <2>. QED  BY <2>1, <2>3, <2>4, <2>5, Zenon DEF McUsed
<1>4. ASSUME TxInv PROVE UcUsed /\ McUsed
  BY <1>2, <1>3, <1>4, Zenon DEF UcUsed, McUsed
<1>5. TypeOK /\ WaitingHasTimer => TxInv  BY DEF TxInv
<1>. QED  BY <1>4, <1>5, NoFrameStranded, PTL

=============================================================================
