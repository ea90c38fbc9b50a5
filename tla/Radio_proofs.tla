---------------------------- MODULE Radio_proofs ----------------------------
(***************************************************************************)
(* The channel of the pairing beacon, proved for any number of slots, any  *)
(* forced channels, and adapters that may or may not refuse commands: the  *)
(* channel the daemon names is the one the adapter is tuned to, and a      *)
(* forced one is never left.                                               *)
(***************************************************************************)
EXTENDS Radio, TLAPS

-----------------------------------------------------------------------------
(* The inductive invariant                                                 *)

ConfOK == /\ conf.forced \in Forcings
          /\ conf.multi \in BOOLEAN

Obeyed == conf.forced = 0 /\ conf.adapter = "sound"

\* The scan's index is that of the tuned channel from the hop to the record of
\* it, and until the two seconds after the hop are over.
IndexIsTuned ==
  Obeyed /\ (Scanning \/ scan.recent) => radio = ScanChannels[scan.idx]

\* With a forced channel the main thread does not reach the scan.
ForcedIsNotScanned ==
  conf.forced # 0 => pc["main"] \notin {"mac", "tune", "advertise", "publish"}

IInv == /\ ConfOK
        /\ TypeOK
        /\ IndexIsTuned
        /\ ChannelIsTuned
        /\ ForcedIsNotScanned

-----------------------------------------------------------------------------
(* The constants, and the steps that only move a thread                    *)

\* Every channel of the scan is a channel, and the scan's index goes round.
LEMMA ScanRound ==
  /\ Len(ScanChannels) = 4
  /\ \A i \in 1 .. 4 : ScanChannels[i] \in Channel
  /\ \A i \in 1 .. 4 : (i % 4) + 1 \in 1 .. 4
  BY DEF ScanChannels, Channel

\* A forced channel and the channel the adapter makes of it are channels.
LEMMA ForcedChannels ==
  ASSUME ConfOK
  PROVE  /\ conf.forced # 0 => conf.forced \in Channel
         /\ HwChannel \in Channel
<1>1. conf.forced \in {0, 36, 40, 44, 48}
  BY RadioAssumption DEF ConfOK
<1>2. HwChannel \in {44, 24, 28, 32, 36}
  BY <1>1 DEF HwChannel
<1> QED
  BY <1>1, <1>2 DEF Channel

\* The thread that does not move stays where it is.
LEMMA Moves ==
  ASSUME TypeOK, NEW t \in Thread, NEW l, Goto(t, l)
  PROVE  /\ pc' = [pc EXCEPT ![t] = l]
         /\ pc'[t] = l
         /\ t = "main" => pc'["reader"] = pc["reader"]
         /\ t = "reader" => pc'["main"] = pc["main"]
  BY DEF TypeOK, Label, Goto, Thread

\* The labels of the threads.
LEMMA Labels ==
  ASSUME TypeOK, NEW t \in Thread, NEW l, Goto(t, l),
         \/ t = "main" /\ l \in {"sleep", "count", "guard", "mac", "tune", "advertise",
                                 "publish", "check", "write", "assign"}
         \/ t = "reader" /\ l \in {"idle", "check", "write", "assign"}
  PROVE  pc' \in Label
  BY DEF TypeOK, Label, Goto, Thread

-----------------------------------------------------------------------------
\* The invariant holds at the start, whatever XBOX_PAIR_CHANNEL says.
THEOREM Initially == Init => IInv
<1> SUFFICES ASSUME Init PROVE IInv
  OBVIOUS
<1>1. ConfOK
  BY DEF Init, ConfOK
<1>2. radio \in Channel /\ (Obeyed => radio = 44)
  BY <1>1, ForcedChannels DEF Init, Obeyed, HwChannel, Channel, Outcome
<1>3. channel \in Channel /\ (Obeyed => channel = 44)
  BY <1>1, ForcedChannels DEF Init, Obeyed, Channel
<1>4. TypeOK
  <2>1. advert \in [pairing : BOOLEAN, channel : Channel]
    BY <1>2 DEF Init, BeaconFrame
  <2>2. pc \in Label
    BY DEF Init, Label
  <2>3. seen \in [count : 0 .. MaxSlots, next : 0 .. MaxSlots] /\ seen.count <= seen.next
    BY RadioAssumption DEF Init
  <2>4. scan \in [mac : BOOLEAN, idx : 1 .. Len(ScanChannels), recent : BOOLEAN]
    BY ScanRound DEF Init
  <2> QED
    BY <1>2, <1>3, <2>1, <2>2, <2>3, <2>4 DEF Init, TypeOK, Slot
<1>5. pc["main"] = "sleep" /\ scan.recent = FALSE
  BY DEF Init
<1> QED
  BY <1>1, <1>2, <1>3, <1>4, <1>5
  DEF IInv, IndexIsTuned, ChannelIsTuned, ForcedIsNotScanned, Obeyed, Scanning

-----------------------------------------------------------------------------
(* The steps that touch neither the channel nor the scan: only the type,   *)
(* and that the main thread is not brought into the scan, are left to show *)

\* Such a step keeps the invariant.
LEMMA Apart ==
  ASSUME IInv, TypeOK', UNCHANGED <<conf, channel, radio, scan>>,
         \/ pc'["main"] = pc["main"]
         \/ /\ pc'["main"] \in {"sleep", "count", "guard", "check", "write", "assign"}
            /\ ~Scanning
  PROVE  IInv'
<1>1. Scanning' => Scanning
  BY DEF Scanning
<1>2. ~Scanning' => ~Scanning
  BY DEF Scanning
<1> QED
  BY <1>1, <1>2
  DEF IInv, ConfOK, IndexIsTuned, ChannelIsTuned, ForcedIsNotScanned, Obeyed

\* set_pairing_beacon, by either thread, leaves the channel alone.
LEMMA SetBeaconStep ==
  ASSUME IInv, NEW t \in Thread, SetBeacon(t)
  PROVE  IInv'
<1> TypeOK
  BY DEF IInv
<1>0. /\ AfterSet("main") \in {"guard", "sleep"}
      /\ AfterSet("reader") = "idle"
      /\ want[t] \in BOOLEAN
  BY DEF AfterSet, TypeOK, Thread
<1>1. CASE Check(t)
  <2>1. Goto(t, IF beacon = want[t] THEN AfterSet(t) ELSE "write") /\ pc[t] = "check"
    BY <1>1 DEF Check
  <2>2. pc' \in Label
    BY <1>0, <2>1, Labels DEF Thread
  <2>3. TypeOK'
    BY <1>1, <2>2 DEF Check, TypeOK
  <2> QED
    BY <1>0, <1>1, <2>1, <2>3, Moves, Apart DEF Check, Scanning, Thread
<1>2. CASE Write(t)
  <2>1. Goto(t, "assign") /\ pc[t] = "write"
    BY <1>2 DEF Write
  <2>2. pc' \in Label
    BY <2>1, Labels DEF Thread
  <2>3. advert' \in [pairing : BOOLEAN, channel : Channel]
    BY <1>2 DEF Write, BeaconFrame, TypeOK
  <2>4. TypeOK'
    BY <1>2, <2>2, <2>3 DEF Write, TypeOK
  <2> QED
    BY <1>2, <2>1, <2>4, Moves, Apart DEF Write, Scanning, Thread
<1>3. CASE Assign(t)
  <2>1. Goto(t, AfterSet(t)) /\ pc[t] = "assign"
    BY <1>3 DEF Assign
  <2>2. pc' \in Label
    BY <1>0, <2>1, Labels DEF Thread
  <2>3. TypeOK'
    BY <1>0, <1>3, <2>2 DEF Assign, TypeOK
  <2> QED
    BY <1>0, <1>3, <2>1, <2>3, Moves, Apart DEF Assign, Scanning, Thread
<1> QED
  BY <1>1, <1>2, <1>3 DEF SetBeacon

\* Waking, counting and deciding leave the channel alone.
LEMMA CountStep ==
  ASSUME IInv, Wake \/ Count \/ Decide
  PROVE  IInv'
<1> TypeOK
  BY DEF IInv
<1>m. "main" \in Thread
  BY DEF Thread
<1>1. CASE Wake
  <2>1. Goto("main", "count") /\ pc["main"] = "sleep"
    BY <1>1 DEF Wake
  <2>2. pc' \in Label
    BY <1>m, <2>1, Labels
  <2>3. seen' \in [count : 0 .. MaxSlots, next : 0 .. MaxSlots] /\ seen'.count <= seen'.next
    BY <1>1, RadioAssumption DEF Wake
  <2>4. TypeOK'
    BY <1>1, <2>2, <2>3 DEF Wake, TypeOK
  <2> QED
    BY <1>1, <1>m, <2>1, <2>4, Moves, Apart DEF Wake, Scanning
<1>2. CASE Count
  <2>1. /\ seen' = [count |-> seen'.count, next |-> seen.next + 1]
        /\ seen'.count = seen.count \/ seen'.count = seen.count + 1
        /\ seen.next < MaxSlots
    BY <1>2 DEF Count
  <2>2. seen' \in [count : 0 .. MaxSlots, next : 0 .. MaxSlots] /\ seen'.count <= seen'.next
    BY <2>1, RadioAssumption DEF TypeOK
  <2>3. TypeOK'
    BY <1>2, <2>2 DEF Count, TypeOK
  <2> QED
    BY <1>2, <2>3, Apart DEF Count
<1>3. CASE Decide
  <2>1. PICK l \in {"guard", "check", "sleep"} : Goto("main", l)
    BY <1>3 DEF Decide
  <2>2. pc' \in Label
    BY <1>m, <2>1, Labels
  <2>3. want' \in [Thread -> BOOLEAN]
    <3>1. \/ UNCHANGED want
          \/ want' = [want EXCEPT !["main"] = TRUE]
          \/ want' = [want EXCEPT !["main"] = (seen.count < MaxSlots)]
      BY <1>3 DEF Decide
    <3>2. (seen.count < MaxSlots) \in BOOLEAN
      OBVIOUS
    <3>3. want \in [Thread -> BOOLEAN]
      BY DEF TypeOK
    <3> QED
      BY <1>m, <3>1, <3>2, <3>3
  <2>4. TypeOK'
    BY <1>3, <2>2, <2>3 DEF Decide, TypeOK
  <2> QED
    BY <1>3, <1>m, <2>1, <2>4, Moves, Apart DEF Decide, Scanning
<1> QED
  BY <1>1, <1>2, <1>3

\* The handlers of the reader leave the channel alone.
LEMMA HandlerStep ==
  ASSUME IInv,
         \/ \E s \in Slot : FirstData(s) \/ DataFrame(s) \/ ClientLost(s)
         \/ Management \/ PairStage1 \/ Button
  PROVE  IInv'
<1> TypeOK
  BY DEF IInv
<1>m. "reader" \in Thread
  BY DEF Thread
<1>1. Handle /\ UNCHANGED <<conf, beacon, channel, radio, advert, seen, scan>>
  BY DEF FirstData, DataFrame, ClientLost, Management, PairStage1, Button, Handle
<1>2. /\ up' \in SUBSET Slot
      /\ locked' \in BOOLEAN
  BY DEF FirstData, DataFrame, ClientLost, Management, PairStage1, Button, TypeOK
<1>3. (\E b \in BOOLEAN : Ask(b)) \/ UNCHANGED <<pc, want>>
  BY <1>1 DEF FirstData, DataFrame, ClientLost, Management, PairStage1, Button, ConfOK, IInv
<1>4. /\ want' \in [Thread -> BOOLEAN]
      /\ pc' \in Label
      /\ pc'["main"] = pc["main"]
  BY <1>m, <1>3, Labels, Moves DEF Ask, TypeOK
<1>5. TypeOK'
  BY <1>1, <1>2, <1>4 DEF TypeOK
<1> QED
  BY <1>1, <1>4, <1>5, Apart

-----------------------------------------------------------------------------
(* The scan                                                                *)

\* The scan is entered without a forced channel only; the address it looks for
\* does not touch the channel.
LEMMA EnterStep ==
  ASSUME IInv, Guard \/ ReadMac
  PROVE  IInv'
<1> TypeOK
  BY DEF IInv
<1>m. "main" \in Thread
  BY DEF Thread
<1>1. /\ pc["main"] \in {"guard", "mac"}
      /\ pc'["main"] \in {"sleep", "mac", "tune"}
      /\ conf.forced # 0 => pc'["main"] = "sleep"
      /\ pc' \in Label
  <2>1. CASE Guard
    <3>1. /\ Goto("main", IF conf.forced # 0 \/ locked THEN "sleep" ELSE "mac")
          /\ pc["main"] = "guard"
      BY <2>1 DEF Guard
    <3> QED
      BY <1>m, <3>1, Moves, Labels
  <2>2. CASE ReadMac
    <3>1. Goto("main", "tune") /\ pc["main"] = "mac"
      BY <2>2 DEF ReadMac
    <3> QED
      BY <1>m, <3>1, Moves, Labels DEF IInv, ForcedIsNotScanned
  <2> QED
    BY <2>1, <2>2
<1>2. /\ scan' \in [mac : BOOLEAN, idx : 1 .. Len(ScanChannels), recent : BOOLEAN]
      /\ scan'.idx = scan.idx /\ scan'.recent = scan.recent
  <2>1. \/ scan' = scan
        \/ \E ok \in BOOLEAN : scan' = [scan EXCEPT !.mac = @ \/ ok]
    BY DEF Guard, ReadMac, Outcome
  <2>2. scan.mac \in BOOLEAN
    BY DEF TypeOK
  <2> QED BY <2>1, <2>2 DEF TypeOK
<1>3. TypeOK'
  BY <1>1, <1>2 DEF Guard, ReadMac, TypeOK
<1>4. UNCHANGED <<conf, channel, radio>> /\ ~Scanning /\ ~Scanning'
  BY <1>1 DEF Guard, ReadMac, Scanning
<1> QED
  BY <1>1, <1>2, <1>3, <1>4
  DEF IInv, ConfOK, IndexIsTuned, ChannelIsTuned, ForcedIsNotScanned, Obeyed

\* A hop brings adapter and index to the same channel; without one they are
\* still where the last hop brought them.
LEMMA TuneStep ==
  ASSUME IInv, Tune
  PROVE  IInv'
<1> TypeOK
  BY DEF IInv
<1>m. "main" \in Thread
  BY DEF Thread
<1>1. pc["main"] = "tune" /\ conf.forced = 0
  BY DEF Tune, IInv, ForcedIsNotScanned
<1>2. /\ UNCHANGED <<conf, up, beacon, channel, locked, advert, want, seen>>
      /\ \E l \in {"publish", "advertise"} : Goto("main", l)
  BY DEF Tune
<1>3. pc' \in Label /\ Scanning'
  BY <1>m, <1>2, Labels, Moves DEF Scanning
<1>4. /\ scan' \in [mac : BOOLEAN, idx : 1 .. Len(ScanChannels), recent : BOOLEAN]
      /\ radio' \in Channel
      /\ Obeyed => radio' = ScanChannels[scan'.idx]
  <2>1. CASE scan.recent /\ scan' = [scan EXCEPT !.recent = FALSE] /\ UNCHANGED radio
    BY <2>1 DEF IInv, IndexIsTuned, TypeOK
  <2>2. CASE /\ scan' = [scan EXCEPT !.idx = (scan.idx % Len(ScanChannels)) + 1, !.recent = TRUE]
             /\ \E ok \in Outcome : radio' = IF ok THEN ScanChannels[scan'.idx] ELSE radio
    <3>1. scan.idx \in 1 .. 4
      BY ScanRound DEF TypeOK
    <3>2. (scan.idx % 4) + 1 \in 1 .. 4
      BY <3>1, ScanRound
    <3>3. scan' = [scan EXCEPT !.idx = (scan.idx % 4) + 1, !.recent = TRUE]
      BY <2>2, ScanRound
    <3>4. /\ scan' \in [mac : BOOLEAN, idx : 1 .. 4, recent : BOOLEAN]
          /\ scan'.idx \in 1 .. 4
      BY <3>2, <3>3, ScanRound DEF TypeOK
    <3>5. Obeyed => \A ok \in Outcome : ok
      BY DEF Obeyed, Outcome
    <3> QED
      BY <2>2, <3>4, <3>5, ScanRound DEF TypeOK
  <2> QED
    BY <2>1, <2>2 DEF Tune
<1>5. TypeOK'
  BY <1>2, <1>3, <1>4 DEF TypeOK
<1> QED
  BY <1>1, <1>2, <1>3, <1>4, <1>5
  DEF IInv, ConfOK, IndexIsTuned, ChannelIsTuned, ForcedIsNotScanned, Obeyed

\* The beacon of the scan changes nothing but the beacon.
LEMMA AdvertiseStep ==
  ASSUME IInv, Advertise
  PROVE  IInv'
<1> TypeOK
  BY DEF IInv
<1>m. "main" \in Thread
  BY DEF Thread
<1>1. Goto("main", "publish") /\ pc["main"] = "advertise"
  BY DEF Advertise
<1>2. pc' \in Label /\ Scanning /\ Scanning'
  BY <1>m, <1>1, Labels, Moves DEF Scanning
<1>3. advert' \in [pairing : BOOLEAN, channel : Channel]
  <2>1. ScanChannels[scan.idx] \in Channel
    BY ScanRound DEF TypeOK
  <2> QED
    BY <2>1 DEF Advertise, BeaconFrame, TypeOK
<1>4. TypeOK'
  BY <1>2, <1>3 DEF Advertise, TypeOK
<1>5. conf.forced = 0
  BY <1>1 DEF IInv, ForcedIsNotScanned
<1> QED
  BY <1>2, <1>4, <1>5
  DEF Advertise, IInv, ConfOK, IndexIsTuned, ChannelIsTuned, ForcedIsNotScanned, Obeyed

\* What the main thread records after the scan is the channel tuned to.
LEMMA PublishStep ==
  ASSUME IInv, Publish
  PROVE  IInv'
<1> TypeOK
  BY DEF IInv
<1>m. "main" \in Thread
  BY DEF Thread
<1>1. Goto("main", "sleep") /\ pc["main"] = "publish"
  BY DEF Publish
<1>2. /\ pc' \in Label /\ Scanning /\ ~Scanning'
      /\ pc'["main"] = "sleep"
  BY <1>m, <1>1, Labels, Moves DEF Scanning
<1>3. channel' = ScanChannels[scan.idx] /\ channel' \in Channel
  BY ScanRound DEF Publish, TypeOK
<1>4. TypeOK'
  BY <1>2, <1>3 DEF Publish, TypeOK
<1> QED
  BY <1>2, <1>3, <1>4
  DEF Publish, IInv, ConfOK, IndexIsTuned, ChannelIsTuned, ForcedIsNotScanned, Obeyed

-----------------------------------------------------------------------------
(* Every step                                                              *)

\* Time passing changes the lock only.
LEMMA LockStep ==
  ASSUME IInv, LockExpires
  PROVE  IInv'
<1>1. TypeOK'
  BY DEF IInv, LockExpires, TypeOK
<1> QED
  BY <1>1, Apart DEF LockExpires

\* A step of either thread, of time or none keeps the invariant.
THEOREM Stepwise == IInv /\ [Next]_vars => IInv'
<1> SUFFICES ASSUME IInv, [Next]_vars PROVE IInv'
  OBVIOUS
<1>1. CASE Main
  BY <1>1, CountStep, SetBeaconStep, EnterStep, TuneStep, AdvertiseStep, PublishStep
  DEF Main, Thread
<1>2. CASE Reader
  BY <1>2, HandlerStep, SetBeaconStep DEF Reader, Thread
<1>3. CASE LockExpires
  BY <1>3, LockStep
<1>4. CASE UNCHANGED vars
  <2>1. TypeOK'
    BY <1>4 DEF IInv, TypeOK, vars
  <2> QED
    BY <1>4, <2>1, Apart DEF vars
<1> QED
  BY <1>1, <1>2, <1>3, <1>4 DEF Next

\* The invariant holds throughout.
THEOREM Invariance == Spec => []IInv
  BY Initially, Stepwise, PTL DEF Spec

\* Every variable the two threads share keeps to its type.
THEOREM TypeCorrect == Spec => []TypeOK
<1>1. IInv => TypeOK
  BY DEF IInv
<1> QED
  BY <1>1, Invariance, PTL

\* Outside the scan's own steps g_pairing_channel is the channel the adapter is
\* tuned to, as long as none is forced and the adapter obeys.
THEOREM TunedAsPublished == Spec => []ChannelIsTuned
<1>1. IInv => ChannelIsTuned
  BY DEF IInv
<1> QED
  BY <1>1, Invariance, PTL

\* With XBOX_PAIR_CHANNEL no step of either thread changes the channel.
LEMMA ForcedStays ==
  ASSUME IInv, [Next]_vars
  PROVE  [conf.forced # 0 => UNCHANGED <<channel, radio>>]_vars
<1> SUFFICES ASSUME Next, conf.forced # 0
             PROVE  UNCHANGED <<channel, radio>>
  OBVIOUS
<1>1. ~(Tune \/ Publish)
  BY DEF IInv, ForcedIsNotScanned, Tune, Publish
<1>2. CASE Main
  BY <1>1, <1>2 DEF Main, Wake, Count, Decide, SetBeacon, Check, Write, Assign,
                    Guard, ReadMac, Advertise
<1>3. CASE Reader
  BY <1>3 DEF Reader, FirstData, DataFrame, ClientLost, Management, PairStage1, Button,
              Handle, SetBeacon, Check, Write, Assign
<1>4. CASE LockExpires
  BY <1>4 DEF LockExpires
<1> QED
  BY <1>2, <1>3, <1>4 DEF Next

\* A forced channel is never left.
THEOREM ForcedIsKept == Spec => ForcedChannelIsKept
  BY Invariance, ForcedStays, PTL DEF Spec, ForcedChannelIsKept
=============================================================================
