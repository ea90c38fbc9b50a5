------------------------------- MODULE Radio -------------------------------
(***************************************************************************)
(* The pairing beacon and its channel (xbox_daemon.c, mt76_init.h).  Two   *)
(* threads share them without a lock: the main thread, which wakes every   *)
(* two seconds, counts the active slots and reopens the beacon or hops to  *)
(* the next channel; and the reader thread, whose handlers connect and     *)
(* disconnect slots and change the beacon.  Every access to a shared       *)
(* variable and every command to the adapter is a step of its own.         *)
(***************************************************************************)
EXTENDS Integers, FiniteSets, Sequences

CONSTANTS
  MaxSlots,    \* MAX_SLOTS
  Forcings,    \* values of XBOX_PAIR_CHANNEL, 0 when it is not given
  Adapters     \* subset of {"sound", "faulty"}

ScanChannels == <<36, 40, 44, 48>>   \* 0x24, 0x28, 0x2c, 0x30

ASSUME RadioAssumption ==
  /\ MaxSlots \in Nat \ {0}
  /\ Forcings \subseteq {0, 36, 40, 44, 48}
  /\ Adapters \subseteq {"sound", "faulty"}

Slot   == 0 .. MaxSlots - 1
Thread == {"main", "reader"}

VARIABLES
  conf,      \* g_multi_pair_mode, g_forced_pairing_channel, and the adapter:
             \* EFUSE reads and channel commands of a faulty one may fail
  up,        \* the active slots, written by the reader thread only
  beacon,    \* g_pairing_beacon_enabled
  channel,   \* g_pairing_channel
  locked,    \* g_channel_lock_until_ms lies ahead
  radio,     \* the channel the adapter is tuned to
  advert,    \* the beacon frame the adapter transmits
  pc,        \* where each thread is
  want,      \* the argument of each thread's set_pairing_beacon
  seen,      \* main: the count so far, the next slot to look at
  scan       \* the static variables of mt76_pairing_channel_scan

vars == <<conf, up, beacon, channel, locked, radio, advert, pc, want, seen, scan>>

Goto(t, l) == pc' = [pc EXCEPT ![t] = l]

\* A beacon frame: mt76_write_beacon ignores its argument "pairing", the
\* frame always carries the pairing element and is always transmitted
BeaconFrame(pairing, c) == [pairing |-> TRUE, channel |-> c]

\* a command or an EFUSE read succeeds, or fails where errors are modelled
Outcome == IF conf.adapter = "faulty" THEN BOOLEAN ELSE {TRUE}

-----------------------------------------------------------------------------
\* mt76_radio_init, and main's tuning to the forced channel: hw_ch
HwChannel == IF conf.forced = 0 THEN 44 ELSE conf.forced - 12

Init ==
  /\ conf \in [multi : BOOLEAN, forced : Forcings, adapter : Adapters]
  /\ up = {}
  /\ beacon = TRUE
  /\ channel = IF conf.forced = 0 THEN 44 ELSE conf.forced
  /\ locked = FALSE
  /\ \E ok \in Outcome : radio = IF ok THEN HwChannel ELSE 44
  /\ advert = BeaconFrame(TRUE, radio)
  /\ pc = [main |-> "sleep", reader |-> "idle"]
  /\ want = [t \in Thread |-> FALSE]
  /\ seen = [count |-> 0, next |-> 0]
  /\ scan = [mac |-> FALSE, idx |-> 1, recent |-> FALSE]

-----------------------------------------------------------------------------
(* set_pairing_beacon, by either thread                                    *)

AfterSet(t) ==
  IF t = "reader" THEN "idle" ELSE IF seen.count = 0 THEN "guard" ELSE "sleep"

Check(t) ==
  /\ pc[t] = "check"
  /\ Goto(t, IF beacon = want[t] THEN AfterSet(t) ELSE "write")
  /\ UNCHANGED <<conf, up, beacon, channel, locked, radio, advert, want, seen, scan>>

Write(t) ==
  /\ pc[t] = "write"
  /\ advert' = BeaconFrame(want[t], channel)
  /\ Goto(t, "assign")
  /\ UNCHANGED <<conf, up, beacon, channel, locked, radio, want, seen, scan>>

Assign(t) ==
  /\ pc[t] = "assign"
  /\ beacon' = want[t]
  /\ Goto(t, AfterSet(t))
  /\ UNCHANGED <<conf, up, channel, locked, radio, advert, want, seen, scan>>

SetBeacon(t) == Check(t) \/ Write(t) \/ Assign(t)

-----------------------------------------------------------------------------
(* The main thread: read_loop and mt76_pairing_channel_scan                *)

\* mutant: the count of the last time is kept
WakeKeepsCount ==
  /\ pc["main"] = "sleep"
  /\ seen' = [seen EXCEPT !.next = 0]
  /\ Goto("main", "count")
  /\ UNCHANGED <<conf, up, beacon, channel, locked, radio, advert, want, scan>>

Wake ==
  /\ pc["main"] = "sleep"
  /\ seen' = [count |-> 0, next |-> 0]
  /\ Goto("main", "count")
  /\ UNCHANGED <<conf, up, beacon, channel, locked, radio, advert, want, scan>>

\* one iteration of active_slot_count
Count ==
  /\ pc["main"] = "count"
  /\ seen.next < MaxSlots
  /\ seen' = [count |-> IF seen.next \in up THEN seen.count + 1 ELSE seen.count,
              next |-> seen.next + 1]
  /\ UNCHANGED <<conf, up, beacon, channel, locked, radio, advert, pc, want, scan>>

\* mutant: a full house does not close the beacon
DecideOffByOne ==
  /\ pc["main"] = "count"
  /\ seen.next = MaxSlots
  /\ IF seen.count = 0
     THEN IF beacon THEN Goto("main", "guard") /\ UNCHANGED want
          ELSE Goto("main", "check") /\ want' = [want EXCEPT !["main"] = TRUE]
     ELSE IF conf.multi
     THEN Goto("main", "check") /\ want' = [want EXCEPT !["main"] = seen.count <= MaxSlots]
     ELSE Goto("main", "sleep") /\ UNCHANGED want
  /\ UNCHANGED <<conf, up, beacon, channel, locked, radio, advert, seen, scan>>

\* mutant: the beacon is closed while one slot is free
DecideClosesEarly ==
  /\ pc["main"] = "count"
  /\ seen.next = MaxSlots
  /\ IF seen.count = 0
     THEN IF beacon THEN Goto("main", "guard") /\ UNCHANGED want
          ELSE Goto("main", "check") /\ want' = [want EXCEPT !["main"] = TRUE]
     ELSE IF conf.multi
     THEN Goto("main", "check") /\ want' = [want EXCEPT !["main"] = seen.count < MaxSlots - 1]
     ELSE Goto("main", "sleep") /\ UNCHANGED want
  /\ UNCHANGED <<conf, up, beacon, channel, locked, radio, advert, seen, scan>>

\* mutant: the beacon is not reopened when no controller is active
DecideNeverReopens ==
  /\ pc["main"] = "count"
  /\ seen.next = MaxSlots
  /\ IF seen.count = 0
     THEN Goto("main", "guard") /\ UNCHANGED want
     ELSE IF conf.multi
     THEN Goto("main", "check") /\ want' = [want EXCEPT !["main"] = seen.count < MaxSlots]
     ELSE Goto("main", "sleep") /\ UNCHANGED want
  /\ UNCHANGED <<conf, up, beacon, channel, locked, radio, advert, seen, scan>>

\* what read_loop does with the count
Decide ==
  /\ pc["main"] = "count"
  /\ seen.next = MaxSlots
  /\ IF seen.count = 0
     THEN IF beacon THEN Goto("main", "guard") /\ UNCHANGED want
          ELSE Goto("main", "check") /\ want' = [want EXCEPT !["main"] = TRUE]
     ELSE IF conf.multi
     THEN Goto("main", "check") /\ want' = [want EXCEPT !["main"] = seen.count < MaxSlots]
     ELSE Goto("main", "sleep") /\ UNCHANGED want
  /\ UNCHANGED <<conf, up, beacon, channel, locked, radio, advert, seen, scan>>

\* mutant: a forced channel is scanned too
GuardIgnoresForced ==
  /\ pc["main"] = "guard"
  /\ Goto("main", IF locked THEN "sleep" ELSE "mac")
  /\ UNCHANGED <<conf, up, beacon, channel, locked, radio, advert, want, seen, scan>>

\* a forced or locked channel is not scanned
Guard ==
  /\ pc["main"] = "guard"
  /\ Goto("main", IF conf.forced # 0 \/ locked THEN "sleep" ELSE "mac")
  /\ UNCHANGED <<conf, up, beacon, channel, locked, radio, advert, want, seen, scan>>

\* the scan reads the address of its beacons until a read succeeds
ReadMac ==
  /\ pc["main"] = "mac"
  /\ \E ok \in Outcome :
       scan' = [scan EXCEPT !.mac = @ \/ ok]
  /\ Goto("main", "tune")
  /\ UNCHANGED <<conf, up, beacon, channel, locked, radio, advert, want, seen>>

\* mutant: the scan wraps before the last channel
TuneSkipsLast ==
  /\ pc["main"] = "tune"
  /\ \/ /\ scan.recent
        /\ scan' = [scan EXCEPT !.recent = FALSE]
        /\ Goto("main", "publish")
        /\ UNCHANGED radio
     \/ /\ scan' = [scan EXCEPT !.idx = (scan.idx % (Len(ScanChannels) - 1)) + 1,
                               !.recent = TRUE]
        /\ \E ok \in Outcome : radio' = IF ok THEN ScanChannels[scan'.idx] ELSE radio
        /\ Goto("main", "advertise")
  /\ UNCHANGED <<conf, up, beacon, channel, locked, advert, want, seen>>

\* Less than 2001 ms after the last switch the scan stays where it is; the
\* main thread sleeps two seconds between calls, so the call after is late
\* enough.  The result of the channel command is not looked at.
Tune ==
  /\ pc["main"] = "tune"
  /\ \/ /\ scan.recent
        /\ scan' = [scan EXCEPT !.recent = FALSE]
        /\ Goto("main", "publish")
        /\ UNCHANGED radio
     \/ /\ scan' = [scan EXCEPT !.idx = (scan.idx % Len(ScanChannels)) + 1, !.recent = TRUE]
        /\ \E ok \in Outcome : radio' = IF ok THEN ScanChannels[scan'.idx] ELSE radio
        /\ Goto("main", "advertise")
  /\ UNCHANGED <<conf, up, beacon, channel, locked, advert, want, seen>>

Advertise ==
  /\ pc["main"] = "advertise"
  /\ advert' = IF scan.mac THEN BeaconFrame(TRUE, ScanChannels[scan.idx]) ELSE advert
  /\ Goto("main", "publish")
  /\ UNCHANGED <<conf, up, beacon, channel, locked, radio, want, seen, scan>>

\* mutant: the channel of the scan is not recorded
PublishNothing ==
  /\ pc["main"] = "publish"
  /\ Goto("main", "sleep")
  /\ UNCHANGED <<conf, up, beacon, channel, locked, radio, advert, want, seen, scan>>

Publish ==
  /\ pc["main"] = "publish"
  /\ channel' = ScanChannels[scan.idx]
  /\ Goto("main", "sleep")
  /\ UNCHANGED <<conf, up, beacon, locked, radio, advert, want, seen, scan>>

Main ==
  \/ Wake \/ Count \/ Decide \/ SetBeacon("main")
  \/ Guard \/ ReadMac \/ Tune \/ Advertise \/ Publish

-----------------------------------------------------------------------------
(* The reader thread: what the handlers do to slots, lock and beacon.      *)

\* set_pairing_beacon(b) by a handler that has done the rest of its work
Ask(b) ==
  /\ want' = [want EXCEPT !["reader"] = b]
  /\ Goto("reader", "check")

\* a handler that only the reader thread runs
Handle ==
  /\ pc["reader"] = "idle"
  /\ UNCHANGED <<conf, beacon, channel, radio, advert, seen, scan>>

\* on_xbox_data: the first data frame of a controller.  The frame is then
\* dispatched, as by DataFrame.
FirstData(s) ==
  /\ Handle
  /\ s \notin up
  /\ up' = up \cup {s}
  /\ Ask(conf.multi /\ Cardinality(up') < MaxSlots)
  /\ UNCHANGED locked

\* on_xbox_action or CTRL_ADDED connects a slot, CTRL_LOST disconnects it
DataFrame(s) ==
  /\ Handle
  /\ up' \in {up \cup {s}, up \ {s}}
  /\ UNCHANGED <<locked, pc, want>>

\* EVT_CLIENT_LOST
ClientLost(s) ==
  /\ Handle
  /\ up' = up \ {s}
  /\ IF conf.multi THEN Ask(TRUE) ELSE UNCHANGED <<pc, want>>
  /\ UNCHANGED locked

\* probe, authentication, association and reassociation requests, and the
\* pair requests of other stages
Management ==
  /\ Handle
  /\ locked' = TRUE
  /\ UNCHANGED <<up, pc, want>>

PairStage1 ==
  /\ Handle
  /\ locked' = TRUE
  /\ IF ~conf.multi THEN Ask(FALSE)
     ELSE IF Cardinality(up) < MaxSlots THEN Ask(TRUE)
     ELSE UNCHANGED <<pc, want>>
  /\ UNCHANGED up

Button ==
  /\ Handle
  /\ Ask(TRUE)
  /\ UNCHANGED <<up, locked>>

Reader ==
  \/ \E s \in Slot : FirstData(s) \/ DataFrame(s) \/ ClientLost(s)
  \/ Management \/ PairStage1 \/ Button
  \/ SetBeacon("reader")

\* five seconds after the last management frame
LockExpires ==
  /\ locked
  /\ locked' = FALSE
  /\ UNCHANGED <<conf, up, beacon, channel, radio, advert, pc, want, seen, scan>>

Next == Main \/ Reader \/ LockExpires

Spec == Init /\ [][Next]_vars

(* Both threads are scheduled, and a call of set_pairing_beacon returns;   *)
(* no frame, event or button is bound to come.  Time passes.               *)
FairSpec ==
  /\ Spec
  /\ WF_vars(Main)
  /\ WF_vars(SetBeacon("reader"))
  /\ WF_vars(LockExpires)

-----------------------------------------------------------------------------
Channel == {24, 28, 32, 36, 40, 44, 48}

Label == [main : {"sleep", "count", "guard", "mac", "tune", "advertise", "publish",
                  "check", "write", "assign"},
          reader : {"idle", "check", "write", "assign"}]

(* Every variable holds a value its C type and its writers allow; the main *)
(* thread's count never exceeds the slots it has looked at.                *)
TypeOK ==
  /\ up \in SUBSET Slot
  /\ beacon \in BOOLEAN /\ locked \in BOOLEAN
  /\ channel \in Channel /\ radio \in Channel
  /\ advert \in [pairing : BOOLEAN, channel : Channel]
  /\ pc \in Label
  /\ want \in [Thread -> BOOLEAN]
  /\ seen \in [count : 0 .. MaxSlots, next : 0 .. MaxSlots] /\ seen.count <= seen.next
  /\ scan \in [mac : BOOLEAN, idx : 1 .. Len(ScanChannels), recent : BOOLEAN]

Scanning == pc["main"] \in {"advertise", "publish"}

(* Outside the scan's own window g_pairing_channel, which every probe      *)
(* response and every beacon names, is the channel the adapter is tuned    *)
(* to, unless a channel is forced or the adapter refused a command: the    *)
(* scan starts from another index than the initial channel.                *)
ChannelIsTuned ==
  conf.forced = 0 /\ conf.adapter = "sound" /\ ~Scanning => channel = radio

(* With XBOX_PAIR_CHANNEL no event makes the daemon hop.                   *)
ForcedChannelIsKept == [][conf.forced # 0 => UNCHANGED <<channel, radio>>]_vars

(* If from some point on no controller is connected, the beacon is open    *)
(* again and again, whatever pair requests, stale counts and interleaved   *)
(* updates of the flag close it.                                           *)
ReopensWhenEmpty == <>[](up = {}) => []<>beacon

(* In multi-pair mode, if from some point on one of the slots stays free,  *)
(* the beacon is open again and again: what a stale count closed, a later  *)
(* one reopens.                                                            *)
ReopensWhileSlotIsFree ==
  \A s \in Slot : conf.multi /\ <>[](s \notin up) => []<>beacon

(* In multi-pair mode a full house closes the beacon, again after every    *)
(* press of the dongle's button.                                           *)
FullHouseCloses == conf.multi /\ <>[](up = Slot) => []<>~beacon

(* While no controller is connected and none holds the channel, the scan   *)
(* visits every pairing channel again and again, as far as the adapter     *)
(* obeys.                                                                  *)
ScanVisitsEveryChannel ==
  conf.forced = 0 /\ conf.adapter = "sound" /\ <>[](up = {} /\ ~locked) =>
    \A i \in DOMAIN ScanChannels : []<>(radio = ScanChannels[i])

-----------------------------------------------------------------------------
(* Statements of the documentation and comments that the code does not     *)
(* keep                                                                    *)

(* "If no controllers connected, run pairing channel scan": the channel is *)
(* not switched under a connected controller.                              *)
NoHopWhileConnected == [][radio' # radio => up = {}]_vars
=============================================================================
