------------------------ MODULE SessionEvents_proofs ------------------------
(***************************************************************************)
(* What the slots of Session hold beside their owners, and what the        *)
(* handlers tell of them: devices and guide bits, the UDP events, and the  *)
(* WCIDs frames are transmitted on.                                        *)
(***************************************************************************)
EXTENDS Session_proofs, SequenceTheorems, FiniteSetTheorems

-----------------------------------------------------------------------------
(* Slots in themselves                                                     *)

\* DeviceOnlyWhileConnected and GuideBitAgrees of one table of slots.
Proper(sl) ==
  /\ sl \in [Slot -> SlotRecord]
  /\ \A s \in Slot : /\ sl[s].hid_device => sl[s].active
                     /\ sl[s].last_report.guide = sl[s].guide_pressed

ActiveIn(sl) == {s \in Slot : sl[s].active}

\* The events tell how the active slots become those of another table, and
\* say nothing that would mislead.
Tells(sl, new, ev) ==
  /\ ev \in Seq(UdpEvent) /\ Len(ev) <= 1
  /\ ActiveIn(new) = Replayed(ActiveIn(sl), ev)
  /\ Len(ev) = 1 => Sound(ActiveIn(sl), ev[1])

\* No event tells that no slot was connected or disconnected.
LEMMA Silence ==
  ASSUME NEW sl, NEW new, \A s \in Slot : new[s].active = sl[s].active
  PROVE  Tells(sl, new, <<>>)
BY DEF Tells, ActiveIn, Replayed

\* An event tells of its slot.
LEMMA OneEvent ==
  ASSUME NEW s \in Slot, NEW type \in {"connected", "disconnected", "input", "guide"},
         NEW sl, NEW new,
         ActiveIn(new) = After(ActiveIn(sl), [type |-> type, slot |-> s]),
         Sound(ActiveIn(sl), [type |-> type, slot |-> s])
  PROVE  Tells(sl, new, Event(type, s))
<1> DEFINE e == [type |-> type, slot |-> s]
<1>1. e \in UdpEvent
  BY DEF UdpEvent
<1>2. Event(type, s) = <<e>>
  BY DEF Event
<1> HIDE DEF e
<1>3. <<e>> \in Seq(UdpEvent) /\ Len(<<e>>) = 1 /\ <<e>>[1] = e
  BY <1>1
<1>4. Replayed(ActiveIn(sl), <<e>>) = After(ActiveIn(sl), e)
  BY <1>3 DEF Replayed
<1>5. Tells(sl, new, <<e>>)
  BY <1>3, <1>4 DEF Tells, e
<1> QED BY <1>2, <1>5

\* on_connect
LEMMA ConnectTells ==
  ASSUME NEW sl, Proper(sl), NEW s \in Slot, NEW hid \in BOOLEAN
  PROVE  Proper(Connect(sl, s, hid)) /\ Tells(sl, Connect(sl, s, hid), ConnectEvents(sl, s))
<1>1. CASE sl[s].active
  BY <1>1, Silence DEF Connect, ConnectEvents
<1>2. CASE ~sl[s].active
  <2> DEFINE r == [sl[s] EXCEPT !.active = TRUE, !.hid_device = hid]
             e == [type |-> "connected", slot |-> s]
  <2>1. sl[s] \in SlotRecord /\ sl \in [Slot -> SlotRecord]
    BY DEF Proper
  <2>2. /\ r \in SlotRecord /\ r.active
        /\ r.last_report = sl[s].last_report /\ r.guide_pressed = sl[s].guide_pressed
    BY <2>1 DEF SlotRecord
  <2>3. Connect(sl, s, hid) = [sl EXCEPT ![s] = r]
    BY <1>2 DEF Connect
  <2> HIDE DEF r
  <2>4. Proper(Connect(sl, s, hid))
    BY <2>1, <2>2, <2>3 DEF Proper
  <2>5. ActiveIn(Connect(sl, s, hid)) = ActiveIn(sl) \cup {s}
    BY <2>1, <2>2, <2>3 DEF ActiveIn
  <2>6. After(ActiveIn(sl), e) = ActiveIn(sl) \cup {s} /\ Sound(ActiveIn(sl), e)
    BY <1>2 DEF After, Sound, ActiveIn
  <2>7. ConnectEvents(sl, s) = Event("connected", s)
    BY <1>2 DEF ConnectEvents
  <2>8. Tells(sl, Connect(sl, s, hid), Event("connected", s))
    <3>1. ActiveIn(Connect(sl, s, hid)) = After(ActiveIn(sl), e)
      BY <2>5, <2>6
    <3> QED BY <2>6, <3>1, OneEvent
  <2> QED BY <2>4, <2>7, <2>8
<1> QED BY <1>1, <1>2

\* on_disconnect
LEMMA DisconnectTells ==
  ASSUME NEW sl, Proper(sl), NEW s \in Slot
  PROVE  Proper(Disconnect(sl, s)) /\ Tells(sl, Disconnect(sl, s), DisconnectEvents(sl, s))
<1>1. CASE ~sl[s].active
  BY <1>1, Silence DEF Disconnect, DisconnectEvents
<1>2. CASE sl[s].active
  <2> DEFINE e == [type |-> "disconnected", slot |-> s]
  <2>1. sl \in [Slot -> SlotRecord] /\ Disconnect(sl, s) = [sl EXCEPT ![s] = EmptySlot]
    BY <1>2 DEF Proper, Disconnect
  <2>2. /\ EmptySlot \in SlotRecord /\ ~EmptySlot.active /\ ~EmptySlot.hid_device
        /\ EmptySlot.last_report.guide = EmptySlot.guide_pressed
    BY EmptySlotType DEF EmptySlot
  <2>3. Proper(Disconnect(sl, s))
    BY <2>1, <2>2 DEF Proper
  <2>4. ActiveIn(Disconnect(sl, s)) = ActiveIn(sl) \ {s}
    BY <2>1, <2>2 DEF ActiveIn
  <2>5. After(ActiveIn(sl), e) = ActiveIn(sl) \ {s} /\ Sound(ActiveIn(sl), e)
    BY <1>2 DEF After, Sound, ActiveIn
  <2>6. DisconnectEvents(sl, s) = Event("disconnected", s)
    BY <1>2 DEF DisconnectEvents
  <2>7. Tells(sl, Disconnect(sl, s), Event("disconnected", s))
    <3>1. ActiveIn(Disconnect(sl, s)) = After(ActiveIn(sl), e)
      BY <2>4, <2>5
    <3> QED BY <2>5, <3>1, OneEvent
  <2> QED BY <2>3, <2>6, <2>7
<1> QED BY <1>1, <1>2

\* on_input
LEMMA InputTells ==
  ASSUME NEW sl, Proper(sl), NEW s \in Slot, NEW m \in Mac
  PROVE  Proper(Input(sl, s, m)) /\ Tells(sl, Input(sl, s, m), InputEvents(sl, s))
<1>1. CASE ~sl[s].active
  BY <1>1, Silence DEF Input, InputEvents
<1>2. CASE sl[s].active
  <2> DEFINE r == [sl[s] EXCEPT !.last_report = [pad |-> m, guide |-> sl[s].guide_pressed]]
             e == [type |-> "input", slot |-> s]
  <2>1. sl[s] \in SlotRecord /\ sl \in [Slot -> SlotRecord]
    BY DEF Proper
  <2>2. /\ r \in SlotRecord /\ r.active = sl[s].active /\ r.hid_device = sl[s].hid_device
        /\ r.last_report.guide = r.guide_pressed
    BY <2>1 DEF SlotRecord, Report
  <2>3. Input(sl, s, m) = [sl EXCEPT ![s] = r]
    BY <1>2 DEF Input
  <2> HIDE DEF r
  <2>4. Proper(Input(sl, s, m))
    BY <2>1, <2>2, <2>3 DEF Proper
  <2>5. ActiveIn(Input(sl, s, m)) = ActiveIn(sl)
    BY <2>1, <2>2, <2>3 DEF ActiveIn
  <2>6. After(ActiveIn(sl), e) = ActiveIn(sl) /\ Sound(ActiveIn(sl), e)
    BY <1>2 DEF After, Sound, ActiveIn
  <2>7. InputEvents(sl, s) = Event("input", s)
    BY <1>2 DEF InputEvents
  <2>8. Tells(sl, Input(sl, s, m), Event("input", s))
    <3>1. ActiveIn(Input(sl, s, m)) = After(ActiveIn(sl), e)
      BY <2>5, <2>6
    <3> QED BY <2>6, <3>1, OneEvent
  <2> QED BY <2>4, <2>7, <2>8
<1> QED BY <1>1, <1>2

\* on_guide, which does not ask whether the slot is connected
LEMMA GuideTells ==
  ASSUME NEW sl, Proper(sl), NEW s \in Slot, NEW pressed \in BOOLEAN
  PROVE  Proper(Guide(sl, s, pressed)) /\ Tells(sl, Guide(sl, s, pressed), Event("guide", s))
<1> DEFINE r == [sl[s] EXCEPT !.guide_pressed = pressed, !.last_report.guide = pressed]
           e == [type |-> "guide", slot |-> s]
<1>1. sl[s] \in SlotRecord /\ sl[s].last_report \in Report /\ sl \in [Slot -> SlotRecord]
  BY DEF Proper, SlotRecord
<1>2. /\ r \in SlotRecord /\ r.active = sl[s].active /\ r.hid_device = sl[s].hid_device
      /\ r.last_report.guide = r.guide_pressed
  BY <1>1 DEF SlotRecord, Report
<1>3. Guide(sl, s, pressed) = [sl EXCEPT ![s] = r]
  BY DEF Guide
<1> HIDE DEF r
<1>4. Proper(Guide(sl, s, pressed))
  BY <1>1, <1>2, <1>3 DEF Proper
<1>5. ActiveIn(Guide(sl, s, pressed)) = ActiveIn(sl)
  BY <1>1, <1>2, <1>3 DEF ActiveIn
<1>6. After(ActiveIn(sl), e) = ActiveIn(sl) /\ Sound(ActiveIn(sl), e)
  BY DEF After, Sound
<1>7. Tells(sl, Guide(sl, s, pressed), Event("guide", s))
  <2>1. ActiveIn(Guide(sl, s, pressed)) = After(ActiveIn(sl), e)
    BY <1>5, <1>6
  <2> QED BY <1>6, <2>1, OneEvent
<1> QED BY <1>4, <1>7

\* dispatch_wlan_gip
LEMMA DispatchTells ==
  ASSUME NEW sl, Proper(sl), NEW s \in Slot, NEW m \in Mac, NEW cmd \in Command,
         NEW hid \in BOOLEAN
  PROVE  /\ Proper(Dispatched(sl, s, m, cmd, hid))
         /\ Tells(sl, Dispatched(sl, s, m, cmd, hid), DispatchEvents(sl, s, cmd))
<1>1. CASE cmd = "ctrl_added"
  BY <1>1, ConnectTells DEF Dispatched, DispatchEvents
<1>2. CASE cmd = "ctrl_lost"
  BY <1>2, DisconnectTells DEF Dispatched, DispatchEvents
<1>3. CASE cmd = "input"
  BY <1>3, InputTells DEF Dispatched, DispatchEvents
<1>4. CASE cmd = "guide_down"
  BY <1>4, GuideTells DEF Dispatched, DispatchEvents
<1>5. CASE cmd = "guide_up"
  BY <1>5, GuideTells DEF Dispatched, DispatchEvents
<1>6. CASE cmd \notin {"ctrl_added", "ctrl_lost", "input", "guide_down", "guide_up"}
  BY <1>6, Silence DEF Dispatched, DispatchEvents
<1> QED BY <1>1, <1>2, <1>3, <1>4, <1>5, <1>6

-----------------------------------------------------------------------------
(* The handlers                                                            *)

\* What StreamTellsTruth says of a step.
Truthful(sl, new, ev) ==
  /\ Len(ev) <= 2
  /\ ActiveIn(new) = Replayed(ActiveIn(sl), ev)
  /\ Len(ev) >= 1 => Sound(ActiveIn(sl), ev[1])
  /\ Len(ev) = 2 => Sound(After(ActiveIn(sl), ev[1]), ev[2])

LEMMA TellingIsTruthful ==
  ASSUME NEW sl, NEW new, NEW ev, Tells(sl, new, ev)
  PROVE  Truthful(sl, new, ev)
<1>1. Len(ev) \in Nat /\ Len(ev) <= 1
  BY DEF Tells
<1>2. \A n \in Nat : n <= 1 => n <= 2 /\ n # 2 /\ (n >= 1 => n = 1)
  OBVIOUS
<1>3. Len(ev) <= 2 /\ Len(ev) # 2 /\ (Len(ev) >= 1 => Len(ev) = 1)
  BY <1>1, <1>2
<1> QED BY <1>3 DEF Tells, Truthful

\* Two operations in a row tell the truth with the events of both.
LEMMA TwoTell ==
  ASSUME NEW a, NEW b, NEW c, NEW e, NEW f, Tells(a, b, e), Tells(b, c, f)
  PROVE  Truthful(a, c, e \o f)
<1>1. /\ e \in Seq(UdpEvent) /\ Len(e) <= 1 /\ Len(e) \in Nat
      /\ f \in Seq(UdpEvent) /\ Len(f) <= 1 /\ Len(f) \in Nat
      /\ ActiveIn(b) = Replayed(ActiveIn(a), e)
      /\ ActiveIn(c) = Replayed(ActiveIn(b), f)
  BY DEF Tells
<1>2. CASE Len(e) = 0
  <2>1. e \o f = f /\ ActiveIn(b) = ActiveIn(a)
    <3>1. e = <<>>
      BY <1>1, <1>2
    <3> QED BY <1>1, <1>2, <3>1 DEF Replayed
  <2>2. Tells(a, c, f)
    BY <2>1 DEF Tells
  <2> QED BY <2>1, <2>2, TellingIsTruthful
<1>3. CASE Len(f) = 0
  <2>1. e \o f = e /\ ActiveIn(c) = ActiveIn(b)
    <3>1. f = <<>>
      BY <1>1, <1>3
    <3> QED BY <1>1, <1>3, <3>1 DEF Replayed
  <2>2. Tells(a, c, e)
    BY <2>1 DEF Tells
  <2> QED BY <2>1, <2>2, TellingIsTruthful
<1>4. CASE Len(e) = 1 /\ Len(f) = 1
  <2>1. Len(e \o f) = 2 /\ (e \o f)[1] = e[1] /\ (e \o f)[2] = f[1]
    <3>1. /\ Len(e \o f) = Len(e) + Len(f)
          /\ \A i \in 1 .. Len(e) + Len(f) :
               (e \o f)[i] = IF i <= Len(e) THEN e[i] ELSE f[i - Len(e)]
      BY <1>1, ConcatProperties
    <3>2. 1 \in 1 .. 2 /\ 2 \in 1 .. 2 /\ 1 + 1 = 2 /\ 2 - 1 = 1
      OBVIOUS
    <3> QED BY <1>4, <3>1, <3>2
  <2>2. ActiveIn(b) = After(ActiveIn(a), e[1]) /\ ActiveIn(c) = After(ActiveIn(b), f[1])
    BY <1>1, <1>4 DEF Replayed
  <2>3. Replayed(ActiveIn(a), e \o f) = After(After(ActiveIn(a), e[1]), f[1])
    BY <2>1 DEF Replayed
  <2>4. Sound(ActiveIn(a), e[1]) /\ Sound(After(ActiveIn(a), e[1]), f[1])
    BY <1>4, <2>2 DEF Tells
  <2> QED BY <2>1, <2>2, <2>3, <2>4 DEF Truthful
<1> QED BY <1>1, <1>2, <1>3, <1>4, SMTT(60)

\* A handler that leaves the slots alone sends nothing.
LEMMA QuietStep ==
  ASSUME Proper(slots), slots' = slots, sent' = <<>>
  PROVE  Proper(slots') /\ Truthful(slots, slots', sent')
<1>1. Tells(slots, slots, <<>>)
  BY Silence
<1> QED BY <1>1, TellingIsTruthful

LEMMA ActionTells ==
  ASSUME IInv, Proper(slots), NEW m \in Mac, NEW hid \in BOOLEAN, XboxAction(m, hid)
  PROVE  Proper(slots') /\ Truthful(slots, slots', sent')
<1> DEFINE s == SlotOf(m)
<1>1. CASE s = NoSlot \/ Remembered(m)[WcidOf(m)].handshake_done
  <2>1. slots' = slots /\ sent' = <<>>
    BY <1>1 DEF XboxAction
  <2> QED BY <2>1, QuietStep
<1>2. CASE s # NoSlot /\ ~Remembered(m)[WcidOf(m)].handshake_done
  <2>1. slots' = Connect(slots, s, hid) /\ sent' = ConnectEvents(slots, s)
    BY <1>2 DEF XboxAction
  <2>2. s \in Slot
    BY <1>2, SlotOfWcid DEF IInv
  <2> HIDE DEF s
  <2> QED BY <2>1, <2>2, ConnectTells, TellingIsTruthful
<1> QED BY <1>1, <1>2

LEMMA DataTells ==
  ASSUME IInv, Proper(slots), NEW m \in Mac, NEW cmd \in Command, NEW type \in FrameType,
         NEW hid \in BOOLEAN, XboxData(m, cmd, type, hid)
  PROVE  Proper(slots') /\ Truthful(slots, slots', sent')
<1> DEFINE s == SlotOf(m)
           first == ~Remembered(m)[WcidOf(m)].handshake_done
           base == IF first THEN Connect(slots, s, hid) ELSE slots
           e == IF first THEN ConnectEvents(slots, s) ELSE <<>>
           f == DispatchEvents(base, s, cmd)
<1>1. s \in Slot
  BY SlotOfWcid DEF XboxData, IInv
<1>2. slots' = Dispatched(base, s, m, cmd, hid) /\ sent' = e \o f
  BY DEF XboxData
<1>3. Proper(base) /\ Tells(slots, base, e)
  <2> HIDE DEF s
  <2> QED BY <1>1, ConnectTells, Silence
<1> HIDE DEF s, base, e
<1>4. Proper(slots') /\ Tells(base, slots', f)
  BY <1>1, <1>2, <1>3, DispatchTells
<1> QED BY <1>2, <1>3, <1>4, TwoTell

LEMMA LostTells ==
  ASSUME IInv, Proper(slots), NEW w \in Wcid, ClientLost(w)
  PROVE  Proper(slots') /\ Truthful(slots, slots', sent')
<1>1. w - 1 \in Slot
  BY Bounds DEF ClientLost
<1>2. slots' = Disconnect(slots, w - 1) /\ sent' = DisconnectEvents(slots, w - 1)
  BY DEF ClientLost
<1> QED BY <1>1, <1>2, DisconnectTells, TellingIsTruthful

\* Every handler keeps the slots proper and tells the truth of them.
LEMMA EveryStepTells ==
  ASSUME IInv, Proper(slots), Next
  PROVE  Proper(slots') /\ Truthful(slots, slots', sent')
<1>1. ASSUME NEW m \in Mac, ProbeRequest(m) \/ AuthRequest(m) \/ AssocRequest(m) \/ DataRefused(m)
      PROVE  Proper(slots') /\ Truthful(slots, slots', sent')
  <2>1. slots' = slots /\ sent' = <<>>
    BY <1>1 DEF ProbeRequest, AuthRequest, AssocRequest, DataRefused
  <2> QED BY <2>1, QuietStep
<1>2. HidOutcome \subseteq BOOLEAN
  BY DEF HidOutcome
<1>3. ASSUME NEW m \in Mac, NEW hid \in HidOutcome, XboxAction(m, hid)
      PROVE  Proper(slots') /\ Truthful(slots, slots', sent')
  BY <1>2, <1>3, ActionTells
<1>4. ASSUME NEW m \in Mac, NEW cmd \in Command, NEW type \in FrameType, NEW hid \in HidOutcome,
             XboxData(m, cmd, type, hid)
      PROVE  Proper(slots') /\ Truthful(slots, slots', sent')
  BY <1>2, <1>4, DataTells
<1>5. ASSUME NEW w \in Wcid, ClientLost(w)
      PROVE  Proper(slots') /\ Truthful(slots, slots', sent')
  BY <1>5, LostTells
<1> QED BY <1>1, <1>3, <1>4, <1>5 DEF Next

\* The slots are proper in every state.
THEOREM SlotsAreProper == Spec => []Proper(slots)
<1>1. Init => Proper(slots)
  <2> SUFFICES ASSUME Init PROVE Proper(slots)
    OBVIOUS
  <2>1. EmptySlot \in SlotRecord /\ ~EmptySlot.hid_device
        /\ EmptySlot.last_report.guide = EmptySlot.guide_pressed
    BY EmptySlotType DEF EmptySlot
  <2> QED BY <2>1 DEF Init, Proper
<1>2. IInv /\ Proper(slots) /\ [Next]_vars => Proper(slots)'
  <2> SUFFICES ASSUME IInv, Proper(slots), [Next]_vars PROVE Proper(slots')
    OBVIOUS
  <2>1. CASE Next
    BY <2>1, EveryStepTells
  <2>2. CASE UNCHANGED vars
    BY <2>2 DEF vars
  <2> QED BY <2>1, <2>2
<1> QED BY <1>1, <1>2, Invariance, PTL DEF Spec

\* on_disconnect leaves no virtual gamepad behind, whichever handler calls it.
THEOREM DevicesNeedSlots == Spec => []DeviceOnlyWhileConnected
<1>1. Proper(slots) => DeviceOnlyWhileConnected
  BY DEF Proper, DeviceOnlyWhileConnected
<1> QED BY <1>1, SlotsAreProper, PTL

\* The guide bit of a report is the one on_guide has kept.
THEOREM GuideBitsAgree == Spec => []GuideBitAgrees
<1>1. Proper(slots) => GuideBitAgrees
  BY DEF Proper, GuideBitAgrees
<1> QED BY <1>1, SlotsAreProper, PTL

\* Whoever applies the events in order knows which slots are connected.
THEOREM EventsTellTruth == Spec => StreamTellsTruth
<1> DEFINE A == /\ Len(sent') <= 2
                /\ Live' = Replayed(Live, sent')
                /\ Len(sent') >= 1 => Sound(Live, sent'[1])
                /\ Len(sent') = 2 => Sound(After(Live, sent'[1]), sent'[2])
<1>1. IInv /\ Proper(slots) /\ [Next]_vars => [A]_vars
  <2> SUFFICES ASSUME IInv, Proper(slots), Next PROVE A
    OBVIOUS
  <2>1. Truthful(slots, slots', sent')
    BY EveryStepTells
  <2>2. Live = ActiveIn(slots) /\ Live' = ActiveIn(slots')
    BY DEF Live, ActiveIn
  <2> QED BY <2>1, <2>2 DEF Truthful
<1>2. Spec => [][A]_vars
  BY <1>1, Invariance, SlotsAreProper, PTL DEF Spec
<1> QED BY <1>2 DEF StreamTellsTruth

-----------------------------------------------------------------------------
(* Frames                                                                  *)

\* A handler that registers the controller it answers, and addresses it by the
\* WCID it has been given or by broadcast, reaches it.
LEMMA AddressedStep ==
  ASSUME IInv, NEW m \in Mac, Register(m),
         \A f \in tx' : f.to = m /\ f.wcid \in {WcidOf(m), Broadcast}
  PROVE  TxReachesItsPeer'
<1>1. WcidOf(m) \in Wcid /\ Remembered(m)[WcidOf(m)].mac = m
  BY RememberedEntry DEF IInv
<1>2. \A w \in Wcid : hwWcid'[w] = Remembered(m)[w].mac
  BY Registered DEF IInv, Table
<1> QED BY <1>1, <1>2 DEF TxReachesItsPeer

LEMMA EveryFrameIsAddressed ==
  ASSUME IInv, Next
  PROVE  TxReachesItsPeer'
<1>1. \A kind, m, w : Frame(kind, m, w).to = m /\ Frame(kind, m, w).wcid = w
  BY DEF Frame
<1>2. ASSUME NEW m \in Mac, ProbeRequest(m) \/ AuthRequest(m) PROVE TxReachesItsPeer'
  <2>1. Register(m) /\ \E kind : tx' = {Frame(kind, m, WcidOf(m))}
    BY <1>2 DEF ProbeRequest, AuthRequest, Sends
  <2> QED BY <1>1, <2>1, AddressedStep
<1>3. ASSUME NEW m \in Mac, AssocRequest(m) PROVE TxReachesItsPeer'
  <2>1. Register(m) /\ tx' \subseteq {Frame("assoc_response", m, Broadcast),
                                      Frame("client_add", m, WcidOf(m))}
    BY <1>3 DEF AssocRequest
  <2> QED BY <1>1, <2>1, AddressedStep
<1>4. ASSUME NEW m \in Mac, NEW hid \in HidOutcome, XboxAction(m, hid) PROVE TxReachesItsPeer'
  <2>1. Register(m) /\ tx' \subseteq {Frame("action_response", m, WcidOf(m))}
    BY <1>4 DEF XboxAction, Sends
  <2> QED BY <1>1, <2>1, AddressedStep
<1>5. ASSUME NEW m \in Mac, DataRefused(m) PROVE TxReachesItsPeer'
  <2>1. Register(m) /\ tx' = {}
    BY <1>5 DEF DataRefused
  <2> QED BY <2>1, AddressedStep
<1>6. ASSUME NEW m \in Mac, NEW cmd \in Command, NEW type \in FrameType, NEW hid \in HidOutcome,
             XboxData(m, cmd, type, hid)
      PROVE  TxReachesItsPeer'
  <2>1. Register(m) /\ tx' \subseteq {Frame("ack", m, WcidOf(m)), Frame("power_on", m, WcidOf(m)),
                                      Frame("led", m, WcidOf(m)), Frame("serial", m, WcidOf(m))}
    BY <1>6 DEF XboxData
  <2> QED BY <1>1, <2>1, AddressedStep
<1>7. ASSUME NEW w \in Wcid, ClientLost(w) PROVE TxReachesItsPeer'
  BY <1>7 DEF ClientLost, TxReachesItsPeer
<1> QED BY <1>2, <1>3, <1>4, <1>5, <1>6, <1>7 DEF Next

\* No frame goes out on the WCID of another controller.
THEOREM FramesReachTheirPeers == Spec => []TxReachesItsPeer
<1>1. Init => TxReachesItsPeer
  BY DEF Init, TxReachesItsPeer
<1>2. IInv /\ TxReachesItsPeer /\ [Next]_vars => TxReachesItsPeer'
  <2>1. UNCHANGED vars /\ TxReachesItsPeer => TxReachesItsPeer'
    BY DEF vars, TxReachesItsPeer
  <2> QED BY <2>1, EveryFrameIsAddressed
<1> QED BY <1>1, <1>2, Invariance, PTL DEF Spec

-----------------------------------------------------------------------------
(* Greetings                                                               *)

Greeted(p) == {w \in Wcid : p[w].initial_commands_sent}

\* Only a controller that has completed the handshake has been greeted.
GreetedAfterHandshake ==
  \A w \in Wcid : peers[w].initial_commands_sent => peers[w].handshake_done

Greetings == GreetedOnce /\ GreetedAfterHandshake

\* The greeted controllers have slots.
LEMMA GreetedHaveSlots ==
  ASSUME IInv, GreetedAfterHandshake
  PROVE  /\ Greeted(peers) \subseteq 1 .. MaxSlots
         /\ IsFiniteSet(Greeted(peers)) /\ Cardinality(Greeted(peers)) \in Nat
         /\ \A w \in Greeted(peers) : peers[w].mac # NoMac /\ w # NPeers - 1
<1>1. ASSUME NEW w \in Greeted(peers)
      PROVE  w \in 1 .. MaxSlots /\ peers[w].mac # NoMac /\ w # NPeers - 1
  <2>1. w \in Wcid /\ peers[w].mac # NoMac /\ w - 1 \in Slot
    BY DEF Greeted, GreetedAfterHandshake, IInv, SlotHasOwner
  <2> QED BY <2>1, Bounds DEF Wcid
<1>2. IsFiniteSet(1 .. MaxSlots)
  BY FS_Interval, Bounds
<1>3. Greeted(peers) \subseteq 1 .. MaxSlots
  BY <1>1
<1>4. IsFiniteSet(Greeted(peers))
  BY <1>2, <1>3, FS_Subset
<1> QED BY <1>1, <1>3, <1>4, FS_CardinalityType

\* remember_peer overwrites the entry of no greeted controller.
LEMMA RememberedGreeted ==
  ASSUME IInv, GreetedAfterHandshake, NEW m \in Mac
  PROVE  /\ Greeted(Remembered(m)) = Greeted(peers)
         /\ \A w \in Wcid : Remembered(m)[w].initial_commands_sent => Remembered(m)[w].handshake_done
<1>1. \A w \in Wcid : \/ Remembered(m)[w] = peers[w]
                      \/ /\ Remembered(m)[w] = NewPeer(m)
                         /\ w = WcidOf(m)
                         /\ peers[w].mac = NoMac \/ w = NPeers - 1
  BY EntriesStay DEF IInv
<1>2. ~NewPeer(m).initial_commands_sent
  BY DEF NewPeer
<1>3. \A w \in Wcid : w \in Greeted(peers) => peers[w].mac # NoMac /\ w # NPeers - 1
  BY GreetedHaveSlots
<1>4. \A w \in Wcid : Remembered(m)[w].initial_commands_sent <=> peers[w].initial_commands_sent
  BY <1>1, <1>2, <1>3 DEF Greeted
<1> QED BY <1>1, <1>2, <1>4 DEF Greeted, GreetedAfterHandshake

\* A handler that greets nobody.
LEMMA SilentStep ==
  ASSUME IInv, Greetings, NEW m \in Mac, hostSeq' = hostSeq,
         \A w \in Wcid : /\ peers'[w].initial_commands_sent = Remembered(m)[w].initial_commands_sent
                         /\ Remembered(m)[w].handshake_done => peers'[w].handshake_done
  PROVE  Greetings'
<1>1. Greeted(peers') = Greeted(peers)
  BY RememberedGreeted DEF Greeted, Greetings
<1>2. GreetedAfterHandshake'
  BY RememberedGreeted DEF Greetings, GreetedAfterHandshake
<1> QED BY <1>1, <1>2 DEF Greetings, GreetedOnce, Greeted

\* The three sequence numbers of a greeting follow the last one without a wrap.
LEMMA GreetingFits ==
  ASSUME NEW q \in Nat, q + 3 <= 255
  PROVE  NextSequence(NextSequence(NextSequence(q))) = q + 3
BY DEF NextSequence

\* A handler that greets its sender, which has not been greeted before.
LEMMA GreetingStep ==
  ASSUME 3 * MaxSlots <= 255, IInv, Greetings, NEW m \in Mac, SlotOf(m) # NoSlot,
         ~Remembered(m)[WcidOf(m)].initial_commands_sent,
         hostSeq' = NextSequence(NextSequence(NextSequence(hostSeq))),
         \A w \in Wcid \ {WcidOf(m)} : peers'[w] = Remembered(m)[w],
         peers'[WcidOf(m)].initial_commands_sent, peers'[WcidOf(m)].handshake_done
  PROVE  Greetings'
<1> DEFINE w == WcidOf(m)
           old == Greeted(peers)
           n == Cardinality(old)
<1>1. w \in Wcid /\ w \in 1 .. MaxSlots
  <2>1. w \in Wcid
    BY RememberedEntry DEF IInv
  <2>2. w <= MaxSlots
    BY SlotOfWcid, Bounds DEF IInv
  <2> QED BY <2>1, <2>2, Bounds DEF Wcid
<1>2. old \subseteq 1 .. MaxSlots /\ IsFiniteSet(old) /\ n \in Nat
  BY GreetedHaveSlots DEF Greetings
<1>3. w \notin old
  BY RememberedGreeted DEF Greetings, Greeted
<1>4. Greeted(peers') = old \cup {w}
  <2>1. Greeted(Remembered(m)) = old
    BY RememberedGreeted DEF Greetings
  <2> QED BY <1>1, <2>1 DEF Greeted
<1> HIDE DEF w, old
<1>5. Cardinality(old \cup {w}) = n + 1
  BY <1>2, <1>3, FS_AddElement
<1>6. n + 1 <= MaxSlots
  <2>1. IsFiniteSet(1 .. MaxSlots) /\ Cardinality(1 .. MaxSlots) = MaxSlots
    BY FS_Interval, Bounds
  <2>2. old \cup {w} \in SUBSET (1 .. MaxSlots)
    BY <1>1, <1>2
  <2>3. Cardinality(old \cup {w}) <= Cardinality(1 .. MaxSlots)
    BY <2>1, <2>2, FS_Subset
  <2> QED BY <1>5, <2>1, <2>3
<1> HIDE DEF n
<1>7. hostSeq = 3 * n
  BY DEF Greetings, GreetedOnce, Greeted, old, n
<1>8. hostSeq' = 3 * (n + 1)
  <2>1. 3 * n \in Nat /\ 3 * n + 3 <= 255
    BY <1>2, <1>6, Bounds
  <2> QED BY <1>2, <1>7, <2>1, GreetingFits
<1>9. GreetedOnce'
  BY <1>4, <1>5, <1>8 DEF GreetedOnce, Greeted
<1>10. GreetedAfterHandshake'
  <2>1. \A v \in Wcid : Remembered(m)[v].initial_commands_sent => Remembered(m)[v].handshake_done
    BY RememberedGreeted DEF Greetings
  <2> QED BY <2>1 DEF GreetedAfterHandshake, w
<1> QED BY <1>9, <1>10 DEF Greetings

LEMMA DataGreets ==
  ASSUME 3 * MaxSlots <= 255, IInv, Greetings, NEW m \in Mac, NEW cmd \in Command,
         NEW type \in FrameType, NEW hid \in HidOutcome, XboxData(m, cmd, type, hid)
  PROVE  Greetings'
<1> DEFINE w == WcidOf(m)
           init == Initialises(cmd, type)
           p == Remembered(m)[w]
           q == [p EXCEPT !.slot = SlotOf(m),
                          !.handshake_done = TRUE,
                          !.session_initialized = @ \/ init,
                          !.initial_commands_sent = @ \/ init]
<1>1. /\ w \in Wcid /\ SlotOf(m) # NoSlot
      /\ Remembered(m) \in [Wcid -> Peer] /\ p \in Peer /\ init \in BOOLEAN
  BY RememberedEntry, Registered DEF IInv, XboxData, Initialises
<1>2. /\ peers' = [Remembered(m) EXCEPT ![w] = q]
      /\ hostSeq' = IF init /\ ~p.initial_commands_sent
                    THEN NextSequence(NextSequence(NextSequence(hostSeq))) ELSE hostSeq
  BY DEF XboxData
<1>3. q.handshake_done /\ q.initial_commands_sent = (p.initial_commands_sent \/ init)
      /\ p.initial_commands_sent \in BOOLEAN
  <2> HIDE DEF init, w, p
  <2> QED BY <1>1 DEF Peer
<1>4. peers'[w] = q /\ \A v \in Wcid \ {w} : peers'[v] = Remembered(m)[v]
  BY <1>1, <1>2
<1> HIDE DEF init, q
<1>5. CASE init /\ ~p.initial_commands_sent
  BY <1>1, <1>2, <1>3, <1>4, <1>5, GreetingStep
<1>6. CASE ~(init /\ ~p.initial_commands_sent)
  <2>1. q.initial_commands_sent = p.initial_commands_sent
    BY <1>1, <1>3, <1>6
  <2>2. ASSUME NEW v \in Wcid
        PROVE  /\ peers'[v].initial_commands_sent = Remembered(m)[v].initial_commands_sent
               /\ Remembered(m)[v].handshake_done => peers'[v].handshake_done
    BY <1>3, <1>4, <2>1
  <2> QED BY <1>2, <1>6, <2>2, SilentStep
<1> QED BY <1>5, <1>6

\* Each controller is greeted once and with numbers of its own, as long as
\* three numbers per slot fit into the byte.
THEOREM GreetingsAreCounted == ASSUME 3 * MaxSlots <= 255 PROVE Spec => []GreetedOnce
<1>1. Init => Greetings
  <2> SUFFICES ASSUME Init PROVE Greetings
    OBVIOUS
  <2>1. \A w \in Wcid : peers[w] = NewPeer(NoMac) /\ ~peers[w].initial_commands_sent
    BY DEF Init, NewPeer
  <2>2. Greeted(peers) = {} /\ hostSeq = 0
    BY <2>1 DEF Greeted, Init
  <2>3. Cardinality(Greeted(peers)) = 0
    BY <2>2, FS_EmptySet
  <2> QED BY <2>1, <2>2, <2>3 DEF Greetings, GreetedOnce, GreetedAfterHandshake, Greeted
<1>2. ASSUME IInv, Greetings, Next PROVE Greetings'
  <2>1. ASSUME NEW m \in Mac, ProbeRequest(m) \/ AuthRequest(m) \/ DataRefused(m)
        PROVE  Greetings'
    <3>1. peers' = Remembered(m) /\ hostSeq' = hostSeq
      BY <2>1 DEF ProbeRequest, AuthRequest, DataRefused
    <3> QED BY <1>2, <3>1, SilentStep
  <2>2. ASSUME NEW m \in Mac, AssocRequest(m) PROVE Greetings'
    <3>1. /\ peers' \in {Remembered(m), [Remembered(m) EXCEPT ![WcidOf(m)].fw_client_added = TRUE]}
          /\ hostSeq' = hostSeq /\ Register(m)
      BY <2>2 DEF AssocRequest
    <3>2. Remembered(m) \in [Wcid -> Peer]
      BY <1>2, <3>1, Registered DEF IInv
    <3>3. \A w \in Wcid : /\ peers'[w].initial_commands_sent = Remembered(m)[w].initial_commands_sent
                          /\ peers'[w].handshake_done = Remembered(m)[w].handshake_done
      BY <3>1, <3>2 DEF Peer
    <3> QED BY <1>2, <3>1, <3>3, SilentStep
  <2>3. ASSUME NEW m \in Mac, NEW hid \in HidOutcome, XboxAction(m, hid) PROVE Greetings'
    <3> DEFINE w == WcidOf(m)
    <3>1. /\ peers' \in {Remembered(m), [Remembered(m) EXCEPT ![w].slot = SlotOf(m)],
                         [Remembered(m) EXCEPT ![w] = [@ EXCEPT !.slot = SlotOf(m), !.handshake_done = TRUE]]}
          /\ hostSeq' = hostSeq /\ Register(m)
      BY <2>3 DEF XboxAction
    <3>2. Remembered(m) \in [Wcid -> Peer] /\ w \in Wcid
      BY <1>2, <3>1, Registered, RememberedEntry DEF IInv
    <3> DEFINE p == Remembered(m)[w]
    <3>3. p \in Peer
      BY <3>2
    <3>4. PICK q : /\ peers' = Remembered(m) \/ peers' = [Remembered(m) EXCEPT ![w] = q]
                   /\ q.initial_commands_sent = p.initial_commands_sent
                   /\ p.handshake_done => q.handshake_done
      <4>1. /\ [p EXCEPT !.slot = SlotOf(m)].initial_commands_sent = p.initial_commands_sent
            /\ [p EXCEPT !.slot = SlotOf(m)].handshake_done = p.handshake_done
            /\ [p EXCEPT !.slot = SlotOf(m), !.handshake_done = TRUE].initial_commands_sent
                 = p.initial_commands_sent
            /\ [p EXCEPT !.slot = SlotOf(m), !.handshake_done = TRUE].handshake_done
        BY <3>3 DEF Peer
      <4> QED BY <3>1, <4>1
    <3> HIDE DEF w
    <3>5. \A v \in Wcid : /\ peers'[v].initial_commands_sent = Remembered(m)[v].initial_commands_sent
                          /\ Remembered(m)[v].handshake_done => peers'[v].handshake_done
      BY <3>2, <3>4
    <3> QED BY <1>2, <3>1, <3>5, SilentStep
  <2>4. ASSUME NEW m \in Mac, NEW cmd \in Command, NEW type \in FrameType, NEW hid \in HidOutcome,
               XboxData(m, cmd, type, hid)
        PROVE  Greetings'
    BY <1>2, <2>4, DataGreets
  <2>5. ASSUME NEW w \in Wcid, ClientLost(w) PROVE Greetings'
    <3>1. peers' = peers /\ hostSeq' = hostSeq
      BY <2>5 DEF ClientLost
    <3> QED BY <1>2, <3>1 DEF Greetings, GreetedOnce, GreetedAfterHandshake
  <2> QED BY <1>2, <2>1, <2>2, <2>3, <2>4, <2>5 DEF Next
<1>3. IInv /\ Greetings /\ [Next]_vars => Greetings'
  <2>1. UNCHANGED vars /\ Greetings => Greetings'
    BY DEF vars, Greetings, GreetedOnce, GreetedAfterHandshake
  <2> QED BY <1>2, <2>1
<1>4. Greetings => GreetedOnce
  BY DEF Greetings
<1> QED BY <1>1, <1>3, <1>4, Invariance, PTL DEF Spec
=============================================================================
