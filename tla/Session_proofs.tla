--------------------------- MODULE Session_proofs ---------------------------
(***************************************************************************)
(* Theorems of Session, for every set of addresses, table size and number  *)
(* of slots.  The inductive invariant IInv is proved first; the properties *)
(* that the runs check follow from it.                                     *)
(***************************************************************************)
EXTENDS Session, TLAPS

(* The inductive invariant.  A WCID is found by address, so that even the  *)
(* types depend on each address having one; a slot is found by WCID.       *)
IInv ==
  /\ TypeOK
  /\ OneWcidPerController
  /\ SlotHasOwner
  /\ NoCrossTalk

-----------------------------------------------------------------------------
(* The constants                                                           *)

(* The slots have WCIDs of their own, the last WCID is none of them.       *)
LEMMA Bounds ==
  /\ NPeers \in Nat /\ MaxSlots \in Nat /\ MaxSlots >= 1 /\ NPeers >= 3
  /\ NPeers <= 255 /\ MaxSlots + 1 < NPeers
  /\ \A s \in Slot : s \in Nat /\ s + 1 \in Wcid /\ s + 1 # NPeers - 1 /\ s # NoSlot
                     /\ s + 1 - 1 = s /\ s < MaxSlots /\ s \in 0 .. 255
  /\ \A w \in Wcid : w \in Nat /\ w \in 1 .. 255 /\ w # Broadcast /\ w < NPeers
                     /\ (w <= MaxSlots <=> w - 1 \in Slot)
  /\ 1 \in Wcid
  /\ NPeers - 1 \in Wcid
BY SessionAssumption DEF Slot, Wcid, NoSlot, Broadcast

-----------------------------------------------------------------------------
(* remember_peer                                                           *)

(* The facts about the peer table that OneWcidPerController states.        *)
Table(p, n, h) ==
  /\ \A v, w \in Wcid : p[v].mac # NoMac /\ p[v].mac = p[w].mac => v = w
  /\ \A w \in Wcid : p[w].mac # NoMac => w < n \/ w = NPeers - 1
  /\ \A w \in Wcid : w < n => p[w].mac # NoMac
  /\ \A w \in Wcid : h[w] = p[w].mac

(* An address that is known has the WCID of its entry.                     *)
LEMMA KnownWcid ==
  ASSUME TypeOK, OneWcidPerController, NEW m \in Mac, Known(m)
  PROVE  WcidOf(m) \in Wcid /\ peers[WcidOf(m)].mac = m
<1>1. PICK w \in Wcid : peers[w].mac = m
  BY DEF Known
<1>2. m # NoMac
  BY SessionAssumption
<1>3. \A v \in 1 .. w - 1 : peers[v].mac # m
  <2>1. SUFFICES ASSUME NEW v \in 1 .. w - 1 PROVE peers[v].mac # m
    OBVIOUS
  <2>2. v \in Wcid /\ v # w
    BY SessionAssumption DEF Wcid
  <2> QED
    BY <1>1, <1>2, <2>2 DEF OneWcidPerController
<1>4. \E x \in Wcid : peers[x].mac = m /\ \A v \in 1 .. x - 1 : peers[v].mac # m
  BY <1>1, <1>3
<1> QED
  BY <1>4 DEF WcidOf

(* remember_peer never returns NULL, and the entry it returns is the       *)
(* address's own.                                                          *)
LEMMA RememberedEntry ==
  ASSUME TypeOK, OneWcidPerController, NEW m \in Mac
  PROVE  /\ WcidOf(m) \in Wcid
         /\ WcidOf(m) # Broadcast
         /\ Remembered(m)[WcidOf(m)].mac = m
         /\ Known(m) => Remembered(m) = peers
         /\ ~Known(m) => /\ WcidOf(m) = nextWcid
                         /\ Remembered(m) = [peers EXCEPT ![nextWcid] = NewPeer(m)]
<1>1. CASE Known(m)
  <2>1. WcidOf(m) \in Wcid /\ peers[WcidOf(m)].mac = m
    BY <1>1, KnownWcid
  <2> QED
    BY <1>1, <2>1, Bounds DEF Remembered, CanRegister
<1>2. CASE ~Known(m)
  <2>1. nextWcid \in Wcid /\ nextWcid < NPeers
    BY Bounds DEF TypeOK
  <2>2. WcidOf(m) = nextWcid
    BY <1>2, <2>1 DEF WcidOf
  <2>3. Remembered(m) = [peers EXCEPT ![nextWcid] = NewPeer(m)]
    BY <1>2, <2>1 DEF Remembered, CanRegister
  <2>4. Remembered(m)[nextWcid] = NewPeer(m)
    BY <2>1, <2>3 DEF TypeOK
  <2> QED
    BY <1>2, <2>1, <2>2, <2>3, <2>4, Bounds DEF NewPeer
<1> QED
  BY <1>1, <1>2

(* What remember_peer does to the tables, on an adapter whose table agreed *)
(* with the daemon's.                                                      *)
LEMMA Registered ==
  ASSUME TypeOK, OneWcidPerController, NEW m \in Mac, Register(m)
  PROVE  /\ Remembered(m) \in [Wcid -> Peer]
         /\ nextWcid' \in Wcid
         /\ hwWcid' \in [Wcid -> Mac \cup {NoMac}]
         /\ Table(Remembered(m), nextWcid', hwWcid')
<1>1. CASE Known(m)
  <2>1. Remembered(m) = peers /\ nextWcid' = nextWcid /\ hwWcid' = hwWcid
    BY <1>1, RememberedEntry DEF Register, CanRegister
  <2> QED
    BY <2>1 DEF TypeOK, OneWcidPerController, Table
<1>2. CASE ~Known(m)
  <2> DEFINE next == nextWcid
             tab == [peers EXCEPT ![next] = NewPeer(m)]
             hw == [hwWcid EXCEPT ![next] = m]
  <2>1. next \in Wcid /\ next < NPeers /\ next \in Nat /\ m # NoMac
    BY Bounds, SessionAssumption DEF TypeOK
  <2>2. /\ Remembered(m) = tab /\ hwWcid' = hw
        /\ nextWcid' = IF next < NPeers - 1 THEN next + 1 ELSE next
    BY <1>2, <2>1, RememberedEntry DEF Register, CanRegister
  <2>3. NewPeer(m) \in Peer /\ NewPeer(m).mac = m
    BY DEF NewPeer, Peer, NoSlot
  <2>4. tab \in [Wcid -> Peer] /\ hw \in [Wcid -> Mac \cup {NoMac}]
    BY <2>1, <2>3 DEF TypeOK
  <2>5. nextWcid' \in Wcid
    BY <2>1, <2>2, Bounds DEF Wcid
  <2>6. /\ tab[next].mac = m /\ hw[next] = m
        /\ \A w \in Wcid : w # next => tab[w] = peers[w] /\ hw[w] = hwWcid[w]
    BY <2>1, <2>3 DEF TypeOK
  <2>7. \A w \in Wcid : peers[w].mac # m
    BY <1>2 DEF Known
  <2>8. \A v, w \in Wcid : tab[v].mac # NoMac /\ tab[v].mac = tab[w].mac => v = w
    <3>1. SUFFICES ASSUME NEW v \in Wcid, NEW w \in Wcid,
                          tab[v].mac # NoMac, tab[v].mac = tab[w].mac
                   PROVE  v = w
      OBVIOUS
    <3>2. CASE v = next \/ w = next
      BY <3>1, <3>2, <2>6, <2>7
    <3>3. CASE v # next /\ w # next
      BY <3>1, <3>3, <2>6 DEF OneWcidPerController
    <3> QED
      BY <3>2, <3>3
  <2>9. \A w \in Wcid : /\ tab[w].mac # NoMac => w < nextWcid' \/ w = NPeers - 1
                        /\ w < nextWcid' => tab[w].mac # NoMac
    <3>1. SUFFICES ASSUME NEW w \in Wcid
                   PROVE  /\ tab[w].mac # NoMac => w < nextWcid' \/ w = NPeers - 1
                          /\ w < nextWcid' => tab[w].mac # NoMac
      OBVIOUS
    <3>2. w \in Nat /\ w < NPeers /\ NPeers \in Nat
      BY Bounds
    <3>3. CASE w = next
      BY <2>1, <2>2, <2>6, <3>2, <3>3
    <3>4. CASE w # next
      <4>1. tab[w] = peers[w]
        BY <2>6, <3>4
      <4>2. /\ peers[w].mac # NoMac => w < next \/ w = NPeers - 1
            /\ w < next => peers[w].mac # NoMac
        BY DEF OneWcidPerController
      <4> HIDE DEF next, tab, hw
      <4> QED
        BY <2>1, <2>2, <3>2, <3>4, <4>1, <4>2
    <3> QED
      BY <3>3, <3>4
  <2>10. \A w \in Wcid : hw[w] = tab[w].mac
    BY <2>6 DEF OneWcidPerController
  <2> HIDE DEF next, tab, hw
  <2>11. Table(tab, nextWcid', hw)
    BY <2>8, <2>9, <2>10 DEF Table
  <2> QED
    BY <2>2, <2>4, <2>5, <2>11
<1> QED
  BY <1>1, <1>2

(* The table has the same facts when only other fields of its entries      *)
(* change.                                                                 *)
LEMMA SameAddresses ==
  ASSUME NEW p, NEW q, NEW n, NEW h, Table(p, n, h),
         \A w \in Wcid : q[w].mac = p[w].mac
  PROVE  Table(q, n, h)
BY DEF Table

(* An entry that belongs to a slot is never given to another address, and  *)
(* an entry that remember_peer does fill has no slot yet.                  *)
LEMMA EntriesStay ==
  ASSUME TypeOK, OneWcidPerController, NEW m \in Mac
  PROVE  \A w \in Wcid :
           \/ Remembered(m)[w] = peers[w]
           \/ /\ Remembered(m)[w] = NewPeer(m)
              /\ w = WcidOf(m)
              /\ peers[w].mac = NoMac \/ w = NPeers - 1
<1>1. CASE Known(m)
  BY <1>1, RememberedEntry
<1>2. CASE ~Known(m)
  <2>1. /\ WcidOf(m) = nextWcid
        /\ Remembered(m) = [peers EXCEPT ![nextWcid] = NewPeer(m)]
        /\ nextWcid \in Wcid
    BY <1>2, RememberedEntry DEF TypeOK
  <2>2. peers[nextWcid].mac # NoMac => nextWcid = NPeers - 1
    <3>1. nextWcid \in Nat
      BY <2>1, Bounds
    <3> QED
      BY <2>1, <3>1 DEF OneWcidPerController
  <2> QED
    BY <2>1, <2>2 DEF TypeOK
<1> QED
  BY <1>1, <1>2

-----------------------------------------------------------------------------
(* peer_slot                                                               *)

(* SlotHasOwner for a table of peers and one of slots.                     *)
Owned(p, sl) ==
  /\ \A w \in Wcid : p[w].handshake_done => p[w].slot # NoSlot
  /\ \A w \in Wcid : p[w].slot # NoSlot =>
       p[w].mac # NoMac /\ p[w].slot \in Slot /\ p[w].slot = w - 1
  /\ \A s \in Slot : sl[s].active => p[s + 1].handshake_done

(* remember_peer disturbs no slot.                                         *)
LEMMA RememberedOwned ==
  ASSUME TypeOK, OneWcidPerController, SlotHasOwner, NEW m \in Mac
  PROVE  /\ Owned(Remembered(m), slots)
         /\ \A s \in Slot : \/ Remembered(m)[s + 1] = peers[s + 1]
                            \/ /\ peers[s + 1].mac = NoMac
                               /\ ~peers[s + 1].handshake_done
                               /\ Remembered(m)[s + 1] = NewPeer(m)
<1>1. \A w \in Wcid : Remembered(m)[w] = peers[w] \/ Remembered(m)[w] = NewPeer(m)
  BY EntriesStay
<1>2. \A s \in Slot : \/ Remembered(m)[s + 1] = peers[s + 1]
                     \/ /\ peers[s + 1].mac = NoMac
                        /\ ~peers[s + 1].handshake_done
                        /\ Remembered(m)[s + 1] = NewPeer(m)
  <2>1. SUFFICES ASSUME NEW s \in Slot
                 PROVE  \/ Remembered(m)[s + 1] = peers[s + 1]
                        \/ /\ peers[s + 1].mac = NoMac
                           /\ ~peers[s + 1].handshake_done
                           /\ Remembered(m)[s + 1] = NewPeer(m)
    OBVIOUS
  <2>2. s + 1 \in Wcid /\ s + 1 # NPeers - 1
    BY Bounds
  <2> QED
    BY <2>2, EntriesStay DEF SlotHasOwner
<1>3. ~NewPeer(m).handshake_done /\ NewPeer(m).slot = NoSlot
  BY DEF NewPeer
<1>4. \A s \in Slot : s + 1 \in Wcid
  BY Bounds
<1>5. \A s \in Slot : slots[s].active => Remembered(m)[s + 1].handshake_done
  BY <1>2 DEF SlotHasOwner
<1> QED
  BY <1>1, <1>2, <1>3, <1>5 DEF Owned, SlotHasOwner

(* peer_slot answers with the slot of the WCID, or with none.              *)
LEMMA SlotOfWcid ==
  ASSUME TypeOK, OneWcidPerController, SlotHasOwner, NEW m \in Mac
  PROVE  \/ SlotOf(m) = NoSlot /\ WcidOf(m) > MaxSlots
         \/ SlotOf(m) \in Slot /\ SlotOf(m) = WcidOf(m) - 1 /\ WcidOf(m) <= MaxSlots
<1> DEFINE w == WcidOf(m)
           c == Remembered(m)[w].slot
<1>1. w \in Wcid /\ w # Broadcast /\ w \in Nat
  BY RememberedEntry, Bounds
<1>2. c = NoSlot \/ (c \in Slot /\ c = w - 1)
  BY <1>1, RememberedOwned DEF Owned
<1>3. SlotOf(m) = IF c < MaxSlots THEN c ELSE IF w - 1 < MaxSlots THEN w - 1 ELSE NoSlot
  BY <1>1 DEF SlotOf
<1>4. MaxSlots \in Nat /\ MaxSlots < NoSlot
  BY SessionAssumption DEF NoSlot
<1>5. w >= 1
  BY <1>1, SessionAssumption DEF Wcid
<1> HIDE DEF w, c
<1>6. SlotOf(m) = IF w <= MaxSlots THEN w - 1 ELSE NoSlot
  BY <1>1, <1>2, <1>3, <1>4, <1>5 DEF Slot, NoSlot
<1>7. w <= MaxSlots => w - 1 \in Slot
  BY <1>1, <1>4, <1>5 DEF Slot
<1> QED
  BY <1>1, <1>4, <1>6, <1>7 DEF w

-----------------------------------------------------------------------------
(* The slots                                                               *)

(* What a handler may do to the slots on behalf of controller m of slot s. *)
Allowed(sl, new, s, m) ==
  /\ new \in [Slot -> SlotRecord]
  /\ \A t \in Slot : t # s => new[t] = sl[t]
  /\ new[s].last_report.pad \in {NoMac, sl[s].last_report.pad, m}

LEMMA EmptySlotType == EmptySlot \in SlotRecord /\ EmptySlot.last_report.pad = NoMac
BY DEF EmptySlot, SlotRecord, Report

(* on_connect and on_disconnect touch their own slot.                      *)
LEMMA ConnectAllowed ==
  ASSUME NEW sl \in [Slot -> SlotRecord], NEW s \in Slot, NEW m \in Mac, NEW hid \in BOOLEAN
  PROVE  Allowed(sl, Connect(sl, s, hid), s, m) /\ Connect(sl, s, hid)[s].active
<1>1. CASE sl[s].active
  BY <1>1 DEF Allowed, Connect
<1>2. CASE ~sl[s].active
  <2> DEFINE r == [sl[s] EXCEPT !.active = TRUE, !.hid_device = hid]
  <2>1. r \in SlotRecord /\ r.active /\ r.last_report = sl[s].last_report
    BY DEF SlotRecord
  <2>2. Connect(sl, s, hid) = [sl EXCEPT ![s] = r]
    BY <1>2 DEF Connect
  <2> HIDE DEF r
  <2> QED
    BY <2>1, <2>2 DEF Allowed
<1> QED
  BY <1>1, <1>2

LEMMA DisconnectAllowed ==
  ASSUME NEW sl \in [Slot -> SlotRecord], NEW s \in Slot, NEW m \in Mac
  PROVE  Allowed(sl, Disconnect(sl, s), s, m) /\ ~Disconnect(sl, s)[s].active
<1>1. CASE sl[s].active
  <2>1. Disconnect(sl, s) = [sl EXCEPT ![s] = EmptySlot]
    BY <1>1 DEF Disconnect
  <2>2. ~EmptySlot.active
    BY DEF EmptySlot
  <2> QED
    BY <2>1, <2>2, EmptySlotType DEF Allowed
<1>2. CASE ~sl[s].active
  BY <1>2 DEF Allowed, Disconnect
<1> QED
  BY <1>1, <1>2

(* on_input and on_guide connect no slot.                                  *)
LEMMA InputAllowed ==
  ASSUME NEW sl \in [Slot -> SlotRecord], NEW s \in Slot, NEW m \in Mac
  PROVE  Allowed(sl, Input(sl, s, m), s, m) /\ Input(sl, s, m)[s].active = sl[s].active
<1>1. CASE sl[s].active
  <2> DEFINE r == [sl[s] EXCEPT !.last_report = [pad |-> m, guide |-> sl[s].guide_pressed]]
  <2>1. r \in SlotRecord /\ r.active = sl[s].active /\ r.last_report.pad = m
    BY DEF SlotRecord, Report
  <2>2. Input(sl, s, m) = [sl EXCEPT ![s] = r]
    BY <1>1 DEF Input
  <2> HIDE DEF r
  <2> QED
    BY <2>1, <2>2 DEF Allowed
<1>2. CASE ~sl[s].active
  BY <1>2 DEF Allowed, Input
<1> QED
  BY <1>1, <1>2

LEMMA GuideAllowed ==
  ASSUME NEW sl \in [Slot -> SlotRecord], NEW s \in Slot, NEW m \in Mac,
         NEW pressed \in BOOLEAN
  PROVE  Allowed(sl, Guide(sl, s, pressed), s, m)
           /\ Guide(sl, s, pressed)[s].active = sl[s].active
<1> DEFINE r == [sl[s] EXCEPT !.guide_pressed = pressed, !.last_report.guide = pressed]
<1>1. sl[s] \in SlotRecord /\ sl[s].last_report \in Report
  BY DEF SlotRecord
<1>2. r \in SlotRecord /\ r.active = sl[s].active
        /\ r.last_report.pad = sl[s].last_report.pad
  BY <1>1 DEF SlotRecord, Report
<1>3. Guide(sl, s, pressed) = [sl EXCEPT ![s] = r]
  BY DEF Guide
<1> HIDE DEF r
<1> QED
  BY <1>2, <1>3 DEF Allowed

(* dispatch_wlan_gip on behalf of a controller touches its own slot.       *)
LEMMA DispatchedAllowed ==
  ASSUME NEW sl \in [Slot -> SlotRecord], NEW s \in Slot, NEW m \in Mac,
         NEW cmd \in Command, NEW hid \in BOOLEAN
  PROVE  Allowed(sl, Dispatched(sl, s, m, cmd, hid), s, m)
<1>1. CASE cmd = "ctrl_added"
  BY <1>1, ConnectAllowed DEF Dispatched
<1>2. CASE cmd = "ctrl_lost"
  BY <1>2, DisconnectAllowed DEF Dispatched
<1>3. CASE cmd = "input"
  BY <1>3, InputAllowed DEF Dispatched
<1>4. CASE cmd = "guide_down"
  BY <1>4, GuideAllowed DEF Dispatched
<1>5. CASE cmd = "guide_up"
  BY <1>5, GuideAllowed DEF Dispatched
<1>6. CASE cmd \notin {"ctrl_added", "ctrl_lost", "input", "guide_down", "guide_up"}
  <2>1. Dispatched(sl, s, m, cmd, hid) = sl
    BY <1>6 DEF Dispatched
  <2> QED BY <2>1, Zenon DEF Allowed
<1> QED
  BY <1>1, <1>2, <1>3, <1>4, <1>5, <1>6

(* Two such changes in a row are one.                                      *)
LEMMA AllowedTwice ==
  ASSUME NEW s \in Slot, NEW m \in Mac, NEW a, NEW b, NEW c,
         Allowed(a, b, s, m), Allowed(b, c, s, m)
  PROVE  Allowed(a, c, s, m)
BY DEF Allowed

-----------------------------------------------------------------------------
(* The invariant                                                           *)

(* NoCrossTalk for a table of peers and one of slots.                      *)
Separate(p, sl) == \A s \in Slot : sl[s].last_report.pad \in {NoMac, p[s + 1].mac}

LEMMA RememberedSeparate ==
  ASSUME IInv, NEW m \in Mac
  PROVE  Separate(Remembered(m), slots)
<1>1. SUFFICES ASSUME NEW s \in Slot
               PROVE  slots[s].last_report.pad \in {NoMac, Remembered(m)[s + 1].mac}
  BY DEF Separate
<1>2. slots[s].last_report.pad \in {NoMac, peers[s + 1].mac}
  BY DEF IInv, NoCrossTalk
<1>3. Remembered(m)[s + 1] = peers[s + 1] \/ peers[s + 1].mac = NoMac
  BY RememberedOwned DEF IInv
<1> QED
  BY <1>2, <1>3

THEOREM Initially == Init => IInv
<1>1. SUFFICES ASSUME Init PROVE IInv
  OBVIOUS
<1>2. NewPeer(NoMac) \in Peer
  BY DEF NewPeer, Peer, NoSlot
<1>3. TypeOK
  BY <1>1, <1>2, Bounds, EmptySlotType DEF Init, TypeOK
<1>4. OneWcidPerController
  <2>1. \A w \in Wcid : peers[w].mac = NoMac /\ hwWcid[w] = NoMac /\ ~(w < nextWcid)
    BY <1>1 DEF Init, NewPeer, Wcid
  <2> QED
    BY <2>1 DEF OneWcidPerController
<1>5. SlotHasOwner
  BY <1>1 DEF Init, SlotHasOwner, NewPeer, EmptySlot
<1>6. NoCrossTalk
  BY <1>1 DEF Init, NoCrossTalk, EmptySlot
<1> QED
  BY <1>3, <1>4, <1>5, <1>6 DEF IInv

(* A handler that registers its sender and changes no address keeps the    *)
(* tables in agreement.                                                    *)
LEMMA TableStep ==
  ASSUME IInv, NEW m \in Mac, Register(m),
         \A w \in Wcid : peers'[w].mac = Remembered(m)[w].mac
  PROVE  OneWcidPerController' /\ nextWcid' \in Wcid
           /\ hwWcid' \in [Wcid -> Mac \cup {NoMac}]
<1>1. /\ Table(Remembered(m), nextWcid', hwWcid')
      /\ nextWcid' \in Wcid
      /\ hwWcid' \in [Wcid -> Mac \cup {NoMac}]
  BY Registered DEF IInv
<1>2. Table(peers', nextWcid', hwWcid')
  BY <1>1, SameAddresses
<1> QED
  BY <1>1, <1>2 DEF Table, OneWcidPerController

(* A handler that leaves the slots alone, and neither the slot nor the     *)
(* handshake of a peer, keeps slots and owners in agreement.               *)
LEMMA NoSlotStep ==
  ASSUME IInv, NEW m \in Mac, slots' = slots,
         \A w \in Wcid : /\ peers'[w].mac = Remembered(m)[w].mac
                        /\ peers'[w].slot = Remembered(m)[w].slot
                        /\ peers'[w].handshake_done = Remembered(m)[w].handshake_done
  PROVE  SlotHasOwner' /\ NoCrossTalk'
<1>1. Owned(Remembered(m), slots)
  BY RememberedOwned DEF IInv
<1>2. Separate(Remembered(m), slots)
  BY RememberedSeparate
<1>3. \A s \in Slot : s + 1 \in Wcid
  BY Bounds
<1>4. SlotHasOwner'
  BY <1>1, <1>3 DEF Owned, SlotHasOwner
<1>5. NoCrossTalk'
  BY <1>2, <1>3 DEF Separate, NoCrossTalk
<1> QED
  BY <1>4, <1>5

(* A handler that gives its sender the slot of its WCID, and changes that  *)
(* slot only, keeps slots and owners in agreement.                         *)
LEMMA SlotStep ==
  ASSUME IInv, NEW m \in Mac, SlotOf(m) \in Slot,
         Allowed(slots, slots', SlotOf(m), m),
         NEW q, q.mac = m, q.slot = SlotOf(m), q.handshake_done,
         peers' = [Remembered(m) EXCEPT ![WcidOf(m)] = q],
         Remembered(m) \in [Wcid -> Peer]
  PROVE  SlotHasOwner' /\ NoCrossTalk'
<1> DEFINE w == WcidOf(m)
           own == SlotOf(m)
<1>1. w \in Wcid /\ own \in Slot /\ own = w - 1 /\ own + 1 = w
  <2>1. w \in Wcid
    BY RememberedEntry DEF IInv
  <2>2. own # NoSlot
    BY Bounds
  <2>3. own = w - 1
    BY <2>2, SlotOfWcid DEF IInv
  <2> QED
    BY <2>1, <2>3, Bounds
<1>2. peers'[w] = q /\ \A v \in Wcid : v # w => peers'[v] = Remembered(m)[v]
  BY <1>1
<1>3. m # NoMac /\ own # NoSlot
  BY <1>1, Bounds, SessionAssumption
<1>4. Owned(Remembered(m), slots) /\ Separate(Remembered(m), slots)
  BY RememberedOwned, RememberedSeparate DEF IInv
<1>5. \A s \in Slot : s + 1 \in Wcid /\ (s # own => s + 1 # w)
  BY <1>1, Bounds
<1>6. \A t \in Slot : t # own => slots'[t] = slots[t]
  BY DEF Allowed
<1>7. slots'[own].last_report.pad \in {NoMac, m}
  <2>1. slots[own].last_report.pad \in {NoMac, Remembered(m)[own + 1].mac}
    BY <1>1, <1>4 DEF Separate
  <2>2. Remembered(m)[w].mac = m
    BY RememberedEntry DEF IInv
  <2> QED
    BY <1>1, <2>1, <2>2 DEF Allowed
<1> HIDE DEF w, own
<1>8. SlotHasOwner'
  <2>1. \A v \in Wcid : peers'[v].handshake_done => peers'[v].slot # NoSlot
    BY <1>1, <1>2, <1>3, <1>4 DEF Owned, own
  <2>2. \A v \in Wcid : peers'[v].slot # NoSlot =>
          peers'[v].mac # NoMac /\ peers'[v].slot \in Slot /\ peers'[v].slot = v - 1
    BY <1>1, <1>2, <1>3, <1>4 DEF Owned, own
  <2>3. \A s \in Slot : slots'[s].active => peers'[s + 1].handshake_done
    <3>1. SUFFICES ASSUME NEW s \in Slot, slots'[s].active
                   PROVE  peers'[s + 1].handshake_done
      OBVIOUS
    <3>2. CASE s = own
      BY <1>1, <1>2, <3>2
    <3>3. CASE s # own
      BY <1>2, <1>4, <1>5, <1>6, <3>1, <3>3 DEF Owned
    <3> QED
      BY <3>2, <3>3
  <2> QED
    BY <2>1, <2>2, <2>3 DEF SlotHasOwner
<1>9. NoCrossTalk'
  <2>1. SUFFICES ASSUME NEW s \in Slot
                 PROVE  slots'[s].last_report.pad \in {NoMac, peers'[s + 1].mac}
    BY DEF NoCrossTalk
  <2>2. CASE s = own
    BY <1>1, <1>2, <1>7, <2>2
  <2>3. CASE s # own
    BY <1>2, <1>4, <1>5, <1>6, <2>3 DEF Separate
  <2> QED
    BY <2>2, <2>3
<1> QED
  BY <1>8, <1>9

-----------------------------------------------------------------------------
(* Types of what the handlers send                                         *)

LEMMA SentEventTypes ==
  ASSUME NEW sl, NEW s \in Slot, NEW cmd \in Command
  PROVE  /\ ConnectEvents(sl, s) \in Seq(UdpEvent)
         /\ DisconnectEvents(sl, s) \in Seq(UdpEvent)
         /\ DispatchEvents(sl, s, cmd) \in Seq(UdpEvent)
<1>1. \A type \in {"connected", "disconnected", "input", "guide"} :
        Event(type, s) \in Seq(UdpEvent)
  BY DEF Event, UdpEvent
<1>2. <<>> \in Seq(UdpEvent)
  OBVIOUS
<1>3. /\ ConnectEvents(sl, s) \in Seq(UdpEvent)
      /\ DisconnectEvents(sl, s) \in Seq(UdpEvent)
      /\ InputEvents(sl, s) \in Seq(UdpEvent)
  BY <1>1, <1>2 DEF ConnectEvents, DisconnectEvents, InputEvents
<1>4. \/ DispatchEvents(sl, s, cmd) = ConnectEvents(sl, s)
      \/ DispatchEvents(sl, s, cmd) = DisconnectEvents(sl, s)
      \/ DispatchEvents(sl, s, cmd) = InputEvents(sl, s)
      \/ DispatchEvents(sl, s, cmd) = Event("guide", s)
      \/ DispatchEvents(sl, s, cmd) = <<>>
  BY DEF DispatchEvents, Command
<1> QED
  BY <1>1, <1>2, <1>3, <1>4

TxKind == {"probe_response", "auth_response", "assoc_response", "client_add",
           "action_response", "ack", "power_on", "led", "serial"}

LEMMA SentFrameType ==
  ASSUME NEW kind \in TxKind, NEW m \in Mac, NEW w \in 1 .. 255
  PROVE  Frame(kind, m, w) \in TxFrame
BY DEF Frame, TxFrame, TxKind

LEMMA SequenceType ==
  ASSUME NEW q \in 0 .. 255
  PROVE  NextSequence(q) \in 0 .. 255
BY DEF NextSequence

-----------------------------------------------------------------------------
(* Every step keeps the invariant                                          *)

(* Probe and authentication requests only register their sender.           *)
LEMMA RegisterOnlyStep ==
  ASSUME IInv, NEW m \in Mac, Register(m), peers' = Remembered(m),
         UNCHANGED <<fwClients, slots, hostSeq>>,
         sent' = <<>>, tx' \in SUBSET TxFrame
  PROVE  IInv'
<1>1. peers' \in [Wcid -> Peer]
  BY Registered DEF IInv
<1>2. OneWcidPerController' /\ nextWcid' \in Wcid /\ hwWcid' \in [Wcid -> Mac \cup {NoMac}]
  BY TableStep
<1>3. SlotHasOwner' /\ NoCrossTalk'
  BY NoSlotStep
<1>4. TypeOK'
  BY <1>1, <1>2 DEF IInv, TypeOK
<1> QED
  BY <1>2, <1>3, <1>4 DEF IInv

LEMMA AssocStep ==
  ASSUME IInv, NEW m \in Mac, AssocRequest(m)
  PROVE  IInv'
<1> DEFINE w == WcidOf(m)
           p == Remembered(m)
           tell == w # Broadcast /\ ~p[w].fw_client_added
<1>1. w \in Wcid /\ w \in 1 .. 255 /\ Register(m)
  BY RememberedEntry, Bounds, SMTT(60) DEF IInv, AssocRequest
<1>2. p \in [Wcid -> Peer]
  BY <1>1, Registered DEF IInv
<1>3. /\ peers' = IF tell THEN [p EXCEPT ![w].fw_client_added = TRUE] ELSE p
      /\ fwClients' = IF tell THEN fwClients \cup {w} ELSE fwClients
      /\ tx' = {Frame("assoc_response", m, Broadcast)}
                 \cup IF tell THEN {Frame("client_add", m, w)} ELSE {}
      /\ sent' = <<>> /\ slots' = slots /\ hostSeq' = hostSeq
  BY DEF AssocRequest
<1> HIDE DEF w, p, tell
<1>4. /\ peers' \in [Wcid -> Peer]
      /\ \A v \in Wcid : /\ peers'[v].mac = p[v].mac
                         /\ peers'[v].slot = p[v].slot
                         /\ peers'[v].handshake_done = p[v].handshake_done
  <2>1. CASE tell
    <3> DEFINE q == [p[w] EXCEPT !.fw_client_added = TRUE]
    <3>1. peers' = [p EXCEPT ![w] = q]
      BY <1>3, <2>1
    <3>2. p[w] \in Peer
      BY <1>1, <1>2
    <3>3. /\ q \in Peer /\ q.mac = p[w].mac /\ q.slot = p[w].slot
          /\ q.handshake_done = p[w].handshake_done
      BY <3>2, ZenonT(60) DEF Peer
    <3> HIDE DEF q
    <3> QED
      BY <1>1, <1>2, <3>1, <3>3
  <2>2. CASE ~tell
    BY <1>2, <1>3, <2>2
  <2> QED
    BY <2>1, <2>2
<1>5. OneWcidPerController' /\ nextWcid' \in Wcid /\ hwWcid' \in [Wcid -> Mac \cup {NoMac}]
  BY <1>1, <1>4, TableStep DEF p
<1>6. SlotHasOwner' /\ NoCrossTalk'
  BY <1>3, <1>4, NoSlotStep DEF p
<1>7. tx' \in SUBSET TxFrame
  <2>1. Frame("assoc_response", m, Broadcast) \in TxFrame
    BY SentFrameType DEF TxKind, Broadcast
  <2>2. Frame("client_add", m, w) \in TxFrame
    BY <1>1, SentFrameType DEF TxKind
  <2> QED
    BY <1>3, <2>1, <2>2
<1>8. fwClients' \in SUBSET Wcid
  BY <1>1, <1>3 DEF IInv, TypeOK
<1>9. TypeOK'
  BY <1>3, <1>4, <1>5, <1>7, <1>8 DEF IInv, TypeOK
<1> QED
  BY <1>5, <1>6, <1>9 DEF IInv

LEMMA ActionStep ==
  ASSUME IInv, NEW m \in Mac, NEW hid \in BOOLEAN, XboxAction(m, hid)
  PROVE  IInv'
<1> DEFINE w == WcidOf(m)
           s == SlotOf(m)
           p == Remembered(m)
<1>1. /\ w \in Wcid /\ w \in 1 .. 255 /\ Register(m)
      /\ fwClients' = fwClients /\ hostSeq' = hostSeq
  BY RememberedEntry, Bounds, SMTT(60) DEF IInv, XboxAction
<1>2. p \in [Wcid -> Peer] /\ p[w].mac = m
  BY <1>1, Registered, RememberedEntry DEF IInv
<1>3. CASE s = NoSlot
  <2>1. peers' = p /\ sent' = <<>> /\ tx' = {} /\ slots' = slots
    BY <1>3 DEF XboxAction
  <2> QED
    BY <1>1, <2>1, RegisterOnlyStep
<1>4. CASE s # NoSlot
  <2>1. s \in Slot /\ s \in 0 .. 255
    BY <1>4, SlotOfWcid, Bounds DEF IInv
  <2>2. /\ slots \in [Slot -> SlotRecord]
        /\ Allowed(slots, slots, s, m)
        /\ Allowed(slots, Connect(slots, s, hid), s, m)
    <3>1. slots \in [Slot -> SlotRecord]
      BY Zenon DEF IInv, TypeOK
    <3>2. Allowed(slots, slots, s, m)
      BY <3>1, Zenon DEF Allowed
    <3>3. Allowed(slots, Connect(slots, s, hid), s, m)
      <4> HIDE DEF s
      <4> QED BY <2>1, <3>1, ConnectAllowed
    <3> QED BY <3>1, <3>2, <3>3
  <2> DEFINE q == IF p[w].handshake_done THEN [p[w] EXCEPT !.slot = s]
                  ELSE [p[w] EXCEPT !.slot = s, !.handshake_done = TRUE]
  <2>3. q \in Peer /\ q.mac = m /\ q.slot = s /\ q.handshake_done
    <3>1. p[w] \in Peer /\ p[w].mac = m
      BY <1>1, <1>2
    <3>2. CASE p[w].handshake_done
      BY <2>1, <3>1, <3>2 DEF Peer
    <3>3. CASE ~p[w].handshake_done
      BY <2>1, <3>1, <3>3, ZenonT(60) DEF Peer
    <3> QED
      BY <3>2, <3>3
  <2>4. /\ peers' = [p EXCEPT ![w] = q]
        /\ Allowed(slots, slots', s, m)
        /\ sent' \in {<<>>, ConnectEvents(slots, s)}
        /\ tx' \in {{}, {Frame("action_response", m, w)}}
    BY <1>4, <2>2 DEF XboxAction, Sends
  <2> HIDE DEF w, s, p, q
  <2>5. /\ peers' \in [Wcid -> Peer]
        /\ \A v \in Wcid : peers'[v].mac = p[v].mac
    BY <1>1, <1>2, <2>3, <2>4
  <2>6. OneWcidPerController' /\ nextWcid' \in Wcid /\ hwWcid' \in [Wcid -> Mac \cup {NoMac}]
    BY <1>1, <2>5, TableStep DEF p
  <2>7. SlotHasOwner' /\ NoCrossTalk'
    BY <1>2, <2>1, <2>3, <2>4, SlotStep DEF p, s, w
  <2>8. sent' \in Seq(UdpEvent)
    <3>1. "other" \in Command
      BY DEF Command
    <3>2. ConnectEvents(slots, s) \in Seq(UdpEvent)
      BY <2>1, <3>1, SentEventTypes
    <3>3. <<>> \in Seq(UdpEvent)
      OBVIOUS
    <3> QED
      BY <2>4, <3>2, <3>3
  <2>9. tx' \in SUBSET TxFrame
    <3>1. Frame("action_response", m, w) \in TxFrame
      BY <1>1, SentFrameType DEF TxKind
    <3> QED
      BY <2>4, <3>1
  <2>10. TypeOK'
    BY <1>1, <2>4, <2>5, <2>6, <2>8, <2>9 DEF IInv, TypeOK, Allowed
  <2> QED
    BY <2>6, <2>7, <2>10 DEF IInv
<1> QED
  BY <1>3, <1>4

\* What data makes of the entry of its sender.
DataEntry(r, s, i) ==
  [r EXCEPT !.slot = s, !.handshake_done = TRUE,
            !.session_initialized = @ \/ i, !.initial_commands_sent = @ \/ i]

LEMMA DataEntryIsTyped ==
  ASSUME NEW r \in Peer, NEW s \in 0 .. 255, NEW i \in BOOLEAN
  PROVE  /\ DataEntry(r, s, i) \in Peer
         /\ DataEntry(r, s, i).mac = r.mac /\ DataEntry(r, s, i).slot = s
         /\ DataEntry(r, s, i).handshake_done = TRUE
<1> DEFINE q == DataEntry(r, s, i)
<1>1. /\ r = [mac |-> r.mac, slot |-> r.slot, handshake_done |-> r.handshake_done,
               fw_client_added |-> r.fw_client_added,
               session_initialized |-> r.session_initialized,
               initial_commands_sent |-> r.initial_commands_sent]
      /\ r.mac \in Mac \cup {NoMac} /\ r.fw_client_added \in BOOLEAN
  BY DEF Peer
<1>2. DOMAIN r = {"mac", "slot", "handshake_done", "fw_client_added", "session_initialized",
                 "initial_commands_sent"}
  BY <1>1
<1>e. q = [r EXCEPT !.slot = s, !.handshake_done = TRUE,
                    !.session_initialized = @ \/ i, !.initial_commands_sent = @ \/ i]
  BY Zenon DEF DataEntry
<1> HIDE DEF q
<1>3. /\ q.mac = r.mac /\ q.slot = s /\ q.handshake_done = TRUE
      /\ q.fw_client_added = r.fw_client_added
  BY <1>2, <1>e, Zenon
<1>4. q.session_initialized \in BOOLEAN /\ q.initial_commands_sent \in BOOLEAN
  BY <1>2, <1>e, Zenon
<1>5. q = [mac |-> q.mac, slot |-> q.slot, handshake_done |-> q.handshake_done,
           fw_client_added |-> q.fw_client_added,
           session_initialized |-> q.session_initialized,
           initial_commands_sent |-> q.initial_commands_sent]
  BY <1>2, <1>e
<1> DEFINE Q == [mac |-> q.mac, slot |-> q.slot, handshake_done |-> q.handshake_done,
                 fw_client_added |-> q.fw_client_added,
                 session_initialized |-> q.session_initialized,
                 initial_commands_sent |-> q.initial_commands_sent]
<1>6. Q \in Peer
  BY <1>1, <1>3, <1>4, ZenonT(60) DEF Peer
<1>7. q \in Peer
  BY <1>5, <1>6, Zenon
<1> QED BY <1>3, <1>7 DEF q

LEMMA DataStep ==
  ASSUME IInv, NEW m \in Mac, NEW cmd \in Command, NEW type \in FrameType,
         NEW hid \in BOOLEAN, XboxData(m, cmd, type, hid)
  PROVE  IInv'
<1> DEFINE w == WcidOf(m)
           s == SlotOf(m)
           p == Remembered(m)
           first == ~p[w].handshake_done
           base == IF first THEN Connect(slots, s, hid) ELSE slots
           init == Initialises(cmd, type)
           greet == init /\ ~p[w].initial_commands_sent
           q == [p[w] EXCEPT !.slot = s,
                             !.handshake_done = TRUE,
                             !.session_initialized = @ \/ init,
                             !.initial_commands_sent = @ \/ init]
<1>1. /\ w \in Wcid /\ w \in 1 .. 255 /\ Register(m)
      /\ fwClients' = fwClients
  <2>1. w \in Wcid /\ w \in 1 .. 255
    BY RememberedEntry, Bounds, SMTT(60) DEF IInv
  <2>2. Register(m) /\ fwClients' = fwClients
    BY Zenon DEF XboxData
  <2> QED BY <2>1, <2>2
<1>2. p \in [Wcid -> Peer] /\ p[w].mac = m
  BY <1>1, Registered, RememberedEntry DEF IInv
<1>3. s \in Slot /\ s \in 0 .. 255
  BY SlotOfWcid, Bounds, ZenonT(60) DEF IInv, XboxData
<1>4. init \in BOOLEAN
  BY DEF Initialises
<1>5. /\ slots' = Dispatched(base, s, m, cmd, hid)
      /\ peers' = [p EXCEPT ![w] = q]
      /\ sent' = (IF first THEN ConnectEvents(slots, s) ELSE <<>>)
                   \o DispatchEvents(base, s, cmd)
      /\ hostSeq' = IF greet THEN NextSequence(NextSequence(NextSequence(hostSeq)))
                             ELSE hostSeq
      /\ tx' = (IF type = "ack" THEN {Frame("ack", m, w)} ELSE {})
                 \cup IF greet THEN {Frame("power_on", m, w), Frame("led", m, w),
                                     Frame("serial", m, w)}
                               ELSE {}
  BY Zenon DEF XboxData
<1>6. q \in Peer /\ q.mac = m /\ q.slot = s /\ q.handshake_done
  <2> HIDE DEF w, s, p, init
  <2>1. p[w] \in Peer /\ p[w].mac = m
    BY <1>1, <1>2
  <2>2. q = DataEntry(p[w], s, init)
    BY Zenon DEF DataEntry
  <2> HIDE DEF q
  <2>3. /\ DataEntry(p[w], s, init) \in Peer
        /\ DataEntry(p[w], s, init).mac = p[w].mac /\ DataEntry(p[w], s, init).slot = s
        /\ DataEntry(p[w], s, init).handshake_done = TRUE
    BY <1>3, <1>4, <2>1, DataEntryIsTyped, ZenonT(60)
  <2> QED
    BY <2>1, <2>2, <2>3, Zenon
<1>7. /\ base \in [Slot -> SlotRecord]
      /\ Allowed(slots, base, s, m)
  <2>1. slots \in [Slot -> SlotRecord] /\ Allowed(slots, slots, s, m)
    BY <1>3 DEF IInv, TypeOK, Allowed
  <2>2. Allowed(slots, Connect(slots, s, hid), s, m)
    BY <1>3, <2>1, ConnectAllowed
  <2> QED
    BY <2>1, <2>2 DEF Allowed
<1> HIDE DEF w, s, p, first, base, init, greet, q
<1>8. Allowed(slots, slots', s, m)
  <2>1. Allowed(base, slots', s, m)
    BY <1>3, <1>5, <1>7, DispatchedAllowed
  <2> QED
    BY <1>3, <1>7, <2>1, AllowedTwice
<1>9. /\ peers' \in [Wcid -> Peer]
      /\ \A v \in Wcid : peers'[v].mac = p[v].mac
  BY <1>1, <1>2, <1>5, <1>6
<1>10. OneWcidPerController' /\ nextWcid' \in Wcid /\ hwWcid' \in [Wcid -> Mac \cup {NoMac}]
  BY <1>1, <1>9, TableStep DEF p
<1>11. SlotHasOwner' /\ NoCrossTalk'
  BY <1>2, <1>3, <1>5, <1>6, <1>8, SlotStep DEF p, s, w
<1>12. sent' \in Seq(UdpEvent)
  <2>1. ConnectEvents(slots, s) \in Seq(UdpEvent)
    BY <1>3, SentEventTypes
  <2>2. DispatchEvents(base, s, cmd) \in Seq(UdpEvent)
    BY <1>3, SentEventTypes
  <2>3. (IF first THEN ConnectEvents(slots, s) ELSE <<>>) \in Seq(UdpEvent)
    BY <2>1
  <2> QED
    BY <1>5, <2>2, <2>3
<1>13. tx' \in SUBSET TxFrame
  <2>1. \A kind \in TxKind : Frame(kind, m, w) \in TxFrame
    BY <1>1, SentFrameType
  <2>2. {"ack", "power_on", "led", "serial"} \subseteq TxKind
    BY DEF TxKind
  <2> QED
    BY <1>5, <2>1, <2>2
<1>14. hostSeq' \in 0 .. 255
  <2>1. hostSeq \in 0 .. 255
    BY Zenon DEF IInv, TypeOK
  <2>2. NextSequence(NextSequence(NextSequence(hostSeq))) \in 0 .. 255
    BY <2>1, SequenceType, ZenonT(60)
  <2> QED
    BY <1>5, <2>1, <2>2
<1>15. TypeOK'
  BY <1>1, <1>8, <1>9, <1>10, <1>12, <1>13, <1>14 DEF IInv, TypeOK, Allowed
<1> QED
  BY <1>10, <1>11, <1>15 DEF IInv

LEMMA ClientLostStep ==
  ASSUME IInv, NEW w \in Wcid, ClientLost(w)
  PROVE  IInv'
<1> DEFINE s == w - 1
           m == peers[w].mac
<1>1. s \in Slot /\ s + 1 = w
  BY Bounds DEF ClientLost, Wcid, Slot
<1>2. m \in Mac
  BY DEF ClientLost, IInv, TypeOK, OneWcidPerController, Peer
<1>3. /\ UNCHANGED <<peers, nextWcid, hwWcid, fwClients, hostSeq>>
      /\ slots' = Disconnect(slots, s)
      /\ sent' = DisconnectEvents(slots, s)
      /\ tx' = {}
  BY DEF ClientLost
<1> HIDE DEF s, m
<1>4. Allowed(slots, slots', s, m) /\ ~slots'[s].active
  BY <1>1, <1>2, <1>3, DisconnectAllowed DEF IInv, TypeOK
<1>5. OneWcidPerController'
  BY <1>3 DEF IInv, OneWcidPerController
<1>6. SlotHasOwner'
  BY <1>1, <1>3, <1>4 DEF IInv, SlotHasOwner, Allowed
<1>7. NoCrossTalk'
  <2>1. SUFFICES ASSUME NEW t \in Slot
                 PROVE  slots'[t].last_report.pad \in {NoMac, peers[t + 1].mac}
    BY <1>3 DEF NoCrossTalk
  <2>2. slots[t].last_report.pad \in {NoMac, peers[t + 1].mac}
    BY DEF IInv, NoCrossTalk
  <2>3. CASE t = s
    BY <1>1, <1>4, <2>2, <2>3 DEF Allowed, m
  <2>4. CASE t # s
    BY <1>4, <2>2, <2>4 DEF Allowed
  <2> QED
    BY <2>3, <2>4
<1>8. sent' \in Seq(UdpEvent)
  BY <1>1, <1>3, SentEventTypes DEF Command
<1>9. TypeOK'
  BY <1>3, <1>4, <1>8 DEF IInv, TypeOK, Allowed
<1> QED
  BY <1>5, <1>6, <1>7, <1>9 DEF IInv

THEOREM Preserved == IInv /\ [Next]_vars => IInv'
<1>1. SUFFICES ASSUME IInv, [Next]_vars PROVE IInv'
  OBVIOUS
<1>2. ASSUME NEW m \in Mac, ProbeRequest(m) PROVE IInv'
  <2>1. tx' \in SUBSET TxFrame
    <3>1. WcidOf(m) \in 1 .. 255
      BY <1>1, RememberedEntry, Bounds DEF IInv
    <3>2. Frame("probe_response", m, WcidOf(m)) \in TxFrame
      BY <3>1, SentFrameType DEF TxKind
    <3>3. tx' = {Frame("probe_response", m, WcidOf(m))}
      BY <1>2, Zenon DEF ProbeRequest, Sends
    <3> QED
      BY <3>2, <3>3, Zenon
  <2> QED
    BY <1>1, <1>2, <2>1, RegisterOnlyStep DEF ProbeRequest
<1>3. ASSUME NEW m \in Mac, AuthRequest(m) PROVE IInv'
  <2>1. tx' \in SUBSET TxFrame
    <3>1. WcidOf(m) \in 1 .. 255
      BY <1>1, RememberedEntry, Bounds DEF IInv
    <3>2. Frame("auth_response", m, WcidOf(m)) \in TxFrame
      BY <3>1, SentFrameType DEF TxKind
    <3>3. tx' = {Frame("auth_response", m, WcidOf(m))}
      BY <1>3, Zenon DEF AuthRequest, Sends
    <3> QED
      BY <3>2, <3>3, Zenon
  <2> QED
    BY <1>1, <1>3, <2>1, RegisterOnlyStep DEF AuthRequest
<1>4. ASSUME NEW m \in Mac, AssocRequest(m) PROVE IInv'
  BY <1>1, <1>4, AssocStep
<1>5. ASSUME NEW m \in Mac, NEW hid \in HidOutcome, XboxAction(m, hid) PROVE IInv'
  <2>1. hid \in BOOLEAN
    BY DEF HidOutcome
  <2> QED
    BY <1>1, <1>5, <2>1, ActionStep
<1>6. ASSUME NEW m \in Mac, DataRefused(m) PROVE IInv'
  BY <1>1, <1>6, RegisterOnlyStep DEF DataRefused
<1>7. ASSUME NEW m \in Mac, NEW cmd \in Command, NEW type \in FrameType,
             NEW hid \in HidOutcome, XboxData(m, cmd, type, hid)
      PROVE  IInv'
  <2>1. hid \in BOOLEAN
    BY DEF HidOutcome
  <2> QED
    BY <1>1, <1>7, <2>1, DataStep
<1>8. ASSUME NEW w \in Wcid, ClientLost(w) PROVE IInv'
  BY <1>1, <1>8, ClientLostStep
<1>9. CASE UNCHANGED vars
  BY <1>1, <1>9 DEF vars, IInv, TypeOK, OneWcidPerController, SlotHasOwner, NoCrossTalk
<1> QED
  BY <1>1, <1>2, <1>3, <1>4, <1>5, <1>6, <1>7, <1>8, <1>9 DEF Next

(* IInv is an invariant: remember_peer, peer_slot and the handlers built   *)
(* on them keep WCIDs, slots and their owners in agreement.                *)
THEOREM Invariance == Spec => []IInv
<1>1. Init => IInv
  BY Initially
<1>2. IInv /\ [Next]_vars => IInv'
  BY Preserved
<1> QED
  BY <1>1, <1>2, PTL DEF Spec

(* Every variable of the daemon keeps to its type, whatever frames arrive. *)
THEOREM TypeCorrect == Spec => []TypeOK
<1>1. IInv => TypeOK
  BY DEF IInv
<1> QED
  BY <1>1, Invariance, PTL

(* remember_peer never gives a controller two WCIDs nor two controllers    *)
(* one, and the adapter's table never differs from the daemon's.           *)
THEOREM WcidsAreUnique == Spec => []OneWcidPerController
<1>1. IInv => OneWcidPerController
  BY DEF IInv
<1> QED
  BY <1>1, Invariance, PTL

(* A slot that is connected always belongs to a registered controller.     *)
THEOREM SlotsHaveOwners == Spec => []SlotHasOwner
<1>1. IInv => SlotHasOwner
  BY DEF IInv
<1> QED
  BY <1>1, Invariance, PTL

(* A slot never shows the input of a controller other than its own.        *)
THEOREM SlotsDoNotMix == Spec => []NoCrossTalk
<1>1. IInv => NoCrossTalk
  BY DEF IInv
<1> QED
  BY <1>1, Invariance, PTL

-----------------------------------------------------------------------------
(* Session implements ControllerSlots: a slot is bound to the controller   *)
(* whose peer entry has completed the handshake, for good, and every       *)
(* handler binds, raises or lowers one slot or none.                       *)

(* A handler that changes its sender's slot only raises or lowers it.      *)
LEMMA AllowedLive ==
  ASSUME NEW s \in Slot, NEW m \in Mac, Allowed(slots, slots', s, m)
  PROVE  Live' = Live \cup {s} \/ Live' = Live \ {s}
<1>1. \A t \in Slot : t # s => slots'[t].active = slots[t].active
  BY DEF Allowed
<1>2. CASE slots'[s].active
  BY <1>1, <1>2 DEF Live
<1>3. CASE ~slots'[s].active
  BY <1>1, <1>3 DEF Live
<1> QED
  BY <1>2, <1>3

(* remember_peer binds no slot and frees none.                             *)
LEMMA OwnerStays ==
  ASSUME IInv, NEW m \in Mac,
         \A w \in Wcid : /\ peers'[w].mac = Remembered(m)[w].mac
                         /\ peers'[w].handshake_done = Remembered(m)[w].handshake_done
  PROVE  Owner' = Owner
<1>1. SUFFICES ASSUME NEW s \in Slot
               PROVE  /\ peers'[s + 1].handshake_done = peers[s + 1].handshake_done
                      /\ peers[s + 1].handshake_done => peers'[s + 1].mac = peers[s + 1].mac
  <2>1. \A s \in Slot : s + 1 \in Wcid
    BY Bounds
  <2>2. \A w \in Wcid : peers[w].handshake_done \in BOOLEAN
    BY DEF IInv, TypeOK, Peer
  <2> QED
    BY DEF Owner
<1>2. s + 1 \in Wcid
  BY Bounds
<1>3. \/ Remembered(m)[s + 1] = peers[s + 1]
      \/ ~peers[s + 1].handshake_done /\ Remembered(m)[s + 1] = NewPeer(m)
  BY RememberedOwned DEF IInv
<1>4. NewPeer(m).handshake_done = FALSE
  BY DEF NewPeer
<1>5. peers[s + 1].handshake_done \in BOOLEAN
  BY <1>2 DEF IInv, TypeOK, Peer
<1> QED
  BY <1>2, <1>3, <1>4, <1>5

(* A handler that leaves handshakes and slots alone is a stuttering step.  *)
LEMMA Stutters ==
  ASSUME IInv, NEW m \in Mac, slots' = slots,
         \A w \in Wcid : /\ peers'[w].mac = Remembered(m)[w].mac
                         /\ peers'[w].handshake_done = Remembered(m)[w].handshake_done
  PROVE  UNCHANGED <<Owner, Live>>
BY OwnerStays DEF Live

(* A handler that completes its sender's handshake binds its slot, or      *)
(* finds it bound and raises or lowers it.                                 *)
LEMMA BindsOrMoves ==
  ASSUME IInv, NEW m \in Mac, SlotOf(m) \in Slot,
         Allowed(slots, slots', SlotOf(m), m),
         NEW q, q.mac = m, q.handshake_done = TRUE,
         peers' = [Remembered(m) EXCEPT ![WcidOf(m)] = q],
         Remembered(m) \in [Wcid -> Peer]
  PROVE  [CS!Next]_<<Owner, Live>>
<1> DEFINE w == WcidOf(m)
           s == SlotOf(m)
           p == Remembered(m)
<1>1. w \in Wcid /\ s \in Slot /\ s = w - 1 /\ s + 1 = w
  <2>1. w \in Wcid
    BY RememberedEntry DEF IInv
  <2>2. s # NoSlot
    BY Bounds
  <2>3. s = w - 1
    BY <2>2, SlotOfWcid DEF IInv
  <2> QED
    BY <2>1, <2>3, Bounds
<1>2. p[w].mac = m /\ m # NoMac
  BY RememberedEntry, SessionAssumption DEF IInv
<1>3. peers'[w] = q /\ \A v \in Wcid : v # w => peers'[v] = p[v]
  BY <1>1
<1>4. \A t \in Slot : /\ t + 1 \in Wcid /\ (t + 1 = w => t = s)
                      /\ peers[t + 1].handshake_done \in BOOLEAN
                      /\ peers[t + 1].mac \in Mac \cup {NoMac}
  <2>1. \A v \in Wcid : /\ peers[v].handshake_done \in BOOLEAN
                        /\ peers[v].mac \in Mac \cup {NoMac}
    BY DEF IInv, TypeOK, Peer
  <2>2. \A t \in Slot : t \in Nat /\ t + 1 - 1 = t /\ t + 1 \in Wcid
    BY Bounds
  <2>3. w - 1 = s
    BY <1>1
  <2> HIDE DEF w, s
  <2> QED
    BY <2>1, <2>2, <2>3
<1>5. \A t \in Slot : \/ p[t + 1] = peers[t + 1]
                      \/ ~peers[t + 1].handshake_done /\ p[t + 1] = NewPeer(m)
  BY RememberedOwned DEF IInv
<1>6. Live' = Live \cup {s} \/ Live' = Live \ {s}
  BY <1>1, AllowedLive
<1>7. NewPeer(m).handshake_done = FALSE
  BY DEF NewPeer
<1>8. \A t \in Slot : t # s => Owner'[t] = Owner[t]
  <2>1. SUFFICES ASSUME NEW t \in Slot, t # s PROVE Owner'[t] = Owner[t]
    OBVIOUS
  <2>2. peers'[t + 1] = p[t + 1]
    BY <1>3, <1>4, <2>1
  <2> QED
    BY <1>4, <1>5, <1>7, <2>2 DEF Owner
<1>9. Owner'[s] = m
  BY <1>1, <1>3 DEF Owner
<1> HIDE DEF w, s, p
<1>10. CASE peers[w].handshake_done
  <2>1. Owner[s] = m
    <3>1. p[w] = peers[w]
      BY <1>1, <1>5, <1>10
    <3> QED
      BY <1>1, <1>2, <1>10, <3>1 DEF Owner
  <2>2. Owner' = Owner
    BY <1>8, <1>9, <2>1 DEF Owner
  <2>3. CS!Up(s) \/ CS!Down(s)
    BY <1>2, <1>6, <2>1, <2>2 DEF CS!Up, CS!Down
  <2> QED
    BY <1>1, <2>3 DEF CS!Next
<1>11. CASE ~peers[w].handshake_done
  <2>1. Owner[s] = NoMac
    BY <1>1, <1>11 DEF Owner
  <2>2. \A t \in Slot : Owner[t] # m
    <3>1. SUFFICES ASSUME NEW t \in Slot, Owner[t] = m PROVE FALSE
      OBVIOUS
    <3>2. peers[t + 1].handshake_done /\ peers[t + 1].mac = m
      BY <1>2, <3>1 DEF Owner
    <3>3. w = t + 1
      <4>1. Known(m)
        BY <1>4, <3>2 DEF Known
      <4>2. peers[w].mac = m
        BY <4>1, KnownWcid DEF w, IInv
      <4> QED
        BY <1>1, <1>2, <1>4, <3>2, <4>2 DEF IInv, OneWcidPerController
    <3> QED
      BY <1>11, <3>2, <3>3
  <2>3. Owner' = [Owner EXCEPT ![s] = m]
    <3>1. Owner \in [Slot -> Mac \cup {NoMac}] /\ DOMAIN Owner' = Slot
      BY <1>4 DEF Owner
    <3>2. Owner' = [t \in Slot |-> Owner'[t]]
      BY DEF Owner
    <3> QED
      BY <1>1, <1>8, <1>9, <3>1, <3>2
  <2>4. Live' \in {Live, Live \cup {s}}
    <3>1. s \notin Live
      BY <1>1, <1>11 DEF Live, IInv, SlotHasOwner
    <3> QED
      BY <1>6, <3>1
  <2>5. CS!Bind(s, m)
    BY <2>1, <2>2, <2>3, <2>4 DEF CS!Bind
  <2> QED
    BY <1>1, <2>5 DEF CS!Next
<1> QED
  BY <1>10, <1>11

-----------------------------------------------------------------------------
(* Every step of the daemon is a step of the abstract slots or none.       *)
LEMMA StepImplements ==
  ASSUME IInv, [Next]_vars
  PROVE  [CS!Next]_<<Owner, Live>>
<1>1. ASSUME NEW m \in Mac, ProbeRequest(m) \/ AuthRequest(m) \/ DataRefused(m)
      PROVE  UNCHANGED <<Owner, Live>>
  BY <1>1, Stutters DEF ProbeRequest, AuthRequest, DataRefused
<1>2. ASSUME NEW m \in Mac, AssocRequest(m)
      PROVE  UNCHANGED <<Owner, Live>>
  <2> DEFINE w == WcidOf(m)
             p == Remembered(m)
  <2>1. /\ peers' \in {p, [p EXCEPT ![w].fw_client_added = TRUE]}
        /\ slots' = slots
    BY <1>2 DEF AssocRequest
  <2>2. w \in Wcid /\ p \in [Wcid -> Peer]
    BY <1>2, RememberedEntry, Registered DEF IInv, AssocRequest
  <2> HIDE DEF w, p
  <2>3. \A v \in Wcid : /\ peers'[v].mac = p[v].mac
                        /\ peers'[v].handshake_done = p[v].handshake_done
    BY <2>1, <2>2 DEF Peer
  <2> QED
    BY <2>1, <2>3, Stutters DEF p
<1>3. ASSUME NEW m \in Mac, NEW hid \in BOOLEAN, XboxAction(m, hid)
      PROVE  [CS!Next]_<<Owner, Live>>
  <2> DEFINE w == WcidOf(m)
             s == SlotOf(m)
             p == Remembered(m)
  <2>1. w \in Wcid /\ p \in [Wcid -> Peer] /\ p[w].mac = m
    BY <1>3, RememberedEntry, Registered DEF IInv, XboxAction
  <2>2. CASE s = NoSlot
    <3>1. peers' = p /\ slots' = slots
      BY <1>3, <2>2 DEF XboxAction
    <3> QED
      BY <3>1, Stutters
  <2>3. CASE s # NoSlot
    <3>1. s \in Slot
      BY <2>3, SlotOfWcid DEF IInv
    <3> DEFINE q == IF p[w].handshake_done THEN [p[w] EXCEPT !.slot = s]
                    ELSE [p[w] EXCEPT !.slot = s, !.handshake_done = TRUE]
    <3>2. q.mac = m /\ q.handshake_done = TRUE
      <4>1. p[w] \in Peer /\ p[w].mac = m
        BY <2>1
      <4>2. CASE p[w].handshake_done
        BY <4>1, <4>2 DEF Peer
      <4>3. CASE ~p[w].handshake_done
        BY <4>1, <4>3 DEF Peer
      <4> QED
        BY <4>2, <4>3
    <3>3. Allowed(slots, slots, s, m) /\ Allowed(slots, Connect(slots, s, hid), s, m)
      BY <3>1, ConnectAllowed DEF IInv, TypeOK, Allowed
    <3>4. peers' = [p EXCEPT ![w] = q] /\ Allowed(slots, slots', s, m)
      BY <1>3, <2>3, <3>3 DEF XboxAction
    <3> HIDE DEF w, s, p, q
    <3> QED
      BY <2>1, <3>1, <3>2, <3>4, BindsOrMoves DEF w, s, p
  <2> QED
    BY <2>2, <2>3
<1>4. ASSUME NEW m \in Mac, NEW cmd \in Command, NEW type \in FrameType,
             NEW hid \in BOOLEAN, XboxData(m, cmd, type, hid)
      PROVE  [CS!Next]_<<Owner, Live>>
  <2> DEFINE w == WcidOf(m)
             s == SlotOf(m)
             p == Remembered(m)
             first == ~p[w].handshake_done
             base == IF first THEN Connect(slots, s, hid) ELSE slots
             q == [p[w] EXCEPT !.slot = s,
                               !.handshake_done = TRUE,
                               !.session_initialized = @ \/ Initialises(cmd, type),
                               !.initial_commands_sent = @ \/ Initialises(cmd, type)]
  <2>1. w \in Wcid /\ p \in [Wcid -> Peer] /\ p[w].mac = m
    BY <1>4, RememberedEntry, Registered DEF IInv, XboxData
  <2>2. s \in Slot
    BY <1>4, SlotOfWcid DEF IInv, XboxData
  <2>3. peers' = [p EXCEPT ![w] = q] /\ slots' = Dispatched(base, s, m, cmd, hid)
    BY <1>4 DEF XboxData
  <2>4. Allowed(slots, base, s, m) /\ base \in [Slot -> SlotRecord]
    BY <2>2, ConnectAllowed DEF IInv, TypeOK, Allowed
  <2> HIDE DEF w, s, p, first, base
  <2>5. q.mac = m /\ q.handshake_done = TRUE
    <3>1. p[w] \in Peer /\ p[w].mac = m
      BY <2>1
    <3> QED
      BY <3>1 DEF Peer
  <2> HIDE DEF q
  <2>6. Allowed(slots, slots', s, m)
    <3>1. Allowed(base, slots', s, m)
      BY <2>2, <2>3, <2>4, DispatchedAllowed
    <3> QED
      BY <2>2, <2>4, <3>1, AllowedTwice
  <2> QED
    BY <2>1, <2>2, <2>3, <2>5, <2>6, BindsOrMoves DEF w, s, p
<1>5. ASSUME NEW w \in Wcid, ClientLost(w)
      PROVE  [CS!Next]_<<Owner, Live>>
  <2> DEFINE s == w - 1
  <2>1. s \in Slot /\ peers[w].mac \in Mac
    BY <1>5, Bounds DEF ClientLost, Slot, Wcid, IInv, TypeOK, OneWcidPerController, Peer
  <2>2. peers' = peers /\ slots' = Disconnect(slots, s)
    BY <1>5 DEF ClientLost
  <2> HIDE DEF s
  <2>3. Allowed(slots, slots', s, peers[w].mac) /\ ~slots'[s].active
    BY <2>1, <2>2, DisconnectAllowed DEF IInv, TypeOK
  <2>4. Live' = Live \ {s}
    BY <2>1, <2>3 DEF Live, Allowed
  <2>5. Owner' = Owner
    BY <2>2 DEF Owner
  <2>6. CS!Down(s)
    BY <2>4, <2>5 DEF CS!Down
  <2> QED
    BY <2>1, <2>6 DEF CS!Next
<1>6. CASE UNCHANGED vars
  BY <1>6 DEF vars, Owner, Live
<1>7. HidOutcome \subseteq BOOLEAN
  BY DEF HidOutcome
<1> QED
  BY <1>1, <1>2, <1>3, <1>4, <1>5, <1>6, <1>7 DEF Next

(* The daemon implements the abstract slots: a slot bound to a controller  *)
(* stays its own, and only bound slots are connected.                      *)
THEOREM Refinement == Spec => ImplementsControllerSlots
<1>1. Init => CS!Init
  BY Bounds DEF Init, CS!Init, Owner, Live, NewPeer, EmptySlot
<1>2. IInv /\ [Next]_vars => [CS!Next]_<<Owner, Live>>
  BY StepImplements
<1> QED
  BY <1>1, <1>2, Invariance, PTL DEF Spec, ImplementsControllerSlots, CS!Spec, CS!vars
=============================================================================
