------------------------------ MODULE Session ------------------------------
(***************************************************************************)
(* The controller sessions of xbox_daemon.c: the table of radio peers and  *)
(* their WCIDs, the slots, and every handler of a received frame that      *)
(* touches them.  One reader thread runs the handlers, one frame at a      *)
(* time, so that a handler is one step; Radio models what the handlers do  *)
(* to the pairing beacon and its channel, beside the main loop.            *)
(***************************************************************************)
EXTENDS Integers, Sequences, FiniteSets

CONSTANTS
  Mac,              \* addresses that may send frames to the dongle
  NoMac,            \* an entry of a table that holds no address
  NPeers,           \* entries of g_peers, entry 0 unused
  MaxSlots,         \* MAX_SLOTS
  HidSupported,     \* probe_hid_support found virtual devices available
  HandleClientLost  \* XBOX_CLIENT_LOST_EVENTS

ASSUME SessionAssumption ==
  /\ NoMac \notin Mac
  /\ MaxSlots \in Nat \ {0}
  /\ NPeers \in Nat
  /\ MaxSlots + 1 < NPeers     \* the last WCID is beyond the slots
  /\ NPeers <= 255             \* WCIDs are bytes, 255 is the broadcast one
  /\ HidSupported \in BOOLEAN
  /\ HandleClientLost \in BOOLEAN

Wcid      == 1 .. NPeers - 1
Slot      == 0 .. MaxSlots - 1
NoSlot    == 255   \* UINT8_MAX
Broadcast == 255   \* the WCID of frames to peers that have none

VARIABLES
  peers,      \* g_peers: what the daemon knows of each WCID
  nextWcid,   \* g_next_wcid
  hwWcid,     \* the adapter's own WCID table
  fwClients,  \* the WCIDs the firmware was told of
  slots,      \* g_slots
  hostSeq,    \* g_host_seq
  sent,       \* the UDP events of the last handler, in order
  tx          \* the frames the last handler transmitted

vars == <<peers, nextWcid, hwWcid, fwClients, slots, hostSeq, sent, tx>>

-----------------------------------------------------------------------------
(* The peer table.  An entry is active when it holds an address.           *)

NewPeer(m) ==
  [mac |-> m, slot |-> NoSlot, handshake_done |-> FALSE, fw_client_added |-> FALSE,
   session_initialized |-> FALSE, initial_commands_sent |-> FALSE]

Known(m) == \E w \in Wcid : peers[w].mac = m

\* mutant: registers an address again
CanRegisterAgain(m) == nextWcid < NPeers

CanRegister(m) == ~Known(m) /\ nextWcid < NPeers

\* the WCID remember_peer answers with, Broadcast when it returns NULL
WcidOf(m) ==
  IF Known(m)
  THEN CHOOSE w \in Wcid : peers[w].mac = m /\ \A v \in 1 .. w - 1 : peers[v].mac # m
  ELSE IF nextWcid < NPeers THEN nextWcid ELSE Broadcast

\* g_peers after remember_peer
Remembered(m) ==
  IF CanRegister(m) THEN [peers EXCEPT ![nextWcid] = NewPeer(m)] ELSE peers

\* mutants: the counter runs past the table, stops at the slots; the adapter
\* is not told
RegisterUnbounded(m) ==
  /\ nextWcid' = IF CanRegister(m) THEN nextWcid + 1 ELSE nextWcid
  /\ hwWcid' = IF CanRegister(m) THEN [hwWcid EXCEPT ![nextWcid] = m] ELSE hwWcid

RegisterWithinSlots(m) ==
  /\ nextWcid' = IF CanRegister(m) /\ nextWcid < MaxSlots THEN nextWcid + 1 ELSE nextWcid
  /\ hwWcid' = IF CanRegister(m) THEN [hwWcid EXCEPT ![nextWcid] = m] ELSE hwWcid

RegisterSilently(m) ==
  /\ nextWcid' = IF CanRegister(m) /\ nextWcid < NPeers - 1 THEN nextWcid + 1 ELSE nextWcid
  /\ UNCHANGED hwWcid

\* the rest of remember_peer: the counter stops at the last WCID
Register(m) ==
  /\ nextWcid' = IF CanRegister(m) /\ nextWcid < NPeers - 1 THEN nextWcid + 1 ELSE nextWcid
  /\ hwWcid' = IF CanRegister(m) THEN [hwWcid EXCEPT ![nextWcid] = m] ELSE hwWcid

\* mutants: the WCID itself is the slot; WCIDs beyond the slots wrap around
SlotIsWcid(m) == IF WcidOf(m) < MaxSlots THEN WcidOf(m) ELSE NoSlot

SlotWraps(m) ==
  IF WcidOf(m) = Broadcast THEN NoSlot ELSE (WcidOf(m) - 1) % MaxSlots

\* peer_slot, applied to the peer remember_peer answers with
SlotOf(m) ==
  LET w == WcidOf(m)
  IN  IF w = Broadcast THEN NoSlot
      ELSE IF Remembered(m)[w].slot < MaxSlots THEN Remembered(m)[w].slot
      ELSE IF w - 1 < MaxSlots THEN w - 1 ELSE NoSlot

-----------------------------------------------------------------------------
(* The slots.  A report is abstracted to the controller whose input it     *)
(* shows and its guide bit; a device is present or not.                    *)

EmptySlot ==
  [active |-> FALSE, guide_pressed |-> FALSE, hid_device |-> FALSE,
   last_report |-> [pad |-> NoMac, guide |-> FALSE]]

\* create_virtual_gamepad may fail even where devices are available
HidOutcome == IF HidSupported THEN BOOLEAN ELSE {FALSE}

Connect(sl, s, hid) ==
  IF sl[s].active THEN sl
  ELSE [sl EXCEPT ![s] = [@ EXCEPT !.active = TRUE, !.hid_device = hid]]

\* mutant: the device is not released
DisconnectKeepsDevice(sl, s) ==
  IF sl[s].active THEN [sl EXCEPT ![s] = [EmptySlot EXCEPT !.hid_device = sl[s].hid_device]]
  ELSE sl

Disconnect(sl, s) ==
  IF sl[s].active THEN [sl EXCEPT ![s] = EmptySlot] ELSE sl

\* mutant: the report is built without the guide button
InputDropsGuide(sl, s, m) ==
  IF sl[s].active
  THEN [sl EXCEPT ![s] = [@ EXCEPT !.last_report = [pad |-> m, guide |-> FALSE]]]
  ELSE sl

Input(sl, s, m) ==
  IF sl[s].active
  THEN [sl EXCEPT ![s] = [@ EXCEPT !.last_report = [pad |-> m, guide |-> sl[s].guide_pressed]]]
  ELSE sl

Guide(sl, s, pressed) ==
  [sl EXCEPT ![s] = [@ EXCEPT !.guide_pressed = pressed, !.last_report.guide = pressed]]

Event(type, s) == <<[type |-> type, slot |-> s]>>

\* mutant: a connect is reported for a slot that is up already
ConnectEventsAlways(sl, s) == Event("connected", s)

ConnectEvents(sl, s)    == IF sl[s].active THEN <<>> ELSE Event("connected", s)
DisconnectEvents(sl, s) == IF sl[s].active THEN Event("disconnected", s) ELSE <<>>
InputEvents(sl, s)      == IF sl[s].active THEN Event("input", s) ELSE <<>>

-----------------------------------------------------------------------------
(* Frames.  Command is what dispatch_wlan_gip tells apart: "short_input"   *)
(* has fewer than 14 bytes, "other" is every command it ignores.  The type *)
(* nibble is exactly REQUEST (of device 0), has the ACK flag, or neither.  *)

Command == {"ctrl_added", "ctrl_lost", "announce", "input", "short_input",
            "guide_down", "guide_up", "other"}
FrameType == {"request", "ack", "plain"}

\* dispatch_wlan_gip on the slots, and the events it sends
Dispatched(sl, s, m, cmd, hid) ==
  CASE cmd = "ctrl_added" -> Connect(sl, s, hid)
    [] cmd = "ctrl_lost"  -> Disconnect(sl, s)
    [] cmd = "input"      -> Input(sl, s, m)
    [] cmd = "guide_down" -> Guide(sl, s, TRUE)
    [] cmd = "guide_up"   -> Guide(sl, s, FALSE)
    [] OTHER              -> sl

DispatchEvents(sl, s, cmd) ==
  CASE cmd = "ctrl_added" -> ConnectEvents(sl, s)
    [] cmd = "ctrl_lost"  -> DisconnectEvents(sl, s)
    [] cmd = "input"      -> InputEvents(sl, s)
    [] cmd \in {"guide_down", "guide_up"} -> Event("guide", s)
    [] OTHER              -> <<>>

Initialises(cmd, type) == cmd = "announce" /\ type = "request"

\* gip_next_sequence: a byte that skips 0
NextSequence(q) == IF q = 255 THEN 1 ELSE q + 1

Frame(kind, m, w) == [kind |-> kind, to |-> m, wcid |-> w]

Sends(kind, m) == tx' = {Frame(kind, m, WcidOf(m))}

-----------------------------------------------------------------------------
Init ==
  /\ peers = [w \in Wcid |-> NewPeer(NoMac)]
  /\ nextWcid = 1
  /\ hwWcid = [w \in Wcid |-> NoMac]
  /\ fwClients = {}
  /\ slots = [s \in Slot |-> EmptySlot]
  /\ hostSeq = 0
  /\ sent = <<>>
  /\ tx = {}

\* a directed probe request without an SSID; any other probe is not answered
ProbeRequest(m) ==
  /\ peers' = Remembered(m)
  /\ Register(m)
  /\ Sends("probe_response", m)
  /\ sent' = <<>>
  /\ UNCHANGED <<fwClients, slots, hostSeq>>

AuthRequest(m) ==
  /\ peers' = Remembered(m)
  /\ Register(m)
  /\ Sends("auth_response", m)
  /\ sent' = <<>>
  /\ UNCHANGED <<fwClients, slots, hostSeq>>

\* an association or reassociation request: an initialised peer is left alone
AssocRequest(m) ==
  /\ ~(Known(m) /\ peers[WcidOf(m)].session_initialized)
  /\ Register(m)
  /\ LET w == WcidOf(m)
         tell == w # Broadcast /\ ~Remembered(m)[w].fw_client_added
     IN  /\ peers' = IF tell THEN [Remembered(m) EXCEPT ![w].fw_client_added = TRUE]
                             ELSE Remembered(m)
         /\ fwClients' = IF tell THEN fwClients \cup {w} ELSE fwClients
         /\ tx' = {Frame("assoc_response", m, Broadcast)}
                    \cup IF tell THEN {Frame("client_add", m, w)} ELSE {}
  /\ sent' = <<>>
  /\ UNCHANGED <<slots, hostSeq>>

\* on_xbox_action: the vendor handshake, answered once per peer
XboxAction(m, hid) ==
  /\ Register(m)
  /\ LET w == WcidOf(m)
         s == SlotOf(m)
         p == Remembered(m)
     IN  IF s = NoSlot
         THEN /\ peers' = p
              /\ sent' = <<>> /\ tx' = {}
              /\ UNCHANGED slots
         ELSE IF p[w].handshake_done
         THEN /\ peers' = [p EXCEPT ![w].slot = s]
              /\ sent' = <<>> /\ tx' = {}
              /\ UNCHANGED slots
         ELSE /\ peers' = [p EXCEPT ![w] = [@ EXCEPT !.slot = s, !.handshake_done = TRUE]]
              /\ slots' = Connect(slots, s, hid)
              /\ sent' = ConnectEvents(slots, s)
              /\ Sends("action_response", m)
  /\ UNCHANGED <<fwClients, hostSeq>>

\* on_xbox_data for a peer beyond the slots: registered, then refused
DataRefused(m) ==
  /\ SlotOf(m) = NoSlot
  /\ peers' = Remembered(m)
  /\ Register(m)
  /\ sent' = <<>> /\ tx' = {}
  /\ UNCHANGED <<fwClients, slots, hostSeq>>

\* on_xbox_data: the first data frame connects the slot, then the GIP frame
\* is acknowledged if it asks for it and dispatched
XboxData(m, cmd, type, hid) ==
  /\ SlotOf(m) # NoSlot
  /\ Register(m)
  /\ LET w == WcidOf(m)
         s == SlotOf(m)
         p == Remembered(m)[w]
         first == ~p.handshake_done
         base == IF first THEN Connect(slots, s, hid) ELSE slots
         greet == Initialises(cmd, type) /\ ~p.initial_commands_sent
     IN  /\ slots' = Dispatched(base, s, m, cmd, hid)
         /\ sent' = (IF first THEN ConnectEvents(slots, s) ELSE <<>>)
                      \o DispatchEvents(base, s, cmd)
         /\ peers' = [Remembered(m) EXCEPT ![w] =
                        [p EXCEPT !.slot = s,
                                  !.handshake_done = TRUE,
                                  !.session_initialized = @ \/ Initialises(cmd, type),
                                  !.initial_commands_sent = @ \/ Initialises(cmd, type)]]
         /\ hostSeq' = IF greet THEN NextSequence(NextSequence(NextSequence(hostSeq)))
                                ELSE hostSeq
         /\ tx' = (IF type = "ack" THEN {Frame("ack", m, w)} ELSE {})
                    \cup IF greet THEN {Frame("power_on", m, w), Frame("led", m, w),
                                        Frame("serial", m, w)}
                                  ELSE {}
  /\ UNCHANGED fwClients

\* mutant: a lost controller is to be greeted again
ClientLostForgetsGreeting(w) ==
  /\ HandleClientLost
  /\ hwWcid[w] # NoMac
  /\ w < MaxSlots + 1
  /\ slots' = Disconnect(slots, w - 1)
  /\ sent' = DisconnectEvents(slots, w - 1)
  /\ tx' = {}
  /\ peers' = [peers EXCEPT ![w].initial_commands_sent = FALSE]
  /\ UNCHANGED <<nextWcid, hwWcid, fwClients, hostSeq>>

\* EVT_CLIENT_LOST names a WCID of the adapter's table, not a peer
ClientLost(w) ==
  /\ HandleClientLost
  /\ hwWcid[w] # NoMac
  /\ w < MaxSlots + 1
  /\ slots' = Disconnect(slots, w - 1)
  /\ sent' = DisconnectEvents(slots, w - 1)
  /\ tx' = {}
  /\ UNCHANGED <<peers, nextWcid, hwWcid, fwClients, hostSeq>>

Next ==
  \/ \E m \in Mac :
       \/ ProbeRequest(m)
       \/ AuthRequest(m)
       \/ AssocRequest(m)
       \/ \E hid \in HidOutcome : XboxAction(m, hid)
       \/ DataRefused(m)
       \/ \E cmd \in Command, type \in FrameType, hid \in HidOutcome :
            XboxData(m, cmd, type, hid)
  \/ \E w \in Wcid : ClientLost(w)

Spec == Init /\ [][Next]_vars

-----------------------------------------------------------------------------
Peer ==
  [mac : Mac \cup {NoMac}, slot : 0 .. 255, handshake_done : BOOLEAN,
   fw_client_added : BOOLEAN, session_initialized : BOOLEAN,
   initial_commands_sent : BOOLEAN]

Report == [pad : Mac \cup {NoMac}, guide : BOOLEAN]

SlotRecord ==
  [active : BOOLEAN, guide_pressed : BOOLEAN, hid_device : BOOLEAN, last_report : Report]

UdpEvent == [type : {"connected", "disconnected", "input", "guide"}, slot : Slot]

TxFrame ==
  [kind : {"probe_response", "auth_response", "assoc_response", "client_add",
           "action_response", "ack", "power_on", "led", "serial"},
   to : Mac, wcid : 1 .. 255]

(* Every variable holds a value its C type and its writers allow.          *)
TypeOK ==
  /\ peers \in [Wcid -> Peer]
  /\ nextWcid \in Wcid
  /\ hwWcid \in [Wcid -> Mac \cup {NoMac}]
  /\ fwClients \in SUBSET Wcid
  /\ slots \in [Slot -> SlotRecord]
  /\ hostSeq \in 0 .. 255
  /\ sent \in Seq(UdpEvent)
  /\ tx \in SUBSET TxFrame

-----------------------------------------------------------------------------
(* Safety                                                                  *)

(* remember_peer gives a controller one WCID and no WCID to two of them:   *)
(* WCIDs are handed out in order and the adapter's table says the same as  *)
(* the daemon's.  Everything the daemon transmits and everything it        *)
(* attributes to a slot depends on it.                                     *)
OneWcidPerController ==
  /\ \A v, w \in Wcid : peers[v].mac # NoMac /\ peers[v].mac = peers[w].mac => v = w
  /\ \A w \in Wcid : peers[w].mac # NoMac => w < nextWcid \/ w = NPeers - 1
  /\ \A w \in Wcid : w < nextWcid => peers[w].mac # NoMac
  /\ \A w \in Wcid : hwWcid[w] = peers[w].mac

(* A peer that has completed the handshake holds the slot of its WCID, and *)
(* a slot that is connected belongs to such a peer: no order of frames,    *)
(* lost clients and exhausted WCIDs leaves a slot without its controller.  *)
SlotHasOwner ==
  /\ \A w \in Wcid : peers[w].handshake_done => peers[w].slot # NoSlot
  /\ \A w \in Wcid : peers[w].slot # NoSlot =>
       peers[w].mac # NoMac /\ peers[w].slot \in Slot /\ peers[w].slot = w - 1
  /\ \A s \in Slot : slots[s].active => peers[s + 1].handshake_done

(* A virtual gamepad exists only while its slot is connected: on_connect   *)
(* creates none over another, on_disconnect leaves none behind.            *)
DeviceOnlyWhileConnected ==
  \A s \in Slot : slots[s].hid_device => slots[s].active

(* The report of a slot never shows the input of another controller, even  *)
(* after WCIDs have run out and the slot has been lost and reconnected.    *)
NoCrossTalk ==
  \A s \in Slot : slots[s].last_report.pad \in {NoMac, peers[s + 1].mac}

(* on_guide and gip_to_hid write the guide bit from two places; no order   *)
(* of guide events, inputs, losses and reconnections makes them disagree.  *)
GuideBitAgrees ==
  \A s \in Slot : slots[s].last_report.guide = slots[s].guide_pressed

(* Each controller is greeted once (power on, LED, serial request), with   *)
(* three sequence numbers that no other greeting uses: g_host_seq counts   *)
(* them and never wraps.                                                   *)
GreetedOnce ==
  hostSeq = 3 * Cardinality({w \in Wcid : peers[w].initial_commands_sent})

(* A frame addressed through a WCID goes out on the WCID the adapter holds *)
(* for its destination.                                                    *)
TxReachesItsPeer ==
  \A f \in tx : f.wcid # Broadcast => hwWcid[f.wcid] = f.to

-----------------------------------------------------------------------------
(* The event stream                                                        *)

Live == {s \in Slot : slots[s].active}

After(up, e) ==
  CASE e.type = "connected"    -> up \cup {e.slot}
    [] e.type = "disconnected" -> up \ {e.slot}
    [] OTHER                   -> up

\* a connect of a slot that is up, a disconnect or an input of one that is
\* not, would mislead a consumer
Sound(up, e) ==
  /\ e.type = "connected" => e.slot \notin up
  /\ e.type \in {"disconnected", "input"} => e.slot \in up

\* what a consumer that applies the events in order believes: a handler
\* sends at most two
Replayed(up, ev) ==
  CASE Len(ev) = 0 -> up
    [] Len(ev) = 1 -> After(up, ev[1])
    [] OTHER       -> After(After(up, ev[1]), ev[2])

(* A consumer that applies every event in order knows exactly which slots  *)
(* are connected, and is never told of the input of a slot it takes to be  *)
(* unplugged: the two places that connect a slot and the two that          *)
(* disconnect it report each change once.                                  *)
StreamTellsTruth ==
  [][/\ Len(sent') <= 2
     /\ Live' = Replayed(Live, sent')
     /\ Len(sent') >= 1 => Sound(Live, sent'[1])
     /\ Len(sent') = 2 => Sound(After(Live, sent'[1]), sent'[2])]_vars

-----------------------------------------------------------------------------
(* Refinement                                                              *)

Owner == [s \in Slot |-> IF peers[s + 1].handshake_done THEN peers[s + 1].mac ELSE NoMac]

CS == INSTANCE ControllerSlots WITH owner <- Owner, live <- Live

(* The daemon implements the abstract slots: a slot bound to a controller  *)
(* is never bound to another one, nor the controller to another slot.      *)
ImplementsControllerSlots == CS!Spec

-----------------------------------------------------------------------------
(* Statements of the documentation that the code does not keep             *)

(* A client-lost event opens a "reconnect window": a lost controller that  *)
(* comes back and announces itself is connected again.                     *)
ReturningControllerIsConnected ==
  [][\A m \in Mac, hid \in HidOutcome :
       XboxData(m, "announce", "request", hid) => slots'[SlotOf(m)].active]_vars

=============================================================================
