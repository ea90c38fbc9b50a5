----------------------------- MODULE HidBridge -----------------------------
(***************************************************************************)
(* xbox_hid_bridge.c: a process without privileges that makes a virtual    *)
(* HID gamepad for each slot from the daemon's events, where the daemon,   *)
(* running as root, may not.                                               *)
(***************************************************************************)
EXTENDS EventStream

CONSTANT NoDevice   \* no gamepad, not a report

VARIABLE bridge   \* g_slots of the bridge; device: what its gamepad was last sent

bridgeVars == <<bridge>>

EmptyGamepad ==
  [active |-> FALSE, guide_pressed |-> FALSE, last_report |-> ZeroReport, device |-> NoDevice]

Posted(b) == [b EXCEPT !.device = b.last_report]

\* handle_connected: creating the gamepad may fail, with either descriptor
BridgeConnected(b, created) ==
  IF b.active \/ ~created THEN b
  ELSE Posted([EmptyGamepad EXCEPT !.active = TRUE, !.last_report.hat = 8])

BridgeDisconnected(b) == IF b.active THEN EmptyGamepad ELSE b

\* mutant: the button comes with the next input only
BridgeGuideLater(b, pressed) ==
  IF ~b.active THEN b ELSE [b EXCEPT !.guide_pressed = pressed]

BridgeGuide(b, pressed) ==
  IF ~b.active THEN b
  ELSE Posted([b EXCEPT !.guide_pressed = pressed, !.last_report = WithGuide(@, pressed)])

BridgeInput(b, g) ==
  IF ~b.active THEN b
  ELSE Posted([b EXCEPT !.last_report = GipToHid(g, b.guide_pressed)])

HandleEventLine(e, created) ==
  bridge' = [bridge EXCEPT ![e.slot] =
    CASE e.type = "connected"    -> BridgeConnected(@, created)
      [] e.type = "disconnected" -> BridgeDisconnected(@)
      [] e.type = "guide"        -> BridgeGuide(@, e.pressed)
      [] e.type = "input"        -> BridgeInput(@, e.gip)]

\* the event would change a gamepad that could not be created, or is not there
BridgeRefused(e, created) ==
  /\ ~bridge[e.slot].active
  /\ \/ e.type = "connected" /\ ~created
     \/ e.type = "guide"

BridgeStopped == bridge = [s \in Slot |-> EmptyGamepad]
=============================================================================
