----------------------------- MODULE Injector ------------------------------
(***************************************************************************)
(* The library that is injected into the game (ryujinx_sdl_inject.c).  Its *)
(* thread reads the daemon's events and keeps a virtual SDL joystick for   *)
(* each connected slot.  SDL is external: an attached joystick is named by *)
(* its position among the devices in SDL2, by an id of its own in SDL3.    *)
(***************************************************************************)
EXTENDS EventStream, FiniteSets, SequencesExt

CONSTANTS
  MaxJoys,   \* virtual joysticks SDL takes
  StickGain, Deadzone, SwapLr, SwapSticks, XoneLayout   \* XBOX_INJECT_...

ASSUME InjectorAssumption ==
  /\ MaxJoys \in Nat \ {0}
  /\ StickGain \in Nat \ {0} /\ StickGain <= 64
  /\ Deadzone \in Nat /\ Deadzone <= 12000
  /\ SwapLr \in BOOLEAN /\ SwapSticks \in BOOLEAN /\ XoneLayout \in BOOLEAN

VARIABLES
  inj,    \* g_slots of the injector
  sdl     \* symbols: what the game has loaded; api: g_sdl.api_version, 0 until
          \* ready; attached: the virtual joysticks in SDL's order; shown: what
          \* each of them shows

injectorVars == <<inj, sdl>>

NoJoy == 0
Joy   == 1 .. MaxJoys + MaxSlots

ZeroGip == [buttons |-> {}, lt |-> 0, rt |-> 0, lx |-> 0, ly |-> 0, rx |-> 0, ry |-> 0]

EmptyPad ==
  [active |-> FALSE, instance_id |-> -1, joy |-> NoJoy, calibrated |-> FALSE,
   base |-> ZeroGip, now |-> ZeroGip]

-----------------------------------------------------------------------------
(* What a joystick shows: apply_slot_state_locked                          *)

ToInt16(v) == ((v + 32768) % 65536) - 32768

Clamp(v, lo, hi) == IF v < lo THEN lo ELSE IF v > hi THEN hi ELSE v

\* mutant: the cast without the clamp
ScaleWraps(v) ==
  IF v > -Deadzone /\ v < Deadzone THEN 0 ELSE ToInt16(v * StickGain)

Scale(v) ==
  IF v > -Deadzone /\ v < Deadzone THEN 0 ELSE Clamp(v * StickGain, -32768, 32767)

TriggerAxis(v) == ToInt16((Clamp(v, 0, 4095) * 32767) \div 4095)

Axes(g) ==
  LET left  == IF SwapSticks THEN <<g.rx, g.ry>> ELSE <<g.lx, g.ly>>
      right == IF SwapSticks THEN <<g.lx, g.ly>> ELSE <<g.rx, g.ry>>
      trig  == IF SwapLr THEN <<g.rt, g.lt>> ELSE <<g.lt, g.rt>>
      l == <<Scale(left[1]), Scale(-left[2])>>
      r == <<Scale(right[1]), Scale(-right[2])>>
      t == <<TriggerAxis(trig[1]), TriggerAxis(trig[2])>>
  IN  IF XoneLayout THEN l \o <<t[1]>> \o r \o <<t[2]>> ELSE l \o r \o t

Shoulders == IF SwapLr THEN <<"rb", "lb">> ELSE <<"lb", "rb">>

\* buttons 0 to 14 in SDL's order; 15 and 16 stay up
ButtonOrder ==
  <<"a", "b", "x", "y", "view", "sync", "menu", "ls", "rs">> \o Shoulders
    \o <<"up", "down", "left", "right">>

\* SDL's hat is a set of directions; dpad_to_hat centres opposite ones
SdlHat(buttons) == IF Hat(buttons) = 8 THEN {} ELSE buttons \cap Dpad

Shows(g) ==
  [axes |-> Axes(g),
   down |-> {i - 1 : i \in {j \in 1 .. 15 : ButtonOrder[j] \in g.buttons}},
   hat |-> SdlHat(g.buttons)]

\* a write through the handle of a joystick that is gone has no effect
Apply(d, j, g) ==
  IF \E i \in DOMAIN d.attached : d.attached[i] = j
  THEN [d EXCEPT !.shown[j] = Shows(g)] ELSE d

-----------------------------------------------------------------------------
(* SDL                                                                     *)

FreshJoy ==
  CHOOSE j \in Joy : /\ \A i \in DOMAIN sdl.attached : sdl.attached[i] # j
                     /\ \A s \in Slot : inj[s].joy # j

\* sdl_attach_virtual: a device index in SDL2, an id in SDL3
Attached(d, j) == [d EXCEPT !.attached = Append(@, j), !.shown[j] = Shows(ZeroGip)]

InstanceOf(d, j) == IF d.api = 2 THEN Len(d.attached) ELSE j

\* sdl_detach_virtual
Detached(d, inst) ==
  LET gone == {i \in DOMAIN d.attached :
                 IF d.api = 2 THEN i = inst + 1 ELSE d.attached[i] = inst}
  IN  IF gone = {} THEN d
      ELSE LET i == CHOOSE k \in gone : TRUE
           IN  [d EXCEPT !.attached = RemoveAt(@, i),
                         !.shown[d.attached[i]] = Shows(ZeroGip)]

\* the game brings its SDL at some time
GameLoadsSdl ==
  /\ port = "injector" /\ sdl.symbols = {}
  /\ sdl' = [sdl EXCEPT !.symbols = {conf.sdl}]
  /\ UNCHANGED <<inj, streamVars>>

\* ensure_sdl_ready: prefers SDL2, and keeps the version it has found
Ready(d) ==
  [d EXCEPT !.api = IF @ # 0 THEN @ ELSE IF 2 \in d.symbols THEN 2
                    ELSE IF 3 \in d.symbols THEN 3 ELSE 0]

-----------------------------------------------------------------------------
(* The handlers: what an event makes of the slots and of SDL               *)

AttachOutcome ==
  IF Len(sdl.attached) = MaxJoys THEN {"no_attach"}
  ELSE {"ok", "no_attach", "no_open"}

\* on_connected: a joystick that cannot be opened is detached again
ConnectedPad(s, outcome) ==
  IF Ready(sdl).api = 0 \/ inj[s].active \/ outcome # "ok" THEN inj[s]
  ELSE [EmptyPad EXCEPT !.active = TRUE, !.joy = FreshJoy,
                        !.instance_id = InstanceOf(Ready(sdl), FreshJoy)]

\* mutant: ... it is not
ConnectedSdlLeaks(s, outcome) ==
  LET d == Ready(sdl)
  IN  IF d.api = 0 \/ inj[s].active \/ outcome = "no_attach" THEN d
      ELSE Attached(d, FreshJoy)

ConnectedSdl(s, outcome) ==
  LET d == Ready(sdl)
  IN  IF d.api = 0 \/ inj[s].active \/ outcome # "ok" THEN d
      ELSE Attached(d, FreshJoy)

Connected(e, outcome) ==
  /\ inj' = [inj EXCEPT ![e.slot] = ConnectedPad(e.slot, outcome)]
  /\ sdl' = ConnectedSdl(e.slot, outcome)

Disconnected(e) ==
  LET p == inj[e.slot]
  IN  IF p.active
      THEN /\ inj' = [inj EXCEPT ![e.slot] = EmptyPad]
           /\ sdl' = Detached(sdl, p.instance_id)
      ELSE UNCHANGED injectorVars

\* the first input after a connect is taken for the neutral position
Base(p, g) == IF p.calibrated THEN p.base ELSE [g EXCEPT !.buttons = {}]

\* mutant: a trigger below its neutral position counts as negative
MagnitudeSigned(v) == Clamp(v, -4095, 4095)

Magnitude(v) == Clamp(IF v < 0 THEN -v ELSE v, 0, 4095)

Corrected(g, base) ==
  [buttons |-> g.buttons,
   lt |-> Magnitude(g.lt - base.lt), rt |-> Magnitude(g.rt - base.rt),
   lx |-> g.lx - base.lx, ly |-> g.ly - base.ly,
   rx |-> g.rx - base.rx, ry |-> g.ry - base.ry]

\* mutant: the input of a slot that is not active is dropped
InputPadEager(s, g, outcome) ==
  LET p == inj[s]
  IN  IF p.active
      THEN [p EXCEPT !.calibrated = TRUE, !.base = Base(p, g), !.now = Corrected(g, Base(p, g))]
      ELSE p

\* on_input: connects the slot first if its "connected" was missed
InputPad(s, g, outcome) ==
  LET p == ConnectedPad(s, outcome)
  IN  IF Ready(sdl).api # 0 /\ p.active
      THEN [p EXCEPT !.calibrated = TRUE, !.base = Base(p, g), !.now = Corrected(g, Base(p, g))]
      ELSE p

Input(e, outcome) ==
  LET p == InputPad(e.slot, e.gip, outcome)
  IN  /\ inj' = [inj EXCEPT ![e.slot] = p]
      /\ sdl' = IF p.active
                THEN Apply(ConnectedSdl(e.slot, outcome), p.joy, p.now)
                ELSE ConnectedSdl(e.slot, outcome)

\* handle_line: guide events are not known to it
HandleLine(e, outcome) ==
  CASE e.type = "connected"    -> Connected(e, outcome)
    [] e.type = "disconnected" -> Disconnected(e)
    [] e.type = "input"        -> Input(e, outcome)
    [] OTHER                   -> UNCHANGED injectorVars

\* the event finds SDL not ready, or SDL refuses the joystick it asks for
Refused(e, outcome) ==
  /\ e.type \in {"connected", "input"}
  /\ Ready(sdl).api = 0 \/ (~inj[e.slot].active /\ outcome # "ok")

-----------------------------------------------------------------------------
InjectorStopped ==
  /\ inj = [s \in Slot |-> EmptyPad]
  /\ sdl = [symbols |-> {}, api |-> 0, attached |-> <<>>,
            shown |-> [j \in Joy |-> Shows(ZeroGip)]]

Shift == -65535 .. 65535
Pulled == 0 .. 4095
InstanceId == -1 .. MaxJoys + MaxSlots

Pad ==
  [active : BOOLEAN, instance_id : InstanceId, joy : Joy \cup {NoJoy},
   calibrated : BOOLEAN, base : GipState,
   now : [buttons : SUBSET Button, lt : Pulled, rt : Pulled,
          lx : Shift, ly : Shift, rx : Shift, ry : Shift]]

InjectorTypeOK ==
  /\ \A s \in Slot : inj[s] \in Pad
  /\ sdl.symbols \subseteq {conf.sdl} /\ sdl.api \in {0} \cup sdl.symbols
  /\ sdl.attached \in Seq(Joy) /\ Len(sdl.attached) <= MaxJoys
=============================================================================
