----------------------------- MODULE Consumers -----------------------------
(***************************************************************************)
(* The daemon's event stream and its two consumers.  Both bind the same    *)
(* port by default, so that at most one of them hears the daemon; each may *)
(* start when controllers are already connected, and end at any time.      *)
(***************************************************************************)
EXTENDS Injector, HidBridge

vars == <<streamVars, injectorVars, bridgeVars>>

Init ==
  /\ StreamInit
  /\ InjectorStopped
  /\ BridgeStopped

\* The consumer binds the port.  What it has not heard of a slot that is no
\* longer as it was at the start, it has missed.
Bind(c) ==
  /\ port = "none"
  /\ port' = c
  /\ missed' = [s \in Slot |-> slots[s] # EmptySlot]
  /\ UNCHANGED <<conf, slots, held, queue, injectorVars, bridgeVars>>

\* the game or the bridge ends, and its virtual devices with it
Quit ==
  /\ port # "none"
  /\ port' = "none"
  /\ queue' = <<>>
  /\ missed' = [s \in Slot |-> TRUE]
  /\ inj' = [s \in Slot |-> EmptyPad]
  /\ sdl' = [symbols |-> {}, api |-> 0, attached |-> <<>>,
             shown |-> [j \in Joy |-> Shows(ZeroGip)]]
  /\ bridge' = [s \in Slot |-> EmptyGamepad]
  /\ UNCHANGED <<conf, slots, held>>

\* an event the consumer could not act on is missed, unless one behind it
\* makes up for it
Missed(e, refused) ==
  missed' = IF refused /\ \A i \in 2 .. Len(queue) : ~(queue[i].slot = e.slot /\ Resync(queue[i]))
            THEN [missed EXCEPT ![e.slot] = TRUE] ELSE missed

\* udp_thread: one event
InjectorReceives(outcome) ==
  /\ port = "injector" /\ queue # <<>>
  /\ HandleLine(Head(queue), outcome)
  /\ Missed(Head(queue), Refused(Head(queue), outcome))
  /\ queue' = Tail(queue)
  /\ UNCHANGED <<conf, slots, held, port, bridgeVars>>

\* main of the bridge: one event
BridgeReceives(created) ==
  /\ port = "bridge" /\ queue # <<>>
  /\ HandleEventLine(Head(queue), created)
  /\ Missed(Head(queue), BridgeRefused(Head(queue), created))
  /\ queue' = Tail(queue)
  /\ UNCHANGED <<conf, slots, held, port, injectorVars>>

Receive ==
  \/ \E outcome \in AttachOutcome : InjectorReceives(outcome)
  \/ \E created \in BOOLEAN : BridgeReceives(created)

Next ==
  \/ Daemon /\ UNCHANGED <<injectorVars, bridgeVars>>
  \/ \E c \in {"injector", "bridge"} : Bind(c)
  \/ Quit
  \/ GameLoadsSdl /\ UNCHANGED bridgeVars
  \/ Receive

Spec == Init /\ [][Next]_vars

-----------------------------------------------------------------------------
(* The daemon's slots, the queue and the injector's state hold the values  *)
(* their types allow, and SDL never more joysticks than it takes.          *)
TypeOK ==
  /\ \A s \in Slot : slots[s].last_report.hat \in 0 .. 8
  /\ \A s \in Slot : held[s] \in Inputs \cup {NoInput}
  /\ port \in {"none", "injector", "bridge"}
  /\ Len(queue) <= conf.cap
  /\ missed \in [Slot -> BOOLEAN]
  /\ InjectorTypeOK

\* the places of a joystick in SDL's list
Attachment(j) == {i \in DOMAIN sdl.attached : sdl.attached[i] = j}

\* what the slot ought to show
Expected(s) == IF held[s] = NoInput THEN ZeroGip ELSE Corrected(held[s], inj[s].base)

(* Once the injector has handled all there is about a slot, and has missed *)
(* nothing since the last input or disconnect, its slot is connected       *)
(* exactly when the daemon's is and its joystick shows what the controller *)
(* reports, buttons as they are and axes relative to the neutral position: *)
(* however late the game started, whatever datagrams were lost before.     *)
InjectorFollowsDaemon ==
  \A s \in Slot :
    port = "injector" /\ Quiet(s) /\ ~missed[s] =>
      /\ inj[s].active = slots[s].active
      /\ inj[s].active =>
           /\ inj[s].now = Expected(s)
           /\ Attachment(inj[s].joy) # {} => sdl.shown[inj[s].joy] = Shows(Expected(s))

(* RYUJINX_INJECTION.md:64: "Slots are created on controller connect       *)
(* events and detached on disconnect events": the joysticks SDL has are    *)
(* those of the active slots, one each.                                    *)
JoysticksFollowSlots ==
  /\ \A s \in Slot : inj[s].active => Attachment(inj[s].joy) # {}
  /\ \A i \in DOMAIN sdl.attached : \E s \in Slot : inj[s].active /\ inj[s].joy = sdl.attached[i]
  /\ \A s, t \in Slot : inj[s].active /\ inj[t].active /\ inj[s].joy = inj[t].joy => s = t

(* With SDL3, whose ids are stable, that is so, also when attaching or     *)
(* opening fails.                                                          *)
JoysticksFollowSlotsInSdl3 == sdl.api = 3 => JoysticksFollowSlots

(* A stick never shows the side opposite to the one it is deflected to:    *)
(* the difference to the neutral position exceeds 16 bits at the extremes, *)
(* and the vertical axes are negated.                                      *)
Agrees(axis, v) ==
  /\ v > 0 /\ v >= Deadzone => axis > 0
  /\ v < 0 /\ v <= -Deadzone => axis < 0

SticksKeepDirection ==
  \A s \in Slot : inj[s].active /\ ~SwapSticks /\ ~XoneLayout =>
    LET a == Axes(inj[s].now)
        g == inj[s].now
    IN  /\ Agrees(a[1], g.lx) /\ Agrees(a[2], -g.ly)
        /\ Agrees(a[3], g.rx) /\ Agrees(a[4], -g.ry)
        /\ a[5] >= 0 /\ a[6] >= 0

(* The bridge's gamepad shows what the daemon's own would: the two keep    *)
(* guide button and report apart from each other, and agree whenever the   *)
(* bridge has handled all there is about a slot it has heard all about.    *)
BridgeShowsDaemonsReport ==
  \A s \in Slot :
    port = "bridge" /\ Quiet(s) /\ ~missed[s] =>
      /\ bridge[s].active = slots[s].active
      /\ bridge[s].active => bridge[s].device = slots[s].last_report

(* "xone-style input payload can be either" of two layouts, of which       *)
(* on_input prefers "the layout with realistic trigger ranges"             *)
(* (xbox_daemon.c:481, 538): the buttons, triggers and sticks an event     *)
(* carries are those of the controller.                                    *)
EitherLayoutIsRead ==
  \A s \in Slot : held[s] # NoInput => slots[s].last_report = GipToHid(held[s], slots[s].guide_pressed)
=============================================================================
