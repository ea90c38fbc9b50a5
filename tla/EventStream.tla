---------------------------- MODULE EventStream ----------------------------
(***************************************************************************)
(* What the consumers of the daemon's events see of it: its slots, changed *)
(* by on_connect, on_disconnect, on_input and on_guide, and the UDP events *)
(* these send.  The events wait in the socket of the process that is bound *)
(* to the port; without one, or when its buffer is full, they are lost.    *)
(* The loopback interface keeps their order and duplicates none.  Session  *)
(* shows that the daemon's handlers call these operations as they do here. *)
(***************************************************************************)
EXTENDS GipInput

CONSTANTS
  MaxSlots,   \* MAX_SLOTS
  Inputs,     \* the states of their buttons and sticks that controllers report
  Layouts,    \* the layouts they report them in
  Settings,   \* what is played with: see conf
  NoInput     \* a controller that has reported nothing yet, not one of Inputs

ASSUME EventStreamAssumption ==
  /\ MaxSlots \in Nat \ {0}
  /\ Inputs \subseteq GipState /\ NoInput \notin Inputs
  /\ Layouts \subseteq {"xone", "padded", "wrapped", "xow"}

Slot == 0 .. MaxSlots - 1

ASSUME SettingsAssumption ==
  Settings \subseteq [pads : SUBSET Slot, cap : Nat \ {0}, sdl : {2, 3}]

VARIABLES
  conf,     \* the slots that controllers take, how many events the socket's
            \* buffer holds, and the SDL of the game
  slots,    \* g_slots of the daemon
  held,     \* the state each connected controller has last reported
  port,     \* which consumer is bound to the port, or "none"
  queue,    \* the events in its socket
  missed    \* whether an event of the slot was lost and not made up for

streamVars == <<conf, slots, held, port, queue, missed>>

EmptySlot == [active |-> FALSE, guide_pressed |-> FALSE, last_report |-> ZeroReport]

StreamInit ==
  /\ conf \in Settings
  /\ slots = [s \in Slot |-> EmptySlot]
  /\ held = [s \in Slot |-> NoInput]
  /\ port = "none"
  /\ queue = <<>>
  /\ missed = [s \in Slot |-> FALSE]

\* The events after which a consumer of either kind knows its slot again,
\* whatever it has missed: both forget a disconnected slot, and the injector
\* takes any input for a connect
Resync(e) ==
  \/ e.type = "disconnected"
  \/ e.type = "input" /\ port = "injector"

\* event_udp_send
Send(e) ==
  IF port # "none" /\ Len(queue) < conf.cap
  THEN /\ queue' = Append(queue, e)
       /\ missed' = [missed EXCEPT ![e.slot] = @ /\ ~Resync(e)]
  ELSE /\ missed' = [missed EXCEPT ![e.slot] = TRUE]
       /\ UNCHANGED queue

OnConnect(s) ==
  /\ ~slots[s].active
  /\ slots' = [slots EXCEPT ![s].active = TRUE, ![s].last_report.hat = 8]
  /\ Send([type |-> "connected", slot |-> s])
  /\ UNCHANGED <<conf, held, port>>

OnDisconnect(s) ==
  /\ slots[s].active
  /\ slots' = [slots EXCEPT ![s] = EmptySlot]
  /\ held' = [held EXCEPT ![s] = NoInput]
  /\ Send([type |-> "disconnected", slot |-> s])
  /\ UNCHANGED <<conf, port>>

\* g is what the controller reports; the event carries what on_input reads
OnInput(s, g, layout) ==
  LET in == Unwrapped(Encode(g, layout))
  IN  /\ slots[s].active /\ Len(in) >= 7
      /\ slots' = [slots EXCEPT ![s].last_report = GipToHid(Parsed(in), slots[s].guide_pressed)]
      /\ held' = [held EXCEPT ![s] = g]
      /\ Send([type |-> "input", slot |-> s, gip |-> Parsed(in)])
      /\ UNCHANGED <<conf, port>>

\* also for a slot that is not connected
OnGuide(s, pressed) ==
  /\ slots' = [slots EXCEPT ![s].guide_pressed = pressed,
                            ![s].last_report = WithGuide(@, pressed)]
  /\ Send([type |-> "guide", slot |-> s, pressed |-> pressed])
  /\ UNCHANGED <<conf, held, port>>

Daemon ==
  \E s \in conf.pads :
    \/ OnConnect(s)
    \/ OnDisconnect(s)
    \/ \E g \in Inputs, layout \in Layouts : OnInput(s, g, layout)
    \/ \E pressed \in BOOLEAN : OnGuide(s, pressed)

\* nothing of the slot is on its way
Quiet(s) == \A i \in 1 .. Len(queue) : queue[i].slot # s
=============================================================================
