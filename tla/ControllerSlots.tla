-------------------------- MODULE ControllerSlots --------------------------
(***************************************************************************)
(* What the daemon promises the consumers of its event stream about its    *)
(* controller slots: a slot is bound to at most one controller, for good;  *)
(* a controller is bound to at most one slot; and only a bound slot is     *)
(* ever reported connected.  Session implements this specification.        *)
(***************************************************************************)
EXTENDS Naturals

CONSTANTS
  Slot,     \* the daemon's slots
  Mac,      \* the controllers' addresses
  NoMac     \* stands for "no controller", not one of Mac

VARIABLES
  owner,    \* the controller each slot is bound to
  live      \* the slots the daemon reports as connected

vars == <<owner, live>>

TypeOK ==
  /\ owner \in [Slot -> Mac \cup {NoMac}]
  /\ live \in SUBSET Slot

Init ==
  /\ owner = [s \in Slot |-> NoMac]
  /\ live = {}

(***************************************************************************)
(* A controller that has no slot is bound to a free one.  The handler that *)
(* binds it leaves the slot connected, unless the frame it handles says    *)
(* that the controller is lost.                                            *)
(***************************************************************************)
Bind(s, m) ==
  /\ owner[s] = NoMac
  /\ \A t \in Slot : owner[t] # m
  /\ owner' = [owner EXCEPT ![s] = m]
  /\ live' \in {live, live \cup {s}}

Up(s) ==
  /\ owner[s] # NoMac
  /\ live' = live \cup {s}
  /\ UNCHANGED owner

Down(s) ==
  /\ live' = live \ {s}
  /\ UNCHANGED owner

Next == \E s \in Slot : Up(s) \/ Down(s) \/ \E m \in Mac : Bind(s, m)

Spec == Init /\ [][Next]_vars
=============================================================================
