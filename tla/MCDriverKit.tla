---------------------------- MODULE MCDriverKit ----------------------------
(***************************************************************************)
(* An instance of DriverKit for TLC: a controller that reports one state   *)
(* with buttons held and its sticks at the extremes.                       *)
(***************************************************************************)
EXTENDS DriverKit

Held == [buttons |-> {"a", "sync", "up"}, lt |-> 1023, rt |-> 0,
         lx |-> -32768, ly |-> 32767, rx |-> 0, ry |-> 0]

OneInput == {Held}
=============================================================================
