---------------------------- MODULE MCConsumers ----------------------------
(***************************************************************************)
(* Instances of Consumers for TLC: a controller at rest, its sticks a bit  *)
(* off the centre, and one with everything pushed to the extremes.         *)
(***************************************************************************)
EXTENDS Consumers

Rest == [buttons |-> {}, lt |-> 0, rt |-> 3, lx |-> -600, ly |-> 600, rx |-> 200, ry |-> 0]

Full == [buttons |-> {"a", "lb", "up", "right", "rs"}, lt |-> 1023, rt |-> 4095,
         lx |-> 32767, ly |-> -32768, rx |-> -32768, ry |-> 32767]

TwoInputs == {Rest, Full}

\* two controllers that compete for a buffer of one event, and one that fills
\* a longer one, with either SDL
PairAndSolo ==
  {[pads |-> {0, 1}, cap |-> 1, sdl |-> 3], [pads |-> {0}, cap |-> 3, sdl |-> 2],
   [pads |-> {0}, cap |-> 3, sdl |-> 3]}
=============================================================================
