-------------------------- MODULE MCControlCenter --------------------------
(***************************************************************************)
(* An instance of ControlCenter for TLC, and the loop of consumeLines as   *)
(* the code has it, a line at a time, as a reference for ConsumeLines.     *)
(***************************************************************************)
EXTENDS ControlCenter

ParseControllerActivity(on, line) ==
  IF line.up THEN on \cup {line.slot} ELSE on \ {line.slot}

ChunkBound == 4

ASSUME ConsumeLinesIsTheLoop ==
  \A n \in 0 .. ChunkBound : \A lines \in [1 .. n -> [slot : Slot, up : BOOLEAN]], on \in SUBSET Slot :
    ConsumeLines(on, lines) = FoldLeft(ParseControllerActivity, on, lines)
=============================================================================
