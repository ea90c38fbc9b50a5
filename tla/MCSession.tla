----------------------------- MODULE MCSession -----------------------------
(***************************************************************************)
(* Instances of Session for TLC: four addresses compete for three WCIDs    *)
(* and two slots, so that slots and WCIDs both run out.                    *)
(***************************************************************************)
EXTENDS Session, TLC

CONSTANTS m1, m2, m3, m4

FourMacs  == {m1, m2, m3, m4}
ThreeMacs == {m1, m2, m3}

Symmetry  == Permutations(FourMacs)
Symmetry3 == Permutations(ThreeMacs)
=============================================================================
