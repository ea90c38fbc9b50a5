----------------------------- MODULE GipInput ------------------------------
(***************************************************************************)
(* The state of a gamepad on its way through the daemon: the words of a    *)
(* GIP input payload, the choice between its two layouts (on_input of      *)
(* xbox_daemon.c) and the translation to a HID report (xbox_protocol.h).   *)
(***************************************************************************)
EXTENDS Integers, Sequences

\* the BTN_ masks; bit 1 is not used
Mask ==
  [sync |-> 1, menu |-> 4, view |-> 8, a |-> 16, b |-> 32, x |-> 64, y |-> 128,
   up |-> 256, down |-> 512, left |-> 1024, right |-> 2048,
   lb |-> 4096, rb |-> 8192, ls |-> 16384, rs |-> 32768]

Button == DOMAIN Mask
Dpad   == {"up", "down", "left", "right"}

\* uint16_t, int16_t, and the signed values of the same bits
Word      == 0 .. 65535
Int16     == -32768 .. 32767
Signed(w) == IF w > 32767 THEN w - 65536 ELSE w

ButtonsOf(w) == {b \in Button : (w \div Mask[b]) % 2 = 1}

GipState == [buttons : SUBSET Button, lt : Word, rt : Word,
             lx : Int16, ly : Int16, rx : Int16, ry : Int16]

-----------------------------------------------------------------------------
(* Payloads.  A controller of the xone kind sends 16 bits of buttons, one  *)
(* of the xow kind 32, whose upper half is 0; either may append bytes, and *)
(* wireless frames carry an 8-byte wrapper before 16 bytes of state.       *)

Raw(v) == v % 65536

Keys(g) ==
  LET On(b) == IF b \in g.buttons THEN Mask[b] ELSE 0
  IN  On("sync") + On("menu") + On("view") + On("a") + On("b") + On("x") + On("y")
        + On("up") + On("down") + On("left") + On("right")
        + On("lb") + On("rb") + On("ls") + On("rs")

Encode(g, layout) ==
  LET rest == <<g.lt, g.rt, Raw(g.lx), Raw(g.ly), Raw(g.rx), Raw(g.ry)>>
  IN  [xone    |-> <<Keys(g)>> \o rest,
       padded  |-> <<Keys(g)>> \o rest \o <<0, 0>>,
       wrapped |-> <<0, 0, 32, 44 * 256 + 7, Keys(g)>> \o rest \o <<0>>,
       xow     |-> <<Keys(g), 0>> \o rest][layout]

Unwrapped(p) ==
  IF Len(p) >= 12 /\ p[3] % 256 = 32 /\ p[4] \div 256 >= 14 THEN SubSeq(p, 5, Len(p)) ELSE p

\* the two readings of a payload: triggers and sticks begin after one word
\* of buttons or after two
Reading(p, from) ==
  [buttons |-> ButtonsOf(p[1]), lt |-> p[from], rt |-> p[from + 1],
   lx |-> Signed(p[from + 2]), ly |-> Signed(p[from + 3]),
   rx |-> Signed(p[from + 4]), ry |-> Signed(p[from + 5])]

Realistic(g) == g.lt <= 4095 /\ g.rt <= 4095

Parsed(p) ==
  IF Len(p) >= 8 /\ ~Realistic(Reading(p, 2)) /\ Realistic(Reading(p, 3))
  THEN Reading(p, 3) ELSE Reading(p, 2)

-----------------------------------------------------------------------------
(* HID reports.  A report names its buttons as the controller does, with   *)
(* "guide" beside them; its hat is 8 in the middle.                        *)

Hat(buttons) ==
  LET d == buttons \cap Dpad
      Compass == <<{"up"}, {"up", "right"}, {"right"}, {"down", "right"},
                   {"down"}, {"down", "left"}, {"left"}, {"up", "left"}>>
  IN  IF \E i \in 1 .. 8 : Compass[i] = d
      THEN (CHOOSE i \in 1 .. 8 : Compass[i] = d) - 1
      ELSE 8

ZeroReport ==
  [buttons |-> {}, hat |-> 0, lx |-> 0, ly |-> 0, rx |-> 0, ry |-> 0, lt |-> 0, rt |-> 0]

GipToHid(g, guide) ==
  [buttons |-> (g.buttons \ Dpad) \cup (IF guide THEN {"guide"} ELSE {}),
   hat |-> Hat(g.buttons),
   lx |-> g.lx, ly |-> g.ly, rx |-> g.rx, ry |-> g.ry, lt |-> g.lt, rt |-> g.rt]

WithGuide(report, pressed) ==
  [report EXCEPT !.buttons = IF pressed THEN @ \cup {"guide"} ELSE @ \ {"guide"}]
=============================================================================
