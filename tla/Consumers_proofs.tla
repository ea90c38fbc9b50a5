-------------------------- MODULE Consumers_proofs --------------------------
(***************************************************************************)
(* The consumers of the daemon's events, proved for any number of slots    *)
(* and joysticks, any settings and inputs, and events that are lost        *)
(* whenever the socket is full or nobody listens: the types of what        *)
(* travels, that with stable ids SDL has one joystick for each active      *)
(* slot, that no stick is shown deflected to the wrong side, and that the  *)
(* bridge and the injector come to show what the daemon and the            *)
(* controllers say.                                                        *)
(***************************************************************************)
EXTENDS Consumers, Histories, TLAPS, FiniteSetTheorems, SequenceTheorems

-----------------------------------------------------------------------------
(* The inductive invariant                                                 *)

Report ==
  [buttons : SUBSET (Button \cup {"guide"}), hat : 0 .. 8,
   lx : Int16, ly : Int16, rx : Int16, ry : Int16, lt : Word, rt : Word]

SlotRecord == [active : BOOLEAN, guide_pressed : BOOLEAN, last_report : Report]

UdpEvent ==
  [type : {"connected", "disconnected"}, slot : Slot]
    \cup [type : {"guide"}, slot : Slot, pressed : BOOLEAN]
    \cup [type : {"input"}, slot : Slot, gip : GipState]

StreamOK ==
  /\ conf \in Settings
  /\ slots \in [Slot -> SlotRecord]
  /\ held \in [Slot -> Inputs \cup {NoInput}]
  /\ port \in {"none", "injector", "bridge"}
  /\ queue \in Seq(UdpEvent) /\ Len(queue) <= conf.cap
  /\ missed \in [Slot -> BOOLEAN]

SdlOK(d) ==
  /\ d = [symbols |-> d.symbols, api |-> d.api, attached |-> d.attached, shown |-> d.shown]
  /\ d.symbols \subseteq {conf.sdl} /\ d.api \in {0} \cup d.symbols
  /\ d.attached \in Seq(Joy) /\ Len(d.attached) <= MaxJoys

\* The joysticks are those of the active slots, and with SDL3 a slot knows its
\* joystick by the id it is detached by.
JoysOK(d, p) ==
  /\ d.api = 0 => d.attached = <<>> /\ \A s \in Slot : ~p[s].active
  /\ d.api = 3 =>
       /\ \A i, j \in DOMAIN d.attached : d.attached[i] = d.attached[j] => i = j
       /\ \A i \in DOMAIN d.attached : \E s \in Slot : p[s].active /\ p[s].joy = d.attached[i]
       /\ \A s \in Slot : p[s].active =>
            /\ p[s].instance_id = p[s].joy
            /\ \E i \in DOMAIN d.attached : d.attached[i] = p[s].joy
       /\ \A s, t \in Slot : p[s].active /\ p[t].active /\ p[s].joy = p[t].joy => s = t

IInv == /\ StreamOK
        /\ inj \in [Slot -> Pad]
        /\ SdlOK(sdl)
        /\ JoysOK(sdl, inj)

-----------------------------------------------------------------------------
(* Ranges                                                                  *)

LEMMA Between == \A lo, hi, x \in Int : lo <= x /\ x <= hi <=> x \in lo .. hi
  OBVIOUS

LEMMA Within == \A lo, hi : \A x \in lo .. hi : x \in Int /\ lo <= x /\ x <= hi
  OBVIOUS

\* uint16_t
LEMMA WordRange == \A x \in Int : 0 <= x /\ x <= 65535 <=> x \in Word
<1> DEFINE hi == 65535
<1>1. hi \in Int
  OBVIOUS
<1>2. Word = 0 .. hi
  BY DEF Word
<1>3. \A x \in Int : 0 <= x /\ x <= hi <=> x \in Word
  <2> HIDE DEF hi
  <2> QED BY <1>1, <1>2, Between
<1> QED BY <1>3

LEMMA WordBounds == \A x \in Word : x \in Int /\ 0 <= x /\ x <= 65535
<1> DEFINE hi == 65535
<1>1. Word = 0 .. hi
  BY DEF Word
<1>2. \A x \in Word : x \in Int /\ 0 <= x /\ x <= hi
  <2> HIDE DEF hi
  <2> QED BY <1>1, Within
<1> QED BY <1>2

\* int16_t
LEMMA Int16Range == \A x \in Int : -32768 <= x /\ x <= 32767 <=> x \in Int16
<1> DEFINE lo == -32768
<1>1. lo \in Int /\ 32767 \in Int
  OBVIOUS
<1>2. Int16 = lo .. 32767
  BY DEF Int16
<1>3. \A x \in Int : lo <= x /\ x <= 32767 <=> x \in Int16
  <2> HIDE DEF lo
  <2> QED BY <1>1, <1>2, Between
<1> QED BY <1>3

LEMMA Int16Bounds == \A x \in Int16 : x \in Int /\ -32768 <= x /\ x <= 32767
<1> DEFINE lo == -32768
           hi == 32767
<1>1. Int16 = lo .. hi
  BY DEF Int16
<1>2. \A x \in Int16 : x \in Int /\ lo <= x /\ x <= hi
  <2> HIDE DEF lo, hi
  <2> QED BY <1>1, Within
<1> QED BY <1>2

\* what the difference of two of them may be
LEMMA ShiftRange == \A x \in Int : -65535 <= x /\ x <= 65535 <=> x \in Shift
<1> DEFINE lo == -65535
<1>1. lo \in Int /\ 65535 \in Int
  OBVIOUS
<1>2. Shift = lo .. 65535
  BY DEF Shift
<1>3. \A x \in Int : lo <= x /\ x <= 65535 <=> x \in Shift
  <2> HIDE DEF lo
  <2> QED BY <1>1, <1>2, Between
<1> QED BY <1>3

LEMMA ShiftBounds == \A x \in Shift : x \in Int
<1> DEFINE lo == -65535
           hi == 65535
<1>1. Shift = lo .. hi
  BY DEF Shift
<1> HIDE DEF lo, hi
<1> QED BY <1>1, Within

LEMMA Differences == ASSUME NEW x \in Int16, NEW y \in Int16 PROVE x - y \in Shift
<1>1. x \in Int /\ y \in Int /\ -32768 <= x /\ x <= 32767 /\ -32768 <= y /\ y <= 32767
  BY Int16Bounds
<1>2. x - y \in Int /\ -65535 <= x - y /\ x - y <= 65535
  BY <1>1
<1> QED BY <1>2, ShiftRange

\* What the assumptions say of the sizes, of the scale of a stick, and of the
\* input.
LEMMA Sizes == MaxJoys \in Nat /\ MaxJoys >= 1 /\ MaxSlots \in Nat /\ MaxSlots >= 1
<1>1. MaxJoys \in Nat /\ MaxJoys # 0 /\ MaxSlots \in Nat /\ MaxSlots # 0
  BY InjectorAssumption, EventStreamAssumption, SMTT(60)
<1> QED BY <1>1, SMTT(60)

LEMMA Scales == StickGain \in Nat /\ StickGain >= 1 /\ Deadzone \in Nat
<1>1. StickGain \in Nat /\ StickGain # 0 /\ Deadzone \in Nat
  BY InjectorAssumption, SMTT(60)
<1> QED BY <1>1, SMTT(60)

\* instance ids: none, a device index, an id
LEMMA InstanceIds ==
  /\ -1 \in InstanceId
  /\ \A n \in 0 .. MaxJoys + MaxSlots : n \in InstanceId
<1> DEFINE lo == -1
           hi == MaxJoys + MaxSlots
<1>1. lo \in Int /\ hi \in Int /\ lo <= hi /\ lo <= 0
  BY Sizes
<1>2. InstanceId = lo .. hi
  BY DEF InstanceId
<1>3. lo \in InstanceId
  <2> HIDE DEF lo, hi
  <2> QED BY <1>1, <1>2, Between
<1>4. \A n \in 0 .. hi : n \in InstanceId
  <2> HIDE DEF lo, hi
  <2> QED BY <1>1, <1>2, Between
<1> QED BY <1>3, <1>4, SMTT(60)

-----------------------------------------------------------------------------
(* A state on its way through the daemon                                   *)

\* a payload whose words, but for the first, are words
Words(p) == /\ Len(p) \in Nat /\ Len(p) >= 7
            /\ \A i \in 2 .. Len(p) : p[i] \in Word

LEMMA SignedIsInt16 == \A w \in Word : Signed(w) \in Int16
<1> SUFFICES ASSUME NEW w \in Word PROVE Signed(w) \in Int16
  BY Zenon
<1>1. w \in Int /\ 0 <= w /\ w <= 65535
  BY WordBounds
<1>2. Signed(w) \in Int /\ -32768 <= Signed(w) /\ Signed(w) <= 32767
  BY <1>1 DEF Signed
<1> QED BY <1>2, Int16Range

LEMMA Remainder ==
  ASSUME NEW m \in Nat \ {0}, NEW v \in Int
  PROVE  v % m \in Int /\ 0 <= v % m /\ v % m <= m - 1
  OBVIOUS

LEMMA RawIsWord == \A v \in Int16 : Raw(v) \in Word
<1> SUFFICES ASSUME NEW v \in Int16 PROVE Raw(v) \in Word
  BY Zenon
<1> DEFINE m == 65536
<1>1. v \in Int /\ m \in Nat \ {0} /\ m - 1 = 65535 /\ Raw(v) = v % m
  BY Int16Bounds DEF Raw
<1>2. Raw(v) \in Int /\ 0 <= Raw(v) /\ Raw(v) <= 65535
  <2> HIDE DEF m
  <2> QED BY <1>1, Remainder
<1> QED BY <1>2, WordRange

\* Either reading of such words is the state of a gamepad.
LEMMA ReadingIsState ==
  ASSUME NEW p, NEW from \in {2, 3}, \A i \in from .. from + 5 : p[i] \in Word
  PROVE  Reading(p, from) \in GipState
<1>1. /\ p[from] \in Word /\ p[from + 1] \in Word
      /\ Signed(p[from + 2]) \in Int16 /\ Signed(p[from + 3]) \in Int16
      /\ Signed(p[from + 4]) \in Int16 /\ Signed(p[from + 5]) \in Int16
  BY SignedIsInt16
<1>2. ButtonsOf(p[1]) \in SUBSET Button
  BY DEF ButtonsOf
<1> HIDE DEF Button
<1> QED BY <1>1, <1>2 DEF Reading, GipState

LEMMA ParsedIsState == ASSUME NEW p, Words(p) PROVE Parsed(p) \in GipState
<1>1. Reading(p, 2) \in GipState
  BY ReadingIsState DEF Words
<1>2. Len(p) >= 8 => Reading(p, 3) \in GipState
  BY ReadingIsState DEF Words
<1> QED BY <1>1, <1>2 DEF Parsed

\* Words behind a first part, of which all but the first is a word.
Behind(h, r) ==
  /\ Len(h \o r) = Len(h) + Len(r)
  /\ \A i \in 1 .. Len(h) : (h \o r)[i] = h[i]
  /\ \A i \in Len(h) + 1 .. Len(h) + Len(r) : (h \o r)[i] \in Word

LEMMA Joined ==
  ASSUME NEW S, NEW h \in Seq(S), NEW r \in Seq(Word), r \in Seq(S)
  PROVE  h \o r \in Seq(S) /\ Behind(h, r)
<1>1. /\ h \o r \in Seq(S)
      /\ Len(h \o r) = Len(h) + Len(r)
      /\ \A i \in 1 .. Len(h) : (h \o r)[i] = h[i]
      /\ \A i \in Len(h) + 1 .. Len(h) + Len(r) : (h \o r)[i] = r[i - Len(h)]
  OBVIOUS
<1>2. \A i \in Len(h) + 1 .. Len(h) + Len(r) : r[i - Len(h)] \in Word
  OBVIOUS
<1> QED BY <1>1, <1>2 DEF Behind

LEMMA WordsBehind ==
  ASSUME NEW h, NEW r, Behind(h, r), Len(h) \in Nat, Len(r) \in Nat,
         \A i \in 2 .. Len(h) : h[i] \in Word, Len(h) >= 1, Len(h) + Len(r) >= 7
  PROVE  Words(h \o r)
<1>1. \A i \in 2 .. Len(h) + Len(r) : i \in 2 .. Len(h) \/ i \in Len(h) + 1 .. Len(h) + Len(r)
  OBVIOUS
<1>2. \A i \in 2 .. Len(h) + Len(r) : (h \o r)[i] \in Word
  BY <1>1 DEF Behind
<1> QED BY <1>2 DEF Words, Behind

\* A payload that is not as long as the wrapper takes is read as it is.
LEMMA Short == ASSUME NEW p, Words(p), Len(p) < 12 PROVE Parsed(Unwrapped(p)) \in GipState
<1>1. Unwrapped(p) = p
  BY DEF Unwrapped, Words
<1> QED BY <1>1, ParsedIsState

\* What on_input reads of a controller's payload is the state of a gamepad,
\* whichever layout it comes in and whichever layout it takes it for.
LEMMA InputIsState ==
  ASSUME NEW g \in Inputs, NEW layout \in Layouts
  PROVE  Parsed(Unwrapped(Encode(g, layout))) \in GipState
<1> DEFINE k == Keys(g)
           rest == <<g.lt, g.rt, Raw(g.lx), Raw(g.ly), Raw(g.rx), Raw(g.ry)>>
           S == Word \cup {k}
           p == Encode(g, layout)
<1>1. /\ g.lt \in Word /\ g.rt \in Word /\ Raw(g.lx) \in Word /\ Raw(g.ly) \in Word
      /\ Raw(g.rx) \in Word /\ Raw(g.ry) \in Word
  BY EventStreamAssumption, RawIsWord DEF GipState
<1>2. rest \in Seq(Word) /\ Len(rest) = 6
  BY <1>1
<1> DEFINE h1 == <<k>>
           h2 == <<k, 0>>
           h5 == <<0, 0, 32, 44 * 256 + 7, k>>
           t1 == <<0>>
           t2 == <<0, 0>>
<1>3. /\ layout = "xone" => p = h1 \o rest
      /\ layout = "padded" => p = h1 \o rest \o t2
      /\ layout = "xow" => p = h2 \o rest
  <2>1. CASE layout = "xone"
    BY <2>1 DEF Encode
  <2>2. CASE layout = "padded"
    BY <2>2 DEF Encode
  <2>3. CASE layout = "xow"
    BY <2>3 DEF Encode
  <2> QED BY <2>1, <2>2, <2>3
<1>4. layout = "wrapped" => p = h5 \o rest \o t1
  BY DEF Encode
<1>w. 0 \in Word /\ 32 \in Word /\ 44 * 256 + 7 \in Word
  BY WordRange
<1>5. /\ h1 \in Seq(S) /\ Len(h1) = 1
      /\ h2 \in Seq(S) /\ Len(h2) = 2 /\ h2[2] \in Word
      /\ t1 \in Seq(Word) /\ Len(t1) = 1
      /\ t2 \in Seq(Word) /\ Len(t2) = 2
  <2> HIDE DEF k
  <2> QED BY <1>w
<1>6. h5 \in Seq(S) /\ Len(h5) = 5 /\ h5[3] = 32 /\ h5[4] = 44 * 256 + 7
  <2> DEFINE b == 44 * 256 + 7
  <2>1. b \in Word /\ h5 = <<0, 0, 32, b, k>>
    BY <1>w
  <2> HIDE DEF k, b
  <2>2. <<0, 0, 32, b, k>> \in Seq(S) /\ Len(<<0, 0, 32, b, k>>) = 5
    BY <1>w, <2>1
  <2>3. <<0, 0, 32, b, k>>[3] = 32 /\ <<0, 0, 32, b, k>>[4] = b
    OBVIOUS
  <2> QED BY <2>1, <2>2, <2>3 DEF b
<1>7. \A r \in Seq(Word) : r \in Seq(S) /\ Len(r) \in Nat
  <2> HIDE DEF k
  <2> QED OBVIOUS
<1> HIDE DEF k, rest, S, p, h1, h2, h5, t1, t2
<1>8. CASE layout = "xone"
  <2>1. Behind(h1, rest)
    BY <1>2, <1>5, <1>7, Joined
  <2>2. /\ Len(h1) \in Nat /\ Len(rest) \in Nat /\ Len(h1) >= 1 /\ Len(h1) + Len(rest) >= 7
        /\ \A i \in 2 .. Len(h1) : h1[i] \in Word
    BY <1>2, <1>5
  <2>3. Words(h1 \o rest)
    BY <2>1, <2>2, WordsBehind, Zenon
  <2>4. Len(h1 \o rest) < 12
    BY <1>2, <1>5, <2>1 DEF Behind
  <2> QED BY <1>3, <1>8, <2>3, <2>4, Short, Zenon DEF p
<1>9. CASE layout = "padded"
  <2> DEFINE q == h1 \o rest
  <2>1. q \in Seq(S) /\ Behind(h1, rest)
    BY <1>2, <1>5, <1>7, Joined
  <2>2. Len(q) = 7 /\ \A i \in 2 .. 7 : q[i] \in Word
    <3>1. \A i \in 2 .. 7 : i \in Len(h1) + 1 .. Len(h1) + Len(rest)
      BY <1>2, <1>5
    <3>2. \A i \in Len(h1) + 1 .. Len(h1) + Len(rest) : q[i] \in Word
      BY <2>1 DEF Behind
    <3>3. Len(q) = 7
      BY <1>2, <1>5, <2>1 DEF Behind
    <3> HIDE DEF q
    <3> QED BY <3>1, <3>2, <3>3
  <2>3. p = q \o t2
    BY <1>3, <1>9
  <2> HIDE DEF q
  <2>4. Behind(q, t2)
    BY <1>5, <1>7, <2>1, Joined
  <2>5. /\ Len(q) \in Nat /\ Len(t2) \in Nat /\ Len(q) >= 1 /\ Len(q) + Len(t2) >= 7
        /\ \A i \in 2 .. Len(q) : q[i] \in Word
    BY <1>5, <2>2
  <2>6. Words(q \o t2)
    BY <2>4, <2>5, WordsBehind, Zenon
  <2>7. Len(q \o t2) < 12
    BY <1>5, <2>2, <2>4 DEF Behind
  <2> QED BY <2>3, <2>6, <2>7, Short, Zenon DEF p
<1>10. CASE layout = "xow"
  <2>1. Behind(h2, rest)
    BY <1>2, <1>5, <1>7, Joined
  <2>2. /\ Len(h2) \in Nat /\ Len(rest) \in Nat /\ Len(h2) >= 1 /\ Len(h2) + Len(rest) >= 7
        /\ \A i \in 2 .. Len(h2) : h2[i] \in Word
    BY <1>2, <1>5
  <2>3. Words(h2 \o rest)
    BY <2>1, <2>2, WordsBehind, Zenon
  <2>4. Len(h2 \o rest) < 12
    BY <1>2, <1>5, <2>1 DEF Behind
  <2> QED BY <1>3, <1>10, <2>3, <2>4, Short, Zenon DEF p
<1>11. CASE layout = "wrapped"
  <2> DEFINE q == h5 \o rest
             inner == SubSeq(p, 5, 12)
  <2>1. q \in Seq(S) /\ Behind(h5, rest)
    BY <1>2, <1>6, <1>7, Joined
  <2>2. /\ Len(q) = 11 /\ q[3] = 32 /\ q[4] = 44 * 256 + 7
        /\ \A i \in 6 .. 11 : q[i] \in Word
    <3>1. Len(q) = 11
      BY <1>2, <1>6, <2>1 DEF Behind
    <3>2. \A i \in 1 .. Len(h5) : q[i] = h5[i]
      BY <2>1 DEF Behind
    <3>3. \A i \in Len(h5) + 1 .. Len(h5) + Len(rest) : q[i] \in Word
      BY <2>1 DEF Behind
    <3> HIDE DEF q
    <3>4. q[3] = 32 /\ q[4] = 44 * 256 + 7
      BY <1>6, <3>2
    <3>5. \A i \in 6 .. 11 : q[i] \in Word
      <4>1. \A i \in 6 .. 11 : i \in Len(h5) + 1 .. Len(h5) + Len(rest)
        BY <1>2, <1>6
      <4> QED BY <3>3, <4>1
    <3> QED BY <3>1, <3>4, <3>5
  <2>3. p = q \o t1
    BY <1>4, <1>11
  <2> HIDE DEF q
  <2>4. p \in Seq(S) /\ Behind(q, t1)
    BY <1>5, <1>7, <2>1, <2>3, Joined
  <2>5. /\ Len(p) = 12 /\ p[3] = 32 /\ p[4] = 44 * 256 + 7
        /\ \A i \in 6 .. 12 : p[i] \in Word
    <3>1. \A i \in 3 .. 11 : i \in 1 .. Len(q)
      BY <2>2
    <3>2. Len(p) = 12
      BY <1>5, <2>2, <2>3, <2>4 DEF Behind
    <3>3. \A i \in 3 .. 11 : p[i] = q[i]
      BY <2>3, <2>4, <3>1, SMTT(60) DEF Behind
    <3>4. \A i \in Len(q) + 1 .. Len(q) + Len(t1) : p[i] \in Word
      BY <2>3, <2>4 DEF Behind
    <3>5. p[3] = 32 /\ p[4] = 44 * 256 + 7
      BY <2>2, <3>3
    <3>6. \A i \in 6 .. 11 : p[i] \in Word
      BY <2>2, <3>3
    <3>7. p[12] \in Word
      BY <1>5, <2>2, <3>4
    <3>8. \A i \in 6 .. 12 : i \in 6 .. 11 \/ i = 12
      OBVIOUS
    <3>9. \A i \in 6 .. 12 : p[i] \in Word
      BY <3>6, <3>7, <3>8
    <3> QED BY <3>2, <3>5, <3>9
  <2>6. Unwrapped(p) = inner
    BY <2>5 DEF Unwrapped
  <2>7. Len(inner) = 8 /\ \A i \in 1 .. 8 : inner[i] = p[i + 4]
    BY <2>4, <2>5
  <2> HIDE DEF inner
  <2>8. Words(inner)
    BY <2>5, <2>7 DEF Words
  <2>9. Parsed(inner) \in GipState
    BY <2>8, ParsedIsState, Zenon
  <2> QED BY <2>6, <2>9 DEF p
<1> QED BY <1>8, <1>9, <1>10, <1>11, EventStreamAssumption

-----------------------------------------------------------------------------
(* Reports                                                                 *)

LEMMA HatRange == ASSUME NEW buttons PROVE Hat(buttons) \in 0 .. 8
<1> DEFINE Compass == <<{"up"}, {"up", "right"}, {"right"}, {"down", "right"},
                        {"down"}, {"down", "left"}, {"left"}, {"up", "left"}>>
           d == buttons \cap Dpad
           Found == \E i \in 1 .. 8 : Compass[i] = d
           at == CHOOSE i \in 1 .. 8 : Compass[i] = d
<1>1. Hat(buttons) = IF Found THEN at - 1 ELSE 8
  BY Zenon DEF Hat
<1>2. Found => at \in 1 .. 8
  <2> HIDE DEF Compass, d
  <2> QED OBVIOUS
<1> HIDE DEF Found, at
<1> QED BY <1>1, <1>2

LEMMA ReportOfState == ASSUME NEW g \in GipState, NEW guide \in BOOLEAN PROVE GipToHid(g, guide) \in Report
<1> DEFINE keys == (g.buttons \ Dpad) \cup (IF guide THEN {"guide"} ELSE {})
           hat == Hat(g.buttons)
<1>1. /\ g.lt \in Word /\ g.rt \in Word /\ g.lx \in Int16 /\ g.ly \in Int16
      /\ g.rx \in Int16 /\ g.ry \in Int16
  BY DEF GipState
<1>2. g.buttons \in SUBSET Button
  BY DEF GipState
<1>3. keys \in SUBSET (Button \cup {"guide"})
  BY <1>2
<1>4. hat \in 0 .. 8
  BY HatRange
<1>5. GipToHid(g, guide) =
        [buttons |-> keys, hat |-> hat, lx |-> g.lx, ly |-> g.ly, rx |-> g.rx,
         ry |-> g.ry, lt |-> g.lt, rt |-> g.rt]
  BY DEF GipToHid
<1> HIDE DEF keys, hat
<1> QED BY <1>1, <1>3, <1>4, <1>5 DEF Report

LEMMA ReportsStay ==
  /\ ZeroReport \in Report
  /\ \A r \in Report : [r EXCEPT !.hat = 8] \in Report
  /\ \A r \in Report, p \in BOOLEAN : WithGuide(r, p) \in Report
<1>1. 0 \in Int16 /\ 0 \in Word
  BY Int16Range DEF Word
<1>2. ZeroReport \in Report
  BY <1>1 DEF ZeroReport, Report
<1>3. \A r \in Report : [r EXCEPT !.hat = 8] \in Report
  BY DEF Report
<1>4. \A r \in Report, p \in BOOLEAN : WithGuide(r, p) \in Report
  BY DEF WithGuide, Report
<1> QED BY <1>2, <1>3, <1>4

-----------------------------------------------------------------------------
(* What a joystick shows                                                   *)

\* The scaled value of a stick lies on the side the stick is deflected to.
LEMMA ScaleKeepsSide == \A v \in Int : Agrees(Scale(v), v)
<1> SUFFICES ASSUME NEW v \in Int PROVE Agrees(Scale(v), v)
  BY Zenon
<1>1. StickGain \in Nat /\ StickGain >= 1 /\ Deadzone \in Nat
  BY Scales
<1>2. v * StickGain \in Int /\ (v > 0 => v * StickGain > 0) /\ (v < 0 => v * StickGain < 0)
  BY <1>1, SMTT(60)
<1>3. \A x \in Int : /\ x > 0 => Clamp(x, -32768, 32767) > 0
                     /\ x < 0 => Clamp(x, -32768, 32767) < 0
  <2> DEFINE lo == -32768
             hi == 32767
  <2>1. lo \in Int /\ hi \in Int /\ lo < 0 /\ 0 < hi
    OBVIOUS
  <2>2. \A x \in Int : (x > 0 => Clamp(x, lo, hi) > 0) /\ (x < 0 => Clamp(x, lo, hi) < 0)
    <3> HIDE DEF lo, hi
    <3> QED BY <2>1, SMT DEF Clamp
  <2> QED BY <2>2
<1>4. CASE v > -Deadzone /\ v < Deadzone
  BY <1>1, <1>4, SMTT(60) DEF Agrees, Scale
<1>5. CASE ~(v > -Deadzone /\ v < Deadzone)
  <2>1. Scale(v) = Clamp(v * StickGain, -32768, 32767)
    BY <1>5, SMTT(60) DEF Scale
  <2>2. CASE v > 0
    BY <1>1, <1>2, <1>3, <2>1, <2>2, SMTT(60) DEF Agrees
  <2>3. CASE v < 0
    BY <1>1, <1>2, <1>3, <2>1, <2>3, SMTT(60) DEF Agrees
  <2>4. CASE v = 0
    BY <2>4, SMTT(60) DEF Agrees
  <2> QED BY <2>2, <2>3, <2>4, SMTT(60)
<1> QED BY <1>4, <1>5, SMTT(60)

\* A trigger's axis is never negative.
FullScale(c) == (c * 32767) \div 4095

LEMMA PulledIsInt == \A v \in Pulled : v \in Int /\ 0 <= v /\ v <= 4095
<1> DEFINE hi == 4095
<1>1. Pulled = 0 .. hi
  BY DEF Pulled
<1>2. \A v \in Pulled : v \in Int /\ 0 <= v /\ v <= hi
  <2> HIDE DEF hi
  <2> QED BY <1>1, Within
<1> QED BY <1>2

LEMMA PulledRange == \A v \in Int : 0 <= v /\ v <= 4095 <=> v \in Pulled
<1> DEFINE hi == 4095
<1>1. hi \in Int /\ Pulled = 0 .. hi
  BY DEF Pulled
<1>2. \A v \in Int : 0 <= v /\ v <= hi <=> v \in Pulled
  <2> HIDE DEF hi
  <2> QED BY <1>1, Between
<1> QED BY <1>2

\* What is clamped lies between the limits.
LEMMA PulledClamp == \A v \in Int : Clamp(v, 0, 4095) \in Pulled
<1> DEFINE hi == 4095
<1>1. hi \in Int /\ 0 <= hi /\ Pulled = 0 .. hi
  BY DEF Pulled
<1>2. \A v \in Int : Clamp(v, 0, hi) \in Pulled
  <2> HIDE DEF hi
  <2>1. ASSUME NEW v \in Int PROVE Clamp(v, 0, hi) \in 0 .. hi
    BY <1>1 DEF Clamp
  <2> QED BY <1>1, <2>1, Zenon
<1> QED BY <1>2

LEMMA Fifteen ==
  ASSUME NEW c \in Pulled
  PROVE  FullScale(c) \in Int /\ 0 <= FullScale(c) /\ FullScale(c) <= 32767
<1>1. c \in Int /\ 0 <= c /\ c <= 4095
  BY PulledIsInt
<1> QED BY <1>1, SMTT(60) DEF FullScale

LEMMA NoWrap == ASSUME NEW n \in Int, 0 <= n, n <= 32767 PROVE ToInt16(n) = n
<1>1. ASSUME NEW q \in Nat \ {0}, NEW m \in Int, 0 <= m, m < q PROVE m % q = m
  BY <1>1
<1>2. n + 32768 \in Int /\ 0 <= n + 32768 /\ n + 32768 < 65536
  OBVIOUS
<1>3. (n + 32768) % 65536 = n + 32768
  BY <1>1, <1>2, SMTT(60)
<1> QED BY <1>3, SMTT(60) DEF ToInt16

LEMMA TriggersArePositive == ASSUME NEW v \in Int PROVE TriggerAxis(v) >= 0
<1> DEFINE c == Clamp(v, 0, 4095)
           n == FullScale(c)
<1>1. c \in Pulled
  BY PulledClamp
<1>2. TriggerAxis(v) = ToInt16(n)
  BY SMTT(60) DEF TriggerAxis, FullScale
<1> HIDE DEF c
<1>3. n \in Int /\ 0 <= n /\ n <= 32767
  BY <1>1, Fifteen
<1> HIDE DEF n
<1>4. ToInt16(n) = n
  BY <1>3, NoWrap
<1> QED BY <1>2, <1>3, <1>4

\* The places of the axes when nothing is swapped.
LEMMA AxesInOrder ==
  ASSUME NEW g, ~SwapSticks, ~XoneLayout
  PROVE  /\ Axes(g)[1] = Scale(g.lx) /\ Axes(g)[2] = Scale(-g.ly)
         /\ Axes(g)[3] = Scale(g.rx) /\ Axes(g)[4] = Scale(-g.ry)
         /\ \E v, w \in {g.lt, g.rt} : Axes(g)[5] = TriggerAxis(v) /\ Axes(g)[6] = TriggerAxis(w)
<1> DEFINE a1 == Scale(g.lx)
           a2 == Scale(-g.ly)
           a3 == Scale(g.rx)
           a4 == Scale(-g.ry)
           v == IF SwapLr THEN g.rt ELSE g.lt
           w == IF SwapLr THEN g.lt ELSE g.rt
           a5 == TriggerAxis(v)
           a6 == TriggerAxis(w)
           a == Axes(g)
<1>1. a = <<a1, a2>> \o <<a3, a4>> \o <<a5, a6>>
  BY DEF Axes
<1>2. v \in {g.lt, g.rt} /\ w \in {g.lt, g.rt}
  OBVIOUS
<1>3. a[1] = a1 /\ a[2] = a2 /\ a[3] = a3 /\ a[4] = a4 /\ a[5] = a5 /\ a[6] = a6
  <2> HIDE DEF a, a1, a2, a3, a4, a5, a6
  <2> QED BY <1>1
<1>4. \E x, y \in {g.lt, g.rt} : a[5] = TriggerAxis(x) /\ a[6] = TriggerAxis(y)
  <2>1. a[5] = TriggerAxis(v) /\ a[6] = TriggerAxis(w)
    <3> HIDE DEF a, a1, a2, a3, a4
    <3> QED BY <1>3
  <2> HIDE DEF a, v, w
  <2> QED BY <1>2, <2>1
<1>5. a[1] = a1 /\ a[2] = a2 /\ a[3] = a3 /\ a[4] = a4
  <2> HIDE DEF a, a1, a2, a3, a4, a5, a6
  <2> QED BY <1>3
<1> QED BY <1>4, <1>5, Zenon

-----------------------------------------------------------------------------
(* The daemon and the port                                                 *)

\* What is sent arrives in the socket or is noted as missed.
LEMMA SendKeeps ==
  ASSUME StreamOK, NEW e \in UdpEvent, Send(e)
  PROVE  /\ queue' \in Seq(UdpEvent) /\ Len(queue') <= conf.cap
         /\ missed' \in [Slot -> BOOLEAN]
<1>1. conf.cap \in Nat
  BY SettingsAssumption DEF StreamOK
<1>2. e.slot \in Slot
  BY DEF UdpEvent
<1>3. missed' \in [Slot -> BOOLEAN]
  <2>1. (missed[e.slot] /\ ~Resync(e)) \in BOOLEAN /\ missed \in [Slot -> BOOLEAN]
    BY DEF StreamOK
  <2>2. \/ missed' = [missed EXCEPT ![e.slot] = (missed[e.slot] /\ ~Resync(e))]
        \/ missed' = [missed EXCEPT ![e.slot] = TRUE]
    BY DEF Send
  <2>3. CASE missed' = [missed EXCEPT ![e.slot] = TRUE]
    BY <2>1, <2>3
  <2>4. CASE missed' = [missed EXCEPT ![e.slot] = (missed[e.slot] /\ ~Resync(e))]
    <3> DEFINE m == missed[e.slot] /\ ~Resync(e)
    <3>1. m \in BOOLEAN /\ missed' = [missed EXCEPT ![e.slot] = m]
      BY <2>4
    <3> HIDE DEF m
    <3> QED BY <2>1, <3>1
  <2> QED BY <2>2, <2>3, <2>4
<1>4. CASE UNCHANGED queue
  BY <1>3, <1>4 DEF StreamOK
<1>5. CASE Len(queue) < conf.cap /\ queue' = Append(queue, e)
  <2>1. queue \in Seq(UdpEvent)
    BY DEF StreamOK
  <2>2. queue' \in Seq(UdpEvent) /\ Len(queue') = Len(queue) + 1
    BY <1>5, <2>1
  <2>3. Len(queue) \in Nat
    BY <2>1
  <2> QED BY <1>1, <1>3, <1>5, <2>2, <2>3
<1> QED BY <1>4, <1>5 DEF Send

\* The daemon's own handlers.
LEMMA DaemonKeeps ==
  ASSUME StreamOK, Daemon
  PROVE  StreamOK' /\ conf' = conf
<1>1. PICK s \in conf.pads :
        \/ OnConnect(s)
        \/ OnDisconnect(s)
        \/ \E g \in Inputs, layout \in Layouts : OnInput(s, g, layout)
        \/ \E pressed \in BOOLEAN : OnGuide(s, pressed)
  BY DEF Daemon
<1>2. s \in Slot
  BY SettingsAssumption DEF StreamOK
<1>3. /\ slots[s] \in SlotRecord /\ slots \in [Slot -> SlotRecord]
      /\ slots[s].guide_pressed \in BOOLEAN /\ slots[s].last_report \in Report
  BY <1>2 DEF StreamOK, SlotRecord
<1>4. ASSUME NEW e \in UdpEvent, Send(e), NEW r \in SlotRecord, slots' = [slots EXCEPT ![s] = r],
             held' \in [Slot -> Inputs \cup {NoInput}], UNCHANGED <<conf, port>>
      PROVE  StreamOK' /\ conf' = conf
  <2>1. /\ queue' \in Seq(UdpEvent) /\ Len(queue') <= conf.cap
        /\ missed' \in [Slot -> BOOLEAN]
    BY <1>4, SendKeeps
  <2>2. slots' \in [Slot -> SlotRecord]
    BY <1>2, <1>3, <1>4
  <2> QED BY <1>4, <2>1, <2>2 DEF StreamOK
<1>5. CASE OnConnect(s)
  <2> DEFINE e == [type |-> "connected", slot |-> s]
             r == [slots[s] EXCEPT !.active = TRUE, !.last_report.hat = 8]
  <2>1. e \in UdpEvent
    BY <1>2 DEF UdpEvent
  <2>2. r \in SlotRecord
    <3>1. [slots[s].last_report EXCEPT !.hat = 8] \in Report
      BY <1>3, ReportsStay
    <3> QED BY <1>3, <3>1 DEF SlotRecord
  <2>3. slots' = [slots EXCEPT ![s] = r]
    BY <1>2, <1>3, <1>5 DEF OnConnect, SlotRecord
  <2>4. held' \in [Slot -> Inputs \cup {NoInput}]
    BY <1>5 DEF OnConnect, StreamOK
  <2>5. Send(e) /\ UNCHANGED <<conf, port>>
    BY <1>5 DEF OnConnect
  <2> HIDE DEF e, r
  <2> QED BY <1>4, <2>1, <2>2, <2>3, <2>4, <2>5
<1>6. CASE OnDisconnect(s)
  <2> DEFINE e == [type |-> "disconnected", slot |-> s]
  <2>1. e \in UdpEvent
    BY <1>2 DEF UdpEvent
  <2>2. EmptySlot \in SlotRecord
    BY ReportsStay DEF EmptySlot, SlotRecord
  <2>3. held' \in [Slot -> Inputs \cup {NoInput}]
    BY <1>6 DEF OnDisconnect, StreamOK
  <2>4. Send(e) /\ slots' = [slots EXCEPT ![s] = EmptySlot] /\ UNCHANGED <<conf, port>>
    BY <1>6 DEF OnDisconnect
  <2> HIDE DEF e
  <2> QED BY <1>4, <2>1, <2>2, <2>3, <2>4
<1>7. ASSUME NEW g \in Inputs, NEW layout \in Layouts, OnInput(s, g, layout)
      PROVE  StreamOK' /\ conf' = conf
  <2> DEFINE read == Parsed(Unwrapped(Encode(g, layout)))
             e == [type |-> "input", slot |-> s, gip |-> read]
             new == GipToHid(read, slots[s].guide_pressed)
             r == [slots[s] EXCEPT !.last_report = new]
  <2>1. read \in GipState
    BY InputIsState
  <2>2. /\ slots' = [slots EXCEPT ![s] = r]
        /\ held' = [held EXCEPT ![s] = g]
        /\ Send(e) /\ UNCHANGED <<conf, port>>
    BY <1>7 DEF OnInput
  <2> HIDE DEF read
  <2>3. e \in UdpEvent
    BY <1>2, <2>1 DEF UdpEvent
  <2>4. new \in Report
    BY <1>3, <2>1, ReportOfState
  <2> HIDE DEF new, e
  <2>5. r \in SlotRecord
    BY <1>3, <2>4 DEF SlotRecord
  <2>6. held' \in [Slot -> Inputs \cup {NoInput}]
    BY <2>2 DEF StreamOK
  <2> HIDE DEF r
  <2> QED BY <1>4, <2>2, <2>3, <2>5, <2>6
<1>8. ASSUME NEW pressed \in BOOLEAN, OnGuide(s, pressed)
      PROVE  StreamOK' /\ conf' = conf
  <2> DEFINE e == [type |-> "guide", slot |-> s, pressed |-> pressed]
             new == WithGuide(slots[s].last_report, pressed)
             r == [slots[s] EXCEPT !.guide_pressed = pressed, !.last_report = new]
  <2>1. e \in UdpEvent
    BY <1>2 DEF UdpEvent
  <2>2. new \in Report
    BY <1>3, ReportsStay
  <2>3. /\ slots' = [slots EXCEPT ![s] = r]
        /\ Send(e) /\ UNCHANGED <<conf, port, held>>
    BY <1>2, <1>3, <1>8 DEF OnGuide, SlotRecord
  <2> HIDE DEF new, e
  <2>4. r \in SlotRecord
    BY <1>3, <2>2 DEF SlotRecord
  <2>5. held' \in [Slot -> Inputs \cup {NoInput}]
    BY <2>3 DEF StreamOK
  <2> HIDE DEF r
  <2> QED BY <1>4, <2>1, <2>3, <2>4, <2>5
<1> QED BY <1>1, <1>5, <1>6, <1>7, <1>8

\* A consumer takes the first event.
LEMMA TakeKeeps ==
  ASSUME StreamOK, queue # <<>>, queue' = Tail(queue),
         NEW refused, Missed(Head(queue), refused), UNCHANGED <<conf, slots, held, port>>
  PROVE  StreamOK' /\ Head(queue) \in UdpEvent
<1>1. queue \in Seq(UdpEvent) /\ missed \in [Slot -> BOOLEAN]
  BY DEF StreamOK
<1>2. Head(queue) \in UdpEvent /\ queue' \in Seq(UdpEvent) /\ Len(queue') = Len(queue) - 1
  BY <1>1
<1>3. Len(queue) \in Nat /\ Len(queue) <= conf.cap /\ conf.cap \in Nat
  BY <1>1, SettingsAssumption DEF StreamOK
<1>4. missed' \in [Slot -> BOOLEAN]
  BY <1>1 DEF Missed
<1> QED BY <1>2, <1>3, <1>4 DEF StreamOK

-----------------------------------------------------------------------------
(* The injector's slots                                                    *)

Corrects == [buttons : SUBSET Button, lt : Pulled, rt : Pulled,
             lx : Shift, ly : Shift, rx : Shift, ry : Shift]

LEMMA CorrectsFields ==
  ASSUME NEW g \in Corrects
  PROVE  /\ g.lx \in Shift /\ g.ly \in Shift /\ g.rx \in Shift /\ g.ry \in Shift
         /\ g.lt \in Pulled /\ g.rt \in Pulled
  BY Zenon DEF Corrects

LEMMA MagnitudeRange == ASSUME NEW v \in Int PROVE Magnitude(v) \in Pulled
<1> DEFINE m == IF v < 0 THEN -v ELSE v
<1>1. m \in Int
  OBVIOUS
<1>2. Magnitude(v) = Clamp(m, 0, 4095)
  BY DEF Magnitude
<1> HIDE DEF m
<1> QED BY <1>1, <1>2, PulledClamp

LEMMA TriggerDifference == ASSUME NEW x \in Word, NEW y \in Word PROVE Magnitude(x - y) \in Pulled
<1> DEFINE d == x - y
<1>1. d \in Int
  BY WordBounds
<1> HIDE DEF d
<1>2. Magnitude(d) \in Pulled
  BY <1>1, MagnitudeRange
<1> QED BY <1>2 DEF d

LEMMA CorrectedIsTyped ==
  ASSUME NEW g \in GipState, NEW base \in GipState
  PROVE  Corrected(g, base) \in Corrects
<1> DEFINE lt == Magnitude(g.lt - base.lt)
           rt == Magnitude(g.rt - base.rt)
<1>1. /\ g.lt \in Word /\ g.rt \in Word /\ base.lt \in Word /\ base.rt \in Word
      /\ g.lx \in Int16 /\ g.ly \in Int16 /\ g.rx \in Int16 /\ g.ry \in Int16
      /\ base.lx \in Int16 /\ base.ly \in Int16 /\ base.rx \in Int16 /\ base.ry \in Int16
      /\ g.buttons \in SUBSET Button
  <2> HIDE DEF Button
  <2> QED BY DEF GipState
<1>2. lt \in Pulled /\ rt \in Pulled
  BY <1>1, TriggerDifference
<1>3. /\ g.lx - base.lx \in Shift /\ g.ly - base.ly \in Shift
      /\ g.rx - base.rx \in Shift /\ g.ry - base.ry \in Shift
  BY <1>1, Differences
<1>4. Corrected(g, base) =
        [buttons |-> g.buttons, lt |-> lt, rt |-> rt,
         lx |-> g.lx - base.lx, ly |-> g.ly - base.ly,
         rx |-> g.rx - base.rx, ry |-> g.ry - base.ry]
  BY ZenonT(60) DEF Corrected
<1> HIDE DEF lt, rt, Button
<1> QED BY <1>1, <1>2, <1>3, <1>4 DEF Corrects

LEMMA PadFields ==
  Pad = [active : BOOLEAN, instance_id : InstanceId, joy : Joy \cup {NoJoy},
         calibrated : BOOLEAN, base : GipState, now : Corrects]
  BY Zenon DEF Pad, Corrects

LEMMA EmptyPadIsTyped == ZeroGip \in GipState /\ EmptyPad \in Pad
<1>1. 0 \in Int16 /\ 0 \in Word /\ 0 \in Shift /\ 0 \in Pulled
  BY Int16Range, WordRange, ShiftRange, PulledRange
<1>2. ZeroGip \in GipState /\ ZeroGip \in Corrects
  <2>1. {} \in SUBSET Button
    OBVIOUS
  <2> HIDE DEF Button
  <2> QED BY <1>1, <2>1 DEF ZeroGip, GipState, Corrects
<1>3. EmptyPad \in Pad
  <2>1. /\ -1 \in InstanceId /\ NoJoy \in Joy \cup {NoJoy} /\ FALSE \in BOOLEAN
    BY InstanceIds
  <2> QED BY <1>2, <2>1, PadFields DEF EmptyPad
<1> QED BY <1>2, <1>3

-----------------------------------------------------------------------------
(* SDL's joysticks                                                         *)

\* What can be attached finds SDL below its limit.
LEMMA RoomLeft == ASSUME "ok" \in AttachOutcome PROVE Len(sdl.attached) # MaxJoys
<1> SUFFICES ASSUME Len(sdl.attached) = MaxJoys PROVE FALSE
  BY Zenon
<1>1. AttachOutcome = {"no_attach"}
  BY Zenon DEF AttachOutcome
<1> QED BY <1>1

\* Below its limit SDL finds a joystick that no one has.
LEMMA Fresh ==
  ASSUME SdlOK(sdl), inj \in [Slot -> Pad], Len(sdl.attached) < MaxJoys
  PROVE  /\ FreshJoy \in Joy
         /\ \A i \in DOMAIN sdl.attached : sdl.attached[i] # FreshJoy
         /\ \A s \in Slot : inj[s].joy # FreshJoy
<1> DEFINE Free(j) == /\ \A i \in DOMAIN sdl.attached : sdl.attached[i] # j
                      /\ \A s \in Slot : inj[s].joy # j
           n == Len(sdl.attached)
           T == 1 .. n + MaxSlots
           At(j) == CHOOSE i \in DOMAIN sdl.attached : sdl.attached[i] = j
           Of(j) == CHOOSE s \in Slot : inj[s].joy = j
           f == [j \in Joy |-> IF \E i \in DOMAIN sdl.attached : sdl.attached[i] = j
                               THEN At(j) ELSE n + 1 + Of(j)]
<1>1. n \in Nat /\ DOMAIN sdl.attached = 1 .. n /\ MaxJoys \in Nat /\ MaxSlots \in Nat /\ n < MaxJoys
  BY Sizes DEF SdlOK
<1>2. IsFiniteSet(Joy) /\ Cardinality(Joy) = MaxJoys + MaxSlots
  <2> DEFINE hi == MaxJoys + MaxSlots
  <2>1. 1 \in Int /\ hi \in Int /\ hi >= 1
    BY <1>1
  <2>2. Joy = 1 .. hi
    BY DEF Joy
  <2> HIDE DEF hi
  <2>3. IsFiniteSet(1 .. hi) /\ Cardinality(1 .. hi) = IF 1 > hi THEN 0 ELSE hi - 1 + 1
    BY <2>1, FS_Interval, Zenon
  <2>4. IsFiniteSet(Joy) /\ Cardinality(Joy) = hi
    BY <2>1, <2>2, <2>3
  <2> QED BY <2>4 DEF hi
<1>3. IsFiniteSet(T) /\ Cardinality(T) = n + MaxSlots
  <2> DEFINE hi == n + MaxSlots
  <2>1. 1 \in Int /\ hi \in Int /\ hi >= 1
    <3> HIDE DEF n
    <3> QED BY <1>1, Sizes
  <2> HIDE DEF hi
  <2>2. IsFiniteSet(1 .. hi) /\ Cardinality(1 .. hi) = IF 1 > hi THEN 0 ELSE hi - 1 + 1
    BY <2>1, FS_Interval, Zenon
  <2>3. IsFiniteSet(1 .. hi) /\ Cardinality(1 .. hi) = hi
    BY <2>1, <2>2
  <2> QED BY <2>3 DEF hi
<1>4. Cardinality(T) < Cardinality(Joy)
  <2> HIDE DEF n, T
  <2> QED BY <1>1, <1>2, <1>3
<1>5. \E j \in Joy : Free(j)
  <2> SUFFICES ASSUME \A j \in Joy : ~Free(j) PROVE FALSE
    OBVIOUS
  <2>1. ASSUME NEW j \in Joy, \E i \in DOMAIN sdl.attached : sdl.attached[i] = j
        PROVE  f[j] = At(j) /\ f[j] \in 1 .. n /\ sdl.attached[f[j]] = j
    <3>1. At(j) \in DOMAIN sdl.attached /\ sdl.attached[At(j)] = j
      BY <2>1
    <3>2. f[j] = At(j)
      BY <2>1
    <3> HIDE DEF f, At, n
    <3> QED BY <1>1, <3>1, <3>2
  <2>2. ASSUME NEW j \in Joy, ~\E i \in DOMAIN sdl.attached : sdl.attached[i] = j
        PROVE  /\ f[j] = n + 1 + Of(j) /\ Of(j) \in Slot /\ inj[Of(j)].joy = j
               /\ f[j] \in n + 1 .. n + MaxSlots
    <3>1. \E s \in Slot : inj[s].joy = j
      BY <2>2
    <3>2. Of(j) \in Slot /\ inj[Of(j)].joy = j
      BY <3>1
    <3>3. f[j] = n + 1 + Of(j)
      BY <2>2
    <3> HIDE DEF f, Of, n
    <3> QED BY <1>1, <3>2, <3>3 DEF Slot
  <2>3. f \in [Joy -> T]
    <3>1. \A j \in Joy : f[j] \in T
      <4> HIDE DEF f, n, At, Of
      <4> QED BY <1>1, <2>1, <2>2
    <3>2. f = [j \in Joy |-> f[j]]
      OBVIOUS
    <3> HIDE DEF f, T
    <3> QED BY <3>1, <3>2
  <2>4. PICK x \in Joy, y \in Joy : x # y /\ f[x] = f[y]
    <3> HIDE DEF f, T
    <3> QED BY <1>2, <1>3, <1>4, <2>3, FS_PigeonHole
  <2> HIDE DEF f, n, At
  <2>5. CASE \E i \in DOMAIN sdl.attached : sdl.attached[i] = x
    <3>1. f[x] \in 1 .. n /\ sdl.attached[f[x]] = x
      BY <2>1, <2>5
    <3>2. CASE \E i \in DOMAIN sdl.attached : sdl.attached[i] = y
      BY <2>1, <2>4, <3>1, <3>2
    <3>3. CASE ~\E i \in DOMAIN sdl.attached : sdl.attached[i] = y
      <4>1. f[y] \in n + 1 .. n + MaxSlots
        BY <2>2, <3>3
      <4> QED BY <1>1, <2>4, <3>1, <4>1
    <3> QED BY <3>2, <3>3
  <2>6. CASE ~\E i \in DOMAIN sdl.attached : sdl.attached[i] = x
    <3>1. f[x] = n + 1 + Of(x) /\ Of(x) \in Slot /\ inj[Of(x)].joy = x /\ f[x] \in n + 1 .. n + MaxSlots
      BY <2>2, <2>6
    <3>2. CASE \E i \in DOMAIN sdl.attached : sdl.attached[i] = y
      <4>1. f[y] \in 1 .. n
        BY <2>1, <3>2
      <4> QED BY <1>1, <2>4, <3>1, <4>1
    <3>3. CASE ~\E i \in DOMAIN sdl.attached : sdl.attached[i] = y
      <4>1. f[y] = n + 1 + Of(y) /\ Of(y) \in Slot /\ inj[Of(y)].joy = y
        BY <2>2, <3>3
      <4>2. Of(x) = Of(y)
        <5> DEFINE a == Of(x)
                   b == Of(y)
        <5>1. f[x] = n + 1 + a /\ f[y] = n + 1 + b /\ a \in Slot /\ b \in Slot
          BY <3>1, <4>1
        <5> HIDE DEF a, b
        <5>2. a \in Int /\ b \in Int
          BY <1>1, <5>1 DEF Slot
        <5>3. n + 1 + a = n + 1 + b
          BY <2>4, <5>1
        <5>4. a = b
          BY <1>1, <5>2, <5>3
        <5> QED BY <5>4 DEF a, b
      <4> HIDE DEF Of
      <4> QED BY <2>4, <3>1, <4>1, <4>2
    <3> QED BY <3>2, <3>3
  <2> QED BY <2>5, <2>6
<1> DEFINE fj == CHOOSE j \in Joy : Free(j)
<1>6. fj \in Joy /\ Free(fj)
  BY <1>5
<1>7. FreshJoy = fj
  BY DEF FreshJoy
<1> HIDE DEF fj
<1> QED BY <1>6, <1>7, SMTT(60)

\* The list of joysticks without one of them.
LEMMA Removed ==
  ASSUME NEW q \in Seq(Joy), NEW i \in 1 .. Len(q)
  PROVE  /\ RemoveAt(q, i) \in Seq(Joy) /\ Len(RemoveAt(q, i)) = Len(q) - 1
         /\ \A k \in 1 .. Len(q) - 1 : RemoveAt(q, i)[k] = IF k < i THEN q[k] ELSE q[k + 1]
<1> DEFINE l == SubSeq(q, 1, i - 1)
           r == SubSeq(q, i + 1, Len(q))
<1>1. l \in Seq(Joy) /\ Len(l) = i - 1 /\ \A k \in 1 .. i - 1 : l[k] = q[k]
  OBVIOUS
<1>2. r \in Seq(Joy) /\ Len(r) = Len(q) - i /\ \A k \in 1 .. Len(q) - i : r[k] = q[k + i]
  OBVIOUS
<1>3. Len(q) \in Nat /\ i \in 1 .. Len(q)
  OBVIOUS
<1>4. RemoveAt(q, i) = l \o r
  BY DEF RemoveAt
<1> HIDE DEF l, r
<1>5. /\ l \o r \in Seq(Joy) /\ Len(l \o r) = Len(l) + Len(r)
      /\ \A k \in 1 .. Len(l) + Len(r) : (l \o r)[k] = IF k <= Len(l) THEN l[k] ELSE r[k - Len(l)]
  BY <1>1, <1>2, ConcatProperties, ZenonT(60)
<1> DEFINE c == l \o r
<1>6. c \in Seq(Joy) /\ Len(c) = Len(q) - 1
  BY <1>1, <1>2, <1>3, <1>5
<1>7. ASSUME NEW k \in 1 .. Len(q) - 1
      PROVE  c[k] = IF k < i THEN q[k] ELSE q[k + 1]
  <2>1. c[k] = IF k <= Len(l) THEN l[k] ELSE r[k - Len(l)]
    BY <1>1, <1>2, <1>3, <1>5, SMTT(60)
  <2> HIDE DEF c
  <2>2. CASE k < i
    BY <1>1, <1>3, <2>1, <2>2
  <2>3. CASE ~(k < i)
    <3>1. k - Len(l) \in 1 .. Len(q) - i /\ (k - Len(l)) + i = k + 1 /\ ~(k <= Len(l))
      BY <1>1, <1>3, <2>3, SMTT(60)
    <3>2. r[k - Len(l)] = q[k + 1]
      BY <1>2, <3>1
    <3> QED BY <2>1, <2>3, <3>1, <3>2
  <2> QED BY <2>2, <2>3
<1> HIDE DEF c
<1> QED BY <1>4, <1>6, <1>7 DEF c

\* Finding SDL changes neither the joysticks nor, once found, the version.
LEMMA ReadyKeeps ==
  ASSUME conf \in Settings, NEW p, SdlOK(sdl), JoysOK(sdl, p)
  PROVE  /\ SdlOK(Ready(sdl)) /\ JoysOK(Ready(sdl), p)
         /\ Ready(sdl).attached = sdl.attached
         /\ sdl.api # 0 => Ready(sdl).api = sdl.api
<1> DEFINE d == Ready(sdl)
           api == IF sdl.api # 0 THEN sdl.api ELSE IF 2 \in sdl.symbols THEN 2
                  ELSE IF 3 \in sdl.symbols THEN 3 ELSE 0
<1>1. sdl = [symbols |-> sdl.symbols, api |-> sdl.api, attached |-> sdl.attached, shown |-> sdl.shown]
  BY DEF SdlOK
<1>2. d = [symbols |-> sdl.symbols, api |-> api, attached |-> sdl.attached, shown |-> sdl.shown]
  BY <1>1 DEF Ready
<1>3. d.symbols = sdl.symbols /\ d.api = api /\ d.attached = sdl.attached /\ d.shown = sdl.shown
  BY <1>2
<1>4. api \in {0} \cup sdl.symbols /\ (sdl.api # 0 => api = sdl.api) /\ (api = 0 => sdl.api = 0)
  BY DEF SdlOK
<1>5. SdlOK(d)
  <2> HIDE DEF d, api
  <2> QED BY <1>2, <1>3, <1>4 DEF SdlOK
<1>6. JoysOK(d, p)
  <2> HIDE DEF d, api
  <2>1. CASE sdl.api = 0
    <3>1. d.attached = <<>> /\ \A s \in Slot : ~p[s].active
      BY <1>3, <2>1 DEF JoysOK
    <3>2. DOMAIN d.attached = {}
      BY <3>1
    <3> QED BY <3>1, <3>2 DEF JoysOK
  <2>2. CASE sdl.api # 0
    <3>1. d.api = sdl.api /\ d.attached = sdl.attached
      BY <1>3, <1>4, <2>2
    <3> QED BY <3>1 DEF JoysOK
  <2> QED BY <2>1, <2>2
<1> HIDE DEF d
<1> QED BY <1>3, <1>4, <1>5, <1>6 DEF d

\* Only these parts of SDL and the slots matter to it.
LEMMA JoysSame ==
  ASSUME NEW d, NEW e, NEW p, NEW q, JoysOK(d, p),
         e.api = d.api, e.attached = d.attached,
         \A s \in Slot : /\ q[s].active = p[s].active /\ q[s].joy = p[s].joy
                         /\ q[s].instance_id = p[s].instance_id
  PROVE  JoysOK(e, q)
  BY DEF JoysOK

LEMMA ActiveIsBoolean == ASSUME NEW p \in [Slot -> Pad], NEW s \in Slot
                         PROVE  /\ p[s] \in Pad /\ p[s].active \in BOOLEAN /\ p[s].calibrated \in BOOLEAN
                                /\ p[s].base \in GipState /\ p[s].joy \in Joy \cup {NoJoy}
                                /\ p[s].instance_id \in InstanceId /\ p[s].now \in Corrects
<1>1. p[s] \in Pad
  OBVIOUS
<1> QED BY <1>1, PadFields

\* Connecting a slot.
LEMMA ConnectKeeps ==
  ASSUME IInv, NEW s \in Slot, NEW outcome \in AttachOutcome
  PROVE  /\ ConnectedPad(s, outcome) \in Pad
         /\ SdlOK(ConnectedSdl(s, outcome))
         /\ JoysOK(ConnectedSdl(s, outcome), [inj EXCEPT ![s] = ConnectedPad(s, outcome)])
<1> DEFINE d == Ready(sdl)
           pad == ConnectedPad(s, outcome)
           e == ConnectedSdl(s, outcome)
           q == [inj EXCEPT ![s] = pad]
           j == FreshJoy
<1>1. /\ SdlOK(d) /\ JoysOK(d, inj) /\ d.attached = sdl.attached
      /\ inj \in [Slot -> Pad] /\ SdlOK(sdl) /\ inj[s] \in Pad
  BY ReadyKeeps DEF IInv, StreamOK
<1>2. CASE d.api = 0 \/ inj[s].active \/ outcome # "ok"
  <2>1. pad = inj[s] /\ e = d
    BY <1>2 DEF ConnectedPad, ConnectedSdl
  <2>2. q = inj
    BY <1>1, <2>1
  <2> HIDE DEF pad, e, d, q
  <2> QED BY <1>1, <2>1, <2>2 DEF pad, e, q
<1>3. CASE ~(d.api = 0 \/ inj[s].active \/ outcome # "ok")
  <2>1. Len(sdl.attached) < MaxJoys
    <3>1. Len(sdl.attached) # MaxJoys
      BY <1>3, RoomLeft, Zenon
    <3>2. Len(sdl.attached) \in Nat /\ Len(sdl.attached) <= MaxJoys /\ MaxJoys \in Nat
      BY <1>1, Sizes DEF SdlOK
    <3> QED BY <3>1, <3>2
  <2>2. /\ j \in Joy
        /\ \A i \in DOMAIN sdl.attached : sdl.attached[i] # j
        /\ \A r \in Slot : inj[r].joy # j
    BY <1>1, <2>1, Fresh, Zenon
  <2> HIDE DEF j
  <2>3. e = Attached(d, j)
    BY <1>3 DEF ConnectedSdl, j
  <2> DEFINE inst == InstanceOf(d, j)
             n == Len(sdl.attached)
  <2>4. pad = [EmptyPad EXCEPT !.active = TRUE, !.joy = j, !.instance_id = inst]
    BY <1>3, SMTT(60) DEF ConnectedPad, j
  <2>5. /\ n \in Nat /\ MaxJoys \in Nat /\ MaxSlots \in Nat /\ n < MaxJoys
        /\ sdl.attached \in Seq(Joy)
    BY <1>1, <2>1, Sizes DEF SdlOK
  <2>6. inst = IF d.api = 2 THEN n ELSE j
    BY <1>1 DEF InstanceOf
  <2>7. inst \in InstanceId
    <3>1. n \in 0 .. MaxJoys + MaxSlots /\ j \in 0 .. MaxJoys + MaxSlots
      BY <2>2, <2>5 DEF Joy
    <3> HIDE DEF inst
    <3> QED BY <2>6, <3>1, InstanceIds
  <2> HIDE DEF inst
  <2>8. pad \in Pad /\ pad.active = TRUE /\ pad.joy = j /\ pad.instance_id = inst
    <3>1. EmptyPad \in Pad
      BY EmptyPadIsTyped
    <3> QED BY <2>2, <2>4, <2>7, <3>1, PadFields
  <2> DEFINE a == Append(sdl.attached, j)
             w == [d.shown EXCEPT ![j] = Shows(ZeroGip)]
  <2>9. e = [symbols |-> d.symbols, api |-> d.api, attached |-> a, shown |-> w]
    <3> DEFINE z == Shows(ZeroGip)
    <3>1. /\ d = [symbols |-> d.symbols, api |-> d.api, attached |-> sdl.attached, shown |-> d.shown]
          /\ d.attached = sdl.attached
      BY <1>1 DEF SdlOK
    <3>2. e = [d EXCEPT !.attached = Append(@, j), !.shown[j] = z]
      BY <2>3 DEF Attached
    <3> HIDE DEF d, z, e
    <3>3. e = [d EXCEPT !.attached = Append(d.attached, j), !.shown = [@ EXCEPT ![j] = z]]
      BY <3>2
    <3>4. e = [d EXCEPT !.attached = a, !.shown = w]
      BY <3>1, <3>3 DEF z
    <3> HIDE DEF a, w
    <3> QED BY <3>1, <3>4
  <2>10. /\ a \in Seq(Joy) /\ Len(a) = n + 1 /\ DOMAIN a = 1 .. n + 1
         /\ DOMAIN sdl.attached = 1 .. n /\ a[n + 1] = j
         /\ \A i \in 1 .. n : a[i] = sdl.attached[i]
    BY <2>2, <2>5
  <2> HIDE DEF a, w, n, d, e, pad
  <2>11. e.symbols = d.symbols /\ e.api = d.api /\ e.attached = a /\ e.shown = w
    BY <2>9
  <2>12. SdlOK(e)
    BY <1>1, <2>5, <2>9, <2>10, <2>11 DEF SdlOK
  <2>13. q[s] = pad /\ \A r \in Slot \ {s} : q[r] = inj[r]
    BY <1>1
  <2> HIDE DEF q
  <2>14. JoysOK(e, q)
    <3>1. e.api # 0
      BY <1>3, <2>11
    <3>2. ASSUME e.api = 3
          PROVE  /\ \A i, k \in DOMAIN a : a[i] = a[k] => i = k
                 /\ \A i \in DOMAIN a : \E r \in Slot : q[r].active /\ q[r].joy = a[i]
                 /\ \A r \in Slot : q[r].active =>
                      /\ q[r].instance_id = q[r].joy
                      /\ \E i \in DOMAIN a : a[i] = q[r].joy
                 /\ \A r, t \in Slot : q[r].active /\ q[t].active /\ q[r].joy = q[t].joy => r = t
      <4>1. d.api = 3 /\ inst = j
        BY <2>6, <2>11, <3>2
      <4>2. /\ \A i, k \in 1 .. n : sdl.attached[i] = sdl.attached[k] => i = k
            /\ \A i \in 1 .. n : \E r \in Slot : inj[r].active /\ inj[r].joy = sdl.attached[i]
            /\ \A r \in Slot : inj[r].active =>
                 /\ inj[r].instance_id = inj[r].joy
                 /\ \E i \in 1 .. n : sdl.attached[i] = inj[r].joy
            /\ \A r, t \in Slot : inj[r].active /\ inj[t].active /\ inj[r].joy = inj[t].joy => r = t
        BY <1>1, <2>10, <4>1, SMTT(60) DEF JoysOK
      <4>3. DOMAIN a = (1 .. n) \cup {n + 1}
        BY <2>5, <2>10 DEF n
      <4>4. n + 1 \notin 1 .. n
        BY <2>5 DEF n
      <4>5. \A i, k \in DOMAIN a : a[i] = a[k] => i = k
        <5> SUFFICES ASSUME NEW i \in DOMAIN a, NEW k \in DOMAIN a, a[i] = a[k] PROVE i = k
          OBVIOUS
        <5>1. i \in 1 .. n => a[i] = sdl.attached[i] /\ a[i] # j
          BY <2>2, <2>10
        <5>2. k \in 1 .. n => a[k] = sdl.attached[k] /\ a[k] # j
          BY <2>2, <2>10
        <5>3. (i \in 1 .. n \/ i = n + 1) /\ (k \in 1 .. n \/ k = n + 1)
          BY <4>3
        <5> QED BY <2>10, <4>2, <5>1, <5>2, <5>3
      <4>6. \A i \in DOMAIN a : \E r \in Slot : q[r].active /\ q[r].joy = a[i]
        <5> SUFFICES ASSUME NEW i \in DOMAIN a PROVE \E r \in Slot : q[r].active /\ q[r].joy = a[i]
          OBVIOUS
        <5>1. CASE i = n + 1
          BY <2>8, <2>10, <2>13, <5>1
        <5>2. CASE i \in 1 .. n
          <6>1. PICK r \in Slot : inj[r].active /\ inj[r].joy = sdl.attached[i]
            BY <4>2, <5>2
          <6>2. r # s
            BY <1>3, <6>1
          <6> QED BY <2>10, <2>13, <5>2, <6>1, <6>2
        <5> QED BY <4>3, <5>1, <5>2
      <4>7. ASSUME NEW r \in Slot, q[r].active
            PROVE  q[r].instance_id = q[r].joy /\ \E i \in DOMAIN a : a[i] = q[r].joy
        <5>1. CASE r = s
          BY <2>8, <2>10, <2>13, <4>1, <4>3, <5>1, ZenonT(60)
        <5>2. CASE r # s
          <6>1. q[r] = inj[r]
            BY <2>13, <5>2
          <6>2. inj[r].active
            BY <4>7, <6>1
          <6>3. q[r].instance_id = q[r].joy
            BY <4>2, <6>1, <6>2
          <6>4. PICK i \in 1 .. n : sdl.attached[i] = inj[r].joy
            BY <4>2, <6>2
          <6>5. i \in DOMAIN a /\ a[i] = q[r].joy
            BY <2>10, <4>3, <6>1, <6>4
          <6> QED BY <6>3, <6>5
        <5> QED BY <5>1, <5>2
      <4>8. \A r, t \in Slot : q[r].active /\ q[t].active /\ q[r].joy = q[t].joy => r = t
        BY <2>2, <2>8, <2>13, <4>2
      <4> QED BY <4>5, <4>6, <4>7, <4>8
    <3> QED BY <2>11, <3>1, <3>2 DEF JoysOK
  <2> QED BY <2>8, <2>12, <2>14 DEF e, q, pad
<1> HIDE DEF d
<1> QED BY <1>2, <1>3

\* Disconnecting a slot.
LEMMA DetachKeeps ==
  ASSUME IInv, NEW s \in Slot, inj[s].active
  PROVE  /\ SdlOK(Detached(sdl, inj[s].instance_id))
         /\ JoysOK(Detached(sdl, inj[s].instance_id), [inj EXCEPT ![s] = EmptyPad])
<1> DEFINE inst == inj[s].instance_id
           gone == {i \in DOMAIN sdl.attached :
                      IF sdl.api = 2 THEN i = inst + 1 ELSE sdl.attached[i] = inst}
           e == Detached(sdl, inst)
           q == [inj EXCEPT ![s] = EmptyPad]
           at == sdl.attached
           n == Len(at)
<1>1. /\ SdlOK(sdl) /\ JoysOK(sdl, inj) /\ inj \in [Slot -> Pad]
      /\ at \in Seq(Joy) /\ n \in Nat /\ n <= MaxJoys /\ DOMAIN at = 1 .. n /\ MaxJoys \in Nat
      /\ sdl = [symbols |-> sdl.symbols, api |-> sdl.api, attached |-> at, shown |-> sdl.shown]
  BY Sizes DEF IInv, SdlOK
<1>2. sdl.api # 0
  BY <1>1 DEF JoysOK
<1>3. /\ q[s] = EmptyPad /\ q[s].active = FALSE
      /\ \A r \in Slot \ {s} : q[r] = inj[r]
  BY <1>1 DEF EmptyPad
<1>4. \A r \in Slot : q[r].active => r # s /\ q[r] = inj[r]
  BY <1>3
<1>5. CASE gone = {}
  <2>1. e = sdl
    BY <1>5 DEF Detached
  <2>2. ASSUME sdl.api = 3 PROVE FALSE
    <3>1. \E i \in DOMAIN at : at[i] = inst
      BY <1>1, <2>2 DEF JoysOK
    <3> QED BY <1>5, <2>2, <3>1
  <2>3. JoysOK(sdl, q)
    BY <1>2, <2>2 DEF JoysOK
  <2> QED BY <1>1, <2>1, <2>3
<1>6. CASE gone # {}
  <2> DEFINE i == CHOOSE k \in gone : TRUE
             a == RemoveAt(at, i)
             w == [sdl.shown EXCEPT ![at[i]] = Shows(ZeroGip)]
  <2>1. i \in gone
    BY <1>6
  <2>2. i \in 1 .. n /\ (sdl.api # 2 => at[i] = inst)
    <3> HIDE DEF i, inst
    <3> QED BY <1>1, <2>1
  <2>3. /\ e = [symbols |-> sdl.symbols, api |-> sdl.api, attached |-> a, shown |-> w]
    <3> DEFINE z == Shows(ZeroGip)
    <3>1. e = [sdl EXCEPT !.attached = RemoveAt(@, i), !.shown[at[i]] = z]
      BY <1>6 DEF Detached
    <3> HIDE DEF e, z, i
    <3>2. e = [sdl EXCEPT !.attached = RemoveAt(sdl.attached, i), !.shown = [@ EXCEPT ![at[i]] = z]]
      BY <3>1
    <3>3. e = [sdl EXCEPT !.attached = a, !.shown = w]
      BY <3>2 DEF z
    <3> HIDE DEF a, w
    <3> QED BY <1>1, <3>3
  <2> HIDE DEF i, e, gone
  <2>4. /\ a \in Seq(Joy) /\ Len(a) = n - 1
        /\ \A k \in 1 .. n - 1 : a[k] = IF k < i THEN at[k] ELSE at[k + 1]
    BY <1>1, <2>2, Removed, SMTT(60)
  <2> HIDE DEF a, w, q, at
  <2>5. DOMAIN a = 1 .. n - 1
    BY <1>1, <2>4
  <2>6. e.symbols = sdl.symbols /\ e.api = sdl.api /\ e.attached = a /\ e.shown = w
    BY <2>3
  <2> HIDE DEF n
  <2>7. SdlOK(e)
    <3>1. Len(a) <= MaxJoys
      BY <1>1, <2>4
    <3> QED BY <1>1, <2>3, <2>4, <2>6, <3>1 DEF SdlOK
  <2>8. ASSUME e.api = 3
        PROVE  /\ \A k, l \in DOMAIN a : a[k] = a[l] => k = l
               /\ \A k \in DOMAIN a : \E r \in Slot : q[r].active /\ q[r].joy = a[k]
               /\ \A r \in Slot : q[r].active =>
                    /\ q[r].instance_id = q[r].joy
                    /\ \E k \in DOMAIN a : a[k] = q[r].joy
               /\ \A r, t \in Slot : q[r].active /\ q[t].active /\ q[r].joy = q[t].joy => r = t
    <3>1. /\ \A k, l \in 1 .. n : at[k] = at[l] => k = l
          /\ \A k \in 1 .. n : \E r \in Slot : inj[r].active /\ inj[r].joy = at[k]
          /\ \A r \in Slot : inj[r].active =>
               /\ inj[r].instance_id = inj[r].joy
               /\ \E k \in 1 .. n : at[k] = inj[r].joy
          /\ \A r, t \in Slot : inj[r].active /\ inj[t].active /\ inj[r].joy = inj[t].joy => r = t
      BY <1>1, <2>6, <2>8 DEF JoysOK, at
    <3>2. at[i] = inj[s].joy
      BY <2>2, <2>6, <2>8, <3>1
    <3> DEFINE Of(k) == IF k < i THEN k ELSE k + 1
    <3>3. ASSUME NEW k \in DOMAIN a
          PROVE  Of(k) \in 1 .. n /\ Of(k) # i /\ a[k] = at[Of(k)]
      <4>1. k \in Int /\ 1 <= k /\ k <= n - 1 /\ i \in Int
        BY <1>1, <2>2, <2>5
      <4>2. CASE k < i
        BY <1>1, <2>4, <2>5, <4>1, <4>2
      <4>3. CASE ~(k < i)
        BY <1>1, <2>4, <2>5, <4>1, <4>3, SMTT(60)
      <4> QED BY <4>2, <4>3
    <3>4. ASSUME NEW k \in DOMAIN a, NEW l \in DOMAIN a, Of(k) = Of(l) PROVE k = l
      <4>1. k \in Int /\ l \in Int /\ i \in Int
        BY <1>1, <2>2, <2>5
      <4> QED BY <3>4, <4>1
    <3>5. ASSUME NEW m \in 1 .. n, m # i PROVE \E k \in DOMAIN a : a[k] = at[m]
      <4>1. m \in Int /\ i \in Int /\ 1 <= i /\ i <= n /\ 1 <= m /\ m <= n
        BY <1>1, <2>2
      <4>2. CASE m < i
        <5>1. m \in 1 .. n - 1
          BY <1>1, <4>1, <4>2
        <5> QED BY <2>4, <2>5, <4>2, <5>1
      <4>3. CASE ~(m < i)
        <5> DEFINE k == m - 1
        <5>1. k \in 1 .. n - 1 /\ ~(k < i) /\ k + 1 = m
          BY <1>1, <3>5, <4>1, <4>3
        <5> HIDE DEF k
        <5> QED BY <2>4, <2>5, <5>1
      <4> QED BY <4>2, <4>3
    <3> HIDE DEF Of
    <3>6. \A k, l \in DOMAIN a : a[k] = a[l] => k = l
      BY <3>1, <3>3, <3>4
    <3>7. ASSUME NEW k \in DOMAIN a PROVE \E r \in Slot : q[r].active /\ q[r].joy = a[k]
      <4>1. PICK r \in Slot : inj[r].active /\ inj[r].joy = at[Of(k)]
        BY <3>1, <3>3
      <4>2. r # s
        BY <2>2, <3>1, <3>2, <3>3, <4>1
      <4> QED BY <1>3, <3>3, <4>1, <4>2
    <3>8. ASSUME NEW r \in Slot, q[r].active
          PROVE  q[r].instance_id = q[r].joy /\ \E k \in DOMAIN a : a[k] = q[r].joy
      <4>1. r # s /\ q[r] = inj[r] /\ inj[r].active
        BY <1>4, <3>8
      <4>2. inj[r].instance_id = inj[r].joy
        BY <3>1, <4>1
      <4>3. PICK m \in 1 .. n : at[m] = inj[r].joy
        BY <3>1, <4>1
      <4>4. m # i
        BY <3>1, <3>2, <4>1, <4>3
      <4> QED BY <3>5, <4>1, <4>2, <4>3, <4>4
    <3>9. \A r, t \in Slot : q[r].active /\ q[t].active /\ q[r].joy = q[t].joy => r = t
      BY <1>4, <3>1
    <3> QED BY <3>6, <3>7, <3>8, <3>9
  <2>9. JoysOK(e, q)
    BY <1>2, <2>6, <2>8 DEF JoysOK
  <2> QED BY <2>7, <2>9 DEF e, q
<1> QED BY <1>5, <1>6

\* Showing a state changes nothing else.
LEMMA ApplyKeeps ==
  ASSUME NEW d, SdlOK(d), NEW j, NEW g
  PROVE  /\ SdlOK(Apply(d, j, g))
         /\ Apply(d, j, g).api = d.api /\ Apply(d, j, g).attached = d.attached
<1> DEFINE z == Shows(g)
           e == [d EXCEPT !.shown[j] = z]
<1>1. d = [symbols |-> d.symbols, api |-> d.api, attached |-> d.attached, shown |-> d.shown]
  BY DEF SdlOK
<1> HIDE DEF z
<1>2. e = [d EXCEPT !.shown = [@ EXCEPT ![j] = z]]
  OBVIOUS
<1> DEFINE w == [d.shown EXCEPT ![j] = z]
<1>3. e = [d EXCEPT !.shown = w]
  BY <1>2
<1> HIDE DEF w, e
<1>4. e = [symbols |-> d.symbols, api |-> d.api, attached |-> d.attached, shown |-> w]
  BY <1>1, <1>3
<1>5. e.symbols = d.symbols /\ e.api = d.api /\ e.attached = d.attached /\ e.shown = w
  BY <1>4
<1>6. SdlOK(e)
  BY <1>4, <1>5 DEF SdlOK
<1>7. Apply(d, j, g) = e \/ Apply(d, j, g) = d
  BY DEF Apply, e, z
<1> QED BY <1>5, <1>6, <1>7

\* An input for a slot.
LEMMA InputKeeps ==
  ASSUME IInv, NEW s \in Slot, NEW outcome \in AttachOutcome, NEW g \in GipState
  PROVE  /\ InputPad(s, g, outcome) \in Pad
         /\ InputPad(s, g, outcome).active = ConnectedPad(s, outcome).active
         /\ InputPad(s, g, outcome).joy = ConnectedPad(s, outcome).joy
         /\ InputPad(s, g, outcome).instance_id = ConnectedPad(s, outcome).instance_id
<1> DEFINE p == ConnectedPad(s, outcome)
           base == Base(p, g)
           now == Corrected(g, base)
           r == [p EXCEPT !.calibrated = TRUE, !.base = base, !.now = now]
<1>1. p \in Pad
  BY ConnectKeeps
<1>2. InputPad(s, g, outcome) = r \/ InputPad(s, g, outcome) = p
  BY DEF InputPad
<1> HIDE DEF p
<1>3. p.base \in GipState
  BY <1>1, PadFields
<1>4. [g EXCEPT !.buttons = {}] \in GipState
  BY DEF GipState
<1>5. base \in GipState
  BY <1>3, <1>4 DEF Base
<1> HIDE DEF base
<1>6. now \in Corrects
  BY <1>5, CorrectedIsTyped
<1> HIDE DEF now
<1>7. r \in Pad /\ r.active = p.active /\ r.joy = p.joy /\ r.instance_id = p.instance_id
  BY <1>1, <1>5, <1>6, PadFields
<1> QED BY <1>1, <1>2, <1>7 DEF p

-----------------------------------------------------------------------------
(* The steps                                                               *)

\* Neither the injector nor what SDL has been given by the game changes.
LEMMA InjectorStays ==
  ASSUME IInv, StreamOK', UNCHANGED <<conf, inj, sdl>>
  PROVE  IInv'
  BY DEF IInv, SdlOK, JoysOK

\* No SDL, no joysticks.
LEMMA StoppedIsOK ==
  ASSUME InjectorStopped
  PROVE  inj \in [Slot -> Pad] /\ SdlOK(sdl) /\ JoysOK(sdl, inj)
<1>1. inj \in [Slot -> Pad]
  BY EmptyPadIsTyped DEF InjectorStopped
<1>2. \A s \in Slot : ~inj[s].active
  BY DEF InjectorStopped, EmptyPad
<1> DEFINE z == [j \in Joy |-> Shows(ZeroGip)]
<1>3. sdl = [symbols |-> {}, api |-> 0, attached |-> <<>>, shown |-> z]
  BY DEF InjectorStopped
<1> HIDE DEF z
<1>4. sdl.symbols = {} /\ sdl.api = 0 /\ sdl.attached = <<>> /\ sdl.shown = z
  BY <1>3
<1>5. SdlOK(sdl)
  <2>1. <<>> \in Seq(Joy) /\ Len(<<>>) = 0 /\ MaxJoys \in Nat
    BY Sizes
  <2> QED BY <1>3, <1>4, <2>1, SMTT(60) DEF SdlOK
<1> QED BY <1>1, <1>2, <1>4, <1>5 DEF JoysOK

LEMMA Initially == Init => IInv
<1> SUFFICES ASSUME Init PROVE IInv
  OBVIOUS
<1>1. StreamOK
  <2>1. conf.cap \in Nat /\ conf \in Settings
    BY SettingsAssumption DEF Init, StreamInit
  <2>2. EmptySlot \in SlotRecord
    BY ReportsStay DEF EmptySlot, SlotRecord
  <2>3. queue \in Seq(UdpEvent) /\ Len(queue) <= conf.cap
    BY <2>1 DEF Init, StreamInit
  <2> QED BY <2>1, <2>2, <2>3 DEF Init, StreamInit, StreamOK
<1> QED BY <1>1, StoppedIsOK DEF Init, IInv

\* The injector's thread handles an event.
LEMMA InjectorReceivesKeeps ==
  ASSUME IInv, NEW outcome \in AttachOutcome, InjectorReceives(outcome)
  PROVE  IInv'
<1> DEFINE e == Head(queue)
<1>1. StreamOK' /\ e \in UdpEvent
  BY TakeKeeps DEF IInv, InjectorReceives
<1>2. conf' = conf /\ HandleLine(e, outcome)
  BY DEF InjectorReceives
<1>3. e.slot \in Slot /\ (e.type = "input" => e.gip \in GipState)
  BY <1>1 DEF UdpEvent
<1> HIDE DEF e
<1>4. inj \in [Slot -> Pad] /\ inj[e.slot] \in Pad /\ EmptyPad \in Pad
  BY <1>3, EmptyPadIsTyped DEF IInv
<1>5. ASSUME inj' \in [Slot -> Pad], SdlOK(sdl'), JoysOK(sdl', inj')
      PROVE  IInv'
  BY <1>1, <1>2, <1>5 DEF IInv, SdlOK, JoysOK
<1>6. CASE e.type = "connected"
  <2> DEFINE p == ConnectedPad(e.slot, outcome)
             d == ConnectedSdl(e.slot, outcome)
  <2>1. inj' = [inj EXCEPT ![e.slot] = p] /\ sdl' = d
    BY <1>2, <1>6 DEF HandleLine, Connected
  <2>2. p \in Pad /\ SdlOK(d) /\ JoysOK(d, [inj EXCEPT ![e.slot] = p])
    BY <1>3, ConnectKeeps
  <2> HIDE DEF p, d
  <2>3. inj' \in [Slot -> Pad]
    BY <1>4, <2>1, <2>2
  <2> QED BY <1>5, <2>1, <2>2, <2>3
<1>7. CASE e.type = "disconnected"
  <2>1. Disconnected(e)
    BY <1>2, <1>7 DEF HandleLine
  <2>2. CASE inj[e.slot].active
    <3> DEFINE d == Detached(sdl, inj[e.slot].instance_id)
    <3>1. inj' = [inj EXCEPT ![e.slot] = EmptyPad] /\ sdl' = d
      BY <2>1, <2>2 DEF Disconnected
    <3>2. SdlOK(d) /\ JoysOK(d, [inj EXCEPT ![e.slot] = EmptyPad])
      BY <1>3, <2>2, DetachKeeps
    <3> HIDE DEF d
    <3>3. inj' \in [Slot -> Pad]
      BY <1>4, <3>1
    <3> QED BY <1>5, <3>1, <3>2, <3>3
  <2>3. CASE ~inj[e.slot].active
    <3>1. UNCHANGED <<inj, sdl>>
      BY <2>1, <2>3 DEF Disconnected, injectorVars
    <3> QED BY <1>1, <1>2, <3>1, InjectorStays
  <2> QED BY <2>2, <2>3
<1>8. CASE e.type = "input"
  <2> DEFINE p == ConnectedPad(e.slot, outcome)
             r == InputPad(e.slot, e.gip, outcome)
             d == ConnectedSdl(e.slot, outcome)
             q == [inj EXCEPT ![e.slot] = p]
             t == [inj EXCEPT ![e.slot] = r]
             a == Apply(d, r.joy, r.now)
  <2>1. Input(e, outcome)
    BY <1>2, <1>8 DEF HandleLine
  <2>2. inj' = t /\ (sdl' = a \/ sdl' = d)
    BY <2>1 DEF Input
  <2>3. p \in Pad /\ SdlOK(d) /\ JoysOK(d, q)
    BY <1>3, ConnectKeeps
  <2>4. /\ r \in Pad /\ r.active = p.active /\ r.joy = p.joy
        /\ r.instance_id = p.instance_id
    BY <1>3, <1>8, InputKeeps
  <2> HIDE DEF p, r, d
  <2>5. SdlOK(a) /\ a.api = d.api /\ a.attached = d.attached
    BY <2>3, ApplyKeeps
  <2> HIDE DEF a
  <2>6. t \in [Slot -> Pad]
    BY <1>4, <2>4
  <2>7. \A s \in Slot : /\ t[s].active = q[s].active /\ t[s].joy = q[s].joy
                        /\ t[s].instance_id = q[s].instance_id
    BY <1>3, <1>4, <2>4
  <2> HIDE DEF q, t
  <2>8. JoysOK(a, t) /\ JoysOK(d, t)
    BY <2>3, <2>5, <2>7 DEF JoysOK
  <2> QED BY <1>5, <2>2, <2>3, <2>5, <2>6, <2>8
<1>9. CASE e.type \notin {"connected", "disconnected", "input"}
  <2>1. UNCHANGED <<inj, sdl>>
    BY <1>2, <1>9 DEF HandleLine, injectorVars
  <2> QED BY <1>1, <1>2, <2>1, InjectorStays
<1> QED BY <1>6, <1>7, <1>8, <1>9

LEMMA Invariance == IInv /\ [Next]_vars => IInv'
<1> SUFFICES ASSUME IInv, [Next]_vars PROVE IInv'
  OBVIOUS
<1>1. CASE Daemon /\ UNCHANGED <<injectorVars, bridgeVars>>
  <2>1. StreamOK' /\ conf' = conf
    BY <1>1, DaemonKeeps DEF IInv
  <2> QED BY <1>1, <2>1, InjectorStays DEF injectorVars
<1>2. ASSUME NEW c \in {"injector", "bridge"}, Bind(c) PROVE IInv'
  <2>1. StreamOK'
    <3>1. missed' \in [Slot -> BOOLEAN]
      BY <1>2 DEF Bind
    <3> QED BY <1>2, <3>1 DEF Bind, IInv, StreamOK
  <2> QED BY <1>2, <2>1, InjectorStays DEF Bind, injectorVars
<1>3. CASE Quit
  <2>1. StreamOK'
    <3>1. conf.cap \in Nat
      BY SettingsAssumption DEF IInv, StreamOK
    <3>2. queue' \in Seq(UdpEvent) /\ Len(queue') <= conf.cap
      BY <1>3, <3>1 DEF Quit
    <3>3. missed' \in [Slot -> BOOLEAN] /\ port' = "none" /\ UNCHANGED <<conf, slots, held>>
      BY <1>3 DEF Quit
    <3> QED BY <3>2, <3>3 DEF IInv, StreamOK
  <2>2. InjectorStopped'
    BY <1>3 DEF Quit, InjectorStopped
  <2>3. (inj \in [Slot -> Pad] /\ SdlOK(sdl) /\ JoysOK(sdl, inj))'
    BY <2>2, StoppedIsOK, PTL
  <2> QED BY <2>1, <2>3 DEF IInv
<1>4. CASE GameLoadsSdl /\ UNCHANGED bridgeVars
  <2> DEFINE sy == {conf.sdl}
  <2>1. /\ sdl.symbols = {} /\ sdl' = [sdl EXCEPT !.symbols = sy]
        /\ UNCHANGED <<inj, conf, slots, held, port, queue, missed>>
    BY <1>4 DEF GameLoadsSdl, streamVars
  <2>2. sdl = [symbols |-> sdl.symbols, api |-> sdl.api, attached |-> sdl.attached, shown |-> sdl.shown]
    BY DEF IInv, SdlOK
  <2> HIDE DEF sy
  <2>3. sdl' = [symbols |-> sy, api |-> sdl.api, attached |-> sdl.attached, shown |-> sdl.shown]
    BY <2>1, <2>2
  <2>4. /\ sdl'.symbols = sy /\ sdl'.api = sdl.api /\ sdl'.attached = sdl.attached
        /\ sdl'.shown = sdl.shown
    BY <2>3
  <2>5. sdl.api = 0 /\ sy = {conf'.sdl}
    BY <2>1 DEF IInv, SdlOK, sy
  <2>6. SdlOK(sdl)'
    BY <2>3, <2>4, <2>5 DEF IInv, SdlOK
  <2>7. JoysOK(sdl, inj)'
    BY <2>1, <2>4 DEF IInv, JoysOK
  <2>8. StreamOK'
    BY <2>1 DEF IInv, StreamOK
  <2> QED BY <2>1, <2>6, <2>7, <2>8 DEF IInv
<1>5. ASSUME NEW outcome \in AttachOutcome, InjectorReceives(outcome) PROVE IInv'
  BY <1>5, InjectorReceivesKeeps
<1>6. ASSUME NEW created \in BOOLEAN, BridgeReceives(created) PROVE IInv'
  <2>1. StreamOK'
    BY <1>6, TakeKeeps DEF IInv, BridgeReceives
  <2> QED BY <1>6, <2>1, InjectorStays DEF BridgeReceives, injectorVars
<1>7. CASE UNCHANGED vars
  <2>1. StreamOK'
    BY <1>7 DEF IInv, StreamOK, vars, streamVars
  <2> QED BY <1>7, <2>1, InjectorStays DEF vars, streamVars, injectorVars
<1> QED BY <1>1, <1>2, <1>3, <1>4, <1>5, <1>6, <1>7 DEF Next, Receive

-----------------------------------------------------------------------------
(* Types, joysticks and sticks                                             *)

(* The invariant holds in every state of every behaviour: the events carry *)
(* gamepad states in either layout, and SDL's joysticks and the injector's *)
(* slots stay in step.                                                     *)
THEOREM Always == Spec => []IInv
  BY Initially, Invariance, PTL DEF Spec

(* The slots, the queue and the injector's state keep their types, and SDL *)
(* is never given more joysticks than it takes.                            *)
THEOREM TypeCorrect == Spec => []TypeOK
<1>1. IInv => TypeOK
  <2> SUFFICES ASSUME IInv PROVE TypeOK
    OBVIOUS
  <2>1. \A s \in Slot : slots[s].last_report.hat \in 0 .. 8
    BY DEF IInv, StreamOK, SlotRecord, Report
  <2>2. /\ \A s \in Slot : held[s] \in Inputs \cup {NoInput}
        /\ port \in {"none", "injector", "bridge"}
        /\ Len(queue) <= conf.cap
        /\ missed \in [Slot -> BOOLEAN]
    BY DEF IInv, StreamOK
  <2>3. InjectorTypeOK
    BY DEF IInv, SdlOK, InjectorTypeOK
  <2> QED BY <2>1, <2>2, <2>3 DEF TypeOK
<1> QED BY <1>1, Always, PTL

(* With SDL3 the game sees one joystick for each slot that is active in    *)
(* the injector and no other, although joysticks are refused, events are   *)
(* lost, and the game or the daemon starts late.                           *)
THEOREM JoysticksFollow == Spec => []JoysticksFollowSlotsInSdl3
<1>1. IInv => JoysticksFollowSlotsInSdl3
  <2> SUFFICES ASSUME IInv, sdl.api = 3 PROVE JoysticksFollowSlots
    BY DEF JoysticksFollowSlotsInSdl3
  <2>1. /\ \A i \in DOMAIN sdl.attached : \E s \in Slot : inj[s].active /\ inj[s].joy = sdl.attached[i]
        /\ \A s \in Slot : inj[s].active => \E i \in DOMAIN sdl.attached : sdl.attached[i] = inj[s].joy
        /\ \A s, t \in Slot : inj[s].active /\ inj[t].active /\ inj[s].joy = inj[t].joy => s = t
    BY DEF IInv, JoysOK
  <2> QED BY <2>1 DEF JoysticksFollowSlots, Attachment
<1> QED BY <1>1, Always, PTL

(* No stick is shown on the side opposite to its deflection, and no        *)
(* trigger's axis is negative, for every neutral position, gain and dead   *)
(* zone: the 16-bit casts of the code never wrap.                          *)
THEOREM SticksKeepSide == Spec => []SticksKeepDirection
<1>1. IInv => SticksKeepDirection
  <2> SUFFICES ASSUME IInv, NEW s \in Slot, inj[s].active, ~SwapSticks, ~XoneLayout
               PROVE  LET a == Axes(inj[s].now)
                          g == inj[s].now
                      IN  /\ Agrees(a[1], g.lx) /\ Agrees(a[2], -g.ly)
                          /\ Agrees(a[3], g.rx) /\ Agrees(a[4], -g.ry)
                          /\ a[5] >= 0 /\ a[6] >= 0
    BY DEF SticksKeepDirection
  <2> DEFINE g == inj[s].now
             a == Axes(g)
  <2>1. g \in Corrects
    BY ActiveIsBoolean DEF IInv
  <2>2. /\ g.lx \in Int /\ g.ly \in Int /\ g.rx \in Int /\ g.ry \in Int
        /\ g.lt \in Int /\ g.rt \in Int
    <3> HIDE DEF g
    <3>1. g.lx \in Shift /\ g.ly \in Shift /\ g.rx \in Shift /\ g.ry \in Shift
      BY <2>1, CorrectsFields
    <3>2. g.lt \in Pulled /\ g.rt \in Pulled
      BY <2>1, CorrectsFields
    <3>3. g.lt \in Int /\ g.rt \in Int
      BY <3>2, PulledIsInt
    <3> QED BY <3>1, <3>3, ShiftBounds
  <2> HIDE DEF g
  <2>3. /\ a[1] = Scale(g.lx) /\ a[2] = Scale(-g.ly)
        /\ a[3] = Scale(g.rx) /\ a[4] = Scale(-g.ry)
        /\ \E v, w \in {g.lt, g.rt} : a[5] = TriggerAxis(v) /\ a[6] = TriggerAxis(w)
    BY AxesInOrder
  <2> HIDE DEF a
  <2>4. /\ Agrees(a[1], g.lx) /\ Agrees(a[2], -g.ly)
        /\ Agrees(a[3], g.rx) /\ Agrees(a[4], -g.ry)
    <3>1. -g.ly \in Int /\ -g.ry \in Int
      BY <2>2
    <3> QED BY <2>2, <2>3, <3>1, ScaleKeepsSide
  <2>5. a[5] >= 0 /\ a[6] >= 0
    BY <2>2, <2>3, TriggersArePositive
  <2> QED BY <2>4, <2>5 DEF a, g
<1> QED BY <1>1, Always, PTL

-----------------------------------------------------------------------------
(* What a consumer learns of a slot                                        *)

About(s) == {e \in UdpEvent : e.slot = s}

\* The daemon sends an event.  Of a slot that has missed nothing, or again
\* nothing with this event, the consumer goes on following the state.
LEMMA SendFollowed ==
  ASSUME StreamOK, port # "none", NEW e \in UdpEvent, Send(e), NEW s \in Slot, ~missed'[s],
         NEW now, NEW next, NEW Known, NEW Steps, NEW Marks,
         ~missed[s] => Follows(queue, now, Known, About(s), Steps, Marks),
         IF e.slot = s THEN <<now, e, next>> \in Steps /\ (Resync(e) => <<e, next>> \in Marks)
                       ELSE next = now
  PROVE  Follows(queue', next, Known, About(s), Steps, Marks)
<1>1. queue \in Seq(UdpEvent) /\ missed \in [Slot -> BOOLEAN] /\ e.slot \in Slot
  BY DEF StreamOK, UdpEvent
<1>2. e \in About(s) <=> e.slot = s
  BY DEF About
<1>3. ASSUME ~missed[s]
      PROVE  Follows(Append(queue, e), next, Known, About(s), Steps, Marks)
  <2>1. IF e \in About(s) THEN <<now, e, next>> \in Steps ELSE next = now
    BY <1>2
  <2>2. Follows(queue, now, Known, About(s), Steps, Marks)
    BY <1>3
  <2> QED BY <1>1, <2>1, <2>2, FollowsSent
<1>4. CASE e.slot # s
  <2>1. ~missed[s] /\ next = now
    BY <1>1, <1>4 DEF Send
  <2>2. queue' = queue \/ queue' = Append(queue, e)
    BY DEF Send
  <2> QED BY <1>3, <2>1, <2>2
<1>5. CASE e.slot = s
  <2>1. queue' = Append(queue, e) /\ (~missed[s] \/ Resync(e))
    <3>1. CASE port # "none" /\ Len(queue) < conf.cap
      <4> DEFINE m == missed[s] /\ ~Resync(e)
      <4>1. queue' = Append(queue, e) /\ missed' = [missed EXCEPT ![s] = m]
        BY <1>5, <3>1 DEF Send
      <4> HIDE DEF m
      <4>2. missed'[s] = m
        BY <1>1, <1>5, <4>1
      <4> QED BY <4>1, <4>2 DEF m
    <3>2. CASE ~(port # "none" /\ Len(queue) < conf.cap)
      <4>1. missed' = [missed EXCEPT ![s] = TRUE]
        BY <1>5, <3>2 DEF Send
      <4> QED BY <1>1, <1>5, <4>1
    <3> QED BY <3>1, <3>2
  <2>2. ASSUME Resync(e)
        PROVE  Follows(Append(queue, e), next, Known, About(s), Steps, Marks)
    <3>1. e \in About(s) /\ <<e, next>> \in Marks
      BY <1>2, <1>5, <2>2
    <3> QED BY <1>1, <3>1, FollowsAgain
  <2> QED BY <1>3, <2>1, <2>2
<1> QED BY <1>4, <1>5

\* The consumer takes an event.  If it acts on it as the daemon did, or learns
\* of the slot from a later one, it goes on following.
LEMMA TakeFollowed ==
  ASSUME StreamOK, queue # <<>>, queue' = Tail(queue), NEW refused \in BOOLEAN,
         Missed(Head(queue), refused), NEW s \in Slot, ~missed'[s],
         NEW now, NEW Known, NEW Learnt, NEW Steps, NEW Marks,
         ~missed[s] => Follows(queue, now, Known, About(s), Steps, Marks),
         Head(queue).slot # s => Learnt = Known,
         Head(queue).slot = s /\ ~refused =>
           /\ \A r, n : r \in Known /\ <<r, Head(queue), n>> \in Steps => n \in Learnt
           /\ \A n : <<Head(queue), n>> \in Marks => n \in Learnt,
         \A f \in About(s) : Resync(f) => \A r, n : <<r, f, n>> \in Steps => <<f, n>> \in Marks
  PROVE  Follows(queue', now, Learnt, About(s), Steps, Marks)
<1> DEFINE e == Head(queue)
           Again == \E i \in 2 .. Len(queue) : queue[i].slot = e.slot /\ Resync(queue[i])
<1>1. /\ queue \in Seq(UdpEvent) /\ missed \in [Slot -> BOOLEAN] /\ Len(queue) \in Nat
      /\ \A i \in 1 .. Len(queue) : queue[i] \in UdpEvent
      /\ e = queue[1] /\ e \in UdpEvent
  BY DEF StreamOK
<1>2. e.slot \in Slot /\ (e \in About(s) <=> e.slot = s)
  BY <1>1 DEF About, UdpEvent
<1>3. missed' = IF refused /\ ~Again THEN [missed EXCEPT ![e.slot] = TRUE] ELSE missed
  BY Zenon DEF Missed
<1> HIDE DEF e, Again
<1>4. ~missed[s] /\ (e.slot = s => ~refused \/ Again)
  BY <1>1, <1>2, <1>3
<1>5. Follows(queue, now, Known, About(s), Steps, Marks)
  BY <1>4
<1>6. CASE e.slot # s
  <2>1. Learnt = Known /\ queue[1] \notin About(s)
    BY <1>1, <1>2, <1>6 DEF e
  <2>2. \A r, n : r \in Known /\ (IF queue[1] \in About(s) THEN <<r, queue[1], n>> \in Steps ELSE n = r)
                    => n \in Learnt
    BY <2>1
  <2>3. \A n : queue[1] \in About(s) /\ <<queue[1], n>> \in Marks => n \in Learnt
    BY <2>1
  <2> QED BY <1>1, <1>5, <2>2, <2>3, FollowsTaken
<1>7. CASE e.slot = s /\ ~refused
  <2>1. \A r, n : r \in Known /\ (IF queue[1] \in About(s) THEN <<r, queue[1], n>> \in Steps ELSE n = r)
                    => n \in Learnt
    BY <1>1, <1>2, <1>7 DEF e
  <2>2. \A n : queue[1] \in About(s) /\ <<queue[1], n>> \in Marks => n \in Learnt
    BY <1>1, <1>2, <1>7 DEF e
  <2> QED BY <1>1, <1>5, <2>1, <2>2, FollowsTaken
<1>8. CASE e.slot = s /\ Again
  <2>1. PICK i \in 2 .. Len(queue) : queue[i].slot = s /\ Resync(queue[i])
    BY <1>8 DEF Again
  <2>2. queue[i] \in UdpEvent
    BY <1>1
  <2>3. queue[i] \in About(s)
    BY <2>1, <2>2 DEF About
  <2>4. \A r, n : <<r, queue[i], n>> \in Steps => <<queue[i], n>> \in Marks
    BY <2>1, <2>3
  <2> QED BY <1>1, <1>5, <2>3, <2>4, FollowsLater
<1> QED BY <1>4, <1>6, <1>7, <1>8

\* the daemon's slot after the guide button
Guided(r, pressed) ==
  [r EXCEPT !.guide_pressed = pressed, !.last_report = WithGuide(@, pressed)]

\* what an event tells of the slot: its state in the daemon before and after
SlotMoves(r, e, n) ==
  \/ e.type = "connected" /\ ~r.active /\ n = [r EXCEPT !.active = TRUE, !.last_report.hat = 8]
  \/ e.type = "disconnected" /\ r.active /\ n = EmptySlot
  \/ e.type = "input" /\ r.active
       /\ n = [r EXCEPT !.last_report = GipToHid(e.gip, r.guide_pressed)]
  \/ e.type = "guide" /\ n = Guided(r, e.pressed)

\* ... and of the controller in it; what is read is what was reported
Heard == [active : BOOLEAN, held : Inputs \cup {NoInput}]

HeldMoves(r, e, n) ==
  \/ e.type = "connected" /\ ~r.active /\ n = [active |-> TRUE, held |-> r.held]
  \/ e.type = "disconnected" /\ r.active /\ n = [active |-> FALSE, held |-> NoInput]
  \/ e.type = "input" /\ r.active /\ e.gip \in Inputs /\ n = [active |-> TRUE, held |-> e.gip]
  \/ e.type = "guide" /\ n = r

\* on_input reads what the controllers report.
PayloadsAreRead ==
  \A g \in Inputs, layout \in Layouts : Parsed(Unwrapped(Encode(g, layout))) = g

HeardOf(slot, h) == [active |-> slot.active, held |-> h]

\* Each of the daemon's steps is the event it sends.
LEMMA DaemonSends ==
  ASSUME StreamOK, Daemon
  PROVE  \E e \in UdpEvent :
           /\ Send(e)
           /\ SlotMoves(slots[e.slot], e, slots'[e.slot])
           /\ PayloadsAreRead => HeldMoves(HeardOf(slots[e.slot], held[e.slot]), e,
                                           HeardOf(slots'[e.slot], held'[e.slot]))
           /\ ~slots[e.slot].active /\ held[e.slot] = NoInput /\ ~slots'[e.slot].active
                => held'[e.slot] = NoInput
           /\ slots[e.slot].active /\ ~slots'[e.slot].active => held'[e.slot] = NoInput
           /\ \A t \in Slot : t # e.slot => slots'[t] = slots[t] /\ held'[t] = held[t]
<1>1. PICK s \in conf.pads :
        \/ OnConnect(s)
        \/ OnDisconnect(s)
        \/ \E g \in Inputs, layout \in Layouts : OnInput(s, g, layout)
        \/ \E pressed \in BOOLEAN : OnGuide(s, pressed)
  BY DEF Daemon
<1>2. s \in Slot
  BY SettingsAssumption DEF StreamOK
<1>3. /\ slots[s] \in SlotRecord /\ slots \in [Slot -> SlotRecord]
      /\ held \in [Slot -> Inputs \cup {NoInput}] /\ held[s] \in Inputs \cup {NoInput}
      /\ slots[s].active \in BOOLEAN
      /\ slots[s].guide_pressed \in BOOLEAN /\ slots[s].last_report \in Report
  BY <1>2 DEF StreamOK, SlotRecord
<1> DEFINE Sends(e) ==
  /\ Send(e)
  /\ SlotMoves(slots[e.slot], e, slots'[e.slot])
  /\ PayloadsAreRead => HeldMoves(HeardOf(slots[e.slot], held[e.slot]), e,
                                  HeardOf(slots'[e.slot], held'[e.slot]))
  /\ ~slots[e.slot].active /\ held[e.slot] = NoInput /\ ~slots'[e.slot].active
       => held'[e.slot] = NoInput
  /\ slots[e.slot].active /\ ~slots'[e.slot].active => held'[e.slot] = NoInput
  /\ \A t \in Slot : t # e.slot => slots'[t] = slots[t] /\ held'[t] = held[t]
<1>4. ASSUME OnConnect(s) PROVE \E e \in UdpEvent : Sends(e)
  <2> DEFINE e == [type |-> "connected", slot |-> s]
             r == [slots[s] EXCEPT !.active = TRUE, !.last_report.hat = 8]
  <2>1. e \in UdpEvent /\ e.type = "connected" /\ e.slot = s
    BY <1>2 DEF UdpEvent
  <2>2. slots' = [slots EXCEPT ![s] = r] /\ ~slots[s].active /\ held' = held /\ Send(e)
    BY <1>2, <1>3, <1>4 DEF OnConnect, SlotRecord
  <2>3. r.active = TRUE
    BY <1>3 DEF SlotRecord
  <2>4. SlotMoves(slots[s], e, r)
    BY <2>1, <2>2 DEF SlotMoves
  <2> HIDE DEF e, r
  <2>5. slots'[s] = r /\ \A t \in Slot : t # s => slots'[t] = slots[t]
    BY <1>2, <1>3, <2>2
  <2>6. HeldMoves(HeardOf(slots[s], held[s]), e, HeardOf(slots'[s], held'[s]))
    <3> DEFINE a == HeardOf(slots[s], held[s])
               b == HeardOf(slots'[s], held'[s])
    <3>1. slots[s].active = FALSE /\ slots'[s].active = TRUE /\ held'[s] = held[s]
      BY <1>3, <2>2, <2>3, <2>5
    <3>2. a = [active |-> FALSE, held |-> held[s]] /\ b = [active |-> TRUE, held |-> held[s]]
      BY <3>1 DEF HeardOf
    <3> HIDE DEF a, b
    <3>3. ~a.active /\ a.held = held[s]
      BY <3>2
    <3>4. HeldMoves(a, e, b)
      BY <2>1, <3>2, <3>3 DEF HeldMoves
    <3> QED BY <3>4 DEF a, b
  <2>7. Sends(e)
    BY <2>1, <2>2, <2>3, <2>4, <2>5, <2>6
  <2> QED BY <2>1, <2>7
<1>5. ASSUME OnDisconnect(s) PROVE \E e \in UdpEvent : Sends(e)
  <2> DEFINE e == [type |-> "disconnected", slot |-> s]
  <2>1. e \in UdpEvent /\ e.type = "disconnected" /\ e.slot = s
    BY <1>2 DEF UdpEvent
  <2>2. /\ slots' = [slots EXCEPT ![s] = EmptySlot] /\ slots[s].active
        /\ held' = [held EXCEPT ![s] = NoInput] /\ Send(e)
    BY <1>5 DEF OnDisconnect
  <2> HIDE DEF e
  <2>3. slots'[s] = EmptySlot /\ held'[s] = NoInput
        /\ \A t \in Slot : t # s => slots'[t] = slots[t] /\ held'[t] = held[t]
    BY <1>2, <1>3, <2>2
  <2>4. SlotMoves(slots[s], e, slots'[s])
    BY <2>1, <2>2, <2>3 DEF SlotMoves
  <2>5. HeldMoves(HeardOf(slots[s], held[s]), e, HeardOf(slots'[s], held'[s]))
    <3> DEFINE a == HeardOf(slots[s], held[s])
               b == HeardOf(slots'[s], held'[s])
    <3>1. EmptySlot.active = FALSE
      BY DEF EmptySlot
    <3>2. a.active /\ b = [active |-> FALSE, held |-> NoInput]
      BY <2>2, <2>3, <3>1 DEF HeardOf
    <3> HIDE DEF a, b
    <3>3. HeldMoves(a, e, b)
      BY <2>1, <3>2 DEF HeldMoves
    <3> QED BY <3>3 DEF a, b
  <2>6. Sends(e)
    BY <2>1, <2>2, <2>3, <2>4, <2>5
  <2> QED BY <2>1, <2>6
<1>6. ASSUME NEW g \in Inputs, NEW layout \in Layouts, OnInput(s, g, layout)
      PROVE  \E e \in UdpEvent : Sends(e)
  <2> DEFINE read == Parsed(Unwrapped(Encode(g, layout)))
             e == [type |-> "input", slot |-> s, gip |-> read]
             new == GipToHid(read, slots[s].guide_pressed)
             r == [slots[s] EXCEPT !.last_report = new]
  <2>1. read \in GipState /\ (PayloadsAreRead => read = g)
    BY InputIsState DEF PayloadsAreRead
  <2>2. /\ slots' = [slots EXCEPT ![s] = r] /\ slots[s].active
        /\ held' = [held EXCEPT ![s] = g]
        /\ Send(e)
    BY <1>6 DEF OnInput
  <2> HIDE DEF read
  <2>3. e \in UdpEvent /\ e.type = "input" /\ e.slot = s /\ e.gip = read
    BY <1>2, <2>1 DEF UdpEvent
  <2> HIDE DEF e
  <2>4. SlotMoves(slots[s], e, r)
    BY <2>2, <2>3 DEF SlotMoves
  <2>5. r.active = slots[s].active
    BY <1>3 DEF SlotRecord
  <2> HIDE DEF new, r
  <2>6. slots'[s] = r /\ held'[s] = g
        /\ \A t \in Slot : t # s => slots'[t] = slots[t] /\ held'[t] = held[t]
    BY <1>2, <1>3, <2>2
  <2>7. PayloadsAreRead => HeldMoves(HeardOf(slots[s], held[s]), e, HeardOf(slots'[s], held'[s]))
    <3>1. HeardOf(slots[s], held[s]).active /\ HeardOf(slots'[s], held'[s]) = [active |-> TRUE, held |-> g]
      BY <1>3, <2>2, <2>5, <2>6 DEF HeardOf
    <3> QED BY <2>1, <2>3, <3>1 DEF HeldMoves
  <2>8. Sends(e)
    BY <2>2, <2>3, <2>4, <2>5, <2>6, <2>7
  <2> QED BY <2>3, <2>8
<1>7. ASSUME NEW pressed \in BOOLEAN, OnGuide(s, pressed)
      PROVE  \E e \in UdpEvent : Sends(e)
  <2> DEFINE e == [type |-> "guide", slot |-> s, pressed |-> pressed]
             new == WithGuide(slots[s].last_report, pressed)
             r == [slots[s] EXCEPT !.guide_pressed = pressed, !.last_report = new]
  <2>1. e \in UdpEvent /\ e.type = "guide" /\ e.slot = s /\ e.pressed = pressed
    BY <1>2 DEF UdpEvent
  <2>2. slots' = [slots EXCEPT ![s] = r] /\ Send(e) /\ held' = held
    BY <1>2, <1>3, <1>7 DEF OnGuide, SlotRecord
  <2> HIDE DEF e
  <2>3. SlotMoves(slots[s], e, r)
    BY <2>1 DEF SlotMoves, Guided
  <2>4. r.active = slots[s].active
    BY <1>3 DEF SlotRecord
  <2> HIDE DEF new, r
  <2>5. slots'[s] = r /\ \A t \in Slot : t # s => slots'[t] = slots[t]
    BY <1>2, <1>3, <2>2
  <2>6. HeldMoves(HeardOf(slots[s], held[s]), e, HeardOf(slots'[s], held'[s]))
    BY <2>1, <2>2, <2>4, <2>5, <1>3 DEF HeldMoves, HeardOf
  <2>7. Sends(e)
    BY <2>1, <2>2, <2>3, <2>4, <2>5, <2>6
  <2> QED BY <2>1, <2>7
<1> HIDE DEF Sends
<1>8. \E e \in UdpEvent : Sends(e)
  BY <1>1, <1>4, <1>5, <1>6, <1>7
<1> QED BY <1>8 DEF Sends

-----------------------------------------------------------------------------
(* The bridge                                                              *)

Gamepad == [active : BOOLEAN, guide_pressed : BOOLEAN, last_report : Report,
            device : Report \cup {NoDevice}]

\* Without a listener nothing waits, and who does not listen has no slots.
ListenersOK ==
  /\ port = "none" => queue = <<>>
  /\ port # "injector" => \A s \in Slot : inj[s] = EmptyPad
  /\ port # "bridge" => \A s \in Slot : bridge[s] = EmptyGamepad
  /\ bridge \in [Slot -> Gamepad]
  /\ \A s \in Slot : ~slots[s].active => held[s] = NoInput

SlotSteps == {t \in SlotRecord \X UdpEvent \X SlotRecord : SlotMoves(t[1], t[2], t[3])}
SlotMarks == {t \in UdpEvent \X SlotRecord : t[1].type = "disconnected" /\ t[2] = EmptySlot}

\* the states of the daemon's slot that one of the bridge agrees with
BridgeKnows(b) ==
  {r \in SlotRecord :
     /\ b.active = r.active
     /\ r.active => /\ b.guide_pressed = r.guide_pressed /\ b.last_report = r.last_report
                    /\ b.device = r.last_report
     /\ ~r.active => r = EmptySlot}

\* The strengthening of BridgeShowsDaemonsReport: not only when nothing is on
\* its way.
BridgeFollowsOK ==
  port = "bridge" =>
    \A s \in Slot : ~missed[s] =>
      Follows(queue, slots[s], BridgeKnows(bridge[s]), About(s), SlotSteps, SlotMarks)

LEMMA GamepadFields ==
  ASSUME NEW b \in Gamepad
  PROVE  /\ b.active \in BOOLEAN /\ b.guide_pressed \in BOOLEAN /\ b.last_report \in Report
         /\ b = [active |-> b.active, guide_pressed |-> b.guide_pressed,
                 last_report |-> b.last_report, device |-> b.device]
  BY DEF Gamepad

LEMMA EmptyGamepadIsTyped == EmptyGamepad \in Gamepad /\ EmptyGamepad.active = FALSE
  BY ReportsStay DEF EmptyGamepad, Gamepad

LEMMA EmptySlotIsTyped == EmptySlot \in SlotRecord /\ EmptySlot.active = FALSE
  BY ReportsStay DEF EmptySlot, SlotRecord

LEMMA PostedIs ==
  \A a, g, l, d :
    Posted([active |-> a, guide_pressed |-> g, last_report |-> l, device |-> d])
      = [active |-> a, guide_pressed |-> g, last_report |-> l, device |-> l]
  BY SMTT(60) DEF Posted

\* the slot after "connected", and the report its gamepad is made with
Started == [ZeroReport EXCEPT !.hat = 8]

LEMMA ConnectedKnows ==
  ASSUME NEW b \in Gamepad, NEW created \in BOOLEAN
  PROVE  /\ BridgeConnected(b, created) \in Gamepad
         /\ \A r \in BridgeKnows(b), n \in SlotRecord :
              /\ ~r.active /\ n = [r EXCEPT !.active = TRUE, !.last_report.hat = 8]
              /\ b.active \/ created
              => n \in BridgeKnows(BridgeConnected(b, created))
<1> DEFINE c == BridgeConnected(b, created)
           yes == TRUE
           no  == FALSE
           new == [active |-> yes, guide_pressed |-> no, last_report |-> Started, device |-> Started]
<1>1. Started \in Report
  BY ReportsStay DEF Started
<1>2. c = IF b.active \/ ~created THEN b ELSE new
  <2> DEFINE x == [EmptyGamepad EXCEPT !.active = TRUE, !.last_report.hat = 8]
  <2>1. x = [EmptyGamepad EXCEPT !.active = TRUE, !.last_report = [@ EXCEPT !.hat = 8]]
    OBVIOUS
  <2> HIDE DEF x
  <2>2. x = [active |-> yes, guide_pressed |-> no, last_report |-> Started, device |-> NoDevice]
    BY <2>1 DEF EmptyGamepad, Started
  <2> HIDE DEF yes, no
  <2>3. Posted(x) = new
    BY <2>2, PostedIs
  <2> HIDE DEF new
  <2> QED BY <2>3 DEF BridgeConnected, x
<1> HIDE DEF c
<1>3. c \in Gamepad
  BY <1>1, <1>2 DEF Gamepad
<1>4. ASSUME NEW r \in BridgeKnows(b), NEW n \in SlotRecord, ~r.active,
             n = [r EXCEPT !.active = TRUE, !.last_report.hat = 8], b.active \/ created
      PROVE  n \in BridgeKnows(c)
  <2>1. r = EmptySlot /\ b.active = r.active
    BY <1>4 DEF BridgeKnows
  <2>2. c = new
    BY <1>2, <1>4, <2>1, GamepadFields
  <2>3. n = [active |-> TRUE, guide_pressed |-> FALSE, last_report |-> Started]
    BY <1>4, <2>1 DEF EmptySlot, Started
  <2>4. /\ n.active = TRUE /\ n.guide_pressed = FALSE /\ n.last_report = Started
        /\ new.active = TRUE /\ new.guide_pressed = FALSE /\ new.last_report = Started
        /\ new.device = Started
    BY <2>3
  <2> HIDE DEF new
  <2> QED BY <2>2, <2>4 DEF BridgeKnows
<1> QED BY <1>3, <1>4, Zenon DEF c

LEMMA DisconnectedKnows ==
  ASSUME NEW b \in Gamepad
  PROVE  /\ BridgeDisconnected(b) \in Gamepad
         /\ EmptySlot \in BridgeKnows(BridgeDisconnected(b))
<1> DEFINE c == BridgeDisconnected(b)
<1>1. c \in Gamepad /\ c.active = FALSE
  BY EmptyGamepadIsTyped, GamepadFields DEF BridgeDisconnected
<1> HIDE DEF c
<1>2. EmptySlot \in BridgeKnows(c)
  BY <1>1, EmptySlotIsTyped DEF BridgeKnows
<1> QED BY <1>1, <1>2 DEF c

LEMMA GuideKnows ==
  ASSUME NEW b \in Gamepad, NEW pressed \in BOOLEAN
  PROVE  /\ BridgeGuide(b, pressed) \in Gamepad
         /\ \A r \in BridgeKnows(b), n \in SlotRecord :
              n = Guided(r, pressed) /\ b.active => n \in BridgeKnows(BridgeGuide(b, pressed))
<1> DEFINE c == BridgeGuide(b, pressed)
           w == WithGuide(b.last_report, pressed)
           new == [active |-> b.active, guide_pressed |-> pressed, last_report |-> w, device |-> w]
<1>1. b.active \in BOOLEAN /\ w \in Report
  BY GamepadFields, ReportsStay
<1>2. c = IF b.active THEN new ELSE b
  <2> DEFINE x == [b EXCEPT !.guide_pressed = pressed, !.last_report = WithGuide(@, pressed)]
  <2>1. x = [b EXCEPT !.guide_pressed = pressed, !.last_report = w]
    OBVIOUS
  <2> HIDE DEF w, x
  <2>2. x = [active |-> b.active, guide_pressed |-> pressed, last_report |-> w, device |-> b.device]
    BY <2>1 DEF Gamepad
  <2>3. Posted(x) = new
    BY <2>2, PostedIs
  <2> HIDE DEF new
  <2> QED BY <2>3 DEF BridgeGuide, x
<1> HIDE DEF c, w
<1>3. c \in Gamepad
  BY <1>1, <1>2 DEF Gamepad
<1>4. ASSUME NEW r \in BridgeKnows(b), NEW n \in SlotRecord, b.active, n = Guided(r, pressed)
      PROVE  n \in BridgeKnows(c)
  <2>1. /\ r \in SlotRecord /\ r.active = b.active /\ b.last_report = r.last_report
        /\ r.active \in BOOLEAN
    BY <1>4 DEF BridgeKnows, SlotRecord
  <2>2. n = [r EXCEPT !.guide_pressed = pressed, !.last_report = w]
    BY <1>4, <2>1 DEF w, Guided
  <2>3. n.active = b.active /\ n.guide_pressed = pressed /\ n.last_report = w
    BY <2>1, <2>2 DEF SlotRecord
  <2>4. /\ c.active = b.active /\ c.guide_pressed = pressed /\ c.last_report = w
        /\ c.device = w
    BY <1>2, <1>4
  <2> QED BY <1>4, <2>3, <2>4 DEF BridgeKnows
<1> QED BY <1>3, <1>4 DEF c

LEMMA InputKnows ==
  ASSUME NEW b \in Gamepad, NEW g \in GipState
  PROVE  /\ BridgeInput(b, g) \in Gamepad
         /\ \A r \in BridgeKnows(b), n \in SlotRecord :
              r.active /\ n = [r EXCEPT !.last_report = GipToHid(g, r.guide_pressed)]
              => n \in BridgeKnows(BridgeInput(b, g))
<1> DEFINE c == BridgeInput(b, g)
           w == GipToHid(g, b.guide_pressed)
           new == [active |-> b.active, guide_pressed |-> b.guide_pressed, last_report |-> w, device |-> w]
<1>1. b.active \in BOOLEAN /\ b.guide_pressed \in BOOLEAN /\ w \in Report
  BY GamepadFields, ReportOfState
<1>2. c = IF b.active THEN new ELSE b
  <2> DEFINE x == [b EXCEPT !.last_report = w]
  <2> HIDE DEF w
  <2>1. x = [active |-> b.active, guide_pressed |-> b.guide_pressed, last_report |-> w,
             device |-> b.device]
    BY DEF Gamepad
  <2> HIDE DEF x
  <2>2. Posted(x) = new
    BY <2>1, PostedIs
  <2> HIDE DEF new
  <2> QED BY <2>2 DEF BridgeInput, x, w
<1> HIDE DEF c, w
<1>3. c \in Gamepad
  BY <1>1, <1>2 DEF Gamepad
<1>4. ASSUME NEW r \in BridgeKnows(b), NEW n \in SlotRecord, r.active,
             n = [r EXCEPT !.last_report = GipToHid(g, r.guide_pressed)]
      PROVE  n \in BridgeKnows(c)
  <2>1. /\ r \in SlotRecord /\ r.active = b.active /\ b.guide_pressed = r.guide_pressed
        /\ r.active \in BOOLEAN
    BY <1>4 DEF BridgeKnows, SlotRecord
  <2>2. n = [r EXCEPT !.last_report = w]
    BY <1>4, <2>1 DEF w
  <2>3. n.active = b.active /\ n.guide_pressed = b.guide_pressed /\ n.last_report = w
    BY <2>1, <2>2 DEF SlotRecord
  <2>4. b.active
    BY <1>4, <2>1
  <2>5. /\ c.active = b.active /\ c.guide_pressed = b.guide_pressed /\ c.last_report = w
        /\ c.device = w
    BY <1>2, <2>4
  <2> QED BY <2>3, <2>4, <2>5 DEF BridgeKnows
<1> QED BY <1>3, <1>4 DEF c

LEMMA EventTypes == \A e \in UdpEvent :
  /\ e.type \in {"connected", "disconnected", "guide", "input"} /\ e.slot \in Slot
  /\ e.type = "guide" => e.pressed \in BOOLEAN
  /\ e.type = "input" => e.gip \in GipState
<1> SUFFICES ASSUME NEW e \in UdpEvent
             PROVE  /\ e.type \in {"connected", "disconnected", "guide", "input"} /\ e.slot \in Slot
                    /\ e.type = "guide" => e.pressed \in BOOLEAN
                    /\ e.type = "input" => e.gip \in GipState
  OBVIOUS
<1> QED BY DEF UdpEvent

\* What an event makes of its gamepad.
Handled(b, e, created) ==
  CASE e.type = "connected"    -> BridgeConnected(b, created)
    [] e.type = "disconnected" -> BridgeDisconnected(b)
    [] e.type = "guide"        -> BridgeGuide(b, e.pressed)
    [] e.type = "input"        -> BridgeInput(b, e.gip)

LEMMA HandledByType ==
  ASSUME NEW b, NEW e, NEW created
  PROVE  /\ e.type = "connected" => Handled(b, e, created) = BridgeConnected(b, created)
         /\ e.type = "disconnected" => Handled(b, e, created) = BridgeDisconnected(b)
         /\ e.type = "guide" => Handled(b, e, created) = BridgeGuide(b, e.pressed)
         /\ e.type = "input" => Handled(b, e, created) = BridgeInput(b, e.gip)
  BY Zenon DEF Handled

\* The bridge makes of its gamepad what the daemon has made of its slot.
LEMMA BridgeHandles ==
  ASSUME bridge \in [Slot -> Gamepad], NEW e \in UdpEvent, NEW created \in BOOLEAN,
         HandleEventLine(e, created)
  PROVE  /\ bridge' \in [Slot -> Gamepad]
         /\ \A s \in Slot : s # e.slot => bridge'[s] = bridge[s]
         /\ ~BridgeRefused(e, created) =>
              \A r \in BridgeKnows(bridge[e.slot]), n \in SlotRecord :
                SlotMoves(r, e, n) => n \in BridgeKnows(bridge'[e.slot])
         /\ e.type = "disconnected" => EmptySlot \in BridgeKnows(bridge'[e.slot])
<1> DEFINE b == bridge[e.slot]
           c == Handled(b, e, created)
<1>1. /\ e.type \in {"connected", "disconnected", "guide", "input"} /\ e.slot \in Slot
      /\ e.type = "guide" => e.pressed \in BOOLEAN
      /\ e.type = "input" => e.gip \in GipState
  BY EventTypes
<1>2. b \in Gamepad /\ b.active \in BOOLEAN
  BY <1>1 DEF Gamepad
<1>3. bridge' = [bridge EXCEPT ![e.slot] = c]
  BY Zenon DEF HandleEventLine, Handled
<1>4. ~BridgeRefused(e, created) => b.active \/ ~((e.type = "connected" /\ ~created) \/ e.type = "guide")
  BY DEF BridgeRefused
<1> HIDE DEF b, c
<1>5. bridge'[e.slot] = c /\ \A s \in Slot : s # e.slot => bridge'[s] = bridge[s]
  BY <1>1, <1>3
<1>6. c \in Gamepad => bridge' \in [Slot -> Gamepad]
  BY <1>1, <1>3
<1>7. CASE e.type = "connected"
  <2>1. c = BridgeConnected(b, created)
    BY <1>7, HandledByType, SMTT(60) DEF c
  <2>2. /\ c \in Gamepad
        /\ \A r \in BridgeKnows(b), n \in SlotRecord :
             ~r.active /\ n = [r EXCEPT !.active = TRUE, !.last_report.hat = 8] /\ (b.active \/ created)
               => n \in BridgeKnows(c)
    BY <1>2, <2>1, ConnectedKnows, Zenon
  <2>3. \A r, n : SlotMoves(r, e, n) => ~r.active /\ n = [r EXCEPT !.active = TRUE, !.last_report.hat = 8]
    BY <1>7, Zenon DEF SlotMoves
  <2>4. ~BridgeRefused(e, created) => b.active \/ created
    BY <1>4, <1>7, Zenon
  <2>5. ASSUME ~BridgeRefused(e, created), NEW r \in BridgeKnows(b), NEW n \in SlotRecord, SlotMoves(r, e, n)
        PROVE  n \in BridgeKnows(c)
    <3>1. ~r.active /\ n = [r EXCEPT !.active = TRUE, !.last_report.hat = 8]
      BY <2>3, <2>5, Zenon
    <3>2. b.active \/ created
      BY <2>4, <2>5, Zenon
    <3> QED BY <2>2, <3>1, <3>2, Zenon
  <2>6. e.type # "disconnected"
    BY <1>7, SMTT(60)
  <2> QED BY <1>5, <1>6, <2>2, <2>5, <2>6, Zenon DEF b
<1>8. CASE e.type = "disconnected"
  <2>1. c = BridgeDisconnected(b)
    BY <1>8, HandledByType, SMTT(60) DEF c
  <2>2. c \in Gamepad /\ EmptySlot \in BridgeKnows(c)
    BY <1>2, <2>1, DisconnectedKnows
  <2>3. \A r, n : SlotMoves(r, e, n) => n = EmptySlot
    BY <1>8, SMTT(60) DEF SlotMoves
  <2> QED BY <1>5, <1>6, <2>2, <2>3
<1>9. CASE e.type = "guide"
  <2> DEFINE p == e.pressed
  <2>1. c = BridgeGuide(b, p) /\ p \in BOOLEAN
    BY <1>1, <1>9, HandledByType DEF c
  <2>3. \A r, n : SlotMoves(r, e, n) => n = Guided(r, p)
    BY <1>9, Zenon DEF SlotMoves
  <2> HIDE DEF p
  <2>2. /\ c \in Gamepad
        /\ \A r \in BridgeKnows(b), n \in SlotRecord :
             n = Guided(r, p) /\ b.active => n \in BridgeKnows(c)
    BY <1>2, <2>1, GuideKnows
  <2> QED BY <1>4, <1>5, <1>6, <1>9, <2>2, <2>3 DEF b
<1>10. CASE e.type = "input"
  <2>1. c = BridgeInput(b, e.gip)
    BY <1>10, HandledByType DEF c
  <2>2. /\ c \in Gamepad
        /\ \A r \in BridgeKnows(b), n \in SlotRecord :
             r.active /\ n = [r EXCEPT !.last_report = GipToHid(e.gip, r.guide_pressed)]
               => n \in BridgeKnows(c)
    BY <1>1, <1>2, <1>10, <2>1, InputKnows
  <2>3. \A r, n : SlotMoves(r, e, n) =>
          r.active /\ n = [r EXCEPT !.last_report = GipToHid(e.gip, r.guide_pressed)]
    BY <1>10, Zenon DEF SlotMoves
  <2> QED BY <1>5, <1>6, <1>10, <2>2, <2>3 DEF b
<1> QED BY <1>1, <1>7, <1>8, <1>9, <1>10

LEMMA ListenersKeep == ASSUME IInv, ListenersOK, [Next]_vars PROVE ListenersOK'
<1>1. slots \in [Slot -> SlotRecord] /\ held \in [Slot -> Inputs \cup {NoInput}]
  BY DEF IInv, StreamOK
<1>2. CASE Daemon /\ UNCHANGED <<injectorVars, bridgeVars>>
  <2>1. PICK e \in UdpEvent :
          /\ Send(e)
          /\ ~slots[e.slot].active /\ held[e.slot] = NoInput /\ ~slots'[e.slot].active
               => held'[e.slot] = NoInput
          /\ slots[e.slot].active /\ ~slots'[e.slot].active => held'[e.slot] = NoInput
          /\ \A t \in Slot : t # e.slot => slots'[t] = slots[t] /\ held'[t] = held[t]
    BY <1>2, DaemonSends DEF IInv
  <2>2. e.slot \in Slot
    BY EventTypes
  <2>3. port' = port /\ inj' = inj /\ bridge' = bridge
    BY <1>2 DEF Daemon, OnConnect, OnDisconnect, OnInput, OnGuide, injectorVars, bridgeVars
  <2>4. port' = "none" => queue' = <<>>
    BY <2>1, <2>3 DEF Send, ListenersOK
  <2>5. \A t \in Slot : ~slots'[t].active => held'[t] = NoInput
    BY <2>1, <2>2 DEF ListenersOK
  <2> QED BY <2>3, <2>4, <2>5 DEF ListenersOK
<1>3. ASSUME NEW c \in {"injector", "bridge"}, Bind(c) PROVE ListenersOK'
  BY <1>3 DEF Bind, ListenersOK, injectorVars, bridgeVars
<1>4. CASE Quit
  BY <1>4, EmptyGamepadIsTyped DEF Quit, ListenersOK
<1>5. CASE GameLoadsSdl /\ UNCHANGED bridgeVars
  BY <1>5 DEF GameLoadsSdl, ListenersOK, streamVars, bridgeVars
<1>6. ASSUME NEW outcome \in AttachOutcome, InjectorReceives(outcome) PROVE ListenersOK'
  BY <1>6 DEF InjectorReceives, ListenersOK, bridgeVars
<1>7. ASSUME NEW created \in BOOLEAN, BridgeReceives(created) PROVE ListenersOK'
  <2>1. Head(queue) \in UdpEvent
    BY <1>7 DEF BridgeReceives, IInv, StreamOK
  <2>2. bridge' \in [Slot -> Gamepad]
    BY <1>7, <2>1, BridgeHandles DEF BridgeReceives, ListenersOK
  <2> QED BY <1>7, <2>2 DEF BridgeReceives, ListenersOK, injectorVars
<1>8. CASE UNCHANGED vars
  BY <1>8 DEF vars, streamVars, injectorVars, bridgeVars, ListenersOK
<1> QED BY <1>2, <1>3, <1>4, <1>5, <1>6, <1>7, <1>8 DEF Next, Receive

LEMMA SlotStepsAre == \A r, e, n : <<r, e, n>> \in SlotSteps
                        <=> r \in SlotRecord /\ e \in UdpEvent /\ n \in SlotRecord /\ SlotMoves(r, e, n)
  BY DEF SlotSteps

LEMMA SlotMarksAre == \A e, n : <<e, n>> \in SlotMarks
                        <=> e \in UdpEvent /\ n \in SlotRecord /\ e.type = "disconnected" /\ n = EmptySlot
  BY DEF SlotMarks

\* What the daemon sends, the bridge has yet to hear.
LEMMA BridgeIsSent == ASSUME IInv, BridgeFollowsOK, Daemon, UNCHANGED bridge PROVE BridgeFollowsOK'
<1> SUFFICES ASSUME port' = "bridge", NEW s \in Slot, ~missed'[s]
             PROVE  Follows(queue', slots'[s], BridgeKnows(bridge'[s]), About(s), SlotSteps, SlotMarks)
  BY DEF BridgeFollowsOK
<1>1. StreamOK /\ StreamOK'
  BY DaemonKeeps DEF IInv
<1>2. PICK e \in UdpEvent :
        /\ Send(e)
        /\ SlotMoves(slots[e.slot], e, slots'[e.slot])
        /\ \A t \in Slot : t # e.slot => slots'[t] = slots[t]
  BY <1>1, DaemonSends
<1>3. port = "bridge"
  BY DEF Daemon, OnConnect, OnDisconnect, OnInput, OnGuide
<1>4. ~missed[s] =>
        Follows(queue, slots[s], BridgeKnows(bridge[s]), About(s), SlotSteps, SlotMarks)
  BY <1>3 DEF BridgeFollowsOK
<1>5. slots[s] \in SlotRecord /\ slots'[s] \in SlotRecord
  BY <1>1 DEF StreamOK
<1>6. ASSUME e.slot = s
      PROVE  /\ <<slots[s], e, slots'[s]>> \in SlotSteps
             /\ Resync(e) => <<e, slots'[s]>> \in SlotMarks
  <2>1. <<slots[s], e, slots'[s]>> \in SlotSteps
    BY <1>2, <1>5, <1>6, SlotStepsAre
  <2>2. Resync(e) => e.type = "disconnected" /\ slots'[s] = EmptySlot
    BY <1>2, <1>3, <1>6 DEF Resync, SlotMoves
  <2> QED BY <1>5, <2>1, <2>2, SlotMarksAre
<1> DEFINE K == BridgeKnows(bridge[s])
           now == slots[s]
           next == slots'[s]
<1>7. /\ ~missed[s] => Follows(queue, now, K, About(s), SlotSteps, SlotMarks)
      /\ IF e.slot = s THEN <<now, e, next>> \in SlotSteps /\ (Resync(e) => <<e, next>> \in SlotMarks)
                       ELSE next = now
  BY <1>2, <1>4, <1>6
<1> HIDE DEF K, now, next
<1>8. Follows(queue', next, K, About(s), SlotSteps, SlotMarks)
  BY <1>1, <1>2, <1>3, <1>7, SendFollowed
<1> QED BY <1>8 DEF K, next

\* What it hears, it makes the most of, or notes that it has missed it.
LEMMA BridgeHears ==
  ASSUME IInv, ListenersOK, BridgeFollowsOK, NEW created \in BOOLEAN, BridgeReceives(created)
  PROVE  BridgeFollowsOK'
<1> SUFFICES ASSUME port' = "bridge", NEW s \in Slot, ~missed'[s]
             PROVE  Follows(queue', slots'[s], BridgeKnows(bridge'[s]), About(s), SlotSteps, SlotMarks)
  BY DEF BridgeFollowsOK
<1> DEFINE e == Head(queue)
           refused == BridgeRefused(e, created)
           K == BridgeKnows(bridge[s])
           L == BridgeKnows(bridge'[s])
<1>1. /\ StreamOK /\ queue # <<>> /\ queue' = Tail(queue) /\ port = "bridge" /\ slots' = slots
      /\ HandleEventLine(e, created) /\ Missed(e, refused) /\ e \in UdpEvent
  BY DEF BridgeReceives, IInv, StreamOK
<1>2. refused \in BOOLEAN
  BY DEF BridgeRefused
<1>3. /\ \A t \in Slot : t # e.slot => bridge'[t] = bridge[t]
      /\ ~refused => \A r \in BridgeKnows(bridge[e.slot]), n \in SlotRecord :
                       SlotMoves(r, e, n) => n \in BridgeKnows(bridge'[e.slot])
      /\ e.type = "disconnected" => EmptySlot \in BridgeKnows(bridge'[e.slot])
  <2> HIDE DEF e
  <2> QED BY <1>1, BridgeHandles DEF ListenersOK
<1>4. ~missed[s] => Follows(queue, slots[s], K, About(s), SlotSteps, SlotMarks)
  BY <1>1 DEF BridgeFollowsOK
<1>5. e.slot # s => L = K
  BY <1>3
<1>6. e.slot = s /\ ~refused =>
        /\ \A r, n : r \in K /\ <<r, e, n>> \in SlotSteps => n \in L
        /\ \A n : <<e, n>> \in SlotMarks => n \in L
  BY <1>3, SlotStepsAre, SlotMarksAre
<1>7. \A f \in About(s) : Resync(f) =>
        \A r, n : <<r, f, n>> \in SlotSteps => <<f, n>> \in SlotMarks
  <2> SUFFICES ASSUME NEW f \in About(s), Resync(f), NEW r, NEW n, <<r, f, n>> \in SlotSteps
               PROVE  <<f, n>> \in SlotMarks
    OBVIOUS
  <2>1. f \in UdpEvent /\ f.type = "disconnected"
    BY <1>1 DEF About, Resync
  <2>2. n \in SlotRecord /\ SlotMoves(r, f, n)
    BY SlotStepsAre
  <2>3. n = EmptySlot
    BY <2>1, <2>2, Zenon DEF SlotMoves
  <2> QED BY <2>1, <2>2, <2>3, SlotMarksAre
<1> HIDE DEF refused, K, L
<1>8. Follows(queue', slots[s], L, About(s), SlotSteps, SlotMarks)
  BY <1>1, <1>2, <1>4, <1>5, <1>6, <1>7, TakeFollowed DEF e
<1> QED BY <1>1, <1>8 DEF L

LEMMA BridgeGoesOn == ASSUME IInv, ListenersOK, BridgeFollowsOK, [Next]_vars PROVE BridgeFollowsOK'
<1>1. CASE Daemon /\ UNCHANGED <<injectorVars, bridgeVars>>
  BY <1>1, BridgeIsSent DEF bridgeVars
<1>2. ASSUME NEW c \in {"injector", "bridge"}, Bind(c) PROVE BridgeFollowsOK'
  <2> SUFFICES ASSUME NEW s \in Slot, ~missed'[s]
               PROVE  Follows(queue', slots'[s], BridgeKnows(bridge'[s]), About(s), SlotSteps, SlotMarks)
    BY DEF BridgeFollowsOK
  <2>1. /\ queue' = <<>> /\ slots' = slots /\ bridge'[s] = EmptyGamepad
    BY <1>2 DEF Bind, ListenersOK, bridgeVars
  <2>2. slots[s] = EmptySlot
    BY <1>2 DEF Bind
  <2>3. EmptySlot \in BridgeKnows(EmptyGamepad)
    BY EmptyGamepadIsTyped, EmptySlotIsTyped DEF BridgeKnows
  <2> QED BY <2>1, <2>2, <2>3, FollowsFromStart
<1>3. CASE Quit
  BY <1>3 DEF Quit, BridgeFollowsOK
<1>4. CASE GameLoadsSdl /\ UNCHANGED bridgeVars
  BY <1>4 DEF GameLoadsSdl, BridgeFollowsOK, streamVars, bridgeVars
<1>5. ASSUME NEW outcome \in AttachOutcome, InjectorReceives(outcome) PROVE BridgeFollowsOK'
  BY <1>5 DEF InjectorReceives, BridgeFollowsOK
<1>6. ASSUME NEW created \in BOOLEAN, BridgeReceives(created) PROVE BridgeFollowsOK'
  BY <1>6, BridgeHears
<1>7. CASE UNCHANGED vars
  BY <1>7 DEF vars, streamVars, bridgeVars, BridgeFollowsOK
<1> QED BY <1>1, <1>2, <1>3, <1>4, <1>5, <1>6, <1>7 DEF Next, Receive

LEMMA FirstListeners == Init => ListenersOK /\ BridgeFollowsOK
<1> SUFFICES ASSUME Init PROVE ListenersOK /\ BridgeFollowsOK
  OBVIOUS
<1>1. port = "none" /\ queue = <<>> /\ \A s \in Slot : held[s] = NoInput
  BY DEF Init, StreamInit
<1>2. \A s \in Slot : inj[s] = EmptyPad /\ bridge[s] = EmptyGamepad
  BY DEF Init, InjectorStopped, BridgeStopped
<1>3. bridge \in [Slot -> Gamepad]
  BY EmptyGamepadIsTyped DEF Init, BridgeStopped
<1> QED BY <1>1, <1>2, <1>3 DEF ListenersOK, BridgeFollowsOK

(* Whatever the bridge knows of a slot it has not missed an event of, and  *)
(* the events on their way, lead to the slot's state in the daemon.        *)
THEOREM BridgeFollowing == Spec => [](ListenersOK /\ BridgeFollowsOK)
<1>1. IInv /\ ListenersOK /\ BridgeFollowsOK /\ [Next]_vars => (ListenersOK /\ BridgeFollowsOK)'
  BY ListenersKeep, BridgeGoesOn
<1> QED BY <1>1, FirstListeners, Always, PTL DEF Spec

(* The gamepad of the bridge shows what the daemon's own would, for any    *)
(* number of slots, any buffer and any loss of events.                     *)
THEOREM BridgeFollows == Spec => []BridgeShowsDaemonsReport
<1>1. IInv /\ BridgeFollowsOK => BridgeShowsDaemonsReport
  <2> SUFFICES ASSUME IInv, BridgeFollowsOK, NEW s \in Slot, port = "bridge", Quiet(s), ~missed[s]
               PROVE  /\ bridge[s].active = slots[s].active
                      /\ bridge[s].active => bridge[s].device = slots[s].last_report
    BY DEF BridgeShowsDaemonsReport
  <2>1. Follows(queue, slots[s], BridgeKnows(bridge[s]), About(s), SlotSteps, SlotMarks)
    BY DEF BridgeFollowsOK
  <2>2. queue \in Seq(UdpEvent) /\ \A i \in 1 .. Len(queue) : queue[i] \notin About(s)
    BY DEF IInv, StreamOK, Quiet, About
  <2>3. slots[s] \in BridgeKnows(bridge[s])
    BY <2>1, <2>2, FollowsToEnd
  <2> QED BY <2>3 DEF BridgeKnows
<1> QED BY <1>1, Always, BridgeFollowing, PTL

-----------------------------------------------------------------------------
(* What on_input reads                                                     *)

\* The word k has the digit bit for the mask m, and rest above it.
Digit(k, m, bit, rest) ==
  /\ m \in Nat \ {0} /\ k \in Int /\ bit \in {0, 1} /\ rest \in Int
  /\ m * (bit + 2 * rest) <= k /\ k < m * (bit + 2 * rest) + m

LEMMA DigitIsRead ==
  ASSUME NEW k, NEW m, NEW bit, NEW rest, Digit(k, m, bit, rest)
  PROVE  (k \div m) % 2 = bit
<1>1. k \div m = bit + 2 * rest
  BY DEF Digit
<1> QED BY <1>1 DEF Digit

\* The word of a set of buttons has the digits of those buttons and no others.
LEMMA KeysAreRead == ASSUME NEW g, g.buttons \subseteq Button PROVE ButtonsOf(Keys(g)) = g.buttons
<1> DEFINE on(button) == IF button \in g.buttons THEN 1 ELSE 0
           k == Keys(g)
           sync == on("sync")  menu == on("menu")  view == on("view")  a == on("a")
           b == on("b")  x == on("x")  y == on("y")  up == on("up")
           down == on("down")  left == on("left")  right == on("right")  lb == on("lb")
           rb == on("rb")  ls == on("ls")  rs == on("rs")
<1>1. /\ sync \in {0, 1} /\ menu \in {0, 1} /\ view \in {0, 1} /\ a \in {0, 1} /\ b \in {0, 1}
      /\ x \in {0, 1} /\ y \in {0, 1} /\ up \in {0, 1} /\ down \in {0, 1} /\ left \in {0, 1}
      /\ right \in {0, 1} /\ lb \in {0, 1} /\ rb \in {0, 1} /\ ls \in {0, 1} /\ rs \in {0, 1}
  OBVIOUS
<1>2. k = sync + 4 * menu + 8 * view + 16 * a + 32 * b + 64 * x + 128 * y + 256 * up +
            512 * down + 1024 * left + 2048 * right + 4096 * lb + 8192 * rb + 16384 * ls + 32768 * rs
  BY DEF Keys, Mask
<1>3. \A button \in Button :
        (k \div Mask[button]) % 2 = on(button) => (button \in ButtonsOf(k) <=> button \in g.buttons)
  BY DEF ButtonsOf
<1>4. /\ on("sync") = sync /\ on("menu") = menu /\ on("view") = view /\ on("a") = a /\ on("b") = b
      /\ on("x") = x /\ on("y") = y /\ on("up") = up /\ on("down") = down /\ on("left") = left
      /\ on("right") = right /\ on("lb") = lb /\ on("rb") = rb /\ on("ls") = ls /\ on("rs") = rs
  OBVIOUS
<1> HIDE DEF on, k, sync, menu, view, a, b, x, y, up, down, left, right, lb, rb, ls, rs
<1> DEFINE over_ls == rs
           over_rb == ls + 2 * over_ls
           over_lb == rb + 2 * over_rb
           over_right == lb + 2 * over_lb
           over_left == right + 2 * over_right
           over_down == left + 2 * over_left
           over_up == down + 2 * over_down
           over_y == up + 2 * over_up
           over_x == y + 2 * over_y
           over_b == x + 2 * over_x
           over_a == b + 2 * over_b
           over_view == a + 2 * over_a
           over_menu == view + 2 * over_view
<1>5. /\ Digit(k, 1, sync, 2 * (menu + 2 * over_menu))
      /\ Digit(k, 4, menu, over_menu)
      /\ Digit(k, 8, view, over_view)
      /\ Digit(k, 16, a, over_a)
      /\ Digit(k, 32, b, over_b)
      /\ Digit(k, 64, x, over_x)
      /\ Digit(k, 128, y, over_y)
      /\ Digit(k, 256, up, over_up)
      /\ Digit(k, 512, down, over_down)
      /\ Digit(k, 1024, left, over_left)
      /\ Digit(k, 2048, right, over_right)
      /\ Digit(k, 4096, lb, over_lb)
      /\ Digit(k, 8192, rb, over_rb)
      /\ Digit(k, 16384, ls, over_ls)
      /\ Digit(k, 32768, rs, 0)
  BY <1>1, <1>2 DEF Digit
<1>6. /\ (k \div 1) % 2 = sync /\ (k \div 4) % 2 = menu /\ (k \div 8) % 2 = view
      /\ (k \div 16) % 2 = a /\ (k \div 32) % 2 = b /\ (k \div 64) % 2 = x
      /\ (k \div 128) % 2 = y /\ (k \div 256) % 2 = up /\ (k \div 512) % 2 = down
      /\ (k \div 1024) % 2 = left /\ (k \div 2048) % 2 = right /\ (k \div 4096) % 2 = lb
      /\ (k \div 8192) % 2 = rb /\ (k \div 16384) % 2 = ls /\ (k \div 32768) % 2 = rs
  BY <1>5, DigitIsRead
<1>7. \A button \in Button : (k \div Mask[button]) % 2 = on(button)
  BY <1>4, <1>6 DEF Button, Mask
<1> QED BY <1>3, <1>7 DEF ButtonsOf, k

\* a payload that begins with 16 bits of buttons
Holds(p, g) ==
  /\ p[1] = Keys(g) /\ p[2] = g.lt /\ p[3] = g.rt
  /\ p[4] = Raw(g.lx) /\ p[5] = Raw(g.ly) /\ p[6] = Raw(g.rx) /\ p[7] = Raw(g.ry)

LEMMA SignedRaw == \A v \in Int16 : Signed(Raw(v)) = v
<1> SUFFICES ASSUME NEW v \in Int16 PROVE Signed(Raw(v)) = v
  OBVIOUS
<1>1. v \in Int /\ -32768 <= v /\ v <= 32767
  BY Int16Bounds
<1> QED BY <1>1 DEF Signed, Raw

LEMMA HeldIsRead ==
  ASSUME NEW p, NEW g \in GipState, Holds(p, g), Realistic(g)
  PROVE  Parsed(p) = g
<1>1. /\ g.lx \in Int16 /\ g.ly \in Int16 /\ g.rx \in Int16 /\ g.ry \in Int16
      /\ g.buttons \subseteq Button
      /\ g = [buttons |-> g.buttons, lt |-> g.lt, rt |-> g.rt,
              lx |-> g.lx, ly |-> g.ly, rx |-> g.rx, ry |-> g.ry]
  BY DEF GipState
<1>2. /\ Signed(p[4]) = g.lx /\ Signed(p[5]) = g.ly /\ Signed(p[6]) = g.rx /\ Signed(p[7]) = g.ry
      /\ ButtonsOf(p[1]) = g.buttons /\ p[2] = g.lt /\ p[3] = g.rt
  BY <1>1, SignedRaw, KeysAreRead DEF Holds
<1>3. Reading(p, 2) = [buttons |-> ButtonsOf(p[1]), lt |-> p[2], rt |-> p[3],
                       lx |-> Signed(p[4]), ly |-> Signed(p[5]),
                       rx |-> Signed(p[6]), ry |-> Signed(p[7])]
  BY DEF Reading
<1>4. Reading(p, 2) = g
  BY <1>1, <1>2, <1>3, Zenon
<1> QED BY <1>4 DEF Parsed

\* the words behind the buttons
Rest6(g) == <<g.lt, g.rt, Raw(g.lx), Raw(g.ly), Raw(g.rx), Raw(g.ry)>>

Spliced(p, h, r) ==
  /\ Len(p) = Len(h) + Len(r)
  /\ \A i \in 1 .. Len(h) : p[i] = h[i]
  /\ \A i \in 1 .. Len(r) : p[Len(h) + i] = r[i]

LEMMA JoinedAt ==
  ASSUME NEW S, NEW h \in Seq(S), NEW r \in Seq(S)
  PROVE  h \o r \in Seq(S) /\ Spliced(h \o r, h, r)
<1>1. /\ h \o r \in Seq(S)
      /\ Len(h \o r) = Len(h) + Len(r)
      /\ \A i \in 1 .. Len(h) : (h \o r)[i] = h[i]
      /\ \A i \in Len(h) + 1 .. Len(h) + Len(r) : (h \o r)[i] = r[i - Len(h)]
  OBVIOUS
<1>2. \A i \in 1 .. Len(r) : Len(h) + i \in Len(h) + 1 .. Len(h) + Len(r) /\ (Len(h) + i) - Len(h) = i
  OBVIOUS
<1> QED BY <1>1, <1>2 DEF Spliced

(* What a controller sends is what on_input reads: for each gamepad state  *)
(* with triggers below 4096 and each layout with 16 bits of buttons, with  *)
(* appended bytes or the wrapper of wireless frames.                       *)
THEOREM PayloadIsRead ==
  ASSUME NEW g \in GipState, NEW layout \in {"xone", "padded", "wrapped"}, Realistic(g)
  PROVE  Parsed(Unwrapped(Encode(g, layout))) = g
<1> DEFINE k == Keys(g)
           rest == Rest6(g)
           S == Word \cup {k}
           h == <<k>>
           q == h \o rest
<1>1. g \in GipState
  OBVIOUS
<1>2. /\ g.lt \in S /\ g.rt \in S /\ Raw(g.lx) \in S /\ Raw(g.ly) \in S
      /\ Raw(g.rx) \in S /\ Raw(g.ry) \in S
  BY <1>1, RawIsWord, SMTT(60) DEF GipState
<1>w. 0 \in Word /\ 32 \in Word /\ 44 * 256 + 7 \in Word
  BY WordRange
<1>3. 0 \in S /\ 32 \in S /\ 44 * 256 + 7 \in S
  BY <1>w
<1>4. h \in Seq(S) /\ Len(h) = 1 /\ h[1] = k
  OBVIOUS
<1>5. rest \in Seq(S) /\ Len(rest) = 6
      /\ rest[1] = g.lt /\ rest[2] = g.rt /\ rest[3] = Raw(g.lx) /\ rest[4] = Raw(g.ly)
      /\ rest[5] = Raw(g.rx) /\ rest[6] = Raw(g.ry)
  <2> HIDE DEF S
  <2> QED BY <1>2 DEF Rest6
<1> HIDE DEF k, rest, S, h
<1>6. q \in Seq(S) /\ Spliced(q, h, rest)
  BY <1>4, <1>5, JoinedAt
<1> HIDE DEF q
<1>7. /\ Len(q) = 7 /\ q[1] = k
      /\ \A i \in 1 .. 6 : q[1 + i] = rest[i]
  BY <1>4, <1>5, <1>6 DEF Spliced
<1>8. Holds(q, g)
  <2>1. /\ q[1 + 1] = rest[1] /\ q[1 + 2] = rest[2] /\ q[1 + 3] = rest[3]
        /\ q[1 + 4] = rest[4] /\ q[1 + 5] = rest[5] /\ q[1 + 6] = rest[6]
    BY <1>7
  <2> QED BY <1>5, <1>7, <2>1 DEF Holds, k
<1>9. CASE layout = "xone"
  <2>1. Encode(g, layout) = q
    BY <1>9 DEF Encode, q, h, rest, k, Rest6
  <2>2. Unwrapped(q) = q
    BY <1>7 DEF Unwrapped
  <2> QED BY <1>1, <1>8, <2>1, <2>2, HeldIsRead
<1>10. CASE layout = "padded"
  <2> DEFINE t == <<0, 0>>
             p == q \o t
  <2>1. Encode(g, layout) = p
    BY <1>10 DEF Encode, q, h, rest, k, Rest6
  <2>2. t \in Seq(S) /\ Len(t) = 2
    BY <1>3
  <2> HIDE DEF t
  <2>3. Spliced(p, q, t)
    BY <1>6, <2>2, JoinedAt
  <2> HIDE DEF p
  <2>4. Len(p) = 9 /\ \A i \in 1 .. 7 : p[i] = q[i]
    BY <1>7, <2>2, <2>3 DEF Spliced
  <2>5. Unwrapped(p) = p
    BY <2>4 DEF Unwrapped
  <2>6. Holds(p, g)
    BY <1>8, <2>4 DEF Holds
  <2> QED BY <1>1, <2>1, <2>5, <2>6, HeldIsRead
<1>11. CASE layout = "wrapped"
  <2> DEFINE w == <<0, 0, 32, 44 * 256 + 7, k>>
             t == <<0>>
             v == w \o rest
             p == v \o t
             inner == SubSeq(p, 5, 12)
  <2>1. Encode(g, layout) = p
    BY <1>11 DEF Encode, rest, k, Rest6
  <2>2. /\ w \in Seq(S) /\ Len(w) = 5 /\ w[3] = 32 /\ w[4] = 44 * 256 + 7 /\ w[5] = k
        /\ t \in Seq(S) /\ Len(t) = 1
    <3>1. k \in S
      BY DEF S
    <3> QED BY <1>3, <3>1
  <2> HIDE DEF w, t
  <2>3. v \in Seq(S) /\ Spliced(v, w, rest)
    BY <1>5, <2>2, JoinedAt
  <2> HIDE DEF v
  <2>4. /\ Len(v) = 11
        /\ \A i \in 1 .. 5 : v[i] = w[i]
        /\ \A i \in 1 .. 6 : v[5 + i] = rest[i]
    BY <1>5, <2>2, <2>3 DEF Spliced
  <2>5. p \in Seq(S) /\ Spliced(p, v, t)
    BY <2>2, <2>3, JoinedAt
  <2> HIDE DEF p
  <2>6. p \in Seq(S) /\ Len(p) = 12 /\ \A i \in 1 .. 11 : p[i] = v[i]
    BY <2>2, <2>4, <2>5 DEF Spliced
  <2>7. p[3] = 32 /\ p[4] = 44 * 256 + 7 /\ p[5] = k
    BY <2>2, <2>4, <2>6
  <2>8. \A i \in 1 .. 6 : p[5 + i] = rest[i]
    <3>1. \A i \in 1 .. 6 : 5 + i \in 1 .. 11
      OBVIOUS
    <3> QED BY <2>4, <2>6, <3>1, SMTT(60)
  <2>9. Unwrapped(p) = inner
    BY <2>6, <2>7 DEF Unwrapped
  <2>10. \A i \in 1 .. 8 : inner[i] = p[i + 4]
    BY <2>6
  <2> HIDE DEF inner
  <2>11. /\ inner[1] = p[5] /\ inner[2] = p[5 + 1] /\ inner[3] = p[5 + 2] /\ inner[4] = p[5 + 3]
         /\ inner[5] = p[5 + 4] /\ inner[6] = p[5 + 5] /\ inner[7] = p[5 + 6]
    BY <2>10
  <2>12. Holds(inner, g)
    BY <1>5, <2>7, <2>8, <2>11, SMTT(60) DEF Holds, k
  <2> QED BY <1>1, <2>1, <2>9, <2>12, HeldIsRead
<1> QED BY <1>9, <1>10, <1>11

-----------------------------------------------------------------------------
(* The injector                                                            *)

\* what a connected controller of the injector shows of one of the daemon's
PadKnows(p) ==
  {r \in Heard :
     /\ p.active = r.active
     /\ r.active => p.now = IF r.held = NoInput THEN ZeroGip ELSE Corrected(r.held, p.base)
     /\ ~r.active => r.held = NoInput}

HeldSteps == {t \in Heard \X UdpEvent \X Heard : HeldMoves(t[1], t[2], t[3])}
HeldMarks ==
  {t \in UdpEvent \X Heard :
     \/ t[1].type = "disconnected" /\ t[2] = [active |-> FALSE, held |-> NoInput]
     \/ /\ t[1].type = "input" /\ t[1].gip \in Inputs
        /\ t[2] = [active |-> TRUE, held |-> t[1].gip]}

\* No two slots have the same joystick, and each shows the state of its slot.
\* With SDL2 a slot may lose its joystick to another one that goes.
ShownOK(d, p) ==
  /\ DOMAIN d.shown = Joy /\ d.shown = [j \in Joy |-> d.shown[j]]
  /\ \A i, k \in DOMAIN d.attached : d.attached[i] = d.attached[k] => i = k
  /\ \A s, t \in Slot : p[s].active /\ p[t].active /\ p[s].joy = p[t].joy => s = t
  /\ \A s \in Slot, i \in DOMAIN d.attached :
       p[s].active /\ p[s].joy = d.attached[i] => d.shown[d.attached[i]] = Shows(p[s].now)

\* The strengthening of InjectorFollowsDaemon: not only when nothing is on its
\* way.
InjectorFollowsOK ==
  /\ ShownOK(sdl, inj)
  /\ port = "injector" =>
       \A s \in Slot : ~missed[s] =>
         Follows(queue, HeardOf(slots[s], held[s]), PadKnows(inj[s]), About(s), HeldSteps, HeldMarks)

LEMMA ReadyShows == ASSUME SdlOK(sdl)
                    PROVE  Ready(sdl).attached = sdl.attached /\ Ready(sdl).shown = sdl.shown
<1>1. sdl = [symbols |-> sdl.symbols, api |-> sdl.api, attached |-> sdl.attached, shown |-> sdl.shown]
  BY DEF SdlOK
<1> DEFINE api == IF sdl.api # 0 THEN sdl.api ELSE IF 2 \in sdl.symbols THEN 2
                  ELSE IF 3 \in sdl.symbols THEN 3 ELSE 0
<1>2. Ready(sdl) = [sdl EXCEPT !.api = api]
  BY DEF Ready
<1> HIDE DEF api
<1> QED BY <1>1, <1>2

\* A slot that is connected gets a joystick at rest that no other has.
LEMMA Attaches ==
  ASSUME IInv, NEW s \in Slot, NEW outcome \in AttachOutcome,
         Ready(sdl).api # 0, ~inj[s].active, outcome = "ok"
  PROVE  /\ FreshJoy \in Joy
         /\ \A i \in DOMAIN sdl.attached : sdl.attached[i] # FreshJoy
         /\ \A r \in Slot : inj[r].joy # FreshJoy
         /\ ConnectedSdl(s, outcome).attached = Append(sdl.attached, FreshJoy)
         /\ ConnectedSdl(s, outcome).shown = [sdl.shown EXCEPT ![FreshJoy] = Shows(ZeroGip)]
         /\ ConnectedPad(s, outcome).active = TRUE /\ ConnectedPad(s, outcome).joy = FreshJoy
         /\ ConnectedPad(s, outcome).now = ZeroGip
<1> DEFINE d == Ready(sdl)
           e == ConnectedSdl(s, outcome)
           p == ConnectedPad(s, outcome)
           j == FreshJoy
           z == Shows(ZeroGip)
<1>1. /\ SdlOK(d) /\ d.attached = sdl.attached /\ d.shown = sdl.shown
      /\ SdlOK(sdl) /\ inj \in [Slot -> Pad]
  BY ReadyKeeps, ReadyShows DEF IInv, StreamOK
<1>2. Len(sdl.attached) < MaxJoys
  <2>1. Len(sdl.attached) # MaxJoys
    BY RoomLeft, Zenon
  <2>2. Len(sdl.attached) \in Nat /\ Len(sdl.attached) <= MaxJoys /\ MaxJoys \in Nat
    BY <1>1, Sizes DEF SdlOK
  <2> QED BY <2>1, <2>2
<1>3. /\ j \in Joy
      /\ \A i \in DOMAIN sdl.attached : sdl.attached[i] # j
      /\ \A r \in Slot : inj[r].joy # j
  BY <1>1, <1>2, Fresh, Zenon
<1>4. e = Attached(d, j) /\ p = [EmptyPad EXCEPT !.active = TRUE, !.joy = j,
                                                 !.instance_id = InstanceOf(d, j)]
  BY DEF ConnectedSdl, ConnectedPad
<1>5. p.active = TRUE /\ p.joy = j /\ p.now = ZeroGip
  BY <1>4 DEF EmptyPad
<1>6. e = [d EXCEPT !.attached = Append(@, j), !.shown[j] = z]
  BY <1>4 DEF Attached
<1>7. d = [symbols |-> d.symbols, api |-> d.api, attached |-> d.attached, shown |-> d.shown]
  BY <1>1 DEF SdlOK
<1> HIDE DEF d, e, p, z, j
<1>8. e = [d EXCEPT !.attached = Append(d.attached, j), !.shown = [@ EXCEPT ![j] = z]]
  BY <1>6
<1> DEFINE a == Append(d.attached, j)
           w == [d.shown EXCEPT ![j] = z]
<1>9. e = [d EXCEPT !.attached = a, !.shown = w]
  BY <1>7, <1>8
<1> HIDE DEF a, w
<1>10. e.attached = a /\ e.shown = w
  BY <1>7, <1>9
<1> QED BY <1>1, <1>3, <1>5, <1>10 DEF a, w, e, p, j, z

\* A slot that is disconnected takes a joystick with it, or none.
LEMMA Detaches ==
  ASSUME SdlOK(sdl), NEW inst
  PROVE  \/ Detached(sdl, inst) = sdl
         \/ \E i \in 1 .. Len(sdl.attached) :
              /\ Detached(sdl, inst).attached = RemoveAt(sdl.attached, i)
              /\ Detached(sdl, inst).shown = [sdl.shown EXCEPT ![sdl.attached[i]] = Shows(ZeroGip)]
<1> DEFINE gone == {i \in DOMAIN sdl.attached :
                      IF sdl.api = 2 THEN i = inst + 1 ELSE sdl.attached[i] = inst}
           i == CHOOSE k \in gone : TRUE
           e == Detached(sdl, inst)
           z == Shows(ZeroGip)
           j == sdl.attached[i]
           a == RemoveAt(sdl.attached, i)
           w == [sdl.shown EXCEPT ![j] = z]
<1>1. sdl = [symbols |-> sdl.symbols, api |-> sdl.api, attached |-> sdl.attached, shown |-> sdl.shown]
      /\ sdl.attached \in Seq(Joy)
  BY DEF SdlOK
<1>2. CASE gone = {}
  BY <1>2 DEF Detached
<1>3. CASE gone # {}
  <2>1. i \in 1 .. Len(sdl.attached)
    BY <1>1, <1>3
  <2>2. e = [sdl EXCEPT !.attached = RemoveAt(@, i), !.shown[j] = z]
    BY <1>3 DEF Detached
  <2> HIDE DEF e, z, i, j, gone
  <2>3. e = [sdl EXCEPT !.attached = RemoveAt(sdl.attached, i), !.shown = [@ EXCEPT ![j] = z]]
    BY <2>2
  <2>4. e = [sdl EXCEPT !.attached = a, !.shown = w]
    BY <2>3
  <2> HIDE DEF a, w
  <2>5. e.attached = a /\ e.shown = w
    BY <1>1, <2>4
  <2> QED BY <2>1, <2>5 DEF a, w, e, j, z
<1> QED BY <1>2, <1>3

\* Each slot still has its own joystick, which shows its state.
LEMMA ConnectShows ==
  ASSUME IInv, ShownOK(sdl, inj), NEW s \in Slot, NEW outcome \in AttachOutcome
  PROVE  ShownOK(ConnectedSdl(s, outcome), [inj EXCEPT ![s] = ConnectedPad(s, outcome)])
<1> DEFINE e == ConnectedSdl(s, outcome)
           p == ConnectedPad(s, outcome)
           q == [inj EXCEPT ![s] = p]
           at == sdl.attached
           n == Len(at)
           j == FreshJoy
           z == Shows(ZeroGip)
<1>1. inj \in [Slot -> Pad] /\ SdlOK(sdl) /\ at \in Seq(Joy) /\ n \in Nat /\ DOMAIN at = 1 .. n
  BY DEF IInv, SdlOK
<1>4. /\ DOMAIN sdl.shown = Joy /\ sdl.shown = [k \in Joy |-> sdl.shown[k]]
      /\ \A i, k \in DOMAIN sdl.attached : sdl.attached[i] = sdl.attached[k] => i = k
      /\ \A r, t \in Slot : inj[r].active /\ inj[t].active /\ inj[r].joy = inj[t].joy => r = t
      /\ \A r \in Slot, i \in DOMAIN sdl.attached :
           inj[r].active /\ inj[r].joy = sdl.attached[i]
             => sdl.shown[sdl.attached[i]] = Shows(inj[r].now)
  BY DEF ShownOK
<1>2. CASE Ready(sdl).api = 0 \/ inj[s].active \/ outcome # "ok"
  <2>1. p = inj[s] /\ e = Ready(sdl)
    BY <1>2 DEF ConnectedPad, ConnectedSdl
  <2>2. e.attached = sdl.attached /\ e.shown = sdl.shown
    BY <1>1, <2>1, ReadyShows
  <2>3. q = inj
    BY <1>1, <2>1
  <2> HIDE DEF e, p, q
  <2> QED BY <2>2, <2>3, SMTT(60) DEF ShownOK, e, p, q
<1>3. CASE ~(Ready(sdl).api = 0 \/ inj[s].active \/ outcome # "ok")
  <2>1. /\ j \in Joy
        /\ \A i \in DOMAIN at : at[i] # j
        /\ \A r \in Slot : inj[r].joy # j
        /\ e.attached = Append(at, j)
        /\ e.shown = [sdl.shown EXCEPT ![j] = z]
        /\ p.active = TRUE /\ p.joy = j /\ p.now = ZeroGip
    BY <1>3, Attaches
  <2>2. q[s] = p /\ \A r \in Slot \ {s} : q[r] = inj[r]
    BY <1>1
  <2> HIDE DEF e, p, q, j, z, at
  <2> DEFINE a == Append(at, j)
             f == sdl.shown
             w == [f EXCEPT ![j] = z]
  <2>3. /\ DOMAIN f = Joy /\ f = [k \in Joy |-> f[k]]
        /\ \A i, k \in DOMAIN at : at[i] = at[k] => i = k
        /\ \A r, t \in Slot : inj[r].active /\ inj[t].active /\ inj[r].joy = inj[t].joy => r = t
        /\ \A r \in Slot, i \in DOMAIN at :
             inj[r].active /\ inj[r].joy = at[i] => f[at[i]] = Shows(inj[r].now)
    BY <1>4, Zenon DEF at
  <2>4. /\ DOMAIN a = (1 .. n) \cup {n + 1} /\ n + 1 \notin 1 .. n /\ a[n + 1] = j
        /\ \A i \in 1 .. n : a[i] = at[i] /\ a[i] # j /\ at[i] \in Joy
    <3>1. /\ DOMAIN a = 1 .. n + 1 /\ a[n + 1] = j
          /\ \A i \in 1 .. n : a[i] = at[i] /\ at[i] \in Joy
      BY <1>1, <2>1
    <3> HIDE DEF a, n
    <3>2. 1 .. n + 1 = (1 .. n) \cup {n + 1} /\ n + 1 \notin 1 .. n
      BY <1>1
    <3> QED BY <1>1, <2>1, <3>1, <3>2, SMTT(60)
  <2> HIDE DEF f
  <2>5. DOMAIN w = Joy /\ w = [k \in Joy |-> w[k]] /\ w[j] = z /\ \A k \in Joy : k # j => w[k] = f[k]
    BY <2>1, <2>3, SMTT(60)
  <2> HIDE DEF a, w, n
  <2>6. \A i, k \in DOMAIN a : a[i] = a[k] => i = k
    BY <1>1, <2>3, <2>4
  <2>7. \A r, t \in Slot : q[r].active /\ q[t].active /\ q[r].joy = q[t].joy => r = t
    BY <2>1, <2>2, <2>3
  <2>8. ASSUME NEW r \in Slot, NEW i \in DOMAIN a, q[r].active, q[r].joy = a[i]
        PROVE  w[a[i]] = Shows(q[r].now)
    <3>1. CASE r = s
      <4>1. a[i] = j /\ q[r].now = ZeroGip
        BY <2>1, <2>2, <2>8, <3>1
      <4> QED BY <2>5, <4>1 DEF z
    <3>2. CASE r # s
      <4>1. q[r] = inj[r] /\ inj[r].joy # j
        BY <2>1, <2>2, <3>2
      <4>2. i \in 1 .. n /\ a[i] = at[i] /\ at[i] \in Joy
        BY <2>4, <2>8, <4>1
      <4>3. w[a[i]] = f[at[i]]
        BY <2>4, <2>5, <4>2
      <4>4. inj[r].active /\ inj[r].joy = at[i] /\ i \in DOMAIN at
        BY <1>1, <2>8, <4>1, <4>2
      <4>5. f[at[i]] = Shows(inj[r].now)
        BY <2>3, <4>4
      <4> QED BY <4>1, <4>3, <4>5
    <3> QED BY <3>1, <3>2
  <2>9. e.attached = a /\ e.shown = w
    BY <2>1 DEF a, w, f
  <2> QED BY <2>5, <2>6, <2>7, <2>8, <2>9 DEF ShownOK, e, q, p
<1> QED BY <1>2, <1>3

LEMMA DetachShows ==
  ASSUME IInv, ShownOK(sdl, inj), NEW s \in Slot, NEW inst
  PROVE  ShownOK(Detached(sdl, inst), [inj EXCEPT ![s] = EmptyPad])
<1> DEFINE e == Detached(sdl, inst)
           q == [inj EXCEPT ![s] = EmptyPad]
           at == sdl.attached
           n == Len(at)
           f == sdl.shown
           z == Shows(ZeroGip)
<1>1. inj \in [Slot -> Pad] /\ SdlOK(sdl) /\ at \in Seq(Joy) /\ n \in Nat /\ DOMAIN at = 1 .. n
  BY DEF IInv, SdlOK
<1>2. q[s].active = FALSE /\ \A r \in Slot \ {s} : q[r] = inj[r]
  BY <1>1 DEF EmptyPad
<1>3. \A r \in Slot : q[r].active => r # s /\ q[r] = inj[r]
  BY <1>2
<1> HIDE DEF q
<1>4. /\ DOMAIN f = Joy /\ f = [k \in Joy |-> f[k]]
      /\ \A i, k \in DOMAIN at : at[i] = at[k] => i = k
      /\ \A r, t \in Slot : inj[r].active /\ inj[t].active /\ inj[r].joy = inj[t].joy => r = t
      /\ \A r \in Slot, i \in DOMAIN at :
           inj[r].active /\ inj[r].joy = at[i] => f[at[i]] = Shows(inj[r].now)
  BY DEF ShownOK
<1>5. ASSUME e = sdl PROVE ShownOK(e, q)
  BY <1>3, <1>4, <1>5 DEF ShownOK, q
<1>6. ASSUME NEW i \in 1 .. n, e.attached = RemoveAt(at, i), e.shown = [f EXCEPT ![at[i]] = z]
      PROVE  ShownOK(e, q)
  <2> DEFINE a == RemoveAt(at, i)
             j == at[i]
             w == [f EXCEPT ![j] = z]
             Of(k) == IF k < i THEN k ELSE k + 1
  <2>1. /\ a \in Seq(Joy) /\ Len(a) = n - 1
        /\ \A k \in 1 .. n - 1 : a[k] = IF k < i THEN at[k] ELSE at[k + 1]
    BY <1>1, Removed
  <2>2. e.attached = a /\ e.shown = w
    BY <1>6
  <2> HIDE DEF e, a, at, f, n, z
  <2>3. DOMAIN a = 1 .. n - 1
    BY <1>1, <2>1
  <2>4. ASSUME NEW k \in DOMAIN a
        PROVE  Of(k) \in 1 .. n /\ Of(k) # i /\ a[k] = at[Of(k)]
    <3>1. k \in Int /\ 1 <= k /\ k <= n - 1 /\ i \in Int /\ 1 <= i /\ i <= n
      BY <1>1, <2>3
    <3>2. CASE k < i
      BY <1>1, <2>1, <2>3, <3>1, <3>2
    <3>3. CASE ~(k < i)
      BY <1>1, <2>1, <2>3, <3>1, <3>3
    <3> QED BY <3>2, <3>3
  <2>5. ASSUME NEW k \in DOMAIN a, NEW l \in DOMAIN a, Of(k) = Of(l) PROVE k = l
    <3>1. k \in Int /\ l \in Int /\ i \in Int
      BY <1>1, <2>3
    <3> QED BY <2>5, <3>1
  <2> HIDE DEF Of
  <2>6. \A k, l \in DOMAIN a : a[k] = a[l] => k = l
    BY <1>1, <1>4, <2>4, <2>5
  <2>7. j \in Joy
    BY <1>1
  <2>8. ASSUME NEW k \in DOMAIN a PROVE a[k] # j /\ a[k] \in Joy
    BY <1>1, <1>4, <2>4
  <2> HIDE DEF j
  <2>9. DOMAIN w = Joy /\ w = [k \in Joy |-> w[k]] /\ \A k \in Joy : k # j => w[k] = f[k]
    BY <1>4, <2>7
  <2> HIDE DEF w
  <2>10. \A r, t \in Slot : q[r].active /\ q[t].active /\ q[r].joy = q[t].joy => r = t
    BY <1>3, <1>4
  <2>11. ASSUME NEW r \in Slot, NEW k \in DOMAIN a, q[r].active, q[r].joy = a[k]
         PROVE  w[a[k]] = Shows(q[r].now)
    <3>1. q[r] = inj[r]
      BY <1>3, <2>11
    <3>2. w[a[k]] = f[a[k]]
      BY <2>8, <2>9
    <3>3. Of(k) \in DOMAIN at /\ a[k] = at[Of(k)]
      BY <1>1, <2>4
    <3> QED BY <1>4, <2>11, <3>1, <3>2, <3>3, SMTT(60)
  <2> QED BY <2>2, <2>6, <2>9, <2>10, <2>11, SMTT(60) DEF ShownOK
<1>7. e = sdl \/ \E i \in 1 .. n : e.attached = RemoveAt(at, i) /\ e.shown = [f EXCEPT ![at[i]] = z]
  BY <1>1, Detaches
<1> HIDE DEF e, n, z
<1>8. ShownOK(e, q)
  BY <1>5, <1>6, <1>7
<1> QED BY <1>8 DEF e, q

\* A slot's new state is written through to its joystick.
LEMMA ApplyShows ==
  ASSUME NEW d, SdlOK(d), NEW p \in [Slot -> Pad], ShownOK(d, p), NEW s \in Slot,
         NEW x \in Pad, x.active = p[s].active, x.joy = p[s].joy, x.active
  PROVE  ShownOK(Apply(d, x.joy, x.now), [p EXCEPT ![s] = x])
<1> DEFINE e == Apply(d, x.joy, x.now)
           q == [p EXCEPT ![s] = x]
           j == x.joy
           z == Shows(x.now)
           at == d.attached
           f == d.shown
           w == [f EXCEPT ![j] = z]
<1>1. /\ d = [symbols |-> d.symbols, api |-> d.api, attached |-> d.attached, shown |-> d.shown]
      /\ at \in Seq(Joy)
  BY DEF SdlOK
<1>2. q[s] = x /\ \A r \in Slot \ {s} : q[r] = p[r]
  OBVIOUS
<1>3. \A r \in Slot : q[r].active = p[r].active /\ q[r].joy = p[r].joy
  BY <1>2
<1> HIDE DEF q
<1>4. /\ DOMAIN f = Joy /\ f = [k \in Joy |-> f[k]]
      /\ \A i, k \in DOMAIN at : at[i] = at[k] => i = k
      /\ \A r, t \in Slot : p[r].active /\ p[t].active /\ p[r].joy = p[t].joy => r = t
      /\ \A r \in Slot, i \in DOMAIN at :
           p[r].active /\ p[r].joy = at[i] => f[at[i]] = Shows(p[r].now)
  BY DEF ShownOK
<1>5. \A r, t \in Slot : q[r].active /\ q[t].active /\ q[r].joy = q[t].joy => r = t
  BY <1>3, <1>4
<1>6. \A r \in Slot : r # s /\ p[r].active => p[r].joy # j
  BY <1>4
<1>7. CASE \E i \in DOMAIN at : at[i] = j
  <2>1. e = [d EXCEPT !.shown[j] = z] /\ j \in Joy
    BY <1>1, <1>7 DEF Apply
  <2> HIDE DEF e, z, j
  <2>2. e = [d EXCEPT !.shown = [@ EXCEPT ![j] = z]]
    BY <2>1
  <2>3. e = [d EXCEPT !.shown = w]
    BY <2>2
  <2>4. DOMAIN w = Joy /\ w = [k \in Joy |-> w[k]] /\ w[j] = z /\ \A k \in Joy : k # j => w[k] = f[k]
    BY <1>4, <2>1
  <2> HIDE DEF w
  <2>5. e.attached = at /\ e.shown = w
    BY <1>1, <2>3
  <2>6. ASSUME NEW r \in Slot, NEW i \in DOMAIN at, q[r].active, q[r].joy = at[i]
        PROVE  w[at[i]] = Shows(q[r].now)
    <3>1. CASE r = s
      BY <1>2, <2>4, <2>6, <3>1 DEF z, j
    <3>2. CASE r # s
      <4>1. q[r] = p[r] /\ at[i] # j /\ at[i] \in Joy
        BY <1>1, <1>2, <1>6, <2>6, <3>2
      <4> QED BY <1>4, <2>4, <2>6, <4>1, SMTT(60)
    <3> QED BY <3>1, <3>2
  <2> HIDE DEF at, f
  <2>7. ShownOK(e, q)
    <3>1. DOMAIN e.shown = Joy /\ e.shown = [k \in Joy |-> e.shown[k]]
      BY <2>4, <2>5
    <3>2. \A i, k \in DOMAIN e.attached : e.attached[i] = e.attached[k] => i = k
      BY <1>4, <2>5
    <3>3. \A r \in Slot, i \in DOMAIN e.attached :
            q[r].active /\ q[r].joy = e.attached[i] => e.shown[e.attached[i]] = Shows(q[r].now)
      BY <2>5, <2>6
    <3> QED BY <1>5, <3>1, <3>2, <3>3 DEF ShownOK
  <2> QED BY <2>7 DEF e, q, j
<1>8. CASE ~\E i \in DOMAIN at : at[i] = j
  <2>1. e = d
    BY <1>8 DEF Apply
  <2>2. \A r \in Slot, i \in DOMAIN at : q[r].active /\ q[r].joy = at[i] => r # s
    BY <1>2, <1>8
  <2>3. ShownOK(d, q)
    BY <1>2, <1>4, <1>5, <2>2 DEF ShownOK
  <2> QED BY <2>1, <2>3 DEF q
<1> QED BY <1>7, <1>8

\* what a disconnect, or an input, leaves of a controller
Silent   == [active |-> FALSE, held |-> NoInput]
Says(g)  == [active |-> TRUE, held |-> g]

LEMMA HeldMarksAre == \A e, n : <<e, n>> \in HeldMarks
                        <=> /\ e \in UdpEvent /\ n \in Heard
                            /\ \/ e.type = "disconnected" /\ n = Silent
                               \/ e.type = "input" /\ e.gip \in Inputs /\ n = Says(e.gip)
  BY DEF HeldMarks, Silent, Says

LEMMA HeldStepsAre == \A r, e, n : <<r, e, n>> \in HeldSteps
                        <=> r \in Heard /\ e \in UdpEvent /\ n \in Heard /\ HeldMoves(r, e, n)
  BY DEF HeldSteps

LEMMA HeldAre ==
  /\ Silent \in Heard /\ Silent.active = FALSE /\ Silent.held = NoInput
  /\ \A g \in Inputs : Says(g) \in Heard /\ Says(g).active = TRUE /\ Says(g).held = g
  BY DEF Silent, Says, Heard

\* An input makes of the slot what the controller says.
LEMMA InputTells ==
  ASSUME IInv, NEW s \in Slot, NEW outcome \in AttachOutcome, NEW g \in Inputs,
         Ready(sdl).api # 0, inj[s].active \/ outcome = "ok"
  PROVE  InputPad(s, g, outcome).active /\ Says(g) \in PadKnows(InputPad(s, g, outcome))
<1> DEFINE p == ConnectedPad(s, outcome)
           r == InputPad(s, g, outcome)
           base == Base(p, g)
           now == Corrected(g, base)
<1>1. p \in Pad
  BY ConnectKeeps
<1>2. p.active = TRUE
  <2>1. CASE inj[s].active
    BY <1>1, <2>1, PadFields DEF ConnectedPad
  <2>2. CASE ~inj[s].active
    BY <2>2, Attaches
  <2> QED BY <2>1, <2>2
<1>3. r = [p EXCEPT !.calibrated = TRUE, !.base = base, !.now = now]
  BY <1>2 DEF InputPad
<1> HIDE DEF p, r, base
<1>4. r.active = TRUE /\ r.base = base /\ r.now = now
  BY <1>1, <1>2, <1>3, PadFields
<1>5. g # NoInput
  BY EventStreamAssumption
<1>6. r.now = Corrected(g, r.base)
  BY <1>4
<1> HIDE DEF now
<1>7. Says(g) \in PadKnows(r)
  BY <1>4, <1>5, <1>6, HeldAre DEF PadKnows
<1> QED BY <1>4, <1>7 DEF r

\* The injector makes of its slot what the daemon has made of its own.
LEMMA InjectorHandles ==
  ASSUME IInv, ShownOK(sdl, inj), NEW e \in UdpEvent, NEW outcome \in AttachOutcome,
         HandleLine(e, outcome)
  PROVE  /\ ShownOK(sdl', inj')
         /\ \A s \in Slot : s # e.slot => inj'[s] = inj[s]
         /\ ~Refused(e, outcome) =>
              \A r \in PadKnows(inj[e.slot]), n \in Heard :
                HeldMoves(r, e, n) => n \in PadKnows(inj'[e.slot])
         /\ e.type = "disconnected" => Silent \in PadKnows(inj'[e.slot])
         /\ ~Refused(e, outcome) /\ e.type = "input" /\ e.gip \in Inputs
              => Says(e.gip) \in PadKnows(inj'[e.slot])
<1> DEFINE s == e.slot
<1>1. /\ e.type \in {"connected", "disconnected", "guide", "input"} /\ s \in Slot
      /\ e.type = "input" => e.gip \in GipState
  BY EventTypes
<1>2. inj \in [Slot -> Pad] /\ SdlOK(sdl) /\ inj[s].active \in BOOLEAN
  BY <1>1, ActiveIsBoolean DEF IInv
<1> HIDE DEF s
<1>3. ~Refused(e, outcome) /\ e.type \in {"connected", "input"} =>
        Ready(sdl).api # 0 /\ (inj[s].active \/ outcome = "ok")
  BY DEF Refused, s
<1>4. CASE e.type = "connected"
  <2> DEFINE p == ConnectedPad(s, outcome)
  <2>1. inj' = [inj EXCEPT ![s] = p] /\ sdl' = ConnectedSdl(s, outcome)
    BY <1>4 DEF HandleLine, Connected, s
  <2>2. ShownOK(sdl', inj')
    BY <1>1, <2>1, ConnectShows
  <2> HIDE DEF p
  <2>3. inj'[s] = p /\ \A t \in Slot : t # s => inj'[t] = inj[t]
    BY <1>1, <1>2, <2>1
  <2>4. ASSUME ~Refused(e, outcome), NEW r \in PadKnows(inj[s]), NEW n \in Heard, HeldMoves(r, e, n)
        PROVE  n \in PadKnows(p)
    <3>1. ~r.active /\ n = [active |-> TRUE, held |-> r.held]
      BY <1>4, <2>4, Zenon DEF HeldMoves
    <3>2. ~inj[s].active /\ r.held = NoInput
      BY <2>4, <3>1 DEF PadKnows
    <3>3. p.active = TRUE /\ p.now = ZeroGip
      BY <1>1, <1>3, <1>4, <2>4, <3>2, Attaches DEF p
    <3>4. n.active = TRUE /\ n.held = NoInput
      BY <3>1, <3>2
    <3> QED BY <3>3, <3>4 DEF PadKnows
  <2> QED BY <1>4, <2>2, <2>3, <2>4 DEF s
<1>5. CASE e.type = "disconnected"
  <2>1. Disconnected(e)
    BY <1>5 DEF HandleLine
  <2>2. /\ ShownOK(sdl', inj') /\ inj'[s].active = FALSE
        /\ \A t \in Slot : t # s => inj'[t] = inj[t]
    <3>1. CASE inj[s].active
      <4>1. inj' = [inj EXCEPT ![s] = EmptyPad] /\ sdl' = Detached(sdl, inj[s].instance_id)
        BY <2>1, <3>1 DEF Disconnected, s
      <4>2. ShownOK(sdl', inj')
        BY <1>1, <4>1, DetachShows
      <4> QED BY <1>1, <1>2, <4>1, <4>2 DEF EmptyPad
    <3>2. CASE ~inj[s].active
      <4>1. inj' = inj /\ sdl' = sdl
        BY <2>1, <3>2 DEF Disconnected, s, injectorVars
      <4> QED BY <1>2, <3>2, <4>1
    <3> QED BY <3>1, <3>2
  <2>3. Silent \in PadKnows(inj'[s])
    BY <2>2, HeldAre DEF PadKnows
  <2>4. \A r, n : HeldMoves(r, e, n) => n = Silent
    BY <1>5, Zenon DEF HeldMoves, Silent
  <2> QED BY <1>5, <2>2, <2>3, <2>4 DEF s
<1>6. CASE e.type = "input"
  <2> DEFINE g == e.gip
             p == ConnectedPad(s, outcome)
             r == InputPad(s, g, outcome)
             d == ConnectedSdl(s, outcome)
             q == [inj EXCEPT ![s] = p]
  <2>1. Input(e, outcome)
    BY <1>6 DEF HandleLine
  <2>2. inj' = [inj EXCEPT ![s] = r] /\ sdl' = IF r.active THEN Apply(d, r.joy, r.now) ELSE d
    BY <2>1 DEF Input, s
  <2>3. p \in Pad /\ SdlOK(d) /\ ShownOK(d, q)
    BY <1>1, ConnectKeeps, ConnectShows
  <2>4. r \in Pad /\ r.active = p.active /\ r.joy = p.joy
    BY <1>1, <1>6, InputKeeps
  <2>5. g \in Inputs /\ ~Refused(e, outcome) => Says(g) \in PadKnows(r)
    BY <1>1, <1>3, <1>6, InputTells
  <2> HIDE DEF p, r, d, g
  <2>6. q \in [Slot -> Pad] /\ q[s] = p /\ [q EXCEPT ![s] = r] = inj'
    BY <1>1, <1>2, <2>2, <2>3
  <2> HIDE DEF q
  <2>7. inj'[s] = r /\ \A t \in Slot : t # s => inj'[t] = inj[t]
    BY <1>1, <1>2, <2>2
  <2>8. ShownOK(sdl', inj')
    <3>1. CASE r.active
      <4>1. ShownOK(Apply(d, r.joy, r.now), [q EXCEPT ![s] = r])
        BY <1>1, <2>3, <2>4, <2>6, <3>1, ApplyShows
      <4> QED BY <2>2, <2>6, <3>1, <4>1
    <3>2. CASE ~r.active
      <4>1. \A t \in Slot : /\ inj'[t].active = q[t].active
                            /\ inj'[t].active => inj'[t] = q[t]
        BY <2>4, <2>6, <2>7, <3>2
      <4>2. sdl' = d
        BY <2>2, <3>2
      <4>3. \A x, t \in Slot : inj'[x].active /\ inj'[t].active /\ inj'[x].joy = inj'[t].joy => x = t
        BY <2>3, <4>1, SMT DEF ShownOK
      <4>4. \A t \in Slot, i \in DOMAIN d.attached :
              inj'[t].active /\ inj'[t].joy = d.attached[i] => d.shown[d.attached[i]] = Shows(inj'[t].now)
        BY <2>3, <4>1, SMTT(60) DEF ShownOK
      <4> QED BY <2>3, <4>2, <4>3, <4>4, ZenonT(60) DEF ShownOK
    <3> QED BY <3>1, <3>2
  <2>9. \A x, n : HeldMoves(x, e, n) => g \in Inputs /\ n = Says(g)
    BY <1>6, Zenon DEF HeldMoves, Says, g
  <2> QED BY <1>6, <2>5, <2>7, <2>8, <2>9 DEF s, g
<1>7. CASE e.type = "guide"
  <2>1. inj' = inj /\ sdl' = sdl
    BY <1>7 DEF HandleLine, injectorVars
  <2>2. \A r, n : HeldMoves(r, e, n) => n = r
    BY <1>7, Zenon DEF HeldMoves
  <2> QED BY <1>7, <2>1, <2>2
<1> QED BY <1>1, <1>4, <1>5, <1>6, <1>7

\* What the daemon sends, the injector has yet to hear.
LEMMA InjectorIsSent ==
  ASSUME PayloadsAreRead, IInv, InjectorFollowsOK, Daemon, UNCHANGED injectorVars
  PROVE  InjectorFollowsOK'
<1>1. inj' = inj /\ sdl' = sdl
  BY DEF injectorVars
<1>2. ShownOK(sdl, inj)'
  BY <1>1 DEF InjectorFollowsOK, ShownOK
<1> SUFFICES ASSUME port' = "injector", NEW s \in Slot, ~missed'[s]
             PROVE  Follows(queue', HeardOf(slots'[s], held'[s]), PadKnows(inj'[s]), About(s),
                            HeldSteps, HeldMarks)
  BY <1>2 DEF InjectorFollowsOK
<1>3. StreamOK /\ StreamOK'
  BY DaemonKeeps DEF IInv
<1>4. PICK e \in UdpEvent :
        /\ Send(e)
        /\ HeldMoves(HeardOf(slots[e.slot], held[e.slot]), e, HeardOf(slots'[e.slot], held'[e.slot]))
        /\ \A t \in Slot : t # e.slot => slots'[t] = slots[t] /\ held'[t] = held[t]
  BY <1>3, DaemonSends
<1>5. port = "injector"
  BY ZenonT(60) DEF Daemon, OnConnect, OnDisconnect, OnInput, OnGuide
<1> DEFINE K == PadKnows(inj[s])
           now == HeardOf(slots[s], held[s])
           next == HeardOf(slots'[s], held'[s])
<1>6. ~missed[s] => Follows(queue, now, K, About(s), HeldSteps, HeldMarks)
  BY <1>5 DEF InjectorFollowsOK
<1>7. now \in Heard /\ next \in Heard
  BY <1>3 DEF StreamOK, SlotRecord, HeardOf, Heard
<1>8. IF e.slot = s THEN HeldMoves(now, e, next) ELSE next = now
  BY <1>4
<1> HIDE DEF K, now, next
<1>9. ASSUME e.slot = s
      PROVE  /\ <<now, e, next>> \in HeldSteps
             /\ Resync(e) => <<e, next>> \in HeldMarks
  <2>1. <<now, e, next>> \in HeldSteps
    BY <1>7, <1>8, <1>9, HeldStepsAre
  <2>2. CASE e.type = "disconnected"
    <3>1. next = Silent
      BY <1>8, <1>9, <2>2, Zenon DEF HeldMoves, Silent
    <3> QED BY <1>7, <2>1, <2>2, <3>1, HeldMarksAre
  <2>3. CASE e.type = "input"
    <3>1. e.gip \in Inputs /\ next = Says(e.gip)
      BY <1>8, <1>9, <2>3, Zenon DEF HeldMoves, Says
    <3> QED BY <1>7, <2>1, <2>3, <3>1, HeldMarksAre
  <2> QED BY <2>1, <2>2, <2>3 DEF Resync
<1>10. IF e.slot = s THEN <<now, e, next>> \in HeldSteps /\ (Resync(e) => <<e, next>> \in HeldMarks)
                     ELSE next = now
  BY <1>8, <1>9
<1>11. Follows(queue', next, K, About(s), HeldSteps, HeldMarks)
  BY <1>3, <1>4, <1>5, <1>6, <1>10, SendFollowed
<1> QED BY <1>1, <1>11 DEF K, next

\* What it hears, it makes the most of, or notes that it has missed it.
LEMMA InjectorHears ==
  ASSUME IInv, InjectorFollowsOK, NEW outcome \in AttachOutcome, InjectorReceives(outcome)
  PROVE  InjectorFollowsOK'
<1> DEFINE e == Head(queue)
           refused == Refused(e, outcome)
<1>1. /\ StreamOK /\ queue # <<>> /\ queue' = Tail(queue) /\ port = "injector"
      /\ slots' = slots /\ held' = held
      /\ HandleLine(e, outcome) /\ Missed(e, refused) /\ e \in UdpEvent
  BY DEF InjectorReceives, IInv, StreamOK
<1>2. refused \in BOOLEAN
  BY DEF Refused
<1>3. /\ ShownOK(sdl', inj')
      /\ \A s \in Slot : s # e.slot => inj'[s] = inj[s]
      /\ ~refused => \A r \in PadKnows(inj[e.slot]), n \in Heard :
                       HeldMoves(r, e, n) => n \in PadKnows(inj'[e.slot])
      /\ e.type = "disconnected" => Silent \in PadKnows(inj'[e.slot])
      /\ ~refused /\ e.type = "input" /\ e.gip \in Inputs => Says(e.gip) \in PadKnows(inj'[e.slot])
  <2> HIDE DEF e
  <2> QED BY <1>1, InjectorHandles DEF InjectorFollowsOK
<1> SUFFICES ASSUME port' = "injector", NEW s \in Slot, ~missed'[s]
             PROVE  Follows(queue', HeardOf(slots'[s], held'[s]), PadKnows(inj'[s]), About(s),
                            HeldSteps, HeldMarks)
  BY <1>3 DEF InjectorFollowsOK
<1> DEFINE K == PadKnows(inj[s])
           L == PadKnows(inj'[s])
           now == HeardOf(slots[s], held[s])
<1>4. ~missed[s] => Follows(queue, now, K, About(s), HeldSteps, HeldMarks)
  BY <1>1 DEF InjectorFollowsOK
<1>5. e.slot # s => L = K
  BY <1>3
<1>6. e.slot = s /\ ~refused =>
        /\ \A r, n : r \in K /\ <<r, e, n>> \in HeldSteps => n \in L
        /\ \A n : <<e, n>> \in HeldMarks => n \in L
  BY <1>3, HeldStepsAre, HeldMarksAre
<1>7. \A f \in About(s) : Resync(f) =>
        \A r, n : <<r, f, n>> \in HeldSteps => <<f, n>> \in HeldMarks
  <2> SUFFICES ASSUME NEW f \in About(s), Resync(f), NEW r, NEW n, <<r, f, n>> \in HeldSteps
               PROVE  <<f, n>> \in HeldMarks
    OBVIOUS
  <2>1. f \in UdpEvent /\ (f.type = "disconnected" \/ f.type = "input")
    BY DEF About, Resync
  <2>2. n \in Heard /\ HeldMoves(r, f, n)
    BY HeldStepsAre
  <2>3. /\ f.type = "disconnected" => n = Silent
        /\ f.type = "input" => f.gip \in Inputs /\ n = Says(f.gip)
    BY <2>2, Zenon DEF HeldMoves, Silent, Says
  <2> QED BY <2>1, <2>2, <2>3, HeldMarksAre
<1> HIDE DEF refused, K, L, now
<1>8. Follows(queue', now, L, About(s), HeldSteps, HeldMarks)
  BY <1>1, <1>2, <1>4, <1>5, <1>6, <1>7, TakeFollowed DEF e
<1> QED BY <1>1, <1>8 DEF L, now

LEMMA NothingShown == ASSUME InjectorStopped PROVE ShownOK(sdl, inj)
<1> DEFINE z == [j \in Joy |-> Shows(ZeroGip)]
<1>1. sdl = [symbols |-> {}, api |-> 0, attached |-> <<>>, shown |-> z]
  BY DEF InjectorStopped
<1>2. DOMAIN z = Joy /\ z = [j \in Joy |-> z[j]]
  OBVIOUS
<1> HIDE DEF z
<1>3. sdl.shown = z /\ DOMAIN sdl.attached = {}
  BY <1>1
<1>4. \A s \in Slot : ~inj[s].active
  BY DEF InjectorStopped, EmptyPad
<1> QED BY <1>2, <1>3, <1>4 DEF ShownOK

LEMMA InjectorGoesOn ==
  ASSUME PayloadsAreRead, IInv, ListenersOK, InjectorFollowsOK, [Next]_vars
  PROVE  InjectorFollowsOK'
<1>1. CASE Daemon /\ UNCHANGED <<injectorVars, bridgeVars>>
  BY <1>1, InjectorIsSent
<1>2. ASSUME NEW c \in {"injector", "bridge"}, Bind(c) PROVE InjectorFollowsOK'
  <2>1. ShownOK(sdl, inj)'
    BY <1>2 DEF Bind, InjectorFollowsOK, ShownOK, injectorVars
  <2> SUFFICES ASSUME NEW s \in Slot, ~missed'[s]
               PROVE  Follows(queue', HeardOf(slots'[s], held'[s]), PadKnows(inj'[s]), About(s),
                              HeldSteps, HeldMarks)
    BY <2>1 DEF InjectorFollowsOK
  <2>2. /\ queue' = <<>> /\ slots' = slots /\ held' = held /\ inj'[s] = EmptyPad
        /\ slots[s] = EmptySlot
    BY <1>2 DEF Bind, ListenersOK, injectorVars
  <2>3. slots[s].active = FALSE /\ held[s] = NoInput
    BY <2>2, EmptySlotIsTyped DEF ListenersOK
  <2>4. HeardOf(slots[s], held[s]) \in PadKnows(EmptyPad)
    BY <2>3 DEF HeardOf, PadKnows, EmptyPad, Heard
  <2> DEFINE now == HeardOf(slots[s], held[s])
             K == PadKnows(EmptyPad)
  <2> HIDE DEF now, K
  <2>5. Follows(<<>>, now, K, About(s), HeldSteps, HeldMarks)
    BY <2>4, FollowsFromStart DEF now, K
  <2> QED BY <2>2, <2>5 DEF now, K
<1>3. CASE Quit
  <2>1. InjectorStopped'
    BY <1>3 DEF Quit, InjectorStopped
  <2>2. ShownOK(sdl, inj)'
    BY <2>1, NothingShown, PTL
  <2> QED BY <1>3, <2>2 DEF Quit, InjectorFollowsOK
<1>4. CASE GameLoadsSdl /\ UNCHANGED bridgeVars
  <2> DEFINE sy == {conf.sdl}
  <2>1. sdl' = [sdl EXCEPT !.symbols = sy] /\ UNCHANGED <<inj, slots, held, port, queue, missed>>
    BY <1>4 DEF GameLoadsSdl, streamVars
  <2>2. sdl = [symbols |-> sdl.symbols, api |-> sdl.api, attached |-> sdl.attached, shown |-> sdl.shown]
    BY DEF IInv, SdlOK
  <2> HIDE DEF sy
  <2>3. sdl'.attached = sdl.attached /\ sdl'.shown = sdl.shown
    BY <2>1, <2>2
  <2>4. ShownOK(sdl, inj)'
    BY <2>1, <2>3 DEF InjectorFollowsOK, ShownOK
  <2> QED BY <2>1, <2>4 DEF InjectorFollowsOK
<1>5. ASSUME NEW outcome \in AttachOutcome, InjectorReceives(outcome) PROVE InjectorFollowsOK'
  BY <1>5, InjectorHears
<1>6. ASSUME NEW created \in BOOLEAN, BridgeReceives(created) PROVE InjectorFollowsOK'
  <2>1. inj' = inj /\ sdl' = sdl /\ port' = "bridge"
    BY <1>6 DEF BridgeReceives, injectorVars
  <2>2. ShownOK(sdl, inj)'
    BY <2>1 DEF InjectorFollowsOK, ShownOK
  <2> QED BY <2>1, <2>2 DEF InjectorFollowsOK
<1>7. CASE UNCHANGED vars
  BY <1>7 DEF vars, streamVars, injectorVars, InjectorFollowsOK, ShownOK
<1> QED BY <1>1, <1>2, <1>3, <1>4, <1>5, <1>6, <1>7 DEF Next, Receive

\* Controllers of the xone kind with triggers of 12 bits are read right.
LEMMA RealPayloadsAreRead ==
  ASSUME "xow" \notin Layouts, \A g \in Inputs : Realistic(g)
  PROVE  PayloadsAreRead
  BY PayloadIsRead, EventStreamAssumption DEF PayloadsAreRead

(* Whatever the injector knows of a slot it has not missed an event of,    *)
(* and the events on their way, lead to what the daemon's slot and its     *)
(* controller have come to; and each joystick shows its slot.              *)
THEOREM InjectorFollowing ==
  ASSUME PayloadsAreRead
  PROVE  Spec => []InjectorFollowsOK
<1>1. Init => InjectorFollowsOK
  <2> SUFFICES ASSUME Init PROVE InjectorFollowsOK
    OBVIOUS
  <2>1. ShownOK(sdl, inj) /\ port = "none"
    BY NothingShown DEF Init, StreamInit
  <2> QED BY <2>1 DEF InjectorFollowsOK
<1>2. IInv /\ ListenersOK /\ InjectorFollowsOK /\ [Next]_vars => InjectorFollowsOK'
  BY InjectorGoesOn
<1> QED BY <1>1, <1>2, Always, BridgeFollowing, PTL DEF Spec

(* The injector's slots and joysticks show what the controllers report,    *)
(* for any number of slots and joysticks, any buffer, any loss of events   *)
(* and any refusal by SDL.  The payloads are those of the xone kind.       *)
THEOREM InjectorFollows ==
  ASSUME "xow" \notin Layouts, \A g \in Inputs : Realistic(g)
  PROVE  Spec => []InjectorFollowsDaemon
<1>1. IInv /\ InjectorFollowsOK => InjectorFollowsDaemon
  <2> SUFFICES ASSUME IInv, InjectorFollowsOK, NEW s \in Slot,
                      port = "injector", Quiet(s), ~missed[s]
               PROVE  /\ inj[s].active = slots[s].active
                      /\ inj[s].active =>
                           /\ inj[s].now = Expected(s)
                           /\ Attachment(inj[s].joy) # {} => sdl.shown[inj[s].joy] = Shows(Expected(s))
    BY DEF InjectorFollowsDaemon
  <2> DEFINE now == HeardOf(slots[s], held[s])
  <2>1. Follows(queue, now, PadKnows(inj[s]), About(s), HeldSteps, HeldMarks)
    BY DEF InjectorFollowsOK
  <2>2. queue \in Seq(UdpEvent) /\ \A i \in 1 .. Len(queue) : queue[i] \notin About(s)
    BY DEF IInv, StreamOK, Quiet, About
  <2> HIDE DEF now
  <2>3. now \in PadKnows(inj[s])
    BY <2>1, <2>2, FollowsToEnd
  <2>4. now.active = slots[s].active /\ now.held = held[s]
    BY DEF now, HeardOf
  <2>5. inj[s].active = slots[s].active
    BY <2>3, <2>4 DEF PadKnows
  <2>6. inj[s].active => inj[s].now = Expected(s)
    BY <2>3, <2>4 DEF PadKnows, Expected
  <2>7. ASSUME inj[s].active, Attachment(inj[s].joy) # {}
        PROVE  sdl.shown[inj[s].joy] = Shows(inj[s].now)
    BY <2>7 DEF InjectorFollowsOK, ShownOK, Attachment
  <2> QED BY <2>5, <2>6, <2>7
<1>2. Spec => []InjectorFollowsOK
  BY RealPayloadsAreRead, InjectorFollowing
<1> QED BY <1>1, <1>2, Always, PTL
=============================================================================
