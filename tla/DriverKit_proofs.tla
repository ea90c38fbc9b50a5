-------------------------- MODULE DriverKit_proofs --------------------------
(***************************************************************************)
(* The DriverKit driver's promises about its read loop, its gamepads, what *)
(* a stop leaves, and how it follows its controllers through the frames    *)
(* that are on their way, proved for any number of controllers, any        *)
(* inputs, and a dongle that holds any number of frames.                   *)
(***************************************************************************)
EXTENDS DriverKit, Histories

-----------------------------------------------------------------------------
(* The inductive invariant                                                 *)

Frame ==
  [kind : {"added", "lost", "announce"}, client : Client]
    \cup [kind : {"guide"}, client : Client, pressed : BOOLEAN]
    \cup [kind : {"input"}, client : Client, gip : Inputs]

Report ==
  [buttons : SUBSET (Button \cup {"guide"}), hat : 0 .. 8,
   lx : Int16, ly : Int16, rx : Int16, ry : Int16, lt : Word, rt : Word]

Read == [buffer : {0, 1}, status : {"armed", "success", "error", "aborted"}]

SlotState == [connected : BOOLEAN, initialized : BOOLEAN, guidePressed : BOOLEAN]

PadsOK ==
  /\ pads \in [Client -> [on : BOOLEAN, guide : BOOLEAN, state : Inputs \cup {NoInput}]]
  /\ frames \in Seq(Frame) /\ Len(frames) <= QueueBound

DriverOK ==
  /\ phase \in {"idle", "starting", "running", "stopped", "failed", "crashed"}
  /\ stage \in 0 .. 12 /\ (phase = "starting" => stage < 12)
  /\ phase \notin {"starting", "running"} => stage = 0
  /\ index \in {0, 1} /\ sound \in BOOLEAN
  /\ slots \in [Tracked -> SlotState]
  /\ hid \in [Tracked -> Report \cup {NoDevice}]

\* The reads, and that the completion handler finds the buffer of the read it
\* is called for by the index alone.
ReadsOK ==
  /\ reads \in Seq(Read) /\ buffer \in [{0, 1} -> Frame \cup {NoFrame}]
  /\ Len(reads) <= 1
  /\ phase \in {"idle", "starting"} => reads = <<>>
  /\ phase = "running" =>
       /\ sound => reads # <<>>
       /\ reads # <<>> => reads[1].buffer = LastBuffer /\ reads[1].status # "aborted"
       /\ reads # <<>> /\ reads[1].status = "success" => buffer[LastBuffer] \in Frame
  /\ phase # "running" /\ reads # <<>> => reads[1].status # "armed"

\* Nothing is owned while nothing runs, nor before the first stage that owns.
OwnedOK ==
  /\ phase \notin {"starting", "running"} => owned = {}
  /\ phase = "starting" /\ stage < 2 => owned = {}
  /\ phase # "running" => \A c \in Tracked : hid[c] = NoDevice

IInv == PadsOK /\ DriverOK /\ ReadsOK /\ OwnedOK /\ DeviceOnlyForConnected

-----------------------------------------------------------------------------
(* Reports                                                                 *)

\* The hat of any set of buttons is one of the eight directions or the middle.
LEMMA HatRange == ASSUME NEW buttons PROVE Hat(buttons) \in 0 .. 8
<1> DEFINE Compass == <<{"up"}, {"up", "right"}, {"right"}, {"down", "right"},
                   {"down"}, {"down", "left"}, {"left"}, {"up", "left"}>>
<1> DEFINE d == buttons \cap Dpad
<1> DEFINE i == CHOOSE k \in 1 .. 8 : Compass[k] = d
<1>1. Hat(buttons) = IF \E k \in 1 .. 8 : Compass[k] = d THEN i - 1 ELSE 8
  BY Zenon DEF Hat
<1>2. CASE \E k \in 1 .. 8 : Compass[k] = d
  <2> HIDE DEF Compass, d
  <2>1. i \in 1 .. 8
    BY <1>2
  <2> HIDE DEF i
  <2> QED BY <1>1, <1>2, <2>1
<1>3. CASE ~ \E k \in 1 .. 8 : Compass[k] = d
  <2> HIDE DEF Compass, d, i
  <2> QED BY <1>1, <1>3
<1> QED BY <1>2, <1>3

\* A gamepad's state translates to a report.
LEMMA HidIsReport == ASSUME NEW g \in GipState PROVE GipToHid(g, FALSE) \in Report
<1> DEFINE keys == g.buttons \ Dpad
           hat == Hat(g.buttons)
<1>1. /\ g.lt \in Word /\ g.rt \in Word /\ g.lx \in Int16 /\ g.ly \in Int16
      /\ g.rx \in Int16 /\ g.ry \in Int16
  BY DEF GipState
<1>2. g.buttons \in SUBSET Button
  BY DEF GipState
<1>3. keys \in SUBSET (Button \cup {"guide"})
  BY <1>2
<1>4. hat \in 0 .. 8
  BY HatRange
<1>5. GipToHid(g, FALSE) =
        [buttons |-> keys, hat |-> hat, lx |-> g.lx, ly |-> g.ly, rx |-> g.rx,
         ry |-> g.ry, lt |-> g.lt, rt |-> g.rt]
  BY DEF GipToHid
<1>6. [buttons |-> keys, hat |-> hat, lx |-> g.lx, ly |-> g.ly, rx |-> g.rx,
       ry |-> g.ry, lt |-> g.lt, rt |-> g.rt] \in Report
  <2> HIDE DEF keys, hat
  <2> QED BY <1>1, <1>3, <1>4 DEF Report
<1> QED BY <1>5, <1>6

\* What the driver posts is a report: translated input, with or without the
\* guide button, and the report at rest.
LEMMA Reports ==
  /\ ZeroReport \in Report
  /\ Neutral \in Report
  /\ \A r \in Report, p \in BOOLEAN : WithGuide(r, p) \in Report
  /\ \A g \in Inputs : GipToReport(g) \in Report
<1>1. ZeroReport \in Report
  <2>1. 0 \in Int16
    <3> DEFINE lo == -32768
               hi == 32767
    <3>1. Int16 = lo .. hi /\ lo \in Int /\ hi \in Int /\ lo <= 0 /\ 0 <= hi
      BY DEF Int16
    <3> HIDE DEF lo, hi
    <3> QED BY <3>1
  <2>2. 0 \in Word
    BY DEF Word
  <2> QED BY <2>1, <2>2 DEF ZeroReport, Report
<1>2. Neutral \in Report
  <2>1. \A r \in Report : [r EXCEPT !.hat = 8] \in Report
    BY DEF Report
  <2> QED BY <1>1, <2>1 DEF Neutral
<1>3. ASSUME NEW r \in Report, NEW p \in BOOLEAN PROVE WithGuide(r, p) \in Report
  BY DEF WithGuide, Report
<1>4. ASSUME NEW g \in Inputs PROVE GipToReport(g) \in Report
  <2> DEFINE h == [g EXCEPT !.buttons = @ \ {"sync"}]
  <2>1. g \in GipState
    BY DriverKitAssumption DEF DriverKitAssumption
  <2>2. /\ g.buttons \ {"sync"} \in SUBSET Button
        /\ \A keys \in SUBSET Button : [g EXCEPT !.buttons = keys] \in GipState
    BY <2>1 DEF GipState
  <2>3. h \in GipState
    BY <2>2
  <2> HIDE DEF h
  <2>4. GipToHid(h, FALSE) \in Report
    BY <2>3, HidIsReport
  <2> QED BY <2>4 DEF GipToReport, h
<1> QED BY <1>1, <1>2, <1>3, <1>4

-----------------------------------------------------------------------------
\* The invariant holds before a driver has been attached.
THEOREM Initially == Init => IInv
<1> SUFFICES ASSUME Init PROVE IInv
  OBVIOUS
<1>1. PadsOK
  BY DriverKitAssumption DEF DriverKitAssumption, Init, PadsOK, OffPad
<1>2. DriverOK
  BY DEF Init, DriverOK, Stages, EmptySlot, SlotState
<1>3. ReadsOK
  BY DEF Init, ReadsOK
<1>4. OwnedOK /\ DeviceOnlyForConnected
  BY DEF Init, OwnedOK, DeviceOnlyForConnected
<1> QED BY <1>1, <1>2, <1>3, <1>4 DEF IInv

\* Queueing a frame keeps the dongle's frames within their bound.
LEMMA EmitKeepsFrames ==
  ASSUME PadsOK, NEW f \in Frame, Emit(f)
  PROVE  frames' \in Seq(Frame) /\ Len(frames') <= QueueBound
BY DriverKitAssumption DEF DriverKitAssumption, PadsOK, Emit

\* A controller's step touches the controllers and the dongle only.
LEMMA PadKeepsInvariant ==
  ASSUME IInv, NEW c \in Client, PadStep(c)
  PROVE  IInv'
<1> USE DEF IInv
<1>1. PadsOK'
  <2> DEFINE State == [on : BOOLEAN, guide : BOOLEAN, state : Inputs \cup {NoInput}]
  <2>1. pads \in [Client -> State] /\ pads[c] \in State
    BY DEF PadsOK
  <2>2. /\ pads' \in [Client -> State]
        /\ \E f \in Frame : Emit(f)
    <3>1. CASE /\ pads' = [pads EXCEPT ![c].on = TRUE]
               /\ Emit([kind |-> "added", client |-> c])
      <4>1. [kind |-> "added", client |-> c] \in Frame
        BY DEF Frame
      <4> QED BY <2>1, <3>1, <4>1
    <3>2. CASE /\ pads' = [pads EXCEPT ![c] = OffPad]
               /\ Emit([kind |-> "lost", client |-> c])
      <4>1. [kind |-> "lost", client |-> c] \in Frame
        BY DEF Frame
      <4>2. OffPad \in State
        BY DEF OffPad
      <4> QED BY <2>1, <3>2, <4>1, <4>2
    <3>3. CASE /\ pads' = [pads EXCEPT ![c].guide = ~@]
               /\ Emit([kind |-> "guide", client |-> c, pressed |-> ~pads[c].guide])
      <4>1. [kind |-> "guide", client |-> c, pressed |-> ~pads[c].guide] \in Frame
        BY DEF Frame
      <4>2. [pads[c] EXCEPT !.guide = ~pads[c].guide] \in State
        BY <2>1
      <4> QED BY <2>1, <3>3, <4>1, <4>2
    <3>4. ASSUME NEW g \in Inputs, pads' = [pads EXCEPT ![c].state = g],
                 Emit([kind |-> "input", client |-> c, gip |-> g])
          PROVE  <2>2!1 /\ <2>2!2
      <4>1. [kind |-> "input", client |-> c, gip |-> g] \in Frame
        BY DEF Frame
      <4> QED BY <2>1, <3>4, <4>1
    <3>5. CASE Emit([kind |-> "announce", client |-> c]) /\ UNCHANGED pads
      <4>1. [kind |-> "announce", client |-> c] \in Frame
        BY DEF Frame
      <4> QED BY <2>1, <3>5, <4>1
    <3> QED BY <3>1, <3>2, <3>3, <3>4, <3>5 DEF PadStep, Pad
  <2> QED BY <2>2, EmitKeepsFrames DEF PadsOK
<1>2. UNCHANGED <<awake, phase, stage, owned, index, buffer, reads, slots, hid, sound>>
  BY DEF PadStep
<1> QED BY <1>1, <1>2 DEF DriverOK, ReadsOK, LastBuffer, OwnedOK, DeviceOnlyForConnected

-----------------------------------------------------------------------------
(* The USB stack                                                           *)

\* At most one read is out, while the driver runs, and it is the only one.
LEMMA OneArmed ==
  ASSUME IInv, Armed # {}
  PROVE  /\ phase = "running" /\ Len(reads) = 1 /\ First = 1
         /\ reads[1] \in Read /\ reads[1].status = "armed" /\ reads[1].buffer = LastBuffer
<1> USE DEF IInv, ReadsOK
<1>1. PICK i \in DOMAIN reads : reads[i].status = "armed"
  BY DEF Armed
<1>2. /\ Len(reads) = 1 /\ i = 1 /\ DOMAIN reads = {1}
      /\ reads[1] \in Read /\ reads # <<>>
  BY <1>1
<1>3. Armed = {1}
  BY <1>1, <1>2 DEF Armed
<1>4. First = 1
  BY <1>3 DEF First
<1> QED BY <1>1, <1>2, <1>4

\* A frame that a read takes is in the buffer the handler will look into.
LEMMA FillKeepsInvariant == ASSUME IInv, Fill PROVE IInv'
<1> USE DEF IInv
<1>1. /\ phase = "running" /\ Len(reads) = 1 /\ First = 1
      /\ reads[1] \in Read /\ reads[1].status = "armed" /\ reads[1].buffer = LastBuffer
  BY OneArmed DEF Fill
<1>2. frames \in Seq(Frame) /\ frames # <<>> /\ Head(frames) \in Frame
  BY DEF Fill, PadsOK
<1>3. PadsOK'
  BY <1>2, DriverKitAssumption DEF DriverKitAssumption, Fill, PadsOK
<1>4. LastBuffer \in {0, 1}
  BY DEF LastBuffer, DriverOK
<1>5. /\ reads' = [reads EXCEPT ![1].status = "success"]
      /\ buffer' = [buffer EXCEPT ![LastBuffer] = Head(frames)]
      /\ UNCHANGED <<phase, stage, owned, index, slots, hid, sound>>
  BY <1>1 DEF Fill
<1>6. reads' \in Seq(Read) /\ Len(reads') = 1 /\ reads'[1].status = "success"
      /\ reads'[1].buffer = LastBuffer
  <2>1. [reads[1] EXCEPT !.status = "success"] \in Read
    BY <1>1 DEF Read
  <2>2. reads \in Seq(Read)
    BY DEF ReadsOK
  <2> QED BY <1>1, <1>5, <2>1, <2>2 DEF Read
<1>7. buffer' \in [{0, 1} -> Frame \cup {NoFrame}] /\ buffer'[LastBuffer] \in Frame
  BY <1>2, <1>4, <1>5 DEF ReadsOK
<1>8. ReadsOK'
  <2>1. phase' = "running" /\ reads' # <<>> /\ LastBuffer' = LastBuffer
    BY <1>1, <1>5, <1>6, <1>7 DEF LastBuffer
  <2>2. buffer' \in [{0, 1} -> Frame \cup {NoFrame}]
    BY <1>5, <1>6, <1>7 DEF ReadsOK
  <2> QED BY <2>1, <2>2, <1>5, <1>6, <1>7 DEF ReadsOK
<1> QED BY <1>3, <1>5, <1>8 DEF DriverOK, OwnedOK, DeviceOnlyForConnected

\* A transfer that fails changes the status of the read.
LEMMA FailKeepsInvariant == ASSUME IInv, FailRead PROVE IInv'
<1> USE DEF IInv
<1>1. /\ phase = "running" /\ Len(reads) = 1 /\ First = 1
      /\ reads[1] \in Read /\ reads[1].status = "armed" /\ reads[1].buffer = LastBuffer
  BY OneArmed DEF FailRead
<1>2. PadsOK'
  <2>1. UNCHANGED pads /\ (UNCHANGED frames \/ (frames # <<>> /\ frames' = Tail(frames)))
    BY DEF FailRead
  <2> QED BY <2>1, DriverKitAssumption, SMTT(60) DEF DriverKitAssumption, PadsOK
<1>3. /\ reads' = [reads EXCEPT ![1].status = "error"]
      /\ UNCHANGED <<phase, stage, owned, index, buffer, slots, hid, sound>>
  BY <1>1 DEF FailRead
<1>4. reads' \in Seq(Read) /\ Len(reads') = 1 /\ reads'[1].status = "error"
      /\ reads'[1].buffer = LastBuffer
  <2>1. [reads[1] EXCEPT !.status = "error"] \in Read
    BY <1>1 DEF Read
  <2>2. reads \in Seq(Read)
    BY DEF ReadsOK
  <2> QED BY <1>1, <1>3, <2>1, <2>2 DEF Read
<1>5. ReadsOK'
  <2>1. phase' = "running" /\ reads' # <<>> /\ LastBuffer' = LastBuffer
    BY <1>1, <1>3, <1>4 DEF LastBuffer
  <2>2. buffer' \in [{0, 1} -> Frame \cup {NoFrame}]
    BY <1>3, <1>4 DEF ReadsOK
  <2> QED BY <2>1, <2>2, <1>3, <1>4 DEF ReadsOK
<1> QED BY <1>2, <1>3, <1>5 DEF DriverOK, OwnedOK, DeviceOnlyForConnected

-----------------------------------------------------------------------------
(* Start and stop                                                          *)

\* The first two stages of Start own nothing, the last begins to read.
LEMMA StageOrder ==
  /\ Len(Stages) = 12
  /\ \A i \in 1 .. 12 : /\ Stages[i] \in {"super", "device"} => i < 3
                        /\ Stages[i] = "read" <=> i = 12
  /\ Stages[1] = "super"
BY DEF Stages

\* A new driver begins with nothing owned and no read.
LEMMA AttachKeepsInvariant == ASSUME IInv, Attach PROVE IInv'
<1> USE DEF IInv
<1>1. stage = 0 /\ owned = {}
  BY DEF Attach, DriverOK, OwnedOK
<1>2. PadsOK'
  BY DEF Attach, PadsOK
<1>3. DriverOK'
  BY <1>1, StageOrder DEF Attach, DriverOK
<1>4. ReadsOK'
  BY DEF Attach, ReadsOK
<1>5. OwnedOK' /\ DeviceOnlyForConnected'
  BY <1>1 DEF Attach, OwnedOK, DeviceOnlyForConnected
<1> QED BY <1>2, <1>3, <1>4, <1>5

\* What Stop releases and the freed driver leaves is an end state, with at most
\* a read that comes back aborted or had come back before.
LEMMA ReleaseKeepsInvariant ==
  ASSUME IInv, Release, Freed, phase' \in {"stopped", "failed"}
  PROVE  IInv'
<1> USE DEF IInv
<1>1. PadsOK'
  BY DriverKitAssumption DEF DriverKitAssumption, PadsOK, Freed
<1>2. DriverOK'
  <2>1. EmptySlot \in SlotState
    BY DEF EmptySlot, SlotState
  <2> QED BY <2>1, StageOrder DEF DriverOK, Freed, Release
<1>3. ReadsOK'
  <2>1. reads \in Seq(Read) /\ Len(reads) <= 1
    BY DEF ReadsOK
  <2>2. \A i \in DOMAIN reads :
          [reads[i] EXCEPT !.status = "aborted"] \in Read /\ reads[i] \in Read
    <3>1. \A i \in DOMAIN reads : reads[i] \in Read
      BY <2>1
    <3>2. \A r \in Read : [r EXCEPT !.status = "aborted"] \in Read
      BY DEF Read
    <3> QED BY <3>1, <3>2
  <2>3. /\ reads' \in Seq(Read) /\ Len(reads') = Len(reads)
        /\ \A i \in DOMAIN reads : reads'[i].status # "armed"
    BY <2>1, <2>2 DEF Release, Read
  <2>4. reads' # <<>> => 1 \in DOMAIN reads
    BY <2>1, <2>3
  <2>5. buffer' \in [{0, 1} -> Frame \cup {NoFrame}]
    BY DEF Release
  <2> QED BY <2>1, <2>3, <2>4, <2>5 DEF ReadsOK
<1>4. OwnedOK' /\ DeviceOnlyForConnected'
  BY DEF Release, OwnedOK, DeviceOnlyForConnected
<1> QED BY <1>1, <1>2, <1>3, <1>4

\* A start that fails in its first two stages has nothing to release.
LEMMA FailsKeepsInvariant == ASSUME IInv, StageFails PROVE IInv'
<1> USE DEF IInv
<1>1. CASE Stages[stage + 1] \notin {"super", "device"}
  BY <1>1, ReleaseKeepsInvariant DEF StageFails
<1>2. CASE Stages[stage + 1] \in {"super", "device"}
  <2>1. stage < 2
    BY <1>2, StageOrder DEF StageFails, DriverOK
  <2>2. owned' = {} /\ reads' = <<>> /\ \A c \in Tracked : hid'[c] = NoDevice
    BY <1>2, <2>1 DEF StageFails, OwnedOK, ReadsOK
  <2>3. PadsOK'
    BY DriverKitAssumption DEF DriverKitAssumption, PadsOK, StageFails, Freed
  <2>4. EmptySlot \in SlotState
    BY DEF EmptySlot, SlotState
  <2>5. DriverOK'
    BY <1>2, <2>4, StageOrder DEF DriverOK, StageFails, Freed
  <2>6. ReadsOK'
    BY <1>2, <2>2 DEF ReadsOK, StageFails
  <2> QED BY <2>2, <2>3, <2>5, <2>6 DEF StageFails, OwnedOK, DeviceOnlyForConnected
<1> QED BY <1>1, <1>2

\* The read that is issued goes into the buffer the index named, which is the
\* one the handler will look into.
LEMMA ScheduleKeepsReads ==
  ASSUME IInv, NEW issued \in BOOLEAN, ScheduleNextRead(<<>>, issued), phase' = "running",
         sound' => issued
  PROVE  ReadsOK' /\ index' \in {0, 1}
<1> USE DEF IInv
<1> DEFINE r == [buffer |-> index, status |-> "armed"]
<1>1. index \in {0, 1} /\ index' \in {0, 1} /\ LastBuffer' = index
  BY DEF DriverOK, ScheduleNextRead, LastBuffer
<1>2. r \in Read /\ r.buffer = index /\ r.status = "armed"
  BY <1>1 DEF Read
<1>3. reads' = IF issued THEN Append(<<>>, r) ELSE <<>>
  BY DEF ScheduleNextRead
<1>4. buffer' \in [{0, 1} -> Frame \cup {NoFrame}]
  BY <1>1 DEF ScheduleNextRead, ReadsOK
<1> HIDE DEF r
<1>5. CASE issued
  <2>1. reads' \in Seq(Read) /\ Len(reads') = 1 /\ reads'[1] = r /\ reads' # <<>>
    BY <1>2, <1>3, <1>5
  <2> QED BY <1>1, <1>2, <1>4, <2>1 DEF ReadsOK
<1>6. CASE ~issued
  <2>1. reads' = <<>>
    BY <1>3, <1>6
  <2> QED BY <1>1, <1>4, <1>6, <2>1 DEF ReadsOK
<1> QED BY <1>1, <1>5, <1>6

\* A stage that succeeds owns what it says, and the last one starts the loop.
LEMMA DoneKeepsInvariant == ASSUME IInv, StageDone PROVE IInv'
<1> USE DEF IInv
<1> DEFINE this == Stages[stage + 1]
<1>1. /\ phase = "starting" /\ reads = <<>> /\ stage \in 0 .. 11 /\ sound \in BOOLEAN
      /\ \A c \in Tracked : hid[c] = NoDevice
      /\ this = "read" <=> stage = 11
      /\ stage = 0 => this = "super"
  BY StageOrder, SMTT(60) DEF StageDone, DriverOK, ReadsOK, OwnedOK
<1>2. /\ stage' = stage + 1 /\ owned' = owned \cup ({this} \ {"super", "wake", "read"})
      /\ UNCHANGED <<pads, frames, missed, slots, hid, sound>>
      /\ this = "read" => phase' = "running" /\ ScheduleNextRead(<<>>, TRUE)
      /\ this # "read" => UNCHANGED <<phase, index, buffer, reads>>
  BY <1>1 DEF StageDone
<1> HIDE DEF this
<1>3. PadsOK' /\ DeviceOnlyForConnected'
  BY <1>2 DEF PadsOK, DeviceOnlyForConnected
<1>4. OwnedOK'
  <2>1. phase' = "starting" /\ stage' < 2 => owned' = {}
    <3> SUFFICES ASSUME stage' < 2 PROVE owned' = {}
      OBVIOUS
    <3>1. stage = 0 /\ this = "super"
      BY <1>1, <1>2
    <3>2. owned = {}
      BY <1>1, <3>1 DEF OwnedOK
    <3> QED BY <1>2, <3>1, <3>2
  <2>2. phase' \in {"starting", "running"}
    BY <1>1, <1>2
  <2> QED BY <1>1, <1>2, <2>1, <2>2 DEF OwnedOK
<1>5. ReadsOK' /\ index' \in {0, 1}
  <2>1. CASE this = "read"
    BY <1>2, <2>1, ScheduleKeepsReads
  <2>2. CASE this # "read"
    BY <1>1, <1>2, <2>2 DEF ReadsOK, DriverOK
  <2> QED BY <2>1, <2>2
<1>6. DriverOK'
  <2>1. phase' \in {"starting", "running"}
    BY <1>1, <1>2
  <2>2. stage' \in 0 .. 12 /\ (stage' = 12 <=> stage = 11)
    BY <1>1, <1>2
  <2>3. phase' = "starting" => stage' < 12
    BY <1>1, <1>2, <2>2
  <2> QED BY <1>2, <1>5, <2>1, <2>2, <2>3 DEF DriverOK
<1> QED BY <1>3, <1>4, <1>5, <1>6

-----------------------------------------------------------------------------
(* Frames                                                                  *)

GamepadsOK ==
  /\ slots \in [Tracked -> SlotState]
  /\ hid \in [Tracked -> Report \cup {NoDevice}]
  /\ DeviceOnlyForConnected

\* An announced controller has a slot before it has a gamepad.
LEMMA AnnounceKeepsGamepads ==
  ASSUME GamepadsOK, NEW c \in Tracked, NEW created \in BOOLEAN, HandleControllerAnnounce(c, created)
  PROVE  GamepadsOK'
<1>1. ZeroReport \in Report
  BY Reports
<1>2. [connected |-> TRUE, initialized |-> TRUE, guidePressed |-> FALSE] \in SlotState
  BY DEF SlotState
<1>3. CASE slots[c].connected
  BY <1>3 DEF GamepadsOK, DeviceOnlyForConnected, HandleControllerAnnounce
<1>4. CASE ~slots[c].connected
  <2>1. /\ slots' = [slots EXCEPT ![c] = [connected |-> TRUE, initialized |-> TRUE, guidePressed |-> FALSE]]
        /\ hid' = [hid EXCEPT ![c] = ZeroReport] \/ hid' = hid
    BY <1>4 DEF HandleControllerAnnounce
  <2>2. slots' \in [Tracked -> SlotState] /\ hid' \in [Tracked -> Report \cup {NoDevice}]
    BY <1>1, <1>2, <2>1 DEF GamepadsOK
  <2>3. ASSUME NEW d \in Tracked, hid'[d] # NoDevice PROVE slots'[d].connected
    BY <2>1, <2>3 DEF GamepadsOK, DeviceOnlyForConnected
  <2> QED BY <2>2, <2>3 DEF GamepadsOK, DeviceOnlyForConnected
<1> QED BY <1>3, <1>4

\* Input and the guide button change reports of gamepads that are there.
LEMMA ReportsKeepGamepads ==
  ASSUME GamepadsOK, NEW c \in Tracked,
         \/ \E g \in Inputs : HandleControllerInput(c, g)
         \/ \E pressed \in BOOLEAN : HandleGuideButton(c, pressed)
  PROVE  GamepadsOK'
<1>1. slots[c] \in SlotState /\ slots[c].guidePressed \in BOOLEAN
  BY DEF GamepadsOK, SlotState
<1>2. CASE \E g \in Inputs : HandleControllerInput(c, g)
  <2>1. PICK g \in Inputs : HandleControllerInput(c, g)
    BY <1>2
  <2> DEFINE r == WithGuide(GipToReport(g), slots[c].guidePressed)
  <2>2. r \in Report
    BY <1>1, Reports
  <2>3. UNCHANGED slots /\ (UNCHANGED hid \/ (hid[c] # NoDevice /\ hid' = [hid EXCEPT ![c] = r]))
    BY <2>1 DEF HandleControllerInput
  <2> HIDE DEF r
  <2> QED BY <2>2, <2>3 DEF GamepadsOK, DeviceOnlyForConnected
<1>3. CASE \E pressed \in BOOLEAN : HandleGuideButton(c, pressed)
  <2>1. PICK pressed \in BOOLEAN : HandleGuideButton(c, pressed)
    BY <1>3
  <2> DEFINE r == WithGuide(Neutral, pressed)
  <2>2. r \in Report
    BY Reports
  <2>3. /\ slots' = [slots EXCEPT ![c].guidePressed = pressed]
        /\ UNCHANGED hid \/ (hid[c] # NoDevice /\ hid' = [hid EXCEPT ![c] = r])
    BY <2>1 DEF HandleGuideButton
  <2> HIDE DEF r
  <2>4. [slots[c] EXCEPT !.guidePressed = pressed] \in SlotState
    BY <1>1 DEF SlotState
  <2>5. slots' \in [Tracked -> SlotState] /\ \A d \in Tracked : slots'[d].connected = slots[d].connected
    BY <2>3, <2>4 DEF GamepadsOK, SlotState
  <2> QED BY <2>2, <2>3, <2>5 DEF GamepadsOK, DeviceOnlyForConnected
<1> QED BY <1>2, <1>3

\* A disconnected controller loses both.
LEMMA DisconnectKeepsGamepads ==
  ASSUME GamepadsOK, NEW c \in Tracked, HandleControllerDisconnect(c)
  PROVE  GamepadsOK'
<1>1. EmptySlot \in SlotState
  BY DEF EmptySlot, SlotState
<1> QED BY <1>1 DEF GamepadsOK, DeviceOnlyForConnected, HandleControllerDisconnect

\* So does every frame, of whatever kind and of whichever client.
LEMMA FrameKeepsGamepads ==
  ASSUME GamepadsOK, NEW f \in Frame, NEW created \in BOOLEAN, ProcessGIPFrame(f, created)
  PROVE  GamepadsOK'
<1>1. CASE f.client \notin Tracked
  BY <1>1 DEF ProcessGIPFrame, GamepadsOK, DeviceOnlyForConnected
<1>2. CASE f.client \in Tracked
  <2>1. CASE f.kind = "added"
    BY <1>2, <2>1, AnnounceKeepsGamepads DEF ProcessGIPFrame
  <2>2. CASE f.kind = "lost"
    BY <1>2, <2>2, DisconnectKeepsGamepads DEF ProcessGIPFrame
  <2>3. CASE f.kind = "announce"
    <3>1. UNCHANGED <<slots, hid>> \/ HandleControllerAnnounce(f.client, created)
      BY <1>2, <2>3 DEF ProcessGIPFrame
    <3> QED BY <1>2, <3>1, AnnounceKeepsGamepads DEF GamepadsOK, DeviceOnlyForConnected
  <2>4. CASE f.kind = "input"
    <3>1. f.gip \in Inputs
      BY <2>4 DEF Frame
    <3>2. HandleControllerInput(f.client, f.gip)
      BY <1>2, <2>4 DEF ProcessGIPFrame
    <3> QED BY <1>2, <3>1, <3>2, ReportsKeepGamepads
  <2>5. CASE f.kind = "guide"
    <3>1. f.pressed \in BOOLEAN
      BY <2>5 DEF Frame
    <3>2. HandleGuideButton(f.client, f.pressed)
      BY <1>2, <2>5 DEF ProcessGIPFrame
    <3> QED BY <1>2, <3>1, <3>2, ReportsKeepGamepads
  <2>6. f.kind \in {"added", "lost", "announce", "input", "guide"}
    BY DEF Frame
  <2> QED BY <2>1, <2>2, <2>3, <2>4, <2>5, <2>6
<1> QED BY <1>1, <1>2

-----------------------------------------------------------------------------
(* Completions                                                             *)

\* A completion takes the only read there is, and issues the next one while
\* the driver runs.
LEMMA CompletionKeepsInvariant == ASSUME IInv, HandleIncomingUSBData PROVE IInv'
<1> USE DEF IInv
<1>1. /\ reads # <<>> /\ Len(reads) = 1 /\ Head(reads) = reads[1] /\ Tail(reads) = <<>>
      /\ reads[1] \in Read /\ phase # "starting"
  BY SMTT(60) DEF HandleIncomingUSBData, ReadsOK
<1>2. PadsOK' /\ UNCHANGED <<stage, owned, sound>> /\ sound \in BOOLEAN
  BY DEF HandleIncomingUSBData, padVars, PadsOK, DriverOK
<1>3. CASE ReadAborted
  <2>1. reads[1].status = "aborted" /\ reads' = <<>> /\ UNCHANGED <<phase, index, buffer, slots, hid>>
    BY <1>1, <1>3 DEF ReadAborted
  <2> QED BY <1>2, <2>1 DEF ReadsOK, DriverOK, OwnedOK, DeviceOnlyForConnected
<1>4. CASE ReadAfterStop
  BY <1>1, <1>2, <1>4 DEF ReadAfterStop, ReadsOK, DriverOK, OwnedOK, DeviceOnlyForConnected
<1>5. ASSUME NEW issued \in {TRUE, sound}, NEW created \in BOOLEAN, phase = "running", phase' = phase,
             ScheduleNextRead(<<>>, issued), GamepadsOK'
      PROVE  IInv'
  <2>1. issued \in BOOLEAN /\ (sound' => issued)
    BY <1>2, <1>5
  <2>2. ReadsOK' /\ index' \in {0, 1}
    BY <1>5, <2>1, ScheduleKeepsReads
  <2> QED BY <1>2, <1>5, <2>2 DEF GamepadsOK, DriverOK, OwnedOK
<1>6. GamepadsOK
  BY DEF DriverOK, GamepadsOK
<1>7. CASE \E issued \in {TRUE, sound} : ReadError(issued)
  <2>1. PICK issued \in {TRUE, sound} : ReadError(issued)
    BY <1>7, Zenon
  <2>2. phase = "running" /\ phase' = phase /\ ScheduleNextRead(<<>>, issued) /\ UNCHANGED <<slots, hid>>
    BY <1>1, <2>1 DEF ReadError
  <2> QED BY <1>5, <1>6, <2>2 DEF GamepadsOK, DeviceOnlyForConnected
<1>8. CASE \E issued \in {TRUE, sound}, created \in BOOLEAN : ReadSuccess(created, issued)
  <2>1. PICK issued \in {TRUE, sound}, created \in BOOLEAN : ReadSuccess(created, issued)
    BY <1>8
  <2>2. /\ phase = "running" /\ phase' = phase /\ ScheduleNextRead(<<>>, issued)
        /\ reads[1].status = "success" /\ ProcessGIPFrame(buffer[LastBuffer], created)
    BY <1>1, <2>1 DEF ReadSuccess
  <2>3. buffer[LastBuffer] \in Frame
    BY <1>1, <2>2 DEF ReadsOK
  <2>4. GamepadsOK'
    BY <1>6, <2>2, <2>3, FrameKeepsGamepads
  <2> QED BY <1>5, <2>2, <2>4
<1> QED BY <1>3, <1>4, <1>7, <1>8 DEF HandleIncomingUSBData

-----------------------------------------------------------------------------
\* The invariant holds in every state of the driver.
THEOREM Invariance == Spec => []IInv
<1>1. Init => IInv
  BY Initially
<1>2. IInv /\ [Next]_vars => IInv'
  <2> SUFFICES ASSUME IInv, [Next]_vars PROVE IInv'
    OBVIOUS
  <2>1. CASE \E c \in Client : PadStep(c)
    BY <2>1, PadKeepsInvariant
  <2>2. CASE Fill
    BY <2>2, FillKeepsInvariant
  <2>3. CASE FailRead
    BY <2>3, FailKeepsInvariant
  <2>4. CASE Attach
    BY <2>4, AttachKeepsInvariant
  <2>5. CASE StageDone
    BY <2>5, DoneKeepsInvariant
  <2>6. CASE StageFails
    BY <2>6, FailsKeepsInvariant
  <2>7. CASE Stop
    BY <2>7, ReleaseKeepsInvariant DEF Stop
  <2>8. CASE HandleIncomingUSBData
    BY <2>8, CompletionKeepsInvariant
  <2>9. CASE UNCHANGED vars
    BY <2>9 DEF vars, padVars, IInv, PadsOK, DriverOK, ReadsOK, OwnedOK, LastBuffer, DeviceOnlyForConnected
  <2> QED BY <2>1, <2>2, <2>3, <2>4, <2>5, <2>6, <2>7, <2>8, <2>9 DEF Next
<1> QED BY <1>1, <1>2, PTL DEF Spec

\* Controllers, dongle and driver keep to their types, and no hat leaves its
\* range.
THEOREM TypeCorrect == Spec => []TypeOK
<1>1. IInv => TypeOK
  BY DEF IInv, PadsOK, DriverOK, TypeOK, Report
<1> QED BY <1>1, Invariance, PTL

\* However it ended, a driver that does not run keeps nothing.
THEOREM StopReleasesAll == Spec => []StoppedHoldsNothing
<1>1. IInv => StoppedHoldsNothing
  BY DEF IInv, OwnedOK, StoppedHoldsNothing
<1> QED BY <1>1, Invariance, PTL

LEMMA AtMostOne == \A S : \A q \in Seq(S) : Len(q) <= 1 /\ q # <<>> => Len(q) = 1
<1> SUFFICES ASSUME NEW S, NEW q \in Seq(S), Len(q) <= 1, q # <<>> PROVE Len(q) = 1
  BY Zenon
<1>1. Len(q) \in Nat
  OBVIOUS
<1>2. Len(q) # 0
  OBVIOUS
<1> QED BY <1>1, <1>2

(* The loop over the two buffers never has two reads out, and never ends   *)
(* while reads can be issued.                                              *)
THEOREM ReadLoopGoesOn == Spec => []OneReadAtATime
<1>1. IInv => OneReadAtATime
  <2> SUFFICES ASSUME IInv PROVE OneReadAtATime
    OBVIOUS
  <2>1. reads \in Seq(Read) /\ Len(reads) <= 1
    BY Zenon DEF IInv, ReadsOK
  <2>2. phase = "running" /\ sound => reads # <<>>
    BY Zenon DEF IInv, ReadsOK
  <2>3. reads # <<>> => Len(reads) = 1
    BY <2>1, AtMostOne
  <2> QED BY <2>1, <2>2, <2>3, Zenon DEF OneReadAtATime
<1> QED BY <1>1, Invariance, PTL

\* No gamepad without a connected slot, for any number of controllers and
\* whichever frames are lost.
THEOREM GamepadsNeedSlots == Spec => []DeviceOnlyForConnected
<1>1. IInv => DeviceOnlyForConnected
  BY DEF IInv
<1> QED BY <1>1, Invariance, PTL

-----------------------------------------------------------------------------
(* What is on its way                                                      *)

PadState == [on : BOOLEAN, guide : BOOLEAN, state : Inputs \cup {NoInput}]

About(c) == {f \in Frame : f.client = c}

\* what a frame tells of the controller that sends it
Moves(r, f, n) ==
  \/ f.kind = "added" /\ r = OffPad /\ n = [OffPad EXCEPT !.on = TRUE]
  \/ f.kind = "lost" /\ r.on /\ n = OffPad
  \/ f.kind = "guide" /\ r.on /\ n = [r EXCEPT !.guide = f.pressed]
  \/ f.kind = "input" /\ r.on /\ n = [r EXCEPT !.state = f.gip]
  \/ f.kind = "announce" /\ r.on /\ n = r

Steps == {t \in PadState \X Frame \X PadState : Moves(t[1], t[2], t[3])}

\* after a controller has gone off, whatever was missed before
Marks == {t \in Frame \X PadState : t[1].kind = "lost" /\ t[2] = OffPad}

\* the frames the driver has yet to handle: the one a read has come back with,
\* and those in the dongle
Pending ==
  IF reads # <<>> /\ reads[1].status = "success" THEN <<buffer[reads[1].buffer]>> \o frames
                                                 ELSE frames

\* a slot and its gamepad agree with a state of the controller
Knows(slot, device, r) ==
  /\ slot.connected = r.on /\ slot.initialized = r.on /\ slot.guidePressed = r.guide
  /\ device # NoDevice =>
       /\ r.on
       /\ ("guide" \in device.buttons) = r.guide
       /\ \/ device = WithGuide(Neutral, r.guide)
          \/ device = ZeroReport
          \/ r.state \in Inputs /\ device = WithGuide(GipToReport(r.state), r.guide)

\* what slot and gamepad agree with now, or will with a frame on its way, leads
\* to the state the controller is in
Followed(q, now, slot, device, c) ==
  Follows(q, now, {r \in PadState : Knows(slot, device, r)}, About(c), Steps, Marks)

\* The strengthening of DriverFollowsControllers: not only when nothing is on
\* its way.
FollowOK ==
  /\ missed \in [Client -> BOOLEAN] /\ awake \in BOOLEAN
  /\ \A c \in Client : ~pads[c].on => pads[c] = OffPad
  /\ phase \notin {"starting", "running"} => ~awake /\ frames = <<>>
  /\ phase # "running" => slots = [c \in Tracked |-> EmptySlot]
  /\ \A c \in Client \cap Tracked :
       phase \in {"starting", "running"} /\ ~missed[c] =>
         Followed(Pending, pads[c], slots[c], hid[c], c)

\* A frame of the controller, or of another, joins the queue.
LEMMA FrameJoins ==
  ASSUME NEW q \in Seq(Frame), NEW f \in Frame, NEW c, NEW now, NEW next, NEW slot, NEW device,
         Followed(q, now, slot, device, c),
         IF f \in About(c) THEN <<now, f, next>> \in Steps ELSE next = now
  PROVE  Followed(Append(q, f), next, slot, device, c)
BY FollowsSent DEF Followed

\* A controller that goes off is followed again.
LEMMA LossJoins ==
  ASSUME NEW q \in Seq(Frame), NEW f \in Frame, NEW c, NEW now, NEW slot, NEW device,
         f \in About(c), <<f, now>> \in Marks
  PROVE  Followed(Append(q, f), now, slot, device, c)
BY FollowsAgain DEF Followed

\* The driver handles the frame at the head: if that makes slot and gamepad
\* agree with the state after it, they go on following.
LEMMA HeadLeaves ==
  ASSUME NEW q \in Seq(Frame), q # <<>>, NEW c, NEW now, NEW slot, NEW device,
         NEW slot2, NEW device2,
         Followed(q, now, slot, device, c),
         \A r, n : /\ Knows(slot, device, r)
                   /\ IF q[1] \in About(c) THEN <<r, q[1], n>> \in Steps ELSE n = r
                   => Knows(slot2, device2, n),
         \A n : q[1] \in About(c) /\ <<q[1], n>> \in Marks => Knows(slot2, device2, n)
  PROVE  Followed(Tail(q), now, slot2, device2, c)
<1>1. \A r, n : <<r, q[1], n>> \in Steps \/ <<q[1], n>> \in Marks => n \in PadState
  BY DEF Steps, Marks
<1> QED BY <1>1, FollowsTaken DEF Followed

\* A frame of another controller leaves the queue.
LEMMA OtherLeaves ==
  ASSUME NEW q \in Seq(Frame), q # <<>>, NEW c, NEW now, NEW slot, NEW device,
         Followed(q, now, slot, device, c), q[1] \notin About(c)
  PROVE  Followed(Tail(q), now, slot, device, c)
BY HeadLeaves

\* The frames are frames, while the driver starts or runs.
LEMMA PendingFrames ==
  ASSUME IInv, phase \in {"starting", "running"}
  PROVE  Pending \in Seq(Frame)
<1>1. frames \in Seq(Frame)
  BY DEF IInv, PadsOK
<1>2. CASE reads # <<>> /\ reads[1].status = "success"
  <2>1. buffer[reads[1].buffer] \in Frame
    BY <1>2 DEF IInv, ReadsOK
  <2> DEFINE b == buffer[reads[1].buffer]
  <2>2. Pending = <<b>> \o frames
    BY <1>2 DEF Pending
  <2> HIDE DEF b
  <2>3. b \in Frame
    BY <2>1 DEF b
  <2> QED BY <1>1, <2>2, <2>3
<1>3. CASE ~(reads # <<>> /\ reads[1].status = "success")
  BY <1>1, <1>3, Zenon DEF Pending
<1> QED BY <1>2, <1>3

-----------------------------------------------------------------------------
(* What the handlers make of a frame                                       *)

\* The guide button is in a report as WithGuide has put it there.
LEMMA GuideBit ==
  \A r \in Report, p \in BOOLEAN : ("guide" \in WithGuide(r, p).buttons) = p
BY DEF WithGuide, Report

\* A controller that is off has neither a slot nor a gamepad.
LEMMA KnownOff == Knows(EmptySlot, NoDevice, OffPad)
BY DEF Knows, EmptySlot, OffPad

\* A frame takes slot and gamepad along with the controller that sends it.
LEMMA FrameTells ==
  ASSUME GamepadsOK, NEW f \in Frame, NEW created \in BOOLEAN, ProcessGIPFrame(f, created),
         f.client \in Tracked, NEW r, NEW n,
         Knows(slots[f.client], hid[f.client], r), <<r, f, n>> \in Steps
  PROVE  Knows(slots'[f.client], hid'[f.client], n)
<1> DEFINE c == f.client
<1>1. r \in PadState /\ n \in PadState /\ Moves(r, f, n)
  BY DEF Steps
<1>2. c \in Tracked /\ slots \in [Tracked -> SlotState] /\ hid \in [Tracked -> Report \cup {NoDevice}]
  BY DEF GamepadsOK
<1>3. slots[c] \in SlotState /\ hid[c] \in Report \cup {NoDevice}
  BY <1>2
<1>4. r.on \in BOOLEAN /\ r.guide \in BOOLEAN /\ n.on \in BOOLEAN /\ n.guide \in BOOLEAN
  BY <1>1 DEF PadState
<1>5. Knows(slots[c], hid[c], r)
  OBVIOUS
<1>6. CASE f.kind = "added"
  <2>1. r = OffPad /\ n = [OffPad EXCEPT !.on = TRUE]
    BY <1>1, <1>6 DEF Moves
  <2>2. ~slots[c].connected /\ hid[c] = NoDevice
    BY <1>5, <2>1 DEF Knows, OffPad
  <2>3. HandleControllerAnnounce(c, created)
    BY <1>6 DEF ProcessGIPFrame
  <2> HIDE DEF c
  <2>4. /\ slots'[c] = [connected |-> TRUE, initialized |-> TRUE, guidePressed |-> FALSE]
        /\ hid'[c] = ZeroReport \/ hid'[c] = NoDevice
    BY <1>2, <2>2, <2>3 DEF HandleControllerAnnounce
  <2>10. /\ slots'[c].connected = TRUE /\ slots'[c].initialized = TRUE
         /\ slots'[c].guidePressed = FALSE
    BY <2>4
  <2>5. ZeroReport.buttons = {} /\ n.on = TRUE /\ n.guide = FALSE
        /\ n.guide \in BOOLEAN /\ ~n.guide
    BY <2>1 DEF ZeroReport, OffPad
  <2>6. ("guide" \in ZeroReport.buttons) = n.guide
    BY <2>5
  <2>7. ASSUME hid'[c] = ZeroReport PROVE Knows(slots'[c], hid'[c], n)
    BY <2>5, <2>6, <2>7, <2>10 DEF Knows
  <2>8. ASSUME hid'[c] = NoDevice PROVE Knows(slots'[c], hid'[c], n)
    BY <2>5, <2>8, <2>10 DEF Knows
  <2>9. Knows(slots'[c], hid'[c], n)
    BY <2>4, <2>7, <2>8
  <2> QED BY <2>9 DEF c
<1>7. CASE f.kind = "lost"
  <2>1. n = OffPad
    BY <1>1, <1>7 DEF Moves
  <2>2. HandleControllerDisconnect(c)
    BY <1>7 DEF ProcessGIPFrame
  <2> HIDE DEF c
  <2>3. slots'[c] = EmptySlot /\ hid'[c] = NoDevice
    BY <1>2, <2>2 DEF HandleControllerDisconnect
  <2>4. Knows(slots'[c], hid'[c], n)
    BY <2>1, <2>3, KnownOff
  <2> QED BY <2>4 DEF c
<1>8. CASE f.kind = "announce"
  <2>1. r.on /\ n = r
    BY <1>1, <1>8 DEF Moves
  <2>2. slots[c].initialized
    BY <1>5, <2>1 DEF Knows
  <2>3. UNCHANGED <<slots, hid>>
    BY <1>8, <2>2 DEF ProcessGIPFrame
  <2> QED BY <1>5, <2>1, <2>3
<1>9. CASE f.kind = "input"
  <2>1. /\ r.on /\ n = [r EXCEPT !.state = f.gip]
        /\ f.gip \in Inputs
    BY <1>1, <1>9 DEF Moves, Frame
  <2>2. HandleControllerInput(c, f.gip)
    BY <1>9 DEF ProcessGIPFrame
  <2>3. slots[c].connected /\ slots[c].initialized /\ slots[c].guidePressed = r.guide
    BY <1>4, <1>5, <2>1 DEF Knows, SlotState
  <2> DEFINE report == WithGuide(GipToReport(f.gip), r.guide)
  <2>4. ("guide" \in report.buttons) = r.guide
    <3>1. GipToReport(f.gip) \in Report
      BY <2>1, Reports
    <3>2. r.guide \in BOOLEAN
      BY <1>4
    <3> QED BY <3>1, <3>2, GuideBit
  <2>5. n.on /\ n.guide = r.guide /\ n.state = f.gip
    BY <1>1, <2>1 DEF PadState
  <2>6. report = WithGuide(GipToReport(n.state), n.guide)
    BY <2>5
  <2> HIDE DEF c, report
  <2>7. slots'[c] = slots[c] /\ hid'[c] = IF hid[c] # NoDevice THEN report ELSE NoDevice
    BY <1>2, <2>2, <2>3 DEF HandleControllerInput, report
  <2>8. Knows(slots'[c], hid'[c], n)
    BY <1>5, <2>1, <2>3, <2>4, <2>5, <2>6, <2>7 DEF Knows
  <2> QED BY <2>8 DEF c
<1>10. CASE f.kind = "guide"
  <2>1. /\ r.on /\ n = [r EXCEPT !.guide = f.pressed]
        /\ f.pressed \in BOOLEAN
    BY <1>1, <1>10 DEF Moves, Frame
  <2>2. HandleGuideButton(c, f.pressed)
    BY <1>10 DEF ProcessGIPFrame
  <2>3. slots[c].connected = TRUE /\ slots[c].initialized = TRUE
    BY <1>3, <1>5, <2>1 DEF Knows, SlotState
  <2> DEFINE report == WithGuide(Neutral, f.pressed)
  <2>4. ("guide" \in report.buttons) = f.pressed
    BY <2>1, GuideBit, Reports
  <2>5. n.on = TRUE /\ n.guide = f.pressed
    BY <1>1, <1>4, <2>1 DEF PadState
  <2>6. report = WithGuide(Neutral, n.guide)
    BY <2>5
  <2> HIDE DEF c, report
  <2>7. /\ slots'[c].connected = slots[c].connected /\ slots'[c].initialized = slots[c].initialized
        /\ slots'[c].guidePressed = f.pressed
        /\ hid'[c] = IF hid[c] # NoDevice THEN report ELSE NoDevice
    BY <1>2, <1>3, <2>2 DEF HandleGuideButton, report, SlotState
  <2>8. Knows(slots'[c], hid'[c], n)
    BY <2>3, <2>4, <2>5, <2>6, <2>7 DEF Knows
  <2> QED BY <2>8 DEF c
<1> QED BY <1>1, <1>6, <1>7, <1>8, <1>9, <1>10, Zenon DEF Moves

\* That a controller has gone off is known whatever was before.
LEMMA LossTells ==
  ASSUME GamepadsOK, NEW f \in Frame, NEW created \in BOOLEAN, ProcessGIPFrame(f, created),
         f.client \in Tracked, NEW n, <<f, n>> \in Marks
  PROVE  Knows(slots'[f.client], hid'[f.client], n)
<1>1. f.kind = "lost" /\ n = OffPad
  BY DEF Marks
<1>2. HandleControllerDisconnect(f.client)
  BY <1>1 DEF ProcessGIPFrame
<1>3. slots'[f.client] = EmptySlot /\ hid'[f.client] = NoDevice
  BY <1>2 DEF HandleControllerDisconnect, GamepadsOK
<1> QED BY <1>1, <1>3, KnownOff

\* The slots and gamepads of others are left alone.
LEMMA FrameSpares ==
  ASSUME GamepadsOK, NEW f \in Frame, NEW created \in BOOLEAN, ProcessGIPFrame(f, created),
         NEW c \in Tracked, f.client # c
  PROVE  slots'[c] = slots[c] /\ hid'[c] = hid[c]
<1>1. CASE f.client \notin Tracked
  BY <1>1 DEF ProcessGIPFrame
<1>2. CASE f.client \in Tracked
  <2>1. f.kind \in {"added", "lost", "announce", "input", "guide"}
    BY DEF Frame
  <2>2. CASE f.kind \in {"added", "announce"}
    <3>1. UNCHANGED <<slots, hid>> \/ HandleControllerAnnounce(f.client, created)
      BY <1>2, <2>2 DEF ProcessGIPFrame
    <3> QED BY <3>1 DEF HandleControllerAnnounce, GamepadsOK
  <2>3. CASE f.kind = "lost"
    <3>1. HandleControllerDisconnect(f.client)
      BY <1>2, <2>3 DEF ProcessGIPFrame
    <3> QED BY <3>1 DEF HandleControllerDisconnect, GamepadsOK
  <2>4. CASE f.kind = "input"
    <3>1. HandleControllerInput(f.client, f.gip)
      BY <1>2, <2>4 DEF ProcessGIPFrame
    <3> QED BY <3>1 DEF HandleControllerInput, GamepadsOK
  <2>5. CASE f.kind = "guide"
    <3>1. HandleGuideButton(f.client, f.pressed)
      BY <1>2, <2>5 DEF ProcessGIPFrame
    <3> QED BY <3>1 DEF HandleGuideButton, GamepadsOK
  <2> QED BY <2>1, <2>2, <2>3, <2>4, <2>5
<1> QED BY <1>1, <1>2

-----------------------------------------------------------------------------
(* How the driver follows its controllers                                  *)

\* A controller's step is the frame it sends.
LEMMA PadSends ==
  ASSUME PadsOK, FollowOK, NEW c \in Client, Pad(c)
  PROVE  \E f \in Frame :
           /\ f.client = c /\ Emit(f)
           /\ <<pads[c], f, pads'[c]>> \in Steps
           /\ \A d \in Client : d # c => pads'[d] = pads[d]
           /\ ~pads'[c].on => pads'[c] = OffPad
           /\ f.kind = "lost" => pads'[c] = OffPad
<1> DEFINE Sends(f) == /\ f.client = c /\ Emit(f)
                       /\ <<pads[c], f, pads'[c]>> \in Steps
                       /\ \A d \in Client : d # c => pads'[d] = pads[d]
                       /\ ~pads'[c].on => pads'[c] = OffPad
                       /\ f.kind = "lost" => pads'[c] = OffPad
<1>1. /\ pads \in [Client -> PadState] /\ pads[c] \in PadState
      /\ ~pads[c].on => pads[c] = OffPad
  BY DEF PadsOK, PadState, FollowOK
<1>2. OffPad \in PadState /\ [OffPad EXCEPT !.on = TRUE] \in PadState
  BY DEF OffPad, PadState
<1>3. CASE /\ ~pads[c].on /\ pads' = [pads EXCEPT ![c].on = TRUE]
           /\ Emit([kind |-> "added", client |-> c])
  <2> DEFINE f == [kind |-> "added", client |-> c]
  <2>1. f \in Frame /\ f.client = c /\ f.kind = "added"
    BY DEF Frame
  <2>2. /\ pads[c] = OffPad /\ pads'[c] = [OffPad EXCEPT !.on = TRUE]
        /\ \A d \in Client : d # c => pads'[d] = pads[d]
    BY <1>1, <1>3
  <2>3. pads'[c].on
    BY <2>2 DEF OffPad
  <2>4. Emit(f)
    BY <1>3
  <2> HIDE DEF f
  <2>5. <<pads[c], f, pads'[c]>> \in Steps
    BY <1>2, <2>1, <2>2 DEF Steps, Moves
  <2>6. Sends(f)
    BY <2>1, <2>2, <2>3, <2>4, <2>5
  <2> QED BY <2>1, <2>6
<1>4. CASE /\ pads[c].on /\ pads' = [pads EXCEPT ![c] = OffPad]
           /\ Emit([kind |-> "lost", client |-> c])
  <2> DEFINE f == [kind |-> "lost", client |-> c]
  <2>1. f \in Frame /\ f.client = c /\ f.kind = "lost"
    BY DEF Frame
  <2>2. /\ pads[c].on /\ pads'[c] = OffPad
        /\ \A d \in Client : d # c => pads'[d] = pads[d]
    BY <1>1, <1>4
  <2>3. Emit(f)
    BY <1>4
  <2> HIDE DEF f
  <2>4. <<pads[c], f, pads'[c]>> \in Steps
    BY <1>1, <1>2, <2>1, <2>2 DEF Steps, Moves
  <2>5. Sends(f)
    BY <2>1, <2>2, <2>3, <2>4
  <2> QED BY <2>1, <2>5
<1>5. CASE /\ pads[c].on /\ pads' = [pads EXCEPT ![c].guide = ~@]
           /\ Emit([kind |-> "guide", client |-> c, pressed |-> ~pads[c].guide])
  <2> DEFINE b == ~pads[c].guide
             f == [kind |-> "guide", client |-> c, pressed |-> b]
  <2>1. b \in BOOLEAN
    OBVIOUS
  <2>2. /\ pads[c].on /\ pads'[c] = [pads[c] EXCEPT !.guide = b]
        /\ \A d \in Client : d # c => pads'[d] = pads[d]
    BY <1>1, <1>5
  <2>3. Emit(f)
    BY <1>5
  <2> HIDE DEF b
  <2>4. f \in Frame /\ f.client = c /\ f.kind = "guide" /\ f.pressed = b
    BY <2>1 DEF Frame
  <2> HIDE DEF f
  <2>5. pads'[c] \in PadState /\ pads'[c].on
    BY <1>1, <2>1, <2>2 DEF PadState
  <2>6. <<pads[c], f, pads'[c]>> \in Steps
    BY <1>1, <2>2, <2>4, <2>5 DEF Steps, Moves
  <2>7. Sends(f)
    BY <2>2, <2>3, <2>4, <2>5, <2>6
  <2> QED BY <2>4, <2>7
<1>6. ASSUME pads[c].on, NEW g \in Inputs, pads' = [pads EXCEPT ![c].state = g],
             Emit([kind |-> "input", client |-> c, gip |-> g])
      PROVE  \E f \in Frame : Sends(f)
  <2> DEFINE f == [kind |-> "input", client |-> c, gip |-> g]
  <2>1. f \in Frame /\ f.client = c /\ f.kind = "input" /\ f.gip = g
    BY DEF Frame
  <2>2. /\ pads[c].on /\ pads'[c] = [pads[c] EXCEPT !.state = g]
        /\ \A d \in Client : d # c => pads'[d] = pads[d]
    BY <1>1, <1>6
  <2>3. Emit(f)
    BY <1>6
  <2> HIDE DEF f
  <2>4. pads'[c] \in PadState /\ pads'[c].on
    BY <1>1, <2>2 DEF PadState
  <2>5. <<pads[c], f, pads'[c]>> \in Steps
    BY <1>1, <2>1, <2>2, <2>4 DEF Steps, Moves
  <2>6. Sends(f)
    BY <2>1, <2>2, <2>3, <2>4, <2>5
  <2> QED BY <2>1, <2>6
<1>7. CASE /\ pads[c].on /\ Emit([kind |-> "announce", client |-> c]) /\ UNCHANGED pads
  <2> DEFINE f == [kind |-> "announce", client |-> c]
  <2>1. f \in Frame /\ f.client = c /\ f.kind = "announce"
    BY DEF Frame
  <2>2. Emit(f)
    BY <1>7
  <2> HIDE DEF f
  <2>3. <<pads[c], f, pads'[c]>> \in Steps
    BY <1>1, <1>7, <2>1 DEF Steps, Moves
  <2>4. Sends(f)
    BY <1>7, <2>1, <2>2, <2>3
  <2> QED BY <2>1, <2>4
<1> QED BY <1>3, <1>4, <1>5, <1>6, <1>7 DEF Pad

\* What the dongle takes joins the frames that are on their way.
LEMMA PendingGrows ==
  ASSUME IInv, phase \in {"starting", "running"}, NEW f \in Frame,
         frames' = Append(frames, f), UNCHANGED <<reads, buffer>>
  PROVE  Pending' = Append(Pending, f)
<1>1. frames \in Seq(Frame)
  BY DEF IInv, PadsOK
<1>2. CASE reads # <<>> /\ reads[1].status = "success"
  <2> DEFINE b == buffer[reads[1].buffer]
  <2>1. b \in Frame
    BY <1>2 DEF IInv, ReadsOK
  <2>2. Pending = <<b>> \o frames /\ Pending' = <<b>> \o frames'
    BY <1>2 DEF Pending
  <2> HIDE DEF b
  <2> QED BY <1>1, <2>1, <2>2
<1>3. CASE ~(reads # <<>> /\ reads[1].status = "success")
  BY <1>3 DEF Pending
<1> QED BY <1>2, <1>3

\* A controller's step reaches its followers through the frame, or is missed.
LEMMA PadFollowed ==
  ASSUME IInv, FollowOK, NEW c \in Client, PadStep(c)
  PROVE  FollowOK'
<1>1. PICK f \in Frame : /\ f.client = c /\ Emit(f)
                         /\ <<pads[c], f, pads'[c]>> \in Steps
                         /\ \A d \in Client : d # c => pads'[d] = pads[d]
                         /\ ~pads'[c].on => pads'[c] = OffPad
                         /\ f.kind = "lost" => pads'[c] = OffPad
  BY PadSends DEF PadStep, IInv
<1>2. UNCHANGED <<awake, phase, buffer, reads, slots, hid>>
  BY DEF PadStep
<1> DEFINE taken == awake /\ Len(frames) < QueueBound
<1>3. /\ frames' = IF taken THEN Append(frames, f) ELSE frames
      /\ missed' = [missed EXCEPT ![c] = ~taken \/ (missed[c] /\ f.kind # "lost")]
      /\ missed \in [Client -> BOOLEAN] /\ awake \in BOOLEAN
  BY <1>1 DEF Emit, FollowOK
<1>4. missed' \in [Client -> BOOLEAN]
  BY <1>3
<1>5. phase' \notin {"starting", "running"} => ~awake' /\ frames' = <<>>
  BY <1>2, <1>3 DEF FollowOK
<1>6. \A d \in Client : ~pads'[d].on => pads'[d] = OffPad
  BY <1>1 DEF FollowOK
<1>7. ASSUME NEW d \in Client \cap Tracked, phase \in {"starting", "running"}, ~missed'[d]
      PROVE  Followed(Pending', pads'[d], slots'[d], hid'[d], d)
  <2>1. Pending \in Seq(Frame)
    BY <1>7, PendingFrames
  <2>2. taken => Pending' = Append(Pending, f)
    BY <1>2, <1>3, <1>7, PendingGrows
  <2>3. ~taken => Pending' = Pending
    BY <1>2, <1>3 DEF Pending
  <2>4. slots'[d] = slots[d] /\ hid'[d] = hid[d]
    BY <1>2
  <2>5. f \in About(d) <=> d = c
    BY <1>1 DEF About
  <2>6. CASE d # c
    <3>1. ~missed[d] /\ pads'[d] = pads[d]
      BY <1>1, <1>3, <1>7, <2>6
    <3>2. Followed(Pending, pads[d], slots[d], hid[d], d)
      BY <1>7, <3>1 DEF FollowOK
    <3>3. taken => Followed(Append(Pending, f), pads[d], slots[d], hid[d], d)
      BY <2>1, <2>5, <2>6, <3>2, FrameJoins
    <3> QED BY <2>2, <2>3, <2>4, <3>1, <3>2, <3>3
  <2>7. CASE d = c
    <3>1. taken /\ (~missed[c] \/ f.kind = "lost")
      BY <1>3, <1>7, <2>7
    <3>2. ASSUME ~missed[c]
          PROVE  Followed(Append(Pending, f), pads'[c], slots[c], hid[c], c)
      <4>1. Followed(Pending, pads[c], slots[c], hid[c], c)
        BY <1>7, <2>7, <3>2 DEF FollowOK
      <4> QED BY <1>1, <2>1, <2>5, <2>7, <4>1, FrameJoins
    <3>3. ASSUME f.kind = "lost"
          PROVE  Followed(Append(Pending, f), pads'[c], slots[c], hid[c], c)
      <4>1. <<f, pads'[c]>> \in Marks
        BY <1>1, <3>3 DEF Marks, Steps
      <4> QED BY <2>1, <2>5, <2>7, <4>1, LossJoins
    <3> QED BY <2>2, <2>4, <2>7, <3>1, <3>2, <3>3
  <2> QED BY <2>6, <2>7
<1> HIDE DEF taken
<1> QED BY <1>2, <1>3, <1>4, <1>5, <1>6, <1>7 DEF FollowOK

\* A read takes a frame from the dongle: it is on its way as it was.
LEMMA FillFollowed == ASSUME IInv, FollowOK, Fill PROVE FollowOK'
<1>1. /\ phase = "running" /\ Len(reads) = 1 /\ First = 1
      /\ reads[1] \in Read /\ reads[1].status = "armed" /\ reads[1].buffer = LastBuffer
  BY OneArmed DEF Fill
<1>2. /\ reads' = [reads EXCEPT ![1].status = "success"]
      /\ buffer' = [buffer EXCEPT ![LastBuffer] = Head(frames)]
      /\ frames # <<>> /\ frames' = Tail(frames)
      /\ UNCHANGED <<pads, awake, missed, phase, slots, hid>>
  BY <1>1 DEF Fill
<1>3. /\ frames \in Seq(Frame) /\ reads \in Seq(Read)
      /\ buffer \in [{0, 1} -> Frame \cup {NoFrame}] /\ LastBuffer \in {0, 1}
  BY DEF IInv, PadsOK, ReadsOK, DriverOK, LastBuffer
<1>4. reads' # <<>> /\ reads'[1].status = "success" /\ reads'[1].buffer = LastBuffer
  BY <1>1, <1>2, <1>3 DEF Read
<1>5. buffer'[reads'[1].buffer] = Head(frames)
  BY <1>2, <1>3, <1>4
<1>6. Pending' = <<Head(frames)>> \o Tail(frames)
  BY <1>2, <1>4, <1>5 DEF Pending
<1>7. Pending = frames
  BY <1>1 DEF Pending
<1>8. <<Head(frames)>> \o Tail(frames) = frames
  BY <1>2, <1>3
<1>9. Pending' = Pending
  BY <1>6, <1>7, <1>8
<1> QED BY <1>1, <1>2, <1>9 DEF FollowOK

\* A frame that a failing transfer takes with it is missed by its controller's
\* follower, and no other's.
LEMMA FailFollowed == ASSUME IInv, FollowOK, FailRead PROVE FollowOK'
<1>1. /\ phase = "running" /\ Len(reads) = 1 /\ First = 1
      /\ reads[1] \in Read /\ reads[1].status = "armed" /\ reads[1].buffer = LastBuffer
  BY OneArmed DEF FailRead
<1>2. /\ reads' = [reads EXCEPT ![1].status = "error"]
      /\ UNCHANGED <<pads, awake, phase, buffer, slots, hid>>
  BY <1>1 DEF FailRead
<1>3. reads'[1].status = "error"
  BY <1>1, <1>2 DEF Read, IInv, ReadsOK
<1>4. Pending = frames /\ Pending' = frames'
  BY <1>1, <1>3 DEF Pending
<1>5. frames \in Seq(Frame)
  BY DEF IInv, PadsOK
<1>6. CASE UNCHANGED <<frames, missed>>
  BY <1>1, <1>2, <1>4, <1>6 DEF FollowOK
<1>7. CASE /\ frames # <<>> /\ frames' = Tail(frames)
           /\ missed' = [missed EXCEPT ![Head(frames).client] = TRUE]
  <2>1. Head(frames) = frames[1] /\ frames[1] \in Frame /\ frames[1].client \in Client
    BY <1>5, <1>7 DEF Frame
  <2>2. missed' \in [Client -> BOOLEAN]
    BY <1>7 DEF FollowOK
  <2>3. ASSUME NEW c \in Client \cap Tracked, ~missed'[c]
        PROVE  Followed(Pending', pads'[c], slots'[c], hid'[c], c)
    <3>1. ~missed[c] /\ frames[1].client # c
      BY <1>7, <2>1, <2>3 DEF FollowOK
    <3>2. Followed(frames, pads[c], slots[c], hid[c], c)
      BY <1>1, <1>4, <3>1 DEF FollowOK
    <3>3. frames[1] \notin About(c)
      BY <3>1 DEF About
    <3>4. Followed(Tail(frames), pads[c], slots[c], hid[c], c)
      BY <1>5, <1>7, <3>2, <3>3, OtherLeaves
    <3> QED BY <1>2, <1>4, <1>7, <3>4
  <2> QED BY <1>1, <1>2, <2>2, <2>3 DEF FollowOK
<1> QED BY <1>6, <1>7 DEF FailRead

\* A new driver knows the controllers that are off.
LEMMA AttachFollowed == ASSUME IInv, FollowOK, Attach PROVE FollowOK'
<1>1. /\ phase \notin {"starting", "running"} /\ phase' = "starting" /\ reads' = <<>>
      /\ missed' = [c \in Client |-> pads[c].on]
      /\ UNCHANGED <<pads, awake, frames, slots, hid>>
  BY DEF Attach
<1>2. frames = <<>> /\ Pending' = <<>>
  BY <1>1 DEF FollowOK, Pending
<1>3. missed' \in [Client -> BOOLEAN]
  BY <1>1 DEF IInv, PadsOK
<1>4. slots = [c \in Tracked |-> EmptySlot] /\ \A c \in Tracked : hid[c] = NoDevice
  BY <1>1 DEF FollowOK, IInv, OwnedOK
<1>5. ASSUME NEW c \in Client \cap Tracked, ~missed'[c]
      PROVE  Followed(<<>>, pads[c], slots[c], hid[c], c)
  <2>1. pads[c] = OffPad
    BY <1>1, <1>5 DEF FollowOK
  <2>2. Knows(slots[c], hid[c], OffPad)
    BY <1>4, KnownOff
  <2>3. OffPad \in PadState
    BY DEF OffPad, PadState
  <2> QED BY <2>1, <2>2, <2>3, FollowsFromStart DEF Followed
<1> QED BY <1>1, <1>2, <1>3, <1>4, <1>5 DEF FollowOK

\* A stage of Start handles no frame.
LEMMA DoneFollowed == ASSUME IInv, FollowOK, StageDone PROVE FollowOK'
<1>1. /\ phase = "starting" /\ reads = <<>> /\ phase' \in {"starting", "running"}
      /\ UNCHANGED <<pads, frames, missed, slots, hid>>
      /\ awake' \in BOOLEAN
  BY DEF StageDone, IInv, ReadsOK
<1>2. reads' = <<>> \/ (Len(reads') = 1 /\ reads'[1].status = "armed")
  BY <1>1 DEF StageDone, ScheduleNextRead
<1>3. Pending = frames /\ Pending' = frames'
  BY <1>1, <1>2 DEF Pending
<1> QED BY <1>1, <1>3 DEF FollowOK

\* Nobody follows once the driver has been stopped.
LEMMA FreedFollowed ==
  ASSUME IInv, FollowOK, Freed, phase' \in {"stopped", "failed"}
  PROVE  FollowOK'
BY DEF FollowOK, Freed

\* The frame that is handled was the first on its way.
LEMMA CompletionFollowed == ASSUME IInv, FollowOK, HandleIncomingUSBData PROVE FollowOK'
<1>1. /\ reads # <<>> /\ Len(reads) = 1 /\ Head(reads) = reads[1] /\ Tail(reads) = <<>>
      /\ phase # "starting" /\ UNCHANGED <<pads, frames, awake, missed>>
  BY SMTT(60) DEF HandleIncomingUSBData, IInv, ReadsOK, padVars
<1>2. CASE ReadAborted \/ ReadAfterStop
  <2>1. phase # "running" /\ phase' \notin {"starting", "running"} /\ UNCHANGED slots
    BY <1>1, <1>2 DEF ReadAborted, ReadAfterStop, IInv, ReadsOK, DriverOK
  <2> QED BY <1>1, <2>1 DEF FollowOK
<1>3. ASSUME NEW issued, ScheduleNextRead(<<>>, issued)
      PROVE  Pending' = frames
  <2>1. reads' = <<>> \/ (Len(reads') = 1 /\ reads'[1].status = "armed")
    BY <1>3 DEF ScheduleNextRead
  <2> QED BY <1>1, <2>1 DEF Pending
<1>4. CASE \E issued \in {TRUE, sound} : ReadError(issued)
  <2>1. PICK issued \in {TRUE, sound} : ReadError(issued)
    BY <1>4, Zenon
  <2>2. /\ phase = "running" /\ phase' = phase /\ UNCHANGED <<slots, hid>>
        /\ reads[1].status = "error" /\ ScheduleNextRead(<<>>, issued)
    BY <1>1, <2>1 DEF ReadError
  <2>3. Pending = frames
    BY <2>2 DEF Pending
  <2>4. Pending' = frames
    BY <1>3, <2>2
  <2> QED BY <1>1, <2>2, <2>3, <2>4 DEF FollowOK
<1>5. CASE \E issued \in {TRUE, sound}, created \in BOOLEAN : ReadSuccess(created, issued)
  <2>1. PICK issued \in {TRUE, sound}, created \in BOOLEAN : ReadSuccess(created, issued)
    BY <1>5
  <2> DEFINE f == buffer[LastBuffer]
  <2>2. /\ phase = "running" /\ phase' = phase /\ ScheduleNextRead(<<>>, issued)
        /\ reads[1].status = "success" /\ ProcessGIPFrame(f, created)
    BY <1>1, <2>1 DEF ReadSuccess
  <2>3. f \in Frame /\ frames \in Seq(Frame) /\ GamepadsOK
    BY <1>1, <2>2 DEF IInv, ReadsOK, PadsOK, DriverOK, GamepadsOK
  <2>4. Pending = <<f>> \o frames
    BY <1>1, <2>2 DEF Pending, IInv, ReadsOK
  <2>5. Pending' = frames
    BY <1>3, <2>2
  <2> HIDE DEF f
  <2>6. /\ Pending \in Seq(Frame) /\ Pending # <<>> /\ Pending[1] = f
        /\ Pending' = Tail(Pending)
    BY <2>3, <2>4, <2>5
  <2>7. ASSUME NEW c \in Client \cap Tracked, ~missed[c]
        PROVE  Followed(Pending', pads[c], slots'[c], hid'[c], c)
    <3>1. Followed(Pending, pads[c], slots[c], hid[c], c)
      BY <2>2, <2>7 DEF FollowOK
    <3>2. CASE f.client # c
      <4>1. slots'[c] = slots[c] /\ hid'[c] = hid[c]
        BY <2>2, <2>3, <3>2, FrameSpares
      <4>2. f \notin About(c)
        BY <3>2 DEF About
      <4> QED BY <2>6, <3>1, <4>1, <4>2, OtherLeaves
    <3>3. CASE f.client = c
      <4>1. f \in About(c)
        BY <2>3, <3>3 DEF About
      <4>2. \A r, n : Knows(slots[c], hid[c], r) /\ <<r, f, n>> \in Steps => Knows(slots'[c], hid'[c], n)
        BY <2>2, <2>3, <3>3, FrameTells
      <4>3. \A n : <<f, n>> \in Marks => Knows(slots'[c], hid'[c], n)
        BY <2>2, <2>3, <3>3, LossTells
      <4> QED BY <2>6, <3>1, <4>1, <4>2, <4>3, HeadLeaves
    <3> QED BY <3>2, <3>3
  <2> QED BY <1>1, <2>2, <2>7 DEF FollowOK
<1> QED BY <1>2, <1>4, <1>5 DEF HandleIncomingUSBData

\* In every state slots and gamepads agree with their controllers, but for what
\* is on its way.
THEOREM Following == Spec => []FollowOK
<1>1. Init => FollowOK
  BY DEF Init, FollowOK, OffPad
<1>2. IInv /\ FollowOK /\ [Next]_vars => FollowOK'
  <2> SUFFICES ASSUME IInv, FollowOK, [Next]_vars PROVE FollowOK'
    OBVIOUS
  <2>1. CASE \E c \in Client : PadStep(c)
    BY <2>1, PadFollowed
  <2>2. CASE Fill
    BY <2>2, FillFollowed
  <2>3. CASE FailRead
    BY <2>3, FailFollowed
  <2>4. CASE Attach
    BY <2>4, AttachFollowed
  <2>5. CASE StageDone
    BY <2>5, DoneFollowed
  <2>6. CASE StageFails \/ Stop
    BY <2>6, FreedFollowed DEF StageFails, Stop
  <2>7. CASE HandleIncomingUSBData
    BY <2>7, CompletionFollowed
  <2>8. CASE UNCHANGED vars
    <3>1. Pending' = Pending
      BY <2>8 DEF vars, padVars, Pending
    <3> QED BY <2>8, <3>1 DEF vars, padVars, FollowOK
  <2> QED BY <2>1, <2>2, <2>3, <2>4, <2>5, <2>6, <2>7, <2>8 DEF Next
<1> QED BY <1>1, <1>2, Invariance, PTL DEF Spec

\* Once nothing about a controller is on its way, the driver's slot is that of
\* the controller and its gamepad shows the guide button and the last report.
THEOREM ControllersAreFollowed == Spec => []DriverFollowsControllers
<1>1. IInv /\ FollowOK => DriverFollowsControllers
  <2> SUFFICES ASSUME IInv, FollowOK, NEW c \in Client \cap Tracked,
                      phase = "running", Quiet(c), ~missed[c]
               PROVE  Knows(slots[c], hid[c], pads[c])
    BY DEF DriverFollowsControllers, Knows
  <2>1. Pending \in Seq(Frame) /\ frames \in Seq(Frame)
    BY PendingFrames DEF IInv, PadsOK
  <2>2. \A i \in 1 .. Len(Pending) : Pending[i].client # c
    <3>1. CASE reads # <<>> /\ reads[1].status = "success"
      <4> DEFINE b == buffer[reads[1].buffer]
      <4>1. Pending = <<b>> \o frames
        BY <3>1 DEF Pending
      <4>2. b.client # c
        BY <3>1 DEF Quiet, IInv, ReadsOK
      <4>3. \A i \in 1 .. Len(frames) : frames[i].client # c
        BY <2>1 DEF Quiet
      <4> HIDE DEF b
      <4>4. \A i \in 1 .. Len(Pending) : Pending[i] = IF i = 1 THEN b ELSE frames[i - 1]
        BY <2>1, <4>1
      <4>5. Len(Pending) = Len(frames) + 1
        BY <2>1, <4>1
      <4>6. ASSUME NEW i \in 1 .. Len(Pending) PROVE Pending[i].client # c
        <5>1. CASE i = 1
          BY <4>2, <4>4, <5>1
        <5>2. CASE i # 1
          <6>1. i - 1 \in 1 .. Len(frames)
            BY <2>1, <4>5, <5>2
          <6> QED BY <4>3, <4>4, <5>2, <6>1
        <5> QED BY <5>1, <5>2
      <4> QED BY <4>6
    <3>2. CASE ~(reads # <<>> /\ reads[1].status = "success")
      <4>1. Pending = frames
        BY <3>2, Zenon DEF Pending
      <4> QED BY <2>1, <4>1 DEF Quiet
    <3> QED BY <3>1, <3>2
  <2>3. \A i \in 1 .. Len(Pending) : Pending[i] \notin About(c)
    BY <2>2 DEF About
  <2>4. Followed(Pending, pads[c], slots[c], hid[c], c)
    BY DEF FollowOK
  <2>5. pads[c] \in {r \in PadState : Knows(slots[c], hid[c], r)}
    BY <2>1, <2>3, <2>4, FollowsToEnd DEF Followed
  <2> QED BY <2>5
<1> QED BY <1>1, Invariance, Following, PTL
=============================================================================
