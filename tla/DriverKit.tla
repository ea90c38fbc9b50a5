----------------------------- MODULE DriverKit -----------------------------
(***************************************************************************)
(* The DriverKit driver (XboxOneWirelessDriver.cpp): its staged start, the *)
(* stop, the asynchronous read loop over two buffers and the controller    *)
(* slots that follow the dongle's frames.  Start, Stop and the completion  *)
(* handler run on one serial queue; controllers, dongle and USB stack go   *)
(* on between any two of their steps, and complete or abort the reads.     *)
(***************************************************************************)
EXTENDS GipInput

CONSTANTS
  MaxControllers,  \* MAX_CONTROLLERS
  Client,          \* the ids of the controllers in use
  Inputs,          \* the states of their buttons and sticks that controllers report
  NoInput,         \* a controller that has reported nothing yet
  NoDevice,        \* no HID device for the slot
  NoFrame,         \* a buffer that no read has filled
  QueueBound       \* how many frames wait in the dongle

ASSUME DriverKitAssumption ==
  /\ MaxControllers \in Nat \ {0} /\ QueueBound \in Nat \ {0}
  /\ Client \subseteq 1 .. MaxControllers
  /\ Inputs \subseteq GipState /\ NoInput \notin Inputs

\* the ids the driver's arrays have room for; controllers' begin at 1
Tracked == 0 .. MaxControllers - 1

VARIABLES
  pads,       \* the controllers: switched on, guide button held, state last reported
  frames,     \* frames in the dongle that no read has taken
  awake,      \* whether the dongle forwards frames
  missed,     \* controllers of which a frame was lost since they last went off
  phase,      \* "idle", "starting", "running", "stopped", "failed" or "crashed"
  stage,      \* how many stages of Start are done
  owned,      \* what the driver has retained or opened
  index,      \* mInBufferIndex, of which only the lowest bit is used
  buffer,     \* mInBuffer: the frame each holds
  reads,      \* the reads issued: their buffer, and how they came back
  slots,      \* mSlots
  hid,        \* mHIDDevices: the report each has posted last, at first ZeroReport
  sound       \* whether every read can be issued

padVars == <<pads, awake, frames, missed>>
vars == <<padVars, phase, stage, owned, index, buffer, reads, slots, hid, sound>>

Stages == <<"super", "device", "queue", "open", "interface", "inPipe", "outPipe",
            "buffer0", "buffer1", "action", "wake", "read">>

EmptySlot == [connected |-> FALSE, initialized |-> FALSE, guidePressed |-> FALSE]
OffPad    == [on |-> FALSE, guide |-> FALSE, state |-> NoInput]

Init ==
  /\ pads = [c \in Client |-> OffPad]
  /\ frames = <<>> /\ awake = FALSE
  /\ missed = [c \in Client |-> FALSE]
  /\ phase = "idle" /\ stage = 0 /\ owned = {} /\ index = 0
  /\ buffer = [b \in {0, 1} |-> NoFrame]
  /\ reads = <<>>
  /\ slots = [c \in Tracked |-> EmptySlot]
  /\ hid = [c \in Tracked |-> NoDevice]
  /\ sound \in BOOLEAN

-----------------------------------------------------------------------------
(* Controllers and dongle.  Frames that the driver answers at most with an *)
(* acknowledgement are left out, and so are the acknowledgements.          *)

\* the dongle queues a frame, or drops it while it sleeps or is full
Emit(f) ==
  LET taken == awake /\ Len(frames) < QueueBound
  IN  /\ frames' = IF taken THEN Append(frames, f) ELSE frames
      /\ missed' = [missed EXCEPT ![f.client] = ~taken \/ (@ /\ f.kind # "lost")]

Pad(c) ==
  /\ \/ /\ ~pads[c].on
        /\ pads' = [pads EXCEPT ![c].on = TRUE]
        /\ Emit([kind |-> "added", client |-> c])
     \/ /\ pads[c].on
        /\ pads' = [pads EXCEPT ![c] = OffPad]
        /\ Emit([kind |-> "lost", client |-> c])
     \/ /\ pads[c].on
        /\ pads' = [pads EXCEPT ![c].guide = ~@]
        /\ Emit([kind |-> "guide", client |-> c, pressed |-> ~pads[c].guide])
     \/ /\ pads[c].on
        /\ \E g \in Inputs :
             /\ pads' = [pads EXCEPT ![c].state = g]
             /\ Emit([kind |-> "input", client |-> c, gip |-> g])
     \/ /\ pads[c].on
        /\ Emit([kind |-> "announce", client |-> c])
        /\ UNCHANGED pads

PadStep(c) ==
  /\ Pad(c)
  /\ UNCHANGED <<awake, phase, stage, owned, index, buffer, reads, slots, hid, sound>>

\* the first read that is still out
Armed == {i \in DOMAIN reads : reads[i].status = "armed"}
First == CHOOSE i \in Armed : \A j \in Armed : i <= j

\* the read takes the next frame
Fill ==
  /\ Armed # {} /\ frames # <<>>
  /\ buffer' = [buffer EXCEPT ![reads[First].buffer] = Head(frames)]
  /\ reads' = [reads EXCEPT ![First].status = "success"]
  /\ frames' = Tail(frames)
  /\ UNCHANGED <<pads, awake, missed, phase, stage, owned, index, slots, hid, sound>>

\* the transfer fails, and may take the frame with it
FailRead ==
  /\ Armed # {} /\ phase = "running"
  /\ reads' = [reads EXCEPT ![First].status = "error"]
  /\ \/ UNCHANGED <<frames, missed>>
     \/ /\ frames # <<>>
        /\ frames' = Tail(frames)
        /\ missed' = [missed EXCEPT ![Head(frames).client] = TRUE]
  /\ UNCHANGED <<pads, awake, phase, stage, owned, index, buffer, slots, hid, sound>>

-----------------------------------------------------------------------------
(* Start and stop.                                                         *)

\* the system matches a new driver with the dongle
Attach ==
  /\ phase \in {"idle", "stopped", "failed", "crashed"}
  /\ phase' = "starting"
  /\ reads' = <<>>
  /\ missed' = [c \in Client |-> pads[c].on]
  /\ sound' \in BOOLEAN
  /\ UNCHANGED <<pads, awake, frames, stage, owned, index, buffer, slots, hid>>

\* mutant: the interface stays open
ReleaseKeepsInterface ==
  /\ owned' = owned \cap {"interface"}
  /\ hid' = [c \in Tracked |-> NoDevice]
  /\ reads' = <<>>
  /\ buffer' = [b \in {0, 1} |-> NoFrame]

\* What Stop releases.  The reads still out come back as aborted; the driver
\* object is freed with its slots, and nobody hears the dongle until another
\* has woken it.
Release ==
  /\ owned' = {}
  /\ hid' = [c \in Tracked |-> NoDevice]
  /\ reads' = [i \in DOMAIN reads |->
                 IF reads[i].status = "armed" THEN [reads[i] EXCEPT !.status = "aborted"] ELSE reads[i]]
  /\ buffer' = [b \in {0, 1} |-> NoFrame]

Freed ==
  /\ stage' = 0 /\ index' = 0
  /\ slots' = [c \in Tracked |-> EmptySlot]
  /\ awake' = FALSE /\ frames' = <<>>
  /\ missed' = [c \in Client |-> TRUE]
  /\ UNCHANGED <<pads, sound>>

Stop ==
  /\ phase = "running"
  /\ phase' = "stopped"
  /\ Release
  /\ Freed

\* mutant: the index is not masked
ScheduleNextReadUnmasked(out, issued) ==
  /\ index' = index + 1
  /\ buffer' = IF issued THEN [buffer EXCEPT ![index] = NoFrame] ELSE buffer
  /\ reads' = IF issued THEN Append(out, [buffer |-> index, status |-> "armed"]) ELSE out

\* ScheduleNextRead, behind the reads that are out already; what its buffer
\* holds is the USB stack's from then on
ScheduleNextRead(out, issued) ==
  /\ index' = (index + 1) % 2
  /\ buffer' = IF issued THEN [buffer EXCEPT ![index] = NoFrame] ELSE buffer
  /\ reads' = IF issued THEN Append(out, [buffer |-> index, status |-> "armed"]) ELSE out

\* one stage of Start succeeds; a stage that retains or opens nothing owns nothing
StageDone ==
  /\ phase = "starting"
  /\ LET this == Stages[stage + 1]
     IN  /\ stage' = stage + 1
         /\ owned' = owned \cup ({this} \ {"super", "wake", "read"})
         /\ awake' = (awake \/ this = "wake")
         /\ IF this = "read"
            THEN phase' = "running" /\ ScheduleNextRead(reads, TRUE)
            ELSE UNCHANGED <<phase, index, buffer, reads>>
  /\ UNCHANGED <<pads, frames, missed, slots, hid, sound>>

\* The first two return at once, the others through Stop.
StageFails ==
  /\ phase = "starting"
  /\ phase' = "failed"
  /\ IF Stages[stage + 1] \in {"super", "device"}
     THEN UNCHANGED <<owned, hid, reads, buffer>>
     ELSE Release
  /\ Freed

-----------------------------------------------------------------------------
(* Frames.                                                                 *)

GipToReport(g) == GipToHid([g EXCEPT !.buttons = @ \ {"sync"}], FALSE)

Neutral == [ZeroReport EXCEPT !.hat = 8]

HandleControllerAnnounce(c, created) ==
  IF slots[c].connected THEN UNCHANGED <<slots, hid>> ELSE
  /\ slots' = [slots EXCEPT ![c] = [connected |-> TRUE, initialized |-> TRUE, guidePressed |-> FALSE]]
  /\ hid' = IF hid[c] = NoDevice /\ created THEN [hid EXCEPT ![c] = ZeroReport] ELSE hid

HandleControllerInput(c, g) ==
  /\ hid' = IF slots[c].connected /\ hid[c] # NoDevice
            THEN [hid EXCEPT ![c] = WithGuide(GipToReport(g), slots[c].guidePressed)]
            ELSE hid
  /\ UNCHANGED slots

\* with PostHIDReport
HandleGuideButton(c, pressed) ==
  /\ slots' = [slots EXCEPT ![c].guidePressed = pressed]
  /\ hid' = IF hid[c] # NoDevice THEN [hid EXCEPT ![c] = WithGuide(Neutral, pressed)] ELSE hid

\* mutants: the slot stays connected; the device is kept for the next
\* controller
HandleControllerDisconnectKeepsSlot(c) ==
  /\ hid' = [hid EXCEPT ![c] = NoDevice]
  /\ UNCHANGED slots

HandleControllerDisconnectKeepsDevice(c) ==
  /\ slots' = [slots EXCEPT ![c] = EmptySlot]
  /\ UNCHANGED hid

HandleControllerDisconnect(c) ==
  /\ slots' = [slots EXCEPT ![c] = EmptySlot]
  /\ hid' = [hid EXCEPT ![c] = NoDevice]

\* A client beyond the arrays is ignored by each handler; what is read beyond
\* mSlots for its announce does not matter.
ProcessGIPFrame(f, created) ==
  IF f.client \notin Tracked THEN UNCHANGED <<slots, hid>> ELSE
  CASE f.kind = "added" -> HandleControllerAnnounce(f.client, created)
    [] f.kind = "lost" -> HandleControllerDisconnect(f.client)
    [] f.kind = "announce" ->
         IF slots[f.client].initialized THEN UNCHANGED <<slots, hid>>
         ELSE HandleControllerAnnounce(f.client, created)
    [] f.kind = "input" -> HandleControllerInput(f.client, f.gip)
    [] f.kind = "guide" -> HandleGuideButton(f.client, f.pressed)

-----------------------------------------------------------------------------
(* HandleIncomingUSBData, for the completion at the head of the queue.     *)

LastBuffer == (index + 1) % 2

\* nothing is read any more
ReadAborted ==
  /\ Head(reads).status = "aborted"
  /\ reads' = Tail(reads)
  /\ UNCHANGED <<phase, index, buffer, slots, hid>>

\* The read had come back before Stop aborted what was out; the handler uses
\* a pipe and buffers that Stop has released.
ReadAfterStop ==
  /\ Head(reads).status # "aborted" /\ phase # "running"
  /\ phase' = "crashed"
  /\ reads' = Tail(reads)
  /\ UNCHANGED <<index, buffer, slots, hid>>

\* mutant: an error ends the loop
ReadErrorGivesUp(issued) ==
  /\ Head(reads).status = "error" /\ phase = "running"
  /\ reads' = Tail(reads)
  /\ UNCHANGED <<phase, index, buffer, slots, hid>>

ReadError(issued) ==
  /\ Head(reads).status = "error" /\ phase = "running"
  /\ ScheduleNextRead(Tail(reads), issued)
  /\ UNCHANGED <<phase, slots, hid>>

ReadSuccess(created, issued) ==
  /\ Head(reads).status = "success" /\ phase = "running"
  /\ ProcessGIPFrame(buffer[LastBuffer], created)
  /\ ScheduleNextRead(Tail(reads), issued)
  /\ UNCHANGED phase

HandleIncomingUSBData ==
  /\ reads # <<>> /\ Head(reads).status # "armed" /\ phase # "starting"
  /\ \/ ReadAborted
     \/ ReadAfterStop
     \/ \E issued \in {TRUE, sound} : ReadError(issued)
     \/ \E issued \in {TRUE, sound}, created \in BOOLEAN : ReadSuccess(created, issued)
  /\ UNCHANGED <<padVars, stage, owned, sound>>

Next ==
  \/ \E c \in Client : PadStep(c)
  \/ Fill \/ FailRead
  \/ Attach \/ StageDone \/ StageFails \/ Stop
  \/ HandleIncomingUSBData

Spec == Init /\ [][Next]_vars /\ SF_vars(Fill) /\ WF_vars(HandleIncomingUSBData)

-----------------------------------------------------------------------------
(* The controllers' reports are ones they have made, the driver's state is *)
(* of its types.                                                           *)
TypeOK ==
  /\ \A c \in Client : pads[c].state \in Inputs \cup {NoInput}
  /\ Len(frames) <= QueueBound
  /\ phase \in {"idle", "starting", "running", "stopped", "failed", "crashed"}
  /\ index \in {0, 1}
  /\ \A c \in Tracked : hid[c] # NoDevice => hid[c].hat \in 0 .. 8

(* However a start ends or the driver is stopped, it keeps none of the     *)
(* device, interface, pipes, buffers and virtual gamepads: Start's failure *)
(* path is the whole Stop, run over what has been set up so far.           *)
StoppedHoldsNothing ==
  phase \in {"stopped", "failed", "crashed"} => owned = {} /\ \A c \in Tracked : hid[c] = NoDevice

(* The read loop: a read never goes into the buffer that is still to be    *)
(* handled, and a running driver has one read out at every time, whether   *)
(* the last came back with a frame or with an error, unless one could not  *)
(* be issued.                                                              *)
OneReadAtATime ==
  /\ Len(reads) <= 1
  /\ phase = "running" /\ sound => Len(reads) = 1

(* nothing about the controller is on its way *)
Quiet(c) ==
  /\ \A i \in DOMAIN frames : frames[i].client # c
  /\ \A i \in DOMAIN reads :
       reads[i].status = "success" => buffer[reads[i].buffer].client # c

(* What the dongle has told of a controller is what the driver holds: a    *)
(* slot for each controller that is on, its guide button, a device for     *)
(* none but those, and on the device the guide button and never a report   *)
(* of the buttons other than the last.                                     *)
DriverFollowsControllers ==
  \A c \in Client \cap Tracked :
    phase = "running" /\ Quiet(c) /\ ~missed[c] =>
      /\ slots[c].connected = pads[c].on
      /\ slots[c].guidePressed = pads[c].guide
      /\ hid[c] # NoDevice =>
           /\ pads[c].on
           /\ ("guide" \in hid[c].buttons) = pads[c].guide
           /\ hid[c] = WithGuide(Neutral, pads[c].guide) \/ hid[c] = ZeroReport
              \/ hid[c] = WithGuide(GipToReport(pads[c].state), pads[c].guide)

(* A virtual gamepad never outlives the slot it belongs to, also when      *)
(* frames are lost or a controller announces itself twice.                 *)
DeviceOnlyForConnected == \A c \in Tracked : hid[c] # NoDevice => slots[c].connected

(* A controller that has gone off loses its gamepad, as long as reads can  *)
(* be issued and its frame is not lost.                                    *)
LossReleasesDevice ==
  \A c \in Client \cap Tracked :
    (phase = "running" /\ sound /\ ~pads[c].on) ~>
      (phase # "running" \/ pads[c].on \/ missed[c] \/ hid[c] = NoDevice)
=============================================================================
