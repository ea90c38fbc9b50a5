-------------------------- MODULE Firmware_proofs ---------------------------
(***************************************************************************)
(* What the start of the daemon guarantees of the firmware in the dongle,  *)
(* proved for images of any length, any readers, and any order of kills,   *)
(* signals, unplugging and failing transfers.                              *)
(***************************************************************************)
EXTENDS Firmware, TLAPS

-----------------------------------------------------------------------------
(* The inductive invariant                                                 *)

Sound == conf.control = "sound"
Live  == Sound /\ handle = "live"

\* The dongle is open exactly between its opening and the end, and one that
\* went away is as after power-up: nothing reaches it through a dead handle.
HandleOpen ==
  /\ pc \in {"off", "wait", "reopen"} <=> handle = "none"
  /\ handle = "dead" => chip = PowerUp

\* What has reached the chip at each step of the upload.
UploadProgress ==
  Live =>
    /\ pc = "ivbreset" => chunk = 1
    /\ pc \in {"addr", "len", "bulk", "poll"} => 1 .. chunk - 1 \subseteq chip.mem
    /\ pc \in {"len", "bulk", "poll"} => chip.fce = chunk
    /\ pc = "bulk" => chip.len = "busy"
    /\ pc = "poll" => chip.len = "busy" \/ chunk \in chip.mem
    /\ pc \in {"zero", "ivb"} => chip.mem = Chunk

\* A start that follows no broken one has the whole image running.
StartingUnlessCut == Live /\ ~cut /\ pc \in Starting => Whole

IInv == /\ TypeOK
        /\ HandleOpen
        /\ UploadProgress
        /\ StartingUnlessCut
        /\ ForcedReloadRunsWholeImage
        /\ ResidentUnlessCut

-----------------------------------------------------------------------------
(* The constants and the primitives                                        *)

\* Chunks are numbered from one to the last; none is numbered like an address
\* of another kind; a size is none of the other states of the length.
LEMMA Chunks ==
  /\ Chunk \subseteq Nat \ {0}
  /\ 1 \in Chunk
  /\ Ilm + Dlm \in Chunk
  /\ 0 \notin Chunk /\ RadioAddress \notin Chunk /\ RadioAddress # 0
  /\ \A k \in Chunk : k = Ilm + Dlm \/ k + 1 \in Chunk
  /\ \A k \in Chunk : Size(k) \in {"full", "rest"}
  BY FirmwareAssumption DEF Chunk, RadioAddress, Size

\* A lost write changes nothing, one that is not lost what it should; writes
\* of a sound dongle that is there are not lost, those to a dead one are.
LEMMA Writes ==
  ASSUME NEW new, Written(new), TypeOK
  PROVE  /\ chip' = new \/ chip' = chip
         /\ Live => chip' = new
         /\ handle # "live" => chip' = chip
  BY DEF Written, Control, Live, Sound, TypeOK

-----------------------------------------------------------------------------
\* A chip after power-up is a chip, without chunks and without firmware.
LEMMA EmptyChip ==
  /\ PowerUp \in [fce : {0, RadioAddress} \cup Chunk, len : {"idle", "busy", "full", "rest"},
                  mem : SUBSET Chunk, runs : BOOLEAN]
  /\ PowerUp.fce = 0 /\ PowerUp.runs = FALSE
  BY DEF PowerUp

\* The invariant holds of a dongle after power-up before any process.
THEOREM Initially == Init => IInv
<1> SUFFICES ASSUME Init PROVE IInv
  OBVIOUS
<1>1. TypeOK
  BY Chunks, EmptyChip DEF Init, TypeOK, PC
<1>2. HandleOpen
  BY DEF Init, HandleOpen
<1>3. UploadProgress /\ StartingUnlessCut /\ ForcedReloadRunsWholeImage
  BY DEF Init, UploadProgress, StartingUnlessCut, ForcedReloadRunsWholeImage, Live, Starting
<1>4. ResidentUnlessCut
  BY EmptyChip DEF Init, ResidentUnlessCut
<1> QED BY <1>1, <1>2, <1>3, <1>4 DEF IInv

\* The end of a process: a start that is broken off is remembered.
LEMMA EndStep ==
  ASSUME IInv, End, UNCHANGED <<conf, chip>>, chunk' \in Chunk, running' \in BOOLEAN,
         present' \in BOOLEAN
  PROVE  IInv'
<1>1. TypeOK'
  <2>1. cut' \in BOOLEAN
    BY DEF End
  <2> QED BY <2>1 DEF IInv, End, TypeOK, PC
<1>2. HandleOpen'
  BY DEF End, HandleOpen
<1>3. UploadProgress' /\ StartingUnlessCut' /\ ForcedReloadRunsWholeImage'
  BY DEF End, UploadProgress, StartingUnlessCut, ForcedReloadRunsWholeImage, Live
<1>4. ResidentUnlessCut'
  <2> SUFFICES ASSUME Sound, ~cut'
               PROVE  IF chip.fce = 0 THEN ~chip.runs ELSE Whole
    BY DEF ResidentUnlessCut, Sound, Whole
  <2>1. /\ ~cut
        /\ pc \notin Uploading
        /\ pc \in Starting => chip.fce = RadioAddress
    BY DEF End
  <2>2. CASE pc \notin Starting
    BY <2>1, <2>2 DEF IInv, ResidentUnlessCut, Sound
  <2>3. CASE pc \in Starting
    <3>1. chip # PowerUp
      BY <2>1, <2>3, Chunks, EmptyChip
    <3>2. handle = "live"
      BY <2>3, <3>1 DEF IInv, HandleOpen, TypeOK, Starting
    <3> QED BY <2>1, <2>3, <3>2, Chunks DEF IInv, StartingUnlessCut, Live
  <2> QED BY <2>2, <2>3
<1> QED BY <1>1, <1>2, <1>3, <1>4 DEF IInv

\* Opening, resetting and claiming the dongle preserve the invariant.
LEMMA OpenStep == ASSUME IInv, Open PROVE IInv'
<1> USE DEF IInv
<1>1. CASE Start
  BY <1>1 DEF Start, Goto, TypeOK, PC, Uploading, Starting, HandleOpen, UploadProgress, StartingUnlessCut,
      ForcedReloadRunsWholeImage, ResidentUnlessCut, Live, Sound, Whole
<1>2. CASE Wait
  BY <1>2, EndStep DEF Wait, TypeOK, PC, Uploading, Starting, HandleOpen, UploadProgress, StartingUnlessCut,
      ForcedReloadRunsWholeImage, ResidentUnlessCut, Live, Sound, Whole
<1>3. CASE UsbReset
  <2>1. CASE Goto("claim") /\ UNCHANGED chip
    BY <1>3, <2>1 DEF UsbReset, Goto, TypeOK, PC, Uploading, Starting, HandleOpen, UploadProgress, StartingUnlessCut,
        ForcedReloadRunsWholeImage, ResidentUnlessCut, Live, Sound, Whole
  <2>2. CASE pc' = "reopen"
    <3>1. cut' \in BOOLEAN /\ (cut' <=> cut /\ chip' # PowerUp)
      BY <1>3, <2>2, Zenon DEF UsbReset, Goto
    <3>2. /\ chip' \in {chip, PowerUp} /\ handle' = "none"
          /\ UNCHANGED <<conf, present, running, chunk, readers>>
      BY <1>3, <2>2 DEF UsbReset, Goto
    <3>3. TypeOK'
      BY <2>2, <3>1, <3>2, EmptyChip DEF TypeOK, PC
    <3>4. ResidentUnlessCut'
      BY <1>3, <2>2, <3>1, <3>2, EmptyChip DEF UsbReset, ResidentUnlessCut, Uploading, Starting, Whole
    <3>5. HandleOpen'
      BY <2>2, <3>2 DEF HandleOpen
    <3>6. UploadProgress' /\ StartingUnlessCut' /\ ForcedReloadRunsWholeImage'
      BY <3>2 DEF UploadProgress, StartingUnlessCut, ForcedReloadRunsWholeImage, Live
    <3> QED BY <3>3, <3>4, <3>5, <3>6
  <2> QED BY <1>3, <2>1, <2>2 DEF UsbReset
<1>4. CASE Reopen
  BY <1>4, EndStep DEF Reopen, TypeOK, PC, Uploading, Starting, HandleOpen, UploadProgress, StartingUnlessCut,
      ForcedReloadRunsWholeImage, ResidentUnlessCut, Live, Sound, Whole
<1>5. CASE Claim
  BY <1>5, EndStep DEF Claim, Goto, TypeOK, PC, Uploading, Starting, HandleOpen, UploadProgress, StartingUnlessCut,
      ForcedReloadRunsWholeImage, ResidentUnlessCut, Live, Sound, Whole
<1> QED BY <1>1, <1>2, <1>3, <1>4, <1>5 DEF Open

\* A control write on the way from the upload's first step to the radio.
LEMMA WriteStep ==
  ASSUME IInv, NEW new, Written(new), NEW l \in PC \ {"off", "wait", "reopen"}, Goto(l),
         pc \notin {"off", "wait", "reopen"},
         new \in [fce : {0, RadioAddress} \cup Chunk, len : {"idle", "busy", "full", "rest"},
                  mem : SUBSET Chunk, runs : BOOLEAN],
         UNCHANGED <<conf, present, running, chunk>>
  PROVE  /\ TypeOK' /\ HandleOpen'
         /\ Live' => Live /\ chip' = new
         /\ handle' = handle /\ cut' = cut
         /\ chip' = new \/ chip' = chip
<1>1. /\ chip' = new \/ chip' = chip
      /\ Live => chip' = new
      /\ handle # "live" => chip' = chip
  BY Writes DEF IInv
<1>2. TypeOK'
  BY <1>1 DEF IInv, TypeOK, Goto
<1>3. HandleOpen'
  BY <1>1 DEF IInv, HandleOpen, Goto
<1> QED BY <1>1, <1>2, <1>3 DEF Goto, Live, Sound

\* Every step of the upload preserves it.
LEMMA UploadStep == ASSUME IInv, Upload PROVE IInv'
<1> USE DEF IInv
<1>1. CASE CheckLoaded
  <2>1. CASE End
    <3>1. UNCHANGED <<conf, present, chip, running>> /\ chunk' = 1
      BY <1>1 DEF CheckLoaded
    <3> QED BY <2>1, <3>1, EndStep, Chunks DEF TypeOK
  <2>2. CASE \E fce \in FceReads : Goto(CASE fce = 0 -> "addr"
                 [] fce # 0 /\ conf.force -> "ivbreset" [] OTHER -> "started")
    <3>1. PICK fce \in FceReads : Goto(CASE fce = 0 -> "addr"
                 [] fce # 0 /\ conf.force -> "ivbreset" [] OTHER -> "started")
      BY <2>2
    <3>2. /\ UNCHANGED <<conf, present, chip, running, handle, readers, cut>>
          /\ pc = "check" /\ chunk' = 1
          /\ pc' = "addr" \/ pc' = "ivbreset" \/ (pc' = "started" /\ fce # 0 /\ ~conf.force)
      BY <1>1, <3>1 DEF CheckLoaded, Goto
    <3>3. Live => fce = chip.fce
      BY DEF FceReads, Control, Live, Sound
    <3>4. TypeOK' /\ HandleOpen'
      BY <3>2, Chunks DEF TypeOK, PC, Uploading, Starting, HandleOpen
    <3>5. UploadProgress'
      BY <3>2 DEF UploadProgress
    <3>6. StartingUnlessCut' /\ ForcedReloadRunsWholeImage' /\ ResidentUnlessCut'
      BY <3>2, <3>3 DEF StartingUnlessCut, ForcedReloadRunsWholeImage, ResidentUnlessCut, Uploading,
          Starting, Live, Sound, Whole
    <3> QED BY <3>4, <3>5, <3>6
  <2> QED BY <1>1, <2>1, <2>2 DEF CheckLoaded
<1>2. CASE ResetIvb
  <2> DEFINE new == [chip EXCEPT !.runs = FALSE]
  <2>0. new \in [fce : {0, RadioAddress} \cup Chunk, len : {"idle", "busy", "full", "rest"},
                mem : SUBSET Chunk, runs : BOOLEAN]
    BY DEF TypeOK
  <2>1. /\ TypeOK' /\ HandleOpen'
        /\ Live' => Live /\ chip' = new
        /\ handle' = handle /\ cut' = cut
    BY <1>2, <2>0, WriteStep DEF ResetIvb, TypeOK, PC, Uploading
  <2>2. UploadProgress'
    <3>1. Live' => chunk = 1
      BY <1>2, <2>1 DEF ResetIvb, UploadProgress
    <3> QED BY <1>2, <3>1 DEF ResetIvb, Goto, UploadProgress, TypeOK
  <2>3. StartingUnlessCut' /\ ForcedReloadRunsWholeImage' /\ ResidentUnlessCut'
    BY <1>2 DEF ResetIvb, Goto, StartingUnlessCut, ForcedReloadRunsWholeImage, ResidentUnlessCut,
        Uploading, Starting
  <2> QED BY <2>1, <2>2, <2>3
<1>3. CASE WriteAddress
  <2> DEFINE new == [chip EXCEPT !.fce = chunk]
  <2>1. /\ TypeOK' /\ HandleOpen'
        /\ Live' => Live /\ chip' = new
    BY <1>3, WriteStep DEF WriteAddress, TypeOK, PC, Uploading
  <2>2. UploadProgress'
    BY <1>3, <2>1 DEF WriteAddress, Goto, UploadProgress, TypeOK
  <2>3. StartingUnlessCut' /\ ForcedReloadRunsWholeImage' /\ ResidentUnlessCut'
    BY <1>3 DEF WriteAddress, Goto, StartingUnlessCut, ForcedReloadRunsWholeImage, ResidentUnlessCut,
        Uploading, Starting
  <2> QED BY <2>1, <2>2, <2>3
<1>4. CASE WriteLength
  <2> DEFINE new == [chip EXCEPT !.len = "busy"]
  <2>1. /\ TypeOK' /\ HandleOpen'
        /\ Live' => Live /\ chip' = new
    BY <1>4, WriteStep DEF WriteLength, TypeOK, PC, Uploading
  <2>2. UploadProgress'
    BY <1>4, <2>1 DEF WriteLength, Goto, UploadProgress, TypeOK
  <2>3. StartingUnlessCut' /\ ForcedReloadRunsWholeImage' /\ ResidentUnlessCut'
    BY <1>4 DEF WriteLength, Goto, StartingUnlessCut, ForcedReloadRunsWholeImage, ResidentUnlessCut,
        Uploading, Starting
  <2> QED BY <2>1, <2>2, <2>3
<1>5. CASE SendChunk
  <2>1. CASE UNCHANGED chip /\ End
    BY <1>5, <2>1, EndStep DEF SendChunk, TypeOK
  <2>2. CASE handle = "live" /\ chip' \in {Stored, chip} /\ Goto("poll")
    <3>1. Stored \in [fce : {0, RadioAddress} \cup Chunk, len : {"idle", "busy", "full", "rest"},
                     mem : SUBSET Chunk, runs : BOOLEAN]
      BY Chunks, ZenonT(60) DEF Stored, TypeOK
    <3>2. TypeOK'
      BY <1>5, <2>2, <3>1 DEF SendChunk, Goto, TypeOK, PC, Uploading
    <3>3. HandleOpen'
      BY <1>5, <2>2 DEF SendChunk, Goto, HandleOpen
    <3>4. UploadProgress'
      <4>1. SUFFICES ASSUME Live
                     PROVE  /\ 1 .. chunk - 1 \subseteq chip'.mem
                            /\ chip'.fce = chunk
                            /\ chip'.len = "busy" \/ chunk \in chip'.mem
        BY <1>5, <2>2 DEF SendChunk, Goto, UploadProgress, Live, Sound
      <4>2. /\ 1 .. chunk - 1 \subseteq chip.mem
            /\ chip.fce = chunk /\ chip.len = "busy"
        BY <1>5, <4>1 DEF SendChunk, UploadProgress
      <4>3. Stored.mem = chip.mem \cup {chunk} /\ Stored.fce = chip.fce
        BY <4>2 DEF Stored, TypeOK
      <4> QED BY <2>2, <4>2, <4>3
    <3>5. StartingUnlessCut' /\ ForcedReloadRunsWholeImage' /\ ResidentUnlessCut'
      BY <1>5, <2>2 DEF SendChunk, Goto, StartingUnlessCut, ForcedReloadRunsWholeImage,
          ResidentUnlessCut, Uploading, Starting
    <3> QED BY <3>2, <3>3, <3>4, <3>5
  <2> QED BY <1>5, <2>1, <2>2 DEF SendChunk
<1>6. CASE PollChunk
  <2>1. CASE End /\ UNCHANGED chunk
    BY <1>6, <2>1, EndStep DEF PollChunk, TypeOK
  <2>2. CASE Done /\ Continue(Ilm + Dlm)
    <3>1. TypeOK' /\ HandleOpen'
      BY <1>6, <2>2, Chunks DEF PollChunk, Continue, Goto, TypeOK, PC, Uploading, HandleOpen
    <3>2. UploadProgress'
      <4>1. Live' => 1 .. chunk \subseteq chip.mem
        <5>1. SUFFICES ASSUME Live PROVE 1 .. chunk \subseteq chip.mem
          BY <1>6, <2>2 DEF PollChunk, Continue, Goto, Live, Sound
        <5>2. chunk \in chip.mem /\ 1 .. chunk - 1 \subseteq chip.mem
          BY <1>6, <2>2, <5>1, Chunks DEF PollChunk, Done, Size, UploadProgress, TypeOK
        <5> QED BY <5>2, Chunks DEF TypeOK
      <4>2. CASE chunk = Ilm + Dlm
        <5>1. pc' = "zero" /\ chip' = chip /\ chip.mem \subseteq Chunk
          BY <1>6, <2>2, <4>2 DEF PollChunk, Continue, Goto, TypeOK
        <5>2. 1 .. chunk = Chunk
          BY <4>2 DEF Chunk
        <5> QED BY <4>1, <5>1, <5>2 DEF UploadProgress
      <4>3. CASE chunk # Ilm + Dlm
        <5>1. pc' = "addr" /\ chip' = chip /\ chunk' = chunk + 1
          BY <1>6, <2>2, <4>3 DEF PollChunk, Continue, Goto
        <5>2. 1 .. (chunk + 1) - 1 = 1 .. chunk
          BY Chunks DEF TypeOK
        <5> QED BY <4>1, <5>1, <5>2 DEF UploadProgress
      <4> QED BY <4>2, <4>3
    <3>3. StartingUnlessCut' /\ ForcedReloadRunsWholeImage' /\ ResidentUnlessCut'
      BY <1>6, <2>2 DEF PollChunk, Continue, Goto, StartingUnlessCut, ForcedReloadRunsWholeImage,
          ResidentUnlessCut, Uploading, Starting
    <3> QED BY <3>1, <3>2, <3>3
  <2> QED BY <1>6, <2>1, <2>2 DEF PollChunk
<1>7. CASE ClearAddress
  <2> DEFINE new == [chip EXCEPT !.fce = 0]
  <2>1. /\ TypeOK' /\ HandleOpen'
        /\ Live' => Live /\ chip' = new
    BY <1>7, WriteStep DEF ClearAddress, TypeOK, PC, Uploading
  <2>2. UploadProgress'
    BY <1>7, <2>1 DEF ClearAddress, Goto, UploadProgress, TypeOK
  <2>3. StartingUnlessCut' /\ ForcedReloadRunsWholeImage' /\ ResidentUnlessCut'
    BY <1>7 DEF ClearAddress, Goto, StartingUnlessCut, ForcedReloadRunsWholeImage, ResidentUnlessCut,
        Uploading, Starting
  <2> QED BY <2>1, <2>2, <2>3
<1>8. CASE LoadIvb
  <2> DEFINE new == [chip EXCEPT !.runs = TRUE]
  <2>0. new \in [fce : {0, RadioAddress} \cup Chunk, len : {"idle", "busy", "full", "rest"},
                mem : SUBSET Chunk, runs : BOOLEAN]
    BY DEF TypeOK
  <2>1. /\ TypeOK' /\ HandleOpen'
        /\ Live' => Live /\ chip' = new
    BY <1>8, <2>0, WriteStep DEF LoadIvb, TypeOK, PC, Uploading, Starting
  <2>2. UploadProgress'
    BY <1>8, <2>1 DEF LoadIvb, Goto, UploadProgress
  <2>3. Live' => Whole'
    BY <1>8, <2>1 DEF LoadIvb, UploadProgress, Whole, TypeOK
  <2>4. StartingUnlessCut' /\ ForcedReloadRunsWholeImage' /\ ResidentUnlessCut'
    BY <1>8, <2>3 DEF LoadIvb, Goto, StartingUnlessCut, ForcedReloadRunsWholeImage, ResidentUnlessCut,
        Uploading, Starting, Live, Sound
  <2> QED BY <2>1, <2>2, <2>4
<1> QED BY <1>1, <1>2, <1>3, <1>4, <1>5, <1>6, <1>7, <1>8 DEF Upload

\* The start of the radio preserves it.
LEMMA RadioStep == ASSUME IInv, Radio PROVE IInv'
<1> USE DEF IInv
<1>1. CASE CheckAsic
  <2>1. CASE End
    BY <1>1, <2>1, EndStep DEF CheckAsic, TypeOK
  <2>2. CASE Goto("registers")
    BY <1>1, <2>2 DEF CheckAsic, Goto, TypeOK, PC, Uploading, Starting, HandleOpen, UploadProgress,
        StartingUnlessCut, ForcedReloadRunsWholeImage, ResidentUnlessCut, Live, Sound, Whole
  <2> QED BY <1>1, <2>1, <2>2 DEF CheckAsic
<1>2. CASE InitRegisters
  <2> DEFINE new == [chip EXCEPT !.fce = RadioAddress]
  <2>0. new \in [fce : {0, RadioAddress} \cup Chunk, len : {"idle", "busy", "full", "rest"},
                mem : SUBSET Chunk, runs : BOOLEAN]
    BY DEF TypeOK
  <2>1. /\ TypeOK' /\ HandleOpen'
        /\ Live' => Live /\ chip' = new
        /\ handle' = handle /\ cut' = cut
    BY <1>2, <2>0, WriteStep DEF InitRegisters, PC, Uploading, Starting
  <2>2. UploadProgress' /\ StartingUnlessCut'
    BY <1>2 DEF InitRegisters, Goto, UploadProgress, StartingUnlessCut, Starting
  <2>3. Live' /\ Whole => Whole'
    BY <2>1 DEF Whole, TypeOK
  <2>4. ForcedReloadRunsWholeImage'
    BY <1>2, <2>1, <2>3 DEF InitRegisters, Goto, ForcedReloadRunsWholeImage, Live, Sound, Starting
  <2>5. ResidentUnlessCut'
    <3>1. SUFFICES ASSUME Sound, ~cut
                   PROVE  IF chip'.fce = 0 THEN ~chip'.runs ELSE Whole'
      BY <1>2 DEF InitRegisters, Goto, ResidentUnlessCut, Sound
    <3>2. CASE Live
      BY <1>2, <2>1, <2>3, <3>1, <3>2, Chunks DEF InitRegisters, Goto, StartingUnlessCut, Starting,
          Live, Sound, TypeOK
    <3>3. CASE handle = "dead"
      BY <2>1, <3>3, EmptyChip DEF HandleOpen
    <3> QED BY <1>2, <3>1, <3>2, <3>3 DEF InitRegisters, Live, HandleOpen, TypeOK
  <2> QED BY <2>1, <2>2, <2>4, <2>5
<1>3. CASE Tune
  <2>1. CASE End
    BY <1>3, <2>1, EndStep DEF Tune, TypeOK
  <2>2. CASE pc' = "ready"
    BY <1>3, <2>2, EndStep DEF Tune, TypeOK, PC, Uploading, Starting, HandleOpen, UploadProgress,
        StartingUnlessCut, ForcedReloadRunsWholeImage, ResidentUnlessCut, Live, Sound, Whole, End
  <2> QED BY <1>3, <2>1, <2>2 DEF Tune
<1> QED BY <1>1, <1>2, <1>3 DEF Radio

\* The orderly end of a process preserves it.
LEMMA CloseStep == ASSUME IInv, Close PROVE IInv'
<1> USE DEF IInv
<1>1. CASE Leave
  BY <1>1 DEF Leave, Goto, TypeOK, PC, Uploading, Starting, HandleOpen, UploadProgress,
      StartingUnlessCut, ForcedReloadRunsWholeImage, ResidentUnlessCut, Live, Sound, Whole
<1>2. CASE Join
  BY <1>2, EndStep DEF Join, TypeOK
<1> QED BY <1>1, <1>2 DEF Close

\* What the invariant says depends on neither the readers nor g_running.
LEMMA StillStep ==
  ASSUME IInv, UNCHANGED <<conf, chip, pc, handle, chunk, cut>>, TypeOK'
  PROVE  IInv'
<1>1. HandleOpen'
  BY DEF IInv, HandleOpen
<1>2. UploadProgress'
  BY DEF IInv, UploadProgress, Live, Sound
<1>3. StartingUnlessCut' /\ ForcedReloadRunsWholeImage' /\ ResidentUnlessCut'
  BY DEF IInv, StartingUnlessCut, ForcedReloadRunsWholeImage, ResidentUnlessCut, Live, Sound, Whole
<1> QED BY <1>1, <1>2, <1>3 DEF IInv

\* Nor does any type.
LEMMA StillTyped ==
  ASSUME TypeOK, UNCHANGED <<conf, chip, pc, handle, chunk, cut>>,
         running' \in BOOLEAN, present' \in BOOLEAN, readers' \subseteq Reader
  PROVE  TypeOK'
<1>1. /\ conf' = conf /\ chip' = chip /\ pc' = pc /\ handle' = handle /\ chunk' = chunk
      /\ cut' = cut
  OBVIOUS
<1>2. cut' \in BOOLEAN /\ conf' \in [force : BOOLEAN, reset : BOOLEAN, control : Controls]
  BY <1>1, Zenon DEF TypeOK
<1>3. /\ chip' \in [fce : {0, RadioAddress} \cup Chunk,
                  len : {"idle", "busy", "full", "rest"},
                  mem : SUBSET Chunk, runs : BOOLEAN]
      /\ pc' \in PC /\ handle' \in {"none", "live", "dead"} /\ chunk' \in Chunk
  BY <1>1, Zenon DEF TypeOK
<1> QED BY <1>2, <1>3, Zenon DEF TypeOK

\* So do the reader threads.
LEMMA ReaderStep ==
  ASSUME IInv, NEW r \in Reader, ReaderLeaves(r) \/ ReaderFails(r)
  PROVE  IInv'
<1>1. /\ running' = FALSE /\ readers' \subseteq readers
      /\ UNCHANGED <<conf, present, chip, pc, handle, chunk, cut>>
  BY DEF ReaderLeaves, ReaderFails
<1>2. running' \in BOOLEAN /\ readers' \subseteq Reader
  <2>1. readers \subseteq Reader
    BY DEF IInv, TypeOK
  <2> QED BY <1>1, <2>1, Zenon
<1>3. TypeOK'
  <2>1. TypeOK /\ present' \in BOOLEAN
    BY <1>1, Zenon DEF IInv, TypeOK
  <2> QED BY <1>1, <1>2, <2>1, StillTyped
<1> QED BY <1>1, <1>3, StillStep

\* So do signals, kills and the dongle's coming and going.
LEMMA OutsideStep == ASSUME IInv, Outside PROVE IInv'
<1> USE DEF IInv
<1>1. CASE Signal
  <2>1. running' = FALSE /\ UNCHANGED <<conf, present, chip, pc, handle, chunk, readers, cut>>
    BY <1>1 DEF Signal
  <2>2. running' \in BOOLEAN /\ present' \in BOOLEAN /\ readers' \subseteq Reader
    BY <2>1, Zenon DEF TypeOK
  <2>3. TypeOK'
    BY <2>1, <2>2, StillTyped
  <2> QED BY <2>1, <2>3, StillStep
<1>2. CASE Kill
  BY <1>2, EndStep DEF Kill, TypeOK
<1>3. CASE Unplug
  <2>1. TypeOK'
    BY <1>3, EmptyChip DEF Unplug, TypeOK
  <2>2. HandleOpen' /\ handle' # "live"
    BY <1>3 DEF Unplug, HandleOpen, TypeOK
  <2>3. UploadProgress' /\ StartingUnlessCut' /\ ForcedReloadRunsWholeImage'
    BY <2>2 DEF UploadProgress, StartingUnlessCut, ForcedReloadRunsWholeImage, Live
  <2>4. ResidentUnlessCut'
    BY <1>3, EmptyChip DEF Unplug, ResidentUnlessCut
  <2> QED BY <2>1, <2>2, <2>3, <2>4
<1>4. CASE Plug
  <2>1. present' = TRUE /\ UNCHANGED <<conf, chip, pc, running, handle, chunk, readers, cut>>
    BY <1>4 DEF Plug
  <2>2. running' \in BOOLEAN /\ present' \in BOOLEAN /\ readers' \subseteq Reader
    BY <2>1, Zenon DEF TypeOK
  <2>3. TypeOK'
    BY <2>1, <2>2, StillTyped
  <2> QED BY <2>1, <2>3, StillStep
<1> QED BY <1>1, <1>2, <1>3, <1>4 DEF Outside

\* Every step preserves the invariant.
THEOREM Preserved == IInv /\ [Next]_vars => IInv'
<1> SUFFICES ASSUME IInv, [Next]_vars PROVE IInv'
  OBVIOUS
<1>1. CASE Main
  BY <1>1, OpenStep, UploadStep, RadioStep, CloseStep DEF Main
<1>2. CASE \E r \in Reader : ReaderLeaves(r) \/ ReaderFails(r)
  BY <1>2, ReaderStep
<1>3. CASE Outside
  BY <1>3, OutsideStep
<1>4. CASE UNCHANGED vars
  <2>1. UNCHANGED <<conf, present, chip, pc, running, handle, chunk, readers, cut>>
    BY <1>4 DEF vars
  <2>2. TypeOK /\ running' \in BOOLEAN /\ present' \in BOOLEAN /\ readers' \subseteq Reader
    BY <2>1, Zenon DEF IInv, TypeOK
  <2>3. TypeOK'
    BY <2>1, <2>2, StillTyped
  <2> QED BY <2>1, <2>3, StillStep
<1> QED BY <1>1, <1>2, <1>3, <1>4 DEF Next

\* The inductive invariant holds in every state of every behaviour.
THEOREM Invariance == Spec => []IInv
  BY Initially, Preserved, PTL DEF Spec

\* Every variable of the start keeps to its type.
THEOREM TypeCorrect == Spec => []TypeOK
  BY Invariance, PTL DEF IInv

\* A forced reload always brings the radio up on the whole image.
THEOREM ForcedReloadIsWhole == Spec => []ForcedReloadRunsWholeImage
  BY Invariance, PTL DEF IInv

\* Without a start broken off, loaded firmware is recognised truthfully.
THEOREM ResidentIsWhole == Spec => []ResidentUnlessCut
  BY Invariance, PTL DEF IInv
=============================================================================
