------------------------------ MODULE Firmware ------------------------------
(***************************************************************************)
(* The life of the daemon's process (xbox_daemon.c: main, reader_thread)   *)
(* and what its start does to the dongle: the firmware upload and the      *)
(* radio start of mt76_init.h.  The dongle keeps its power, and therefore  *)
(* its state, from one process to the next.  A process may be killed and   *)
(* the dongle pulled out between any two steps; a bulk transfer may fail   *)
(* or time out, and a control transfer be lost: the code ignores that.     *)
(***************************************************************************)
EXTENDS Integers

CONSTANTS
  Ilm, Dlm,    \* how many chunks the two parts of the image make
  Reader,      \* the reader threads
  Controls     \* subset of {"sound", "lossy"}: the control transfers

ASSUME FirmwareAssumption ==
  /\ Ilm \in Nat \ {0}
  /\ Dlm \in Nat \ {0}
  /\ Controls \subseteq {"sound", "lossy"}

Chunk == 1 .. Ilm + Dlm

\* only the last chunk of a part is shorter than MT_FW_CHUNK_SIZE
Size(k) == IF k \in {Ilm, Ilm + Dlm} THEN "rest" ELSE "full"

Uploading == {"addr", "len", "bulk", "poll", "zero", "ivb"}
Starting  == {"started", "registers"}
PC == {"off", "wait", "reset", "reopen", "claim", "check", "ivbreset"}
        \cup Uploading \cup Starting \cup {"tune", "ready", "join"}

VARIABLES
  conf,      \* XBOX_FW_FORCE_RELOAD and XBOX_USB_RESET_ON_START of the
             \* process, and whether control transfers may be lost
  present,   \* the dongle is plugged in
  chip,      \* the dongle, see PowerUp
  pc,        \* where the main thread is, "off" between two processes
  running,   \* g_running
  handle,    \* g_dev: "none", "live", or "dead" when the dongle went away
  chunk,     \* the chunk of the image that is being sent
  readers,   \* the reader threads that run
  cut        \* history: since power-up a process ended half-way in its start

vars == <<conf, present, chip, pc, running, handle, chunk, readers, cut>>

\* fce: what MT_FCE_DMA_ADDR reads, 0, 0x041200, or the address of a chunk
\* len: what MT_FCE_DMA_LEN says of the transfer, or the size completed
\* mem: the chunks that lie where they belong;  runs: firmware was started
PowerUp == [fce |-> 0, len |-> "idle", mem |-> {}, runs |-> FALSE]
RadioAddress == -1

\* the outcome of a control transfer, which most callers never see
Control == IF handle # "live" THEN {FALSE}
           ELSE IF conf.control = "lossy" THEN BOOLEAN ELSE {TRUE}

\* a control write, and a control read: 0 when it fails
Written(new) == \E ok \in Control : chip' = IF ok THEN new ELSE chip
FceReads == {IF ok THEN chip.fce ELSE 0 : ok \in Control}

Whole == chip.runs /\ chip.mem = Chunk

Init ==
  /\ conf \in [force : BOOLEAN, reset : BOOLEAN, control : Controls]
  /\ present = TRUE
  /\ chip = PowerUp
  /\ pc = "off"
  /\ running = TRUE
  /\ handle = "none"
  /\ chunk = 1
  /\ readers = {}
  /\ cut = FALSE

\* the end of the process: cleanup, or its death
End ==
  /\ pc' = "off"
  /\ handle' = "none"
  /\ readers' = {}
  /\ cut' = (\/ cut
             \/ pc \in Uploading
             \/ pc \in Starting /\ chip.fce # RadioAddress)

\* the main thread goes on to l
Goto(l) == pc' = l /\ UNCHANGED <<handle, readers, cut>>

-----------------------------------------------------------------------------
(* main: open, reset and claim the dongle                                  *)

Start ==
  /\ pc = "off"
  /\ conf' \in [force : BOOLEAN, reset : BOOLEAN, control : {conf.control}]
  /\ running' = TRUE
  /\ Goto("wait")
  /\ UNCHANGED <<present, chip, chunk>>

Wait ==
  /\ pc = "wait"
  /\ IF ~running THEN End
     ELSE /\ present
          /\ pc' = IF conf.reset THEN "reset" ELSE "claim"
          /\ handle' = "live"
          /\ UNCHANGED <<readers, cut>>
  /\ UNCHANGED <<conf, present, chip, running, chunk>>

\* libusb_reset_device fails, or the dongle is opened anew; whether a reset
\* empties the chip the code does not know
UsbReset ==
  /\ pc = "reset"
  /\ \/ /\ Goto("claim")
        /\ UNCHANGED chip
     \/ /\ handle = "live"
        /\ pc' = "reopen"
        /\ handle' = "none"
        /\ chip' \in {chip, PowerUp}
        /\ cut' = (cut /\ chip' # PowerUp)
        /\ UNCHANGED readers
  /\ UNCHANGED <<conf, present, running, chunk>>

Reopen ==
  /\ pc = "reopen"
  /\ \/ End
     \/ /\ running
        /\ present
        /\ pc' = "claim"
        /\ handle' = "live"
        /\ UNCHANGED <<readers, cut>>
  /\ UNCHANGED <<conf, present, chip, running, chunk>>

\* the interface and the endpoints, and the firmware file
Claim ==
  /\ pc = "claim"
  /\ End \/ (handle = "live" /\ Goto("check"))
  /\ UNCHANGED <<conf, present, chip, running, chunk>>

-----------------------------------------------------------------------------
(* mt76_upload_fw_dma                                                      *)

\* an image whose length fields do not fit is refused; firmware that seems
\* to be loaded is reused unless a reload is forced
CheckLoaded ==
  /\ pc = "check"
  /\ \/ End
     \/ \E fce \in FceReads :
          Goto(CASE fce = 0 -> "addr" [] fce # 0 /\ conf.force -> "ivbreset"
                 [] OTHER -> "started")
  /\ chunk' = 1
  /\ UNCHANGED <<conf, present, chip, running>>

\* MT_FW_RESET_IVB; the poll that follows is not looked at
ResetIvb ==
  /\ pc = "ivbreset"
  /\ Written([chip EXCEPT !.runs = FALSE])
  /\ Goto("addr")
  /\ UNCHANGED <<conf, present, running, chunk>>

\* mt76_fw_load_part, a chunk: the address, the length, the data, the poll
WriteAddress ==
  /\ pc = "addr"
  /\ Written([chip EXCEPT !.fce = chunk])
  /\ Goto("len")
  /\ UNCHANGED <<conf, present, running, chunk>>

WriteLength ==
  /\ pc = "len"
  /\ Written([chip EXCEPT !.len = "busy"])
  /\ Goto("bulk")
  /\ UNCHANGED <<conf, present, running, chunk>>

\* the dongle takes the data to the address it was given
Stored ==
  IF chip.len = "busy" /\ chip.fce \in Chunk
  THEN [chip EXCEPT !.len = Size(chunk),
                    !.mem = IF chip.fce = chunk THEN @ \cup {chunk} ELSE @ \ {chip.fce}]
  ELSE chip

\* an error ends the upload, a timeout (data taken or not) does not
SendChunk ==
  /\ pc = "bulk"
  /\ \/ handle = "live" /\ chip' \in {Stored, chip} /\ Goto("poll")
     \/ UNCHANGED chip /\ End
  /\ UNCHANGED <<conf, present, running, chunk>>

\* the next chunk of the image, of the other part after the last of one
Continue(last) ==
  IF chunk = last
  THEN Goto("zero") /\ UNCHANGED chunk
  ELSE Goto("addr") /\ chunk' = chunk + 1

\* the whole chunk is done
Done == chip.len = Size(chunk)

\* mutant: the result of the poll is not looked at
PollChunkBlindly ==
  /\ pc = "poll"
  /\ Continue(Ilm + Dlm)
  /\ UNCHANGED <<conf, present, chip, running>>

\* mutant: the last chunk of the data part is not sent
PollChunkSkipsLast ==
  /\ pc = "poll"
  /\ \E ok \in Control :
       IF ok /\ Done THEN Continue(Ilm + Dlm - 1) ELSE End /\ UNCHANGED chunk
  /\ UNCHANGED <<conf, present, chip, running>>

\* mutant: one chunk too many is sent
PollChunkOneMore ==
  /\ pc = "poll"
  /\ \E ok \in Control :
       IF ok /\ Done THEN Continue(Ilm + Dlm + 1) ELSE End /\ UNCHANGED chunk
  /\ UNCHANGED <<conf, present, chip, running>>

\* mutant: the poll has no timeout
PollChunkForever ==
  /\ pc = "poll"
  /\ TRUE \in Control /\ Done
  /\ Continue(Ilm + Dlm)
  /\ UNCHANGED <<conf, present, chip, running>>

\* one of 200 reads sees the chunk done, or the upload has failed
PollChunk ==
  /\ pc = "poll"
  /\ \E ok \in Control :
       IF ok /\ Done THEN Continue(Ilm + Dlm) ELSE End /\ UNCHANGED chunk
  /\ UNCHANGED <<conf, present, chip, running>>

ClearAddress ==
  /\ pc = "zero"
  /\ Written([chip EXCEPT !.fce = 0])
  /\ Goto("ivb")
  /\ UNCHANGED <<conf, present, running, chunk>>

\* MT_FW_LOAD_IVB; the address was just cleared, so that the first read
\* differs from 0x01 and the firmware counts as started
LoadIvb ==
  /\ pc = "ivb"
  /\ Written([chip EXCEPT !.runs = TRUE])
  /\ Goto("started")
  /\ UNCHANGED <<conf, present, running, chunk>>

-----------------------------------------------------------------------------
(* mt76_radio_init                                                         *)

\* the ASIC version: 0 when it cannot be read, and maybe otherwise
CheckAsic ==
  /\ pc = "started"
  /\ End \/ (TRUE \in Control /\ Goto("registers"))
  /\ UNCHANGED <<conf, present, chip, running, chunk>>

\* MCU commands, whose result is not looked at, and mt76_init_registers
InitRegisters ==
  /\ pc = "registers"
  /\ Written([chip EXCEPT !.fce = RadioAddress])
  /\ Goto("tune")
  /\ UNCHANGED <<conf, present, running, chunk>>

\* channels and beacon: commands that may fail
Tune ==
  /\ pc = "tune"
  /\ \/ End
     \/ /\ handle = "live"
        /\ pc' = "ready"
        /\ readers' = Reader
        /\ UNCHANGED <<handle, cut>>
  /\ UNCHANGED <<conf, present, chip, running, chunk>>

-----------------------------------------------------------------------------
(* read_loop, the reader threads, cleanup                                  *)

Leave ==
  /\ pc = "ready"
  /\ ~running
  /\ Goto("join")
  /\ UNCHANGED <<conf, present, chip, running, chunk>>

Join ==
  /\ pc = "join"
  /\ readers = {}
  /\ End
  /\ UNCHANGED <<conf, present, chip, running, chunk>>

\* mutant: a lost dongle is an error like any other
ReaderLeavesDeaf(r) ==
  /\ r \in readers
  /\ ~running
  /\ running' = FALSE
  /\ readers' = readers \ {r}
  /\ UNCHANGED <<conf, present, chip, pc, handle, chunk, cut>>

\* a reader sees g_running, or its transfer fails for good
ReaderLeaves(r) ==
  /\ r \in readers
  /\ ~running \/ handle = "dead"
  /\ running' = FALSE
  /\ readers' = readers \ {r}
  /\ UNCHANGED <<conf, present, chip, pc, handle, chunk, cut>>

\* LIBUSB_ERROR_IO, on a dongle that is there
ReaderFails(r) ==
  /\ r \in readers
  /\ running
  /\ handle = "live"
  /\ running' = FALSE
  /\ readers' = readers \ {r}
  /\ UNCHANGED <<conf, present, chip, pc, handle, chunk, cut>>

-----------------------------------------------------------------------------
(* the outside                                                             *)

Signal ==
  /\ pc # "off"
  /\ running
  /\ running' = FALSE
  /\ UNCHANGED <<conf, present, chip, pc, handle, chunk, readers, cut>>

Kill ==
  /\ pc # "off"
  /\ End
  /\ UNCHANGED <<conf, present, chip, running, chunk>>

Unplug ==
  /\ present
  /\ present' = FALSE
  /\ handle' = IF handle = "live" THEN "dead" ELSE handle
  /\ chip' = PowerUp
  /\ cut' = FALSE
  /\ UNCHANGED <<conf, pc, running, chunk, readers>>

Plug ==
  /\ ~present
  /\ present' = TRUE
  /\ UNCHANGED <<conf, chip, pc, running, handle, chunk, readers, cut>>

-----------------------------------------------------------------------------
Open   == Start \/ Wait \/ UsbReset \/ Reopen \/ Claim
Upload == \/ CheckLoaded \/ ResetIvb \/ WriteAddress \/ WriteLength \/ SendChunk
          \/ PollChunk \/ ClearAddress \/ LoadIvb
Radio  == CheckAsic \/ InitRegisters \/ Tune
Close  == Leave \/ Join

Main == Open \/ Upload \/ Radio \/ Close
Outside == Signal \/ Kill \/ Unplug \/ Plug
Next == Main \/ (\E r \in Reader : ReaderLeaves(r) \/ ReaderFails(r)) \/ Outside

Spec == Init /\ [][Next]_vars

\* A process that runs goes on; whether one is started is the user's choice
FairSpec ==
  /\ Spec
  /\ WF_vars(pc # "off" /\ Main)
  /\ \A r \in Reader : WF_vars(ReaderLeaves(r))

-----------------------------------------------------------------------------
(* Properties                                                              *)

TypeOK ==
  /\ conf \in [force : BOOLEAN, reset : BOOLEAN, control : Controls]
  /\ present \in BOOLEAN
  /\ chip \in [fce : {0, RadioAddress} \cup Chunk,
               len : {"idle", "busy", "full", "rest"},
               mem : SUBSET Chunk, runs : BOOLEAN]
  /\ pc \in PC
  /\ running \in BOOLEAN
  /\ handle \in {"none", "live", "dead"}
  /\ chunk \in Chunk
  /\ readers \subseteq Reader
  /\ cut \in BOOLEAN

\* A forced reload brings the radio up on the whole image, whatever earlier
\* processes left in the chip, and though timeouts of the upload are ignored
\* (mt76_upload_fw_dma with XBOX_FW_FORCE_RELOAD).
ForcedReloadRunsWholeImage ==
  conf.control = "sound" /\ conf.force /\ handle = "live"
    /\ pc \in Starting \cup {"tune", "ready"} => Whole

\* As long as no start was broken off since power-up, the register by which
\* a start recognises loaded firmware tells the truth: not zero, the whole
\* image runs; zero, nothing runs that an upload would overwrite.
ResidentUnlessCut ==
  conf.control = "sound" /\ ~cut /\ pc \notin Uploading \cup Starting =>
    IF chip.fce = 0 THEN ~chip.runs ELSE Whole

\* Firmware that is reused is the whole image: after LoadIvb the register
\* reads 0, so that here it was found loaded (the message "Firmware already
\* loaded" of mt76_upload_fw_dma).
ReusedFirmwareIsWhole ==
  conf.control = "sound" /\ handle = "live" /\ pc = "started" /\ chip.fce # 0 => Whole

\* Every start comes to an end, whatever fails on the way: the radio is up,
\* the process has given up, or it waits for a dongle.
StartEnds == pc # "off" ~> pc \in {"off", "wait", "ready"}

\* A signal ends the process from wherever it is, and pulling out the dongle
\* ends one that has opened it: both readers are joined, none is waited for
\* in vain.
StopEnds ==
  /\ pc # "off" /\ ~running ~> pc = "off"
  /\ handle = "dead" ~> handle = "none"
=============================================================================
