----------------------------- MODULE CameraSetup -----------------------------
(***************************************************************************)
(* esp_camera_init and esp_camera_deinit (lib/esp_camera/camera.c): the    *)
(* resources the driver acquires and releases one by one, the sensor it    *)
(* configures over a bus that fails, and the DMA geometry it derives from  *)
(* the configuration.  What runs between fb_get and fb_return is           *)
(* CameraDriver; here only whether the bus is running.                     *)
(*                                                                         *)
(* The module restarts at any moment: memory is lost, the sensor keeps its *)
(* registers.                                                              *)
(***************************************************************************)
EXTENDS Sensor, FiniteSets

CONSTANTS
  Configs,       \* the configurations the application may ask for
  Models,        \* the sensors that may be attached: "ov2640", "ov7725", others
  MayFail,       \* the resources whose acquisition may fail
  Tuned,         \* settings the application changes, and the values it gives them
  Resized,       \* frame sizes it changes to
  DeinitRunning, \* is the driver deinitialised while the bus runs?
  InitTwice,     \* is it initialised when it is already?
  NULL

ASSUME SetupAssumption ==
  /\ \A c \in Configs : c.framesize \in 0..10 /\ c.quality \in 0..63 /\ c.fb_count \in Nat
  /\ {DeinitRunning, InitTwice} \subseteq BOOLEAN
  /\ DOMAIN Tuned \subseteq Settings

VARIABLES
  call,     \* where the calling task is: "idle", a step of init or of deinit, "crash"
  config,   \* the configuration it asked for; NULL when there is none
  state,    \* s_state: NULL, or the pointers and the data it holds
  live,     \* the resources that are really held
  dmaBufs,  \* the DMA buffers that are really allocated
  fbs,      \* the frame buffers that are really allocated
  running,  \* is the bus running?
  model,    \* the sensor on the bus
  chip,     \* its registers
  reg_bank, \* the bank the OV2640 driver has selected last
  faulted   \* ghost: did a transfer fail since the sensor was last reset?

memory == <<state, live, dmaBufs, fbs>>
sensor == <<chip, reg_bank, faulted>>
vars == <<call, config, memory, running, model, sensor>>

-----------------------------------------------------------------------------
(* The geometry of a picture (camera_init, dma_desc_init, the filters).    *)
Width == <<160, 128, 176, 240, 320, 400, 640, 800, 1024, 1280, 1600>>
Height == <<120, 160, 144, 176, 240, 296, 480, 600, 768, 1024, 1200>>

Gray(c) == c.format = "GRAYSCALE"
Jpeg(c) == c.format = "JPEG"
Supported(c) == c.format \in {"GRAYSCALE", "YUV422", "RGB565", "JPEG"}
FbBytesPerPixel(c) == IF Gray(c) THEN 1 ELSE 2

CompressionBound(c) == IF c.quality > 10 THEN 16 ELSE IF c.quality > 5 THEN 10 ELSE 4
FbSize(c) ==
  LET bytes == Width[c.framesize + 1] * Height[c.framesize + 1] * FbBytesPerPixel(c)
  IN  IF Jpeg(c) THEN bytes \div CompressionBound(c) ELSE bytes

\* Two bytes per pixel arrive; a DMA element of 4 bytes holds one (SM_0A00_0B00) or two of them.
BytesPerSample(c) == IF c.highspeed \/ Jpeg(c) THEN 4 ELSE 2
LineSize(c) == Width[c.framesize + 1] * 2 * BytesPerSample(c)

\* dma_desc_init halves a line until it is shorter than limit.
Halved(line, limit) ==
  CHOOSE n \in {1, 2, 4, 8, 16} :
    /\ line \div n < limit
    /\ n = 1 \/ line \div (n \div 2) >= limit
DmaPerLineLong(c) == Halved(LineSize(c), 4097)   \* mutant: while (buf_size > 4096)
DmaPerLine(c) == Halved(LineSize(c), 4096)

\* The bytes dma_filter writes for a DMA buffer of len bytes.
Filtered(c, len) ==
  LET elems == len \div 4
      last  == len % 8 # 0
  IN  CASE Jpeg(c) -> (elems \div 4) * 4
        [] Gray(c) /\ ~ c.highspeed -> (elems \div 4) * 4
        [] Gray(c) /\ c.highspeed -> (elems \div 8) * 4 + (IF last THEN 2 ELSE 0)
        [] ~ Gray(c) /\ ~ Jpeg(c) /\ ~ c.highspeed -> (elems \div 4) * 8
        [] OTHER -> (elems \div 8) * 8 + (IF last THEN 4 ELSE 0)

-----------------------------------------------------------------------------
(* Memory.  state.has are the pointers of s_state that are not NULL.       *)
NewState == [has |-> {}, dmaCount |-> 0, dmaSize |-> 0, fbSize |-> 0, formed |-> FALSE,
             model |-> NULL, pixformat |-> "none", framesize |-> 0,
             status |-> [p \in Settings |-> 0]]

Init ==
  /\ call = "idle" /\ config = NULL /\ state = NULL
  /\ live = {} /\ dmaBufs = 0 /\ fbs = 0 /\ running = FALSE
  /\ model \in Models
  /\ \E home, b \in Banks :
       chip = [bank |-> b, home |-> home, regs |-> [p \in Parts |-> Unknown]]
  /\ reg_bank = "none" /\ faulted = FALSE

\* A failed step of camera_init ends in esp_camera_deinit.
Then(ok, next) == call' = IF ok THEN next ELSE "delete task"

\* A resource that s_state points to, acquired or not.
Outcomes(r) == IF r \in MayFail THEN BOOLEAN ELSE {TRUE}
Acquire(r, next) ==
  \E ok \in Outcomes(r) :
    /\ Then(ok, next)
    /\ state' = IF ok THEN [state EXCEPT !.has = @ \cup {r}] ELSE state
    /\ live' = IF ok THEN live \cup {r} ELSE live

Release(rs) ==
  live' = (live \ rs) \cup (IF rs \subseteq live THEN {} ELSE {"corrupt"})

-----------------------------------------------------------------------------
(* The sensor.  A transfer may fail, at most one between two resets.       *)
Driver == [chip |-> chip, cache |-> reg_bank, seen |-> [p \in Parts |-> Unknown], ok |-> TRUE]
Faults(n) == IF faulted THEN {0} ELSE 0..n
Sent(d, f) == chip' = d.chip /\ reg_bank' = d.cache /\ faulted' = (faulted \/ f > 0)

\* SCCB_Write of camera_probe, past reg_bank: it selects the sensor's bank and resets it.
SoftReset(f) ==
  LET selected == IF f = 1 THEN chip ELSE [chip EXCEPT !.bank = "sensor"]
  IN  IF f # 2 /\ selected.bank = "sensor" THEN Reset(selected) ELSE selected

-----------------------------------------------------------------------------
(* camera_probe.                                                           *)
EspCameraInit ==
  /\ call = "idle" /\ (state = NULL \/ InitTwice)
  /\ \E c \in Configs : config' = c
  /\ call' = "probe"
  /\ UNCHANGED <<memory, running, model, sensor>>

ProbeAlloc ==
  /\ call = "probe"
  /\ \E ok \in Outcomes("state") :
       IF ok /\ state = NULL
       THEN state' = NewState /\ live' = live \cup {"state"} /\ call' = "reset"
       ELSE call' = "undo" /\ UNCHANGED <<state, live>>
  /\ UNCHANGED <<config, dmaBufs, fbs, running, model, sensor>>

\* The clock, the bus, and a reset by pin or over the bus.
ProbeReset ==
  /\ call = "reset"
  /\ live' = live \cup {"xclk"}
  /\ \E f \in 0..2 :
       /\ config.reset_pin => f = 0
       /\ chip' = IF config.reset_pin THEN Reset(chip) ELSE SoftReset(f)
       /\ faulted' = (f > 0)
  /\ call' = "search"
  /\ UNCHANGED <<config, state, dmaBufs, fbs, running, model, reg_bank>>

\* SCCB_Probe, then the four reads of the sensor's signature (a failed one reads as 0xff).
ProbeSearch ==
  /\ call = "search"
  /\ \E answers \in BOOLEAN, pid \in {model, "misread"} :
       LET known == answers /\ pid \in {"ov2640", "ov7725"}
           fault == ~ answers \/ pid = "misread"
       IN  /\ fault => ~ faulted
           /\ faulted' = (faulted \/ fault)
           /\ call' = IF known THEN "software reset" ELSE "undo"
           /\ state' = IF known THEN [state EXCEPT !.model = pid] ELSE state
           /\ live' = IF known THEN live ELSE live \ {"xclk"}
  /\ UNCHANGED <<config, dmaBufs, fbs, running, model, chip, reg_bank>>

\* sensor.reset, whose result camera_probe ignores; esp_camera_init then refuses JPEG.
\* The OV7725 has one bank, and its driver goes on after a failed write.
ProbeSoftwareReset ==
  /\ call = "software reset"
  /\ \E f \in Faults(IF model = "ov2640" THEN Len(ResetOps) ELSE 0) :
       Sent(IF model = "ov2640" THEN Run(Driver, ResetOps, f) ELSE Driver, f)
  /\ call' = IF model = "ov7725" /\ Jpeg(config) THEN "undo" ELSE "format"
  /\ UNCHANGED <<config, memory, running, model>>

\* The fail: of esp_camera_init, for a failed probe.
Undo ==
  /\ call = "undo"
  /\ live' = live \ {"state", "xclk"}
  /\ state' = NULL /\ config' = NULL /\ call' = "idle"
  /\ UNCHANGED <<dmaBufs, fbs, running, model, sensor>>

-----------------------------------------------------------------------------
(* camera_init.                                                            *)
InitFormat ==
  /\ call = "format"
  /\ Then(Supported(config), "i2s")
  /\ state' = [state EXCEPT !.fbSize = IF Supported(config) THEN FbSize(config) ELSE 0,
                            !.status.quality = IF Jpeg(config) THEN config.quality ELSE @]
  /\ \E f \in Faults(IF Jpeg(config) THEN 2 ELSE 0) :
       Sent(IF Jpeg(config) THEN Set(Driver, "quality", config.quality, f) ELSE Driver, f)
  /\ UNCHANGED <<config, live, dmaBufs, fbs, running, model>>

\* i2s_init: the result of esp_intr_alloc is not looked at.
I2sInit ==
  /\ call = "i2s"
  /\ \E ok \in Outcomes("i2sIntr") :
       /\ live' = live \cup {"i2s"} \cup (IF ok THEN {"i2sIntr"} ELSE {})
       /\ state' = [state EXCEPT !.has = IF ok THEN @ \cup {"i2sIntr"} ELSE @,
                      !.dmaCount = 4 * DmaPerLine(config),
                      !.dmaSize = LineSize(config) \div DmaPerLine(config)]
  /\ call' = "dma array"
  /\ UNCHANGED <<config, dmaBufs, fbs, running, model, sensor>>

MakeDmaArray ==
  /\ call = "dma array" /\ Acquire("dmaArray", "dma descriptors")
  /\ UNCHANGED <<config, dmaBufs, fbs, running, model, sensor>>

\* dma_buf is not cleared: when a later allocation fails, dma_desc_deinit frees what it holds.
MakeDmaDescriptors ==
  /\ call = "dma descriptors" /\ Acquire("dmaDesc", "dma buffers")
  /\ UNCHANGED <<config, dmaBufs, fbs, running, model, sensor>>

MakeDmaBuffers ==
  /\ call = "dma buffers"
  /\ \E n \in 0..state.dmaCount :
       /\ n < state.dmaCount => "dmaBuf" \in MayFail
       /\ dmaBufs' = n
       /\ state' = [state EXCEPT !.formed = (n = state.dmaCount)]
       /\ Then(n = state.dmaCount, "frame buffers")
  /\ UNCHANGED <<config, live, fbs, running, model, sensor>>

\* camera_fb_init frees what it has allocated when it fails.
FbInitKeeps ==   \* mutant: fail: leaves the buffers that were allocated
  /\ call = "frame buffers"
  /\ \E n \in 0..config.fb_count :
       /\ n < config.fb_count => "fb" \in MayFail
       /\ fbs' = n /\ Then(n > 0 /\ n = config.fb_count, "data ready")
       /\ state' = IF n = config.fb_count THEN [state EXCEPT !.has = @ \cup {"fb"}] ELSE state
  /\ UNCHANGED <<config, live, dmaBufs, running, model, sensor>>

FbInit ==
  /\ call = "frame buffers"
  /\ \E ok \in Outcomes("fb") :
       LET made == ok /\ config.fb_count > 0
       IN  /\ fbs' = IF made THEN config.fb_count ELSE 0
           /\ state' = IF made THEN [state EXCEPT !.has = @ \cup {"fb"}] ELSE state
           /\ Then(made, "data ready")
  /\ UNCHANGED <<config, live, dmaBufs, running, model, sensor>>

MakeDataReady ==
  /\ call = "data ready" /\ Acquire("dataReady", "exchange")
  /\ UNCHANGED <<config, dmaBufs, fbs, running, model, sensor>>

MakeFrameReady ==
  /\ call = "exchange" /\ config.fb_count = 1 /\ Acquire("frameReady", "task")
  /\ UNCHANGED <<config, dmaBufs, fbs, running, model, sensor>>

\* Both queues are created before either is looked at.
MakeFbQueues ==
  /\ call = "exchange" /\ config.fb_count > 1
  /\ \E made \in SUBSET {"fbIn", "fbOut"} :
       /\ {"fbIn", "fbOut"} \ made \subseteq MayFail
       /\ live' = live \cup made
       /\ state' = [state EXCEPT !.has = @ \cup made]
       /\ Then(made = {"fbIn", "fbOut"}, "task")
  /\ UNCHANGED <<config, dmaBufs, fbs, running, model, sensor>>

MakeTask ==
  /\ call = "task" /\ Acquire("task", "vsync")
  /\ UNCHANGED <<config, dmaBufs, fbs, running, model, sensor>>

\* s_state has no pointer to the handler: deinit always removes it.
AddVsyncIsr ==
  /\ call = "vsync"
  /\ \E ok \in Outcomes("vsyncIsr") :
       /\ Then(ok, "frame size")
       /\ live' = IF ok THEN live \cup {"vsyncIsr"} ELSE live
       /\ state' = IF ok THEN [state EXCEPT !.framesize = config.framesize, !.pixformat = config.format]
                   ELSE state
  /\ UNCHANGED <<config, dmaBufs, fbs, running, model, sensor>>

\* set_framesize, and set_pixformat once more.
InitFramesize ==
  /\ call = "frame size"
  /\ IF model = "ov2640"
     THEN \E f \in Faults(Len(FramesizeOps(0)) + Len(PixformatOps("JPEG"))) :
            LET d == SetFramesize(Driver, config.framesize, config.format, f)
            IN  Sent(d, f) /\ Then(d.ok, "pixformat")
     ELSE \E ok \in BOOLEAN :
            /\ ok \/ ~ faulted
            /\ Then(ok, "pixformat")
            /\ faulted' = (faulted \/ ~ ok) /\ UNCHANGED <<chip, reg_bank>>
  /\ UNCHANGED <<config, memory, running, model>>

InitPixformat ==
  /\ call = "pixformat"
  /\ IF model = "ov2640"
     THEN \E f \in Faults(Len(PixformatOps("JPEG"))) : Sent(Run(Driver, PixformatOps(config.format), f), f)
     ELSE UNCHANGED sensor
  /\ call' = IF model = "ov2640" THEN "tune" ELSE "status"
  /\ UNCHANGED <<config, memory, running, model>>

\* What camera_init sets on an OV2640, each result ignored.
Defaults == <<<<"gainceiling", 0>>, <<"bpc", 0>>, <<"wpc", 1>>, <<"lenc", 1>>>>
TuneDefaults(d, f) ==
  LET tuned[i \in 0..Len(Defaults)] ==
        IF i = 0 THEN d ELSE Set(tuned[i - 1], Defaults[i][1], Defaults[i][2], f - 3 * (i - 1))
  IN  tuned[Len(Defaults)]
InitTune ==
  /\ call = "tune"
  /\ \E f \in Faults(3 * Len(Defaults)) : Sent(TuneDefaults(Driver, f), f)
  /\ call' = "status"
  /\ UNCHANGED <<config, memory, running, model>>

\* skip_frame, the quality again, init_status.  ov7725_init leaves init_status NULL.
InitStatus ==
  /\ call = "status"
  /\ IF model = "ov7725" THEN call' = "crash" /\ UNCHANGED <<state, sensor>>
     ELSE \E f \in Faults(2 + 2 * Len(StatusOrder)) :
            LET d == IF Jpeg(config) THEN Set(Driver, "quality", config.quality, f) ELSE Driver
                r == ReadStatus(d, f - 2)
            IN  /\ Sent(r.d, f)
                /\ state' = [state EXCEPT !.status = r.status]
                /\ call' = "idle"
  /\ UNCHANGED <<config, live, dmaBufs, fbs, running, model>>

-----------------------------------------------------------------------------
(* In between: the driver runs, and the application tunes the sensor.      *)
Ready == call = "idle" /\ state # NULL

FbGet ==
  /\ Ready /\ ~ running /\ running' = TRUE
  /\ UNCHANGED <<call, config, memory, model, sensor>>

\* i2s_stop ends the only frame; with several the bus never stops.
FrameDone ==
  /\ Ready /\ running /\ config.fb_count = 1 /\ running' = FALSE
  /\ UNCHANGED <<call, config, memory, model, sensor>>

\* A setter keeps the value it was given before it writes.
Tune ==
  /\ Ready
  /\ \E p \in DOMAIN Tuned : \E x \in Tuned[p] : Legal(p, x) /\
       \E f \in Faults(Len(SetOps(p, x)) + (IF p = "vflip" THEN 3 ELSE 0)) :
         /\ Sent(Set(Driver, p, Clamp(p, x), f), f)
         /\ state' = [state EXCEPT !.status[p] = Clamp(p, x)]
  /\ UNCHANGED <<call, config, live, dmaBufs, fbs, running, model>>

Resize ==
  /\ Ready
  /\ \E s \in Resized, f \in Faults(Len(FramesizeOps(0)) + Len(PixformatOps("JPEG"))) :
       /\ s <= config.framesize
       /\ Sent(SetFramesize(Driver, s, state.pixformat, f), f)
       /\ state' = [state EXCEPT !.framesize = s]
  /\ UNCHANGED <<call, config, live, dmaBufs, fbs, running, model>>

-----------------------------------------------------------------------------
(* esp_camera_deinit.                                                      *)
EspCameraDeinit ==
  /\ Ready /\ (DeinitRunning \/ ~ running)
  /\ call' = "delete task"
  /\ UNCHANGED <<config, memory, running, model, sensor>>

\* A step of deinit that frees those of rs that s_state points to.
FreeStep(at, rs, next) ==
  /\ call = at /\ call' = next
  /\ Release(rs \cap state.has)

DeleteTaskForgotten ==   \* mutant: the task is left running
  /\ call = "delete task" /\ call' = "delete queues"
  /\ UNCHANGED <<config, memory, running, model, sensor>>

DeleteTask ==
  /\ FreeStep("delete task", {"task"}, "delete queues")
  /\ UNCHANGED <<config, state, dmaBufs, fbs, running, model, sensor>>

DeleteQueues ==
  /\ FreeStep("delete queues", {"dataReady", "fbIn", "fbOut", "frameReady"}, "remove isr")
  /\ UNCHANGED <<config, state, dmaBufs, fbs, running, model, sensor>>

\* Disabling the interrupt ends the bus's work.
RemoveIsrs ==
  /\ call = "remove isr" /\ call' = "free dma"
  /\ live' = live \ {"vsyncIsr", "i2sIntr"}
  /\ running' = FALSE
  /\ UNCHANGED <<config, state, dmaBufs, fbs, model, sensor>>

\* dma_desc_deinit walks over dma_desc_count entries, those that were never written included.
FreeDma ==
  /\ call = "free dma" /\ call' = "free rest"
  /\ dmaBufs' = IF "dmaArray" \in state.has THEN 0 ELSE dmaBufs
  /\ LET wild == "dmaArray" \in state.has /\ ~ state.formed
     IN  live' = (live \ {"dmaArray", "dmaDesc"}) \cup (IF wild THEN {"corrupt"} ELSE {})
  /\ UNCHANGED <<config, state, fbs, running, model, sensor>>

\* camera_fb_deinit, s_state, the clock and the peripheral.
FramesLeft == IF "fb" \in state.has THEN 0 ELSE fbs
FreeRest ==
  /\ call = "free rest" /\ call' = "idle"
  /\ fbs' = FramesLeft
  /\ live' = live \ {"state", "xclk", "i2s"}
  /\ state' = NULL /\ config' = NULL
  /\ UNCHANGED <<dmaBufs, running, model, sensor>>

-----------------------------------------------------------------------------
\* The module restarts; the sensor does not.
Reboot ==
  /\ call' = "idle" /\ config' = NULL /\ state' = NULL /\ live' = {} /\ dmaBufs' = 0 /\ fbs' = 0
  /\ running' = FALSE /\ reg_bank' = "none" /\ faulted' = FALSE
  /\ UNCHANGED <<model, chip>>

Probe == ProbeAlloc \/ ProbeReset \/ ProbeSearch \/ ProbeSoftwareReset \/ Undo
Acquisition ==
  \/ InitFormat \/ I2sInit \/ MakeDmaArray \/ MakeDmaDescriptors \/ MakeDmaBuffers \/ FbInit
  \/ MakeDataReady \/ MakeFrameReady \/ MakeFbQueues \/ MakeTask \/ AddVsyncIsr
Configuration == InitFramesize \/ InitPixformat \/ InitTune \/ InitStatus
Use == FbGet \/ FrameDone \/ Tune \/ Resize
Deinit == EspCameraDeinit \/ DeleteTask \/ DeleteQueues \/ RemoveIsrs \/ FreeDma \/ FreeRest
Next == EspCameraInit \/ Probe \/ Acquisition \/ Configuration \/ Use \/ Deinit \/ Reboot

Spec == Init /\ [][Next]_vars

-----------------------------------------------------------------------------
\* All or nothing: whenever no call of init or deinit is under way, the driver either has every
\* resource its configuration needs, or holds none at all, whichever step of init failed.
Exchange == IF config.fb_count = 1 THEN {"frameReady"} ELSE {"fbIn", "fbOut"}
Complete == {"state", "xclk", "i2s", "i2sIntr", "dmaArray", "dmaDesc", "dataReady", "task", "vsyncIsr"}
            \cup Exchange
AllOrNothing ==
  call = "idle" =>
    IF state = NULL
    THEN live = {} /\ dmaBufs = 0 /\ fbs = 0 /\ ~ running
    ELSE live = Complete /\ dmaBufs = state.dmaCount /\ fbs = config.fb_count

\* What runs by itself, the filter task and the interrupts of a running bus, never outlives what
\* it uses, and never starts before it, on any path through init and deinit.
NoDangling ==
  /\ "task" \in live => {"state", "dataReady", "dmaArray", "dmaDesc"} \cup Exchange \subseteq live
                        /\ dmaBufs = state.dmaCount /\ fbs = config.fb_count
  /\ running => {"state", "dataReady", "dmaDesc", "i2sIntr", "vsyncIsr"} \subseteq live
                /\ dmaBufs = state.dmaCount

\* If no transfer has failed since the sensor was reset, whatever an earlier life of the driver
\* left in it and in reg_bank, the driver knows which bank is selected, the sensor sends pictures
\* of the size and format the driver expects, and each setting is what its status says.
SensorAgrees ==
  Ready /\ ~ faulted =>
    LET regs == chip.regs
    IN  /\ reg_bank = chip.bank
        /\ regs.bypass = 0 /\ regs.held = 0 /\ regs.mode = Mode(state.pixformat)
        /\ regs.outsize = state.framesize
        /\ regs.res = SizeOf(state.framesize) /\ regs.window = SizeOf(state.framesize)
        /\ \A p \in ToSet(StatusOrder) : regs[p] = state.status[p]

\* What the filters make of a line of DMA buffers is a line of the frame, a frame of lines fills
\* the frame buffer, and a descriptor can express the length of its buffer (12 bits).
DmaFits ==
  state # NULL /\ state.formed =>
    LET line == DmaPerLine(config) * Filtered(config, state.dmaSize)
    IN  /\ state.dmaSize < 4096 /\ state.dmaSize % 4 = 0
        /\ DmaPerLine(config) * state.dmaSize = LineSize(config)
        /\ line = Width[config.framesize + 1] * FbBytesPerPixel(config)
        /\ IF Jpeg(config) THEN state.fbSize >= Filtered(config, state.dmaSize)
           ELSE state.fbSize = Height[config.framesize + 1] * line
=============================================================================
