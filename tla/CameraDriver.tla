---------------------------- MODULE CameraDriver ----------------------------
(***************************************************************************)
(* The frame pipeline of the camera driver (lib/esp_camera/camera.c).      *)
(*                                                                         *)
(* Three actors share the driver's state without a lock:                   *)
(*   - the interrupt handlers i2s_isr and vsync_isr, which never nest;     *)
(*   - the DMA filter task, pinned to core 1, which copies the received    *)
(*     DMA buffers into the current frame buffer and ends frames;          *)
(*   - the consumer, which calls esp_camera_fb_get / esp_camera_fb_return. *)
(* With one frame buffer the bus is started by fb_get and stopped at the   *)
(* end of the frame (frame_ready hands the frame over).  With several, the *)
(* bus never stops, and buffers circulate through fb_out and fb_in.        *)
(*                                                                         *)
(* A DMA buffer is abstracted to an entry "buf" of data_ready, SIZE_MAX to *)
(* "eof".  Of a frame's bytes, pixels[i] keeps the last DMA buffer copied  *)
(* into frame buffer i (0: its first word is cleared).                     *)
(***************************************************************************)
EXTENDS Integers, Sequences, SequencesExt

CONSTANTS
  FbCount,      \* config.fb_count
  QueueLen,     \* capacity of data_ready (16 in camera_init)
  FbBufs,       \* DMA buffers that fit into a frame buffer (fb_size / buf_len)
  Jpeg,         \* config.pixel_format = PIXFORMAT_JPEG
  FrameBufs,    \* height * dma_per_line: DMA buffers of a frame without JPEG
  BadHeaders,   \* may a frame lack its JPEG start marker?
  SameCore,     \* do the interrupts run on the filter task's core?
  MaxReceived,  \* bound: DMA buffers between two vsyncs
  MaxBacklog    \* bound: how far the filter task may fall behind

ASSUME ParamAssumption ==
  /\ FbCount \in Nat \ {0}
  /\ QueueLen \in Nat \ {0}
  /\ FbBufs \in Nat \ {0}
  /\ FrameBufs \in Nat \ {0}
  /\ MaxReceived \in Nat \ {0}
  /\ MaxBacklog \in Nat
  /\ {Jpeg, BadHeaders, SameCore} \subseteq BOOLEAN

VARIABLES
  fb,         \* s_state->fb, the buffer being filled
  ref, bad,   \* the flags of each frame buffer
  len,        \* the length of each frame buffer, in DMA buffers
  pixels,     \* the last DMA buffer copied into each frame buffer
  received,   \* dma_received_count
  filtered,   \* dma_filtered_count
  rx,         \* I2S0.conf.rx_start
  i2sIntr,    \* is the I2S interrupt enabled?
  vsyncIntr,  \* is the vsync interrupt enabled?
  dataReady,  \* the queue data_ready
  fbOut, fbIn,\* the queues of filled and of returned frame buffers
  frameReady, \* the binary semaphore frame_ready
  isr,        \* where vsync_isr is
  task,       \* where the filter task is
  cur,        \* local variable fb of camera_fb_done
  consumer,   \* where the consumer is
  scan,       \* local variable fb of i2s_run
  held        \* the frame buffers the consumer holds

frames   == <<fb, ref, bad, len, pixels>>
bus      == <<received, rx, i2sIntr, vsyncIntr>>
exchange == <<fbOut, fbIn, frameReady>>
user     == <<consumer, held, scan>>
vars     == <<frames, bus, filtered, dataReady, exchange, isr, task, cur, user>>

Fbs == 0 .. FbCount - 1
Single == FbCount = 1

\* Frame buffers form a ring: camera_fb_init links each to the next.
NextFb(i) == IF i = FbCount - 1 THEN 0 ELSE i + 1

\* How many links of the ring lead from i to j.
Dist(i, j) == IF j >= i THEN j - i ELSE j - i + FbCount

\* The loop  while(fb->ref && fb->next != stop) fb = fb->next  ends at j.
FindFree(r, start, stop, j) ==
  LET ends(i) == ~ r[i] \/ NextFb(i) = stop
  IN  /\ ends(j)
      /\ \A i \in Fbs : Dist(start, i) < Dist(start, j) => ~ ends(i)

Init ==
  /\ fb = 0 /\ cur = 0 /\ scan = 0
  /\ ref = [i \in Fbs |-> FALSE]
  /\ bad = [i \in Fbs |-> FALSE]
  /\ len = [i \in Fbs |-> 0]
  /\ pixels = [i \in Fbs |-> 0]
  /\ received = 0 /\ filtered = 0
  /\ rx = FALSE /\ i2sIntr = FALSE /\ vsyncIntr = FALSE
  /\ dataReady = <<>> /\ fbOut = <<>> /\ fbIn = <<>>
  /\ frameReady = FALSE
  /\ isr = "idle" /\ task = "receive" /\ consumer = "idle"
  /\ held = {}

-----------------------------------------------------------------------------
(* The bus.                                                                *)

\* i2s_start_bus; the vsync interrupt is only used for JPEG.
StartBus ==
  /\ received' = 0
  /\ rx' = TRUE
  /\ i2sIntr' = TRUE
  /\ vsyncIntr' = (vsyncIntr \/ Jpeg)

-----------------------------------------------------------------------------
(* Interrupts.                                                             *)

\* What an interrupt leaves: bus, data_ready and the bad flag of fb.
\* signal_dma_buf_received drops the buffer of a frame known to be bad, and
\* marks the frame bad when the queue is full.
Signal(q, b) ==
  LET quiet == ~ ref[fb] /\ b[fb]
      full  == Len(q) >= QueueLen
  IN  [queue |-> IF quiet \/ full THEN q ELSE Append(q, "buf"),
       bad   |-> IF full /\ ~ ref[fb] THEN [b EXCEPT ![fb] = TRUE] ELSE b]

\* Mutant: the bus is left running after a good frame.
StopsBusNever(b) == FALSE

\* i2s_stop: a good frame in the only buffer stops the bus.  The send of
\* the end mark is lost when the queue is full.
StopsBus(b) == Single /\ ~ b[fb]
SendEof(q) == IF Len(q) >= QueueLen THEN q ELSE Append(q, "eof")

Stop(s, stopping) ==
  /\ bad' = s.bad
  /\ dataReady' = IF stopping THEN SendEof(s.queue) ELSE s.queue
  /\ LET off == stopping /\ StopsBus(s.bad) IN
       /\ rx' = (rx /\ ~ off)
       /\ i2sIntr' = (i2sIntr /\ ~ off)
       /\ vsyncIntr' = (vsyncIntr /\ ~ off)

\* A DMA buffer is complete.
I2sIsr ==
  /\ rx /\ i2sIntr /\ isr = "idle"
  /\ received < MaxReceived
  /\ Len(dataReady) < MaxBacklog
  /\ LET s    == Signal(dataReady, bad)
         last == ~ Jpeg /\ received + 1 = FrameBufs
     IN  /\ Stop(s, last)
         /\ received' = IF last /\ ~ StopsBus(s.bad) THEN 0 ELSE received + 1
  /\ UNCHANGED <<fb, ref, len, pixels, filtered, exchange, isr, task, cur, user>>

\* The falling edge of vsync, up to and including i2s_stop.
VsyncIsr ==
  /\ vsyncIntr /\ isr = "idle"
  /\ Len(dataReady) < MaxBacklog
  /\ LET s    == IF received > 0 THEN Signal(dataReady, bad)
                 ELSE [queue |-> dataReady, bad |-> bad]
         last == received > 0 /\ (filtered > 1 \/ ~ Single)
     IN  /\ Stop(s, last)
         /\ received' = IF last /\ ~ StopsBus(s.bad) THEN 0
                        ELSE IF received > 0 THEN received + 1 ELSE 0
  /\ isr' = "tail"
  /\ UNCHANGED <<fb, ref, len, pixels, filtered, exchange, task, cur, user>>

\* The second test of dma_filtered_count, read again.
VsyncTail ==
  /\ isr = "tail"
  /\ \/ /\ ~ Single \/ filtered < 2
        /\ rx' = FALSE
        /\ isr' = "restart"
     \/ /\ Single /\ filtered >= 2
        /\ isr' = "idle"
        /\ UNCHANGED rx
  /\ UNCHANGED <<frames, received, i2sIntr, vsyncIntr, filtered, dataReady,
                 exchange, task, cur, user>>

\* DMA is pointed at the next descriptor and switched on again.
VsyncRestart ==
  /\ isr = "restart"
  /\ rx' = TRUE
  /\ received' = 0
  /\ isr' = "idle"
  /\ UNCHANGED <<frames, i2sIntr, vsyncIntr, filtered, dataReady, exchange,
                 task, cur, user>>

Interrupts == I2sIsr \/ VsyncIsr \/ VsyncTail \/ VsyncRestart

-----------------------------------------------------------------------------
(* The filter task.  An interrupt on its own core runs to the end first.   *)

TaskAt(pc) == task = pc /\ (SameCore => isr = "idle")

FilterReceive ==
  /\ TaskAt("receive")
  /\ dataReady # <<>>
  /\ dataReady' = Tail(dataReady)
  /\ task' = IF Head(dataReady) = "eof" THEN "finish" ELSE "filter"
  /\ UNCHANGED <<frames, bus, filtered, exchange, isr, cur, user>>

\* Mutants: without the test for space; the copied buffer is not counted.
FilterBufferNoSpaceTest ==
  /\ TaskAt("filter")
  /\ task' = "receive"
  /\ ~ ref[fb] /\ ~ bad[fb]
  /\ pixels' = [pixels EXCEPT ![fb] = filtered + 1]
  /\ filtered' = filtered + 1
  /\ UNCHANGED <<fb, ref, bad, len, bus, dataReady, exchange, isr, cur, user>>

FilterBufferNoCount ==
  /\ TaskAt("filter")
  /\ task' = "receive"
  /\ ~ ref[fb] /\ ~ bad[fb] /\ filtered < FbBufs
  /\ pixels' = [pixels EXCEPT ![fb] = filtered + 1]
  /\ UNCHANGED <<fb, ref, bad, len, bus, filtered, dataReady, exchange, isr, cur, user>>

\* dma_filter_buffer; good says whether the first buffer of a frame starts
\* with the JPEG marker.
FilterBuffer ==
  /\ TaskAt("filter")
  /\ task' = "receive"
  /\ \/ /\ ref[fb] \/ bad[fb] \/ filtered >= FbBufs
        /\ UNCHANGED <<bad, pixels, filtered>>
     \/ /\ ~ ref[fb] /\ ~ bad[fb] /\ filtered < FbBufs
        /\ pixels' = [pixels EXCEPT ![fb] = filtered + 1]
        /\ \E good \in BOOLEAN :
             /\ good \/ (Jpeg /\ BadHeaders /\ filtered = 0)
             /\ bad' = [bad EXCEPT ![fb] = ~ good]
             /\ filtered' = IF good THEN filtered + 1 ELSE filtered
  /\ UNCHANGED <<fb, ref, len, bus, dataReady, exchange, isr, cur, user>>

\* dma_finish_frame up to the call of camera_fb_done or its end.
FinishBad ==
  /\ TaskAt("finish") /\ ~ ref[fb] /\ bad[fb]
  /\ bad' = [bad EXCEPT ![fb] = FALSE]
  /\ len' = [len EXCEPT ![fb] = 0]
  /\ pixels' = [pixels EXCEPT ![fb] = 0]
  /\ IF Single THEN StartBus ELSE UNCHANGED bus
  /\ task' = "reset"
  /\ UNCHANGED <<fb, ref, filtered, dataReady, exchange, isr, cur, user>>

FinishGood ==
  /\ TaskAt("finish") /\ ~ ref[fb] /\ ~ bad[fb]
  /\ len' = [len EXCEPT ![fb] = filtered]
  /\ IF Single /\ filtered = 0 THEN StartBus ELSE UNCHANGED bus
  /\ task' = IF filtered > 0 THEN "done" ELSE "reset"
  /\ UNCHANGED <<fb, ref, bad, pixels, filtered, dataReady, exchange, isr, cur, user>>

FinishReferenced ==
  /\ TaskAt("finish") /\ ref[fb]
  /\ task' = IF len[fb] > 0 THEN "done" ELSE "reset"
  /\ UNCHANGED <<frames, bus, filtered, dataReady, exchange, isr, cur, user>>

\* dma_filtered_count = 0, the last statement of dma_finish_frame.
FinishReset ==
  /\ TaskAt("reset")
  /\ filtered' = 0
  /\ task' = "receive"
  /\ UNCHANGED <<frames, bus, dataReady, exchange, isr, cur, user>>

\* camera_fb_done with one frame buffer.
FbDoneSingle ==
  /\ TaskAt("done") /\ Single
  /\ frameReady' = TRUE
  /\ task' = "reset"
  /\ UNCHANGED <<frames, bus, filtered, dataReady, fbOut, fbIn, isr, cur, user>>

\* Mutant: the frame is sent out without a reference.
FbDoneNoReference ==
  /\ TaskAt("done") /\ ~ Single
  /\ cur' = fb
  /\ task' = "drain"
  /\ fbOut' = IF fbOut # <<>> THEN fbOut ELSE <<fb>>
  /\ UNCHANGED <<frames, bus, filtered, dataReady, fbIn, frameReady, isr, user>>

\* camera_fb_done with several: reference the frame, look at fb_out.
FbDone ==
  /\ TaskAt("done") /\ ~ Single
  /\ cur' = fb
  /\ \/ /\ ref[fb] \/ len[fb] = 0
        /\ task' = "drain"
        /\ UNCHANGED <<ref, fbOut>>
     \/ /\ ~ ref[fb] /\ len[fb] > 0
        /\ ref' = [ref EXCEPT ![fb] = TRUE]
        /\ task' = IF fbOut # <<>> THEN "replace" ELSE "drain"
        /\ fbOut' = IF fbOut # <<>> THEN fbOut ELSE <<fb>>
  /\ UNCHANGED <<fb, bad, len, pixels, bus, filtered, dataReady, fbIn, frameReady,
                 isr, user>>

\* fb_out was full: the frame in it makes room for the new one.
FbReplace ==
  /\ TaskAt("replace") /\ fbOut # <<>>
  /\ ref' = [ref EXCEPT ![Head(fbOut)] = FALSE]
  /\ len' = [len EXCEPT ![Head(fbOut)] = 0]
  /\ fbOut' = <<cur>>
  /\ task' = "drain"
  /\ UNCHANGED <<fb, bad, pixels, bus, filtered, dataReady, fbIn, frameReady,
                 isr, cur, user>>

\* The consumer popped it first: the branch that only holds a comment.
FbReplaceFails ==
  /\ TaskAt("replace") /\ fbOut = <<>>
  /\ task' = "drain"
  /\ UNCHANGED <<frames, bus, filtered, dataReady, exchange, isr, cur, user>>

\* Mutant: fb_in is peeked at, not received from.
FbDrainPeek ==
  /\ TaskAt("drain")
  /\ ref' = [i \in Fbs |-> ref[i] /\ i \notin ToSet(fbIn)]
  /\ len' = [i \in Fbs |-> IF i \in ToSet(fbIn) THEN 0 ELSE len[i]]
  /\ fb' = NextFb(fb)
  /\ task' = "reset"
  /\ UNCHANGED <<bad, pixels, bus, filtered, dataReady, exchange, isr, cur, user>>

\* Take back the returned buffers, then look for a free one to fill.
FbDrain ==
  /\ TaskAt("drain")
  /\ fbIn' = <<>>
  /\ LET back  == ToSet(fbIn)
         r     == [i \in Fbs |-> ref[i] /\ i \notin back]
         l     == [i \in Fbs |-> IF i \in back THEN 0 ELSE len[i]]
         start == IF l[fb] > 0 THEN NextFb(fb) ELSE fb
     IN  /\ ref' = r
         /\ \E j \in Fbs :
              /\ FindFree(r, start, cur, j)
              /\ fb' = IF r[j] THEN cur ELSE j
              /\ len' = IF r[j] THEN l ELSE [l EXCEPT ![j] = 0]
              /\ pixels' = IF r[j] THEN pixels ELSE [pixels EXCEPT ![j] = 0]
  /\ task' = "reset"
  /\ UNCHANGED <<bad, bus, filtered, dataReady, fbOut, frameReady, isr, cur, user>>

Filter ==
  \/ FilterReceive \/ FilterBuffer
  \/ FinishBad \/ FinishGood \/ FinishReferenced \/ FinishReset
  \/ FbDoneSingle \/ FbDone \/ FbReplace \/ FbReplaceFails \/ FbDrain

-----------------------------------------------------------------------------
(* The consumer.                                                           *)

\* esp_camera_fb_get reads rx_start and enters i2s_run when the bus is off.
FbGet ==
  /\ consumer = "idle" /\ held # Fbs
  /\ consumer' = IF rx THEN "wait" ELSE IF Single THEN "start" ELSE "run"
  /\ scan' = fb
  /\ UNCHANGED <<frames, bus, filtered, dataReady, exchange, isr, task, cur, held>>

\* The wait for a free buffer in i2s_run, one round of its outer loop.
RunFindFree ==
  /\ consumer = "run"
  /\ \E j \in Fbs :
       /\ FindFree(ref, fb, scan, j)
       /\ fb' = j
       /\ consumer' = IF ref[j] THEN "run" ELSE "start"
  /\ UNCHANGED <<ref, bad, len, pixels, bus, filtered, dataReady, exchange, isr,
                 task, cur, held, scan>>

RunStart ==
  /\ consumer = "start"
  /\ StartBus
  /\ consumer' = "wait"
  /\ UNCHANGED <<frames, filtered, dataReady, exchange, isr, task, cur, held, scan>>

TakeFrameReady ==
  /\ consumer = "wait" /\ Single /\ frameReady
  /\ frameReady' = FALSE
  /\ held' = {fb}
  /\ consumer' = "idle"
  /\ UNCHANGED <<frames, bus, filtered, dataReady, fbOut, fbIn, isr, task, cur,
                 scan>>

\* Mutant: fb_out is peeked at, so that the same frame is taken twice.
TakeFbOutPeek ==
  /\ consumer = "wait" /\ ~ Single /\ fbOut # <<>>
  /\ held' = held \cup {Head(fbOut)}
  /\ consumer' = "idle"
  /\ UNCHANGED <<frames, bus, filtered, dataReady, exchange, isr, task, cur, scan>>

TakeFbOut ==
  /\ consumer = "wait" /\ ~ Single /\ fbOut # <<>>
  /\ fbOut' = Tail(fbOut)
  /\ held' = held \cup {Head(fbOut)}
  /\ consumer' = "idle"
  /\ UNCHANGED <<frames, bus, filtered, dataReady, fbIn, frameReady, isr, task, cur,
                 scan>>

\* esp_camera_fb_return does nothing with a single buffer.
FbReturn ==
  /\ consumer = "idle"
  /\ \E i \in held :
       /\ held' = held \ {i}
       /\ IF Single THEN UNCHANGED fbIn
          ELSE Len(fbIn) < FbCount /\ fbIn' = Append(fbIn, i)
  /\ UNCHANGED <<frames, bus, filtered, dataReady, fbOut, frameReady, isr, task,
                 cur, consumer, scan>>

Consumer ==
  \/ FbGet \/ RunFindFree \/ RunStart
  \/ TakeFrameReady \/ TakeFbOut \/ FbReturn

-----------------------------------------------------------------------------

Next == Interrupts \/ Filter \/ Consumer

Spec == Init /\ [][Next]_vars

\* The filter task runs at the highest priority of its core and never blocks
\* between two receives; a running interrupt ends; fb_get goes on once what it
\* waits for is there.  The sensor keeps sending frames, and each frame has
\* data: an edge of vsync cannot forever come instead of the next DMA buffer.
FairSpec ==
  /\ Spec
  /\ WF_vars(Filter)
  /\ SF_vars(I2sIsr)
  /\ WF_vars(VsyncIsr)
  /\ WF_vars(VsyncTail \/ VsyncRestart)
  /\ WF_vars(RunFindFree \/ RunStart \/ TakeFrameReady \/ TakeFbOut)

-----------------------------------------------------------------------------
(* Properties.                                                             *)

\* Every variable stays in its type; in particular dma_filtered_count never
\* passes the number of DMA buffers that fit into a frame buffer, and fb_out
\* never holds more than its one frame.
TypeOK ==
  /\ fb \in Fbs /\ cur \in Fbs /\ scan \in Fbs
  /\ ref \in [Fbs -> BOOLEAN]
  /\ bad \in [Fbs -> BOOLEAN]
  /\ len \in [Fbs -> 0 .. FbBufs]
  /\ pixels \in [Fbs -> 0 .. FbBufs]
  /\ received \in Nat
  /\ filtered \in 0 .. FbBufs
  /\ rx \in BOOLEAN /\ i2sIntr \in BOOLEAN /\ vsyncIntr \in BOOLEAN
  /\ frameReady \in BOOLEAN
  /\ dataReady \in Seq({"buf", "eof"})
  /\ fbOut \in Seq(Fbs) /\ Len(fbOut) <= 1
  /\ fbIn \in Seq(Fbs)
  /\ isr \in {"idle", "tail", "restart"}
  /\ task \in {"receive", "filter", "finish", "done", "replace", "drain", "reset"}
  /\ consumer \in {"idle", "run", "start", "wait"}
  /\ held \in SUBSET Fbs

\* The filter task is about to change the bytes of frame buffer i.
Writes(i) ==
  /\ i = fb /\ ~ ref[i]
  /\ \/ task = "filter" /\ ~ bad[i] /\ filtered < FbBufs
     \/ task = "finish" /\ bad[i]

\* The driver never writes a frame buffer the consumer holds: not the bytes
\* httpd_resp_send is sending, whatever the interrupts do meanwhile.
NoWriteToHeld == \A i \in held : ~ Writes(i)

\* A frame buffer circulates in one place at a time (fb_out, fb_in, or the
\* consumer's hands), and while it does it is referenced and not empty: the
\* flag alone tells the driver to keep off.
Circulation ==
  /\ ToSet(fbOut) \cap ToSet(fbIn) = {}
  /\ held \cap (ToSet(fbOut) \cup ToSet(fbIn)) = {}
  /\ \A a, b \in 1 .. Len(fbIn) : fbIn[a] = fbIn[b] => a = b
  /\ ~ Single => \A i \in held \cup ToSet(fbOut) \cup ToSet(fbIn) :
                   ref[i] /\ len[i] > 0

\* esp_camera_fb_return sends to fb_in with portMAX_DELAY and yet never
\* blocks: fb_in has room as long as a frame is out.
ReturnNeverBlocks == held # {} => Len(fbIn) < FbCount

\* The pipeline implements the frame pool: buffers change owner only as
\* offer, take and return allow, and only the driver changes their contents.
Owner(i) ==
  IF i \in held THEN "consumer"
  ELSE IF i \in ToSet(fbOut) \/ (Single /\ frameReady) THEN "offered"
  ELSE IF i \in ToSet(fbIn) THEN "returned"
  ELSE "driver"

Pool == INSTANCE FramePool
          WITH owner <- [i \in Fbs |-> Owner(i)],
               Images <- (0 .. FbBufs) \X (0 .. FbBufs),
               image <- [i \in Fbs |-> <<len[i], pixels[i]>>]

PoolSpec == Pool!Spec

\* esp_camera_fb_get waits for the next frame with portMAX_DELAY, and gets it.
FbGetReturns == consumer = "wait" ~> consumer # "wait"

\* "is the frame bad?": a frame found bad is discarded at its end, and the
\* buffer is filled again.
BadFrameDiscarded == \A i \in Fbs : bad[i] ~> ~ bad[i]

\* camera_fb_done drops the new frame only for the reason its comment gives:
\* "queue is full and we could not pop a frame from it".
DroppedOnlyWhenFull ==
  [][task = "replace" /\ task' = "drain" => fbOut # <<>>]_vars
=============================================================================
