------------------------------- MODULE Sensor -------------------------------
(***************************************************************************)
(* The OV2640 and its driver (ov2640.c, ov2640_settings.h), over the SCCB  *)
(* bus (sccb.c, twi.c).                                                    *)
(*                                                                         *)
(* The sensor has two banks of registers and a register that selects one.  *)
(* The driver keeps the bank it last selected in a static variable, and    *)
(* selects only when that differs.  Of the registers, only the parts the   *)
(* driver's own data speaks about are kept: the fields of the settings,    *)
(* and what the size and format tables do (not aec_value, which is spread  *)
(* over three registers).  A write that reaches the wrong *)
(* bank falls on a register that is not kept.                              *)
(*                                                                         *)
(* What the driver sends is a sequence of transfers; any of them may fail  *)
(* (no acknowledge, bus busy).  f names the one that does: 0 for none.     *)
(***************************************************************************)
EXTENDS Integers, Sequences, SequencesExt

Banks == {"dsp", "sensor"}

\* Where each part is kept, and as which value it is read when the transfer that reads its
\* register fails (SCCB_Read returns 0xff then).
In(bank, reg, ones) == [bank |-> bank, reg |-> reg, ones |-> ones]
Place == [
  quality  |-> In("dsp", "QS", 255),    gainceiling |-> In("sensor", "COM9", 7),
  bpc      |-> In("dsp", "CTRL3", 1),   wpc         |-> In("dsp", "CTRL3", 1),
  raw_gma  |-> In("dsp", "CTRL1", 1),   lenc        |-> In("dsp", "CTRL1", 1),
  awb      |-> In("dsp", "CTRL1", 1),   awb_gain    |-> In("dsp", "CTRL1", 1),
  aec2     |-> In("dsp", "CTRL0", 1),   agc_gain    |-> In("sensor", "GAIN", 30),
  agc      |-> In("sensor", "COM8", 1), aec         |-> In("sensor", "COM8", 1),
  hmirror  |-> In("sensor", "REG04", 1), vflip      |-> In("sensor", "REG04", 1),
  dcw      |-> In("dsp", "CTRL2", 1),   colorbar    |-> In("sensor", "COM7", 1),
  \* the levels: dsp registers behind BPADDR, one of which enables them, and AEW, AEB, VV
  contrast |-> In("dsp", "SDE4", 255),  brightness  |-> In("dsp", "SDE9", 255),
  saturation |-> In("dsp", "SDE3", 255), special_effect |-> In("dsp", "SDE5", 255),
  ae_level |-> In("sensor", "AEW", 255), wb_mode    |-> In("dsp", "WB", 255),
  \* no settings: enables, and the format and the size of the picture
  sde      |-> In("dsp", "SDE0", 255),  wb_on       |-> In("dsp", "C7", 1),
  vref     |-> In("sensor", "REG04", 1), mode       |-> In("dsp", "IMAGE_MODE", 255),
  outsize  |-> In("dsp", "ZMOW", 255),  window      |-> In("dsp", "HSIZE", 255),
  res      |-> In("sensor", "COM7", 255), held      |-> In("dsp", "RESET", 255),
  bypass   |-> In("dsp", "R_BYPASS", 255)]

Parts == DOMAIN Place
Levels == {"contrast", "brightness", "saturation", "special_effect", "ae_level"}
Settings == Parts \ {"sde", "wb_on", "vref", "mode", "outsize", "window", "res", "held", "bypass"}
Unknown == -1   \* the content of a register after a reset, or of another register

\* The parts of one register.
Peers(p) == {q \in Parts : Place[q].bank = Place[p].bank /\ Place[q].reg = Place[p].reg}

\* Transfers: select a bank, write whole registers, read one, write it with one part changed.
Bank(b) == [op |-> "bank", to |-> b]
Write(values) == [op |-> "write", to |-> values]
Read(p) == [op |-> "read", part |-> p]
WriteBack(p, x) == [op |-> "bits", part |-> p, to |-> x]
SwReset == [op |-> "srst"]

-----------------------------------------------------------------------------
(* The sensor.  home is the bank it is in after a reset.                   *)
Reset(chip) == [chip EXCEPT !.bank = chip.home, !.regs = [p \in Parts |-> Unknown]]

Put(chip, values) ==
  [chip EXCEPT !.regs = [p \in Parts |->
     IF p \in DOMAIN values /\ Place[p].bank = chip.bank THEN values[p] ELSE @[p]]]

-----------------------------------------------------------------------------
(* The driver.  d is [chip, cache, seen, ok]: the sensor, reg_bank, the    *)
(* register read last, and whether every transfer so far went through.     *)
SetBankStale(d, b, ack) ==   \* mutant: the bank is cached only by reads
  [d EXCEPT !.chip.bank = IF ack /\ b # d.cache THEN b ELSE @, !.ok = ack \/ b = d.cache]

SetBank(d, b, ack) ==
  IF b = d.cache THEN d
  ELSE [d EXCEPT !.cache = b, !.chip.bank = IF ack THEN b ELSE @, !.ok = ack]

Send(d, o, ack) ==
  CASE o.op = "bank"  -> SetBank(d, o.to, ack)
    [] o.op = "read"  -> [d EXCEPT !.seen = [p \in Parts |-> IF ack THEN d.chip.regs[p] ELSE Place[p].ones]]
    [] o.op = "write" -> [d EXCEPT !.ok = ack, !.chip = IF ack THEN Put(@, o.to) ELSE @]
    [] o.op = "bits"  -> [d EXCEPT !.ok = ack, !.chip = IF ack
         THEN Put(@, [q \in Peers(o.part) |-> IF q = o.part THEN o.to ELSE d.seen[q]]) ELSE @]
    [] o.op = "srst"  -> [d EXCEPT !.ok = ack, !.chip = IF ack /\ @.bank = "sensor" THEN Reset(@) ELSE @]

\* write_regs and the ..._OR_RETURN macros stop at the first write that fails.
Run(d, ops, f) ==
  LET after[i \in 0..Len(ops)] ==
        IF i = 0 THEN [d EXCEPT !.ok = TRUE]
        ELSE LET a == after[i - 1] IN IF a.ok THEN Send(a, ops[i], i # f) ELSE a
  IN  after[Len(ops)]

-----------------------------------------------------------------------------
(* The tables of ov2640_settings.h.                                        *)
Cif == <<
  Bank("dsp"), Bank("sensor"),
  Write([hmirror |-> 0, vflip |-> 0]), Write([agc |-> 1, aec |-> 1]), Write([gainceiling |-> 2]),
  Write([res |-> 0, colorbar |-> 0]),
  Bank("dsp"), Write([held |-> 1]), Write([bpc |-> 0, wpc |-> 1]),
  Write([raw_gma |-> 1, lenc |-> 0, awb |-> 1, awb_gain |-> 1]),
  Write([mode |-> 0]), Write([held |-> 0]), Write([bypass |-> 0])>>

\* The size tables: 0 cif, 1 svga, 2 uxga.
ToSize(size) == <<
  Bank("sensor"), Write([res |-> size, colorbar |-> 0]),
  Bank("dsp"), Write([held |-> 1]), Write([window |-> size]), Write([dcw |-> 1])>>

\* The format tables: yuv422 is 0, rgb565 is 1, jpeg is 2.
ToFormat(mode) == <<Bank("dsp"), Write([held |-> 1]), Write([mode |-> mode]), Write([held |-> 0])>>

Mode(format) ==
  CASE format = "JPEG" -> 2 [] format \in {"RGB565", "RGB888"} -> 1 [] OTHER -> 0

\* The table of a framesize_t: up to CIF (5), up to SVGA (7), the rest.
SizeOf(framesize) == IF framesize <= 5 THEN 0 ELSE IF framesize <= 7 THEN 1 ELSE 2

-----------------------------------------------------------------------------
(* The driver's operations, as the transfers they make.                    *)
ResetOps == <<Bank("sensor"), SwReset>> \o Cif
PixformatOps(format) == ToFormat(Mode(format))
FramesizeOps(framesize) ==
  <<Bank("dsp"), Write([bypass |-> 1])>> \o ToSize(SizeOf(framesize))
  \o <<Bank("dsp"), Write([outsize |-> framesize]), Write([held |-> 0]), Write([bypass |-> 0])>>

\* The enable mask that a level's table writes over that of the other levels.
Mask(p, x) ==
  CASE p \in {"contrast", "brightness"} -> 4 [] p = "saturation" -> 2
    [] OTHER -> IF x = 0 THEN 0 ELSE IF x = 1 THEN 64 ELSE 24
Legal(p, x) ==
  /\ p = "special_effect" => x \in 0..6
  /\ p \in Levels \ {"special_effect"} => x \in -2..2
  /\ p = "wb_mode" => x \in 0..4

\* set_quality and set_agc_gain limit what they are given.
Clamp(p, x) ==
  LET top == IF p = "quality" THEN 63 ELSE 30
  IN  IF p \notin {"quality", "agc_gain"} THEN x ELSE IF x < 0 THEN 0 ELSE IF x > top THEN top ELSE x

\* set_reg_bits
BitsOps(p, x) == <<Bank(Place[p].bank), Read(p), WriteBack(p, x)>>
SetOps(p, x) ==
  CASE p \in {"quality", "agc_gain", "ae_level"} -> <<Bank(Place[p].bank), Write([q \in {p} |-> x])>>
    [] p \in Levels \ {"ae_level"} -> <<Bank("dsp"), Write([sde |-> Mask(p, x)]), Write([q \in {p} |-> x])>>
    [] p = "wb_mode" -> BitsOps("wb_on", IF x = 0 THEN 0 ELSE 1)
                        \o (IF x = 0 THEN <<>> ELSE <<Bank("dsp"), Write([q \in {p} |-> x])>>)
    [] p = "aec2" -> BitsOps(p, 1 - x)
    [] OTHER -> BitsOps(p, x)

\* set_vflip_sensor sets two bits, and fails only if both writes fail.
Set(d, p, x, f) ==
  IF p # "vflip" THEN Run(d, SetOps(p, x), f)
  ELSE LET vref  == Run(d, BitsOps("vref", x), f)
           vflip == Run(vref, BitsOps("vflip", x), f - 3)
       IN  [vflip EXCEPT !.ok = vref.ok \/ vflip.ok]

\* set_framesize ends with set_pixformat, whose result it ignores: f counts on through both.
SetFramesize(d, framesize, format, f) ==
  LET sized == Run(d, FramesizeOps(framesize), f)
  IN  IF ~ sized.ok THEN sized
      ELSE [Run(sized, PixformatOps(format), f - Len(FramesizeOps(framesize))) EXCEPT !.ok = TRUE]

\* init_status reads the registers back, selecting the banks as it goes; it reports no error.
\* A failed selection reads as 0, and leaves the driver in the wrong bank for what follows.
StatusOrder == <<"agc_gain", "quality", "gainceiling", "awb", "awb_gain", "aec", "aec2", "agc", "bpc",
                 "wpc", "raw_gma", "lenc", "hmirror", "vflip", "dcw", "colorbar">>
ReadOne(a, i, f) ==
  LET p == StatusOrder[i]
      s == SetBank([a.d EXCEPT !.ok = TRUE], Place[p].bank, 2 * i - 1 # f)
  IN  [d |-> s, status |-> [a.status EXCEPT ![p] =
         IF ~ s.ok THEN 0
         ELSE IF 2 * i = f THEN Place[p].ones
         ELSE IF s.chip.bank = Place[p].bank THEN s.chip.regs[p] ELSE Unknown]]
ReadStatus(d, f) ==
  LET reading[i \in 0..Len(StatusOrder)] ==
        IF i = 0 THEN [d |-> d, status |-> [p \in Settings |-> 0]] ELSE ReadOne(reading[i - 1], i, f)
  IN  reading[Len(StatusOrder)]
=============================================================================
