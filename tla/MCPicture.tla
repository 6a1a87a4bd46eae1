------------------------------ MODULE MCPicture ------------------------------
(* The frames for TLC: a compressed one, and raw ones whose size is not a     *)
(* multiple of the encoder's units, with flat, busy and sparse contents.      *)
EXTENDS PictureReader, TLC

Raw(format, lines) ==
  [format |-> format, width |-> Len(lines[1]), height |-> Len(lines), lines |-> lines]
Busy(x, y) == (37 * x + 91 * y + 13 * x * y) % 256
Spark(x, y) == IF x = 7 /\ y = 5 THEN 255 ELSE 40
MCFrame ==
  "jpeg" :> [format |-> "JPEG", data |-> <<255, 216, 1, 255, 217>>]
  @@ "empty" :> [format |-> "JPEG", data |-> <<>>]
  @@ "busy" :> Raw("GRAYSCALE", [y \in 1..9 |-> [x \in 1..9 |-> Busy(x, y)]])
  @@ "spark" :> Raw("GRAYSCALE", [y \in 1..10 |-> [x \in 1..8 |-> Spark(x, y)]])
  @@ "dot" :> Raw("GRAYSCALE", <<<<200>>>>)
  @@ "stripes" :> Raw("GRAYSCALE", [y \in 1..3 |-> [x \in 1..17 |-> 255 * (x % 2)]])
  @@ "last" :> Raw("GRAYSCALE", [y \in 1..8 |-> [x \in 1..8 |-> 255 * ((x + y) % 2)]])
  @@ "colour" :> Raw("RGB888", [y \in 1..3 |-> [x \in 1..5 |-> <<Busy(x, y), 50 * x, 80 * y>>]])
  @@ "units" :> Raw("RGB888", [y \in 1..18 |-> [x \in 1..17 |-> <<(x * x * y) % 256, Busy(y, x), 255 * (x % 2)>>]])
  @@ "narrow" :> Raw("RGB565", [y \in 1..17 |-> [x \in 1..3 |-> <<Busy(y, x), Busy(x, 3)>>]])

\* What the proofs about the handler take from the encoder, for these frames.
ASSUME EncoderPromise == \A f \in Buffers : Frame[f].format # "JPEG" => FillsBuffers(f)
=============================================================================
