---------------------------- MODULE PictureReader ----------------------------
(* What a client makes of the body of the answer to a GET of /jpg: it decodes *)
(* the JPEG file as ITU T.81 says and compares it with the frame the camera   *)
(* delivered.  Nothing here is code of the firmware: it is the reference the  *)
(* properties are stated against.                                             *)
EXTENDS ResponseReader

Best(S, beats(_, _)) == CHOOSE s \in S : \A t \in S : beats(s, t)
Abs(n) == IF n < 0 THEN -n ELSE n

-----------------------------------------------------------------------------
(* The file: its segments up to the start of the scan, then the scan. *)
At(b, i) == IF i \in DOMAIN b THEN b[i] ELSE 0
Two(b, i) == At(b, i) * 256 + At(b, i + 1)
\* Where the segments start, from p on and up to the start of the scan.
RECURSIVE SegmentsFrom(_, _)
SegmentsFrom(b, p) ==
  IF p > Len(b) THEN <<>>
  ELSE IF Two(b, p) = 65498 THEN <<p>> ELSE <<p>> \o SegmentsFrom(b, p + 2 + Two(b, p + 2))
\* The segment of a kind whose fifth byte, a table's number, is n.
Named(b, segments, marker, n) ==
  Best({p \in Range(segments) : Two(b, p) = marker /\ At(b, p + 4) = n}, <=)

\* The code lengths of a Huffman table segment at p: smallest and greatest
\* code of each length, and where its symbols start.
Huffman(b, p) ==
  LET count(l) == At(b, p + 4 + l)
      low[l \in 1..17] == IF l = 1 THEN 0 ELSE (low[l - 1] + count(l - 1)) * 2
      first[l \in 1..17] == IF l = 1 THEN p + 21 ELSE first[l - 1] + count(l - 1)
  IN <<>> \o [l \in 1..16 |-> [low |-> low[l], count |-> count(l), first |-> first[l]]]

\* The scan's bits, without the zero after every FF.
ScanStart(b, segments) == LET p == segments[Len(segments)] IN p + 2 + Two(b, p + 2)
ScanBits(data) ==
  LET bytes == FlattenSeq([i \in DOMAIN data |->
                             IF data[i] = 0 /\ i > 1 /\ At(data, i - 1) = 255 THEN <<>> ELSE <<data[i]>>])
  IN <<>> \o [i \in 1..(8 * Len(bytes)) |->
                (bytes[((i - 1) \div 8) + 1] \div 2 ^ (7 - ((i - 1) % 8))) % 2]
WellFormed(b, segments) ==
  /\ Len(b) > 4 /\ Two(b, 1) = 65496 /\ Two(b, Len(b) - 1) = 65497
  /\ segments # <<>> /\ Two(b, segments[Len(segments)]) = 65498 /\ ScanStart(b, segments) <= Len(b) - 2
  /\ \A i \in ScanStart(b, segments)..(Len(b) - 3) : b[i] = 255 => b[i + 1] = 0

RECURSIVE Number(_, _, _)
Number(bits, p, n) == IF n = 0 THEN 0 ELSE 2 * Number(bits, p, n - 1) + At(bits, p + n - 1)
\* A symbol at p: the shortest code of the table the bits match.
Lengths(table, bits, p) ==
  {l \in 1..16 : Number(bits, p, l) - table[l].low \in 0..(table[l].count - 1)}
SymbolOf(b, table, bits, p, l) ==
  [v |-> At(b, table[l].first + Number(bits, p, l) - table[l].low), p |-> p + l]
Symbol(b, table, bits, p) ==
  LET lengths == Lengths(table, bits, p)
  IN IF lengths = {} THEN [v |-> 0, p |-> p + 16] ELSE SymbolOf(b, table, bits, p, Best(lengths, <=))
\* A number of n bits: the lower half of the range stands for the negatives.
Extend(v, n) == IF n > 0 /\ v < 2 ^ (n - 1) THEN v - 2 ^ n + 1 ELSE v

\* A block: the coefficients before k are decoded, in zigzag order.
RECURSIVE Decoded(_, _, _, _, _)
Decoded(b, table, bits, p, coef) ==
  IF Len(coef) >= 64 THEN [p |-> p, coef |-> coef]
  ELSE LET s == Symbol(b, table, bits, p)
           run == s.v \div 16
           n == s.v % 16
           zeros(k) == [i \in 1..k |-> 0]
       IN IF s.v = 0 THEN [p |-> s.p, coef |-> coef \o zeros(64 - Len(coef))]
          ELSE IF n = 0 THEN Decoded(b, table, bits, s.p, coef \o zeros(run + 1))
          ELSE Decoded(b, table, bits, s.p + n, coef \o zeros(run) \o <<Extend(Number(bits, s.p, n), n)>>)

\* The blocks of the scan, the predictors running on, and whether ones fill
\* the last byte.  Grey pictures have the first pair of tables only.
Read(prev, c, rest) ==
  [p |-> rest.p, last |-> [prev.last EXCEPT ![c] = rest.coef[1]], coefs |-> Append(prev.coefs, rest.coef)]
Level(b, prev, c, ac, bits, size) ==
  Read(prev, c, Decoded(b, ac, bits, size.p + size.v,
                        <<prev.last[c] + Extend(Number(bits, size.p, size.v), size.v)>>))
Block(b, prev, c, dc, ac, bits) == Level(b, prev, c, ac, bits, Symbol(b, dc, bits, prev.p))
Blocks(b, bits, order, dc, ac) ==
  LET block[k \in 0..Len(order)] ==
        IF k = 0 THEN [p |-> 1, last |-> <<0, 0, 0>>, coefs |-> <<>>]
        ELSE Block(b, block[k - 1], order[k].c, dc[order[k].t], ac[order[k].t], bits)
  IN block[Len(order)]
Padded(bits, p) == p - 1 <= Len(bits) /\ Len(bits) - p < 7 /\ \A i \in p..Len(bits) : bits[i] = 1
ScanEnd(bits, end) == [coefs |-> end.coefs, padded |-> Padded(bits, end.p)]
Tables(b, segments, order, class) ==
  [t \in {order[k].t : k \in DOMAIN order} |-> Huffman(b, Named(b, segments, 65476, class + t))]
BitsScan(b, segments, order, bits) ==
  ScanEnd(bits, Blocks(b, bits, order, Tables(b, segments, order, 0), Tables(b, segments, order, 16)))
Scan(b, segments, order) ==
  BitsScan(b, segments, order, ScanBits(SubSeq(b, ScanStart(b, segments), Len(b) - 2)))

-----------------------------------------------------------------------------
(* The picture: the samples the blocks stand for, padded with the last pixel  *)
(* of each line and the last line, and their cosine transform, from four      *)
(* times the samples.                                                         *)
Cosine(k) == LET c == <<1024, 1004, 946, 851, 724, 569, 392, 200, 0>>
                 m == IF k % 32 > 16 THEN 32 - (k % 32) ELSE k % 32
             IN IF m <= 8 THEN c[m + 1] ELSE -c[17 - m]
CosineTable == <<>> \o [x \in 1..8 |-> <<>> \o [u \in 1..8 |-> Cosine((2 * x - 1) * (u - 1))]]
Sum8(f(_)) == f(1) + f(2) + f(3) + f(4) + f(5) + f(6) + f(7) + f(8)
Transform(sample(_, _)) ==
  LET s == <<>> \o [i \in 1..64 |-> sample((i - 1) % 8, (i - 1) \div 8)]
      pass == <<>> \o [i \in 1..64 |->
                Sum8(LAMBDA x : s[8 * ((i - 1) \div 8) + x] * CosineTable[x][((i - 1) % 8) + 1]) \div 64]
      scale(u, v) == IF u = 1 /\ v = 1 THEN 512 ELSE IF u = 1 \/ v = 1 THEN 724 ELSE 1024
      value(u, v) == ((Sum8(LAMBDA y : pass[8 * y - 8 + u] * CosineTable[y][v]) \div 256) * scale(u, v)) \div 2 ^ 20
  IN <<>> \o [i \in 1..64 |-> value(((i - 1) % 8) + 1, ((i - 1) \div 8) + 1)]

Pixel(f, x, y) ==
  LET p == ConvertLine(Frame[f].format, Frame[f].lines[IF y < Frame[f].height THEN y + 1 ELSE Frame[f].height])
  IN p[IF x < Frame[f].width THEN x + 1 ELSE Frame[f].width]
Component(f, p, c) == IF Frame[f].format = "GRAYSCALE" THEN p ELSE RgbToYcc(p)[c]

\* The blocks in scan order: component, number of its tables
\* and place of the upper left sample.
Order(f) ==
  LET unit == IF Frame[f].format = "GRAYSCALE" THEN 8 ELSE 16
      across == (Frame[f].width + unit - 1) \div unit
      down == (Frame[f].height + unit - 1) \div unit
      at(k, i) == <<((k - 1) % across) * unit + 8 * (i % 2), ((k - 1) \div across) * unit + 8 * (i \div 2)>>
      y(k, i) == [c |-> 1, t |-> 0, at |-> at(k, i)]
      blocks(k) == IF unit = 8 THEN <<y(k, 0)>>
                   ELSE <<y(k, 0), y(k, 1), y(k, 2), y(k, 3), 
                        [c |-> 2, t |-> 1, at |-> at(k, 0)], [c |-> 3, t |-> 1, at |-> at(k, 0)]>>
  IN FlattenSeq([k \in 1..(across * down) |-> blocks(k)])
\* Four times a sample: a chroma sample is the mean of four pixels.
Sample(f, block, x, y) ==
  IF block.c = 1 THEN 4 * (Component(f, Pixel(f, block.at[1] + x, block.at[2] + y), 1) - 128)
  ELSE LET pixel(c, r) == Component(f, Pixel(f, block.at[1] + 2 * x + c, block.at[2] + 2 * y + r), block.c)
       IN pixel(0, 0) + pixel(1, 0) + pixel(0, 1) + pixel(1, 1) - 512
\* What the encoder's integers lose of a coefficient: 2, and 4 more where it
\* rounds the means of pixels to whole samples.
Loss(c) == IF c = 1 THEN 2 ELSE 6

\* The file is a picture of the frame: of its size, and every coefficient as
\* close to the transform of the frame as half a step of the file's
\* quantisation table and the encoder's losses.
Close(b, coef, steps, t, loss) ==
  \A i \in 1..64 : 2 * Abs(coef[i] * At(b, steps + i) - t[s_zag[i] + 1]) <= At(b, steps + i) + 2 * loss
Sized(b, f, sof) ==
  Two(b, sof + 5) = Frame[f].height /\ Two(b, sof + 7) = Frame[f].width /\ At(b, sof + 9) = Channels(f)
Matches(b, f, segments, order, scan) ==
  /\ scan.padded
  /\ \A k \in DOMAIN order :
       Close(b, scan.coefs[k], Named(b, segments, 65499, order[k].t) + 4,
             Transform(LAMBDA x, y : Sample(f, order[k], x, y)), Loss(order[k].c))
Decodes(b, f, segments, order) ==
  /\ WellFormed(b, segments)
  /\ Sized(b, f, CHOOSE p \in Range(segments) : Two(b, p) = 65472)
  /\ Matches(b, f, segments, order, Scan(b, segments, order))
Shows(b, f) == Decodes(b, f, SegmentsFrom(b, 3), Order(f))

-----------------------------------------------------------------------------
(* Properties. *)

\* A response the client sees as complete has the whole picture as its body:
\* the frame's own bytes, or a JPEG file that decodes to the frame, however
\* the encoder's buffers cut it into chunks, the sends cut the chunks and
\* wherever a send failed (jpg_http_handler, app_main.c:142-181; jpge.cpp).
WholePicture ==
  (res = "OK" /\ fb # NULL /\ Response(wire).complete) =>
    LET body == Response(wire).body
    IN IF Format = "JPEG" THEN body = Frame[fb].data ELSE Shows(body, fb)

\* Whatever fails, the handler gives its frame back to the camera and frees
\* the encoder's memory: a frame kept would be one buffer fewer for every later
\* picture (app_main.c:176, to_jpg.cpp:87-136).
FrameReturned == fb # NULL ~> (fb = NULL /\ held = {})
=============================================================================
