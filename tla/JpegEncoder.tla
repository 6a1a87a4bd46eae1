----------------------------- MODULE JpegEncoder -----------------------------
(* jpge: the baseline JPEG encoder the firmware converts raw frames with, for *)
(* the two layouts convert_image asks for: grey (one component, 8x8 units)    *)
(* and colour with 2x2 subsampled chroma (three components, 16x16 units).     *)
(* A picture is encoded line by line: lines collect in m_mcu_lines, a full    *)
(* row of units is transformed, quantised and Huffman coded, and the bytes    *)
(* leave in buffers of OutBuf bytes.  The encoder is a record: the operators  *)
(* below return the record after a call.                                      *)
EXTENDS Integers, Sequences, SequencesExt

CONSTANTS
  OutBuf,    \* JPGE_OUT_BUF_SIZE
  Quality    \* m_quality, 1..100

ASSUME EncoderAssumption == OutBuf \in Nat \ {0} /\ Quality \in 1..100

s_zag == <<0,1,8,16,9,2,3,10,17,24,32,25,18,11,4,5,12,19,26,33,40,48,41,34,27,20,13,6,7,14,21,28,35,
  42,49,56,57,50,43,36,29,22,15,23,30,37,44,51,58,59,52,45,38,31,39,46,53,60,61,54,47,55,62,63>>
s_std_lum_quant == <<16,11,12,14,12,10,16,14,13,14,18,17,16,19,24,40,26,24,22,22,24,49,35,37,29,40,58,
  51,61,60,57,51,56,55,64,72,92,78,64,68,87,69,55,56,80,109,81,87,95,98,103,104,103,62,77,113,121,112,
  100,120,92,101,103,99>>
s_std_croma_quant == <<17,18,18,24,21,24,47,26,26,47,99,66,56,66>> \o [i \in 1..50 |-> 99]

\* The *_bits tables: how many codes have each length, from 1 bit to 16.
s_dc_lum_bits == <<0,1,5,1,1,1,1,1,1,0,0,0,0,0,0,0>>
s_ac_lum_bits == <<0,2,1,3,3,2,4,3,5,5,4,4,0,0,1,125>>
s_dc_chroma_bits == <<0,3,1,1,1,1,1,1,1,1,1,0,0,0,0,0>>
s_ac_chroma_bits == <<0,2,1,2,4,4,3,4,7,5,4,4,0,1,2,119>>
dc_val == [i \in 1..12 |-> i - 1]

\* The *_val tables: the symbols in the order of their codes.  Both end with
\* the symbols no shorter code took, in increasing order.
AcVal(first) ==
  first \o FlattenSeq([run \in 1..16 |-> SelectSeq([size \in 1..10 |-> 16 * (run - 1) + size],
                                                  LAMBDA symbol : symbol \notin Range(first))])
s_ac_lum_val == AcVal(<<1,2,3,0,4,17,5,18,33,49,65,6,19,81,97,7,34,113,20,50,129,145,161,8,35,66,177,
  193,21,82,209,240,36,51,98,114,130>>)
s_ac_chroma_val == AcVal(<<0,1,2,3,17,4,5,33,49,6,18,65,81,7,97,113,19,34,50,129,8,20,66,145,161,177,193,
  9,35,51,82,240,21,98,114,209,10,22,36,52,225,37,241>>)

\* compute_huffman_table: the canonical code of each symbol, as <<code, size>>.
HuffmanTable(bits, val) ==
  LET huff_size == FlattenSeq([l \in 1..16 |-> [i \in 1..bits[l] |-> l]])
      huff_code[p \in DOMAIN huff_size] ==
        IF p = 1 THEN 0 ELSE (huff_code[p - 1] + 1) * 2 ^ (huff_size[p] - huff_size[p - 1])
      at(v) == CHOOSE p \in DOMAIN huff_size : val[p] = v
  IN [v \in {val[p] : p \in DOMAIN huff_size} |-> <<huff_code[at(v)], huff_size[at(v)]>>]

DcLum == HuffmanTable(s_dc_lum_bits, dc_val)
AcLum == HuffmanTable(s_ac_lum_bits, s_ac_lum_val)
DcChroma == HuffmanTable(s_dc_chroma_bits, dc_val)
AcChroma == HuffmanTable(s_ac_chroma_bits, s_ac_chroma_val)

\* compute_quant_table
QuantTable(std) ==
  LET q == IF Quality < 50 THEN 5000 \div Quality ELSE 200 - 2 * Quality
      scaled(i) == (std[i] * q + 50) \div 100
  IN [i \in 1..64 |-> IF scaled(i) < 1 THEN 1 ELSE IF scaled(i) > 255 THEN 255 ELSE scaled(i)]
LumQuant == QuantTable(s_std_lum_quant)
ChromaQuant == QuantTable(s_std_croma_quant)

-----------------------------------------------------------------------------
\* emit_byte and flush_output_buffer: every full buffer is a call of put_buf.
Emit(e, bytes) ==
  LET all == e.out_buf \o bytes
      full == Len(all) \div OutBuf
  IN [e EXCEPT !.out_buf = SubSeq(all, full * OutBuf + 1, Len(all)),
               !.puts = @ \o [k \in 1..full |-> SubSeq(all, (k - 1) * OutBuf + 1, k * OutBuf)]]
Flush(e) ==
  IF e.out_buf = <<>> THEN e
                      ELSE [e EXCEPT !.puts = Append(@, e.out_buf), !.out_buf = <<>>]

\* put_bits, for a sequence of <<bits, length>>: whole bytes leave the bit
\* buffer, and a byte FF is followed by a zero so that no marker appears.
\* Mutant: no zero after FF.
StuffedNever(c) == <<c>>
Stuffed(c) == IF c = 255 THEN <<255, 0>> ELSE <<c>>
WholeBytes(buffer, in, bytes) ==
  LET byte(k) == (buffer \div 2 ^ (in - 8 * k)) % 256
  IN [buffer |-> buffer % 2 ^ (in % 8), in |-> in % 8,
      bytes |-> bytes \o FlattenSeq([k \in 1..(in \div 8) |-> Stuffed(byte(k))])]
PutCode(bits, code) ==
  WholeBytes(bits.buffer * 2 ^ code[2] + code[1], bits.in + code[2], bits.bytes)
Leave(e, bits) == Emit([e EXCEPT !.bit_buffer = bits.buffer, !.bits_in = bits.in], bits.bytes)
PutBits(e, codes) ==
  LET put[i \in 0..Len(codes)] ==
        IF i = 0 THEN [buffer |-> e.bit_buffer, in |-> e.bits_in, bytes |-> <<>>]
                 ELSE PutCode(put[i - 1], codes[i])
  IN Leave(e, put[Len(codes)])

Word(i) == <<i \div 256, i % 256>>
Marker(m) == <<255, m>>
M_SOI == Marker(216)
M_EOI == Marker(217)
\* emit_jfif_app0, emit_dqt, emit_sof, emit_dht, emit_sos
App0 == Marker(224) \o Word(16) \o <<74, 70, 73, 70, 0, 1, 1, 0>> \o Word(1) \o Word(1) \o <<0, 0>>
Dqt(index, table) == Marker(219) \o Word(67) \o <<index>> \o table
Sof(e) ==
  Marker(192) \o Word(3 * e.components + 8) \o <<8>> \o Word(e.image_y) \o Word(e.image_x)
  \o <<e.components, 1, IF e.components = 1 THEN 17 ELSE 34, 0>>
  \o (IF e.components = 1 THEN <<>> ELSE <<2, 17, 1, 3, 17, 1>>)
CodeCount(bits) == Len(FlattenSeq([l \in 1..16 |-> [i \in 1..bits[l] |-> l]]))
Dht(bits, val, index) ==
  Marker(196) \o Word(CodeCount(bits) + 19) \o <<index>> \o bits \o SubSeq(val, 1, CodeCount(bits))
Sos(e) ==
  Marker(218) \o Word(2 * e.components + 6) \o <<e.components, 1, 0>>
  \o (IF e.components = 1 THEN <<>> ELSE <<2, 17, 3, 17>>) \o <<0, 63, 0>>
Header(e) ==
  M_SOI \o App0 \o Dqt(0, LumQuant) \o (IF e.components = 1 THEN <<>> ELSE Dqt(1, ChromaQuant))
  \o Sof(e) \o Dht(s_dc_lum_bits, dc_val, 0) \o Dht(s_ac_lum_bits, s_ac_lum_val, 16)
  \o (IF e.components = 1 THEN <<>>
      ELSE Dht(s_dc_chroma_bits, dc_val, 1) \o Dht(s_ac_chroma_bits, s_ac_chroma_val, 17))
  \o Sos(e)

\* init and jpg_open.  The lines of a fresh buffer hold whatever malloc found;
\* zeros stand for it.
RoundUp(n, unit) == ((n + unit - 1) \div unit) * unit
JpgOpen(width, height, channels) ==
  LET mcu == IF channels = 1 THEN 8 ELSE 16
      line == [x \in 1..RoundUp(width, mcu) |-> IF channels = 1 THEN 0 ELSE <<0, 0, 0>>]
      e == [components |-> channels, mcu |-> mcu, image_x |-> width, image_y |-> height,
            mcu_lines |-> [i \in 1..mcu |-> line], mcu_y_ofs |-> 0, last_dc_val |-> <<0, 0, 0>>,
            bit_buffer |-> 0, bits_in |-> 0, out_buf |-> <<>>, puts |-> <<>>]
  IN Emit(e, Header(e))

-----------------------------------------------------------------------------
\* RGB_to_YCC
Clamp255(i) == IF i < 0 THEN 0 ELSE IF i > 255 THEN 255 ELSE i
RgbToYcc(p) ==
  <<(p[1] * 19595 + p[2] * 38470 + p[3] * 7471 + 32768) \div 65536,
    Clamp255(128 + ((p[1] * (-11059) + p[2] * (-21709) + p[3] * 32768 + 32768) \div 65536)),
    Clamp255(128 + ((p[1] * 32768 + p[2] * (-27439) + p[3] * (-5329) + 32768) \div 65536))>>

\* DCT1D and DCT2D: the integer transform of jfdctint.
Int16(v) == ((v + 32768) % 65536) - 32768
Mul(v, c) == Int16(v) * c
Descale(v, n) == (v + 2 ^ (n - 1)) \div 2 ^ n
Dct1D(s) ==
  LET t0 == s[1] + s[8]  t7 == s[1] - s[8]  t1 == s[2] + s[7]  t6 == s[2] - s[7]
      t2 == s[3] + s[6]  t5 == s[3] - s[6]  t3 == s[4] + s[5]  t4 == s[4] - s[5]
      t10 == t0 + t3  t13 == t0 - t3  t11 == t1 + t2  t12 == t1 - t2
      u == Mul(t12 + t13, 4433)
      z5 == Mul(t4 + t6 + t5 + t7, 9633)
      u1 == Mul(t4 + t7, -7373)  u2 == Mul(t5 + t6, -20995)
      u3 == Mul(t4 + t6, -16069) + z5  u4 == Mul(t5 + t7, -3196) + z5
  IN <<t10 + t11, Mul(t7, 12299) + u1 + u4, u + Mul(t13, 6270), Mul(t6, 25172) + u2 + u3,
       t10 - t11, Mul(t5, 16819) + u2 + u4, u + Mul(t12, -15137), Mul(t4, 2446) + u1 + u3>>
DctRow(s) == LET d == Dct1D(s) IN [i \in 1..8 |-> IF i \in {1, 5} THEN d[i] * 4 ELSE Descale(d[i], 11)]
DctColumn(s) == LET d == Dct1D(s) IN [i \in 1..8 |-> Descale(d[i], IF i \in {1, 5} THEN 5 ELSE 18)]
Dct2D(samples) ==
  LET rows == FlattenSeq([r \in 1..8 |-> DctRow(SubSeq(samples, 8 * r - 7, 8 * r))])
      columns == FlattenSeq([c \in 1..8 |-> DctColumn([r \in 1..8 |-> rows[8 * r - 8 + c]])])
  IN [i \in 1..64 |-> columns[8 * ((i - 1) % 8) + ((i - 1) \div 8) + 1]]

\* load_quantized_coefficients: in zigzag order, rounded to the nearest step.
Quantize(v, q) ==
  LET steps == ((IF v < 0 THEN -v ELSE v) + q \div 2) \div q IN IF v < 0 THEN -steps ELSE steps
Coefficients(samples, quant) ==
  LET d == Dct2D(samples) IN [i \in 1..64 |-> Quantize(d[s_zag[i] + 1], quant[i])]

-----------------------------------------------------------------------------
\* code_coefficients_pass_two: a number is coded as its size in bits and then
\* those bits; a coefficient with the zeros before it, sixteen of them as F0;
\* zeros at the end as 0.
Size(v) == CHOOSE n \in 0..16 : LET a == IF v < 0 THEN -v ELSE v
                                IN a < 2 ^ n /\ (n > 0 => a >= 2 ^ (n - 1))
Bits(v) == <<(IF v < 0 THEN v - 1 ELSE v) % 2 ^ Size(v), Size(v)>>
CodesOf(coef, last, dc, ac) ==
  LET diff == coef[1] - last
      nonzero == {i \in 2..64 : coef[i] # 0}
      before(i) == {j \in nonzero : j < i} \cup {1}
      run(i) == i - 1 - (CHOOSE j \in before(i) : \A k \in before(i) : k <= j)
      coded(i) == [z \in 1..(run(i) \div 16) |-> ac[240]]
                  \o <<ac[(run(i) % 16) * 16 + Size(coef[i])], Bits(coef[i])>>
  IN <<dc[Size(diff)]>> \o (IF diff = 0 THEN <<>> ELSE <<Bits(diff)>>)
     \o FlattenSeq([i \in 1..64 |-> IF i \in nonzero THEN coded(i) ELSE <<>>])
     \o (IF 64 \in nonzero THEN <<>> ELSE <<ac[0]>>)

\* code_block
CodeCoefficients(e, component, coef) ==
  PutBits([e EXCEPT !.last_dc_val[component] = coef[1]],
          CodesOf(coef, e.last_dc_val[component],
                  IF component = 1 THEN DcLum ELSE DcChroma, IF component = 1 THEN AcLum ELSE AcChroma))
CodeBlock(e, component, samples) ==
  CodeCoefficients(e, component, Coefficients(samples, IF component = 1 THEN LumQuant ELSE ChromaQuant))

\* load_block_8_8_grey, load_block_8_8 and load_block_16_8: the last averages
\* four pixels and rounds up and down in turn.
Grey(e, x) == [i \in 1..64 |-> e.mcu_lines[(i - 1) \div 8 + 1][8 * x + ((i - 1) % 8) + 1] - 128]
Luma(e, x, y) ==
  [i \in 1..64 |-> e.mcu_lines[8 * y + (i - 1) \div 8 + 1][8 * x + ((i - 1) % 8) + 1][1] - 128]
Chroma(e, x, c) ==
  [i \in 1..64 |->
     LET line == 2 * ((i - 1) \div 8) + 1
         column == 16 * x + 2 * ((i - 1) % 8) + 1
         at(l, k) == e.mcu_lines[l][k][c]
         bias == IF (line \div 2 + i - 1) % 2 = 0 THEN 0 ELSE 2
     IN (at(line, column) + at(line, column + 1) + at(line + 1, column) + at(line + 1, column + 1) + bias)
          \div 4 - 128]

\* process_mcu_row
Unit(e, i) ==
  IF e.components = 1 THEN <<<<1, Grey(e, i)>>>>
  ELSE <<<<1, Luma(e, 2 * i, 0)>>, <<1, Luma(e, 2 * i + 1, 0)>>,
         <<1, Luma(e, 2 * i, 1)>>, <<1, Luma(e, 2 * i + 1, 1)>>,
         <<2, Chroma(e, i, 2)>>, <<3, Chroma(e, i, 3)>>>>
ProcessMcuRow(e) ==
  LET blocks == FlattenSeq([i \in 1..(RoundUp(e.image_x, e.mcu) \div e.mcu) |-> Unit(e, i - 1)])
      coded[b \in 0..Len(blocks)] ==
        IF b = 0 THEN e ELSE CodeBlock(coded[b - 1], blocks[b][1], blocks[b][2])
  IN coded[Len(blocks)]

\* load_mcu: a line is padded with its last pixel, and a full row is coded.
LoadMcu(e, line) ==
  LET pixels == [x \in 1..RoundUp(e.image_x, e.mcu) |->
                   LET p == line[IF x > e.image_x THEN e.image_x ELSE x]
                   IN IF e.components = 1 THEN p ELSE RgbToYcc(p)]
      loaded == [e EXCEPT !.mcu_lines[e.mcu_y_ofs + 1] = pixels, !.mcu_y_ofs = @ + 1]
  IN IF loaded.mcu_y_ofs = e.mcu THEN [ProcessMcuRow(loaded) EXCEPT !.mcu_y_ofs = 0] ELSE loaded

\* process_end_of_image: the last row is completed with copies of its last
\* line, the last byte with ones.
Filled(e) ==
  [e EXCEPT !.mcu_lines = [i \in 1..e.mcu |-> IF i <= e.mcu_y_ofs THEN @[i] ELSE @[e.mcu_y_ofs]]]
LastRow(e) == IF e.mcu_y_ofs = 0 THEN e ELSE ProcessMcuRow(Filled(e))
PutNull(e) == [e EXCEPT !.puts = Append(@, <<>>)]
EndOfImage(e) == PutNull(Flush(Emit(PutBits(LastRow(e), <<<<127, 7>>>>), M_EOI)))
=============================================================================
