------------------------------ MODULE JpgHandler ------------------------------
(* jpg_http_handler: a GET of /jpg takes a frame from the camera, sends it as *)
(* a picture and gives the frame back.  A JPEG frame goes out in one response *)
(* with its length; a raw frame is converted line by line, and every buffer   *)
(* the encoder fills is a chunk of a chunked response, sent before the        *)
(* encoder goes on.  send_fn may take part of what it is given, and fails     *)
(* when the client is gone or slower than the send timeout.                   *)
EXTENDS JpegEncoder, FiniteSets

CONSTANTS
  Frame,           \* a function: the frames the camera may deliver, by name
  MayFail,         \* the allocations that may fail, of {"mcu", "line"}
  Recovers,        \* the formats whose send may fail once and work again
  MaxRespHeaders,  \* max_resp_headers
  NULL

ASSUME HandlerAssumption == MayFail \subseteq {"mcu", "line"} /\ MaxRespHeaders \in Nat

ASSUME FrameAssumption ==
  /\ NULL \notin DOMAIN Frame
  /\ \A f \in DOMAIN Frame : IF Frame[f].format = "JPEG" THEN Frame[f].data \in Seq(0..255)
                                                       ELSE Frame[f].height \in Nat

VARIABLES
  pc,       \* where the handler is
  fb,       \* the frame it holds, or NULL
  scanline, \* the next line to encode
  held,     \* the encoder's memory that is allocated
  calls,    \* the calls of put_buf the encoder has made and the handler not yet served
  parts,    \* what the response call in progress has still to send, part by part
  resp,     \* resp_hdrs_count and first_chunk_sent
  wire,     \* what the client has received
  dead,     \* the client is gone: every send fails
  res       \* what the handler will return: "OK" or "FAIL"
vars == <<pc, fb, scanline, held, calls, parts, resp, wire, dead, res>>

Buffers == DOMAIN Frame
Format == Frame[fb].format
Channels(f) == IF Frame[f].format = "GRAYSCALE" THEN 1 ELSE 3
Idle == parts = <<>> /\ calls = <<>>

-----------------------------------------------------------------------------
(* What convert_image makes of a frame.  The encoder sees nothing but the     *)
(* frame, so what it passes to put_buf at each call is a function of it.      *)
\* convert_line_format: bytes to a grey value, or to red, green and blue.
ConvertLine(format, pixels) ==
  [x \in DOMAIN pixels |->
     LET p == pixels[x] IN
     CASE format = "GRAYSCALE" -> p
       [] format = "RGB888"    -> <<p[3], p[2], p[1]>>
       [] format = "RGB565"    -> <<(p[1] \div 8) * 8, (p[1] % 8) * 32 + (p[2] \div 32) * 4, (p[2] % 32) * 8>>]

\* The buffers that init, each line and the end of the image fill.
Call(encoders) == [Last(encoders) EXCEPT !.puts = <<>>]
Scanline(encoders, format, pixels) == Append(encoders, LoadMcu(Call(encoders), ConvertLine(format, pixels)))
Ended(encoders) == Append(encoders, EndOfImage(Call(encoders)))
PutsOf(encoders) == <<>> \o [n \in DOMAIN encoders |-> encoders[n].puts]
Converted(f) ==
  LET frame == Frame[f]
      after[n \in 0..frame.height] ==
        IF n = 0 THEN <<JpgOpen(frame.width, frame.height, Channels(f))>>
                 ELSE Scanline(after[n - 1], frame.format, frame.lines[n])
  IN PutsOf(Ended(after[frame.height]))
Puts == [f \in {b \in Buffers : Frame[b].format # "JPEG"} |-> Converted(f)]

\* What the encoder promises of its calls of put_buf: init, each line and the
\* end of the image make some, and the last one alone is empty.
FillsBuffers(f) ==
  /\ Puts[f] \in Seq(Seq(Seq(0..255))) /\ Len(Puts[f]) = Frame[f].height + 2
  /\ LET buffers == FlattenSeq(Puts[f])
     IN  buffers # <<>> /\ \A i \in DOMAIN buffers : buffers[i] = <<>> <=> i = Len(buffers)

-----------------------------------------------------------------------------
(* What a response is made of. *)
Token(t, v) == [t |-> t, v |-> v]
Bytes(data) == [i \in DOMAIN data |-> Token("byte", data[i])]
\* The status line and essential headers, each header's four sends, and the
\* empty line.
RespHead(kind, n, headers) ==
  <<<<Token(kind, n)>>>> \o [h \in 1..headers |-> [i \in 1..4 |-> Token("header", i)]]
  \o <<<<Token("blank", 0)>>>>

\* httpd_resp_send
RespSend(kind, data, headers) ==
  RespHead(kind, Len(data), headers) \o (IF data = <<>> THEN <<>> ELSE <<Bytes(data)>>)

\* httpd_resp_send_chunk: the head before the first chunk, then the size, the
\* data and the end of the chunk.
\* Mutant: the end of the chunk is forgotten after data.
RespSendChunkOpen(data) ==
  (IF resp.first_chunk_sent THEN <<>> ELSE RespHead("chunked", 0, resp.hdrs_count))
  \o <<<<Token("size", Len(data))>>>> \o <<IF data = <<>> THEN <<Token("crlf", 0)>> ELSE Bytes(data)>>
RespSendChunk(data) ==
  (IF resp.first_chunk_sent THEN <<>> ELSE RespHead("chunked", 0, resp.hdrs_count))
  \o <<<<Token("size", Len(data))>>>> \o (IF data = <<>> THEN <<>> ELSE <<Bytes(data)>>)
  \o <<<<Token("crlf", 0)>>>>

\* send_fn takes all of a part, or half of it to stand for any share.
Send ==
  /\ parts # <<>> /\ ~dead
  /\ \E n \in {Len(parts[1]), (Len(parts[1]) + 1) \div 2} :
       /\ wire' = wire \o SubSeq(parts[1], 1, n)
       /\ parts' = (IF n = Len(parts[1]) THEN <<>> ELSE <<SubSeq(parts[1], n + 1, Len(parts[1]))>>)
                   \o Tail(parts)
  /\ resp' = [resp EXCEPT !.first_chunk_sent =
                @ \/ (fb # NULL /\ Format # "JPEG" /\ parts[1] = <<Token("blank", 0)>>)]
  /\ UNCHANGED <<pc, fb, scanline, held, calls, dead, res>>

\* httpd_resp_send reports the failure; callback_stream::put_buf answers true
\* whatever the callback returned, so the encoder goes on.
SendFails ==
  /\ parts # <<>>
  /\ parts' = <<>>
  /\ dead' \in (IF ~dead /\ fb # NULL /\ Format \in Recovers THEN BOOLEAN ELSE {TRUE})
  /\ res' = IF fb # NULL /\ Format # "JPEG" THEN res ELSE "FAIL"
  /\ UNCHANGED <<pc, fb, scanline, held, calls, resp, wire>>

\* jpg_encode_stream, for the next buffer; put_buf(NULL, 0) sends the last chunk.
EncodeStream ==
  /\ parts = <<>> /\ calls # <<>>
  /\ parts' = RespSendChunk(calls[1])
  /\ calls' = Tail(calls)
  /\ UNCHANGED <<pc, fb, scanline, held, resp, wire, dead, res>>

-----------------------------------------------------------------------------
\* esp_camera_fb_get found no frame: httpd_resp_send_500 and ESP_FAIL.
FrameMissing ==
  /\ pc = "get"
  /\ pc' = "done" /\ res' = "FAIL"
  /\ parts' = RespSend("error", <<0>>, resp.hdrs_count)
  /\ UNCHANGED <<fb, scanline, held, calls, resp, wire, dead>>

\* A frame: the type and one more header are set.
GetFrame(f) ==
  /\ pc = "get"
  /\ fb' = f
  /\ IF resp.hdrs_count < MaxRespHeaders
       THEN resp' = [resp EXCEPT !.hdrs_count = @ + 1] /\ pc' = "send" /\ res' = res
       ELSE pc' = "return" /\ res' = "FAIL" /\ resp' = resp
  /\ UNCHANGED <<scanline, held, calls, parts, wire, dead>>

\* The camera compresses: one response with the frame.
SendFrame ==
  /\ pc = "send" /\ Format = "JPEG"
  /\ parts' = RespSend("length", Frame[fb].data, resp.hdrs_count)
  /\ pc' = "return"
  /\ UNCHANGED <<fb, scanline, held, calls, resp, wire, dead, res>>

\* convert_image gives up: the encoder's destructor frees its lines.
\* Mutant: the failure is not reported.
GiveUpSilently == pc' = "terminate" /\ res' = res /\ held' = {}
\* Mutant: the handler returns at once.
GiveUpEarly == pc' = "done" /\ res' = "FAIL" /\ held' = {}
GiveUp == pc' = "terminate" /\ res' = "FAIL" /\ held' = {}

\* jpeg_encoder::init, which writes the headers.
InitEncoder ==
  /\ pc = "send" /\ Format # "JPEG"
  /\ \/ /\ pc' = "line" /\ held' = held \cup {"mcu"} /\ res' = res
        /\ calls' = Puts[fb][1]
     \/ "mcu" \in MayFail /\ GiveUp /\ calls' = calls
  /\ UNCHANGED <<fb, scanline, parts, resp, wire, dead>>

\* The line the pixels are converted into.
AllocLine ==
  /\ pc = "line" /\ Idle
  /\ \/ pc' = "lines" /\ held' = held \cup {"line"} /\ res' = res
     \/ "line" \in MayFail /\ GiveUp
  /\ scanline' = 1
  /\ UNCHANGED <<fb, calls, parts, resp, wire, dead>>

\* process_scanline for one line; a row of units may leave the encoder.
ProcessLine ==
  /\ pc = "lines" /\ Idle /\ scanline <= Frame[fb].height
  /\ calls' = Puts[fb][scanline + 1]
  /\ scanline' = scanline + 1
  /\ UNCHANGED <<pc, fb, held, parts, resp, wire, dead, res>>

\* After the last line it is freed, and process_scanline(NULL) ends the image.
ProcessEnd ==
  /\ pc = "lines" /\ Idle /\ scanline > Frame[fb].height
  /\ calls' = Puts[fb][scanline + 1]
  /\ held' = held \ {"line"}
  /\ pc' = "deinit"
  /\ UNCHANGED <<fb, scanline, parts, resp, wire, dead, res>>

Deinit ==
  /\ pc = "deinit" /\ Idle
  /\ held' = held \ {"mcu"}
  /\ pc' = "terminate"
  /\ UNCHANGED <<fb, scanline, calls, parts, resp, wire, dead, res>>

\* The handler ends the chunks, as the stream has done after a whole image.
Terminate ==
  /\ pc = "terminate" /\ Idle
  /\ parts' = RespSendChunk(<<>>)
  /\ pc' = "return"
  /\ UNCHANGED <<fb, scanline, held, calls, resp, wire, dead, res>>

FbReturn ==
  /\ pc = "return" /\ Idle
  /\ fb' = NULL
  /\ pc' = "done"
  /\ UNCHANGED <<scanline, held, calls, parts, resp, wire, dead, res>>

-----------------------------------------------------------------------------
Init ==
  /\ pc = "get" /\ fb = NULL /\ scanline = 1 /\ held = {}
  /\ calls = <<>> /\ parts = <<>> /\ wire = <<>> /\ dead = FALSE /\ res = "OK"
  /\ resp = [hdrs_count |-> 0, first_chunk_sent |-> FALSE]
Next ==
  \/ Send \/ SendFails \/ EncodeStream
  \/ FrameMissing \/ (\E f \in Buffers : GetFrame(f)) \/ SendFrame
  \/ InitEncoder \/ AllocLine \/ ProcessLine \/ ProcessEnd \/ Deinit
  \/ Terminate \/ FbReturn
\* The server's thread runs on, and every send ends: the session's socket has
\* a send timeout.
Spec == Init /\ [][Next]_vars /\ WF_vars(Next)
=============================================================================
