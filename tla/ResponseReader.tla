---------------------------- MODULE ResponseReader ----------------------------
(* The client's side of HTTP: it takes the response to a GET of /jpg apart    *)
(* again.  Nothing here is code of the firmware; it is written from RFC 9112  *)
(* and is what the handler's promises about its responses are stated with.    *)
EXTENDS JpgHandler

-----------------------------------------------------------------------------
(* The response: its body, and whether it has come to its end. *)
Nothing == [complete |-> FALSE, body |-> <<>>]
Values(tokens) == [i \in DOMAIN tokens |-> tokens[i].v]

\* A whole chunk at p: its size, as many bytes, and the end of the chunk.
ChunkAt(w, p) ==
  /\ p <= Len(w) /\ w[p].t = "size" /\ p + w[p].v + 1 <= Len(w)
  /\ \A i \in p + 1..p + w[p].v : w[i].t = "byte"
  /\ w[p + w[p].v + 1].t = "crlf"

\* The chunks from one on, up to the empty one.
Chunks(w, start) ==
  LET from[p \in 1..Len(w) + 1] ==
        IF ~ ChunkAt(w, p) THEN Nothing
        ELSE IF w[p].v = 0 THEN [complete |-> TRUE, body |-> <<>>]
        ELSE LET rest == from[p + w[p].v + 2]
             IN  [complete |-> rest.complete,
                  body     |-> Values(SubSeq(w, p + 1, p + w[p].v)) \o rest.body]
  IN from[start]

Response(w) ==
  LET ends == {i \in DOMAIN w : w[i].t = "blank"}
      head == CHOOSE i \in ends : \A j \in ends : i <= j
  IN IF ends = {} \/ w[1].t \notin {"length", "chunked"} THEN Nothing
     ELSE IF w[1].t = "chunked" THEN Chunks(w, head + 1)
     ELSE [complete |-> Len(w) >= head + w[1].v, body |-> Values(SubSeq(w, head + 1, Len(w)))]

-----------------------------------------------------------------------------
(* Properties. *)

\* What a response for a frame is to carry: the camera's own bytes, or
\* all the buffers the encoder fills, one after the other.
Content(f) == IF Frame[f].format = "JPEG" THEN Frame[f].data ELSE FlattenSeq(FlattenSeq(Puts[f]))

\* A handler that reports success on a connection that still works has sent a
\* complete response (httpd_resp_send_chunk, httpd_txrx.c:297-372).
Delivered ==
  (pc = "return" /\ Idle /\ res = "OK" /\ ~dead) => Response(wire).complete

\* A response the client sees as complete has all of the content and nothing
\* else, in its order, however it is cut into chunks and the chunks into
\* sends, and wherever a send or an allocation failed (jpg_encode_stream,
\* app_main.c:127-140; httpd_resp_send_chunk, httpd_txrx.c:297-372).
BodyIntact ==
  (res = "OK" /\ fb # NULL /\ Response(wire).complete) => Response(wire).body = Content(fb)
=============================================================================
