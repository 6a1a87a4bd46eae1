----------------------------- MODULE HttpdRequest -----------------------------
(***************************************************************************)
(* One session of the web server: from the bytes of its connection to its   *)
(* answers (httpd_parse.c, the receiving half of httpd_txrx.c,              *)
(* httpd_sess_process), with the handler table it searches.                 *)
(*                                                                         *)
(* The client sends a few requests one behind the other; TCP delivers them  *)
(* in pieces of any size.  A byte is known by its request and its place in  *)
(* the grammar.  http_parser is a library: it walks over the block and      *)
(* calls back on each maximal run of url, field, value or body.  A header's *)
(* value is never empty, and lines end with CR LF.                          *)
(***************************************************************************)
EXTENDS UriTable, Sequences, SequencesExt

CONSTANTS
  Shapes,      \* the requests the client chooses from
  MaxRequests, \* bound: requests of the session
  MaxCalls,    \* bound: registrations and removals by the main task
  Purge,       \* bytes httpd_req_delete reads at a time
  Block,       \* PARSER_BLOCK_SIZE, also the size of pending_data
  Scratch,     \* sizeof(scratch)
  MaxUri       \* HTTPD_MAX_URI_LEN

ASSUME RequestAssumption ==
  /\ {MaxRequests, MaxCalls, Block, Scratch, MaxUri} \subseteq Nat
  /\ Block \in 1..Scratch /\ Scratch > 1 /\ Purge \in Nat \ {0}

\* A request: the lengths of its url, headers and body, the version it names,
\* whether http_parser_parse_url refuses the url, whether it asks for an upgrade,
\* and the handler it is for, if its url has a path.
Header == [field : Nat \ {0}, value : Nat \ {0}]
Shape == [url : Nat \ {0}, headers : Seq(Header) \ {<<>>}, body : Nat, version : Nat \X Nat,
          malformed : BOOLEAN, upgrade : BOOLEAN, target : Handler \cup {NULL}]

ASSUME ShapeAssumption == Shapes \subseteq Shape

VARIABLES
  requests,  \* what the client sends: a sequence of shapes
  unread,    \* the bytes the server has not taken from the socket yet
  hungUp,    \* has the client closed its end?
  pending,   \* sd->pending_data: put back, and read before the socket
  pc,        \* the server's thread in this session
  scratch,   \* ra->scratch, up to raw_datalen
  offset,    \* where the next block goes in scratch
  data,      \* parser_data_t
  parser,    \* http_parser: place in scratch, last byte's kind
  req,       \* httpd_req_t and httpd_req_aux: what the callbacks have filled in
  answers,   \* the status of each response sent on this connection
  main,      \* the task that registers handlers: its calls, the one it is in
  served     \* ghost: the handlers registered and not removed

input == <<unread, pending>>
block == <<scratch, offset, data, parser>>
table == <<main, hd_calls, served>>
vars == <<requests, hungUp, input, block, req, pc, answers, table>>

-----------------------------------------------------------------------------
(* The bytes of a request, by kind: m(ethod), u(rl), v(ersion), CR "l" and  *)
(* LF "n" of a line, f(ield), ":" , (value) "h", CR "b" and LF "e" of the   *)
(* blank line, d(ata of the body).                                         *)
Line(h) == [i \in 1..h.field |-> "f"] \o <<":">> \o [i \in 1..h.value |-> "h"] \o <<"l", "n">>
HeaderText(s) == FlattenSeq([i \in DOMAIN s.headers |-> Line(s.headers[i])]) \o <<"b", "e">>
RequestLine(s) == <<"m">> \o [i \in 1..s.url |-> "u"] \o <<"v", "l", "n">>
Kinds(s) == RequestLine(s) \o HeaderText(s) \o [i \in 1..s.body |-> "d"]
Bytes(s, q) == [i \in DOMAIN Kinds(s) |-> [of |-> q, kind |-> Kinds(s)[i]]]

\* What http_parser takes after a byte: a new parser waits for a method.
Takes(prev, kind) ==
  <<prev, kind>> \in
    {<<"start", "m">>, <<"m", "u">>, <<"u", "u">>, <<"u", "v">>, <<"v", "l">>, <<"l", "n">>,
     <<"n", "f">>, <<"n", "b">>, <<"f", "f">>, <<"f", ":">>, <<":", "h">>, <<"h", "h">>,
     <<"h", "l">>, <<"b", "e">>, <<"e", "d">>}

\* The run of bytes of one kind from place i of scratch: where it ends.
RunEnd(i) == CHOOSE j \in i + 1..Len(scratch) :
  /\ \A k \in i + 1..j : scratch[k].kind = scratch[i + 1].kind
  /\ j = Len(scratch) \/ scratch[j + 1].kind # scratch[i + 1].kind

NewData == [status |-> "IDLE", error |-> "500", at |-> 0, length |-> 0, paused |-> FALSE, pre |-> 0]
NewParser == [at |-> 0, prev |-> "start"]
NewReq == [of |-> 0, hdrs |-> 0, remaining |-> 0]

Init ==
  /\ requests \in UNION {[1..n -> Shapes] : n \in 1..MaxRequests}
  /\ unread = FlattenSeq([q \in DOMAIN requests |-> Bytes(requests[q], q)])
  /\ hungUp = FALSE /\ pending = <<>> /\ answers = <<>> /\ pc = "select"
  /\ scratch = <<>> /\ offset = 0 /\ data = NewData /\ parser = NewParser /\ req = NewReq
  /\ main = [calls |-> 0, doing |-> NULL] /\ hd_calls = EmptyTable /\ served = {}

-----------------------------------------------------------------------------
(* Reading a block: httpd_req_new, read_block, httpd_recv_with_opt.        *)
NewRequest ==
  /\ pc = "select" /\ (pending # <<>> \/ unread # <<>> \/ hungUp)
  /\ pc' = "read" /\ offset' = 0 /\ scratch' = <<>>
  /\ data' = NewData /\ parser' = NewParser /\ req' = NewReq
  /\ UNCHANGED <<input, answers, table>>

RoomOfBlock == Block   \* mutant: the rest of scratch is not asked for
Room == Min({Block, Scratch - offset})

\* The block goes to scratch; what was parsed before the pause is skipped.
Skipped(n) == IF data.paused THEN Min({n, data.pre}) ELSE 0

Parse(bytes) ==
  LET skip == Skipped(Len(bytes))
  IN  /\ scratch' = SubSeq(scratch, 1, offset) \o bytes
      /\ data' = [data EXCEPT !.paused = FALSE, !.pre = @ - skip]
      /\ parser' = [parser EXCEPT !.at = offset + skip]
      /\ pc' = "execute"
      /\ UNCHANGED <<offset, req, answers, table>>

ReadPending ==
  /\ pc = "read" /\ Room > 0 /\ pending # <<>>
  /\ LET n == Min({Room, Len(pending)})
     IN  Parse(SubSeq(pending, 1, n)) /\ pending' = SubSeq(pending, n + 1, Len(pending))
  /\ UNCHANGED unread

ReadSocket ==
  /\ pc = "read" /\ Room > 0 /\ pending = <<>> /\ unread # <<>>
  /\ \E n \in 1..Min({Room, Len(unread)}) :
       Parse(SubSeq(unread, 1, n)) /\ unread' = SubSeq(unread, n + 1, Len(unread))
  /\ UNCHANGED pending

Answer(status, next) == answers' = Append(answers, status) /\ pc' = next
Close == pc' = "closed" /\ UNCHANGED answers

ReadFailsNoTimeout ==   \* mutant: recv has no timeout
  /\ pc = "read" /\ Room > 0 /\ pending = <<>> /\ hungUp
  /\ Close
  /\ UNCHANGED <<input, block, req, table>>

\* What a read that gets nothing may report (httpd_sock_err).
RecvError == IF hungUp THEN {"closed"} ELSE {"timeout", "fail"}

\* Such a read ends the session; after a timeout a 408 is sent first.
ReadFails ==
  /\ pc = "read" /\ Room > 0 /\ pending = <<>>
  /\ \E e \in RecvError : IF e = "timeout" THEN Answer("408", "closed") ELSE Close
  /\ UNCHANGED <<input, block, req, table>>

\* httpd_resp_send_err: the response goes out, or the session is closed.
SendErr(status) ==
  /\ Answer(status, "drain") \/ Close
  /\ req' = [req EXCEPT !.hdrs = 0]

\* scratch is full and the headers are not complete.
TooBig ==
  /\ pc = "read" /\ Room = 0
  /\ SendErr(CASE data.status = "URL" -> "414"
               [] data.status \in {"HDR_FIELD", "HDR_VALUE"} -> "431"
               [] OTHER -> data.error)
  /\ UNCHANGED <<input, block, table>>

BlockParsed ==
  /\ pc = "execute" /\ parser.at = Len(scratch)
  /\ pc' = "read" /\ offset' = Len(scratch)
  /\ UNCHANGED <<input, scratch, data, parser, req, answers, table>>

-----------------------------------------------------------------------------
(* http_parser_execute over the block: one action per callback.  What a     *)
(* callback's other statuses do ("unexpected state transition") is never    *)
(* reached: the guards leave them out, and no run deadlocks.                *)
At == parser.at
Now == scratch[At + 1].kind
Of == scratch[At + 1].of
End == RunEnd(At)

Execute(kinds) ==
  /\ pc = "execute" /\ At < Len(scratch)
  /\ Now \in kinds /\ Takes(parser.prev, Now)

\* A callback fails, or the parser finds a wrong byte: parse_block gives up.
Fail(error) ==
  /\ SendErr(error)
  /\ data' = [data EXCEPT !.status = "FAILED", !.error = error]
  /\ UNCHANGED <<input, scratch, offset, parser, table>>

Accept == UNCHANGED <<input, offset, pc, answers, table>>
Walk(to, kind) == parser' = [at |-> to, prev |-> kind]

Silent ==
  /\ Execute({"m", "v", "l", "n", ":", "b"})
  /\ Walk(End, Now) /\ Accept /\ UNCHANGED <<scratch, data, req>>

BadSyntax ==
  /\ pc = "execute" /\ At < Len(scratch) /\ ~Takes(parser.prev, Now)
  /\ ~(parser.prev = "e" /\ Now = "e")
  /\ Fail("400")

CbUrl ==
  /\ Execute({"u"}) /\ data.status \in {"IDLE", "URL"}
  /\ LET length == data.length + End - At
     IN  IF length > MaxUri
         THEN Fail("414")
         ELSE /\ data' = [data EXCEPT !.status = "URL", !.length = length,
                                      !.at = IF data.status = "IDLE" THEN At ELSE @]
              /\ Walk(End, "u") /\ Accept /\ UNCHANGED <<scratch, req>>

\* verify_url: what is wrong with the request line.
UrlError(s) ==
  IF s.version[1] # 1 /\ s.version[2] # 1 THEN "505" ELSE IF s.malformed THEN "400" ELSE "none"

\* The NUL at the end of the last value.
TerminatedLate == [scratch EXCEPT ![data.at + data.length + 2].kind = "NUL"]   \* mutant
Terminated == [scratch EXCEPT ![data.at + data.length + 1].kind = "NUL"]

\* pause_parsing: the bytes from this place on are put back.
PutBack(at) == pending' = SubSeq(scratch, at + 1, Len(scratch)) /\ UNCHANGED unread

\* The first field ends the request line: it is put back with what follows,
\* to be read again at the start of scratch.  The parser has taken the ":" too.
FirstField ==
  /\ Execute({"f"}) /\ data.status = "URL"
  /\ IF UrlError(requests[Of]) # "none"
     THEN Fail(UrlError(requests[Of]))
     ELSE LET taken == IF End < Len(scratch) THEN End + 1 ELSE End
          IN  /\ data' = [data EXCEPT !.status = "HDR_FIELD", !.at = 0, !.length = End - At,
                                      !.paused = TRUE, !.pre = taken - At]
              /\ Walk(taken, IF taken = End THEN "f" ELSE ":")
              /\ PutBack(At) /\ offset' = 0 /\ pc' = "read"
              /\ req' = [req EXCEPT !.of = Of]
              /\ UNCHANGED <<scratch, answers, table>>

CbHeaderField ==
  /\ Execute({"f"})
  /\ \/ /\ data.status = "HDR_VALUE"
        /\ scratch' = Terminated
        /\ data' = [data EXCEPT !.status = "HDR_FIELD", !.at = At, !.length = End - At]
     \/ /\ data.status = "HDR_FIELD"
        /\ data' = [data EXCEPT !.length = @ + End - At]
        /\ UNCHANGED scratch
  /\ Walk(End, "f") /\ Accept /\ UNCHANGED req

CbHeaderValue ==
  /\ Execute({"h"})
  /\ \/ /\ data.status = "HDR_FIELD"
        /\ data' = [data EXCEPT !.status = "HDR_VALUE", !.at = At, !.length = End - At]
        /\ req' = [req EXCEPT !.hdrs = @ + 1]
     \/ /\ data.status = "HDR_VALUE"
        /\ data' = [data EXCEPT !.length = @ + End - At]
        /\ UNCHANGED req
  /\ Walk(End, "h") /\ Accept /\ UNCHANGED scratch

\* The last LF.  With no body cb_no_body follows on the same byte.
CbHeadersComplete ==
  /\ Execute({"e"})
  /\ LET s == requests[Of]
         error == IF data.status = "URL" THEN UrlError(s) ELSE "none"
     IN  IF error # "none" \/ s.upgrade
         THEN Fail(IF error # "none" THEN error ELSE "XXX")
         ELSE /\ \/ data.status = "URL" /\ UNCHANGED scratch
                    /\ data' = [data EXCEPT !.status = "BODY"]
                 \/ data.status = "HDR_VALUE" /\ scratch' = Terminated
                    /\ data' = [data EXCEPT !.status = "BODY", !.at = @ + data.length]
              /\ req' = [req EXCEPT !.of = Of, !.remaining = s.body]
              /\ Walk(IF s.body = 0 THEN At ELSE At + 1, "e") /\ Accept

\* The request is complete: the rest of the block is put back.
Complete(at) ==
  /\ PutBack(at) /\ pc' = "lookup"
  /\ data' = [data EXCEPT !.status = "COMPLETE", !.at = 0, !.length = 0, !.paused = TRUE]
  /\ UNCHANGED <<scratch, offset, parser, req, answers, table>>

CbOnBody ==
  /\ Execute({"d"}) /\ data.status = "BODY"
  /\ Complete(At)

MessageEndBlankLine == data.at + 2   \* mutant: only the blank line
MessageEnd == data.at + 4   \* past CR LF CR LF, if "at" is the last value's end

CbNoBody ==
  /\ pc = "execute" /\ At < Len(scratch) /\ data.status = "BODY"
  /\ parser.prev = "e" /\ Now = "e"
  /\ Complete(MessageEnd)

-----------------------------------------------------------------------------
(* httpd_uri, the handler, and httpd_req_delete.                           *)

\* An entry that is being written is read: what follows is undefined, and the
\* model goes no further.
Lookup ==
  /\ pc = "lookup"
  /\ LET target == requests[req.of].target
     IN  IF ReadsGarbage THEN pc' = "wild" /\ UNCHANGED <<req, answers>>
         ELSE IF target = NULL THEN Close /\ UNCHANGED req  \* no path in the url
         ELSE IF Find(target) = "found" THEN pc' = "handle" /\ UNCHANGED <<req, answers>>
         ELSE SendErr(Find(target))
  /\ UNCHANGED <<input, block, table>>

RecvPendingUncounted(n, k) ==   \* mutant: what was put back is not counted
  /\ k \in 0..Min({n, Len(pending \o unread)})
  /\ k >= Min({n, Len(pending)})
  /\ k = 0 => hungUp /\ unread = <<>>
  /\ pending' = SubSeq(pending, k + 1, Len(pending))
  /\ unread' = SubSeq(unread, k + 1 - Min({k, Len(pending)}), Len(unread))
  /\ req' = [req EXCEPT !.remaining = @ - (k - Min({k, Len(pending)}))]

\* httpd_recv of at most n bytes: what was put back comes first, then what the
\* socket has; 0 bytes if the client has closed its end.
Recv(n, k) ==
  /\ k \in 0..Min({n, Len(pending \o unread)})
  /\ k >= Min({n, Len(pending)})
  /\ k = 0 => hungUp /\ unread = <<>>
  /\ pending' = SubSeq(pending, k + 1, Len(pending))
  /\ unread' = SubSeq(unread, k + 1 - Min({k, Len(pending)}), Len(unread))
  /\ req' = [req EXCEPT !.remaining = @ - k]

\* httpd_req_recv: never more than what is left of the body.
HandlerRecv ==
  /\ pc = "handle" /\ req.remaining > 0
  /\ \E n \in {1, MaxUri + 1}, k \in 1..MaxUri + 1 : Recv(Min({n, req.remaining}), k)
  /\ UNCHANGED <<block, pc, answers, table>>

\* The handler sends its response, and may still fail: then the session ends.
HandlerReturns ==
  /\ pc = "handle"
  /\ Answer("200", "drain") \/ Answer("200", "closed") \/ Close
  /\ req' = [req EXCEPT !.hdrs = 0]
  /\ UNCHANGED <<input, block, table>>

ReqDelete ==
  /\ pc = "drain"
  /\ \/ req.remaining = 0 /\ pc' = "select" /\ UNCHANGED <<input, req, answers>>
     \/ /\ req.remaining > 0
        /\ \/ (\E k \in 0..Purge : Recv(Min({Purge, req.remaining}), k)) /\ UNCHANGED <<pc, answers>>
           \/ RecvError # {"closed"} /\ Close /\ UNCHANGED <<input, req>>
  /\ UNCHANGED <<block, table>>

-----------------------------------------------------------------------------
(* The main task, and the client.                                          *)
Calling == pc = "lookup" /\ main.doing = NULL /\ main.calls < MaxCalls

Register ==
  /\ Calling /\ \E h \in Handler : Publish(h) /\ main' = [calls |-> main.calls + 1, doing |-> h]
  /\ UNCHANGED <<input, block, req, pc, answers, served>>

Install ==
  /\ main.doing # NULL /\ Fill(main.doing)
  /\ main' = [main EXCEPT !.doing = NULL] /\ served' = served \cup {main.doing}
  /\ UNCHANGED <<input, block, req, pc, answers>>

\* No memory for the copy of the uri: the entry is freed and stays in its
\* slot; the application aborts (ESP_ERROR_CHECK) and the chip restarts.
NoMemory ==
  /\ main.doing # NULL /\ pc' = "restart"
  /\ UNCHANGED <<input, block, req, answers, table>>

RemoveHandler ==
  /\ Calling /\ main' = [main EXCEPT !.calls = @ + 1]
  /\ \/ \E h \in Handler : Unregister(h) /\ served' = served \ {h}
     \/ \E u \in Uris : UnregisterUri(u) /\ served' = {h \in served : h.uri # u}
  /\ UNCHANGED <<input, block, req, pc, answers>>

\* The client closes its end, or stops sending and leaves it open; what the
\* server has not read by then never comes.  While a block is parsed neither
\* would be seen.
Leave ==
  /\ ~hungUp /\ pc \in {"select", "read", "handle", "drain"}
  /\ hungUp' = TRUE \/ (unread # <<>> /\ UNCHANGED hungUp)
  /\ unread' = <<>>
  /\ UNCHANGED <<pending, block, req, pc, answers, table>>

Ended == pc \in {"closed", "wild", "restart"} /\ UNCHANGED <<hungUp, input, block, req, pc, answers, table>>

Server ==
  /\ \/ NewRequest \/ ReadPending \/ ReadSocket \/ ReadFails \/ TooBig \/ BlockParsed
     \/ Silent \/ BadSyntax \/ CbUrl \/ FirstField \/ CbHeaderField \/ CbHeaderValue
     \/ CbHeadersComplete \/ CbOnBody \/ CbNoBody
     \/ Lookup \/ HandlerRecv \/ HandlerReturns \/ ReqDelete
  /\ UNCHANGED hungUp

\* The table is read at a lookup only: elsewhere the main task's steps commute
\* with the server's, and are taken here.
Main == pc = "lookup" /\ (Register \/ Install \/ NoMemory \/ RemoveHandler) /\ UNCHANGED hungUp

Alive == pc \notin {"closed", "wild", "restart"}
Next == UNCHANGED requests /\ ((Alive /\ (Server \/ Main \/ Leave)) \/ Ended)

Spec == Init /\ [][Next]_vars
FairSpec == Spec /\ WF_vars(Server /\ UNCHANGED requests)

-----------------------------------------------------------------------------
(* Properties.                                                             *)
Statuses == {"200", "400", "404", "405", "408", "414", "431", "500", "505", "XXX"}
Byte == [of : DOMAIN requests, kind : {"m", "u", "v", "l", "n", "f", ":", "h", "b", "e", "d", "NUL"}]

\* Types: no buffer holds more than its size.  When the headers are complete "at"
\* is the end of the last value, and "length" is left as it was and not read.
TypeOK ==
  /\ unread \in Seq(Byte) /\ pending \in Seq(Byte) /\ Len(pending) <= Block
  /\ scratch \in Seq(Byte) /\ Len(scratch) <= Scratch /\ offset \in 0..Len(scratch)
  /\ data.status \in {"IDLE", "URL", "HDR_FIELD", "HDR_VALUE", "BODY", "COMPLETE", "FAILED"}
  /\ data.at <= Scratch /\ data.pre \in 0..Block /\ data.error \in Statuses
  /\ data.status # "BODY" => data.at + data.length <= Scratch
  /\ parser.at \in 0..Len(scratch) /\ req.hdrs \in Nat /\ req.remaining \in Nat
  /\ answers \in Seq(Statuses) /\ hd_calls \in Table /\ served \subseteq Handler
  /\ pc \in {"select", "read", "execute", "lookup", "handle", "drain", "closed", "wild", "restart"}

\* What a request is answered, by what it is: nothing depends on how TCP cuts
\* the bytes into pieces.  The request line and one byte more must fit in
\* scratch, and of a request with a body one byte more than its headers: the
\* block that is asked for after them has no room (parse_block, length 0).
Expected(s) ==
  IF s.url > MaxUri \/ Len(RequestLine(s)) >= Scratch THEN {"414"}
  ELSE IF UrlError(s) # "none" THEN {UrlError(s)}
  ELSE IF Len(HeaderText(s)) > Scratch THEN {"431"}
  ELSE IF s.upgrade THEN {"XXX"}
  ELSE IF Len(HeaderText(s)) = Scratch /\ s.body > 0 THEN {"500"}
  ELSE {"200", "404", "405"}

ParseErrors == {"400", "414", "431", "500", "505", "XXX"}
InStep == \A i \in DOMAIN answers : answers[i] \notin ParseErrors

\* The answers are those of the requests, one each and in their order, up to
\* the first request that is answered with a parse error (after which the rest
\* of that request is taken for another one) or a timeout (httpd_parse_req).
AnsweredInOrder ==
  \A i \in DOMAIN answers :
    (\A j \in 1..i - 1 : answers[j] \notin ParseErrors)
      => \/ i \in DOMAIN requests /\ answers[i] \in Expected(requests[i])
         \/ answers[i] = "408" /\ i = Len(answers) /\ pc = "closed"

\* When the handler runs, and after it, what is put back and what is still in
\* the socket are the rest of this request's body and then the next request
\* (pause_parsing, httpd_unrecv, httpd_req_recv, httpd_req_delete).
Framed ==
  LET rest == pending \o unread
  IN  pc \in {"select", "lookup", "handle", "drain"} /\ InStep /\ req.of # 0 =>
        /\ \A i \in DOMAIN rest : i <= req.remaining => rest[i] = [of |-> req.of, kind |-> "d"]
        /\ Len(rest) > req.remaining => rest[req.remaining + 1] = [of |-> req.of + 1, kind |-> "m"]

\* The handler finds every header of its request in scratch, each line ended by
\* a NUL, and their number in req_hdrs_count, until it responds.
HeadersKept ==
  pc \in {"lookup", "handle"} =>
    LET s == requests[req.of]
        text == HeaderText(s)
        inner == Len(text) - 3
    IN  /\ req.hdrs = Len(s.headers)
        /\ Len(scratch) >= inner
        /\ \A i \in 1..inner + 1 :
             scratch[i] = [of |-> req.of, kind |-> IF text[i] = "l" THEN "NUL" ELSE text[i]]

\* A lookup finds a handler if and only if it is registered, and answers 405 if
\* and only if the uri is registered with other methods (httpd_uri.c), whatever
\* order the handlers were registered and removed in.
LookupExact ==
  [][pc = "lookup" /\ pc' \in {"handle", "drain"} =>
       LET h == requests[req.of].target
       IN  IF h \in served THEN pc' = "handle"
           ELSE Last(answers') = IF \E g \in served : g.uri = h.uri THEN "405" ELSE "404"]_vars

\* The thread comes back to its select: a client that sends nothing costs it
\* one timeout at most.  The exception is a client that closes its end in the
\* middle of a body: httpd_req_delete reads 0 bytes for ever.
ServerFreed ==
  pc \in {"read", "execute", "handle", "drain"}
    ~> pc \in {"select", "lookup", "closed"} \/ (pc = "drain" /\ hungUp /\ req.remaining > 0)
=============================================================================
