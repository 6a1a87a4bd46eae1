---------------------------- MODULE MCHttpdRequest ----------------------------
(* The requests of a session for TLC: short ones, so that a block holds less  *)
(* than a request or more, each of the errors, a body, and headers that just  *)
(* fit.  Every request has a header, as those of the edge server do.          *)
EXTENDS HttpdRequest

jpg == [uri |-> "jpg", method |-> "GET"]
H(f, v) == [field |-> f, value |-> v]
Plain == [url |-> 1, headers |-> <<H(1, 1)>>, body |-> 0, version |-> <<1, 1>>,
          malformed |-> FALSE, upgrade |-> FALSE, target |-> jpg]

MCShapes == {
  Plain,
  [Plain EXCEPT !.url = 2, !.headers = <<H(1, 2), H(2, 1)>>],
  [Plain EXCEPT !.body = 1, !.headers = <<H(1, 2), H(2, 1)>>],
  [Plain EXCEPT !.body = 3, !.headers = <<H(2, 1)>>],
  [Plain EXCEPT !.headers = <<H(1, 1), H(4, 4), H(1, 1)>>],
  [Plain EXCEPT !.url = 4],
  [Plain EXCEPT !.version = <<2, 0>>, !.malformed = TRUE],
  [Plain EXCEPT !.upgrade = TRUE],
  [Plain EXCEPT !.target = NULL]}
=============================================================================
