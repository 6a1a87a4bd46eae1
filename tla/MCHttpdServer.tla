--------------------------- MODULE MCHttpdServer ---------------------------
(* The web server's thread on a small instance.  The model never tells one  *)
(* client from another, so that their permutations are a symmetry.          *)
EXTENDS HttpdServer, TLC

Symmetry == Permutations(Clients)
============================================================================
