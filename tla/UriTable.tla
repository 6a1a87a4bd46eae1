------------------------------- MODULE UriTable -------------------------------
(***************************************************************************)
(* The table of URI handlers (httpd_uri.c): slots that hold a handler or    *)
(* nothing.  A handler is a record of its uri and its method.  Registration *)
(* is not atomic: the slot is filled with fresh memory, then the uri is     *)
(* set, then the rest, and the server's thread may search the table in      *)
(* between.                                                                 *)
(***************************************************************************)
EXTENDS Naturals, FiniteSets, FiniteSetsExt

CONSTANTS Slots,        \* config.max_uri_handlers
          Uris, Methods,
          NULL,         \* an empty slot
          Garbage       \* what memory holds before it is written, or freed

Handler == [uri : Uris, method : Methods]
Entry == [uri : Uris \cup {Garbage}, method : Methods \cup {Garbage}]

ASSUME UriAssumption ==
  /\ Slots \in Nat \ {0} /\ Garbage \notin Uris \cup Methods
  /\ NULL \notin Entry

VARIABLE hd_calls       \* the table

Table == [1..Slots -> Entry \cup {NULL}]

EmptyTable == [i \in 1..Slots |-> NULL]
Used == {i \in 1..Slots : hd_calls[i] # NULL}

Installed == {hd_calls[i] : i \in Used}

\* A search reads every entry up to the one it finds: one that is not written
\* yet is followed through a wild pointer.
ReadsGarbage == \E e \in Installed : e.uri = Garbage

Registered(h) == h \in Installed

FindFirst(h) ==   \* mutant: the first entry with the uri decides
  LET same == {i \in Used : hd_calls[i].uri = h.uri}
  IN  IF same = {} THEN "404" ELSE IF hd_calls[Min(same)] = h THEN "found" ELSE "405"

\* The handler for an address, or the error that is answered: 405 only if no
\* entry has the method but some entry has the uri.
Find(h) ==
  IF h \in Installed THEN "found"
  ELSE IF \E e \in Installed : e.uri = h.uri THEN "405"
  ELSE "404"

-----------------------------------------------------------------------------
(* httpd_register_uri_handler, in the steps another thread can see.        *)
FreeSlot == Min(1..Slots \ Used)

Publish(h) ==
  /\ ~Registered(h) /\ Used # 1..Slots
  /\ hd_calls' = [hd_calls EXCEPT ![FreeSlot] = [uri |-> Garbage, method |-> Garbage]]

Fill(h) ==
  \E i \in Used : /\ hd_calls[i].uri = Garbage
                  /\ hd_calls' = [hd_calls EXCEPT ![i] = h]

\* httpd_unregister_all_uri_handlers, when the server is stopped, frees what
\* the slots hold; the table goes with the server.

(* httpd_unregister_uri_handler and httpd_unregister_uri.                  *)
Unregister(h) == hd_calls' = [i \in 1..Slots |-> IF hd_calls[i] = h THEN NULL ELSE hd_calls[i]]

UnregisterUri(u) ==
  hd_calls' = [i \in 1..Slots |->
                 IF i \in Used /\ hd_calls[i].uri = u THEN NULL ELSE hd_calls[i]]
=============================================================================
