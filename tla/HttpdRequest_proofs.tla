-------------------------- MODULE HttpdRequest_proofs --------------------------
(* Proofs about a session of the web server and the handlers it looks up.     *)
EXTENDS HttpdRequest, Numbers, SequenceTheorems, FiniteSetTheorems, TLAPS

LEMMA MinIsFirst ==
  ASSUME NEW S, S \subseteq Nat, S # {}
  PROVE  Min(S) \in S /\ \A y \in S : Min(S) <= y
BY First DEF Min

-----------------------------------------------------------------------------
(* The table of handlers.                                                   *)

\* Whatever the order of registrations and removals, the entries that are
\* written are the handlers registered and not removed.
ServedInv ==
  /\ hd_calls \in Table
  /\ {e \in Installed : e.uri # Garbage} = served
  /\ main.doing \in Handler \cup {NULL} /\ main = [calls |-> main.calls, doing |-> main.doing]
  /\ served \subseteq Handler

LEMMA HandlerIsWritten ==
  /\ \A h \in Handler : h.uri \in Uris /\ h.uri # Garbage /\ h # NULL /\ h \in Entry
  /\ [uri |-> Garbage, method |-> Garbage] \in Entry
  /\ NULL \notin Entry
BY UriAssumption DEF Handler, Entry

LEMMA InitServed == Init => ServedInv
<1> SUFFICES ASSUME Init PROVE ServedInv
  OBVIOUS
<1>1. Used = {}
  BY DEF Init, EmptyTable, Used
<1>2. Installed = {}
  BY <1>1 DEF Installed
<1> QED BY <1>2 DEF Init, ServedInv, EmptyTable, Table

LEMMA RegisterServed ==
  ASSUME ServedInv, Register
  PROVE  ServedInv'
<1>1. PICK h \in Handler : Publish(h) /\ main' = [calls |-> main.calls + 1, doing |-> h]
  BY DEF Register
<1>2. served' = served
  BY DEF Register
<1> DEFINE g == [uri |-> Garbage, method |-> Garbage]
<1>3. FreeSlot \in 1..Slots \ Used
  BY <1>1, MinIsFirst, UriAssumption DEF Publish, FreeSlot, Used
<1>4. /\ hd_calls \in Table /\ hd_calls' = [hd_calls EXCEPT ![FreeSlot] = g]
      /\ hd_calls[FreeSlot] = NULL /\ g \in Entry /\ g # NULL /\ g.uri = Garbage
  BY <1>1, <1>3, HandlerIsWritten DEF Publish, ServedInv, Used
<1>5. hd_calls' \in Table
  BY <1>3, <1>4 DEF Table
<1>6. Installed' = Installed \cup {g}
  BY <1>3, <1>4 DEF Installed, Used, Table
<1>7. {e \in Installed' : e.uri # Garbage} = served
  BY <1>4, <1>6 DEF ServedInv
<1> QED BY <1>1, <1>2, <1>5, <1>7 DEF ServedInv

LEMMA InstallServed ==
  ASSUME ServedInv, Install
  PROVE  ServedInv'
<1> DEFINE h == main.doing
<1>1. /\ h \in Handler /\ served' = served \cup {h}
      /\ main' = [main EXCEPT !.doing = NULL]
  BY DEF Install, ServedInv
<1>2. PICK i \in Used : hd_calls[i].uri = Garbage /\ hd_calls' = [hd_calls EXCEPT ![i] = h]
  BY DEF Install, Fill
<1>3. h \in Entry /\ h # NULL /\ h.uri # Garbage
  BY <1>1, HandlerIsWritten
<1>4. hd_calls \in Table /\ i \in 1..Slots
  BY <1>2 DEF ServedInv, Used
<1>5. hd_calls' \in Table
  BY <1>2, <1>3, <1>4 DEF Table
<1>6. \A x : x \in Installed' /\ x.uri # Garbage <=> (x \in Installed /\ x.uri # Garbage) \/ x = h
  <2> TAKE x
  <2>1. CASE x = h
    BY <1>2, <1>3, <1>4, <2>1 DEF Installed, Used, Table
  <2>2. CASE x # h
    <3>1. ASSUME NEW j \in 1..Slots, j # i PROVE hd_calls'[j] = hd_calls[j]
      BY <1>2, <1>4, <3>1 DEF Table
    <3>2. hd_calls'[i] = h
      BY <1>2, <1>4 DEF Table
    <3> QED BY <1>2, <1>4, <2>2, <3>1, <3>2 DEF Installed, Used
  <2> QED BY <2>1, <2>2
<1>7. {e \in Installed' : e.uri # Garbage} = served'
  BY <1>1, <1>6 DEF ServedInv
<1>8. main' = [calls |-> main.calls, doing |-> NULL]
  BY <1>1 DEF ServedInv
<1> QED BY <1>1, <1>5, <1>7, <1>8 DEF ServedInv

\* The entries that are removed, by a handler's address and method or by its
\* address, are those that are no longer served.
LEMMA RemoveServed ==
  ASSUME ServedInv, RemoveHandler
  PROVE  ServedInv'
<1>1. main.doing = NULL /\ main' = [main EXCEPT !.calls = @ + 1]
  BY DEF RemoveHandler, Calling
<1>2. main' = [calls |-> main.calls + 1, doing |-> NULL]
  BY <1>1 DEF ServedInv
<1>3. ASSUME NEW gone, served' = served \ gone,
             hd_calls' = [i \in 1..Slots |-> IF i \in Used /\ hd_calls[i] \in gone THEN NULL ELSE hd_calls[i]]
      PROVE  ServedInv'
  <2>1. hd_calls' \in Table
    BY <1>3 DEF ServedInv, Table
  <2>2. Used' = {i \in Used : hd_calls[i] \notin gone} /\ \A i \in Used' : hd_calls'[i] = hd_calls[i]
    BY <1>3 DEF Used
  <2>3. Installed' = Installed \ gone
    BY <2>2 DEF Installed
  <2>4. {e \in Installed' : e.uri # Garbage} = served'
    BY <1>3, <2>3 DEF ServedInv
  <2> QED BY <1>2, <1>3, <2>1, <2>4 DEF ServedInv
<1>4. CASE \E h \in Handler : Unregister(h) /\ served' = served \ {h}
  <2>1. PICK h \in Handler : Unregister(h) /\ served' = served \ {h}
    BY <1>4
  <2>2. hd_calls' = [i \in 1..Slots |-> IF i \in Used /\ hd_calls[i] \in {h} THEN NULL ELSE hd_calls[i]]
    BY <2>1, HandlerIsWritten DEF Unregister, Used
  <2> QED BY <1>3, <2>1, <2>2
<1>5. CASE \E u \in Uris : UnregisterUri(u) /\ served' = {h \in served : h.uri # u}
  <2>1. PICK u \in Uris : UnregisterUri(u) /\ served' = {h \in served : h.uri # u}
    BY <1>5
  <2> DEFINE gone == {e \in Entry : e.uri = u}
  <2>2. \A i \in Used : hd_calls[i] \in gone <=> hd_calls[i].uri = u
    BY DEF ServedInv, Table, Used
  <2>3. hd_calls' = [i \in 1..Slots |-> IF i \in Used /\ hd_calls[i] \in gone THEN NULL ELSE hd_calls[i]]
    BY <2>1, <2>2 DEF UnregisterUri
  <2>4. served' = served \ gone
    BY <2>1, HandlerIsWritten DEF ServedInv
  <2> HIDE DEF gone
  <2> QED BY <1>3, <2>3, <2>4
<1> QED BY <1>4, <1>5 DEF RemoveHandler

LEMMA ServedStep ==
  ASSUME ServedInv, [Next]_vars
  PROVE  ServedInv'
<1> USE DEF ServedInv, Installed, Used
<1>1. CASE UNCHANGED table
  BY <1>1 DEF table
<1>2. CASE Server
  BY <1>1, <1>2 DEF Server, NewRequest, ReadPending, ReadSocket, Parse, ReadFails, TooBig, BlockParsed,
     Silent, BadSyntax, CbUrl, FirstField, CbHeaderField, CbHeaderValue, CbHeadersComplete,
     CbOnBody, CbNoBody, Accept, Fail, Complete, Lookup, HandlerRecv, HandlerReturns, ReqDelete
<1>3. CASE Main
  BY <1>1, <1>3, RegisterServed, InstallServed, RemoveServed DEF Main, NoMemory
<1>4. CASE Leave
  BY <1>1, <1>4 DEF Leave
<1>5. CASE Ended
  BY <1>1, <1>5 DEF Ended
<1> QED BY <1>1, <1>2, <1>3, <1>4, <1>5 DEF Next, vars

-----------------------------------------------------------------------------
(* The bytes of a connection.                                               *)

\* The sequences before the i-th take at[i] places, and the i-th the next.
Laid(flat, seqs, n, at) ==
  /\ at \in [1..n + 1 -> Nat] /\ at[1] = 0 /\ at[n + 1] = Len(flat)
  /\ \A i \in 1..n : /\ at[i + 1] = at[i] + Len(seqs[i]) /\ at[i + 1] <= Len(flat)
                     /\ \A j \in 1..Len(seqs[i]) : flat[at[i] + j] = seqs[i][j]
  /\ \A p \in 1..Len(flat) : \E i \in 1..n : p \in at[i] + 1..at[i + 1]

LEMMA FlattenLaid ==
  ASSUME NEW S, NEW n \in Nat \ {0}, NEW seqs \in [1..n -> Seq(S)]
  PROVE  FlattenSeq(seqs) \in Seq(S) /\ \E at : Laid(FlattenSeq(seqs), seqs, n, at)
<1>1. Len(seqs) = n
  OBVIOUS
<1>2. PICK f : /\ FlattenSeq(seqs) = f[n]
               /\ \A i \in 1..n : f[i] = IF i = 1 THEN seqs[i] ELSE f[i - 1] \o seqs[i]
  BY <1>1, FlattenSteps
<1>8. \A i \in 1..n : f[i] = IF i = 1 THEN seqs[i] ELSE f[i - 1] \o seqs[i]
  BY <1>2
<1> DEFINE P == {m \in Nat : m + 1 \in 1..n =>
                   f[m + 1] \in Seq(S) /\ \E at : Laid(f[m + 1], seqs, m + 1, at)}
<1>4. 0 \in P
  <2> DEFINE at == [i \in 1..2 |-> IF i = 1 THEN 0 ELSE Len(seqs[1])]
  <2>1. f[1] = seqs[1] /\ seqs[1] \in Seq(S) /\ Len(seqs[1]) \in Nat
    BY <1>8
  <2>2. at \in [1..2 -> Nat] /\ at[1] = 0 /\ at[2] = Len(seqs[1])
    BY <2>1
  <2> HIDE DEF at
  <2>3. Laid(f[1], seqs, 1, at)
    BY <2>1, <2>2 DEF Laid
  <2> QED BY <2>1, <2>3
<1>5. ASSUME NEW m \in Nat, m \in P PROVE m + 1 \in P
  <2> SUFFICES ASSUME m + 2 \in 1..n
               PROVE  f[m + 2] \in Seq(S) /\ \E at : Laid(f[m + 2], seqs, m + 2, at)
    BY <1>5
  <2>1. m + 1 \in 1..n /\ f[m + 1] \in Seq(S)
    BY <1>5
  <2>2. PICK at : Laid(f[m + 1], seqs, m + 1, at)
    BY <1>5, <2>1
  <2> DEFINE s == f[m + 1]
             t == seqs[m + 2]
             to == [i \in 1..m + 3 |-> IF i = m + 3 THEN Len(s) + Len(t) ELSE at[i]]
  <2>3. f[m + 2] = s \o t /\ s \in Seq(S) /\ t \in Seq(S) /\ m + 2 # 1 /\ m + 2 - 1 = m + 1
    <3>1. m + 2 # 1 /\ m + 2 - 1 = m + 1
      OBVIOUS
    <3>2. f[m + 2] = IF m + 2 = 1 THEN seqs[m + 2] ELSE f[m + 2 - 1] \o seqs[m + 2]
      BY <1>8
    <3> QED BY <2>1, <3>1, <3>2
  <2>5. /\ at \in [1..m + 2 -> Nat] /\ at[1] = 0 /\ at[m + 2] = Len(s)
        /\ \A i \in 1..m + 1 : /\ at[i + 1] = at[i] + Len(seqs[i]) /\ at[i + 1] <= Len(s)
                               /\ \A j \in 1..Len(seqs[i]) : s[at[i] + j] = seqs[i][j]
        /\ \A p \in 1..Len(s) : \E i \in 1..m + 1 : p \in at[i] + 1..at[i + 1]
    <3>1. m + 1 + 1 = m + 2
      OBVIOUS
    <3> QED BY <2>2, <3>1 DEF Laid
  <2> HIDE DEF s
  <2>4. /\ s \o t \in Seq(S) /\ Len(s) \in Nat /\ Len(t) \in Nat /\ Len(s \o t) = Len(s) + Len(t)
        /\ \A i \in 1..Len(s) : (s \o t)[i] = s[i]
        /\ \A i \in 1..Len(t) : (s \o t)[Len(s) + i] = t[i]
    <3> HIDE DEF t
    <3>1. /\ s \o t \in Seq(S) /\ Len(s \o t) = Len(s) + Len(t)
          /\ \A i \in 1 .. Len(s) + Len(t) : (s \o t)[i] = IF i <= Len(s) THEN s[i] ELSE t[i - Len(s)]
      BY <2>3, ConcatProperties
    <3>2. Len(s) \in Nat /\ Len(t) \in Nat
      BY <2>3, LenProperties
    <3>3. ASSUME NEW i \in 1..Len(t) PROVE (s \o t)[Len(s) + i] = t[i]
      <4>1. Len(s) + i \in 1..Len(s) + Len(t) /\ ~ (Len(s) + i <= Len(s)) /\ Len(s) + i - Len(s) = i
        BY <3>2
      <4> QED BY <3>1, <4>1
    <3> QED BY <3>1, <3>2, <3>3
  <2>6. /\ to \in [1..m + 3 -> Nat] /\ to[m + 3] = Len(s) + Len(t)
        /\ \A i \in 1..m + 2 : to[i] = at[i]
    <3> HIDE DEF t
    <3>1. \A i \in 1..m + 3 : i # m + 3 => i \in 1..m + 2
      OBVIOUS
    <3>2. Len(s) + Len(t) \in Nat /\ \A i \in 1..m + 2 : at[i] \in Nat
      BY <2>4, <2>5
    <3> QED BY <3>1, <3>2
  <2> HIDE DEF t, to
  <2>7. ASSUME NEW i \in 1..m + 2
        PROVE  /\ to[i + 1] = to[i] + Len(seqs[i]) /\ to[i + 1] <= Len(s \o t)
               /\ \A j \in 1..Len(seqs[i]) : (s \o t)[to[i] + j] = seqs[i][j]
    <3>1. CASE i = m + 2
      <4>1. i + 1 = m + 3 /\ to[i] = Len(s) /\ seqs[i] = t
        BY <2>5, <2>6, <3>1 DEF t
      <4> QED BY SMTT(40), <2>4, <2>6, <4>1
    <3>2. CASE i \in 1..m + 1
      <4>0. i \in 1..m + 2 /\ i + 1 \in 1..m + 2
        BY <3>2
      <4>1. /\ to[i] = at[i] /\ to[i + 1] = at[i + 1] /\ at[i] \in Nat /\ at[i + 1] \in Nat
            /\ at[i + 1] = at[i] + Len(seqs[i]) /\ at[i + 1] <= Len(s)
        <5>1. to[i] = at[i] /\ to[i + 1] = at[i + 1]
          BY <2>6, <4>0
        <5>2. at[i] \in Nat /\ at[i + 1] \in Nat
          BY <2>5, <4>0
        <5>3. at[i + 1] = at[i] + Len(seqs[i]) /\ at[i + 1] <= Len(s)
          BY <2>5, <3>2
        <5> QED BY <5>1, <5>2, <5>3
      <4>2. Len(seqs[i]) \in Nat
        <5>1. i \in 1..n
          BY <2>1, <3>2
        <5>2. seqs[i] \in Seq(S)
          BY <5>1
        <5> QED BY <5>2, LenProperties
      <4>3. ASSUME NEW j \in 1..Len(seqs[i]) PROVE (s \o t)[to[i] + j] = seqs[i][j]
        <5>1. s[at[i] + j] = seqs[i][j]
          BY <2>5, <3>2
        <5>2. ASSUME NEW a \in Nat, NEW l \in Nat, NEW e \in Nat, j \in 1..l, a + l <= e
              PROVE  a + j \in 1..e
          BY <5>2
        <5>3. at[i] + j \in 1..Len(s)
          <6>1. at[i] + Len(seqs[i]) <= Len(s) /\ Len(s) \in Nat
            BY <4>1, <2>4
          <6> QED BY <4>1, <4>2, <5>2, <6>1
        <5> QED BY <4>1, <5>1, <5>3, <2>4
      <4>4. to[i + 1] <= Len(s \o t)
        <5>1. ASSUME NEW a \in Nat, NEW b \in Nat, NEW c \in Nat, a <= b PROVE a <= b + c
          BY <5>1
        <5>2. Len(s \o t) = Len(s) + Len(t) /\ Len(s) \in Nat /\ Len(t) \in Nat
          BY <2>4
        <5> QED BY <4>1, <5>1, <5>2
      <4> QED BY <4>1, <4>3, <4>4
    <3>3. i = m + 2 \/ i \in 1..m + 1
      OBVIOUS
    <3> QED BY <3>1, <3>2, <3>3, Zenon
  <2>8. ASSUME NEW p \in 1..Len(s \o t) PROVE \E i \in 1..m + 2 : p \in to[i] + 1..to[i + 1]
    <3>1. CASE p \in 1..Len(s)
      <4>1. PICK i \in 1..m + 1 : p \in at[i] + 1..at[i + 1]
        BY <2>5, <3>1
      <4>2. i \in 1..m + 2 /\ i + 1 \in 1..m + 2
        OBVIOUS
      <4> QED BY <2>6, <4>1, <4>2
    <3>2. CASE p \notin 1..Len(s)
      <4>1. p \in to[m + 2] + 1..to[m + 3] /\ m + 2 + 1 = m + 3 /\ m + 2 \in 1..m + 2
        BY <2>4, <2>5, <2>6, <3>2
      <4> QED BY <4>1
    <3> QED BY <3>1, <3>2
  <2>9. Laid(s \o t, seqs, m + 2, to)
    <3>1. m + 2 + 1 = m + 3 /\ to[1] = 0 /\ to[m + 3] = Len(s \o t)
      BY <2>4, <2>5, <2>6
    <3> QED BY <2>6, <2>7, <2>8, <3>1 DEF Laid
  <2> QED BY <2>3, <2>4, <2>9
<1>6. n - 1 \in P
  <2>1. n - 1 \in Nat
    OBVIOUS
  <2> HIDE DEF P
  <2>2. Nat \subseteq P
    BY <1>4, <1>5, AllNumbers
  <2> QED BY <2>1, <2>2
<1>7. n - 1 + 1 = n /\ n \in 1..n
  OBVIOUS
<1> QED BY <1>2, <1>6, <1>7

\* The text of a request's headers: line k is after place HeadAt(s)[k], its
\* colon and the last byte of its value are where these say, CR LF follows.
Lines(s) == [i \in DOMAIN s.headers |-> Line(s.headers[i])]
HeadAt(s) == CHOOSE at : Laid(FlattenSeq(Lines(s)), Lines(s), Len(s.headers), at)
Colon(s, k) == HeadAt(s)[k] + s.headers[k].field + 1
Stop(s, k) == Colon(s, k) + s.headers[k].value
TextKinds == {"f", ":", "h", "l", "n", "b", "e"}

LEMMA Repeated ==
  ASSUME NEW S, NEW n \in Nat, NEW c \in S
  PROVE  /\ [i \in 1..n |-> c] \in Seq(S) /\ Len([i \in 1..n |-> c]) = n
         /\ \A i \in 1..n : [j \in 1..n |-> c][i] = c
OBVIOUS

LEMMA Joined ==
  ASSUME NEW S, NEW s \in Seq(S), NEW t \in Seq(S)
  PROVE  /\ s \o t \in Seq(S) /\ Len(s) \in Nat /\ Len(t) \in Nat /\ Len(s \o t) = Len(s) + Len(t)
         /\ \A i \in 1..Len(s) : (s \o t)[i] = s[i]
         /\ \A i \in 1..Len(t) : (s \o t)[Len(s) + i] = t[i]
<1>1. /\ s \o t \in Seq(S) /\ Len(s \o t) = Len(s) + Len(t)
      /\ \A i \in 1 .. Len(s) + Len(t) : (s \o t)[i] = IF i <= Len(s) THEN s[i] ELSE t[i - Len(s)]
  BY ConcatProperties
<1>2. Len(s) \in Nat /\ Len(t) \in Nat
  BY LenProperties
<1>3. ASSUME NEW i \in 1..Len(t) PROVE (s \o t)[Len(s) + i] = t[i]
  <2>1. Len(s) + i \in 1..Len(s) + Len(t) /\ ~ (Len(s) + i <= Len(s)) /\ Len(s) + i - Len(s) = i
    BY <1>2
  <2> QED BY <1>1, <2>1
<1> QED BY <1>1, <1>2, <1>3

LEMMA LineIs ==
  ASSUME NEW h \in Header
  PROVE  /\ Line(h) \in Seq(TextKinds) /\ Len(Line(h)) = h.field + h.value + 3
         /\ \A i \in 1..h.field : Line(h)[i] = "f"
         /\ Line(h)[h.field + 1] = ":"
         /\ \A i \in 1..h.value : Line(h)[h.field + 1 + i] = "h"
         /\ Line(h)[h.field + h.value + 2] = "l"
         /\ Line(h)[h.field + h.value + 3] = "n"
<1> DEFINE a == [i \in 1..h.field |-> "f"]
           b == [i \in 1..h.value |-> "h"]
           c == a \o <<":">>
           d == c \o b
<1>1. h.field \in Nat /\ h.value \in Nat
  BY DEF Header
<1>2. /\ a \in Seq(TextKinds) /\ Len(a) = h.field /\ \A i \in 1..h.field : a[i] = "f"
      /\ b \in Seq(TextKinds) /\ Len(b) = h.value /\ \A i \in 1..h.value : b[i] = "h"
  <2>1. "f" \in TextKinds /\ "h" \in TextKinds
    BY DEF TextKinds
  <2> QED BY <1>1, <2>1, Repeated
<1>3. /\ <<":">> \in Seq(TextKinds) /\ Len(<<":">>) = 1 /\ <<":">>[1] = ":"
      /\ <<"l", "n">> \in Seq(TextKinds) /\ Len(<<"l", "n">>) = 2
      /\ <<"l", "n">>[1] = "l" /\ <<"l", "n">>[2] = "n"
  BY DEF TextKinds
<1>4. Line(h) = d \o <<"l", "n">>
  BY DEF Line
<1> HIDE DEF a, b
<1>5. /\ c \in Seq(TextKinds) /\ Len(c) = h.field + 1
      /\ \A i \in 1..h.field : c[i] = "f"
      /\ c[h.field + 1] = ":"
  BY <1>1, <1>2, <1>3, Joined
<1> HIDE DEF c
<1>6. /\ d \in Seq(TextKinds) /\ Len(d) = h.field + 1 + h.value
      /\ \A i \in 1..h.field : d[i] = "f"
      /\ d[h.field + 1] = ":"
      /\ \A i \in 1..h.value : d[h.field + 1 + i] = "h"
  <2>1. /\ d \in Seq(TextKinds) /\ Len(d) = h.field + 1 + h.value
        /\ \A i \in 1..h.field + 1 : d[i] = c[i]
        /\ \A i \in 1..h.value : d[h.field + 1 + i] = b[i]
    <3>1. /\ d \in Seq(TextKinds) /\ Len(d) = Len(c) + Len(b)
          /\ \A i \in 1..Len(c) : d[i] = c[i]
          /\ \A i \in 1..Len(b) : d[Len(c) + i] = b[i]
      <4>1. c \in Seq(TextKinds) /\ b \in Seq(TextKinds) /\ d = c \o b
        BY <1>2, <1>5
      <4> HIDE DEF d
      <4> QED BY <4>1, Joined
    <3> QED BY <1>2, <1>5, <3>1
  <2> HIDE DEF d
  <2>3. \A i \in 1..h.field : i \in 1..h.field + 1
    BY <1>1
  <2>4. h.field + 1 \in 1..h.field + 1
    BY <1>1
  <2> QED BY ZenonT(60), <1>2, <1>5, <2>1, <2>3, <2>4
<1> HIDE DEF d
<1>7. /\ Line(h) \in Seq(TextKinds) /\ Len(Line(h)) = h.field + 1 + h.value + 2
      /\ \A i \in 1..h.field + 1 + h.value : Line(h)[i] = d[i]
      /\ Line(h)[h.field + 1 + h.value + 1] = "l"
      /\ Line(h)[h.field + 1 + h.value + 2] = "n"
  <2>1. /\ Line(h) \in Seq(TextKinds) /\ Len(Line(h)) = Len(d) + Len(<<"l", "n">>)
        /\ \A i \in 1..Len(d) : Line(h)[i] = d[i]
        /\ \A i \in 1..Len(<<"l", "n">>) : Line(h)[Len(d) + i] = <<"l", "n">>[i]
    BY <1>3, <1>4, <1>6, Joined
  <2> QED BY <1>3, <1>6, <2>1
<1>8. ASSUME NEW f \in Nat, NEW v \in Nat
      PROVE  /\ f + 1 + v + 2 = f + v + 3 /\ f + 1 + v + 1 = f + v + 2
             /\ \A i \in 1..f : i \in 1..f + 1 + v
             /\ f + 1 \in 1..f + 1 + v
             /\ \A i \in 1..v : f + 1 + i \in 1..f + 1 + v
  OBVIOUS
<1> QED BY <1>1, <1>6, <1>7, <1>8

LEMMA TextIs ==
  ASSUME NEW s \in Shapes
  PROVE  LET m == Len(s.headers)
             T == HeaderText(s)
             at == HeadAt(s)
         IN  /\ m \in Nat \ {0} /\ T \in Seq(TextKinds) /\ Len(T) \in Nat
             /\ at \in [1..m + 1 -> Nat] /\ at[1] = 0 /\ at[m + 1] + 2 = Len(T)
             /\ \A k \in 1..m :
                  /\ Colon(s, k) \in Nat /\ Stop(s, k) \in Nat
                  /\ at[k] + 1 < Colon(s, k) /\ Colon(s, k) < Stop(s, k)
                  /\ Stop(s, k) + 2 = at[k + 1] /\ at[k + 1] + 2 <= Len(T)
                  /\ \A i \in at[k] + 1..Colon(s, k) - 1 : T[i] = "f"
                  /\ T[Colon(s, k)] = ":"
                  /\ \A i \in Colon(s, k) + 1..Stop(s, k) : T[i] = "h"
                  /\ T[Stop(s, k) + 1] = "l" /\ T[Stop(s, k) + 2] = "n"
             /\ T[Len(T) - 1] = "b" /\ T[Len(T)] = "e"
<1> DEFINE m == Len(s.headers)
           T == HeaderText(s)
           at == HeadAt(s)
           F == FlattenSeq(Lines(s))
<1>1. m \in Nat \ {0} /\ \A k \in 1..m : s.headers[k] \in Header /\ DOMAIN s.headers = 1..m
  <2>1. s.headers \in Seq(Header) /\ s.headers # <<>>
    BY ShapeAssumption DEF Shape
  <2> QED BY <2>1, EmptySeq, LenProperties
<1>2. Lines(s) \in [1..m -> Seq(TextKinds)] /\ \A k \in 1..m : Lines(s)[k] = Line(s.headers[k])
  BY <1>1, LineIs DEF Lines
<1>3. F \in Seq(TextKinds) /\ Laid(F, Lines(s), m, at)
  <2>1. F \in Seq(TextKinds) /\ \E x : Laid(F, Lines(s), m, x)
    <3> HIDE DEF m, F
    <3>1. FlattenSeq(Lines(s)) \in Seq(TextKinds) /\ \E x : Laid(FlattenSeq(Lines(s)), Lines(s), m, x)
      BY <1>1, <1>2, FlattenLaid
    <3> QED BY <3>1 DEF F
  <2> QED BY <2>1 DEF HeadAt
<1>4. T = F \o <<"b", "e">>
  BY DEF HeaderText, Lines
<1> HIDE DEF F, T, m, at
<1>5. /\ T \in Seq(TextKinds) /\ Len(T) = Len(F) + 2 /\ Len(F) \in Nat
      /\ \A i \in 1..Len(F) : T[i] = F[i]
      /\ T[Len(F) + 1] = "b" /\ T[Len(F) + 2] = "e"
  <2>1. /\ <<"b", "e">> \in Seq(TextKinds) /\ Len(<<"b", "e">>) = 2
        /\ <<"b", "e">>[1] = "b" /\ <<"b", "e">>[2] = "e"
    BY DEF TextKinds
  <2> QED BY <1>3, <1>4, <2>1, Joined
<1>6. at \in [1..m + 1 -> Nat] /\ at[1] = 0 /\ at[m + 1] = Len(F)
  BY <1>3 DEF Laid
<1>7. ASSUME NEW k \in 1..m
      PROVE  /\ Colon(s, k) \in Nat /\ Stop(s, k) \in Nat
             /\ at[k] + 1 < Colon(s, k) /\ Colon(s, k) < Stop(s, k)
             /\ Stop(s, k) + 2 = at[k + 1] /\ at[k + 1] + 2 <= Len(T)
             /\ \A i \in at[k] + 1..Colon(s, k) - 1 : T[i] = "f"
             /\ T[Colon(s, k)] = ":"
             /\ \A i \in Colon(s, k) + 1..Stop(s, k) : T[i] = "h"
             /\ T[Stop(s, k) + 1] = "l" /\ T[Stop(s, k) + 2] = "n"
  <2> DEFINE h == s.headers[k]
             L == Line(h)
             a == at[k]
             f == h.field
             v == h.value
  <2>1. h \in Header /\ Lines(s)[k] = L
    BY <1>1, <1>2
  <2>2. f \in Nat \ {0} /\ v \in Nat \ {0} /\ a \in Nat
    BY <2>1, <1>1, <1>6 DEF Header
  <2>3. /\ Len(L) = f + v + 3 /\ \A i \in 1..f : L[i] = "f"
        /\ L[f + 1] = ":" /\ \A i \in 1..v : L[f + 1 + i] = "h"
        /\ L[f + v + 2] = "l" /\ L[f + v + 3] = "n"
    BY <2>1, LineIs
  <2>4. Colon(s, k) = a + f + 1 /\ Stop(s, k) = a + f + 1 + v
    BY DEF Colon, Stop, at
  <2>5. at[k + 1] = a + Len(L) /\ at[k + 1] <= Len(F) /\ \A j \in 1..Len(L) : F[a + j] = L[j]
    BY <1>3, <2>1 DEF Laid
  <2> HIDE DEF L, a, f, v
  <2>6. at[k + 1] = a + f + v + 3
    BY <2>2, <2>3, <2>5
  <2>7. ASSUME NEW j \in 1..f + v + 3 PROVE T[a + j] = L[j]
    <3>1. a + j \in 1..Len(F)
      BY <1>5, <2>2, <2>5, <2>6
    <3> QED BY <1>5, <2>3, <2>5, <3>1
  <2>8. ASSUME NEW i \in a + 1..a + f PROVE T[i] = "f"
    <3>1. i - a \in 1..f /\ i - a \in 1..f + v + 3 /\ a + (i - a) = i
      BY <2>2
    <3> QED BY <2>3, <2>7, <3>1
  <2>9. ASSUME NEW i \in a + f + 2..a + f + 1 + v PROVE T[i] = "h"
    <3>1. i - a - f - 1 \in 1..v /\ i - a \in 1..f + v + 3 /\ a + (i - a) = i /\ i - a = f + 1 + (i - a - f - 1)
      BY <2>2
    <3> QED BY <2>3, <2>7, <3>1
  <2>10. /\ f + 1 \in 1..f + v + 3 /\ f + v + 2 \in 1..f + v + 3 /\ f + v + 3 \in 1..f + v + 3
         /\ a + (f + 1) = a + f + 1 /\ a + (f + v + 2) = a + f + 1 + v + 1
         /\ a + (f + v + 3) = a + f + 1 + v + 2
    BY <2>2
  <2>11. T[a + f + 1] = ":" /\ T[a + f + 1 + v + 1] = "l" /\ T[a + f + 1 + v + 2] = "n"
    BY <2>3, <2>7, <2>10
  <2>13. /\ \A i \in at[k] + 1..Colon(s, k) - 1 : T[i] = "f"
         /\ \A i \in Colon(s, k) + 1..Stop(s, k) : T[i] = "h"
    <3>1. at[k] = a
      BY DEF a
    <3>2. Colon(s, k) - 1 = a + f /\ Colon(s, k) + 1 = a + f + 2
      BY <2>2, <2>4
    <3> QED BY <2>4, <2>8, <2>9, <3>1, <3>2
  <2>14. /\ Colon(s, k) \in Nat /\ Stop(s, k) \in Nat
         /\ at[k] + 1 < Colon(s, k) /\ Colon(s, k) < Stop(s, k)
         /\ Stop(s, k) + 2 = at[k + 1] /\ at[k + 1] + 2 <= Len(T)
    <3>1. at[k] = a
      BY DEF a
    <3>2. at[k + 1] <= Len(F) /\ Len(F) \in Nat /\ Len(T) = Len(F) + 2
      BY <1>5, <2>5
    <3> QED BY <2>2, <2>4, <2>6, <3>1, <3>2
  <2> QED BY <2>4, <2>11, <2>13, <2>14
<1>8. /\ at[m + 1] + 2 = Len(T) /\ Len(T) \in Nat
      /\ T[Len(T) - 1] = "b" /\ T[Len(T)] = "e"
  <2>1. Len(F) + 2 - 1 = Len(F) + 1 /\ Len(F) + 2 \in Nat
    BY <1>5
  <2> QED BY <1>5, <1>6, <2>1
<1> QED BY <1>1, <1>5, <1>6, <1>7, <1>8 DEF m, T, at

\* The bytes of a request: its line, the text of its headers, its body.
AllKinds == TextKinds \cup {"m", "u", "v", "d"}

LEMMA RequestLineIs ==
  ASSUME NEW s \in Shapes
  PROVE  LET R == RequestLine(s)
         IN  /\ s.url \in Nat \ {0} /\ R \in Seq(AllKinds) /\ Len(R) = s.url + 4 /\ R[1] = "m"
             /\ \A i \in 2..s.url + 1 : R[i] = "u"
             /\ R[s.url + 2] = "v" /\ R[s.url + 3] = "l" /\ R[s.url + 4] = "n"
<1> DEFINE R == RequestLine(s)
           n == s.url
           u == [i \in 1..n |-> "u"]
           a == <<"m">> \o u
           z == <<"v", "l", "n">>
<1>1. n \in Nat \ {0}
  BY ShapeAssumption DEF Shape
<1>2. /\ <<"m">> \in Seq(AllKinds) /\ Len(<<"m">>) = 1 /\ <<"m">>[1] = "m"
      /\ z \in Seq(AllKinds) /\ Len(z) = 3
      /\ z[1] = "v" /\ z[2] = "l" /\ z[3] = "n"
  BY DEF AllKinds, TextKinds
<1>3. u \in Seq(AllKinds) /\ Len(u) = n /\ \A i \in 1..n : u[i] = "u"
  <2>1. "u" \in AllKinds
    BY DEF AllKinds
  <2> QED BY <1>1, <2>1, Repeated
<1>4. a = <<"m">> \o u /\ R = a \o z
  BY DEF RequestLine
<1> HIDE DEF R, n, u, a, z
<1>5. /\ a \in Seq(AllKinds) /\ Len(a) = n + 1 /\ a[1] = "m"
      /\ \A i \in 2..n + 1 : a[i] = "u"
  <2>1. /\ a \in Seq(AllKinds) /\ Len(a) = Len(<<"m">>) + Len(u)
        /\ \A i \in 1..Len(<<"m">>) : a[i] = <<"m">>[i]
        /\ \A i \in 1..Len(u) : a[Len(<<"m">>) + i] = u[i]
    <3>1. <<"m">> \in Seq(AllKinds) /\ u \in Seq(AllKinds) /\ a = <<"m">> \o u
      BY <1>2, <1>3, <1>4
    <3> QED BY <3>1, Joined
  <2>2. \A i \in 1..n : a[1 + i] = "u"
    BY <1>2, <1>3, <2>1
  <2>3. ASSUME NEW i \in 2..n + 1 PROVE a[i] = "u"
    <3>1. i - 1 \in 1..n /\ 1 + (i - 1) = i
      BY <1>1
    <3> QED BY <2>2, <3>1
  <2> QED BY <1>1, <1>2, <1>3, <2>1, <2>3
<1>6. /\ R \in Seq(AllKinds) /\ Len(R) = n + 4
      /\ \A i \in 1..n + 1 : R[i] = a[i]
      /\ R[n + 2] = "v" /\ R[n + 3] = "l" /\ R[n + 4] = "n"
  <2>1. /\ R \in Seq(AllKinds) /\ Len(R) = Len(a) + Len(z)
        /\ \A i \in 1..Len(a) : R[i] = a[i]
        /\ \A i \in 1..Len(z) : R[Len(a) + i] = z[i]
    <3>1. a \in Seq(AllKinds) /\ z \in Seq(AllKinds) /\ R = a \o z
      BY <1>2, <1>4, <1>5
    <3> QED BY <3>1, Joined
  <2>2. R[n + 1 + 1] = "v" /\ R[n + 1 + 2] = "l" /\ R[n + 1 + 3] = "n"
    BY <1>2, <1>5, <2>1
  <2>3. n + 1 + 1 = n + 2 /\ n + 1 + 2 = n + 3 /\ n + 1 + 3 = n + 4
    BY <1>1
  <2> QED BY <1>2, <1>5, <2>1, <2>2, <2>3
<1>7. \A i \in 2..n + 1 : i \in 1..n + 1
  BY <1>1
<1>8. 1 \in 1..n + 1
  BY <1>1
<1> QED BY <1>1, <1>5, <1>6, <1>7, <1>8 DEF R, n

LEMMA KindsAre ==
  ASSUME NEW s \in Shapes
  PROVE  LET L == Len(HeaderText(s))
             K == Kinds(s)
         IN  /\ L \in Nat /\ s.body \in Nat
             /\ K \in Seq(AllKinds) /\ Len(K) = s.url + 4 + L + s.body
             /\ \A i \in 1..s.url + 4 : K[i] = RequestLine(s)[i]
             /\ \A i \in 1..L : K[s.url + 4 + i] = HeaderText(s)[i]
             /\ \A i \in 1..s.body : K[s.url + 4 + L + i] = "d"
             /\ \A i \in 1..Len(K) : K[i] = "m" => i = 1
<1> DEFINE K == Kinds(s)
           R == RequestLine(s)
           T == HeaderText(s)
           D == [i \in 1..s.body |-> "d"]
           P == R \o T
           r == s.url + 4
           L == Len(T)
           b == s.body
<1>1. b \in Nat
  BY ShapeAssumption DEF Shape
<1>2. /\ s.url \in Nat /\ R \in Seq(AllKinds) /\ Len(R) = r
      /\ \A i \in 1..r : R[i] = "m" => i = 1
  <2>1. ASSUME NEW i \in 1..r, R[i] = "m" PROVE i = 1
    <3>1. i = 1 \/ i \in 2..s.url + 1 \/ i = s.url + 2 \/ i = s.url + 3 \/ i = s.url + 4
      <4>1. s.url \in Nat \ {0}
        BY RequestLineIs
      <4> HIDE DEF R
      <4> QED BY <4>1
    <3> QED BY <2>1, <3>1, RequestLineIs
  <2> QED BY <2>1, RequestLineIs
<1>3. T \in Seq(TextKinds) /\ T \in Seq(AllKinds) /\ L \in Nat
  <2>1. T \in Seq(TextKinds) /\ L \in Nat
    BY TextIs
  <2>2. TextKinds \subseteq AllKinds
    BY DEF AllKinds
  <2> QED BY <2>1, <2>2, SeqMonotonic
<1>4. D \in Seq(AllKinds) /\ Len(D) = b /\ \A i \in 1..b : D[i] = "d"
  <2>1. "d" \in AllKinds
    BY DEF AllKinds
  <2> QED BY <1>1, <2>1, Repeated
<1>5. P = R \o T /\ K = P \o D
  BY DEF Kinds
<1>6. r \in Nat
  BY <1>2
<1> HIDE DEF K, R, T, D, P, r, b
<1>7. /\ P \in Seq(AllKinds) /\ Len(P) = r + L
      /\ \A i \in 1..r : P[i] = R[i]
      /\ \A i \in 1..L : P[r + i] = T[i]
  <2>1. /\ P \in Seq(AllKinds) /\ Len(P) = Len(R) + Len(T)
        /\ \A i \in 1..Len(R) : P[i] = R[i]
        /\ \A i \in 1..Len(T) : P[Len(R) + i] = T[i]
    <3>1. R \in Seq(AllKinds) /\ T \in Seq(AllKinds) /\ P = R \o T
      BY <1>2, <1>3, <1>5
    <3> QED BY <3>1, Joined
  <2> QED BY <1>2, <2>1
<1>8. /\ K \in Seq(AllKinds) /\ Len(K) = r + L + b
      /\ \A i \in 1..r + L : K[i] = P[i]
      /\ \A i \in 1..b : K[r + L + i] = "d"
  <2>1. /\ K \in Seq(AllKinds) /\ Len(K) = Len(P) + Len(D)
        /\ \A i \in 1..Len(P) : K[i] = P[i]
        /\ \A i \in 1..Len(D) : K[Len(P) + i] = D[i]
    <3>1. P \in Seq(AllKinds) /\ D \in Seq(AllKinds) /\ K = P \o D
      BY <1>4, <1>5, <1>7
    <3> QED BY <3>1, Joined
  <2> QED BY <1>4, <1>7, <2>1
<1>9. \A i \in 1..r : K[i] = R[i]
  <2>1. \A i \in 1..r : i \in 1..r + L
    BY <1>3, <1>6
  <2> QED BY <1>7, <1>8, <2>1
<1>10. \A i \in 1..L : K[r + i] = T[i]
  <2>1. \A i \in 1..L : r + i \in 1..r + L
    BY <1>3, <1>6
  <2> QED BY <1>7, <1>8, <2>1
<1>11. ASSUME NEW i \in 1..Len(K), K[i] = "m" PROVE i = 1
  <2>1. CASE i \in 1..r
    BY <1>2, <1>9, <1>11, <2>1
  <2>2. CASE i - r \in 1..L
    <3>1. r + (i - r) = i
      BY <1>6
    <3>2. K[i] = T[i - r] /\ T[i - r] \in TextKinds
      BY <1>3, <1>10, <2>2, <3>1, ElementOfSeq
    <3> QED BY <1>11, <3>2 DEF TextKinds
  <2>3. CASE i - (r + L) \in 1..b
    <3>1. r + L + (i - (r + L)) = i
      BY <1>3, <1>6
    <3> QED BY <1>8, <1>11, <2>3, <3>1
  <2>4. i \in 1..r \/ i - r \in 1..L \/ i - (r + L) \in 1..b
    <3>1. i \in 1..r + L + b
      BY <1>8
    <3> HIDE DEF L
    <3> QED BY <1>1, <1>3, <1>6, <3>1
  <2> QED BY <2>1, <2>2, <2>3, <2>4
<1> QED BY <1>1, <1>3, <1>8, <1>9, <1>10, <1>11 DEF K, R, T, r, b

\* Where the requests are among the bytes of the connection.
Sent == [q \in DOMAIN requests |-> Bytes(requests[q], q)]
Stream == FlattenSeq(Sent)
Start == CHOOSE at : Laid(Stream, Sent, Len(requests), at)
TextFrom(q) == Start[q] + requests[q].url + 4
BodyFrom(q) == TextFrom(q) + Len(HeaderText(requests[q]))

LEMMA BytesAre ==
  ASSUME NEW s \in Shapes, NEW Q, NEW q \in Q
  PROVE  /\ Bytes(s, q) \in Seq([of : Q, kind : AllKinds]) /\ Len(Bytes(s, q)) = Len(Kinds(s))
         /\ \A i \in 1..Len(Kinds(s)) : Bytes(s, q)[i] = [of |-> q, kind |-> Kinds(s)[i]]
<1> DEFINE n == Len(Kinds(s))
<1>1. n \in Nat /\ DOMAIN Kinds(s) = 1..n /\ \A i \in 1..n : Kinds(s)[i] \in AllKinds
  BY KindsAre, LenProperties, ElementOfSeq
<1>2. Bytes(s, q) = [i \in 1..n |-> [of |-> q, kind |-> Kinds(s)[i]]]
  BY <1>1 DEF Bytes
<1> HIDE DEF n
<1>3. \A i \in 1..n : [of |-> q, kind |-> Kinds(s)[i]] \in [of : Q, kind : AllKinds]
  BY <1>1
<1>4. Bytes(s, q) \in Seq([of : Q, kind : AllKinds]) /\ Len(Bytes(s, q)) = n
  BY <1>1, <1>2, <1>3
<1> QED BY <1>2, <1>4 DEF n

Asked == requests \in Seq(Shapes) /\ requests # <<>>

LEMMA RequestsAre ==
  ASSUME Asked
  PROVE  LET n == Len(requests)
         IN  /\ n \in Nat \ {0} /\ DOMAIN requests = 1..n /\ \A q \in 1..n : requests[q] \in Shapes
             /\ Stream \in Seq([of : 1..n, kind : AllKinds]) /\ Laid(Stream, Sent, n, Start)
             /\ \A q \in 1..n : /\ Len(Sent[q]) = Len(Kinds(requests[q]))
                                /\ \A i \in 1..Len(Kinds(requests[q])) :
                                     Sent[q][i] = [of |-> q, kind |-> Kinds(requests[q])[i]]
<1> DEFINE n == Len(requests)
           B == [of : 1..n, kind : AllKinds]
<1>1. n \in Nat \ {0} /\ DOMAIN requests = 1..n /\ \A q \in 1..n : requests[q] \in Shapes
  BY EmptySeq, LenProperties, ElementOfSeq DEF Asked
<1> HIDE DEF n
<1>2. \A q \in 1..n : Sent[q] = Bytes(requests[q], q)
  BY <1>1 DEF Sent
<1>3. ASSUME NEW q \in 1..n
      PROVE  /\ Sent[q] \in Seq(B) /\ Len(Sent[q]) = Len(Kinds(requests[q]))
             /\ \A i \in 1..Len(Kinds(requests[q])) : Sent[q][i] = [of |-> q, kind |-> Kinds(requests[q])[i]]
  <2>1. requests[q] \in Shapes /\ Sent[q] = Bytes(requests[q], q)
    BY <1>1, <1>2
  <2>2. /\ Bytes(requests[q], q) \in Seq([of : 1..n, kind : AllKinds])
        /\ Len(Bytes(requests[q], q)) = Len(Kinds(requests[q]))
        /\ \A i \in 1..Len(Kinds(requests[q])) :
             Bytes(requests[q], q)[i] = [of |-> q, kind |-> Kinds(requests[q])[i]]
    BY <2>1, BytesAre
  <2> QED BY <2>1, <2>2
<1>4. Sent \in [1..n -> Seq(B)]
  <2> HIDE DEF B
  <2> QED BY <1>1, <1>3 DEF Sent
<1>5. Stream \in Seq(B) /\ \E at : Laid(Stream, Sent, n, at)
  <2> HIDE DEF B
  <2> QED BY <1>1, <1>4, FlattenLaid DEF Stream
<1>6. Laid(Stream, Sent, n, Start)
  BY <1>5 DEF Start, n
<1> QED BY <1>1, <1>3, <1>5, <1>6 DEF n

LEMMA StreamIs ==
  ASSUME Asked
  PROVE  LET n == Len(requests)
         IN  /\ Len(Stream) \in Nat /\ Start \in [1..n + 1 -> Nat] /\ Start[1] = 0 /\ Start[n + 1] = Len(Stream)
             /\ \A q \in 1..n :
                  LET s == requests[q]
                      L == Len(HeaderText(s))
                  IN  /\ TextFrom(q) = Start[q] + s.url + 4 /\ TextFrom(q) \in Nat /\ Start[q] \in Nat
                      /\ BodyFrom(q) = TextFrom(q) + L /\ BodyFrom(q) \in Nat /\ L \in Nat
                      /\ Start[q + 1] = BodyFrom(q) + s.body /\ Start[q + 1] <= Len(Stream)
                      /\ Start[q + 1] \in Nat /\ s.body \in Nat /\ s.url \in Nat \ {0}
                      /\ \A i \in 1..s.url + 4 : Stream[Start[q] + i] = [of |-> q, kind |-> RequestLine(s)[i]]
                      /\ \A i \in 1..L : Stream[TextFrom(q) + i] = [of |-> q, kind |-> HeaderText(s)[i]]
                      /\ \A p \in BodyFrom(q) + 1..Start[q + 1] : Stream[p] = [of |-> q, kind |-> "d"]
             /\ \A p \in 1..Len(Stream) : Stream[p].kind = "m" => \E q \in 1..n : p = Start[q] + 1
<1> DEFINE n == Len(requests)
<1>1. /\ n \in Nat \ {0} /\ \A q \in 1..n : requests[q] \in Shapes
      /\ Stream \in Seq([of : 1..n, kind : AllKinds]) /\ Laid(Stream, Sent, n, Start)
      /\ \A q \in 1..n : /\ Len(Sent[q]) = Len(Kinds(requests[q]))
                         /\ \A i \in 1..Len(Kinds(requests[q])) :
                              Sent[q][i] = [of |-> q, kind |-> Kinds(requests[q])[i]]
  BY RequestsAre
<1> HIDE DEF n
<1>2. /\ Start \in [1..n + 1 -> Nat] /\ Start[1] = 0 /\ Start[n + 1] = Len(Stream)
      /\ \A q \in 1..n : Start[q + 1] = Start[q] + Len(Sent[q]) /\ Start[q + 1] <= Len(Stream)
      /\ \A q \in 1..n : \A j \in 1..Len(Sent[q]) : Stream[Start[q] + j] = Sent[q][j]
      /\ \A p \in 1..Len(Stream) : \E q \in 1..n : p \in Start[q] + 1..Start[q + 1]
  BY <1>1 DEF Laid
<1>3. Len(Stream) \in Nat
  BY <1>1, LenProperties
<1>4. ASSUME NEW q \in 1..n
      PROVE  /\ Start[q] \in Nat /\ Start[q + 1] \in Nat
             /\ Start[q + 1] = Start[q] + Len(Kinds(requests[q]))
             /\ \A j \in 1..Len(Kinds(requests[q])) :
                  Stream[Start[q] + j] = [of |-> q, kind |-> Kinds(requests[q])[j]]
  <2>1. q \in 1..n + 1 /\ q + 1 \in 1..n + 1
    BY <1>1
  <2>2. Start[q] \in Nat /\ Start[q + 1] \in Nat
    BY <1>2, <2>1
  <2> QED BY ZenonT(60), <1>1, <1>2, <2>2
<1>5. ASSUME NEW q \in 1..n
      PROVE  LET s == requests[q]
                 L == Len(HeaderText(s))
             IN  /\ TextFrom(q) = Start[q] + s.url + 4 /\ TextFrom(q) \in Nat /\ Start[q] \in Nat
                 /\ BodyFrom(q) = TextFrom(q) + L /\ BodyFrom(q) \in Nat /\ L \in Nat
                 /\ Start[q + 1] = BodyFrom(q) + s.body /\ Start[q + 1] <= Len(Stream)
                 /\ Start[q + 1] \in Nat /\ s.body \in Nat /\ s.url \in Nat \ {0}
                 /\ \A i \in 1..s.url + 4 : Stream[Start[q] + i] = [of |-> q, kind |-> RequestLine(s)[i]]
                 /\ \A i \in 1..L : Stream[TextFrom(q) + i] = [of |-> q, kind |-> HeaderText(s)[i]]
                 /\ \A p \in BodyFrom(q) + 1..Start[q + 1] : Stream[p] = [of |-> q, kind |-> "d"]
  <2> DEFINE s == requests[q]
             L == Len(HeaderText(s))
             r == s.url + 4
             b == s.body
             a == Start[q]
  <2>1. s \in Shapes
    BY <1>1
  <2>2. /\ L \in Nat /\ b \in Nat /\ s.url \in Nat \ {0} /\ r \in Nat
        /\ Len(Kinds(s)) = r + L + b
        /\ \A i \in 1..r : Kinds(s)[i] = RequestLine(s)[i]
        /\ \A i \in 1..L : Kinds(s)[r + i] = HeaderText(s)[i]
        /\ \A i \in 1..b : Kinds(s)[r + L + i] = "d"
    <3>1. s.url \in Nat \ {0}
      BY <2>1, RequestLineIs
    <3>2. r \in Nat
      BY <3>1
    <3> QED BY <2>1, <3>1, <3>2, KindsAre
  <2>3. /\ a \in Nat /\ Start[q + 1] \in Nat /\ Start[q + 1] = a + Len(Kinds(s))
        /\ \A j \in 1..Len(Kinds(s)) : Stream[a + j] = [of |-> q, kind |-> Kinds(s)[j]]
    BY <1>4
  <2>4. TextFrom(q) = a + s.url + 4 /\ BodyFrom(q) = TextFrom(q) + L
    BY DEF TextFrom, BodyFrom
  <2>5. Start[q + 1] <= Len(Stream)
    BY <1>2
  <2>6. a + s.url + 4 = a + r
    BY SMTT(40), <2>2, <2>3
  <2> HIDE DEF s, L, r, b, a
  <2>7. /\ TextFrom(q) \in Nat /\ BodyFrom(q) \in Nat /\ TextFrom(q) = a + r
        /\ BodyFrom(q) = a + r + L /\ Start[q + 1] = BodyFrom(q) + b
    <3>1. TextFrom(q) = a + r
      BY <2>4, <2>6 DEF a, s
    <3>2. BodyFrom(q) = a + r + L
      BY <2>4, <3>1 DEF L, s
    <3>3. Start[q + 1] = a + (r + L + b)
      BY <2>2, <2>3
    <3>4. a \in Nat /\ r \in Nat /\ L \in Nat /\ b \in Nat
      BY <2>2, <2>3
    <3> QED BY <3>1, <3>2, <3>3, <3>4
  <2>8. \A i \in 1..r : Stream[a + i] = [of |-> q, kind |-> RequestLine(s)[i]]
    <3>1. \A i \in 1..r : i \in 1..r + L + b
      BY <2>2
    <3> QED BY <2>2, <2>3, <3>1
  <2>9. \A i \in 1..L : Stream[TextFrom(q) + i] = [of |-> q, kind |-> HeaderText(s)[i]]
    <3>1. \A i \in 1..L : r + i \in 1..r + L + b /\ a + (r + i) = a + r + i
      BY <2>2, <2>3
    <3> SUFFICES ASSUME NEW i \in 1..L PROVE Stream[TextFrom(q) + i] = [of |-> q, kind |-> HeaderText(s)[i]]
      OBVIOUS
    <3>2. r + i \in 1..Len(Kinds(s)) /\ Kinds(s)[r + i] = HeaderText(s)[i] /\ a + (r + i) = TextFrom(q) + i
      BY <2>2, <2>7, <3>1
    <3>3. Stream[a + (r + i)] = [of |-> q, kind |-> Kinds(s)[r + i]]
      BY <2>3, <3>2
    <3> QED BY <3>2, <3>3
  <2>10. ASSUME NEW p \in BodyFrom(q) + 1..Start[q + 1] PROVE Stream[p] = [of |-> q, kind |-> "d"]
    <3> DEFINE i == p - (a + r + L)
    <3>1. i \in 1..b /\ r + L + i \in 1..r + L + b /\ a + (r + L + i) = p
      <4>1. p \in a + r + L + 1..a + r + L + b
        BY <2>7
      <4>2. a \in Nat /\ r \in Nat /\ L \in Nat /\ b \in Nat
        BY <2>2, <2>3
      <4>3. p \in Nat /\ a + r + L < p /\ p <= a + r + L + b
        BY <4>1, <4>2
      <4>4. i \in Nat \ {0} /\ i <= b /\ i = p - a - r - L
        BY <4>2, <4>3
      <4> HIDE DEF i
      <4>5. a + (r + L + i) = p
        BY <4>2, <4>3, <4>4
      <4>6. i \in 1..b
        BY <4>2, <4>4
      <4>7. r + L + i \in 1..r + L + b
        BY <4>2, <4>4
      <4> QED BY <4>5, <4>6, <4>7
    <3> HIDE DEF i
    <3>2. Kinds(s)[r + L + i] = "d"
      BY <2>2, <3>1
    <3>3. r + L + i \in 1..Len(Kinds(s))
      BY <2>2, <3>1
    <3>4. Stream[a + (r + L + i)] = [of |-> q, kind |-> Kinds(s)[r + L + i]]
      BY <2>3, <3>3
    <3> QED BY <3>1, <3>2, <3>4
  <2> QED BY <2>2, <2>3, <2>4, <2>5, <2>7, <2>8, <2>9, <2>10 DEF s, L, r, b, a
<1>6. ASSUME NEW p \in 1..Len(Stream), Stream[p].kind = "m"
      PROVE  \E q \in 1..n : p = Start[q] + 1
  <2>1. PICK q \in 1..n : p \in Start[q] + 1..Start[q + 1]
    BY <1>2
  <2> DEFINE K == Kinds(requests[q])
             i == p - Start[q]
  <2>2. Len(K) \in Nat /\ \A j \in 1..Len(K) : K[j] = "m" => j = 1
    BY <1>1, KindsAre, LenProperties
  <2>3. i \in 1..Len(K) /\ Start[q] + i = p
    <3>1. Start[q] \in Nat /\ Start[q + 1] = Start[q] + Len(K)
      BY <1>4
    <3> HIDE DEF K
    <3> QED BY <2>1, <2>2, <3>1
  <2>4. Stream[p] = [of |-> q, kind |-> K[i]]
    BY <1>4, <2>3
  <2>5. i = 1
    BY <1>6, <2>2, <2>3, <2>4
  <2> QED BY <2>3, <2>5
<1> QED BY <1>2, <1>3, <1>5, <1>6 DEF n

-----------------------------------------------------------------------------
(* The invariant of a session: where in the bytes of the connection it is.  *)

Seven == {"IDLE", "URL", "HDR_FIELD", "HDR_VALUE", "BODY", "COMPLETE", "FAILED"}
Phases == {"select", "read", "execute", "lookup", "handle", "drain", "closed", "wild", "restart"}
Data == [status : Seven, error : Statuses, at : Nat, length : Nat, paused : BOOLEAN, pre : 0..Block]

\* No buffer holds more than its size.
Buffers ==
  /\ unread \in Seq(Byte) /\ pending \in Seq(Byte) /\ Len(pending) <= Block
  /\ scratch \in Seq(Byte) /\ Len(scratch) <= Scratch /\ offset \in 0..Len(scratch)
  /\ parser \in [at : 0..Len(scratch), prev : AllKinds \cup {"start"}]
  /\ data \in Data /\ data.at <= Scratch
  /\ data.status # "BODY" => data.at + data.length <= Scratch
  /\ req \in [of : Nat, hdrs : Nat, remaining : Nat]
  /\ answers \in Seq(Statuses) /\ pc \in Phases

\* As long as no parse has failed, the requests are answered in their turn.
Turn(q) == InStep => q = Len(answers) + 1

\* These are the bytes of the connection after the first b.
Agrees(x, b) == \A i \in 1..Len(x) : b + i \in 1..Len(Stream) /\ x[i] = Stream[b + i]
From(b) == Agrees(pending, b) /\ Agrees(unread, b + Len(pending))

\* scratch begins after the first b, and up to At it is parsed.
Reading(b) ==
  /\ pc \in {"read", "execute"} /\ data.error = "500" /\ ~data.paused /\ data.pre = 0
  /\ \A i \in At + 1..Len(scratch) : b + i \in 1..Len(Stream) /\ scratch[i] = Stream[b + i]
  /\ From(b + Len(scratch))
  /\ offset <= At /\ Len(scratch) <= offset + Block
  /\ pc = "read" => At = Len(scratch) /\ offset = Len(scratch)
  /\ pending = <<>> \/ (pc = "read" /\ offset = 0)

\* Between two requests.
Due(b) == InStep => Len(answers) + 1 \in 1..Len(requests) + 1 /\ b = Start[Len(answers) + 1]

Idle(b) ==
  /\ pc = "select" /\ From(b) /\ Due(b)
  /\ req.remaining = 0 /\ (InStep /\ req.of # 0 => req.of = Len(answers))

Fresh(b) ==
  /\ Reading(b) /\ Due(b)
  /\ At = 0 /\ parser.prev = "start" /\ data = NewData /\ req = NewReq

\* In the request line.
InLine(q) ==
  LET s == requests[q]
  IN  /\ Reading(Start[q]) /\ At \in 1..s.url + 4 /\ parser.prev = RequestLine(s)[At]
      /\ data.status = IF At = 1 THEN "IDLE" ELSE "URL"
      /\ data.at = IF At = 1 THEN 0 ELSE 1
      /\ data.length = IF At <= s.url + 1 THEN At - 1 ELSE s.url
      /\ data.length <= MaxUri /\ req = NewReq

LinePassed(s) == s.url <= MaxUri /\ Len(RequestLine(s)) < Scratch /\ UrlError(s) = "none"

\* scratch holds the first t bytes of the headers, with a NUL at the end of the
\* lines in the first z of them.
Kept(q, t, z) ==
  /\ t <= Len(scratch)
  /\ \A i \in 1..t : scratch[i] =
       [of |-> q, kind |-> IF HeaderText(requests[q])[i] = "l" /\ i <= z THEN "NUL"
                           ELSE HeaderText(requests[q])[i]]

\* The parser was paused at the first field, and its block is put back.
Paused(q) ==
  LET s == requests[q]
  IN  /\ pc = "read" /\ LinePassed(s) /\ From(TextFrom(q)) /\ offset = 0
      /\ data.status = "HDR_FIELD" /\ data.error = "500" /\ data.paused
      /\ data.at = 0 /\ data.length \in 1..Colon(s, 1) - 1
      /\ data.pre \in 1..Len(pending)
      /\ \/ data.pre = data.length /\ parser.prev = "f"
         \/ data.pre = data.length + 1 /\ data.pre = Colon(s, 1) /\ parser.prev = ":"
      /\ req = [of |-> q, hdrs |-> 0, remaining |-> 0]

\* In the field of header k, its colon included.
InField(q, k) ==
  LET s == requests[q]
  IN  /\ Reading(TextFrom(q)) /\ LinePassed(s)
      /\ At \in HeadAt(s)[k] + 1..Colon(s, k) /\ parser.prev = HeaderText(s)[At]
      /\ data.status = "HDR_FIELD" /\ data.at = HeadAt(s)[k]
      /\ data.length = (IF At = Colon(s, k) THEN At - 1 ELSE At) - HeadAt(s)[k]
      /\ req = [of |-> q, hdrs |-> k - 1, remaining |-> 0]
      /\ Kept(q, At, HeadAt(s)[k])

\* In the value of header k, the end of its line included, and after the last
\* one the blank line.
InValue(q, k) ==
  LET s == requests[q]
  IN  /\ Reading(TextFrom(q)) /\ LinePassed(s)
      /\ At \in Colon(s, k) + 1..Stop(s, k) + (IF k = Len(s.headers) THEN 3 ELSE 2)
      /\ parser.prev = HeaderText(s)[At]
      /\ data.status = "HDR_VALUE" /\ data.at = Colon(s, k)
      /\ data.length = (IF At > Stop(s, k) THEN Stop(s, k) ELSE At) - Colon(s, k)
      /\ req = [of |-> q, hdrs |-> k, remaining |-> 0]
      /\ Kept(q, At, HeadAt(s)[k])

\* The headers are complete.
InBody(q) ==
  LET s == requests[q]
      L == Len(HeaderText(s))
  IN  /\ Reading(TextFrom(q)) /\ LinePassed(s) /\ ~s.upgrade
      /\ At = (IF s.body = 0 THEN L - 1 ELSE L) /\ parser.prev = "e"
      /\ s.body = 0 => pc = "execute"
      /\ data.status = "BODY" /\ data.at = L - 4
      /\ req = [of |-> q, hdrs |-> Len(s.headers), remaining |-> s.body]
      /\ Kept(q, L, L)

\* A request is served: it may only be answered 200, 404 or 405.
Serve(q) ==
  LET s == requests[q]
      L == Len(HeaderText(s))
  IN  /\ pc \in {"lookup", "handle"} /\ Expected(s) = {"200", "404", "405"}
      /\ req.of = q /\ req.hdrs = Len(s.headers) /\ req.remaining <= s.body
      /\ From(Start[q + 1] - req.remaining) /\ Kept(q, L, L)

\* What is left of the body is read.
Drain(b) ==
  /\ pc = "drain" /\ From(b)
  /\ InStep => /\ Len(answers) \in 1..Len(requests) /\ req.of = Len(answers)
               /\ b + req.remaining = Start[Len(answers) + 1]
               /\ req.remaining <= requests[Len(answers)].body

InRequest(q) ==
  \/ InLine(q) \/ Paused(q) \/ InBody(q) \/ Serve(q)
  \/ \E k \in 1..Len(requests[q].headers) : InField(q, k) \/ InValue(q, k)

Place ==
  \/ \E b \in Nat : Idle(b) \/ Fresh(b) \/ Drain(b)
  \/ \E q \in 1..Len(requests) : Turn(q) /\ InRequest(q)
  \/ pc \in {"closed", "wild", "restart"}

SessionInv == Asked /\ Buffers /\ AnsweredInOrder /\ Place

-----------------------------------------------------------------------------
(* Walking over a block.                                                    *)

LEMMA MinOfTwo ==
  ASSUME NEW a \in Int, NEW b \in Int
  PROVE  Min({a, b}) = IF a <= b THEN a ELSE b
<1>1. \E x \in {a, b} : \A y \in {a, b} : x <= y
  OBVIOUS
<1>2. Min({a, b}) \in {a, b} /\ \A y \in {a, b} : Min({a, b}) <= y
  BY <1>1 DEF Min
<1> QED BY <1>2

\* A run of bytes of one kind ends where the kind changes, or with the block.
LEMMA RunEndIs ==
  ASSUME scratch \in Seq(Byte), NEW i \in 0..Len(scratch) - 1
  PROVE  /\ RunEnd(i) \in i + 1..Len(scratch)
         /\ \A k \in i + 1..RunEnd(i) : scratch[k].kind = scratch[i + 1].kind
         /\ RunEnd(i) = Len(scratch) \/ scratch[RunEnd(i) + 1].kind # scratch[i + 1].kind
<1> DEFINE n == Len(scratch)
           c == scratch[i + 1].kind
           S == {j \in i + 1..n : j = n \/ scratch[j + 1].kind # c}
<1>1. n \in Nat
  BY LenProperties
<1> HIDE DEF n
<1>2. i \in Nat /\ i < n /\ n \in S /\ S \subseteq Nat
  <2>1. i \in 0..n - 1
    BY DEF n
  <2> QED BY <1>1, <2>1
<1>3. PICK j \in S : \A y \in S : j <= y
  BY <1>2, First
<1>4. ASSUME NEW k \in i + 1..j PROVE scratch[k].kind = c
  <2> DEFINE T == {x \in i + 1..j : scratch[x].kind # c}
  <2>1. SUFFICES ASSUME T # {} PROVE FALSE
    BY DEF T
  <2>2. PICK x \in T : \A y \in T : x <= y
    <3>1. T \subseteq Nat
      BY <1>2
    <3> QED BY <2>1, <3>1, First
  <2>3. x # i + 1 /\ x \in i + 1..j /\ scratch[x].kind # c /\ j \in i + 1..n
    BY <2>2
  <2> HIDE DEF c, T
  <2>4. x - 1 \in i + 1..n /\ x - 1 + 1 = x /\ x - 1 < j /\ x - 1 \in Nat /\ j \in Nat
    BY <1>1, <1>2, <2>3
  <2>5. x - 1 \in S
    BY <2>3, <2>4
  <2> QED BY <1>3, <2>4, <2>5
<1>5. \E z \in i + 1..n : (\A k \in i + 1..z : scratch[k].kind = c) /\ (z = n \/ scratch[z + 1].kind # c)
  BY <1>3, <1>4
<1> QED BY <1>5 DEF RunEnd, n, c

LEMMA RunEndAt ==
  ASSUME scratch \in Seq(Byte), NEW i \in 0..Len(scratch) - 1, NEW e \in Nat, i < e, NEW c,
         \A k \in i + 1..Len(scratch) : k <= e => scratch[k].kind = c,
         e < Len(scratch) => scratch[e + 1].kind # c
  PROVE  RunEnd(i) = IF e <= Len(scratch) THEN e ELSE Len(scratch)
<1> DEFINE n == Len(scratch)
           j == RunEnd(i)
<1>1. n \in Nat /\ i \in Nat /\ i < n
  <2>1. n \in Nat
    BY LenProperties
  <2> HIDE DEF n
  <2>2. i \in 0..n - 1
    BY DEF n
  <2> QED BY <2>1, <2>2
<1>2. /\ j \in i + 1..n
      /\ \A k \in i + 1..j : scratch[k].kind = scratch[i + 1].kind
      /\ j = n \/ scratch[j + 1].kind # scratch[i + 1].kind
  BY RunEndIs
<1> HIDE DEF j, n
<1>3. scratch[i + 1].kind = c
  <2>1. i + 1 \in i + 1..n /\ i + 1 <= e
    BY <1>1
  <2> QED BY <2>1 DEF n
<1>4. ASSUME e < j PROVE FALSE
  <2>1. e + 1 \in i + 1..j /\ e < n
    BY <1>1, <1>2, <1>4
  <2>2. scratch[e + 1].kind # c
    BY <2>1 DEF n
  <2>3. scratch[e + 1].kind = scratch[i + 1].kind
    BY <1>2, <2>1
  <2> QED BY <1>3, <2>2, <2>3
<1>5. ASSUME j < e, j < n PROVE FALSE
  <2>1. j + 1 \in i + 1..n /\ j + 1 <= e /\ j # n
    BY <1>1, <1>2, <1>5
  <2>2. scratch[j + 1].kind = c
    BY <2>1 DEF n
  <2>3. scratch[j + 1].kind # scratch[i + 1].kind
    BY <1>2, <2>1
  <2> QED BY <1>3, <2>2, <2>3
<1>6. j \in Nat /\ j <= n
  BY <1>1, <1>2
<1>7. j = IF e <= n THEN e ELSE n
  BY <1>1, <1>4, <1>5, <1>6
<1> QED BY <1>7 DEF j, n

\* The requests and their bytes do not change.
LEMMA StreamStays ==
  ASSUME requests' = requests
  PROVE  Stream' = Stream /\ Start' = Start /\ \A q : TextFrom(q)' = TextFrom(q)
<1>1. Stream' = Stream /\ Sent' = Sent
  BY DEF Stream, Sent
<1>2. Start' = Start
  BY <1>1 DEF Start
<1> QED BY <1>1, <1>2 DEF TextFrom

-----------------------------------------------------------------------------
(* Answers and their order.                                                 *)

LEMMA Unanswered ==
  ASSUME AnsweredInOrder, pc # "closed", UNCHANGED <<answers, requests>>
  PROVE  AnsweredInOrder' /\ (InStep' <=> InStep)
<1>1. InStep' <=> InStep
  BY DEF InStep
<1>2. \A i \in DOMAIN answers : (\A j \in 1..i - 1 : answers[j] \notin ParseErrors) =>
        i \in DOMAIN requests /\ answers[i] \in Expected(requests[i])
  BY DEF AnsweredInOrder
<1> QED BY <1>1, <1>2 DEF AnsweredInOrder

LEMMA Appended ==
  ASSUME answers \in Seq(Statuses), AnsweredInOrder, pc # "closed", UNCHANGED requests,
         NEW x \in Statuses, answers' = Append(answers, x),
         InStep => \/ Len(answers) + 1 \in DOMAIN requests /\ x \in Expected(requests[Len(answers) + 1])
                   \/ x = "408" /\ pc' = "closed"
  PROVE  /\ AnsweredInOrder' /\ answers' \in Seq(Statuses) /\ Len(answers') = Len(answers) + 1
         /\ InStep' <=> InStep /\ x \notin ParseErrors
<1> DEFINE n == Len(answers)
<1>1. /\ n \in Nat /\ DOMAIN answers = 1..n
      /\ answers' \in Seq(Statuses) /\ Len(answers') = n + 1 /\ DOMAIN answers' = 1..n + 1
      /\ \A i \in 1..n : answers'[i] = answers[i]
      /\ answers'[n + 1] = x
  BY AppendProperties, LenProperties
<1> HIDE DEF n
<1>2. \A i \in 1..n + 1 : i \in 1..n \/ i = n + 1
  BY <1>1
<1>3. InStep' <=> InStep /\ x \notin ParseErrors
  <2>1. \A i \in 1..n : i \in 1..n + 1
    BY <1>1
  <2>2. n + 1 \in 1..n + 1
    BY <1>1
  <2> QED BY <1>1, <1>2, <2>1, <2>2 DEF InStep
<1>4. ASSUME NEW i \in 1..n + 1, \A j \in 1..i - 1 : answers'[j] \notin ParseErrors
      PROVE  \/ i \in DOMAIN requests /\ answers'[i] \in Expected(requests[i])
             \/ answers'[i] = "408" /\ i = n + 1 /\ pc' = "closed"
  <2>1. CASE i \in 1..n
    <3>1. \A j \in 1..i - 1 : j \in 1..n
      BY <1>1, <2>1
    <3>2. \A j \in 1..i - 1 : answers[j] \notin ParseErrors
      BY <1>1, <1>4, <3>1
    <3>3. i \in DOMAIN requests /\ answers[i] \in Expected(requests[i])
      BY <1>1, <2>1, <3>2 DEF AnsweredInOrder
    <3> QED BY <1>1, <2>1, <3>3
  <2>2. CASE i = n + 1
    <3>1. i - 1 = n
      BY <1>1, <2>2
    <3>2. InStep
      BY <1>1, <1>4, <3>1 DEF InStep
    <3> QED BY <1>1, <2>2, <3>2 DEF n
  <2> QED BY <1>2, <2>1, <2>2
<1>5. AnsweredInOrder'
  BY ZenonT(60), <1>1, <1>4 DEF AnsweredInOrder, Expected, UrlError
<1> QED BY <1>1, <1>3, <1>5 DEF n

\* What a run of bytes of the connection says of its parts.
LEMMA AgreesParts ==
  ASSUME NEW S, NEW x \in Seq(S), NEW b \in Nat, Agrees(x, b), NEW k \in 0..Len(x)
  PROVE  /\ Agrees(SubSeq(x, 1, k), b) /\ Agrees(SubSeq(x, k + 1, Len(x)), b + k)
         /\ SubSeq(x, 1, k) \in Seq(S) /\ SubSeq(x, k + 1, Len(x)) \in Seq(S)
         /\ Len(SubSeq(x, 1, k)) = k /\ Len(SubSeq(x, k + 1, Len(x))) = Len(x) - k
<1> DEFINE n == Len(x)
           y == SubSeq(x, 1, k)
           z == SubSeq(x, k + 1, n)
<1>1. n \in Nat /\ k \in Nat /\ k <= n
  <2>1. n \in Nat
    BY LenProperties
  <2> HIDE DEF n
  <2>2. k \in 0..n
    BY DEF n
  <2> QED BY <2>1, <2>2
<1>2. y \in Seq(S) /\ Len(y) = k /\ \A i \in 1..k : y[i] = x[i]
  <2>1. \A i \in 1..k : i \in 1..n
    BY <1>1
  <2>2. 1 \in 1..n + 1 /\ k \in 0..n
    BY <1>1
  <2>3. Len(y) = IF 1 <= k THEN k - 1 + 1 ELSE 0
    BY <1>1, <2>2, SubSeqProperties
  <2>4. Len(y) = k
    BY <1>1, <2>3
  <2>5. y \in Seq(S) /\ \A i \in 1..k - 1 + 1 : y[i] = x[1 + i - 1]
    BY <1>1, <2>2, SubSeqProperties
  <2>6. \A i \in 1..k : i \in 1..k - 1 + 1 /\ 1 + i - 1 = i
    BY <1>1
  <2> QED BY <2>4, <2>5, <2>6
<1>3. z \in Seq(S) /\ Len(z) = n - k /\ \A i \in 1..n - k : z[i] = x[k + i]
  <2>1. k + 1 \in 1..n + 1 /\ n \in k + 1 - 1..n
    BY <1>1
  <2>2. Len(z) = IF k + 1 <= n THEN n - (k + 1) + 1 ELSE 0
    BY <1>1, <2>1, SubSeqProperties
  <2>3. Len(z) = n - k
    BY <1>1, <2>2
  <2>4. z \in Seq(S) /\ \A i \in 1..n - (k + 1) + 1 : z[i] = x[k + 1 + i - 1]
    BY <1>1, <2>1, SubSeqProperties
  <2>5. \A i \in 1..n - k : i \in 1..n - (k + 1) + 1 /\ k + 1 + i - 1 = k + i
    BY <1>1
  <2> QED BY <2>3, <2>4, <2>5
<1>4. \A i \in 1..n : b + i \in 1..Len(Stream) /\ x[i] = Stream[b + i]
  BY DEF Agrees
<1> HIDE DEF n, y, z
<1>5. Agrees(y, b)
  <2>1. \A i \in 1..k : i \in 1..n
    BY <1>1
  <2> QED BY <1>2, <1>4, <2>1 DEF Agrees
<1>6. Agrees(z, b + k)
  <2>1. \A i \in 1..n - k : k + i \in 1..n /\ b + k + i = b + (k + i)
    BY <1>1
  <2>2. ASSUME NEW i \in 1..n - k PROVE b + k + i \in 1..Len(Stream) /\ z[i] = Stream[b + k + i]
    BY <1>3, <1>4, <2>1
  <2> QED BY <1>3, <2>2 DEF Agrees
<1> QED BY <1>2, <1>3, <1>5, <1>6 DEF n, y, z

-----------------------------------------------------------------------------
(* Reading goes on.                                                         *)

\* The bytes of a request line and of what follows, where they are in scratch.
LEMMA LineBytes ==
  ASSUME Asked, NEW q \in 1..Len(requests), Reading(Start[q])
  PROVE  LET s == requests[q]
             r == s.url + 4
         IN  \A i \in At + 1..Len(scratch) :
               /\ i \in 1..r => scratch[i] = [of |-> q, kind |-> RequestLine(s)[i]]
               /\ i - r \in 1..Len(HeaderText(s)) =>
                    scratch[i] = [of |-> q, kind |-> HeaderText(s)[i - r]]
<1> DEFINE s == requests[q]
           r == s.url + 4
           L == Len(HeaderText(s))
<1>1. /\ Start[q] \in Nat /\ s.url \in Nat /\ TextFrom(q) = Start[q] + s.url + 4
      /\ \A i \in 1..r : Stream[Start[q] + i] = [of |-> q, kind |-> RequestLine(s)[i]]
      /\ \A i \in 1..L : Stream[TextFrom(q) + i] = [of |-> q, kind |-> HeaderText(s)[i]]
  BY StreamIs
<1>2. \A i \in At + 1..Len(scratch) : scratch[i] = Stream[Start[q] + i]
  BY DEF Reading
<1>3. ASSUME NEW i \in At + 1..Len(scratch), i \in 1..r
      PROVE  scratch[i] = [of |-> q, kind |-> RequestLine(s)[i]]
  BY <1>1, <1>2, <1>3
<1>4. ASSUME NEW i \in At + 1..Len(scratch), i - r \in 1..L
      PROVE  scratch[i] = [of |-> q, kind |-> HeaderText(s)[i - r]]
  <2>1. i \in Int /\ s.url \in Nat /\ Start[q] \in Nat
    BY <1>1
  <2>2. TextFrom(q) + (i - r) = Start[q] + i
    BY <1>1, <2>1
  <2>3. Stream[TextFrom(q) + (i - r)] = [of |-> q, kind |-> HeaderText(s)[i - r]]
    BY <1>1, <1>4
  <2>4. scratch[i] = Stream[Start[q] + i]
    BY <1>2
  <2> QED BY <2>2, <2>3, <2>4
<1> QED BY <1>3, <1>4

LEMMA TextBytes ==
  ASSUME Asked, NEW q \in 1..Len(requests), Reading(TextFrom(q))
  PROVE  LET s == requests[q]
             L == Len(HeaderText(s))
         IN  \A i \in At + 1..Len(scratch) :
               /\ i \in 1..L => scratch[i] = [of |-> q, kind |-> HeaderText(s)[i]]
               /\ i - L \in 1..s.body => scratch[i] = [of |-> q, kind |-> "d"]
<1> DEFINE s == requests[q]
           L == Len(HeaderText(s))
<1>1. /\ TextFrom(q) \in Nat /\ L \in Nat /\ BodyFrom(q) = TextFrom(q) + L /\ s.body \in Nat
      /\ Start[q + 1] = BodyFrom(q) + s.body
      /\ \A i \in 1..L : Stream[TextFrom(q) + i] = [of |-> q, kind |-> HeaderText(s)[i]]
      /\ \A p \in BodyFrom(q) + 1..Start[q + 1] : Stream[p] = [of |-> q, kind |-> "d"]
  BY StreamIs
<1>2. \A i \in At + 1..Len(scratch) : scratch[i] = Stream[TextFrom(q) + i]
  BY DEF Reading
<1>3. ASSUME NEW i \in At + 1..Len(scratch), i \in 1..L
      PROVE  scratch[i] = [of |-> q, kind |-> HeaderText(s)[i]]
  BY <1>1, <1>2, <1>3
<1>4. ASSUME NEW i \in At + 1..Len(scratch), i - L \in 1..s.body
      PROVE  scratch[i] = [of |-> q, kind |-> "d"]
  <2>1. TextFrom(q) + i \in BodyFrom(q) + 1..Start[q + 1]
    <3> DEFINE a == TextFrom(q)
               b == s.body
               j == i - L
    <3>1. a \in Nat /\ L \in Nat /\ b \in Nat /\ i \in Int /\ j \in 1..b /\ i = L + j
      BY <1>1, <1>4
    <3>2. BodyFrom(q) = a + L /\ Start[q + 1] = a + L + b
      BY <1>1
    <3> HIDE DEF a, b, j, L
    <3>3. a + i \in a + L + 1..a + L + b
      BY <3>1
    <3> QED BY <3>2, <3>3 DEF a
  <2> QED BY <1>1, <1>2, <2>1
<1> QED BY <1>3, <1>4

LEMMA ReadingWalk ==
  ASSUME NEW b \in Nat, Reading(b), pc = "execute", At \in 0..Len(scratch),
         UNCHANGED <<requests, pending, unread, offset, pc>>,
         At' \in At..Len(scratch), Len(scratch') = Len(scratch), Len(scratch) \in Nat, offset \in Nat,
         \A i \in At' + 1..Len(scratch) : scratch'[i] = scratch[i],
         data'.error = data.error, data'.paused = data.paused, data'.pre = data.pre
  PROVE  Reading(b)'
<1>1. Stream' = Stream
  BY StreamStays
<1>2. \A i \in At' + 1..Len(scratch) : i \in At + 1..Len(scratch)
  <2>1. PICK a, c, n : a = At /\ c = At' /\ n = Len(scratch)
    OBVIOUS
  <2>2. n \in Nat /\ a \in 0..n /\ c \in a..n
    BY <2>1
  <2>3. \A i \in c + 1..n : i \in a + 1..n
    BY <2>2
  <2> QED BY <2>1, <2>3
<1>3. \A i \in At' + 1..Len(scratch) : b + i \in 1..Len(Stream) /\ scratch'[i] = Stream[b + i]
  BY <1>2 DEF Reading
<1>4. offset <= At'
  BY DEF Reading
<1>5. From(b + Len(scratch))'
  BY <1>1 DEF Reading, From, Agrees
<1> QED BY <1>1, <1>3, <1>4, <1>5 DEF Reading

LEMMA ReadingParsed ==
  ASSUME NEW b \in Nat, Reading(b), Len(scratch) \in Nat, At = Len(scratch), pc = "execute",
         UNCHANGED <<requests, pending, unread, scratch, data, parser>>, offset' = Len(scratch), pc' = "read"
  PROVE  Reading(b)'
<1>1. Stream' = Stream
  BY StreamStays
<1>2. From(b + Len(scratch))'
  BY <1>1 DEF Reading, From, Agrees
<1>4. Len(scratch) <= Len(scratch) + Block
  BY RequestAssumption
<1>5. At' = Len(scratch)
  BY DEF At
<1>6. \A i \in At' + 1..Len(scratch') : FALSE
  BY <1>5
<1>7. pending = <<>> \/ (pc' = "read" /\ offset = 0)
  BY DEF Reading
<1> QED BY <1>1, <1>2, <1>4, <1>5, <1>6, <1>7 DEF Reading

\* A parse error: the answer, or the end of the session; the rest of the request
\* stays in the connection.
LEMMA FailPlace ==
  ASSUME SessionInv, NEW b \in Nat, Reading(b), pc = "execute", UNCHANGED requests,
         NEW error \in ParseErrors, Fail(error), data.status # "BODY",
         InStep => Len(answers) + 1 \in DOMAIN requests /\ error \in Expected(requests[Len(answers) + 1])
  PROVE  SessionInv'
<1> USE DEF SessionInv
<1>1. Asked'
  BY DEF Asked
<1>2. error \in Statuses
  BY DEF ParseErrors, Statuses
<1>3. \/ answers' = Append(answers, error) /\ pc' = "drain"
      \/ answers' = answers /\ pc' = "closed"
  BY DEF Fail, SendErr, Answer, Close
<1>4. /\ AnsweredInOrder' /\ answers' \in Seq(Statuses)
      /\ pc' = "drain" => ~InStep'
  <2>1. CASE answers' = Append(answers, error) /\ pc' = "drain"
    BY <1>2, <2>1, Appended DEF Buffers
  <2>2. CASE answers' = answers /\ pc' = "closed"
    BY <2>2, Unanswered DEF Buffers
  <2> QED BY <1>3, <2>1, <2>2
<1>5. Buffers'
  <2>1. Byte' = Byte
    BY DEF Byte
  <2>2. /\ UNCHANGED <<unread, pending, scratch, offset, parser>>
        /\ data' = [data EXCEPT !.status = "FAILED", !.error = error]
        /\ req' = [req EXCEPT !.hdrs = 0]
    BY DEF Fail, SendErr, input
  <2>3. data' \in Data /\ data'.at = data.at /\ data'.length = data.length
    BY <1>2, <2>2 DEF Buffers, Data, Seven
  <2> QED BY <1>2, <1>3, <1>4, <2>1, <2>2, <2>3 DEF Buffers, Phases
<1>6. Place'
  <2>1. CASE pc' = "closed"
    BY <2>1 DEF Place
  <2>2. CASE pc' = "drain"
    <3>1. From(b + Len(scratch))'
      BY StreamStays DEF Fail, input, Reading, From, Agrees
    <3>2. b + Len(scratch) \in Nat
      BY LenProperties DEF Buffers
    <3> QED BY <1>4, <2>2, <3>1, <3>2 DEF Place, Drain
  <2> QED BY <1>3, <2>1, <2>2
<1> QED BY <1>1, <1>4, <1>5, <1>6

-----------------------------------------------------------------------------
(* One call of http_parser_execute: callback after callback.                *)

LEMMA Executes ==
  ASSUME Server, pc = "execute"
  PROVE  \/ BlockParsed \/ Silent \/ BadSyntax \/ CbUrl \/ FirstField \/ CbHeaderField
         \/ CbHeaderValue \/ CbHeadersComplete \/ CbOnBody \/ CbNoBody
BY DEF Server, NewRequest, ReadPending, ReadSocket, ReadFails, TooBig, Lookup, HandlerRecv,
       HandlerReturns, ReqDelete

\* A byte that the parser takes is handed to the callback of its kind.
LEMMA Accepted ==
  ASSUME Server, pc = "execute", At # Len(scratch),
         Takes(parser.prev, Now) \/ (parser.prev = "e" /\ Now = "e")
  PROVE  /\ Now \in {"m", "v", "l", "n", ":", "b"} => Silent
         /\ Now = "u" => CbUrl
         /\ Now = "f" => FirstField \/ CbHeaderField
         /\ Now = "h" => CbHeaderValue
         /\ Now = "e" => CbHeadersComplete \/ CbNoBody
         /\ Now = "d" => CbOnBody
<1>1. ~BlockParsed
  BY DEF BlockParsed, At
<1>2. ~BadSyntax
  BY DEF BadSyntax
<1>3. /\ Silent => Now \in {"m", "v", "l", "n", ":", "b"}
      /\ CbUrl => Now = "u"
      /\ FirstField \/ CbHeaderField => Now = "f"
      /\ CbHeaderValue => Now = "h"
      /\ CbHeadersComplete \/ CbNoBody => Now = "e"
      /\ CbOnBody => Now = "d"
  BY DEF Silent, CbUrl, FirstField, CbHeaderField, CbHeaderValue, CbHeadersComplete, CbNoBody, CbOnBody, Execute
<1>4. \/ Silent \/ CbUrl \/ FirstField \/ CbHeaderField \/ CbHeaderValue \/ CbHeadersComplete
      \/ CbOnBody \/ CbNoBody
  BY <1>1, <1>2, Executes
<1> HIDE DEF Now
<1>5. Now \in {"m", "v", "l", "n", ":", "b"} => Silent
  BY <1>3, <1>4
<1>6. Now = "u" => CbUrl
  BY <1>3, <1>4
<1>7. Now = "f" => FirstField \/ CbHeaderField
  BY <1>3, <1>4
<1>8. Now = "h" => CbHeaderValue
  BY <1>3, <1>4
<1>9. (Now = "e" => CbHeadersComplete \/ CbNoBody) /\ (Now = "d" => CbOnBody)
  BY <1>3, <1>4
<1> QED BY <1>5, <1>6, <1>7, <1>8, <1>9

\* The bytes up to place e are of one kind: the parser walks over those that
\* are in the block.
LEMMA WalkStep ==
  ASSUME SessionInv, UNCHANGED requests, NEW b \in Nat, Reading(b), pc = "execute",
         NEW e \in Nat, At < e, At < Len(scratch), NEW c \in AllKinds,
         \A k \in At + 1..Len(scratch) : k <= e => scratch[k].kind = c,
         e < Len(scratch) => scratch[e + 1].kind # c,
         Accept, Walk(End, c),
         scratch' \in Seq(Byte), Len(scratch') = Len(scratch),
         \A i \in At + 1..Len(scratch) : i > e => scratch'[i] = scratch[i],
         data' \in Data, data'.error = data.error, data'.paused = data.paused, data'.pre = data.pre,
         data'.at <= Scratch, data'.status # "BODY" => data'.at + data'.length <= Scratch,
         req' \in [of : Nat, hdrs : Nat, remaining : Nat]
  PROVE  LET to == IF e <= Len(scratch) THEN e ELSE Len(scratch)
         IN  /\ to \in At + 1..Len(scratch) /\ parser' = [at |-> to, prev |-> c] /\ At' = to
             /\ Reading(b)' /\ Buffers' /\ Asked' /\ AnsweredInOrder'
             /\ answers' = answers /\ (InStep' <=> InStep) /\ pc' = "execute"
<1> DEFINE n == Len(scratch)
           to == IF e <= n THEN e ELSE n
<1>1. /\ scratch \in Seq(Byte) /\ n \in Nat /\ At \in Nat /\ At \in 0..n /\ At \in 0..n - 1 /\ offset \in Nat
  <2>1. scratch \in Seq(Byte) /\ n \in Nat /\ offset \in 0..n
    BY LenProperties DEF SessionInv, Buffers
  <2>2. At \in 0..n
    BY DEF SessionInv, Buffers, At
  <2>3. At < n
    OBVIOUS
  <2> HIDE DEF n
  <2>4. At \in 0..n - 1
    BY <2>1, <2>2, <2>3
  <2> QED BY <2>1, <2>2, <2>4
<1>2. RunEnd(At) = to
  BY <1>1, RunEndAt
<1>3. parser' = [at |-> to, prev |-> c] /\ At' = to
  BY <1>2 DEF Walk, End, At
<1> HIDE DEF n
<1>4. to \in At + 1..n /\ to \in At..n /\ to \in 0..n
  <2> HIDE DEF At
  <2>1. At < n /\ At < e
    BY DEF n
  <2> QED BY <1>1, <2>1
<1>5. \A i \in to + 1..n : scratch'[i] = scratch[i]
  <2> HIDE DEF At
  <2>1. \A i \in to + 1..n : i \in At + 1..n /\ i > e
    BY <1>1, <1>4
  <2> QED BY <2>1 DEF n
<1>6. UNCHANGED <<pending, unread, offset, pc, answers>>
  BY DEF Accept, input
<1>7. Reading(b)'
  BY <1>1, <1>3, <1>4, <1>5, <1>6, ReadingWalk DEF n
<1>8. Buffers'
  <2>1. Byte' = Byte
    BY DEF Byte
  <2>2. parser' \in [at : 0..n, prev : AllKinds \cup {"start"}]
    BY <1>3, <1>4
  <2> QED BY <1>6, <2>1, <2>2 DEF SessionInv, Buffers, n
<1>9. AnsweredInOrder' /\ (InStep' <=> InStep)
  BY <1>6, Unanswered DEF SessionInv
<1> QED BY <1>3, <1>4, <1>6, <1>7, <1>8, <1>9 DEF SessionInv, Asked, n

\* The block is parsed to its end: the next one is read behind it.
LEMMA ParsedStep ==
  ASSUME SessionInv, UNCHANGED requests, NEW b \in Nat, Reading(b), pc = "execute",
         At = Len(scratch), Server
  PROVE  /\ Reading(b)' /\ Buffers' /\ Asked' /\ AnsweredInOrder'
         /\ UNCHANGED <<scratch, data, parser, req, answers>> /\ (InStep' <=> InStep) /\ pc' = "read"
<1>1. BlockParsed
  <2>1. ~(At < Len(scratch))
    BY LenProperties DEF SessionInv, Buffers
  <2> QED BY <2>1, Executes DEF Silent, BadSyntax, CbUrl, FirstField, CbHeaderField, CbHeaderValue,
       CbHeadersComplete, CbOnBody, CbNoBody, Execute
<1>2. /\ UNCHANGED <<pending, unread, scratch, data, parser, req, answers>>
      /\ offset' = Len(scratch) /\ pc' = "read"
  BY <1>1 DEF BlockParsed, input
<1>3. Len(scratch) \in Nat
  BY LenProperties DEF SessionInv, Buffers
<1>4. Reading(b)'
  BY <1>2, <1>3, ReadingParsed
<1>5. Buffers'
  <2>1. Byte' = Byte
    BY DEF Byte
  <2>2. offset' \in 0..Len(scratch)
    BY <1>2, <1>3
  <2> QED BY <1>2, <2>1, <2>2 DEF SessionInv, Buffers, Phases
<1>6. AnsweredInOrder' /\ (InStep' <=> InStep)
  BY <1>2, Unanswered DEF SessionInv
<1> QED BY <1>2, <1>4, <1>5, <1>6 DEF SessionInv, Asked

\* What begins in its turn begins with a method.
LEMMA DueBegins ==
  ASSUME Asked, answers \in Seq(Statuses), NEW b \in Nat, Due(b), InStep, b + 1 \in 1..Len(Stream)
  PROVE  /\ Len(answers) + 1 \in 1..Len(requests) /\ b = Start[Len(answers) + 1]
         /\ Stream[b + 1] = [of |-> Len(answers) + 1, kind |-> "m"]
<1> DEFINE n == Len(requests)
           q == Len(answers) + 1
<1>1. q \in 1..n + 1 /\ b = Start[q]
  BY DEF Due
<1>2. n \in Nat /\ Start[n + 1] = Len(Stream) /\ Len(Stream) \in Nat
  BY StreamIs, LenProperties DEF Asked
<1>3. q # n + 1
  BY <1>1, <1>2
<1>4. q \in 1..n
  <2> HIDE DEF q, n
  <2> QED BY <1>1, <1>2, <1>3
<1>5. Stream[Start[q] + 1] = [of |-> q, kind |-> RequestLine(requests[q])[1]]
  <2>1. requests[q].url \in Nat \ {0}
    BY <1>4, StreamIs
  <2>2. 1 \in 1..requests[q].url + 4
    BY <2>1
  <2> HIDE DEF q, n
  <2> QED BY <1>4, <2>2, StreamIs DEF n
<1>6. RequestLine(requests[q])[1] = "m"
  BY <1>4, RequestsAre, RequestLineIs
<1> QED BY <1>1, <1>4, <1>5, <1>6

LEMMA FreshStep ==
  ASSUME SessionInv, UNCHANGED requests, NEW b \in Nat, Fresh(b), pc = "execute", Server
  PROVE  SessionInv'
<1> DEFINE n == Len(scratch)
<1>1. /\ Reading(b) /\ Due(b) /\ At = 0 /\ parser.prev = "start" /\ data = NewData /\ req = NewReq
      /\ Asked /\ answers \in Seq(Statuses) /\ n \in Nat /\ scratch \in Seq(Byte)
  BY LenProperties DEF Fresh, SessionInv, Buffers
<1>2. CASE n = 0
  <2>1. /\ Reading(b)' /\ Buffers' /\ Asked' /\ AnsweredInOrder'
        /\ UNCHANGED <<scratch, data, parser, req, answers>> /\ (InStep' <=> InStep)
    BY <1>1, <1>2, ParsedStep
  <2>2. Start' = Start
    BY StreamStays
  <2>3. Fresh(b)'
    BY <1>1, <2>1, <2>2 DEF Fresh, Due, At
  <2> QED BY <2>1, <2>3 DEF SessionInv, Place
<1>3. CASE n # 0
  <2>1. /\ 1 \in At + 1..n /\ 0 < n /\ At # n /\ At + 1 = 1
        /\ b + 1 \in 1..Len(Stream) /\ scratch[1] = Stream[b + 1]
    <3>1. 1 \in At + 1..n /\ 0 < n /\ At # n /\ At + 1 = 1
      BY <1>1, <1>3
    <3> QED BY <1>1, <3>1 DEF Reading
  <2>2. Now = scratch[1].kind
    BY <2>1 DEF Now
  <2>3. InStep => /\ Len(answers) + 1 \in 1..Len(requests) /\ b = Start[Len(answers) + 1]
                  /\ scratch[1] = [of |-> Len(answers) + 1, kind |-> "m"]
    BY <1>1, <2>1, DueBegins
  <2>4. CASE Now = "m"
    <3>1. PICK q \in 1..Len(requests) : b + 1 = Start[q] + 1
      BY <1>1, <2>1, <2>2, <2>4, StreamIs
    <3>2. /\ Start[q] = b /\ requests[q] \in Shapes /\ requests[q].url \in Nat \ {0}
          /\ \A i \in 1..requests[q].url + 4 : Stream[b + i] = [of |-> q, kind |-> RequestLine(requests[q])[i]]
      <4>1. Start[q] \in Nat
        BY <1>1, StreamIs
      <4>2. Start[q] = b
        BY <3>1, <4>1
      <4> QED BY <1>1, <4>2, StreamIs, RequestsAre
    <3>3. scratch[1].of = q /\ (1 < n => scratch[2].kind # "m")
      <4>1. 1 \in 1..requests[q].url + 4 /\ 2 \in 1..requests[q].url + 4 /\ 2 \in 2..requests[q].url + 1
        BY <3>2
      <4>2. RequestLine(requests[q])[2] = "u"
        BY <3>2, <4>1, RequestLineIs
      <4>3. 1 < n => scratch[2] = Stream[b + 2]
        <5>1. 1 < n => 2 \in At + 1..n
          BY <1>1
        <5> QED BY <1>1, <5>1 DEF Reading
      <4>4. Stream[b + 1] = [of |-> q, kind |-> RequestLine(requests[q])[1]]
        BY <3>2, <4>1
      <4>5. Stream[b + 2] = [of |-> q, kind |-> "u"]
        BY <3>2, <4>1, <4>2
      <4>6. scratch[1].of = q
        BY <2>1, <4>4
      <4>7. 1 < n => scratch[2].kind # "m"
        BY <4>3, <4>5
      <4> QED BY <4>6, <4>7
    <3>4. Silent
      BY <1>1, <2>1, <2>4, Accepted DEF Takes
    <3>5. /\ Accept /\ Walk(End, "m") /\ UNCHANGED <<scratch, data, req>>
      BY <2>4, <3>4 DEF Silent
    <3>6. /\ parser' = [at |-> 1, prev |-> "m"] /\ At' = 1
          /\ Reading(b)' /\ Buffers' /\ Asked' /\ AnsweredInOrder'
          /\ answers' = answers /\ (InStep' <=> InStep)
      <4>1. ASSUME NEW k \in At + 1..n, k <= 1 PROVE scratch[k].kind = "m"
        <5>1. k = 1
          BY <1>1, <4>1
        <5> QED BY <2>2, <2>4, <5>1
      <4>2. "m" \in AllKinds /\ At < 1 /\ At < n
        BY <1>1, <2>1 DEF AllKinds
      <4>3. /\ data' \in Data /\ data'.at <= Scratch /\ req' \in [of : Nat, hdrs : Nat, remaining : Nat]
            /\ data'.status # "BODY" => data'.at + data'.length <= Scratch
            /\ data'.error = data.error /\ data'.paused = data.paused /\ data'.pre = data.pre
        BY <3>5 DEF SessionInv, Buffers
      <4>4. /\ scratch' \in Seq(Byte) /\ Len(scratch') = Len(scratch)
            /\ \A i \in At + 1..Len(scratch) : i > 1 => scratch'[i] = scratch[i]
        BY <1>1, <3>5
      <4>5. 1 < n => scratch[1 + 1].kind # "m"
        BY <3>3
      <4>6. (IF 1 <= n THEN 1 ELSE n) = 1
        BY <1>1, <2>1
      <4> HIDE DEF n
      <4> QED BY <1>1, <3>5, <4>1, <4>2, <4>3, <4>4, <4>5, <4>6, WalkStep DEF n
    <3>7. Turn(q)'
      <4>1. InStep => q = Len(answers) + 1
        BY <2>3, <3>3
      <4> QED BY <3>6, <4>1 DEF Turn
    <3>8. InLine(q)'
      <4>1. Start' = Start
        BY StreamStays
      <4>2. RequestLine(requests[q])[1] = "m"
        BY <3>2, RequestLineIs
      <4>3. data' = NewData /\ req' = NewReq
        BY <1>1, <3>5
      <4>4. 1 \in 1..requests[q].url + 4 /\ 1 <= requests[q].url + 1 /\ 0 <= MaxUri
        BY <3>2, RequestAssumption
      <4>5. Reading(Start[q])'
        BY <3>2, <3>6, <4>1
      <4> QED BY <3>6, <4>2, <4>3, <4>4, <4>5 DEF InLine, NewData
    <3> QED BY <3>6, <3>7, <3>8 DEF SessionInv, Place, InRequest
  <2>5. CASE Now # "m"
    <3>1. ~Takes(parser.prev, Now)
      BY <1>1, <2>5 DEF Takes
    <3>2. BadSyntax
      <4>1. ~BlockParsed /\ ~CbNoBody
        BY <1>1, <2>1 DEF BlockParsed, CbNoBody, At
      <4>2. ~Execute({"m", "v", "l", "n", ":", "b"}) /\ ~Execute({"u"}) /\ ~Execute({"f"})
            /\ ~Execute({"h"}) /\ ~Execute({"e"}) /\ ~Execute({"d"})
        BY <3>1 DEF Execute
      <4> QED BY <4>1, <4>2, Executes DEF Silent, CbUrl, FirstField, CbHeaderField, CbHeaderValue,
           CbHeadersComplete, CbOnBody
    <3>3. Fail("400") /\ data.status # "BODY" /\ "400" \in ParseErrors /\ ~InStep
      BY <1>1, <2>2, <2>3, <2>5, <3>2 DEF BadSyntax, NewData, ParseErrors
    <3> QED BY <1>1, <3>3, FailPlace
  <2> QED BY <2>4, <2>5
<1> QED BY <1>2, <1>3

\* What is put back is what the connection holds after it.
LEMMA PutBackFrom ==
  ASSUME Buffers, UNCHANGED requests, NEW b \in Nat, Reading(b), pc = "execute",
         NEW a \in At..Len(scratch), PutBack(a)
  PROVE  /\ From(b + a)' /\ pending' \in Seq(Byte) /\ unread' = unread
         /\ Len(pending') = Len(scratch) - a /\ Len(pending') <= Block
<1> DEFINE n == Len(scratch)
           p == SubSeq(scratch, a + 1, n)
<1>1. n \in Nat /\ scratch \in Seq(Byte) /\ offset \in 0..n /\ At \in 0..n
  BY LenProperties DEF Buffers, At
<1>2. /\ pending = <<>> /\ From(b + n) /\ offset <= At /\ n <= offset + Block
      /\ \A i \in At + 1..n : b + i \in 1..Len(Stream) /\ scratch[i] = Stream[b + i]
  BY DEF Reading
<1>3. pending' = p /\ unread' = unread
  BY DEF PutBack
<1> HIDE DEF n, p
<1>4. a \in Nat /\ At \in Nat /\ offset \in Nat /\ At <= a /\ a <= n
  <2>1. a \in At..n /\ At \in 0..n /\ offset \in 0..n
    BY <1>1 DEF n
  <2> HIDE DEF At
  <2> QED BY <1>1, <2>1
<1>5. p \in Seq(Byte) /\ Len(p) = n - a /\ \A i \in 1..n - a : p[i] = scratch[a + i]
  <2>1. a + 1 \in Int /\ n \in Int /\ \A i \in a + 1..n : scratch[i] \in Byte
    <3>1. \A i \in a + 1..n : i \in 1..n
      BY <1>1, <1>4
    <3> QED BY <1>1, <1>4, <3>1, ElementOfSeq DEF n
  <2>2. /\ p \in Seq(Byte) /\ Len(p) = IF a + 1 <= n THEN n - (a + 1) + 1 ELSE 0
        /\ \A i \in 1..n - (a + 1) + 1 : p[i] = scratch[a + 1 + i - 1]
    BY <2>1, SubSeqProperties DEF p
  <2>3. Len(p) = n - a
    BY <1>1, <1>4, <2>2
  <2>4. \A i \in 1..n - a : i \in 1..n - (a + 1) + 1 /\ a + 1 + i - 1 = a + i
    BY <1>1, <1>4
  <2> QED BY <2>2, <2>3, <2>4
<1>6. Agrees(p, b + a)
  <2>1. \A i \in 1..n - a : a + i \in At + 1..n /\ b + a + i = b + (a + i)
    <3> HIDE DEF At
    <3> QED BY <1>1, <1>4
  <2>2. ASSUME NEW i \in 1..n - a PROVE b + a + i \in 1..Len(Stream) /\ p[i] = Stream[b + a + i]
    BY <1>2, <1>5, <2>1
  <2> QED BY <1>5, <2>2 DEF Agrees
<1>7. Agrees(unread, b + a + Len(p))
  <2>1. Len(<<>>) = 0
    OBVIOUS
  <2>2. b + n + 0 = b + a + Len(p)
    BY <1>1, <1>4, <1>5
  <2> QED BY <1>2, <2>1, <2>2 DEF From
<1>8. Len(p) <= Block
  <2> HIDE DEF At
  <2> QED BY SMTT(40), <1>1, <1>2, <1>4, <1>5, RequestAssumption
<1>9. From(b + a)'
  <2>1. Stream' = Stream
    BY StreamStays
  <2> QED BY <1>3, <1>6, <1>7, <2>1 DEF From, Agrees
<1>10. Byte' = Byte
  BY DEF Byte
<1> QED BY <1>3, <1>5, <1>8, <1>9 DEF n

\* What the first failure of a request may be answered.
LEMMA FailInTurn ==
  ASSUME SessionInv, UNCHANGED requests, NEW q \in 1..Len(requests), Turn(q),
         NEW b \in Nat, Reading(b), pc = "execute", data.status # "BODY",
         NEW error \in ParseErrors, Fail(error), error \in Expected(requests[q])
  PROVE  SessionInv'
<1>1. InStep => Len(answers) + 1 \in DOMAIN requests /\ error \in Expected(requests[Len(answers) + 1])
  BY LenProperties DEF Turn, SessionInv, Asked
<1> QED BY <1>1, FailPlace

LEMMA UrlErrorIs == \A s : UrlError(s) = "none" \/ UrlError(s) \in ParseErrors
BY DEF UrlError, ParseErrors

LEMMA FirstByte ==
  ASSUME NEW s \in Shapes
  PROVE  /\ HeadAt(s)[1] = 0 /\ Len(s.headers) \in Nat \ {0} /\ 1 \in 1..Len(s.headers)
         /\ Colon(s, 1) \in Nat /\ 1 < Colon(s, 1) /\ Colon(s, 1) <= Len(HeaderText(s))
         /\ Len(HeaderText(s)) \in Nat
         /\ \A i \in 1..Colon(s, 1) - 1 : HeaderText(s)[i] = "f"
         /\ HeaderText(s)[Colon(s, 1)] = ":"
<1> DEFINE m == Len(s.headers)
<1>1. /\ m \in Nat \ {0} /\ HeadAt(s) \in [1..m + 1 -> Nat] /\ HeadAt(s)[1] = 0
      /\ Len(HeaderText(s)) \in Nat
  BY TextIs
<1>2. 1 \in 1..m /\ 1 + 1 \in 1..m + 1
  <2> HIDE DEF m
  <2> QED BY <1>1
<1>3. /\ Colon(s, 1) \in Nat /\ Stop(s, 1) \in Nat
      /\ HeadAt(s)[1] + 1 < Colon(s, 1) /\ Colon(s, 1) < Stop(s, 1)
      /\ Stop(s, 1) + 2 = HeadAt(s)[1 + 1] /\ HeadAt(s)[1 + 1] + 2 <= Len(HeaderText(s))
      /\ \A i \in HeadAt(s)[1] + 1..Colon(s, 1) - 1 : HeaderText(s)[i] = "f"
      /\ HeaderText(s)[Colon(s, 1)] = ":"
  BY <1>2, TextIs
<1>4. 1 < Colon(s, 1) /\ Colon(s, 1) <= Len(HeaderText(s))
  BY <1>1, <1>3
<1>5. HeadAt(s)[1] + 1 = 1
  BY <1>1
<1> QED BY <1>1, <1>2, <1>3, <1>4, <1>5

-----------------------------------------------------------------------------
(* In the request line.                                                     *)

LEMMA LineFacts ==
  ASSUME SessionInv, NEW q \in 1..Len(requests), InLine(q)
  PROVE  LET s == requests[q]
             r == s.url + 4
         IN  /\ Asked /\ Buffers /\ s \in Shapes /\ s.url \in Nat \ {0} /\ Start[q] \in Nat
             /\ Reading(Start[q]) /\ scratch \in Seq(Byte) /\ Len(scratch) \in Nat
             /\ At \in 1..r /\ At <= Len(scratch) /\ Len(scratch) <= Scratch
             /\ Len(RequestLine(s)) = r /\ RequestLine(s)[1] = "m"
             /\ \A i \in 2..s.url + 1 : RequestLine(s)[i] = "u"
             /\ RequestLine(s)[s.url + 2] = "v" /\ RequestLine(s)[s.url + 3] = "l"
             /\ RequestLine(s)[s.url + 4] = "n"
             /\ \A i \in At + 1..Len(scratch) :
                  /\ i \in 1..r => scratch[i] = [of |-> q, kind |-> RequestLine(s)[i]]
                  /\ i \in r + 1..r + Colon(s, 1) - 1 => scratch[i] = [of |-> q, kind |-> "f"]
                  /\ i = r + Colon(s, 1) => scratch[i] = [of |-> q, kind |-> ":"]
<1> DEFINE s == requests[q]
           r == s.url + 4
           n == Len(scratch)
           c == Colon(s, 1)
<1>1. Asked /\ Buffers /\ s \in Shapes
  BY RequestsAre DEF SessionInv
<1>2. s.url \in Nat \ {0} /\ Start[q] \in Nat
  BY <1>1, StreamIs
<1>3. scratch \in Seq(Byte) /\ n \in Nat /\ n <= Scratch /\ At \in 0..n
  BY <1>1, LenProperties DEF Buffers, At
<1>4. Reading(Start[q]) /\ At \in 1..r
  BY DEF InLine
<1>5. At <= n
  BY <1>3
<1>6. \A i \in At + 1..n : /\ i \in 1..r => scratch[i] = [of |-> q, kind |-> RequestLine(s)[i]]
                           /\ i - r \in 1..Len(HeaderText(s)) =>
                                scratch[i] = [of |-> q, kind |-> HeaderText(s)[i - r]]
  BY <1>1, <1>4, LineBytes
<1>7. /\ c \in Nat /\ 1 < c /\ c <= Len(HeaderText(s)) /\ Len(HeaderText(s)) \in Nat
      /\ \A i \in 1..c - 1 : HeaderText(s)[i] = "f"
      /\ HeaderText(s)[c] = ":"
  BY <1>1, FirstByte
<1>8. r \in Nat
  BY <1>2
<1>9. ASSUME NEW i \in At + 1..n, i \in r + 1..r + c - 1
      PROVE  scratch[i] = [of |-> q, kind |-> "f"]
  <2> HIDE DEF r, c
  <2>1. i - r \in 1..c - 1 /\ i - r \in 1..Len(HeaderText(s))
    BY <1>7, <1>8, <1>9
  <2>2. HeaderText(s)[i - r] = "f"
    BY <1>7, <2>1
  <2> QED BY <1>6, <2>1, <2>2
<1>10. ASSUME NEW i \in At + 1..n, i = r + c
       PROVE  scratch[i] = [of |-> q, kind |-> ":"]
  <2> HIDE DEF r, c
  <2>1. i - r = c /\ i - r \in 1..Len(HeaderText(s))
    BY <1>7, <1>8, <1>10
  <2> QED BY <1>6, <1>7, <2>1
<1>11. \A i \in At + 1..n :
         /\ i \in 1..r => scratch[i] = [of |-> q, kind |-> RequestLine(s)[i]]
         /\ i \in r + 1..r + c - 1 => scratch[i] = [of |-> q, kind |-> "f"]
         /\ i = r + c => scratch[i] = [of |-> q, kind |-> ":"]
  <2> HIDE DEF r, c, n
  <2> QED BY <1>6, <1>9, <1>10
<1>12. /\ Len(RequestLine(s)) = r /\ RequestLine(s)[1] = "m"
       /\ \A i \in 2..s.url + 1 : RequestLine(s)[i] = "u"
       /\ RequestLine(s)[s.url + 2] = "v" /\ RequestLine(s)[s.url + 3] = "l"
       /\ RequestLine(s)[s.url + 4] = "n"
  BY <1>1, RequestLineIs
<1> QED BY <1>1, <1>2, <1>3, <1>4, <1>5, <1>11, <1>12

LEMMA LineParsed ==
  ASSUME SessionInv, UNCHANGED requests, NEW q \in 1..Len(requests), Turn(q), InLine(q),
         pc = "execute", Server, At = Len(scratch)
  PROVE  SessionInv'
<1> PICK b \in Nat : b = Start[q] /\ Reading(b)
  BY LineFacts
<1>1. /\ Reading(b)' /\ Buffers' /\ Asked' /\ AnsweredInOrder'
      /\ UNCHANGED <<scratch, data, parser, req, answers>> /\ (InStep' <=> InStep)
  BY ParsedStep
<1>2. Reading(Start[q])'
  BY <1>1, StreamStays
<1>3. InLine(q)' /\ Turn(q)'
  BY <1>1, <1>2 DEF InLine, Turn, At
<1> QED BY <1>1, <1>3 DEF SessionInv, Place, InRequest

\* The rest of the line: the version and its end.
LEMMA LineSilent ==
  ASSUME SessionInv, UNCHANGED requests, NEW q \in 1..Len(requests), Turn(q), InLine(q),
         pc = "execute", Server, At < Len(scratch),
         At \in requests[q].url + 1..requests[q].url + 3
  PROVE  SessionInv'
<1> DEFINE s == requests[q]
           u == s.url
           r == u + 4
           n == Len(scratch)
           R == RequestLine(s)
           a == At
<1> PICK b \in Nat : b = Start[q] /\ Reading(b)
  BY LineFacts
<1>1. /\ u \in Nat \ {0} /\ Start[q] \in Nat /\ Reading(Start[q]) /\ s \in Shapes
      /\ scratch \in Seq(Byte) /\ n \in Nat /\ a \in 1..r /\ a < n
      /\ \A i \in 2..u + 1 : R[i] = "u"
      /\ R[u + 2] = "v" /\ R[u + 3] = "l" /\ R[u + 4] = "n"
      /\ \A i \in a + 1..n :
           /\ i \in 1..r => scratch[i] = [of |-> q, kind |-> R[i]]
           /\ i \in r + 1..r + Colon(s, 1) - 1 => scratch[i] = [of |-> q, kind |-> "f"]
  BY LineFacts
<1>0. u \in Nat /\ u > 0 /\ n \in Nat /\ a \in Nat /\ a < n
  BY SMTT(40), <1>1
<1>2. /\ data.status = (IF a = 1 THEN "IDLE" ELSE "URL") /\ data.at = (IF a = 1 THEN 0 ELSE 1)
      /\ data.length = (IF a <= u + 1 THEN a - 1 ELSE u)
      /\ data.length <= MaxUri /\ req = NewReq /\ parser.prev = R[a]
  BY DEF InLine
<1>3. Colon(s, 1) \in Nat /\ 1 < Colon(s, 1)
  BY <1>1, FirstByte
<1>4. a = u + 1 \/ a = u + 2 \/ a = u + 3
  <2>1. a \in u + 1..u + 3
    OBVIOUS
  <2> HIDE DEF a, u
  <2> QED BY SMTT(40), <1>1, <2>1
<1>5. \/ R[a] = "u" /\ R[a + 1] = "v" /\ (a + 2 <= n => scratch[a + 2].kind = "l")
      \/ R[a] = "v" /\ R[a + 1] = "l" /\ (a + 2 <= n => scratch[a + 2].kind = "n")
      \/ R[a] = "l" /\ R[a + 1] = "n" /\ (a + 2 <= n => scratch[a + 2].kind = "f")
  <2> HIDE DEF a, n, R, u
  <2>1. a + 2 <= n => a + 2 \in a + 1..n
    BY <1>0
  <2>2. CASE a = u + 1
    <3>1. a \in 2..u + 1 /\ a + 1 = u + 2 /\ a + 2 = u + 3 /\ a + 2 \in 1..r
      BY <1>0, <2>2
    <3>2. R[a] = "u" /\ R[a + 1] = "v"
      BY <1>1, <3>1
    <3>3. a + 2 <= n => scratch[a + 2] = [of |-> q, kind |-> R[u + 3]]
      BY <1>1, <2>1, <3>1
    <3>4. a + 2 <= n => scratch[a + 2].kind = "l"
      BY <1>1, <3>3
    <3> QED BY <3>2, <3>4
  <2>3. CASE a = u + 2
    <3>1. a + 1 = u + 3 /\ a + 2 = u + 4 /\ a + 2 \in 1..r
      BY <1>0, <2>3
    <3>2. R[a] = "v" /\ R[a + 1] = "l"
      BY <1>1, <2>3, <3>1
    <3>3. a + 2 <= n => scratch[a + 2] = [of |-> q, kind |-> R[u + 4]]
      BY <1>1, <2>1, <3>1
    <3>4. a + 2 <= n => scratch[a + 2].kind = "n"
      BY <1>1, <3>3
    <3> QED BY <3>2, <3>4
  <2>4. CASE a = u + 3
    <3>1. a + 1 = u + 4 /\ a + 2 \in r + 1..r + Colon(s, 1) - 1
      <4>1. r = u + 4 /\ u \in Nat /\ r \in Nat
        BY <1>0, <1>1
      <4>2. Colon(s, 1) \in Nat /\ 1 < Colon(s, 1)
        BY <1>3
      <4> QED BY ONLY <2>4, <4>1, <4>2
    <3>2. R[a] = "l" /\ R[a + 1] = "n"
      BY <1>1, <2>4, <3>1
    <3>3. a + 2 <= n => scratch[a + 2] = [of |-> q, kind |-> "f"]
      BY <1>1, <2>1, <3>1
    <3> QED BY <3>2, <3>3
  <2> QED BY <1>4, <2>2, <2>3, <2>4
<1>6. scratch[a + 1].kind = R[a + 1]
  <2>1. a + 1 \in 1..r /\ a + 1 \in a + 1..n
    <3> HIDE DEF a, n, u
    <3> QED BY <1>0, <1>4
  <2>2. scratch[a + 1] = [of |-> q, kind |-> R[a + 1]]
    BY <1>1, <2>1
  <2> QED BY <2>2
<1>7. Now = R[a + 1]
  BY <1>6 DEF Now
<1>8. Silent
  <2>1. Takes(parser.prev, Now) /\ Now \in {"m", "v", "l", "n", ":", "b"}
    <3> HIDE DEF a, R, n
    <3> QED BY <1>2, <1>5, <1>7 DEF Takes
  <2>2. At # Len(scratch)
    BY <1>1
  <2> QED BY <2>1, <2>2, Accepted
<1>9. /\ Accept /\ Walk(End, R[a + 1]) /\ UNCHANGED <<scratch, data, req>>
  BY <1>7, <1>8 DEF Silent
<1>10. /\ parser' = [at |-> a + 1, prev |-> R[a + 1]] /\ At' = a + 1
       /\ Reading(b)' /\ Buffers' /\ Asked' /\ AnsweredInOrder'
       /\ answers' = answers /\ (InStep' <=> InStep)
  <2>1. ASSUME NEW k \in a + 1..n, k <= a + 1 PROVE scratch[k].kind = R[a + 1]
    <3>1. k = a + 1
      <4> HIDE DEF a, n
      <4> QED BY <1>1, <2>1
    <3> QED BY <1>6, <3>1
  <2>2. a + 1 < n => scratch[a + 1 + 1].kind # R[a + 1]
    <3>1. a + 1 + 1 = a + 2 /\ (a + 1 < n => a + 2 <= n)
      <4> HIDE DEF a, n
      <4> QED BY <1>1
    <3> HIDE DEF a, n, R
    <3> QED BY <1>5, <3>1
  <2>3. R[a + 1] \in AllKinds /\ a + 1 \in Nat /\ a < a + 1 /\ a < n
    <3> HIDE DEF a, n, R
    <3> QED BY SMTT(40), <1>1, <1>5 DEF AllKinds, TextKinds
  <2>4. /\ data' \in Data /\ data'.at <= Scratch /\ req' \in [of : Nat, hdrs : Nat, remaining : Nat]
        /\ data'.status # "BODY" => data'.at + data'.length <= Scratch
        /\ data'.error = data.error /\ data'.paused = data.paused /\ data'.pre = data.pre
    BY <1>9 DEF SessionInv, Buffers
  <2>5. /\ scratch' \in Seq(Byte) /\ Len(scratch') = Len(scratch)
        /\ \A i \in At + 1..Len(scratch) : i > a + 1 => scratch'[i] = scratch[i]
    BY <1>1, <1>9
  <2>6. (IF a + 1 <= n THEN a + 1 ELSE n) = a + 1
    <3> HIDE DEF a, n
    <3> QED BY <1>0
  <2>7. SessionInv /\ Reading(b) /\ pc = "execute" /\ At < a + 1 /\ At < Len(scratch)
    BY <2>3
  <2> HIDE DEF n, R
  <2> QED BY ZenonT(60), <1>9, <2>7, <2>1, <2>2, <2>3, <2>4, <2>5, <2>6, WalkStep DEF n
<1>11. InLine(q)'
  <2>1. Reading(Start[q])'
    BY <1>10, StreamStays
  <2>2. /\ a + 1 \in 1..r /\ a + 1 # 1 /\ a # 1 /\ data.length = u
        /\ ~(a + 1 <= u + 1) /\ data.length <= MaxUri
    <3>1. a \in Nat /\ u \in Nat \ {0}
      BY <1>1
    <3> HIDE DEF a, u
    <3> QED BY <1>2, <1>4, <3>1
  <2> HIDE DEF a
  <2> QED BY <1>2, <1>9, <1>10, <2>1, <2>2 DEF InLine
<1>12. Turn(q)'
  BY <1>10 DEF Turn
<1> QED BY <1>10, <1>11, <1>12 DEF SessionInv, Place, InRequest

\* The URL: as much of it as the block has.
LEMMA LineUrl ==
  ASSUME SessionInv, UNCHANGED requests, NEW q \in 1..Len(requests), Turn(q), InLine(q),
         pc = "execute", Server, At < Len(scratch), At <= requests[q].url
  PROVE  SessionInv'
<1> DEFINE s == requests[q]
           u == s.url
           r == u + 4
           n == Len(scratch)
           R == RequestLine(s)
           a == At
           to == IF u + 1 <= n THEN u + 1 ELSE n
<1> PICK b \in Nat : b = Start[q] /\ Reading(b)
  BY LineFacts
<1>1. /\ u \in Nat \ {0} /\ s \in Shapes /\ Buffers
      /\ scratch \in Seq(Byte) /\ n \in Nat /\ a \in 1..r /\ a < n /\ n <= Scratch
      /\ R[1] = "m" /\ R[u + 2] = "v"
      /\ \A i \in 2..u + 1 : R[i] = "u"
      /\ \A i \in a + 1..n : i \in 1..r => scratch[i] = [of |-> q, kind |-> R[i]]
  BY LineFacts
<1>2. /\ data.status = (IF a = 1 THEN "IDLE" ELSE "URL") /\ data.at = (IF a = 1 THEN 0 ELSE 1)
      /\ data.length = (IF a <= u + 1 THEN a - 1 ELSE u)
      /\ data.length <= MaxUri /\ req = NewReq /\ parser.prev = R[a]
  BY DEF InLine
<1>3. u \in Nat /\ u > 0 /\ n \in Nat /\ a \in Nat /\ a < n /\ a >= 1 /\ a <= u
  BY <1>1
<1>4. to \in Nat /\ to \in a + 1..n /\ to \in 2..u + 1 /\ a < u + 1 /\ u + 1 \in Nat
  <2> HIDE DEF a, n, u
  <2> QED BY <1>3
<1>5. \A k \in a + 1..n : k <= u + 1 => scratch[k].kind = "u"
  <2> SUFFICES ASSUME NEW k \in a + 1..n, k <= u + 1 PROVE scratch[k].kind = "u"
    OBVIOUS
  <2>1. k \in 2..u + 1 /\ k \in 1..r
    <3> HIDE DEF a, n, u
    <3> QED BY <1>3
  <2>2. scratch[k] = [of |-> q, kind |-> R[k]]
    BY <1>1, <2>1
  <2>3. R[k] = "u"
    BY <1>1, <2>1
  <2> QED BY <2>2, <2>3
<1>6. u + 1 < n => scratch[u + 1 + 1].kind # "u"
  <2> SUFFICES ASSUME u + 1 < n PROVE scratch[u + 1 + 1].kind # "u"
    OBVIOUS
  <2>1. u + 1 + 1 = u + 2 /\ u + 2 \in a + 1..n /\ u + 2 \in 1..r
    <3>1. u + 1 < n
      OBVIOUS
    <3> HIDE DEF a, n, u
    <3> QED BY <1>3, <3>1
  <2>2. scratch[u + 2] = [of |-> q, kind |-> R[u + 2]]
    BY <1>1, <2>1
  <2> QED BY SMTT(40), <1>1, <2>1, <2>2
<1>7. End = to
  <2>1. a \in 0..n - 1
    <3> HIDE DEF a, n
    <3> QED BY <1>3
  <2> HIDE DEF n
  <2> QED BY <1>1, <1>4, <1>5, <1>6, <2>1, RunEndAt DEF End, n
<1>8. Now = "u"
  <2>1. a + 1 \in a + 1..n /\ a + 1 <= u + 1
    <3> HIDE DEF a, n, u
    <3> QED BY <1>3
  <2> QED BY <1>5, <2>1 DEF Now
<1>9. parser.prev \in {"m", "u"}
  <2>1. a = 1 \/ a \in 2..u + 1
    <3> HIDE DEF a, u
    <3> QED BY <1>3
  <2> QED BY <1>1, <1>2, <2>1
<1>10. CbUrl
  <2>1. Takes(parser.prev, Now) /\ At # Len(scratch)
    BY <1>3, <1>8, <1>9 DEF Takes
  <2> QED BY <1>8, <2>1, Accepted
<1>11. data.length + End - At = to - 1
  <2>1. data.length = a - 1
    <3> HIDE DEF a, u
    <3> QED BY <1>2, <1>3, <1>4
  <2>2. a - 1 + to - a = to - 1
    <3> HIDE DEF a, to
    <3> QED BY <1>3, <1>4
  <2> QED BY <1>7, <2>1, <2>2
<1>12. CASE to - 1 > MaxUri
  <2>1. Fail("414")
    BY <1>10, <1>11, <1>12 DEF CbUrl
  <2>2. u > MaxUri
    <3> HIDE DEF to, u
    <3> QED BY <1>3, <1>4, <1>12, RequestAssumption
  <2>3. "414" \in Expected(requests[q]) /\ "414" \in ParseErrors /\ data.status # "BODY"
    BY <1>2, <2>2 DEF Expected, ParseErrors
  <2> QED BY <2>1, <2>3, FailInTurn
<1>13. CASE ~(to - 1 > MaxUri)
  <2>1. /\ data' = [data EXCEPT !.status = "URL", !.length = to - 1, !.at = IF data.status = "IDLE" THEN a ELSE @]
        /\ Walk(End, "u") /\ Accept /\ UNCHANGED <<scratch, req>>
    BY <1>10, <1>11, <1>13 DEF CbUrl
  <2>2. /\ data' \in Data /\ data'.status = "URL" /\ data'.length = to - 1 /\ data'.at = 1
        /\ data'.error = data.error /\ data'.paused = data.paused /\ data'.pre = data.pre
    <3>1. data.at = IF data.status = "IDLE" THEN 0 ELSE 1
      BY <1>2
    <3>2. data.status = "IDLE" => a = 1
      BY <1>2
    <3>3. to - 1 \in Nat /\ a \in Nat
      <4> HIDE DEF to, a
      <4> QED BY <1>3, <1>4
    <3>4. data \in Data
      BY <1>1 DEF Buffers
    <3> HIDE DEF to, a
    <3> QED BY <2>1, <3>1, <3>2, <3>3, <3>4 DEF Data, Seven
  <2>3. 1 <= Scratch /\ 1 + (to - 1) <= Scratch
    <3>1. n <= Scratch /\ Scratch \in Nat /\ 1 <= Scratch
      BY <1>1, RequestAssumption
    <3> HIDE DEF to, n, a
    <3> QED BY <1>3, <1>4, <3>1
  <2>4. /\ parser' = [at |-> to, prev |-> "u"] /\ At' = to
        /\ Reading(b)' /\ Buffers' /\ Asked' /\ AnsweredInOrder'
        /\ answers' = answers /\ (InStep' <=> InStep)
    <3>1. "u" \in AllKinds
      BY DEF AllKinds
    <3>2. SessionInv /\ Reading(b) /\ pc = "execute" /\ At < u + 1 /\ At < Len(scratch)
      BY <1>4
    <3>3. /\ scratch' \in Seq(Byte) /\ Len(scratch') = Len(scratch)
          /\ \A i \in At + 1..Len(scratch) : i > u + 1 => scratch'[i] = scratch[i]
      BY <1>1, <2>1
    <3>4. req' \in [of : Nat, hdrs : Nat, remaining : Nat]
      BY <1>1, <2>1 DEF Buffers
    <3>5. data'.at <= Scratch /\ data'.at + data'.length <= Scratch
      BY <2>2, <2>3
    <3>6. data' \in Data /\ data'.error = data.error /\ data'.paused = data.paused /\ data'.pre = data.pre
      BY <2>2
    <3>7. Accept /\ Walk(End, "u") /\ u + 1 \in Nat
      BY <1>4, <2>1
    <3> HIDE DEF u, n
    <3> QED BY <1>5, <1>6, <3>1, <3>2, <3>3, <3>4, <3>5, <3>6, <3>7, WalkStep DEF n
  <2>5. InLine(q)'
    <3>1. Reading(Start[q])'
      BY <2>4, StreamStays
    <3>2. to \in 1..r /\ to # 1 /\ to <= u + 1 /\ R[to] = "u" /\ to - 1 <= MaxUri
      <4>1. to \in 1..r /\ to # 1 /\ to <= u + 1 /\ to - 1 <= MaxUri
        <5> HIDE DEF to, u
        <5> QED BY SMTT(40), <1>3, <1>4, <1>13, RequestAssumption
      <4>2. R[to] = "u"
        BY <1>1, <1>4
      <4> QED BY <4>1, <4>2
    <3> HIDE DEF to
    <3> QED BY <1>2, <2>1, <2>2, <2>4, <3>1, <3>2 DEF InLine
  <2>6. Turn(q)'
    BY <2>4 DEF Turn
  <2> QED BY <2>4, <2>5, <2>6 DEF SessionInv, Place, InRequest
<1> QED BY <1>12, <1>13

\* The first field: the request line is judged, and the parser paused.
LEMMA LineField ==
  ASSUME SessionInv, UNCHANGED requests, NEW q \in 1..Len(requests), Turn(q), InLine(q),
         pc = "execute", Server, At < Len(scratch), At = requests[q].url + 4
  PROVE  SessionInv'
<1> DEFINE s == requests[q]
           u == s.url
           r == u + 4
           n == Len(scratch)
           c == Colon(s, 1)
           to == IF r + c - 1 <= n THEN r + c - 1 ELSE n
           taken == IF to < n THEN to + 1 ELSE to
<1> PICK b \in Nat : b = Start[q] /\ Reading(b)
  BY LineFacts
<1>1. /\ u \in Nat \ {0} /\ s \in Shapes /\ Buffers /\ Asked
      /\ scratch \in Seq(Byte) /\ n \in Nat /\ At = r /\ r < n /\ n <= Scratch
      /\ Len(RequestLine(s)) = r /\ RequestLine(s)[u + 4] = "n"
      /\ \A i \in r + 1..n :
           /\ i \in r + 1..r + c - 1 => scratch[i] = [of |-> q, kind |-> "f"]
           /\ i = r + c => scratch[i] = [of |-> q, kind |-> ":"]
  BY LineFacts
<1>2. /\ data.status = "URL" /\ data.length = u /\ data.length <= MaxUri /\ req = NewReq /\ parser.prev = "n"
  <2>1. r # 1 /\ ~(r <= u + 1)
    <3>1. u \in Nat /\ u > 0
      BY <1>1
    <3> HIDE DEF u
    <3> QED BY <3>1
  <2> QED BY <1>1, <2>1 DEF InLine
<1>3. u \in Nat /\ u > 0 /\ n \in Nat /\ r \in Nat /\ r < n /\ c \in Nat /\ c > 1
  BY <1>1, FirstByte
<1>4. /\ to \in Nat /\ to \in r + 1..n /\ taken \in to..n /\ taken \in 0..n
      /\ to - r \in 1..c - 1 /\ r + c - 1 \in Nat /\ r < r + c - 1
      /\ \/ taken = to /\ taken - r = to - r
         \/ taken = to + 1 /\ to = r + c - 1 /\ taken - r = c /\ taken - r = to - r + 1 /\ to < n
  <2> HIDE DEF r, n, c
  <2>1. CASE r + c - 1 < n
    <3>1. to = r + c - 1 /\ taken = to + 1
      BY <1>3, <2>1
    <3> HIDE DEF to, taken
    <3> QED BY <1>3, <2>1, <3>1
  <2>2. CASE ~(r + c - 1 < n)
    <3>1. to = n /\ taken = n
      BY <1>3, <2>2
    <3> HIDE DEF to, taken
    <3>2. to - r \in 1..c - 1
      BY <1>3, <2>2, <3>1
    <3> QED BY <1>3, <3>1, <3>2
  <2> QED BY <2>1, <2>2
<1>5. End = to
  <2>1. \A k \in At + 1..n : k <= r + c - 1 => scratch[k].kind = "f"
    <3> SUFFICES ASSUME NEW k \in r + 1..n, k <= r + c - 1 PROVE scratch[k].kind = "f"
      BY <1>1
    <3>1. k \in r + 1..r + c - 1
      <4> HIDE DEF r, c, n
      <4> QED BY <1>3
    <3> QED BY <1>1, <3>1
  <2>2. r + c - 1 < n => scratch[r + c - 1 + 1].kind # "f"
    <3> SUFFICES ASSUME r + c - 1 < n PROVE scratch[r + c - 1 + 1].kind # "f"
      OBVIOUS
    <3>1. r + c - 1 + 1 = r + c /\ r + c \in r + 1..n
      <4>1. r + c - 1 < n
        OBVIOUS
      <4> HIDE DEF r, c, n
      <4> QED BY <1>3, <4>1
    <3>2. scratch[r + c] = [of |-> q, kind |-> ":"]
      BY <1>1, <3>1
    <3> QED BY <3>1, <3>2
  <2>3. At \in 0..n - 1 /\ At < r + c - 1
    <3> HIDE DEF r, n, c
    <3> QED BY <1>1, <1>3, <1>4
  <2> HIDE DEF n, r, c
  <2> QED BY <1>1, <1>4, <2>1, <2>2, <2>3, RunEndAt DEF End, n
<1>6. scratch[At + 1] = [of |-> q, kind |-> "f"]
  <2>1. r + 1 \in r + 1..n /\ r + 1 \in r + 1..r + c - 1
    <3> HIDE DEF r, n, c
    <3> QED BY <1>3
  <2> QED BY <1>1, <2>1
<1>7. Now = "f" /\ Of = q
  BY <1>6 DEF Now, Of
<1>8. FirstField
  <2>1. Takes(parser.prev, Now) /\ At # Len(scratch)
    BY <1>2, <1>3, <1>7 DEF Takes
  <2>2. FirstField \/ CbHeaderField
    BY <1>7, <2>1, Accepted
  <2> QED BY <1>2, <2>2 DEF CbHeaderField
<1>9. u <= MaxUri /\ Len(RequestLine(s)) < Scratch
  <2>1. r < n /\ n <= Scratch /\ Scratch \in Nat
    BY <1>1, RequestAssumption
  <2>2. r < Scratch
    <3> HIDE DEF r, n
    <3> QED BY <1>3, <2>1
  <2> QED BY <1>1, <1>2, <2>2
<1>10. CASE UrlError(s) # "none"
  <2>1. Fail(UrlError(s))
    BY <1>7, <1>8, <1>10 DEF FirstField
  <2>2. UrlError(s) \in ParseErrors /\ UrlError(s) \in Expected(s) /\ data.status # "BODY"
    <3>1. ~(u > MaxUri \/ Len(RequestLine(s)) >= Scratch)
      <4>1. u \in Nat /\ MaxUri \in Nat /\ Len(RequestLine(s)) \in Nat /\ Scratch \in Nat
        BY <1>1, <1>3, RequestAssumption
      <4> HIDE DEF u
      <4> QED BY <1>9, <4>1
    <3> QED BY <1>2, <1>10, <3>1, UrlErrorIs DEF Expected
  <2> QED BY <2>1, <2>2, FailInTurn
<1>11. CASE UrlError(s) = "none"
  <2>1. /\ data' = [data EXCEPT !.status = "HDR_FIELD", !.at = 0, !.length = to - At,
                                !.paused = TRUE, !.pre = taken - At]
        /\ Walk(taken, IF taken = to THEN "f" ELSE ":")
        /\ PutBack(At) /\ offset' = 0 /\ pc' = "read"
        /\ req' = [req EXCEPT !.of = q]
        /\ UNCHANGED <<scratch, answers>>
    BY <1>5, <1>7, <1>8, <1>11 DEF FirstField
  <2> PICK a \in At..n : a = At
    <3>1. At \in At..n
      <4> HIDE DEF r, n
      <4> QED BY SMTT(40), <1>1, <1>3
    <3> QED BY <3>1
  <2>2. /\ From(b + a)' /\ pending' \in Seq(Byte) /\ unread' = unread
        /\ Len(pending') = n - At /\ Len(pending') <= Block
    <3>1. PutBack(a)
      BY <2>1
    <3> QED BY <1>1, <3>1, PutBackFrom
  <2>3. b + a = TextFrom(q)
    <3>1. TextFrom(q) = b + u + 4 /\ a = u + 4
      BY <1>1 DEF TextFrom
    <3>2. b \in Nat /\ u \in Nat
      BY <1>1
    <3> HIDE DEF u
    <3> QED BY ONLY <3>1, <3>2
  <2>4. taken - At \in 1..n - At /\ taken - At \in 0..Block /\ 0 + (to - At) <= Scratch
        /\ to - At \in Nat /\ to - At \in 1..c - 1
    <3>1. n - r <= Block /\ Block \in Nat /\ Scratch \in Nat /\ n <= Scratch
      BY <1>1, <2>2, RequestAssumption
    <3>2. At = r
      BY <1>1
    <3> HIDE DEF to, taken, r, n, c, At
    <3>3. taken \in Nat /\ r < taken /\ taken <= n
      BY <1>3, <1>4
    <3>4. taken - r \in 1..n - r /\ taken - r \in 0..Block
      BY <1>3, <3>1, <3>3
    <3>5. to - r \in Nat /\ 0 + (to - r) <= Scratch
      BY <1>3, <1>4, <3>1
    <3> QED BY <1>4, <3>2, <3>4, <3>5
  <2>5. /\ data' \in Data /\ data'.status = "HDR_FIELD" /\ data'.error = data.error
        /\ data'.at = 0 /\ data'.length = to - At /\ data'.paused = TRUE /\ data'.pre = taken - At
    <3>1. data \in Data
      BY <1>1 DEF Buffers
    <3> HIDE DEF to, taken, At
    <3> QED BY <2>1, <2>4, <3>1 DEF Data, Seven
  <2>6. parser' = [at |-> taken, prev |-> IF taken = to THEN "f" ELSE ":"]
    BY <2>1 DEF Walk
  <2>7. req' = [of |-> q, hdrs |-> 0, remaining |-> 0] /\ q \in Nat
    BY <1>2, <2>1 DEF NewReq
  <2>8. Buffers'
    <3>1. Byte' = Byte
      BY DEF Byte
    <3>2. parser' \in [at : 0..n, prev : AllKinds \cup {"start"}]
      <4> HIDE DEF to, taken, n
      <4> QED BY <1>4, <2>6 DEF AllKinds, TextKinds
    <3>3. data'.at <= Scratch /\ data'.at + data'.length <= Scratch
      BY <2>4, <2>5, RequestAssumption
    <3>4. offset' \in 0..Len(scratch')
      BY <1>3, <2>1
    <3>5. /\ scratch' \in Seq(Byte) /\ Len(scratch') <= Scratch /\ unread' \in Seq(Byte)
          /\ answers' \in Seq(Statuses) /\ pc' \in Phases
      BY <1>1, <2>1, <2>2 DEF Buffers, Phases
    <3>6. req' \in [of : Nat, hdrs : Nat, remaining : Nat]
      BY <2>7
    <3>7. Len(scratch') = n
      BY <2>1
    <3> HIDE DEF n
    <3> QED BY <2>2, <2>5, <3>1, <3>2, <3>3, <3>4, <3>5, <3>6, <3>7 DEF Buffers
  <2>9. AnsweredInOrder' /\ (InStep' <=> InStep)
    BY SMTT(40), <2>1, Unanswered DEF SessionInv
  <2>10. Paused(q)'
    <3>1. From(TextFrom(q))'
      BY <2>2, <2>3, StreamStays
    <3>2. LinePassed(s)
      BY <1>9, <1>11 DEF LinePassed
    <3>3. LinePassed(requests'[q])
      BY <3>2
    <3>4. data'.error = "500"
      BY <2>5 DEF Reading
    <3>5. data'.pre \in 1..Len(pending') /\ data'.length \in 1..c - 1
      BY <2>2, <2>4, <2>5
    <3>6. \/ data'.pre = data'.length /\ parser'.prev = "f"
          \/ data'.pre = data'.length + 1 /\ data'.pre = c /\ parser'.prev = ":"
      <4>1. At = r
        BY <1>1
      <4> HIDE DEF to, taken, r, c, n, At
      <4>2. CASE taken = to
        BY <1>4, <2>5, <2>6, <4>1, <4>2
      <4>3. CASE taken # to
        BY <1>4, <2>5, <2>6, <4>1, <4>3
      <4> QED BY <4>2, <4>3
    <3> QED BY <2>1, <2>5, <2>7, <3>1, <3>3, <3>4, <3>5, <3>6 DEF Paused
  <2>11. Turn(q)'
    BY <2>1, <2>9 DEF Turn
  <2> QED BY <1>1, <2>8, <2>9, <2>10, <2>11 DEF SessionInv, Place, InRequest, Asked
<1> QED BY <1>10, <1>11

LEMMA InLineStep ==
  ASSUME SessionInv, UNCHANGED requests, NEW q \in 1..Len(requests), Turn(q), InLine(q),
         pc = "execute", Server
  PROVE  SessionInv'
<1> DEFINE u == requests[q].url
           n == Len(scratch)
<1>1. u \in Nat /\ n \in Nat /\ At \in 1..u + 4 /\ At <= n
  BY LineFacts
<1>2. At = n \/ (At < n /\ (At <= u \/ At \in u + 1..u + 3 \/ At = u + 4))
  <2> HIDE DEF u, n, At
  <2> QED BY <1>1
<1> QED BY <1>2, LineParsed, LineUrl, LineSilent, LineField

-----------------------------------------------------------------------------
(* In the headers.                                                          *)

LEMMA HeaderLine ==
  ASSUME NEW s \in Shapes, NEW k \in 1..Len(s.headers)
  PROVE  LET T == HeaderText(s)
             at == HeadAt(s)[k]
             c == Colon(s, k)
             z == Stop(s, k)
         IN  /\ at \in Nat /\ c \in Nat /\ z \in Nat /\ at + 1 < c /\ c < z /\ z + 4 <= Len(T)
             /\ HeadAt(s)[k + 1] = z + 2 /\ Len(T) \in Nat
             /\ \A i \in at + 1..c - 1 : T[i] = "f"
             /\ T[c] = ":"
             /\ \A i \in c + 1..z : T[i] = "h"
             /\ T[z + 1] = "l" /\ T[z + 2] = "n"
             /\ k # Len(s.headers) => k + 1 \in 1..Len(s.headers) /\ T[z + 3] = "f"
             /\ k = Len(s.headers) => Len(T) = z + 4 /\ T[z + 3] = "b" /\ T[z + 4] = "e"
<1> DEFINE T == HeaderText(s)
           m == Len(s.headers)
           at == HeadAt(s)[k]
           next == HeadAt(s)[k + 1]
           c == Colon(s, k)
           z == Stop(s, k)
<1>1. /\ m \in Nat \ {0} /\ Len(T) \in Nat
      /\ HeadAt(s) \in [1..m + 1 -> Nat] /\ HeadAt(s)[m + 1] + 2 = Len(T)
      /\ T[Len(T) - 1] = "b" /\ T[Len(T)] = "e"
  BY TextIs
<1>2. /\ c \in Nat /\ z \in Nat /\ at + 1 < c /\ c < z /\ z + 2 = next /\ next + 2 <= Len(T)
      /\ \A i \in at + 1..c - 1 : T[i] = "f"
      /\ T[c] = ":"
      /\ \A i \in c + 1..z : T[i] = "h"
      /\ T[z + 1] = "l" /\ T[z + 2] = "n"
  BY TextIs
<1>3. at \in Nat /\ next \in Nat
  <2>1. k \in 1..m + 1 /\ k + 1 \in 1..m + 1
    <3>1. k \in 1..m
      OBVIOUS
    <3> HIDE DEF m
    <3> QED BY <1>1, <3>1
  <2> QED BY <1>1, <2>1
<1>4. z + 4 <= Len(T)
  <2> HIDE DEF z, next, T
  <2> QED BY <1>1, <1>2, <1>3
<1>5. ASSUME k # m PROVE k + 1 \in 1..m /\ T[z + 3] = "f"
  <2>1. k + 1 \in 1..m
    <3>1. k \in 1..m
      OBVIOUS
    <3> HIDE DEF m
    <3> QED BY <1>1, <1>5, <3>1
  <2>2. /\ Colon(s, k + 1) \in Nat /\ next + 1 < Colon(s, k + 1)
        /\ \A i \in next + 1..Colon(s, k + 1) - 1 : T[i] = "f"
    BY <2>1, TextIs
  <2>3. z + 3 = next + 1 /\ next + 1 \in next + 1..Colon(s, k + 1) - 1
    <3> HIDE DEF z, next
    <3> QED BY <1>2, <1>3, <2>2
  <2> QED BY <2>1, <2>2, <2>3
<1>6. ASSUME k = m PROVE Len(T) = z + 4 /\ T[z + 3] = "b" /\ T[z + 4] = "e"
  <2>1. next + 2 = Len(T)
    BY <1>1, <1>6
  <2>2. Len(T) = z + 4 /\ Len(T) - 1 = z + 3
    <3> HIDE DEF z, next, T
    <3> QED BY <1>1, <1>2, <1>3, <2>1
  <2> QED BY <1>1, <2>2
<1> QED BY <1>1, <1>2, <1>3, <1>4, <1>5, <1>6

\* The bytes of a header, by kind.
LEMMA LineKinds ==
  ASSUME NEW s \in Shapes, NEW k \in 1..Len(s.headers)
  PROVE  /\ \A i \in HeadAt(s)[k] + 1..Colon(s, k) - 1 : HeaderText(s)[i] = "f"
         /\ HeaderText(s)[Colon(s, k)] = ":"
         /\ \A i \in Colon(s, k) + 1..Stop(s, k) : HeaderText(s)[i] = "h"
         /\ HeaderText(s)[Stop(s, k) + 1] = "l" /\ HeaderText(s)[Stop(s, k) + 2] = "n"
BY TextIs

LEMMA TextFacts ==
  ASSUME SessionInv, NEW q \in 1..Len(requests), Reading(TextFrom(q))
  PROVE  LET s == requests[q]
             L == Len(HeaderText(s))
         IN  /\ Asked /\ Buffers /\ s \in Shapes /\ TextFrom(q) \in Nat /\ L \in Nat /\ s.body \in Nat
             /\ scratch \in Seq(Byte) /\ Len(scratch) \in Nat /\ At \in Nat
             /\ At <= Len(scratch) /\ Len(scratch) <= Scratch
             /\ \A i \in At + 1..Len(scratch) :
                  /\ i \in 1..L => scratch[i] = [of |-> q, kind |-> HeaderText(s)[i]]
                  /\ i - L \in 1..s.body => scratch[i] = [of |-> q, kind |-> "d"]
<1>1. Asked /\ Buffers /\ requests[q] \in Shapes
  BY RequestsAre DEF SessionInv
<1>2. /\ TextFrom(q) \in Nat /\ Len(HeaderText(requests[q])) \in Nat /\ requests[q].body \in Nat
  BY <1>1, StreamIs
<1>3. scratch \in Seq(Byte) /\ Len(scratch) \in Nat /\ Len(scratch) <= Scratch /\ At \in 0..Len(scratch)
  BY <1>1, LenProperties DEF Buffers, At
<1>4. At \in Nat /\ At <= Len(scratch)
  BY <1>3
<1> QED BY <1>1, <1>2, <1>3, <1>4, TextBytes

\* What is parsed of the headers and kept, when more of them is parsed.
Passed(q, t, to, z) == \A i \in t + 1..to :
  scratch[i] = [of |-> q, kind |-> HeaderText(requests[q])[i]]
    /\ (HeaderText(requests[q])[i] # "l" \/ i > z)

LEMMA KeptMore ==
  ASSUME NEW q, UNCHANGED <<requests, scratch>>, NEW t \in Nat, NEW z \in Nat, NEW to \in Nat,
         Kept(q, t, z), Passed(q, t, to, z), t <= to, to <= Len(scratch)
  PROVE  Kept(q, to, z)'
<1> DEFINE T == HeaderText(requests[q])
<1>1. \A i \in 1..to : i \in 1..t \/ i \in t + 1..to
  OBVIOUS
<1>2. ASSUME NEW i \in 1..to
      PROVE  scratch'[i] = [of |-> q, kind |-> IF T[i] = "l" /\ i <= z THEN "NUL" ELSE T[i]]
  <2>1. CASE i \in 1..t
    BY <2>1 DEF Kept
  <2>2. CASE i \in t + 1..to
    <3>1. scratch[i] = [of |-> q, kind |-> T[i]]
      BY <2>2 DEF Passed
    <3>2. T[i] # "l" \/ i > z
      BY <2>2 DEF Passed
    <3>3. scratch'[i] = scratch[i]
      OBVIOUS
    <3>4. i > z => ~(i <= z)
      OBVIOUS
    <3> HIDE DEF T
    <3>5. ~(T[i] = "l" /\ i <= z)
      BY <3>2, <3>4
    <3>6. (IF T[i] = "l" /\ i <= z THEN "NUL" ELSE T[i]) = T[i]
      BY <3>5
    <3> QED BY <3>1, <3>3, <3>6
  <2> QED BY <1>1, <2>1, <2>2
<1> QED BY <1>2 DEF Kept

\* What comes next of the headers, when it is a run that ends inside them.
Run(q, e, c, to) ==
  /\ q \in 1..Len(requests) /\ Reading(TextFrom(q)) /\ At < Len(scratch)
  /\ e \in Nat /\ At < e /\ e < Len(HeaderText(requests[q])) /\ c \in AllKinds
  /\ \A i \in At + 1..e : HeaderText(requests[q])[i] = c
  /\ HeaderText(requests[q])[e + 1] # c
  /\ to \in Nat /\ to = IF e <= Len(scratch) THEN e ELSE Len(scratch)

LEMMA TextRun ==
  ASSUME SessionInv, NEW q, NEW e, NEW c, NEW to, Run(q, e, c, to)
  PROVE  /\ to \in At + 1..Len(scratch) /\ to \in At + 1..e /\ End = to /\ Now = c /\ Of = q
         /\ \A k \in At + 1..Len(scratch) : k <= e => scratch[k].kind = c
         /\ e < Len(scratch) => scratch[e + 1].kind # c
         /\ \A i \in At + 1..to : /\ scratch[i] = [of |-> q, kind |-> HeaderText(requests[q])[i]]
                                /\ HeaderText(requests[q])[i] = c
<1> DEFINE T == HeaderText(requests[q])
           L == Len(T)
           n == Len(scratch)
           a == At
<1>1. /\ scratch \in Seq(Byte) /\ n \in Nat /\ a \in Nat /\ L \in Nat /\ a < n /\ a < e /\ e < L /\ e \in Nat
      /\ \A i \in a + 1..n : i \in 1..L => scratch[i] = [of |-> q, kind |-> T[i]]
  BY TextFacts DEF Run
<1>2. \A i \in a + 1..e : T[i] = c
  BY DEF Run
<1>3. T[e + 1] # c
  BY DEF Run
<1> HIDE DEF T, L, n, a
<1>0. to \in Nat /\ to = IF e <= n THEN e ELSE n
  BY DEF Run, n
<1>4. to \in a + 1..n /\ to \in a + 1..e
  BY <1>0, <1>1
<1>5. \A i \in a + 1..n : i <= e => i \in 1..L /\ i \in a + 1..e
  BY <1>1
<1>6. \A i \in a + 1..n : i <= e => scratch[i] = [of |-> q, kind |-> T[i]] /\ T[i] = c
  BY <1>1, <1>2, <1>5
<1>7. e < n => scratch[e + 1].kind # c
  <2>1. e < n => e + 1 \in a + 1..n /\ e + 1 \in 1..L
    BY <1>1
  <2>2. e < n => scratch[e + 1] = [of |-> q, kind |-> T[e + 1]]
    BY <1>1, <2>1
  <2> QED BY <1>3, <2>2
<1>8. End = to
  <2>1. a \in 0..n - 1
    <3>1. a \in Nat /\ n \in Nat /\ a < n
      BY <1>1
    <3> QED BY <3>1
  <2>2. ASSUME NEW k \in a + 1..n, k <= e PROVE scratch[k].kind = c
    <3>1. scratch[k] = [of |-> q, kind |-> T[k]] /\ T[k] = c
      BY <1>6, <2>2
    <3> QED BY <3>1
  <2>3. a < e /\ e \in Nat /\ scratch \in Seq(Byte)
    BY <1>1
  <2>4. RunEnd(a) = IF e <= n THEN e ELSE n
    BY <1>7, <2>1, <2>2, <2>3, RunEndAt DEF n
  <2> QED BY <1>0, <2>4 DEF End, a
<1>9. Now = c /\ Of = q
  <2>1. a + 1 \in a + 1..n /\ a + 1 <= e
    BY <1>1
  <2>2. scratch[a + 1] = [of |-> q, kind |-> T[a + 1]] /\ T[a + 1] = c
    BY <1>6, <2>1
  <2> QED BY <2>2 DEF Now, Of, a
<1>10. \A i \in a + 1..to : i \in a + 1..n /\ i <= e
  BY <1>0, <1>1
<1>11. \A i \in a + 1..to : scratch[i] = [of |-> q, kind |-> T[i]] /\ T[i] = c
  <2> SUFFICES ASSUME NEW i \in a + 1..to PROVE scratch[i] = [of |-> q, kind |-> T[i]] /\ T[i] = c
    OBVIOUS
  <2>1. i \in a + 1..n /\ i <= e
    BY <1>10
  <2> QED BY <1>6, <2>1
<1>12. ASSUME NEW k \in a + 1..n, k <= e PROVE scratch[k].kind = c
  <2>1. scratch[k] = [of |-> q, kind |-> T[k]] /\ T[k] = c
    BY <1>6, <1>12
  <2> QED BY <2>1
<1> QED BY <1>4, <1>7, <1>8, <1>9, <1>11, <1>12 DEF T, L, n, a

\* What the steps over the headers share: the parser walks over such a run, and
\* what it has passed is kept.
LEMMA TextWalk ==
  ASSUME SessionInv, UNCHANGED requests, NEW q \in 1..Len(requests), Reading(TextFrom(q)),
         pc = "execute", NEW e, NEW c, NEW to, Run(q, e, c, to),
         NEW z \in Nat, Kept(q, At, z), c # "l" \/ z <= At,
         Accept, Walk(End, c), UNCHANGED scratch,
         data' \in Data, data'.error = data.error, data'.paused = data.paused, data'.pre = data.pre,
         data'.status # "BODY",
         data'.at + data'.length = data.at + data.length
           \/ data'.at + data'.length = to,
         data.status # "BODY",
         req' \in [of : Nat, hdrs : Nat, remaining : Nat]
  PROVE  /\ parser' = [at |-> to, prev |-> c] /\ At' = to
         /\ Reading(TextFrom(q))' /\ Buffers' /\ Asked' /\ AnsweredInOrder'
         /\ (InStep' <=> InStep) /\ answers' = answers /\ pc' = "execute" /\ Kept(q, to, z)'
<1> DEFINE T == HeaderText(requests[q])
           n == Len(scratch)
<1> PICK b \in Nat : b = TextFrom(q) /\ Reading(b)
  BY TextFacts
<1>1. /\ Buffers /\ scratch \in Seq(Byte) /\ n \in Nat /\ At \in Nat /\ Len(T) \in Nat /\ n <= Scratch
  BY TextFacts
<1>0. /\ e \in Nat /\ to \in Nat /\ At < e /\ At < n /\ to = (IF e <= n THEN e ELSE n) /\ e < Len(T)
      /\ c \in AllKinds
  BY DEF Run
<1>2. /\ to \in At + 1..n /\ to \in At + 1..e /\ End = to
      /\ \A k \in At + 1..n : k <= e => scratch[k].kind = c
      /\ e < n => scratch[e + 1].kind # c
      /\ \A i \in At + 1..to : scratch[i] = [of |-> q, kind |-> T[i]] /\ T[i] = c
  BY TextRun
<1>3. data'.at <= Scratch /\ data'.at + data'.length <= Scratch
  <2>1. data'.at \in Nat /\ data'.length \in Nat /\ Scratch \in Nat
    BY RequestAssumption DEF Data
  <2>2. data.at + data.length <= Scratch
    BY <1>1 DEF Buffers
  <2>3. to <= Scratch
    <3> HIDE DEF n
    <3>1. to <= n
      <4> HIDE DEF At
      <4> QED BY <1>0, <1>1
    <3> QED BY <1>0, <1>1, <2>1, <3>1
  <2>4. data'.at + data'.length <= Scratch
    <3>1. CASE data'.at + data'.length = data.at + data.length
      BY <2>2, <3>1
    <3>2. CASE data'.at + data'.length = to
      BY <2>3, <3>2
    <3> QED BY <3>1, <3>2
  <2> QED BY <2>1, <2>4
<1>4. /\ parser' = [at |-> to, prev |-> c] /\ At' = to
      /\ Reading(b)' /\ Buffers' /\ Asked' /\ AnsweredInOrder'
      /\ answers' = answers /\ (InStep' <=> InStep) /\ pc' = "execute"
  <2>1. scratch' \in Seq(Byte) /\ Len(scratch') = Len(scratch)
    BY <1>1
  <2>2. \A i \in At + 1..Len(scratch) : i > e => scratch'[i] = scratch[i]
    OBVIOUS
  <2>3. SessionInv /\ Reading(b) /\ pc = "execute" /\ At < e /\ At < Len(scratch) /\ c \in AllKinds /\ e \in Nat
    BY <1>0
  <2>4. Accept /\ Walk(End, c) /\ data' \in Data /\ req' \in [of : Nat, hdrs : Nat, remaining : Nat]
    OBVIOUS
  <2>5. data'.error = data.error /\ data'.paused = data.paused /\ data'.pre = data.pre
    OBVIOUS
  <2>6. data'.status # "BODY" => data'.at + data'.length <= Scratch
    BY <1>3
  <2>7. UNCHANGED requests
    OBVIOUS
  <2>8. /\ \A k \in At + 1..Len(scratch) : k <= e => scratch[k].kind = c
        /\ e < Len(scratch) => scratch[e + 1].kind # c
    BY <1>2
  <2> HIDE DEF n
  <2> QED BY <1>0, <1>3, <2>1, <2>2, <2>3, <2>4, <2>5, <2>6, <2>7, <2>8, WalkStep DEF n
<1>5. Kept(q, to, z)'
  <2>1. to <= n /\ At <= to /\ to <= Len(T)
    <3> HIDE DEF n, At, T
    <3>1. e < Len(T)
      BY <1>0
    <3> QED BY <1>0, <1>1, <1>2, <3>1
  <2> PICK t \in Nat : t = At
    BY <1>1
  <2>2. ASSUME NEW i \in t + 1..to PROVE T[i] # "l" \/ i > z
    <3>1. T[i] = c
      BY <1>2
    <3>2. z <= t => i > z
      OBVIOUS
    <3> QED BY <3>1, <3>2
  <2>3. Passed(q, t, to, z)
    BY <1>2, <2>2 DEF Passed
  <2>4. Kept(q, t, z) /\ t <= to
    BY <2>1
  <2> QED BY <1>0, <2>1, <2>3, <2>4, KeptMore
<1>6. Reading(TextFrom(q))'
  BY <1>4, StreamStays
<1> QED BY <1>4, <1>5, <1>6

\* The places after a step.
LEMMA FieldPlaced ==
  ASSUME UNCHANGED requests, NEW q \in 1..Len(requests), NEW k \in 1..Len(requests[q].headers),
         LinePassed(requests[q]), Reading(TextFrom(q))', NEW to \in Nat, At' = to,
         to \in HeadAt(requests[q])[k] + 1..Colon(requests[q], k),
         parser'.prev = HeaderText(requests[q])[to],
         data'.status = "HDR_FIELD", data'.at = HeadAt(requests[q])[k],
         data'.length = (IF to = Colon(requests[q], k) THEN to - 1 ELSE to) - HeadAt(requests[q])[k],
         req' = [of |-> q, hdrs |-> k - 1, remaining |-> 0],
         NEW z, z = HeadAt(requests[q])[k], Kept(q, to, z)'
  PROVE  InField(q, k)'
<1>1. Kept(q, At, HeadAt(requests[q])[k])'
  BY DEF Kept
<1> QED BY <1>1 DEF InField

LEMMA ValuePlaced ==
  ASSUME UNCHANGED requests, NEW q \in 1..Len(requests), NEW k \in 1..Len(requests[q].headers),
         LinePassed(requests[q]), Reading(TextFrom(q))', NEW to \in Nat, At' = to,
         to \in Colon(requests[q], k) + 1
                  ..Stop(requests[q], k) + (IF k = Len(requests[q].headers) THEN 3 ELSE 2),
         parser'.prev = HeaderText(requests[q])[to],
         data'.status = "HDR_VALUE", data'.at = Colon(requests[q], k),
         data'.length = (IF to > Stop(requests[q], k) THEN Stop(requests[q], k) ELSE to) - Colon(requests[q], k),
         req' = [of |-> q, hdrs |-> k, remaining |-> 0],
         NEW z, z = HeadAt(requests[q])[k], Kept(q, to, z)'
  PROVE  InValue(q, k)'
<1>1. Kept(q, At, HeadAt(requests[q])[k])'
  BY DEF Kept
<1> QED BY <1>1 DEF InValue

LEMMA StillIn ==
  ASSUME UNCHANGED requests, NEW q \in 1..Len(requests), Turn(q), answers' = answers, InStep' <=> InStep,
         Buffers', Asked', AnsweredInOrder', InRequest(q)'
  PROVE  SessionInv'
<1>1. Turn(q)'
  BY DEF Turn
<1>2. Place'
  BY <1>1 DEF Place
<1> QED BY <1>2 DEF SessionInv

LEMMA FieldFacts ==
  ASSUME SessionInv, NEW q \in 1..Len(requests), NEW k \in 1..Len(requests[q].headers), InField(q, k)
  PROVE  LET s == requests[q]
         IN  /\ Reading(TextFrom(q)) /\ LinePassed(s) /\ Buffers /\ Asked /\ s \in Shapes
             /\ Len(scratch) \in Nat /\ At \in Nat /\ At <= Len(scratch) /\ Len(scratch) <= Scratch
             /\ scratch \in Seq(Byte) /\ TextFrom(q) \in Nat
             /\ At \in HeadAt(s)[k] + 1..Colon(s, k) /\ parser.prev = HeaderText(s)[At]
             /\ data.status = "HDR_FIELD" /\ data.at = HeadAt(s)[k] /\ data \in Data
             /\ data.length = (IF At = Colon(s, k) THEN At - 1 ELSE At) - HeadAt(s)[k]
             /\ req = [of |-> q, hdrs |-> k - 1, remaining |-> 0]
             /\ k - 1 \in Nat /\ k \in Nat /\ q \in Nat
             /\ Kept(q, At, HeadAt(s)[k])
<1>1. Reading(TextFrom(q))
  BY DEF InField
<1>2. k - 1 \in Nat /\ k \in Nat /\ q \in Nat
  <2>1. Len(requests[q].headers) \in Nat /\ Len(requests) \in Nat
    BY RequestsAre, TextIs DEF SessionInv
  <2> QED BY <2>1
<1>3. data \in Data
  BY DEF SessionInv, Buffers
<1>4. /\ Buffers /\ Asked /\ requests[q] \in Shapes
      /\ Len(scratch) \in Nat /\ At \in Nat /\ At <= Len(scratch) /\ Len(scratch) <= Scratch
      /\ scratch \in Seq(Byte) /\ TextFrom(q) \in Nat
  BY <1>1, TextFacts
<1> QED BY <1>1, <1>2, <1>3, <1>4 DEF InField

\* The name of a header.
LEMMA FieldName ==
  ASSUME SessionInv, UNCHANGED requests, NEW q \in 1..Len(requests), Turn(q),
         NEW k \in 1..Len(requests[q].headers), InField(q, k),
         pc = "execute", Server, At < Len(scratch), At < Colon(requests[q], k) - 1
  PROVE  SessionInv'
<1> DEFINE s == requests[q]
           T == HeaderText(s)
           n == Len(scratch)
<1> PICK a \in Nat, h \in Nat, c \in Nat : a = At /\ h = HeadAt(s)[k] /\ c = Colon(s, k)
  BY FieldFacts, HeaderLine
<1> PICK e \in Nat : e = c - 1
  <2>1. h + 1 < c
    BY FieldFacts, HeaderLine
  <2> QED BY <2>1
<1>1. /\ Reading(TextFrom(q)) /\ LinePassed(s) /\ Buffers /\ s \in Shapes /\ n \in Nat
      /\ a \in h + 1..c /\ parser.prev = T[a] /\ a < n /\ a < c - 1
      /\ data.status = "HDR_FIELD" /\ data.at = h /\ data \in Data
      /\ data.length = (IF a = c THEN a - 1 ELSE a) - h
      /\ req = [of |-> q, hdrs |-> k - 1, remaining |-> 0]
      /\ k - 1 \in Nat /\ q \in Nat /\ Kept(q, a, h)
  BY FieldFacts
<1>2. /\ c < Len(T) /\ Len(T) \in Nat
      /\ \A i \in h + 1..c - 1 : T[i] = "f"
      /\ T[c] = ":"
  <2>1. s \in Shapes /\ k \in 1..Len(s.headers)
    BY <1>1
  <2>2. Colon(s, k) < Stop(s, k) /\ Stop(s, k) + 4 <= Len(T) /\ Stop(s, k) \in Nat /\ Len(T) \in Nat
    BY <2>1, HeaderLine
  <2>3. \A i \in HeadAt(s)[k] + 1..Colon(s, k) - 1 : T[i] = "f"
    BY <2>1, HeaderLine
  <2>4. T[Colon(s, k)] = ":"
    BY <2>1, LineKinds
  <2> HIDE DEF T, s
  <2>5. c < Len(T)
    BY SMTT(40), <2>2
  <2>6. Len(T) \in Nat
    BY <2>2
  <2>7. \A i \in h + 1..c - 1 : T[i] = "f"
    BY <2>3
  <2>8. T[c] = ":"
    BY <2>4
  <2> QED BY ONLY <2>5, <2>6, <2>7, <2>8
<1>3. a < e /\ e < Len(T) /\ e + 1 = c /\ a # c /\ a \in h + 1..c - 1
  <2>1. a \in Nat /\ h \in Nat /\ c \in Nat /\ e \in Nat /\ e = c - 1
    OBVIOUS
  <2>2. a \in h + 1..c /\ a < c - 1
    BY <1>1
  <2>3. c < Len(T) /\ Len(T) \in Nat
    BY <1>2
  <2> HIDE DEF T
  <2> QED BY ONLY <2>1, <2>2, <2>3
<1>4. \A i \in a + 1..e : T[i] = "f"
  <2>1. \A i \in a + 1..e : i \in h + 1..c - 1
    <3>1. a \in h + 1..c
      BY <1>1
    <3> QED BY SMTT(40), <1>3, <3>1
  <2> QED BY <1>2, <2>1
<1>0. PICK to \in Nat : to = IF e <= Len(scratch) THEN e ELSE Len(scratch)
  BY <1>1
<1>20. Run(q, e, "f", to)
  BY <1>0, <1>1, <1>2, <1>3, <1>4 DEF Run, AllKinds, TextKinds
<1>5. to \in a + 1..e /\ End = to /\ Now = "f"
  BY <1>20, TextRun
<1>6. CbHeaderField
  <2>1. Takes(parser.prev, Now)
    BY <1>1, <1>2, <1>3, <1>5 DEF Takes
  <2>2. FirstField \/ CbHeaderField
    BY <1>1, <1>5, <2>1, Accepted
  <2> QED BY <1>1, <2>2 DEF FirstField
<1>7. /\ data' = [data EXCEPT !.length = @ + to - a] /\ UNCHANGED <<scratch, req>>
      /\ Walk(End, "f") /\ Accept
  BY <1>1, <1>5, <1>6 DEF CbHeaderField
<1>8. /\ data' \in Data /\ data'.error = data.error /\ data'.paused = data.paused
      /\ data'.pre = data.pre /\ data'.status = "HDR_FIELD" /\ data'.at = h /\ data'.length = to - h
      /\ data'.at + data'.length = to
  <2>1. data.length = a - h
    BY <1>1, <1>3
  <2>2. a - h + to - a = to - h /\ to - h \in Nat /\ h + (to - h) = to
    <3>1. a \in Nat /\ h \in Nat /\ to \in Nat /\ to > a /\ a > h
      BY <1>1, <1>5
    <3> QED BY SMTT(40), <3>1
  <2> QED BY <1>1, <1>7, <2>1, <2>2 DEF Data
<1>9. req' \in [of : Nat, hdrs : Nat, remaining : Nat]
  BY <1>1, <1>7
<1>10. /\ parser' = [at |-> to, prev |-> "f"] /\ At' = to
       /\ Reading(TextFrom(q))' /\ Buffers' /\ Asked' /\ AnsweredInOrder'
       /\ (InStep' <=> InStep) /\ answers' = answers /\ Kept(q, to, h)'
  <2>1. Kept(q, At, h) /\ pc = "execute" /\ data.status # "BODY" /\ data'.status # "BODY"
    BY <1>1, <1>8
  <2>2. SessionInv /\ UNCHANGED requests /\ Reading(TextFrom(q)) /\ Accept /\ Walk(End, "f") /\ UNCHANGED scratch
    BY <1>1, <1>7
  <2>3. data'.at + data'.length = to 
    BY <1>8
  <2>4. data' \in Data /\ data'.error = data.error /\ data'.paused = data.paused /\ data'.pre = data.pre
    BY <1>8
  <2> HIDE DEF T
  <2> QED BY <1>9, <1>20, <2>1, <2>2, <2>3, <2>4, TextWalk
<1>11. InField(q, k)'
  <2>1. /\ to \in h + 1..c /\ to # c /\ T[to] = "f"
    <3>1. to \in h + 1..c - 1
      <4>1. /\ a \in Nat /\ h \in Nat /\ c \in Nat /\ e \in Nat /\ to \in Nat
            /\ a >= h + 1 /\ e + 1 = c
        BY <1>1, <1>3
      <4>2. to > a /\ to <= e
        BY <1>5
      <4> QED BY ONLY <4>1, <4>2
    <3>2. to \in h + 1..c /\ to # c
      <4>1. h \in Nat /\ c \in Nat
        OBVIOUS
      <4> QED BY ONLY <3>1, <4>1
    <3> QED BY <1>2, <3>1, <3>2
  <2>4. /\ At' = to /\ to \in HeadAt(requests[q])[k] + 1..Colon(requests[q], k)
        /\ to # Colon(requests[q], k) /\ parser'.prev = HeaderText(requests[q])[to]
    BY <1>10, <2>1
  <2>5. /\ data'.at = HeadAt(requests[q])[k] /\ data'.length = to - HeadAt(requests[q])[k]
        /\ data'.status = "HDR_FIELD"
    BY <1>8
  <2>2. /\ LinePassed(requests[q]) /\ Reading(TextFrom(q))' /\ h = HeadAt(requests[q])[k]
    BY <1>1, <1>10
  <2>6. req' = [of |-> q, hdrs |-> k - 1, remaining |-> 0]
    <3>1. req' = req
      BY <1>7
    <3> QED BY <1>1, <3>1
  <2>3. Kept(q, to, h)'
    BY <1>10
  <2> HIDE DEF s, T
  <2> QED BY <2>2, <2>3, <2>4, <2>5, <2>6, FieldPlaced
<1>12. InRequest(q)'
  BY <1>11 DEF InRequest
<1> QED BY <1>10, <1>12, StillIn

\* Punctuation.
LEMMA TextSilent ==
  ASSUME SessionInv, UNCHANGED requests, NEW q \in 1..Len(requests), Reading(TextFrom(q)),
         pc = "execute", Server, NEW e, NEW c \in {":", "l", "n", "b"}, NEW to, Run(q, e, c, to),
         Takes(parser.prev, c), NEW z \in Nat, Kept(q, At, z), z <= At, data.status # "BODY"
  PROVE  /\ parser' = [at |-> to, prev |-> c] /\ At' = to /\ UNCHANGED <<scratch, data, req>>
         /\ Reading(TextFrom(q))' /\ Buffers' /\ Asked' /\ AnsweredInOrder'
         /\ (InStep' <=> InStep) /\ answers' = answers /\ pc' = "execute" /\ Kept(q, to, z)'
<1>1. Now = c /\ At # Len(scratch)
  <2>1. At < Len(scratch) /\ At \in Nat /\ Len(scratch) \in Nat
    BY TextFacts DEF Run
  <2> QED BY <2>1, TextRun
<1>2. Silent
  <2>1. Takes(parser.prev, Now) /\ Now \in {"m", "v", "l", "n", ":", "b"}
    BY <1>1
  <2> QED BY <1>1, <2>1, Accepted
<1>3. Accept /\ Walk(End, c) /\ UNCHANGED <<scratch, data, req>>
  BY <1>1, <1>2 DEF Silent
<1>4. /\ data' \in Data /\ data'.error = data.error /\ data'.paused = data.paused /\ data'.pre = data.pre
      /\ data'.status # "BODY" /\ data'.at + data'.length = data.at + data.length
      /\ req' \in [of : Nat, hdrs : Nat, remaining : Nat] /\ UNCHANGED scratch
  BY <1>3 DEF SessionInv, Buffers
<1> QED BY <1>3, <1>4, TextWalk

\* The colon.
LEMMA FieldColon ==
  ASSUME SessionInv, UNCHANGED requests, NEW q \in 1..Len(requests), Turn(q),
         NEW k \in 1..Len(requests[q].headers), InField(q, k),
         pc = "execute", Server, At < Len(scratch), At = Colon(requests[q], k) - 1
  PROVE  SessionInv'
<1> DEFINE s == requests[q]
           T == HeaderText(s)
           n == Len(scratch)
<1> PICK a \in Nat, h \in Nat, c \in Nat : a = At /\ h = HeadAt(s)[k] /\ c = Colon(s, k)
  BY FieldFacts, HeaderLine
<1>1. /\ Reading(TextFrom(q)) /\ LinePassed(s) /\ s \in Shapes /\ n \in Nat
      /\ a \in h + 1..c /\ parser.prev = T[a] /\ a < n /\ a = c - 1
      /\ data.status = "HDR_FIELD" /\ data.at = h
      /\ data.length = (IF a = c THEN a - 1 ELSE a) - h
      /\ req = [of |-> q, hdrs |-> k - 1, remaining |-> 0] /\ Kept(q, a, h)
  BY FieldFacts
<1>2. /\ c < Len(T) /\ Len(T) \in Nat /\ T[c] = ":" /\ T[c + 1] = "h"
      /\ \A i \in h + 1..c - 1 : T[i] = "f"
  <2>1. s \in Shapes /\ k \in 1..Len(s.headers)
    BY <1>1
  <2>2. Colon(s, k) < Stop(s, k) /\ Stop(s, k) + 4 <= Len(T) /\ Stop(s, k) \in Nat /\ Len(T) \in Nat
    BY <2>1, HeaderLine
  <2>3. \A i \in HeadAt(s)[k] + 1..Colon(s, k) - 1 : T[i] = "f"
    BY <2>1, LineKinds
  <2>4. T[Colon(s, k)] = ":"
    BY <2>1, LineKinds
  <2>5. \A i \in Colon(s, k) + 1..Stop(s, k) : T[i] = "h"
    BY <2>1, LineKinds
  <2> HIDE DEF T, s
  <2>6. c < Len(T) /\ c + 1 \in Colon(s, k) + 1..Stop(s, k)
    BY SMTT(40), <2>2
  <2> QED BY <2>2, <2>3, <2>4, <2>5, <2>6
<1>3. a < c /\ a # c /\ h <= a /\ a + 1 = c /\ c <= n /\ c \in h + 1..c
  <2>1. a \in h + 1..c /\ a < n /\ a = c - 1 /\ n \in Nat
    BY <1>1
  <2>2. a \in Nat /\ h \in Nat /\ c \in Nat
    OBVIOUS
  <2> HIDE DEF T, n
  <2> QED BY ONLY <2>1, <2>2
<1>4. \A i \in a + 1..c : T[i] = ":"
  <2>1. \A i \in a + 1..c : i = c
    BY <1>3
  <2> QED BY <1>2, <2>1
<1>5. Run(q, c, ":", c)
  <2>1. Reading(TextFrom(q)) /\ At < Len(scratch) /\ At < c /\ c < Len(HeaderText(requests[q]))
    BY <1>1, <1>2, <1>3
  <2>2. \A i \in At + 1..c : HeaderText(requests[q])[i] = ":"
    BY <1>4
  <2>3. HeaderText(requests[q])[c + 1] # ":" /\ ":" \in AllKinds
    BY <1>2 DEF AllKinds, TextKinds
  <2>4. c = IF c <= Len(scratch) THEN c ELSE Len(scratch)
    BY <1>3
  <2> QED BY <2>1, <2>2, <2>3, <2>4 DEF Run
<1>6. T[a] = "f"
  <2>1. a \in h + 1..c - 1
    BY <1>1
  <2> QED BY <1>2, <2>1
<1>7. Takes(parser.prev, ":")
  BY <1>1, <1>6 DEF Takes
<1>8. /\ parser' = [at |-> c, prev |-> ":"] /\ At' = c /\ UNCHANGED <<scratch, data, req>>
      /\ Reading(TextFrom(q))' /\ Buffers' /\ Asked' /\ AnsweredInOrder'
      /\ (InStep' <=> InStep) /\ answers' = answers /\ Kept(q, c, h)'
  <2>1. Kept(q, At, h) /\ h <= At /\ data.status # "BODY"
    BY <1>1, <1>3
  <2> HIDE DEF T
  <2> QED BY SMTT(40), <1>1, <1>5, <1>7, <2>1, TextSilent
<1>9. InField(q, k)'
  <2>1. /\ At' = c /\ c \in HeadAt(requests[q])[k] + 1..Colon(requests[q], k)
        /\ c = Colon(requests[q], k) /\ parser'.prev = HeaderText(requests[q])[c]
    BY <1>2, <1>3, <1>8
  <2>2. /\ data'.at = HeadAt(requests[q])[k] /\ data'.length = c - 1 - HeadAt(requests[q])[k]
        /\ data'.status = "HDR_FIELD"
    BY <1>1, <1>3, <1>8
  <2>3. /\ LinePassed(requests[q]) /\ Reading(TextFrom(q))' /\ h = HeadAt(requests[q])[k]
    BY <1>1, <1>8
  <2>4. req' = [of |-> q, hdrs |-> k - 1, remaining |-> 0]
    <3>1. req' = req
      BY <1>8
    <3> QED BY <1>1, <3>1
  <2>5. Kept(q, c, h)'
    BY <1>8
  <2> HIDE DEF s, T
  <2> QED BY <2>1, <2>2, <2>3, <2>4, <2>5, FieldPlaced
<1>10. InRequest(q)'
  BY <1>9 DEF InRequest
<1> QED BY <1>8, <1>10, StillIn

\* The value begins.
LEMMA FieldValue ==
  ASSUME SessionInv, UNCHANGED requests, NEW q \in 1..Len(requests), Turn(q),
         NEW k \in 1..Len(requests[q].headers), InField(q, k),
         pc = "execute", Server, At < Len(scratch), At = Colon(requests[q], k)
  PROVE  SessionInv'
<1> DEFINE s == requests[q]
           T == HeaderText(s)
           n == Len(scratch)
<1> PICK a \in Nat, h \in Nat, c \in Nat, z \in Nat :
      a = At /\ h = HeadAt(s)[k] /\ c = Colon(s, k) /\ z = Stop(s, k)
  BY FieldFacts, HeaderLine
<1>1. /\ Reading(TextFrom(q)) /\ LinePassed(s) /\ s \in Shapes /\ n \in Nat /\ data \in Data
      /\ parser.prev = T[a] /\ a < n /\ a = c
      /\ data.status = "HDR_FIELD" /\ data.at = h
      /\ req = [of |-> q, hdrs |-> k - 1, remaining |-> 0] /\ Kept(q, a, h)
      /\ k - 1 \in Nat /\ k \in Nat /\ q \in Nat
  BY FieldFacts
<1>2. /\ c < z /\ z + 1 <= Len(T) /\ z < Len(T) /\ Len(T) \in Nat
      /\ T[c] = ":" /\ T[z + 1] = "l" /\ \A i \in c + 1..z : T[i] = "h"
  <2>1. s \in Shapes /\ k \in 1..Len(s.headers)
    BY <1>1
  <2>2. Colon(s, k) < Stop(s, k) /\ Stop(s, k) + 4 <= Len(T) /\ Len(T) \in Nat
    BY <2>1, HeaderLine
  <2>3. T[Colon(s, k)] = ":" /\ T[Stop(s, k) + 1] = "l"
    BY SMTT(40), <2>1, HeaderLine
  <2>4. \A i \in Colon(s, k) + 1..Stop(s, k) : T[i] = "h"
    BY <2>1, HeaderLine
  <2> HIDE DEF T, s
  <2>5. z < Len(T) /\ z + 1 <= Len(T)
    BY SMTT(40), <2>2
  <2> QED BY <2>2, <2>3, <2>4, <2>5
<1>0. PICK to \in Nat : to = IF z <= Len(scratch) THEN z ELSE Len(scratch)
  BY <1>1
<1>3. Run(q, z, "h", to)
  <2>1. Reading(TextFrom(q)) /\ At < Len(scratch) /\ At < z /\ z < Len(HeaderText(requests[q]))
    BY <1>1, <1>2
  <2>2. \A i \in At + 1..z : HeaderText(requests[q])[i] = "h"
    BY <1>1, <1>2
  <2>3. HeaderText(requests[q])[z + 1] # "h" /\ "h" \in AllKinds
    BY <1>2 DEF AllKinds, TextKinds
  <2> QED BY <1>0, <2>1, <2>2, <2>3 DEF Run
<1>4. to \in c + 1..z /\ End = to /\ Now = "h"
  BY <1>1, <1>3, TextRun
<1>5. CbHeaderValue
  <2>1. Takes(parser.prev, Now)
    BY <1>1, <1>2, <1>4 DEF Takes
  <2>2. At # Len(scratch)
    BY <1>1
  <2> QED BY <1>4, <2>1, <2>2, Accepted
<1>6. /\ data' = [data EXCEPT !.status = "HDR_VALUE", !.at = c, !.length = to - c]
      /\ req' = [req EXCEPT !.hdrs = @ + 1] /\ UNCHANGED scratch
      /\ Walk(End, "h") /\ Accept
  BY <1>1, <1>4, <1>5 DEF CbHeaderValue
<1>7. /\ data' \in Data /\ data'.error = data.error /\ data'.paused = data.paused
      /\ data'.pre = data.pre /\ data'.status = "HDR_VALUE" /\ data'.at = c /\ data'.length = to - c
      /\ data'.at + data'.length = to
  <2>1. to - c \in Nat /\ c + (to - c) = to
    BY SMTT(40), <1>4
  <2> QED BY <1>1, <1>6, <2>1 DEF Data, Seven
<1>8. req' = [of |-> q, hdrs |-> k, remaining |-> 0] /\ req' \in [of : Nat, hdrs : Nat, remaining : Nat]
  <2>1. k - 1 + 1 = k
    BY <1>1
  <2> QED BY <1>1, <1>6, <2>1
<1>9. /\ parser' = [at |-> to, prev |-> "h"] /\ At' = to
      /\ Reading(TextFrom(q))' /\ Buffers' /\ Asked' /\ AnsweredInOrder'
      /\ (InStep' <=> InStep) /\ answers' = answers /\ Kept(q, to, h)'
  <2>1. Kept(q, At, h) /\ pc = "execute" /\ data.status # "BODY" /\ data'.status # "BODY"
    BY <1>1, <1>7
  <2>2. SessionInv /\ UNCHANGED requests /\ Reading(TextFrom(q)) /\ Accept /\ Walk(End, "h") /\ UNCHANGED scratch
    BY <1>1, <1>6
  <2>3. data'.at + data'.length = to
    BY <1>7
  <2>4. data' \in Data /\ data'.error = data.error /\ data'.paused = data.paused /\ data'.pre = data.pre
    BY <1>7
  <2> HIDE DEF T
  <2> QED BY <1>3, <1>8, <2>1, <2>2, <2>3, <2>4, TextWalk
<1>10. InValue(q, k)'
  <2>1. /\ At' = to /\ parser'.prev = HeaderText(requests[q])[to]
    BY <1>2, <1>4, <1>9
  <2>2. to \in c + 1..z + (IF k = Len(s.headers) THEN 3 ELSE 2) /\ ~(to > z)
    <3>1. CASE k = Len(s.headers)
      BY <1>4, <3>1
    <3>2. CASE k # Len(s.headers)
      BY SMTT(40), <1>4, <3>2
    <3> QED BY <3>1, <3>2
  <2>3. /\ data'.at = Colon(requests[q], k) /\ data'.status = "HDR_VALUE"
        /\ data'.length = (IF to > Stop(requests[q], k) THEN Stop(requests[q], k) ELSE to) - Colon(requests[q], k)
    BY <1>7, <2>2
  <2>4. /\ LinePassed(requests[q]) /\ Reading(TextFrom(q))' /\ h = HeadAt(requests[q])[k]
    BY <1>1, <1>9
  <2>5. Kept(q, to, h)' /\ req' = [of |-> q, hdrs |-> k, remaining |-> 0]
    BY <1>8, <1>9
  <2>6. to \in Colon(requests[q], k) + 1
                  ..Stop(requests[q], k) + (IF k = Len(requests[q].headers) THEN 3 ELSE 2)
    BY <2>2
  <2> HIDE DEF s, T
  <2> QED BY <2>1, <2>3, <2>4, <2>5, <2>6, ValuePlaced
<1>11. InRequest(q)'
  BY <1>10 DEF InRequest
<1> QED BY <1>9, <1>11, StillIn

\* The block ends in a header.
LEMMA TextParsed ==
  ASSUME SessionInv, UNCHANGED requests, NEW q \in 1..Len(requests), Reading(TextFrom(q)),
         pc = "execute", At = Len(scratch), Server
  PROVE  /\ Reading(TextFrom(q))' /\ Buffers' /\ Asked' /\ AnsweredInOrder'
         /\ UNCHANGED <<scratch, data, parser, req, answers>> /\ (InStep' <=> InStep) /\ pc' = "read"
<1> PICK b \in Nat : b = TextFrom(q) /\ Reading(b)
  BY TextFacts
<1>1. /\ Reading(b)' /\ Buffers' /\ Asked' /\ AnsweredInOrder'
      /\ UNCHANGED <<scratch, data, parser, req, answers>> /\ (InStep' <=> InStep) /\ pc' = "read"
  BY ParsedStep
<1>2. Reading(TextFrom(q))'
  BY <1>1, StreamStays
<1> QED BY <1>1, <1>2

LEMMA FieldParsed ==
  ASSUME SessionInv, UNCHANGED requests, NEW q \in 1..Len(requests), Turn(q),
         NEW k \in 1..Len(requests[q].headers), InField(q, k),
         pc = "execute", Server, At = Len(scratch)
  PROVE  SessionInv'
<1>1. Reading(TextFrom(q))
  BY DEF InField
<1>2. /\ Reading(TextFrom(q))' /\ Buffers' /\ Asked' /\ AnsweredInOrder'
      /\ UNCHANGED <<scratch, data, parser, req, answers>> /\ (InStep' <=> InStep)
  BY <1>1, TextParsed
<1>3. At' = At
  BY <1>2 DEF At
<1>4. InField(q, k)'
  BY <1>2, <1>3 DEF InField, Kept
<1>5. InRequest(q)'
  BY <1>4 DEF InRequest
<1> QED BY <1>2, <1>5, StillIn

LEMMA InFieldStep ==
  ASSUME SessionInv, UNCHANGED requests, NEW q \in 1..Len(requests), Turn(q),
         NEW k \in 1..Len(requests[q].headers), InField(q, k), pc = "execute", Server
  PROVE  SessionInv'
<1>1. /\ Colon(requests[q], k) \in Nat /\ HeadAt(requests[q])[k] \in Nat
  BY FieldFacts, HeaderLine
<1>2. At \in Nat /\ At \in HeadAt(requests[q])[k] + 1..Colon(requests[q], k)
      /\ At <= Len(scratch) /\ Len(scratch) \in Nat
  BY FieldFacts
<1>3. \/ At = Len(scratch)
      \/ At < Len(scratch) /\ (At < Colon(requests[q], k) - 1 \/ At = Colon(requests[q], k) - 1
                               \/ At = Colon(requests[q], k))
  <2> HIDE DEF At
  <2> QED BY <1>1, <1>2
<1> QED BY <1>3, FieldParsed, FieldName, FieldColon, FieldValue

LEMMA ValueFacts ==
  ASSUME SessionInv, NEW q \in 1..Len(requests), NEW k \in 1..Len(requests[q].headers), InValue(q, k)
  PROVE  LET s == requests[q]
         IN  /\ Reading(TextFrom(q)) /\ LinePassed(s) /\ Buffers /\ Asked /\ s \in Shapes
             /\ Len(scratch) \in Nat /\ At \in Nat /\ At <= Len(scratch) /\ Len(scratch) <= Scratch
             /\ scratch \in Seq(Byte) /\ TextFrom(q) \in Nat
             /\ At \in Colon(s, k) + 1..Stop(s, k) + (IF k = Len(s.headers) THEN 3 ELSE 2)
             /\ parser.prev = HeaderText(s)[At]
             /\ data.status = "HDR_VALUE" /\ data.at = Colon(s, k) /\ data \in Data
             /\ data.length = (IF At > Stop(s, k) THEN Stop(s, k) ELSE At) - Colon(s, k)
             /\ req = [of |-> q, hdrs |-> k, remaining |-> 0]
             /\ k \in Nat /\ q \in Nat
             /\ Kept(q, At, HeadAt(s)[k])
<1>1. Reading(TextFrom(q))
  BY DEF InValue
<1>2. k \in Nat /\ q \in Nat
  <2>1. Len(requests[q].headers) \in Nat /\ Len(requests) \in Nat
    BY RequestsAre, TextIs DEF SessionInv
  <2> QED BY <2>1
<1>3. data \in Data
  BY DEF SessionInv, Buffers
<1>4. /\ Buffers /\ Asked /\ requests[q] \in Shapes
      /\ Len(scratch) \in Nat /\ At \in Nat /\ At <= Len(scratch) /\ Len(scratch) <= Scratch
      /\ scratch \in Seq(Byte) /\ TextFrom(q) \in Nat
  BY <1>1, TextFacts
<1> QED BY <1>1, <1>2, <1>3, <1>4 DEF InValue

LEMMA ValueParsed ==
  ASSUME SessionInv, UNCHANGED requests, NEW q \in 1..Len(requests), Turn(q),
         NEW k \in 1..Len(requests[q].headers), InValue(q, k),
         pc = "execute", Server, At = Len(scratch)
  PROVE  SessionInv'
<1>1. Reading(TextFrom(q))
  BY DEF InValue
<1>2. /\ Reading(TextFrom(q))' /\ Buffers' /\ Asked' /\ AnsweredInOrder'
      /\ UNCHANGED <<scratch, data, parser, req, answers>> /\ (InStep' <=> InStep)
  BY <1>1, TextParsed
<1>3. At' = At
  BY <1>2 DEF At
<1>4. InValue(q, k)'
  BY <1>2, <1>3 DEF InValue, Kept
<1>5. InRequest(q)'
  BY <1>4 DEF InRequest
<1> QED BY <1>2, <1>5, StillIn

\* More of the value.
LEMMA ValueMore ==
  ASSUME SessionInv, UNCHANGED requests, NEW q \in 1..Len(requests), Turn(q),
         NEW k \in 1..Len(requests[q].headers), InValue(q, k),
         pc = "execute", Server, At < Len(scratch), At < Stop(requests[q], k)
  PROVE  SessionInv'
<1> DEFINE s == requests[q]
           T == HeaderText(s)
           n == Len(scratch)
<1> PICK a \in Nat, h \in Nat, c \in Nat, z \in Nat :
      a = At /\ h = HeadAt(s)[k] /\ c = Colon(s, k) /\ z = Stop(s, k)
  BY ValueFacts, HeaderLine
<1>1. /\ Reading(TextFrom(q)) /\ LinePassed(s) /\ s \in Shapes /\ n \in Nat /\ data \in Data
      /\ parser.prev = T[a] /\ a < n /\ a < z
      /\ data.status = "HDR_VALUE" /\ data.at = c /\ data.length = (IF a > z THEN z ELSE a) - c
      /\ req = [of |-> q, hdrs |-> k, remaining |-> 0] /\ Kept(q, a, h)
      /\ k \in Nat /\ q \in Nat
  BY ValueFacts
<1>2. a \in c + 1..z /\ data.length = a - c
  <2>1. a \in c + 1..z + (IF k = Len(s.headers) THEN 3 ELSE 2)
    BY ValueFacts
  <2>2. c < a
    <3>1. CASE k = Len(s.headers)
      BY <2>1, <3>1
    <3>2. CASE k # Len(s.headers)
      BY <2>1, <3>2
    <3> QED BY <3>1, <3>2
  <2>3. a \in c + 1..z /\ ~(a > z)
    <3>1. a < z
      BY <1>1
    <3> QED BY <2>2, <3>1
  <2> QED BY <1>1, <2>3
<1>3. z < Len(T) /\ Len(T) \in Nat /\ T[z + 1] = "l" /\ \A i \in c + 1..z : T[i] = "h"
  <2>1. s \in Shapes /\ k \in 1..Len(s.headers)
    BY <1>1
  <2>2. Stop(s, k) + 4 <= Len(T) /\ Len(T) \in Nat
    BY <2>1, HeaderLine
  <2>3. T[Stop(s, k) + 1] = "l"
    BY <2>1, LineKinds
  <2>4. \A i \in Colon(s, k) + 1..Stop(s, k) : T[i] = "h"
    BY <2>1, LineKinds
  <2> HIDE DEF T, s
  <2>5. z < Len(T)
    BY <2>2
  <2> QED BY <2>2, <2>3, <2>4, <2>5
<1>0. PICK to \in Nat : to = IF z <= Len(scratch) THEN z ELSE Len(scratch)
  BY <1>1
<1>4. Run(q, z, "h", to)
  <2>1. Reading(TextFrom(q)) /\ At < Len(scratch) /\ At < z /\ z < Len(HeaderText(requests[q]))
    BY <1>1, <1>3
  <2>2. \A i \in At + 1..z : HeaderText(requests[q])[i] = "h"
    <3>1. \A i \in a + 1..z : i \in c + 1..z
      BY <1>2
    <3> QED BY <1>3, <3>1
  <2>3. HeaderText(requests[q])[z + 1] # "h" /\ "h" \in AllKinds
    BY <1>3 DEF AllKinds, TextKinds
  <2> QED BY <1>0, <2>1, <2>2, <2>3 DEF Run
<1>5. to \in a + 1..z /\ End = to /\ Now = "h"
  BY <1>1, <1>4, TextRun
<1>6. CbHeaderValue
  <2>1. parser.prev = "h"
    BY <1>1, <1>2, <1>3
  <2>2. Takes(parser.prev, Now)
    BY <1>5, <2>1 DEF Takes
  <2>3. At # Len(scratch)
    BY <1>1
  <2> QED BY <1>5, <2>2, <2>3, Accepted
<1>7. /\ data' = [data EXCEPT !.length = @ + to - a] /\ UNCHANGED <<scratch, req>>
      /\ Walk(End, "h") /\ Accept
  BY <1>1, <1>5, <1>6 DEF CbHeaderValue
<1>8. /\ data' \in Data /\ data'.error = data.error /\ data'.paused = data.paused
      /\ data'.pre = data.pre /\ data'.status = "HDR_VALUE" /\ data'.at = c /\ data'.length = to - c
      /\ data'.at + data'.length = to
  <2>1. a - c + to - a = to - c /\ to - c \in Nat /\ c + (to - c) = to
    <3>1. c < a /\ a < to
      BY <1>2, <1>5
    <3> QED BY <3>1
  <2> QED BY <1>1, <1>2, <1>7, <2>1 DEF Data
<1>9. req' = [of |-> q, hdrs |-> k, remaining |-> 0] /\ req' \in [of : Nat, hdrs : Nat, remaining : Nat]
  <2>1. req' = req
    BY <1>7
  <2> QED BY <1>1, <2>1
<1>10. /\ parser' = [at |-> to, prev |-> "h"] /\ At' = to
       /\ Reading(TextFrom(q))' /\ Buffers' /\ Asked' /\ AnsweredInOrder'
       /\ (InStep' <=> InStep) /\ answers' = answers /\ Kept(q, to, h)'
  <2>1. Kept(q, At, h) /\ pc = "execute" /\ data.status # "BODY" /\ data'.status # "BODY"
    BY <1>1, <1>8
  <2>2. SessionInv /\ UNCHANGED requests /\ Reading(TextFrom(q)) /\ Accept /\ Walk(End, "h") /\ UNCHANGED scratch
    BY <1>1, <1>7
  <2>3. data'.at + data'.length = to
    BY <1>8
  <2>4. data' \in Data /\ data'.error = data.error /\ data'.paused = data.paused /\ data'.pre = data.pre
    BY <1>8
  <2> HIDE DEF T
  <2> QED BY <1>4, <1>9, <2>1, <2>2, <2>3, <2>4, TextWalk
<1>11. InValue(q, k)'
  <2>1. to \in c + 1..z /\ ~(to > z)
    BY SMTT(40), <1>2, <1>5
  <2>2. /\ At' = to /\ parser'.prev = HeaderText(requests[q])[to]
    BY <1>3, <1>10, <2>1
  <2>3. to \in c + 1..z + (IF k = Len(s.headers) THEN 3 ELSE 2)
    <3>1. CASE k = Len(s.headers)
      BY <2>1, <3>1
    <3>2. CASE k # Len(s.headers)
      BY <2>1, <3>2
    <3> QED BY <3>1, <3>2
  <2>4. /\ data'.at = Colon(requests[q], k) /\ data'.status = "HDR_VALUE"
        /\ data'.length = (IF to > Stop(requests[q], k) THEN Stop(requests[q], k) ELSE to) - Colon(requests[q], k)
    BY <1>8, <2>1
  <2>5. /\ LinePassed(requests[q]) /\ Reading(TextFrom(q))' /\ h = HeadAt(requests[q])[k]
    BY <1>1, <1>10
  <2>6. Kept(q, to, h)' /\ req' = [of |-> q, hdrs |-> k, remaining |-> 0]
    BY <1>9, <1>10
  <2>7. to \in Colon(requests[q], k) + 1
                  ..Stop(requests[q], k) + (IF k = Len(requests[q].headers) THEN 3 ELSE 2)
    BY <2>3
  <2> HIDE DEF s, T
  <2> QED BY <2>2, <2>4, <2>5, <2>6, <2>7, ValuePlaced
<1>12. InRequest(q)'
  BY <1>11 DEF InRequest
<1> QED BY <1>10, <1>12, StillIn

\* The end of the line, and the CR of the blank one.
LEMMA ValueSilent ==
  ASSUME SessionInv, UNCHANGED requests, NEW q \in 1..Len(requests), Turn(q),
         NEW k \in 1..Len(requests[q].headers), InValue(q, k),
         pc = "execute", Server, At < Len(scratch),
         \/ At \in Stop(requests[q], k)..Stop(requests[q], k) + 1
         \/ At = Stop(requests[q], k) + 2 /\ k = Len(requests[q].headers)
  PROVE  SessionInv'
<1> DEFINE s == requests[q]
           T == HeaderText(s)
           n == Len(scratch)
<1> PICK a \in Nat, h \in Nat, c \in Nat, z \in Nat :
      a = At /\ h = HeadAt(s)[k] /\ c = Colon(s, k) /\ z = Stop(s, k)
  BY ValueFacts, HeaderLine
<1>1. /\ Reading(TextFrom(q)) /\ LinePassed(s) /\ s \in Shapes /\ n \in Nat
      /\ parser.prev = T[a] /\ a < n
      /\ data.status = "HDR_VALUE" /\ data.at = c /\ data.length = (IF a > z THEN z ELSE a) - c
      /\ req = [of |-> q, hdrs |-> k, remaining |-> 0] /\ Kept(q, a, h)
  BY ValueFacts
<1>2. /\ c < z /\ h + 1 < c /\ z + 4 <= Len(T) /\ Len(T) \in Nat
      /\ T[z] = "h" /\ T[z + 1] = "l" /\ T[z + 2] = "n" /\ T[z + 3] \in {"f", "b"}
      /\ k = Len(s.headers) => T[z + 3] = "b" /\ T[z + 4] = "e"
  <2>1. s \in Shapes /\ k \in 1..Len(s.headers)
    BY <1>1
  <2>2. /\ Colon(s, k) < Stop(s, k) /\ HeadAt(s)[k] + 1 < Colon(s, k)
        /\ Stop(s, k) + 4 <= Len(T) /\ Len(T) \in Nat
    BY <2>1, HeaderLine
  <2>3. T[Stop(s, k) + 1] = "l" /\ T[Stop(s, k) + 2] = "n"
    BY SMTT(40), <2>1, LineKinds
  <2>4. T[Stop(s, k)] = "h"
    <3>1. \A i \in Colon(s, k) + 1..Stop(s, k) : T[i] = "h"
      BY <2>1, LineKinds
    <3>2. z \in c + 1..z
      BY SMTT(40), <2>2
    <3> QED BY <3>1, <3>2
  <2>5. k # Len(s.headers) => T[Stop(s, k) + 3] = "f"
    BY ZenonT(60), <2>1, HeaderLine
  <2>6. ASSUME k = Len(s.headers) PROVE T[Stop(s, k) + 3] = "b" /\ T[Stop(s, k) + 4] = "e"
    <3>1. T[Stop(s, k) + 3] = "b"
      BY <2>1, <2>6, HeaderLine
    <3>2. T[Stop(s, k) + 4] = "e"
      BY <2>1, <2>6, HeaderLine
    <3> QED BY <3>1, <3>2
  <2> HIDE DEF T, s
  <2> QED BY <2>2, <2>3, <2>4, <2>5, <2>6
<1>3. \/ a = z
      \/ a = z + 1
      \/ a = z + 2 /\ k = Len(s.headers)
  BY SMTT(40)
<1>4. PICK d \in {"l", "n", "b"} : T[a + 1] = d /\ T[a + 2] # d /\ Takes(T[a], d)
  <2>1. CASE a = z
    BY <1>2, <2>1 DEF Takes
  <2>2. CASE a = z + 1
    <3>1. a + 1 = z + 2 /\ a + 2 = z + 3
      BY <2>2
    <3> QED BY <1>2, <2>2, <3>1 DEF Takes
  <2>3. CASE a = z + 2 /\ k = Len(s.headers)
    <3>1. a + 1 = z + 3 /\ a + 2 = z + 4
      BY <2>3
    <3> QED BY <1>2, <2>3, <3>1 DEF Takes
  <2> QED BY <1>3, <2>1, <2>2, <2>3
<1> PICK e \in Nat : e = a + 1
  OBVIOUS
<1>5. a < e /\ e <= n /\ e < Len(T) /\ e + 1 = a + 2 /\ h <= a /\ z <= a
  <2>2. a <= z + 2 /\ z <= a
    BY <1>3
  <2>3. c < z /\ h + 1 < c /\ z + 4 <= Len(T) /\ Len(T) \in Nat
    BY <1>2
  <2>4. a < n /\ n \in Nat
    BY <1>1
  <2> HIDE DEF T, n
  <2>1. a < n /\ n \in Nat /\ Len(T) \in Nat /\ a <= z + 2 /\ z <= a /\ h < z /\ z + 4 <= Len(T)
    BY <2>2, <2>3, <2>4, SMTT(30)
  <2>5. a \in Nat /\ z \in Nat /\ h \in Nat /\ e = a + 1
    OBVIOUS
  <2> QED BY ONLY <2>1, <2>5
<1>6. Run(q, e, d, e)
  <2>1. Reading(TextFrom(q)) /\ At < Len(scratch) /\ At < e /\ e < Len(HeaderText(requests[q]))
    BY <1>1, <1>5
  <2>2. \A i \in At + 1..e : HeaderText(requests[q])[i] = d
    <3>1. \A i \in a + 1..e : i = a + 1
      OBVIOUS
    <3> QED BY <1>4, <3>1
  <2>3. HeaderText(requests[q])[e + 1] # d /\ d \in AllKinds
    BY <1>4, <1>5 DEF AllKinds, TextKinds
  <2>4. e = IF e <= Len(scratch) THEN e ELSE Len(scratch)
    BY <1>5
  <2> QED BY <2>1, <2>2, <2>3, <2>4 DEF Run
<1>7. /\ parser' = [at |-> e, prev |-> d] /\ At' = e /\ UNCHANGED <<scratch, data, req>>
      /\ Reading(TextFrom(q))' /\ Buffers' /\ Asked' /\ AnsweredInOrder'
      /\ (InStep' <=> InStep) /\ answers' = answers /\ Kept(q, e, h)'
  <2>1. Kept(q, At, h) /\ h <= At /\ data.status # "BODY" /\ Takes(parser.prev, d)
    BY <1>1, <1>4, <1>5
  <2>2. d \in {":", "l", "n", "b"}
    OBVIOUS
  <2> HIDE DEF T
  <2> QED BY ZenonT(60), <1>1, <1>6, <2>1, <2>2, TextSilent
<1>8. InValue(q, k)'
  <2>1. e > z /\ (IF a > z THEN z ELSE a) = z
    BY <1>5
  <2>2. /\ At' = e /\ parser'.prev = HeaderText(requests[q])[e]
    BY <1>4, <1>7
  <2>3. e \in c + 1..z + (IF k = Len(s.headers) THEN 3 ELSE 2)
    <3>0. c < z
      BY <1>2
    <3>1. CASE k = Len(s.headers)
      <4>1. e \in c + 1..z + 3
        BY SMTT(40), <1>3, <3>0
      <4> QED BY <3>1, <4>1
    <3>2. CASE k # Len(s.headers)
      <4>1. a = z \/ a = z + 1
        BY <1>3, <3>2
      <4>2. e \in c + 1..z + 2
        BY <3>0, <4>1
      <4> QED BY <3>2, <4>2
    <3> QED BY <3>1, <3>2
  <2>4. /\ data'.at = Colon(requests[q], k) /\ data'.status = "HDR_VALUE"
        /\ data'.length = (IF e > Stop(requests[q], k) THEN Stop(requests[q], k) ELSE e) - Colon(requests[q], k)
    <3>1. data' = data
      BY <1>7
    <3> QED BY <1>1, <2>1, <3>1
  <2>5. /\ LinePassed(requests[q]) /\ Reading(TextFrom(q))' /\ h = HeadAt(requests[q])[k]
    BY <1>1, <1>7
  <2>6. Kept(q, e, h)' /\ req' = [of |-> q, hdrs |-> k, remaining |-> 0]
    <3>1. req' = req
      BY <1>7
    <3> QED BY <1>1, <1>7, <3>1
  <2>7. e \in Colon(requests[q], k) + 1
                  ..Stop(requests[q], k) + (IF k = Len(requests[q].headers) THEN 3 ELSE 2)
    BY <2>3
  <2> HIDE DEF s, T
  <2> QED BY <2>2, <2>4, <2>5, <2>6, <2>7, ValuePlaced
<1>9. InRequest(q)'
  BY <1>8 DEF InRequest
<1> QED BY <1>7, <1>9, StillIn

\* The NUL behind the value.
LEMMA TerminatedIs ==
  ASSUME scratch \in Seq(Byte), NEW z \in Nat, data.at + data.length = z, z + 1 <= Len(scratch)
  PROVE  /\ Terminated \in Seq(Byte) /\ Len(Terminated) = Len(scratch)
         /\ \A i \in 1..Len(scratch) : i # z + 1 => Terminated[i] = scratch[i]
         /\ Terminated[z + 1] = [of |-> scratch[z + 1].of, kind |-> "NUL"]
<1> DEFINE n == Len(scratch)
<1>1. n \in Nat /\ DOMAIN scratch = 1..n /\ \A i \in 1..n : scratch[i] \in Byte
  BY LenProperties, ElementOfSeq
<1> HIDE DEF n
<1>2. z + 1 \in 1..n
  BY <1>1 DEF n
<1>3. PICK y : y = [scratch[z + 1] EXCEPT !.kind = "NUL"]
  OBVIOUS
<1>4. y = [of |-> scratch[z + 1].of, kind |-> "NUL"] /\ y \in Byte
  BY <1>1, <1>2, <1>3 DEF Byte
<1>5. Terminated = [scratch EXCEPT ![z + 1] = y]
  BY <1>3 DEF Terminated
<1>6. Terminated = [i \in 1..n |-> IF i = z + 1 THEN y ELSE scratch[i]]
  BY <1>1, <1>5
<1>7. Terminated \in Seq(Byte) /\ Len(Terminated) = n
  <2>1. \A i \in 1..n : (IF i = z + 1 THEN y ELSE scratch[i]) \in Byte
    BY <1>1, <1>4
  <2> QED BY <1>1, <1>6, <2>1
<1> QED BY <1>2, <1>4, <1>6, <1>7 DEF n

LEMMA KeptTerminated ==
  ASSUME NEW q \in 1..Len(requests), UNCHANGED requests, scratch \in Seq(Byte),
         NEW a \in Nat, NEW h \in Nat, Kept(q, a, h),
         NEW z \in Nat, data.at + data.length = z, scratch' = Terminated,
         NEW w \in Nat, NEW to \in Nat, Passed(q, a, to, w),
         z + 1 <= a, a <= to, to <= Len(scratch), h <= z, z + 1 <= w,
         HeaderText(requests[q])[z + 1] = "l",
         \A i \in h + 1..a : HeaderText(requests[q])[i] = "l" => i = z + 1 \/ i > w
  PROVE  Kept(q, to, w)'
<1> DEFINE T == HeaderText(requests[q])
<1>1. Len(scratch) \in Nat
  BY LenProperties
<1>2. z + 1 <= Len(scratch)
  BY <1>1
<1>3. /\ Len(scratch') = Len(scratch)
      /\ \A i \in 1..Len(scratch) : i # z + 1 => scratch'[i] = scratch[i]
      /\ scratch'[z + 1] = [of |-> scratch[z + 1].of, kind |-> "NUL"]
  BY <1>2, TerminatedIs
<1>4. ASSUME NEW i \in 1..to
      PROVE  scratch'[i] = [of |-> q, kind |-> IF T[i] = "l" /\ i <= w THEN "NUL" ELSE T[i]]
  <2>1. i \in Nat /\ i \in 1..Len(scratch)
    BY <1>1
  <2>2. CASE i = z + 1
    <3>1. i \in 1..a /\ ~(i <= h)
      BY <2>2
    <3>2. scratch[i] = [of |-> q, kind |-> T[i]]
      BY <3>1 DEF Kept
    <3> QED BY <1>3, <2>2, <3>2
  <2>3. CASE i # z + 1 /\ i <= a
    <3>1. i \in 1..a
      BY <2>1, <2>3
    <3>2. scratch[i] = [of |-> q, kind |-> IF T[i] = "l" /\ i <= h THEN "NUL" ELSE T[i]]
      BY <3>1 DEF Kept
    <3>3. i <= h => i <= w
      BY <2>1
    <3>4. i <= h \/ i \in h + 1..a
      BY <2>1, <2>3
    <3>5. i > w => ~(i <= w) 
      BY <2>1
    <3>6. T[i] = "l" /\ ~(i <= h) => ~(i <= w)
      BY <2>3, <3>4, <3>5
    <3>7. scratch'[i] = scratch[i]
      BY <1>3, <2>1, <2>3
    <3> HIDE DEF T
    <3>8. (T[i] = "l" /\ i <= w) <=> (T[i] = "l" /\ i <= h)
      BY <3>3, <3>6
    <3> QED BY <3>2, <3>7, <3>8
  <2>4. CASE i # z + 1 /\ ~(i <= a)
    <3>1. i \in a + 1..to
      BY <2>1, <2>4
    <3>2. scratch[i] = [of |-> q, kind |-> T[i]] /\ (T[i] # "l" \/ i > w)
      BY <3>1 DEF Passed
    <3>3. i > w => ~(i <= w)
      BY <2>1
    <3>4. scratch'[i] = scratch[i]
      BY <1>3, <2>1, <2>4
    <3> HIDE DEF T
    <3>5. ~(T[i] = "l" /\ i <= w)
      BY <3>2, <3>3
    <3> QED BY <3>2, <3>4, <3>5
  <2> QED BY <2>2, <2>3, <2>4
<1> QED BY <1>3, <1>4 DEF Kept

\* The lines of a header hold one CR.
LEMMA OneCR ==
  ASSUME NEW s \in Shapes, NEW k \in 1..Len(s.headers)
  PROVE  \A i \in HeadAt(s)[k] + 1..Stop(s, k) + 2 : HeaderText(s)[i] = "l" => i = Stop(s, k) + 1
<1> DEFINE T == HeaderText(s)
<1> PICK h \in Nat, c \in Nat, z \in Nat : h = HeadAt(s)[k] /\ c = Colon(s, k) /\ z = Stop(s, k)
  BY HeaderLine
<1>1. h + 1 < c /\ c < z /\ T[c] = ":" /\ T[z + 1] = "l" /\ T[z + 2] = "n"
  BY SMTT(40), HeaderLine
<1>2. \A i \in h + 1..c - 1 : T[i] = "f"
  BY HeaderLine
<1>3. \A i \in c + 1..z : T[i] = "h"
  BY HeaderLine
<1> HIDE DEF T
<1>4. ASSUME NEW i \in h + 1..z + 2, T[i] = "l" PROVE i = z + 1
  <2>1. i \in h + 1..c - 1 \/ i = c \/ i \in c + 1..z \/ i = z + 1 \/ i = z + 2
    BY <1>1, SMTT(30)
  <2> QED BY <1>1, <1>2, <1>3, <1>4, <2>1
<1> QED BY <1>4 DEF T

LEMMA LineEnds ==
  ASSUME NEW s \in Shapes, NEW k \in 1..Len(s.headers)
  PROVE  HeaderText(s)[Stop(s, k) + 1] = "l" /\ HeaderText(s)[Stop(s, k) + 2] = "n"
<1>1. HeaderText(s)[Stop(s, k) + 1] = "l"
  BY HeaderLine
<1>2. HeaderText(s)[Stop(s, k) + 2] = "n"
  BY HeaderLine
<1> QED BY <1>1, <1>2

AfterLine(q, k) == At = Stop(requests[q], k) + 2

\* The next header begins: the value before it is terminated.
LEMMA ValueNext ==
  ASSUME SessionInv, UNCHANGED requests, NEW q \in 1..Len(requests), Turn(q),
         NEW k \in 1..Len(requests[q].headers), InValue(q, k), k # Len(requests[q].headers),
         pc = "execute", Server, At < Len(scratch), AfterLine(q, k)
  PROVE  SessionInv'
<1> DEFINE s == requests[q]
           T == HeaderText(s)
           n == Len(scratch)
<1>a. s \in Shapes /\ k \in 1..Len(s.headers) /\ k + 1 \in 1..Len(s.headers)
  <2>1. s \in Shapes
    BY ValueFacts
  <2>2. k + 1 \in 1..Len(s.headers)
    BY <2>1, HeaderLine
  <2> QED BY <2>1, <2>2
<1>j. PICK j \in 1..Len(s.headers) : j = k + 1
  BY <1>a
<1>c. PICK c \in Nat : c = Colon(s, j)
  BY <1>a, HeaderLine
<1> PICK a \in Nat, h \in Nat, z \in Nat : a = At /\ h = HeadAt(s)[k] /\ z = Stop(s, k)
  BY <1>a, ValueFacts, HeaderLine
<1>1. /\ Reading(TextFrom(q)) /\ LinePassed(s) /\ n \in Nat /\ data \in Data /\ scratch \in Seq(Byte)
      /\ n <= Scratch /\ parser.prev = T[a] /\ a < n /\ a = z + 2
      /\ data.status = "HDR_VALUE" /\ data.at = Colon(s, k)
      /\ data.length = (IF a > z THEN z ELSE a) - Colon(s, k)
      /\ req = [of |-> q, hdrs |-> k, remaining |-> 0] /\ Kept(q, a, h)
      /\ k \in Nat /\ q \in Nat /\ TextFrom(q) \in Nat
  BY ValueFacts DEF AfterLine
<1>2. h <= z /\ z + 2 = HeadAt(s)[j] /\ T[z + 1] = "l" /\ T[z + 2] = "n" /\ Colon(s, k) \in Nat /\ Colon(s, k) < z
  <2>1. h + 1 < Colon(s, k) /\ Colon(s, k) < z /\ Colon(s, k) \in Nat
    BY <1>a, HeaderLine
  <2>2. HeadAt(s)[j] = z + 2
    BY <1>a, <1>j, HeaderLine
  <2>0. s \in Shapes /\ k \in 1..Len(s.headers)
    BY <1>a
  <2>3. T[Stop(s, k) + 1] = "l" /\ T[Stop(s, k) + 2] = "n"
    BY <2>0, LineEnds
  <2>4. h <= z
    BY <2>1
  <2> QED BY <2>1, <2>2, <2>3, <2>4
<1>3. a + 1 < c /\ c < Len(T) /\ Len(T) \in Nat /\ T[c] = ":" /\ \A i \in a + 1..c - 1 : T[i] = "f"
  <2>0. s \in Shapes /\ j \in 1..Len(s.headers)
    BY <1>a
  <2>1. HeadAt(s)[j] + 1 < Colon(s, j)
    BY <2>0, HeaderLine
  <2>2. /\ Colon(s, j) < Stop(s, j) /\ Stop(s, j) + 4 <= Len(T) /\ Len(T) \in Nat
        /\ Stop(s, j) \in Nat
    BY <2>0, HeaderLine
  <2>3. \A i \in HeadAt(s)[j] + 1..Colon(s, j) - 1 : T[i] = "f"
    BY <2>0, HeaderLine
  <2>4. T[Colon(s, j)] = ":"
    BY <2>0, HeaderLine
  <2>5. HeadAt(s)[j] = a
    BY <1>1, <1>2
  <2> HIDE DEF T, s
  <2>6. c < Len(T)
    BY <1>c, <2>2
  <2> QED BY <1>c, <2>1, <2>2, <2>3, <2>4, <2>5, <2>6
<1>e. PICK e \in Nat : e = c - 1
  BY <1>3
<1>0. PICK to \in Nat : to = IF e <= Len(scratch) THEN e ELSE Len(scratch)
  BY <1>1
<1>4. Run(q, e, "f", to)
  <2>1. a < e /\ e < Len(T) /\ e + 1 = c
    <3>1. a + 1 < c /\ c < Len(T) /\ Len(T) \in Nat
      BY <1>3
    <3> HIDE DEF T
    <3> QED BY <1>e, <3>1
  <2>2. Reading(TextFrom(q)) /\ At < Len(scratch) /\ At < e /\ e < Len(HeaderText(requests[q]))
    BY <1>1, <2>1
  <2>3. \A i \in At + 1..e : HeaderText(requests[q])[i] = "f"
    BY <1>3, <1>e
  <2>4. HeaderText(requests[q])[e + 1] # "f" /\ "f" \in AllKinds
    BY <1>3, <2>1 DEF AllKinds, TextKinds
  <2> QED BY <1>0, <2>2, <2>3, <2>4 DEF Run
<1>5. /\ to \in a + 1..n /\ to \in a + 1..e /\ End = to /\ Now = "f"
      /\ \A i \in At + 1..Len(scratch) : i <= e => scratch[i].kind = "f"
      /\ e < Len(scratch) => scratch[e + 1].kind # "f"
      /\ \A i \in a + 1..to : scratch[i] = [of |-> q, kind |-> T[i]] /\ T[i] = "f"
  <2>1. to \in a + 1..n /\ to \in a + 1..e /\ End = to /\ Now = "f"
    BY <1>4, TextRun
  <2>2. \A i \in At + 1..Len(scratch) : i <= e => scratch[i].kind = "f"
    BY <1>4, TextRun
  <2>3. e < Len(scratch) => scratch[e + 1].kind # "f"
    BY <1>4, TextRun
  <2>4. \A i \in a + 1..to : scratch[i] = [of |-> q, kind |-> T[i]] /\ T[i] = "f"
    BY ZenonT(60), <1>4, TextRun
  <2> QED BY <2>1, <2>2, <2>3, <2>4
<1>6. CbHeaderField
  <2>1. Takes(parser.prev, Now)
    BY <1>1, <1>2, <1>5 DEF Takes
  <2>2. FirstField \/ CbHeaderField
    BY <1>1, <1>5, <2>1, Accepted
  <2> QED BY <1>1, <2>2 DEF FirstField
<1>7. /\ data' = [data EXCEPT !.status = "HDR_FIELD", !.at = a, !.length = to - a]
      /\ scratch' = Terminated /\ UNCHANGED req
      /\ Walk(End, "f") /\ Accept
  BY <1>1, <1>5, <1>6 DEF CbHeaderField
<1>8. /\ data' \in Data /\ data'.error = data.error /\ data'.paused = data.paused
      /\ data'.pre = data.pre /\ data'.status = "HDR_FIELD" /\ data'.at = a /\ data'.length = to - a
      /\ data'.at <= Scratch /\ data'.at + data'.length <= Scratch
  <2>1. to - a \in Nat /\ a + (to - a) = to /\ a <= Scratch /\ to <= Scratch
    <3>1. a < n /\ to <= n /\ a < to /\ n <= Scratch /\ n \in Nat /\ Scratch \in Nat
      <4>1. n \in Nat /\ to \in a + 1..n
        BY <1>1, <1>5
      <4> HIDE DEF n
      <4>2. to <= n /\ a < to
        BY <4>1
      <4> QED BY <1>1, <4>1, <4>2, RequestAssumption
    <3> HIDE DEF n
    <3> QED BY <3>1
  <2> QED BY <1>1, <1>7, <2>1 DEF Data, Seven
<1>9. data.at + data.length = z /\ z + 1 <= n
  <2>1. a > z
    BY <1>1
  <2>2. data.length = z - Colon(s, k)
    BY <1>1, <2>1
  <2>3. Colon(s, k) + (z - Colon(s, k)) = z
    BY <1>2
  <2>4. z + 1 <= n
    BY <1>1
  <2> QED BY <1>1, <2>2, <2>3, <2>4
<1>10. /\ scratch' \in Seq(Byte) /\ Len(scratch') = n
       /\ \A i \in At + 1..Len(scratch) : i > e => scratch'[i] = scratch[i]
  <2>3. scratch' = Terminated /\ scratch \in Seq(Byte) /\ data.at + data.length = z /\ z + 1 <= Len(scratch)
    BY <1>1, <1>7, <1>9
  <2>1. /\ scratch' \in Seq(Byte) /\ Len(scratch') = n
        /\ \A i \in 1..n : i # z + 1 => scratch'[i] = scratch[i]
    BY <2>3, TerminatedIs
  <2>2. \A i \in a + 1..n : i \in 1..n /\ i # z + 1
    BY SMTT(40), <1>1
  <2>4. \A i \in At + 1..Len(scratch) : scratch'[i] = scratch[i]
    BY <2>1, <2>2
  <2> QED BY <2>1, <2>4
<1>11. /\ parser' = [at |-> to, prev |-> "f"] /\ At' = to
       /\ Reading(TextFrom(q))' /\ Buffers' /\ Asked' /\ AnsweredInOrder'
       /\ (InStep' <=> InStep) /\ answers' = answers
  <2> PICK b \in Nat : b = TextFrom(q) /\ Reading(b)
    BY <1>1
  <2>1. /\ parser' = [at |-> to, prev |-> "f"] /\ At' = to
        /\ Reading(b)' /\ Buffers' /\ Asked' /\ AnsweredInOrder'
        /\ answers' = answers /\ (InStep' <=> InStep)
    <3>1. "f" \in AllKinds /\ At < e /\ At < Len(scratch) /\ SessionInv /\ UNCHANGED requests /\ e \in Nat
      BY <1>4 DEF Run
    <3>2. Accept /\ Walk(End, "f") /\ Reading(b) /\ pc = "execute"
      BY <1>7
    <3>3. req' \in [of : Nat, hdrs : Nat, remaining : Nat]
      <4>1. req' = req
        BY <1>7
      <4> QED BY <1>1, <4>1
    <3>4. data'.status # "BODY" => data'.at + data'.length <= Scratch
      BY <1>8
    <3>5. Len(scratch') = Len(scratch)
      BY <1>10
    <3>6. /\ \A i \in At + 1..Len(scratch) : i <= e => scratch[i].kind = "f"
          /\ e < Len(scratch) => scratch[e + 1].kind # "f"
      BY <1>5
    <3>7. scratch' \in Seq(Byte) /\ \A i \in At + 1..Len(scratch) : i > e => scratch'[i] = scratch[i]
      BY <1>10
    <3>8. data' \in Data /\ data'.error = data.error /\ data'.paused = data.paused /\ data'.pre = data.pre
      BY <1>8
    <3>9. data'.at <= Scratch
      BY <1>8
    <3> HIDE DEF n
    <3> QED BY SMTT(40), <1>0, <3>8, <3>9, <3>1, <3>2, <3>3, <3>4, <3>5, <3>6, <3>7, WalkStep
  <2>2. Reading(TextFrom(q))'
    BY <2>1, StreamStays
  <2> QED BY <2>1, <2>2
<1>12. Kept(q, to, a)'
  <2>1. Passed(q, a, to, a)
    BY <1>5 DEF Passed
  <2>2. \A i \in h + 1..a : HeaderText(requests[q])[i] = "l" => i = z + 1 \/ i > a
    <3>1. \A i \in h + 1..z + 2 : T[i] = "l" => i = z + 1
      BY <1>a, OneCR
    <3>2. \A i \in h + 1..a : T[i] = "l" => i = z + 1
      BY <1>1, <3>1
    <3> QED BY <3>2
  <2>3. z + 1 <= a /\ a <= to /\ to <= Len(scratch)
    BY SMTT(40), <1>1, <1>5
  <2>4. /\ scratch \in Seq(Byte) /\ Kept(q, a, h) /\ h <= z /\ HeaderText(requests[q])[z + 1] = "l"
        /\ scratch' = Terminated /\ data.at + data.length = z
    BY <1>1, <1>2, <1>7, <1>9
  <2> HIDE DEF T, n
  <2> QED BY <2>1, <2>2, <2>3, <2>4, KeptTerminated
<1>13. InField(q, j)'
  <2>1. /\ to \in a + 1..c /\ to # c /\ T[to] = "f"
    <3>1. to \in a + 1..e
      BY <1>5
    <3>2. to \in a + 1..c - 1 /\ to \in a + 1..c /\ to # c
      BY <1>e, <3>1
    <3> QED BY <1>3, <3>2
  <2>2. HeadAt(requests[q])[j] = a /\ Colon(requests[q], j) = c
    BY <1>1, <1>2, <1>c
  <2>4. /\ At' = to /\ to \in HeadAt(requests[q])[j] + 1..Colon(requests[q], j)
        /\ to # Colon(requests[q], j) /\ parser'.prev = HeaderText(requests[q])[to]
    BY <1>11, <2>1, <2>2
  <2>5. /\ data'.at = HeadAt(requests[q])[j] /\ data'.length = to - HeadAt(requests[q])[j]
        /\ data'.status = "HDR_FIELD"
    BY <1>8, <2>2
  <2>6. /\ LinePassed(requests[q]) /\ Reading(TextFrom(q))' /\ a = HeadAt(requests[q])[j]
    BY <1>1, <1>11, <2>2
  <2>7. req' = [of |-> q, hdrs |-> j - 1, remaining |-> 0]
    <3>1. req' = req /\ j - 1 = k
      BY <1>1, <1>7, <1>j
    <3> QED BY <1>1, <3>1
  <2>8. Kept(q, to, a)'
    BY <1>12
  <2> HIDE DEF s, T
  <2>10. j \in 1..Len(requests[q].headers)
    BY <1>j DEF s
  <2>9. InField(q, j)'
    BY <2>10, <2>4, <2>5, <2>6, <2>7, <2>8, FieldPlaced
  <2> QED BY <2>9
<1>14. InRequest(q)'
  BY <1>13 DEF InRequest
<1> QED BY <1>11, <1>14, StillIn

LEMMA LineFits ==
  ASSUME NEW s \in Shapes, LinePassed(s)
  PROVE  ~(s.url > MaxUri) /\ ~(Len(RequestLine(s)) >= Scratch) /\ UrlError(s) = "none"
<1>1. s.url \in Nat /\ Len(RequestLine(s)) = s.url + 4
  BY RequestLineIs
<1>2. s.url <= MaxUri /\ Len(RequestLine(s)) < Scratch /\ UrlError(s) = "none"
  BY DEF LinePassed
<1> QED BY <1>1, <1>2, RequestAssumption

\* The end of the headers.
LEMMA ValueComplete ==
  ASSUME SessionInv, UNCHANGED requests, NEW q \in 1..Len(requests), Turn(q),
         NEW k \in 1..Len(requests[q].headers), InValue(q, k), k = Len(requests[q].headers),
         pc = "execute", Server, At < Len(scratch), At = Stop(requests[q], k) + 3
  PROVE  SessionInv'
<1> DEFINE s == requests[q]
           T == HeaderText(s)
           n == Len(scratch)
<1> PICK a \in Nat, h \in Nat, z \in Nat, L \in Nat :
      a = At /\ h = HeadAt(s)[k] /\ z = Stop(s, k) /\ L = Len(T)
  BY ValueFacts, HeaderLine
<1>1. /\ Reading(TextFrom(q)) /\ LinePassed(s) /\ n \in Nat /\ data \in Data /\ scratch \in Seq(Byte)
      /\ n <= Scratch /\ parser.prev = T[a] /\ a < n /\ a = z + 3 /\ s \in Shapes
      /\ data.status = "HDR_VALUE" /\ data.at = Colon(s, k)
      /\ data.length = (IF a > z THEN z ELSE a) - Colon(s, k)
      /\ req = [of |-> q, hdrs |-> k, remaining |-> 0] /\ Kept(q, a, h)
      /\ k \in Nat /\ q \in Nat /\ TextFrom(q) \in Nat /\ Buffers
  BY ValueFacts
<1>2. /\ h <= z /\ L = z + 4 /\ T[z + 3] = "b" /\ T[z + 4] = "e" /\ T[z + 1] = "l"
      /\ Colon(s, k) \in Nat /\ Colon(s, k) < z
  <2>1. h + 1 < Colon(s, k) /\ Colon(s, k) < z /\ Colon(s, k) \in Nat
    BY <1>1, HeaderLine
  <2>2. Len(T) = Stop(s, k) + 4 /\ T[Stop(s, k) + 3] = "b" /\ T[Stop(s, k) + 4] = "e"
    BY ZenonT(60), <1>1, HeaderLine
  <2>3. T[Stop(s, k) + 1] = "l"
    BY <1>1, LineEnds
  <2>4. h <= z
    BY SMTT(40), <2>1
  <2> QED BY <2>1, <2>2, <2>3, <2>4
<1>3. a + 1 = L /\ L <= n /\ L <= Scratch /\ L - 4 = z /\ L - 1 = a /\ z <= Scratch
  <2>1. a < n /\ a = z + 3 /\ L = z + 4 /\ n \in Nat /\ n <= Scratch /\ Scratch \in Nat
    BY <1>1, <1>2, RequestAssumption
  <2>2. a \in Nat /\ z \in Nat /\ L \in Nat
    OBVIOUS
  <2> HIDE DEF n
  <2> QED BY ONLY <2>1, <2>2
<1>4. scratch[L] = [of |-> q, kind |-> "e"] /\ Now = "e" /\ Of = q
  <2>1. L \in At + 1..Len(scratch) /\ L \in 1..Len(HeaderText(requests[q]))
    BY <1>1, <1>3, SMTT(30)
  <2>2. scratch[L] = [of |-> q, kind |-> HeaderText(requests[q])[L]]
    BY <1>1, <2>1, TextFacts
  <2>3. scratch[L] = [of |-> q, kind |-> "e"]
    BY <1>2, <2>2
  <2>4. At + 1 = L
    BY <1>3
  <2> QED BY SMTT(40), <2>3, <2>4 DEF Now, Of
<1>5. CbHeadersComplete
  <2>1. parser.prev = "b"
    BY <1>1, <1>2
  <2>2. Takes(parser.prev, Now) /\ At # Len(scratch)
    BY <1>1, <1>4, <2>1 DEF Takes
  <2>3. CbHeadersComplete \/ CbNoBody
    BY <1>4, <2>2, Accepted
  <2> QED BY <2>1, <2>3 DEF CbNoBody
<1> PICK b \in Nat : b = TextFrom(q) /\ Reading(b)
  BY <1>1
<1>6. CASE s.upgrade
  <2>1. Fail("XXX") /\ data.status # "BODY"
    BY <1>1, <1>4, <1>5, <1>6 DEF CbHeadersComplete
  <2>2. "XXX" \in ParseErrors /\ "XXX" \in Expected(s)
    <3>1. ~(s.url > MaxUri) /\ ~(Len(RequestLine(s)) >= Scratch) /\ UrlError(s) = "none"
      BY <1>1, LineFits
    <3>3. ~(Len(T) > Scratch)
      <4>1. L <= Scratch /\ Scratch \in Nat
        BY <1>3, RequestAssumption
      <4>2. ~(L > Scratch)
        BY <4>1
      <4> QED BY <4>2
    <3> QED BY <1>6, <3>1, <3>3 DEF Expected, ParseErrors
  <2> QED BY <2>1, <2>2, FailInTurn
<1>7. CASE ~s.upgrade
  <2>1. /\ scratch' = Terminated /\ data' = [data EXCEPT !.status = "BODY", !.at = @ + data.length]
        /\ req' = [req EXCEPT !.of = q, !.remaining = s.body]
        /\ Walk(IF s.body = 0 THEN a ELSE a + 1, "e") /\ Accept
    BY <1>1, <1>4, <1>5, <1>7 DEF CbHeadersComplete
  <2>2. data.at + data.length = z
    <3>1. a > z
      BY <1>1
    <3>2. Colon(s, k) + (z - Colon(s, k)) = z
      BY SMTT(40), <1>2
    <3> QED BY <1>1, <3>1, <3>2
  <2>3. /\ data' \in Data /\ data'.error = data.error /\ data'.paused = data.paused
        /\ data'.pre = data.pre /\ data'.status = "BODY" /\ data'.at = z /\ data'.at <= Scratch
    BY <1>1, <1>3, <2>1, <2>2 DEF Data, Seven
  <2>4. s.body \in Nat
    BY <1>1, ShapeAssumption DEF Shape
  <2>5. req' = [of |-> q, hdrs |-> k, remaining |-> s.body] /\ req' \in [of : Nat, hdrs : Nat, remaining : Nat]
    BY <1>1, <2>1, <2>4
  <2> PICK to \in Nat : to = IF s.body = 0 THEN a ELSE a + 1
    OBVIOUS
  <2>6. parser' = [at |-> to, prev |-> "e"] /\ At' = to /\ UNCHANGED <<pending, unread, offset, pc, answers>>
    BY <2>1 DEF Walk, At, Accept, input
  <2>7. /\ to \in At..Len(scratch) /\ to \in 0..Len(scratch)
        /\ to = (IF s.body = 0 THEN L - 1 ELSE L)
    BY SMTT(40), <1>1, <1>3
  <2>8. /\ scratch' \in Seq(Byte) /\ Len(scratch') = Len(scratch)
        /\ \A i \in to + 1..Len(scratch) : scratch'[i] = scratch[i]
    <3>1. scratch' = Terminated /\ scratch \in Seq(Byte) /\ data.at + data.length = z /\ z + 1 <= Len(scratch)
      BY <1>1, <2>1, <2>2
    <3>2. /\ scratch' \in Seq(Byte) /\ Len(scratch') = n
          /\ \A i \in 1..n : i # z + 1 => scratch'[i] = scratch[i]
      BY <3>1, TerminatedIs
    <3>3. \A i \in to + 1..n : i \in 1..n /\ i # z + 1
      BY SMTT(40), <1>1
    <3>4. \A i \in to + 1..n : scratch'[i] = scratch[i]
      BY <3>2, <3>3
    <3> QED BY <3>2, <3>4
  <2>9. Reading(b)'
    <3>1. At \in 0..Len(scratch) /\ At' \in At..Len(scratch) /\ Len(scratch) \in Nat /\ offset \in Nat
      <4>1. offset \in Nat
        BY <1>1 DEF Buffers
      <4> QED BY <1>1, <2>6, <2>7, <4>1
    <3>2. \A i \in At' + 1..Len(scratch) : scratch'[i] = scratch[i]
      BY <2>6, <2>8
    <3>3. UNCHANGED <<requests, pending, unread, offset, pc>> /\ Len(scratch') = Len(scratch)
      BY <2>6, <2>8
    <3> HIDE DEF n
    <3> QED BY <2>3, <3>1, <3>2, <3>3, ReadingWalk
  <2>10. Kept(q, L, L)'
    <3>1. Passed(q, a, L, L)
      <4>1. \A i \in a + 1..L : i = L
        BY <1>3
      <4>2. "e" # "l" /\ HeaderText(requests[q])[L] = "e"
        BY <1>2
      <4> QED BY <1>4, <4>1, <4>2 DEF Passed
    <3>2. \A i \in h + 1..a : HeaderText(requests[q])[i] = "l" => i = z + 1 \/ i > L
      <4>1. \A i \in h + 1..z + 2 : T[i] = "l" => i = z + 1
        BY <1>1, OneCR
      <4>2. \A i \in h + 1..a : i \in h + 1..z + 2 \/ i = z + 3
        BY <1>1
      <4>3. T[z + 3] # "l"
        BY <1>2
      <4> SUFFICES ASSUME NEW i \in h + 1..a, T[i] = "l" PROVE i = z + 1
        OBVIOUS
      <4>4. T[i] = "l" /\ i \in h + 1..a
        OBVIOUS
      <4>5. i = z + 1
        <5>1. CASE i = z + 3
          BY <4>3, <4>4, <5>1
        <5>2. CASE i \in h + 1..z + 2
          BY <4>1, <4>4, <5>2
        <5> QED BY <4>2, <5>1, <5>2
      <4> QED BY <4>5
    <3>3. z + 1 <= a /\ a <= L /\ L <= Len(scratch) /\ z + 1 <= L
      <4>1. L <= Len(scratch) /\ a = z + 3 /\ a + 1 = L
        BY <1>1, <1>3
      <4>2. z + 1 <= a /\ a <= L /\ z + 1 <= L
        BY SMTT(40), <4>1
      <4> QED BY <4>1, <4>2
    <3>4. /\ scratch \in Seq(Byte) /\ Kept(q, a, h) /\ h <= z /\ HeaderText(requests[q])[z + 1] = "l"
          /\ scratch' = Terminated /\ data.at + data.length = z
      BY <1>1, <1>2, <2>1, <2>2
    <3> HIDE DEF T, n
    <3> QED BY <3>1, <3>2, <3>3, <3>4, KeptTerminated
  <2>11. Buffers'
    <3>1. Byte' = Byte
      BY DEF Byte
    <3>2. parser' \in [at : 0..Len(scratch), prev : AllKinds \cup {"start"}]
      BY <2>6, <2>7 DEF AllKinds, TextKinds
    <3>3. /\ unread' \in Seq(Byte) /\ pending' \in Seq(Byte) /\ Len(pending') <= Block
          /\ offset' \in 0..Len(scratch) /\ answers' \in Seq(Statuses) /\ pc' \in Phases
      BY <1>1, <2>6 DEF Buffers
    <3>4. Len(scratch') <= Scratch /\ Len(scratch') = Len(scratch)
      BY <1>1, <2>8
    <3>5. data'.status = "BODY"
      BY <2>3
    <3> HIDE DEF n
    <3> QED BY <2>3, <2>5, <2>8, <3>1, <3>2, <3>3, <3>4, <3>5 DEF Buffers
  <2>12. AnsweredInOrder' /\ (InStep' <=> InStep) /\ Asked'
    BY <2>6, Unanswered DEF SessionInv, Asked
  <2>13. InBody(q)'
    <3>1. Reading(TextFrom(q))'
      BY <2>9, StreamStays
    <3>2. Kept(q, Len(HeaderText(requests[q])), Len(HeaderText(requests[q])))'
      BY <2>10 DEF Kept
    <3>3. /\ LinePassed(requests[q]) /\ ~requests[q].upgrade /\ pc' = "execute"
      BY <1>1, <1>7, <2>6
    <3>4. At' = (IF requests[q].body = 0 THEN L - 1 ELSE L) /\ parser'.prev = "e"
      BY <2>6, <2>7
    <3>5. data'.status = "BODY" /\ data'.at = L - 4
      BY <1>3, <2>3
    <3>6. req' = [of |-> q, hdrs |-> Len(requests[q].headers), remaining |-> requests[q].body]
      BY <2>5
    <3> HIDE DEF s, T
    <3>7. L = Len(HeaderText(requests[q]))
      BY DEF s, T
    <3> QED BY <3>1, <3>2, <3>3, <3>4, <3>5, <3>6, <3>7 DEF InBody
  <2>14. InRequest(q)'
    BY <2>13 DEF InRequest
  <2> QED BY <2>6, <2>11, <2>12, <2>14, StillIn
<1> QED BY <1>6, <1>7

LEMMA InValueStep ==
  ASSUME SessionInv, UNCHANGED requests, NEW q \in 1..Len(requests), Turn(q),
         NEW k \in 1..Len(requests[q].headers), InValue(q, k), pc = "execute", Server
  PROVE  SessionInv'
<1>1. /\ Colon(requests[q], k) \in Nat /\ Stop(requests[q], k) \in Nat
  BY ValueFacts, HeaderLine
<1>2. /\ At \in Nat /\ At <= Len(scratch) /\ Len(scratch) \in Nat
      /\ At \in Colon(requests[q], k) + 1
                  ..Stop(requests[q], k) + (IF k = Len(requests[q].headers) THEN 3 ELSE 2)
  BY ValueFacts
<1>3. CASE At = Len(scratch)
  BY <1>3, ValueParsed
<1>4. CASE At < Len(scratch) /\ k = Len(requests[q].headers)
  <2>1. At \in Colon(requests[q], k) + 1..Stop(requests[q], k) + 3
    BY <1>2, <1>4
  <2>2. \/ At < Stop(requests[q], k)
        \/ At \in Stop(requests[q], k)..Stop(requests[q], k) + 1
        \/ At = Stop(requests[q], k) + 2
        \/ At = Stop(requests[q], k) + 3
    <3> HIDE DEF At
    <3> QED BY SMTT(40), <1>1, <1>2, <2>1
  <2> QED BY <1>4, <2>2, ValueMore, ValueSilent, ValueComplete
<1>5. CASE At < Len(scratch) /\ k # Len(requests[q].headers)
  <2>1. At \in Colon(requests[q], k) + 1..Stop(requests[q], k) + 2
    BY <1>2, <1>5
  <2>2. \/ At < Stop(requests[q], k)
        \/ At \in Stop(requests[q], k)..Stop(requests[q], k) + 1
        \/ At = Stop(requests[q], k) + 2
    <3> HIDE DEF At
    <3> QED BY <1>1, <1>2, <2>1
  <2> QED BY <1>5, <2>2, ValueMore, ValueSilent, ValueNext DEF AfterLine
<1> QED BY <1>2, <1>3, <1>4, <1>5

-----------------------------------------------------------------------------
(* The body.                                                                *)

LEMMA BodyFacts ==
  ASSUME SessionInv, NEW q \in 1..Len(requests), InBody(q)
  PROVE  LET s == requests[q]
             L == Len(HeaderText(s))
         IN  /\ Reading(TextFrom(q)) /\ LinePassed(s) /\ Buffers /\ Asked /\ s \in Shapes /\ ~s.upgrade
             /\ Len(scratch) \in Nat /\ Len(scratch) <= Scratch /\ scratch \in Seq(Byte)
             /\ L \in Nat /\ L >= 4 /\ L <= Len(scratch) /\ scratch[L] = [of |-> q, kind |-> "e"]
             /\ At = (IF s.body = 0 THEN L - 1 ELSE L) /\ At \in Nat /\ At <= Len(scratch)
             /\ parser.prev = "e" /\ data.status = "BODY" /\ data.at = L - 4 /\ s.body \in Nat
             /\ req = [of |-> q, hdrs |-> Len(s.headers), remaining |-> s.body]
             /\ Kept(q, L, L) /\ TextFrom(q) \in Nat /\ TextFrom(q) + L + s.body = Start[q + 1]
             /\ Start[q + 1] \in Nat
<1> DEFINE s == requests[q]
           T == HeaderText(s)
           L == Len(T)
<1>1. Reading(TextFrom(q))
  BY DEF InBody
<1>2. /\ Buffers /\ Asked /\ s \in Shapes
      /\ Len(scratch) \in Nat /\ At \in Nat /\ At <= Len(scratch) /\ Len(scratch) <= Scratch
      /\ scratch \in Seq(Byte) /\ TextFrom(q) \in Nat /\ L \in Nat /\ s.body \in Nat
  BY <1>1, TextFacts
<1>3. L >= 4 /\ T[L] = "e"
  <2>1. 1 \in 1..Len(s.headers)
    BY <1>2, FirstByte
  <2>2. Stop(s, 1) \in Nat /\ Stop(s, 1) + 4 <= L
    BY <1>2, <2>1, HeaderLine
  <2>3. T[L] = "e"
    BY <1>2, TextIs
  <2>4. L >= 4
    BY <1>2, <2>2
  <2> QED BY <2>3, <2>4
<1>4. Kept(q, L, L)
  BY DEF InBody
<1>5. L <= Len(scratch) /\ scratch[L] = [of |-> q, kind |-> "e"]
  <2>1. L \in 1..L
    BY <1>2, <1>3
  <2>2. scratch[L] = [of |-> q, kind |-> IF T[L] = "l" /\ L <= L THEN "NUL" ELSE T[L]]
    BY <1>4, <2>1 DEF Kept
  <2>3. L <= Len(scratch)
    BY <1>4 DEF Kept
  <2> QED BY <1>3, <2>2, <2>3
<1>6. TextFrom(q) + L + s.body = Start[q + 1] /\ Start[q + 1] \in Nat
  BY <1>2, StreamIs
<1> QED BY <1>1, <1>2, <1>3, <1>4, <1>5, <1>6 DEF InBody

\* The headers and the first byte of a body fit in scratch.
LEMMA MayServe ==
  ASSUME NEW s \in Shapes, LinePassed(s), ~s.upgrade, Len(HeaderText(s)) <= Scratch,
         s.body > 0 => Len(HeaderText(s)) < Scratch
  PROVE  Expected(s) = {"200", "404", "405"}
<1>1. ~(s.url > MaxUri) /\ ~(Len(RequestLine(s)) >= Scratch) /\ UrlError(s) = "none"
  BY LineFits
<1>2. ~(Len(HeaderText(s)) > Scratch) /\ ~(Len(HeaderText(s)) = Scratch /\ s.body > 0)
  <2>1. Len(HeaderText(s)) \in Nat
    BY TextIs
  <2> QED BY <2>1, RequestAssumption
<1> QED BY <1>1, <1>2 DEF Expected

LEMMA BodyComplete ==
  ASSUME SessionInv, UNCHANGED requests, NEW q \in 1..Len(requests), Turn(q), InBody(q),
         pc = "execute", NEW L \in Nat, L = Len(HeaderText(requests[q])), Complete(L),
         requests[q].body > 0 => L < Len(scratch)
  PROVE  SessionInv'
<1> DEFINE s == requests[q]
           n == Len(scratch)
<1> PICK b \in Nat : b = TextFrom(q)
  BY BodyFacts
<1>1. /\ Reading(b) /\ LinePassed(s) /\ Buffers /\ Asked /\ s \in Shapes /\ ~s.upgrade
      /\ n \in Nat /\ n <= Scratch /\ L <= n
      /\ At = (IF s.body = 0 THEN L - 1 ELSE L) /\ At \in Nat /\ s.body \in Nat
      /\ req = [of |-> q, hdrs |-> Len(s.headers), remaining |-> s.body]
      /\ Kept(q, L, L) /\ b + L + s.body = Start[q + 1] /\ Start[q + 1] \in Nat
  BY BodyFacts
<1>2. L \in At..n
  <2>1. At <= L
    BY SMTT(40), <1>1
  <2> HIDE DEF n
  <2> QED BY <1>1, <2>1
<1>3. /\ PutBack(L) /\ pc' = "lookup"
      /\ data' = [data EXCEPT !.status = "COMPLETE", !.at = 0, !.length = 0, !.paused = TRUE]
      /\ UNCHANGED <<scratch, offset, parser, req, answers>>
  BY DEF Complete
<1>4. From(b + L)' /\ pending' \in Seq(Byte) /\ unread' = unread /\ Len(pending') <= Block
  BY <1>1, <1>2, <1>3, PutBackFrom
<1>5. Expected(s) = {"200", "404", "405"}
  <2>1. L <= Scratch /\ (s.body > 0 => L < Scratch)
    <3>1. s.body > 0 => L < n
      OBVIOUS
    <3>2. L <= n /\ n <= Scratch /\ n \in Nat /\ Scratch \in Nat
      BY <1>1, RequestAssumption
    <3> HIDE DEF n, s
    <3> QED BY <3>1, <3>2
  <2> QED BY <1>1, <2>1, MayServe
<1>6. Serve(q)'
  <2>1. Start' = Start
    BY StreamStays
  <2>2. From(Start[q + 1] - req.remaining)'
    <3>1. Start[q + 1] - req.remaining = b + L
      <4>1. req.remaining = s.body
        BY <1>1
      <4> HIDE DEF s, n
      <4> QED BY <1>1, <4>1
    <3>2. Start'[q + 1] - req'.remaining = b + L
      BY <1>3, <2>1, <3>1
    <3> QED BY <1>4, <3>2 DEF From
  <2>3. Kept(q, Len(HeaderText(requests[q])), Len(HeaderText(requests[q])))'
    BY <1>1, <1>3 DEF Kept
  <2>4. Expected(requests[q])' = {"200", "404", "405"}
    BY <1>5 DEF Expected, UrlError
  <2>5. req'.of = q /\ req'.hdrs = Len(requests[q].headers) /\ req'.remaining <= requests[q].body
    <3>1. req' = req /\ s.body <= s.body
      BY <1>1, <1>3
    <3> QED BY <1>1, <3>1
  <2> QED BY <1>3, <2>2, <2>3, <2>4, <2>5 DEF Serve
<1>7. Buffers'
  <2>1. Byte' = Byte
    BY DEF Byte
  <2>2. data' \in Data
    <3>1. data \in Data
      BY <1>1 DEF Buffers
    <3> QED BY <1>3, <3>1 DEF Data, Seven
  <2>3. data'.at <= Scratch /\ data'.at + data'.length <= Scratch
    <3>1. data'.at = 0 /\ data'.length = 0
      <4>1. data \in Data
        BY <1>1 DEF Buffers
      <4> QED BY <1>3, <4>1 DEF Data
    <3>2. Scratch \in Nat
      BY RequestAssumption
    <3> QED BY <3>1, <3>2
  <2> QED BY <1>1, <1>3, <1>4, <2>1, <2>2, <2>3 DEF Buffers, Phases
<1>8. AnsweredInOrder' /\ (InStep' <=> InStep) /\ Asked'
  BY <1>3, Unanswered DEF SessionInv, Asked
<1>9. InRequest(q)'
  BY <1>6 DEF InRequest
<1> QED BY <1>3, <1>7, <1>8, <1>9, StillIn

LEMMA InBodyStep ==
  ASSUME SessionInv, UNCHANGED requests, NEW q \in 1..Len(requests), Turn(q), InBody(q),
         pc = "execute", Server
  PROVE  SessionInv'
<1> DEFINE s == requests[q]
           n == Len(scratch)
<1> PICK L \in Nat : L = Len(HeaderText(s))
  BY BodyFacts
<1>1. /\ Reading(TextFrom(q)) /\ n \in Nat /\ L >= 4 /\ L <= n /\ scratch[L] = [of |-> q, kind |-> "e"]
      /\ At = (IF s.body = 0 THEN L - 1 ELSE L) /\ At <= n
      /\ parser.prev = "e" /\ data.status = "BODY" /\ data.at = L - 4 /\ s.body \in Nat
  BY BodyFacts
<1>2. CASE s.body = 0
  <2>1. At + 1 = L /\ At # Len(scratch)
    <3>1. At = L - 1
      BY <1>1, <1>2
    <3>2. L <= n /\ n \in Nat
      BY <1>1
    <3> HIDE DEF n, At
    <3>3. At + 1 = L /\ At # n
      BY <3>1, <3>2
    <3> QED BY <3>3 DEF n
  <2>2. Now = "e"
    BY <1>1, <2>1 DEF Now
  <2>3. CbHeadersComplete \/ CbNoBody
    BY <1>1, <2>1, <2>2, Accepted
  <2>4. ~CbHeadersComplete
    BY <1>1, <2>2 DEF CbHeadersComplete, Execute, Takes
  <2>5. MessageEnd = L
    BY <1>1 DEF MessageEnd
  <2>6. Complete(L)
    BY <2>3, <2>4, <2>5 DEF CbNoBody
  <2>7. ~(s.body > 0)
    BY <1>2
  <2> QED BY <2>6, <2>7, BodyComplete
<1>3. CASE s.body # 0 /\ n = L
  <2>1. At = Len(scratch)
    BY <1>1, <1>3
  <2>2. /\ Reading(TextFrom(q))' /\ Buffers' /\ Asked' /\ AnsweredInOrder' /\ pc' = "read"
        /\ UNCHANGED <<scratch, data, parser, req, answers>> /\ (InStep' <=> InStep)
    BY <1>1, <2>1, TextParsed
  <2>3. At' = At
    BY <2>2 DEF At
  <2>4. InBody(q)'
    BY <1>3, <2>2, <2>3 DEF InBody, Kept
  <2>5. InRequest(q)'
    BY <2>4 DEF InRequest
  <2> QED BY <2>2, <2>5, StillIn
<1>4. CASE s.body # 0 /\ n # L
  <2>1. At = L /\ L < n /\ At # Len(scratch) /\ L + 1 \in At + 1..Len(scratch) /\ L + 1 - L \in 1..s.body
    <3>1. At = L
      BY <1>1, <1>4
    <3>2. L < n /\ L + 1 \in L + 1..n
      <4> HIDE DEF n
      <4> QED BY <1>1, <1>4
    <3>3. L + 1 - L \in 1..s.body
      BY <1>1, <1>4
    <3> QED BY <3>1, <3>2, <3>3
  <2>2. scratch[L + 1] = [of |-> q, kind |-> "d"]
    <3>1. PICK i \in Nat : i = L + 1
      OBVIOUS
    <3>2. i \in At + 1..Len(scratch) /\ i - L \in 1..s.body
      BY <2>1, <3>1
    <3> HIDE DEF s
    <3> QED BY <1>1, <3>1, <3>2, TextFacts DEF s
  <2>3. Now = "d"
    BY <2>1, <2>2 DEF Now
  <2>4. CbOnBody
    <3>1. Takes(parser.prev, Now)
      BY <1>1, <2>3 DEF Takes
    <3> QED BY <2>1, <2>3, <3>1, Accepted
  <2>5. Complete(L)
    BY <2>1, <2>4 DEF CbOnBody
  <2> QED BY <2>1, <2>5, BodyComplete
<1> QED BY <1>2, <1>3, <1>4

-----------------------------------------------------------------------------
(* A block is read.                                                         *)

LEMMA RoomIs ==
  ASSUME Buffers
  PROVE  /\ Room = IF Block <= Scratch - offset THEN Block ELSE Scratch - offset
         /\ Room \in Nat /\ Room <= Block /\ offset + Room <= Scratch
         /\ (offset = 0 => Room = Block /\ Room > 0) /\ (Room = 0 => offset = Scratch)
<1>1. offset \in Nat /\ offset <= Scratch /\ Block \in Nat /\ Scratch \in Nat /\ Block >= 1 /\ Block <= Scratch
  <2>1. Len(scratch) \in Nat /\ offset \in 0..Len(scratch) /\ Len(scratch) <= Scratch
    BY LenProperties DEF Buffers
  <2>2. Block \in 1..Scratch /\ Scratch \in Nat /\ Block \in Nat
    BY RequestAssumption
  <2> QED BY <2>1, <2>2
<1>2. Room = IF Block <= Scratch - offset THEN Block ELSE Scratch - offset
  BY <1>1, MinOfTwo DEF Room
<1> QED BY <1>1, <1>2

\* A block of k bytes of x, the bytes put back or those of the socket.
LEMMA BlockRead ==
  ASSUME SessionInv, UNCHANGED requests, pc = "read", NEW x \in Seq(Byte), NEW b \in Nat, From(b),
         NEW k \in 0..Len(x), k <= Room, Parse(SubSeq(x, 1, k)), NEW y, y = SubSeq(x, k + 1, Len(x)),
         \/ x = pending /\ pending' = y /\ UNCHANGED unread
         \/ x = unread /\ unread' = y /\ UNCHANGED pending /\ pending = <<>>
  PROVE  /\ From(b + k)' /\ unread' \in Seq(Byte) /\ pending' \in Seq(Byte) /\ Len(pending') <= Block
         /\ scratch' = SubSeq(scratch, 1, offset) \o SubSeq(x, 1, k) /\ scratch' \in Seq(Byte)
         /\ Len(scratch') = offset + k /\ Len(scratch') <= Scratch
         /\ \A i \in 1..offset : scratch'[i] = scratch[i]
         /\ \A i \in offset + 1..Len(scratch') :
              b + (i - offset) \in 1..Len(Stream) /\ scratch'[i] = Stream[b + (i - offset)]
         /\ UNCHANGED <<offset, req, answers>> /\ pc' = "execute"
         /\ AnsweredInOrder' /\ (InStep' <=> InStep) /\ Asked'
<1>1. /\ Buffers /\ Asked /\ offset \in Nat /\ Len(scratch) \in Nat /\ offset <= Len(scratch)
      /\ unread \in Seq(Byte) /\ pending \in Seq(Byte) /\ Len(pending) \in Nat /\ scratch \in Seq(Byte)
  BY LenProperties DEF SessionInv, Buffers
<1>2. /\ scratch' = SubSeq(scratch, 1, offset) \o SubSeq(x, 1, k)
      /\ UNCHANGED <<offset, req, answers>> /\ pc' = "execute"
  BY DEF Parse
<1>3. AnsweredInOrder' /\ (InStep' <=> InStep) /\ Asked'
  BY <1>2, Unanswered DEF SessionInv, Asked
<1>4. Agrees(x, b)
  <2>1. CASE x = pending
    BY <2>1 DEF From
  <2>2. CASE x = unread /\ pending = <<>>
    <3>1. b + Len(pending) = b
      BY <2>2
    <3> QED BY <2>2, <3>1 DEF From
  <2> QED BY <2>1, <2>2
<1>5. /\ Agrees(SubSeq(x, 1, k), b) /\ Agrees(y, b + k)
      /\ SubSeq(x, 1, k) \in Seq(Byte) /\ y \in Seq(Byte)
      /\ Len(SubSeq(x, 1, k)) = k /\ Len(y) = Len(x) - k
  BY <1>4, AgreesParts
<1>6. Len(x) \in Nat /\ k \in Nat /\ k <= Len(x)
  BY LenProperties
<1>7. /\ unread' \in Seq(Byte) /\ pending' \in Seq(Byte) /\ Len(pending') <= Block
  <2>1. CASE x = pending /\ pending' = y /\ UNCHANGED unread
    <3>1. Len(pending) <= Block /\ Block \in Nat
      BY <1>1, RequestAssumption DEF Buffers
    <3>2. Len(y) <= Len(pending)
      BY <1>5, <1>6, <2>1
    <3>3. Len(y) \in Nat
      BY <1>5, LenProperties
    <3> QED BY <1>1, <1>5, <2>1, <3>1, <3>2, <3>3
  <2>2. CASE x = unread /\ unread' = y /\ UNCHANGED pending
    BY <1>1, <1>5, <2>2 DEF Buffers
  <2> QED BY <2>1, <2>2
<1>8. From(b + k)'
  <2>1. Stream' = Stream
    BY StreamStays
  <2>2. CASE x = pending /\ pending' = y /\ UNCHANGED unread
    <3>1. b + k + Len(y) = b + Len(pending)
      <4>1. b + k + Len(y) = b + Len(x)
        <5>1. Len(y) = Len(x) - k /\ k \in Nat /\ Len(x) \in Nat /\ b \in Nat
          BY <1>5, <1>6
        <5> QED BY ONLY <5>1
      <4> QED BY <2>2, <4>1
    <3>2. Agrees(unread, b + k + Len(y))
      BY <3>1 DEF From
    <3> QED BY ZenonT(60), <1>5, <2>1, <2>2, <3>2 DEF From, Agrees
  <2>3. CASE x = unread /\ unread' = y /\ UNCHANGED pending /\ pending = <<>>
    <3>1. Len(<<>>) = 0 /\ b + k + 0 = b + k
      BY <1>6
    <3>2. Agrees(y, b + k + Len(pending))
      BY <1>5, <2>3, <3>1
    <3>3. Agrees(pending, b + k)
      BY <2>3 DEF Agrees
    <3> QED BY <2>1, <2>3, <3>2, <3>3 DEF From, Agrees
  <2> QED BY <2>2, <2>3
<1>9. /\ scratch' \in Seq(Byte) /\ Len(scratch') = offset + k
      /\ \A i \in 1..offset : scratch'[i] = scratch[i]
      /\ \A i \in 1..k : scratch'[offset + i] = SubSeq(x, 1, k)[i]
  <2> DEFINE o == SubSeq(scratch, 1, offset)
             c == SubSeq(x, 1, k)
  <2>1. o \in Seq(Byte) /\ Len(o) = offset /\ \A i \in 1..offset : o[i] = scratch[i]
    <3>1. 1 \in Int /\ offset \in Int /\ \A i \in 1..offset : scratch[i] \in Byte
      <4>1. \A i \in 1..offset : i \in 1..Len(scratch)
        BY <1>1
      <4> QED BY <1>1, <4>1, ElementOfSeq
    <3>2. /\ o \in Seq(Byte) /\ Len(o) = IF 1 <= offset THEN offset - 1 + 1 ELSE 0
          /\ \A i \in 1..offset - 1 + 1 : o[i] = scratch[1 + i - 1]
      BY <3>1, SubSeqProperties
    <3>3. Len(o) = offset
      BY <1>1, <3>2
    <3>4. \A i \in 1..offset : i \in 1..offset - 1 + 1 /\ 1 + i - 1 = i
      BY <1>1
    <3> QED BY <3>2, <3>3, <3>4
  <2>2. c \in Seq(Byte) /\ Len(c) = k
    BY <1>5
  <2> HIDE DEF o, c
  <2>3. /\ o \o c \in Seq(Byte) /\ Len(o \o c) = offset + k
        /\ \A i \in 1..offset : (o \o c)[i] = o[i]
        /\ \A i \in 1..k : (o \o c)[offset + i] = c[i]
    <3>1. /\ o \o c \in Seq(Byte) /\ Len(o \o c) = Len(o) + Len(c)
          /\ \A i \in 1..Len(o) : (o \o c)[i] = o[i]
          /\ \A i \in 1..Len(c) : (o \o c)[Len(o) + i] = c[i]
      <4>1. o \in Seq(Byte) /\ c \in Seq(Byte)
        BY <2>1, <2>2
      <4> QED BY ONLY <4>1, Joined
    <3>2. Len(o) = offset /\ Len(c) = k
      BY <2>1, <2>2
    <3> QED BY ONLY <3>1, <3>2
  <2> QED BY <1>2, <2>1, <2>3 DEF o, c
<1>10. Len(scratch') <= Scratch
  <2>1. offset + Room <= Scratch /\ Room \in Nat /\ Scratch \in Nat
    BY <1>1, RoomIs, RequestAssumption
  <2> HIDE DEF Room
  <2> QED BY <1>1, <1>6, <1>9, <2>1
<1>11. ASSUME NEW i \in offset + 1..Len(scratch')
       PROVE  b + (i - offset) \in 1..Len(Stream) /\ scratch'[i] = Stream[b + (i - offset)]
  <2>1. PICK j \in Nat : j = i - offset /\ j \in 1..k /\ offset + j = i
    BY <1>1, <1>6, <1>9
  <2>2. scratch'[i] = SubSeq(x, 1, k)[j]
    BY <1>9, <2>1
  <2>3. b + j \in 1..Len(Stream) /\ SubSeq(x, 1, k)[j] = Stream[b + j]
    BY <1>5, <2>1 DEF Agrees
  <2> QED BY <2>1, <2>2, <2>3
<1> QED BY <1>2, <1>3, <1>7, <1>8, <1>9, <1>10, <1>11

\* The block that is read: the next k bytes after the first b.
BlockOf(b, k) ==
  /\ k \in Nat /\ k > 0 /\ (pending # <<>> => k = Len(pending)) /\ From(b + k)' /\ pending' = <<>>
  /\ unread' \in Seq(Byte) /\ scratch' \in Seq(Byte)
  /\ Len(scratch') = offset + k /\ Len(scratch') <= Scratch /\ k <= Block
  /\ \A i \in 1..offset : scratch'[i] = scratch[i]
  /\ \A i \in offset + 1..Len(scratch') :
       b + (i - offset) \in 1..Len(Stream) /\ scratch'[i] = Stream[b + (i - offset)]
  /\ data' = [data EXCEPT !.paused = FALSE, !.pre = @ - Skipped(k)]
  /\ parser' = [parser EXCEPT !.at = offset + Skipped(k)]
  /\ UNCHANGED <<offset, req, answers>> /\ pc' = "execute"
  /\ AnsweredInOrder' /\ (InStep' <=> InStep) /\ Asked'

LEMMA ReadTakes ==
  ASSUME SessionInv, UNCHANGED requests, pc = "read", NEW b \in Nat, From(b),
         pending = <<>> \/ offset = 0, ReadPending \/ ReadSocket
  PROVE  \E k : BlockOf(b, k)
<1>1. /\ Buffers /\ unread \in Seq(Byte) /\ pending \in Seq(Byte) /\ Len(pending) \in Nat
      /\ Len(unread) \in Nat /\ Len(pending) <= Block /\ Block \in Nat
  BY LenProperties, RequestAssumption DEF SessionInv, Buffers
<1>2. Room \in Nat /\ Room <= Block /\ (offset = 0 => Room = Block)
  BY <1>1, RoomIs
<1>3. \A x \in Seq(Byte) : x # <<>> => Len(x) \in Nat /\ Len(x) > 0
  BY EmptySeq, LenProperties
<1> PICK room \in Nat : room = Room
  BY <1>2
<1>4. CASE ReadPending
  <2>1. pending # <<>> /\ room > 0 /\ Len(pending) > 0
    BY <1>1, <1>3, <1>4 DEF ReadPending
  <2>2. offset = 0 /\ room = Block
    BY <1>2, <2>1
  <2>3. PICK k \in Nat : k = Len(pending)
    BY <1>1
  <2>4. Min({room, Len(pending)}) = k
    <3>1. Min({room, k}) = IF room <= k THEN room ELSE k
      BY MinOfTwo
    <3> QED BY <1>1, <2>2, <2>3, <3>1
  <2>5. /\ Parse(SubSeq(pending, 1, k)) /\ pending' = SubSeq(pending, k + 1, Len(pending))
        /\ unread' = unread
    BY <1>4, <2>4 DEF ReadPending
  <2>6. PICK x \in Seq(Byte) : x = pending
    BY <1>1
  <2>7. PICK y : y = SubSeq(x, k + 1, Len(x))
    OBVIOUS
  <2>8. Len(SubSeq(x, 1, k)) = k /\ pending' = <<>>
    <3>1. k \in 0..Len(x) /\ Agrees(x, b)
      BY <2>3, <2>6 DEF From
    <3>2. Len(SubSeq(x, 1, k)) = k /\ y \in Seq(Byte) /\ Len(y) = 0
      BY <2>3, <2>6, <2>7, <3>1, AgreesParts
    <3> QED BY <2>5, <2>6, <2>7, <3>2, EmptySeq
  <2>9. /\ data' = [data EXCEPT !.paused = FALSE, !.pre = @ - Skipped(k)]
        /\ parser' = [parser EXCEPT !.at = offset + Skipped(k)]
    BY <2>5, <2>6, <2>8 DEF Parse
  <2>10. k <= Room /\ k \in 0..Len(x) /\ k <= Block /\ k > 0
    BY <1>1, <2>1, <2>2, <2>3, <2>6
  <2>11. Parse(SubSeq(x, 1, k)) /\ pending' = y
    BY <2>5, <2>6, <2>7
  <2>12. BlockOf(b, k)
    BY <2>3, <2>5, <2>6, <2>7, <2>8, <2>9, <2>10, <2>11, BlockRead DEF BlockOf
  <2> QED BY <2>12
<1>5. CASE ReadSocket
  <2>1. pending = <<>> /\ unread # <<>> /\ room > 0 /\ Len(unread) > 0
    BY <1>1, <1>3, <1>5 DEF ReadSocket
  <2>2. PICK k \in 1..Min({Room, Len(unread)}) :
          Parse(SubSeq(unread, 1, k)) /\ unread' = SubSeq(unread, k + 1, Len(unread))
    BY <1>5 DEF ReadSocket
  <2>3. k \in Nat /\ k > 0 /\ k <= room /\ k <= Len(unread)
    <3>1. Min({room, Len(unread)}) = IF room <= Len(unread) THEN room ELSE Len(unread)
      BY <1>1, MinOfTwo
    <3> QED BY <1>1, <2>2, <3>1
  <2>4. PICK x \in Seq(Byte) : x = unread
    BY <1>1
  <2>5. PICK y : y = SubSeq(x, k + 1, Len(x))
    OBVIOUS
  <2>6. k <= Room /\ k \in 0..Len(x) /\ k <= Block
    <3>1. room <= Block
      BY <1>2
    <3> QED BY <1>1, <2>3, <2>4, <3>1
  <2>7. Len(SubSeq(x, 1, k)) = k
    <3>1. 1 \in Int /\ k \in Int /\ \A i \in 1..k : x[i] \in Byte
      <4>1. \A i \in 1..k : i \in 1..Len(x)
        BY <1>1, <2>3, <2>4
      <4> QED BY <2>3, <4>1, ElementOfSeq
    <3>2. Len(SubSeq(x, 1, k)) = IF 1 <= k THEN k - 1 + 1 ELSE 0
      BY <3>1, SubSeqProperties
    <3> QED BY <2>3, <3>2
  <2>8. /\ data' = [data EXCEPT !.paused = FALSE, !.pre = @ - Skipped(k)]
        /\ parser' = [parser EXCEPT !.at = offset + Skipped(k)]
    BY <2>2, <2>4, <2>7 DEF Parse
  <2>9. Parse(SubSeq(x, 1, k)) /\ unread' = y /\ UNCHANGED pending
    BY <1>5, <2>2, <2>4, <2>5 DEF ReadSocket
  <2>10. BlockOf(b, k)
    BY <2>1, <2>3, <2>4, <2>5, <2>6, <2>8, <2>9, BlockRead DEF BlockOf
  <2> QED BY <2>10
<1> QED BY <1>4, <1>5

\* A block of a request that is being parsed.
LEMMA ReadMore ==
  ASSUME SessionInv, UNCHANGED requests, NEW b \in Nat, Reading(b), pc = "read",
         ReadPending \/ ReadSocket
  PROVE  /\ Reading(b)' /\ Buffers' /\ Asked' /\ AnsweredInOrder' /\ (InStep' <=> InStep)
         /\ UNCHANGED <<data, parser, req, answers>> /\ pc' = "execute"
         /\ At \in Nat /\ At = Len(scratch) /\ At <= Len(scratch') /\ \A i \in 1..At : scratch'[i] = scratch[i]
<1>1. /\ At = Len(scratch) /\ offset = Len(scratch) /\ From(b + Len(scratch))
      /\ ~data.paused /\ data.pre = 0 /\ data.error = "500" /\ (pending = <<>> \/ offset = 0)
  BY DEF Reading
<1>2. Len(scratch) \in Nat /\ b + Len(scratch) \in Nat /\ Buffers
  BY LenProperties DEF SessionInv, Buffers
<1>3. PICK a \in Nat : a = b + Len(scratch)
  BY <1>2
<1>4. PICK k : BlockOf(a, k)
  BY <1>1, <1>3, ReadTakes
<1>5. data' = data /\ parser' = parser
  <2>1. Skipped(k) = 0
    BY <1>1 DEF Skipped
  <2>2. data' = [data EXCEPT !.paused = FALSE, !.pre = @ - 0] /\ parser' = [parser EXCEPT !.at = offset + 0]
    BY <1>4, <2>1 DEF BlockOf
  <2>3. data \in Data /\ parser \in [at : 0..Len(scratch), prev : AllKinds \cup {"start"}]
    BY <1>2 DEF Buffers
  <2>4. data' = data
    <3>1. data.pre - 0 = data.pre /\ data.pre = 0
      BY <1>1
    <3>2. data.paused = FALSE
      BY <1>1, <2>3 DEF Data
    <3>3. data' = [data EXCEPT !.paused = FALSE, !.pre = 0]
      BY <2>2, <3>1
    <3> QED BY <2>3, <3>1, <3>2, <3>3 DEF Data
  <2>5. offset + 0 = parser.at
    BY <1>1, <1>2 DEF At
  <2>6. parser' = parser
    BY <2>2, <2>3, <2>5
  <2> QED BY <2>4, <2>6
<1>6. /\ Len(scratch') = Len(scratch) + k /\ k \in Nat /\ k <= Block /\ At <= Len(scratch')
      /\ Len(scratch') \in Nat
  <2>1. Len(scratch') = offset + k /\ k \in Nat /\ k <= Block
    BY <1>4 DEF BlockOf
  <2>2. PICK n \in Nat : n = Len(scratch)
    BY <1>2
  <2>3. n <= n + k /\ n + k \in Nat
    BY <2>1
  <2> QED BY <1>1, <2>1, <2>2, <2>3
<1>7. Reading(b)'
  <2>1. At' = At
    BY <1>5 DEF At
  <2>2. Stream' = Stream
    BY StreamStays
  <2>3. ASSUME NEW i \in At + 1..Len(scratch')
        PROVE  b + i \in 1..Len(Stream) /\ scratch'[i] = Stream[b + i]
    <3>1. i \in offset + 1..Len(scratch')
      BY <1>1
    <3>2. a + (i - offset) \in 1..Len(Stream) /\ scratch'[i] = Stream[a + (i - offset)]
      BY <1>4, <3>1 DEF BlockOf
    <3>3. a + (i - offset) = b + i
      <4>1. a = b + offset /\ offset \in Nat /\ b \in Nat /\ i \in Int
        BY <1>1, <1>2, <1>3, <1>6, <3>1
      <4> QED BY ONLY <4>1
    <3> QED BY <3>2, <3>3
  <2>4. From(b + Len(scratch))'
    <3>1. From(a + k)'
      BY <1>4 DEF BlockOf
    <3>2. a + k = b + Len(scratch')
      <4>1. a = b + Len(scratch) /\ Len(scratch) \in Nat /\ b \in Nat /\ k \in Nat /\ Len(scratch') = Len(scratch) + k
        BY <1>2, <1>3, <1>6
      <4> QED BY ONLY <4>1
    <3> QED BY <3>1, <3>2 DEF From
  <2>5. pc' = "execute" /\ offset' = offset /\ pending' = <<>>
    BY <1>4 DEF BlockOf
  <2>6. offset' <= At' /\ Len(scratch') <= offset' + Block
    <3>1. offset' = Len(scratch) /\ At' = Len(scratch)
      BY <1>1, <2>1, <2>5
    <3>2. Block \in Nat
      BY RequestAssumption
    <3> QED BY <1>2, <1>6, <3>1, <3>2
  <2> QED BY <1>1, <1>5, <2>1, <2>2, <2>3, <2>4, <2>5, <2>6 DEF Reading
<1>8. \A i \in 1..At : scratch'[i] = scratch[i]
  BY <1>1, <1>4 DEF BlockOf
<1>9. Buffers'
  <2>1. /\ unread' \in Seq(Byte) /\ pending' = <<>> /\ scratch' \in Seq(Byte)
        /\ Len(scratch') <= Scratch /\ UNCHANGED <<offset, req, answers>> /\ pc' = "execute"
    BY <1>4 DEF BlockOf
  <2>2. Byte' = Byte
    BY DEF Byte
  <2>3. pending' \in Seq(Byte) /\ Len(pending') <= Block
    <3>1. <<>> \in Seq(Byte) /\ Len(<<>>) = 0 /\ Block \in Nat
      BY RequestAssumption
    <3> QED BY <2>1, <3>1
  <2>4. offset' \in 0..Len(scratch')
    BY <1>1, <1>2, <1>6, <2>1
  <2>5. parser' \in [at : 0..Len(scratch'), prev : AllKinds \cup {"start"}]
    <3>1. parser.at \in 0..Len(scratch')
      BY <1>1, <1>2, <1>6 DEF At
    <3>2. parser \in [at : 0..Len(scratch), prev : AllKinds \cup {"start"}]
      BY <1>2 DEF Buffers
    <3> QED BY <1>5, <3>1, <3>2
  <2> QED BY <1>2, <1>5, <2>1, <2>2, <2>3, <2>4, <2>5 DEF Buffers, Phases
<1> QED BY <1>1, <1>2, <1>4, <1>5, <1>6, <1>7, <1>8, <1>9 DEF BlockOf

\* What the server may do when it reads.
LEMMA Reads ==
  ASSUME Server, pc = "read"
  PROVE  ReadPending \/ ReadSocket \/ ReadFails \/ TooBig
BY DEF Server, NewRequest, BlockParsed, Silent, BadSyntax, CbUrl, FirstField, CbHeaderField,
       CbHeaderValue, CbHeadersComplete, CbOnBody, CbNoBody, Lookup, HandlerRecv, HandlerReturns,
       ReqDelete, Execute

LEMMA ReadEnds ==
  ASSUME SessionInv, UNCHANGED requests, pc = "read", ReadFails
  PROVE  SessionInv'
<1>1. /\ Buffers /\ UNCHANGED <<unread, pending, scratch, offset, data, parser, req>>
      /\ answers \in Seq(Statuses) /\ AnsweredInOrder
  BY DEF SessionInv, Buffers, ReadFails, input, block
<1>2. pc' = "closed" /\ (answers' = Append(answers, "408") \/ answers' = answers)
  BY DEF ReadFails, Answer, Close
<1>3. AnsweredInOrder' /\ answers' \in Seq(Statuses)
  <2>1. CASE answers' = Append(answers, "408")
    <3>1. "408" \in Statuses
      BY DEF Statuses
    <3> QED BY <1>1, <1>2, <2>1, <3>1, Appended
  <2>2. CASE answers' = answers
    BY <1>1, <2>2, Unanswered
  <2> QED BY <1>2, <2>1, <2>2
<1>4. Buffers'
  <2>1. Byte' = Byte
    BY DEF Byte
  <2> QED BY <1>1, <1>2, <1>3, <2>1 DEF Buffers, Phases
<1>5. Asked' /\ Place'
  BY <1>2 DEF SessionInv, Asked, Place
<1> QED BY <1>3, <1>4, <1>5 DEF SessionInv

\* The status httpd_req_new sends when scratch is full.
Refusal == CASE data.status = "URL" -> "414"
             [] data.status \in {"HDR_FIELD", "HDR_VALUE"} -> "431"
             [] OTHER -> data.error

LEMMA Refused ==
  ASSUME SessionInv, UNCHANGED requests, NEW q \in 1..Len(requests), Turn(q), NEW b \in Nat, Reading(b),
         pc = "read", TooBig, NEW error \in ParseErrors, Refusal = error, error \in Expected(requests[q])
  PROVE  SessionInv'
<1>1. /\ Buffers /\ UNCHANGED <<unread, pending, scratch, offset, data, parser>>
      /\ answers \in Seq(Statuses) /\ AnsweredInOrder
  BY DEF SessionInv, Buffers, TooBig, input, block
<1>2. error \in Statuses
  BY DEF ParseErrors, Statuses
<1>3. /\ \/ answers' = Append(answers, error) /\ pc' = "drain"
         \/ answers' = answers /\ pc' = "closed"
      /\ req' = [req EXCEPT !.hdrs = 0]
  BY DEF TooBig, SendErr, Answer, Close, Refusal
<1>4. AnsweredInOrder' /\ answers' \in Seq(Statuses) /\ (pc' = "drain" => ~InStep')
  <2>1. CASE answers' = Append(answers, error) /\ pc' = "drain"
    <3>1. InStep => Len(answers) + 1 \in DOMAIN requests /\ error \in Expected(requests[Len(answers) + 1])
      BY RequestsAre DEF Turn, SessionInv
    <3> QED BY <1>1, <1>2, <2>1, <3>1, Appended
  <2>2. CASE answers' = answers /\ pc' = "closed"
    BY <1>1, <2>2, Unanswered
  <2> QED BY <1>3, <2>1, <2>2
<1>5. Buffers'
  <2>1. Byte' = Byte
    BY DEF Byte
  <2> QED BY <1>1, <1>3, <1>4, <2>1 DEF Buffers, Phases
<1>6. Place'
  <2>1. CASE pc' = "closed"
    BY <2>1 DEF Place
  <2>2. CASE pc' = "drain"
    <3>1. From(b + Len(scratch))'
      BY <1>1, StreamStays DEF Reading, From, Agrees
    <3>2. PICK a \in Nat : a = b + Len(scratch)
      BY <1>1, LenProperties DEF Buffers
    <3>3. Drain(a)'
      BY <1>1, <1>4, <2>2, <3>1, <3>2 DEF Drain, From
    <3> QED BY <3>3 DEF Place
  <2> QED BY <1>3, <2>1, <2>2
<1> QED BY <1>4, <1>5, <1>6 DEF SessionInv, Asked

LEMMA FreshRead ==
  ASSUME SessionInv, UNCHANGED requests, NEW b \in Nat, Fresh(b), pc = "read", Server
  PROVE  SessionInv'
<1>1. Reading(b) /\ Due(b) /\ At = 0 /\ parser.prev = "start" /\ data = NewData /\ req = NewReq
  BY DEF Fresh
<1>2. ~TooBig
  <2>1. offset = 0
    BY <1>1 DEF Reading
  <2>2. Room > 0 /\ Room \in Nat
    BY <2>1, RoomIs DEF SessionInv
  <2>3. Room # 0
    <3> HIDE DEF Room
    <3> QED BY <2>2
  <2> QED BY <2>3 DEF TooBig
<1>3. CASE ReadFails
  BY <1>3, ReadEnds
<1>4. CASE ReadPending \/ ReadSocket
  <2>1. /\ Reading(b)' /\ Buffers' /\ Asked' /\ AnsweredInOrder' /\ (InStep' <=> InStep)
        /\ UNCHANGED <<data, parser, req, answers>>
    BY <1>1, <1>4, ReadMore
  <2>2. Due(b)'
    BY <1>1, <2>1, StreamStays DEF Due
  <2>3. Fresh(b)'
    BY <1>1, <2>1, <2>2 DEF Fresh, At
  <2> QED BY <2>1, <2>3 DEF SessionInv, Place
<1> QED BY <1>2, <1>3, <1>4, Reads

LEMMA LineRead ==
  ASSUME SessionInv, UNCHANGED requests, NEW q \in 1..Len(requests), Turn(q), InLine(q),
         pc = "read", Server
  PROVE  SessionInv'
<1> DEFINE s == requests[q]
<1>1. Reading(Start[q]) /\ Buffers /\ s \in Shapes /\ Start[q] \in Nat /\ Len(scratch) \in Nat
  BY LineFacts
<1> PICK b \in Nat : b = Start[q]
  BY <1>1
<1>2. At = Len(scratch) /\ offset = Len(scratch)
  BY <1>1 DEF Reading
<1>3. CASE ReadFails
  BY <1>3, ReadEnds
<1>4. CASE TooBig
  <2>1. At = Scratch
    <3>1. Room = 0
      BY <1>4 DEF TooBig
    <3> QED BY <1>1, <1>2, <3>1, RoomIs
  <2>2. data.status = "URL"
    <3>1. At # 1
      BY <2>1, RequestAssumption
    <3> QED BY <3>1 DEF InLine
  <2>3. Refusal = "414" /\ "414" \in ParseErrors
    BY <2>2 DEF Refusal, ParseErrors
  <2>4. "414" \in Expected(s)
    <3>1. At \in 1..Len(RequestLine(s)) /\ Len(RequestLine(s)) \in Nat
      <4>1. Len(RequestLine(s)) = s.url + 4 /\ s.url \in Nat
        BY <1>1, RequestLineIs
      <4>2. At \in 1..s.url + 4
        BY DEF InLine
      <4> QED BY <4>1, <4>2
    <3>2. Len(RequestLine(s)) >= Scratch
      <4> HIDE DEF At
      <4> QED BY <2>1, <3>1, RequestAssumption
    <3> QED BY <3>2 DEF Expected
  <2>5. Reading(b)
    BY <1>1
  <2> QED BY <1>4, <2>3, <2>4, <2>5, Refused
<1>5. CASE ReadPending \/ ReadSocket
  <2>1. Reading(b)
    BY <1>1
  <2>2. /\ Reading(b)' /\ Buffers' /\ Asked' /\ AnsweredInOrder' /\ (InStep' <=> InStep)
        /\ UNCHANGED <<data, parser, req, answers>>
    BY <1>5, <2>1, ReadMore
  <2>3. At' = At /\ Start' = Start
    BY <2>2, StreamStays DEF At
  <2>4. Reading(Start[q])'
    BY <2>2, <2>3 DEF Reading, From
  <2>5. InLine(q)'
    BY <2>2, <2>3, <2>4 DEF InLine
  <2>6. InRequest(q)'
    BY <2>5 DEF InRequest
  <2> QED BY <2>2, <2>6, StillIn
<1> QED BY <1>3, <1>4, <1>5, Reads

\* A block of the headers or of the body.
LEMMA TextRead ==
  ASSUME SessionInv, UNCHANGED requests, NEW q \in 1..Len(requests), Reading(TextFrom(q)),
         pc = "read", ReadPending \/ ReadSocket, NEW t \in Nat, t <= At, NEW z, Kept(q, t, z)
  PROVE  /\ Reading(TextFrom(q))' /\ Buffers' /\ Asked' /\ AnsweredInOrder' /\ (InStep' <=> InStep)
         /\ UNCHANGED <<data, parser, req, answers>> /\ At' = At /\ Kept(q, t, z)' /\ pc' = "execute"
<1> PICK b \in Nat : b = TextFrom(q)
  BY TextFacts
<1>1. Reading(b)
  OBVIOUS
<1>2. /\ Reading(b)' /\ Buffers' /\ Asked' /\ AnsweredInOrder' /\ (InStep' <=> InStep)
      /\ UNCHANGED <<data, parser, req, answers>> /\ pc' = "execute"
      /\ At \in Nat /\ At = Len(scratch) /\ At <= Len(scratch') /\ \A i \in 1..At : scratch'[i] = scratch[i]
  BY <1>1, ReadMore
<1>3. At' = At /\ TextFrom(q)' = b
  BY <1>2, StreamStays DEF At
<1>4. Reading(TextFrom(q))'
  BY <1>2, <1>3 DEF Reading, From
<1>5. Kept(q, t, z)'
  <2>1. t <= Len(scratch')
    <3>1. PICK a \in Nat : a = At
      BY <1>2
    <3>2. Len(scratch') \in Nat
      BY <1>2, LenProperties DEF Buffers
    <3> QED BY <1>2, <3>1, <3>2
  <2>2. \A i \in 1..t : i \in 1..At
    <3>1. PICK a \in Nat : a = At
      BY <1>2
    <3> QED BY <3>1
  <2>3. \A i \in 1..t : scratch'[i] = scratch[i]
    BY <1>2, <2>2
  <2> QED BY <2>1, <2>3 DEF Kept
<1> QED BY <1>2, <1>3, <1>4, <1>5

\* scratch is full before the headers are complete.
LEMMA TextRefused ==
  ASSUME SessionInv, UNCHANGED requests, NEW q \in 1..Len(requests), Turn(q), Reading(TextFrom(q)),
         LinePassed(requests[q]), pc = "read", TooBig, At < Len(HeaderText(requests[q])),
         data.status \in {"HDR_FIELD", "HDR_VALUE"}
  PROVE  SessionInv'
<1> DEFINE s == requests[q]
<1> PICK b \in Nat : b = TextFrom(q)
  BY TextFacts
<1>1. /\ Buffers /\ s \in Shapes /\ Len(scratch) \in Nat /\ Len(HeaderText(s)) \in Nat
      /\ At = Len(scratch) /\ offset = Len(scratch)
  BY TextFacts DEF Reading
<1>2. Len(HeaderText(s)) > Scratch
  <2>1. Room = 0
    BY DEF TooBig
  <2>2. At = Scratch
    BY <1>1, <2>1, RoomIs
  <2> HIDE DEF At
  <2> QED BY <1>1, <2>2
<1>3. Refusal = "431" /\ "431" \in ParseErrors
  BY DEF Refusal, ParseErrors
<1>4. "431" \in Expected(s)
  <2>1. ~(s.url > MaxUri \/ Len(RequestLine(s)) >= Scratch) /\ ~(UrlError(s) # "none")
    BY <1>1, LineFits
  <2> QED BY <1>2, <2>1 DEF Expected
<1>5. Reading(b)
  OBVIOUS
<1> QED BY <1>3, <1>4, <1>5, Refused

LEMMA FieldRead ==
  ASSUME SessionInv, UNCHANGED requests, NEW q \in 1..Len(requests), Turn(q),
         NEW k \in 1..Len(requests[q].headers), InField(q, k), pc = "read", Server
  PROVE  SessionInv'
<1> DEFINE s == requests[q]
<1>1. /\ Reading(TextFrom(q)) /\ LinePassed(s) /\ s \in Shapes /\ At \in Nat
      /\ At \in HeadAt(s)[k] + 1..Colon(s, k) /\ data.status = "HDR_FIELD"
      /\ Kept(q, At, HeadAt(s)[k])
  BY FieldFacts
<1>2. CASE ReadFails
  BY <1>2, ReadEnds
<1>3. CASE TooBig
  <2>1. At < Len(HeaderText(s))
    <3>1. /\ HeadAt(s)[k] \in Nat /\ Colon(s, k) \in Nat /\ Stop(s, k) \in Nat /\ Len(HeaderText(s)) \in Nat
          /\ Colon(s, k) < Stop(s, k) /\ Stop(s, k) + 4 <= Len(HeaderText(s))
      BY <1>1, HeaderLine
    <3> HIDE DEF s, At
    <3> QED BY <1>1, <3>1
  <2> QED BY <1>1, <1>3, <2>1, TextRefused
<1>4. CASE ReadPending \/ ReadSocket
  <2>0. PICK z : z = HeadAt(s)[k]
    OBVIOUS
  <2>1. PICK t \in Nat : t = At
    BY <1>1
  <2>2. Kept(q, t, z) /\ t <= At
    BY <1>1, <2>0, <2>1
  <2>3. /\ Reading(TextFrom(q))' /\ Buffers' /\ Asked' /\ AnsweredInOrder' /\ (InStep' <=> InStep)
        /\ UNCHANGED <<data, parser, req, answers>> /\ At' = At /\ Kept(q, t, z)'
    BY <1>1, <1>4, <2>2, TextRead
  <2>4. InField(q, k)'
    BY <2>0, <2>1, <2>3 DEF InField, Kept
  <2>5. InRequest(q)'
    BY <2>4 DEF InRequest
  <2> QED BY <2>3, <2>5, StillIn
<1> QED BY <1>2, <1>3, <1>4, Reads

LEMMA ValueRead ==
  ASSUME SessionInv, UNCHANGED requests, NEW q \in 1..Len(requests), Turn(q),
         NEW k \in 1..Len(requests[q].headers), InValue(q, k), pc = "read", Server
  PROVE  SessionInv'
<1> DEFINE s == requests[q]
<1>1. /\ Reading(TextFrom(q)) /\ LinePassed(s) /\ s \in Shapes /\ At \in Nat
      /\ At \in Colon(s, k) + 1..Stop(s, k) + (IF k = Len(s.headers) THEN 3 ELSE 2)
      /\ data.status = "HDR_VALUE" /\ Kept(q, At, HeadAt(s)[k])
  BY ValueFacts
<1>2. CASE ReadFails
  BY <1>2, ReadEnds
<1>3. CASE TooBig
  <2>1. At < Len(HeaderText(s))
    <3>1. /\ Colon(s, k) \in Nat /\ Stop(s, k) \in Nat /\ Len(HeaderText(s)) \in Nat
          /\ Stop(s, k) + 4 <= Len(HeaderText(s))
      BY <1>1, HeaderLine
    <3> HIDE DEF s, At
    <3> QED BY <1>1, <3>1
  <2> QED BY <1>1, <1>3, <2>1, TextRefused
<1>4. CASE ReadPending \/ ReadSocket
  <2>0. PICK z : z = HeadAt(s)[k]
    OBVIOUS
  <2>1. PICK t \in Nat : t = At
    BY <1>1
  <2>2. Kept(q, t, z) /\ t <= At
    BY <1>1, <2>0, <2>1
  <2>3. /\ Reading(TextFrom(q))' /\ Buffers' /\ Asked' /\ AnsweredInOrder' /\ (InStep' <=> InStep)
        /\ UNCHANGED <<data, parser, req, answers>> /\ At' = At /\ Kept(q, t, z)'
    BY <1>1, <1>4, <2>2, TextRead
  <2>4. InValue(q, k)'
    BY <2>0, <2>1, <2>3 DEF InValue, Kept
  <2>5. InRequest(q)'
    BY <2>4 DEF InRequest
  <2> QED BY <2>3, <2>5, StillIn
<1> QED BY <1>2, <1>3, <1>4, Reads

\* After the headers the parser asks for more than scratch holds: a body is
\* needed, and its first byte.
LEMMA BodyRead ==
  ASSUME SessionInv, UNCHANGED requests, NEW q \in 1..Len(requests), Turn(q), InBody(q),
         pc = "read", Server
  PROVE  SessionInv'
<1> DEFINE s == requests[q]
<1> PICK L \in Nat : L = Len(HeaderText(s))
  BY BodyFacts
<1>1. /\ Reading(TextFrom(q)) /\ LinePassed(s) /\ Buffers /\ s \in Shapes /\ ~s.upgrade
      /\ Len(scratch) \in Nat /\ data.status = "BODY" /\ s.body \in Nat
      /\ At = (IF s.body = 0 THEN L - 1 ELSE L) /\ Kept(q, L, L) /\ TextFrom(q) \in Nat
  BY BodyFacts
<1>2. s.body # 0 /\ At = L
  <2>1. s.body # 0
    BY DEF InBody
  <2> QED BY <1>1, <2>1
<1>3. CASE ReadFails
  BY <1>3, ReadEnds
<1>4. CASE TooBig
  <2>1. At = Len(scratch) /\ offset = Len(scratch) /\ data.error = "500"
    BY <1>1 DEF Reading
  <2>2. L = Scratch
    <3>1. Room = 0
      BY <1>4 DEF TooBig
    <3> QED BY <1>1, <1>2, <2>1, <3>1, RoomIs
  <2>3. Refusal = "500" /\ "500" \in ParseErrors
    BY <1>1, <2>1 DEF Refusal, ParseErrors
  <2>4. "500" \in Expected(s)
    <3>1. ~(s.url > MaxUri \/ Len(RequestLine(s)) >= Scratch) /\ ~(UrlError(s) # "none")
      BY <1>1, LineFits
    <3>2. s.body > 0 /\ ~(L > Scratch)
      <4> HIDE DEF s
      <4> QED BY <1>1, <1>2, <2>2
    <3> QED BY <1>1, <2>2, <3>1, <3>2 DEF Expected
  <2>5. PICK b \in Nat : b = TextFrom(q)
    BY <1>1
  <2>6. Reading(b)
    BY <1>1, <2>5
  <2> QED BY <1>4, <2>3, <2>4, <2>6, Refused
<1>5. CASE ReadPending \/ ReadSocket
  <2>1. L <= At
    BY <1>2
  <2>2. /\ Reading(TextFrom(q))' /\ Buffers' /\ Asked' /\ AnsweredInOrder' /\ (InStep' <=> InStep)
        /\ UNCHANGED <<data, parser, req, answers>> /\ At' = At /\ Kept(q, L, L)' /\ pc' = "execute"
    BY <1>1, <1>5, <2>1, TextRead
  <2>3. InBody(q)'
    BY <2>2 DEF InBody, Kept
  <2>4. InRequest(q)'
    BY <2>3 DEF InRequest
  <2> QED BY <2>2, <2>4, StillIn
<1> QED BY <1>3, <1>4, <1>5, Reads

\* The block that was put back is read again, at the start of scratch.
LEMMA PausedReads ==
  ASSUME SessionInv, UNCHANGED requests, NEW q \in 1..Len(requests), Turn(q), Paused(q),
         ReadPending \/ ReadSocket
  PROVE  SessionInv'
<1> DEFINE s == requests[q]
<1>1. /\ Asked /\ Buffers /\ s \in Shapes /\ TextFrom(q) \in Nat /\ Len(pending) \in Nat /\ data \in Data
      /\ parser \in [at : 0..Len(scratch), prev : AllKinds \cup {"start"}]
  BY RequestsAre, StreamIs, LenProperties DEF SessionInv, Buffers
<1>2. /\ pc = "read" /\ LinePassed(s) /\ From(TextFrom(q)) /\ offset = 0
      /\ data.status = "HDR_FIELD" /\ data.error = "500" /\ data.paused
      /\ data.at = 0 /\ data.length \in 1..Colon(s, 1) - 1
      /\ data.pre \in 1..Len(pending)
      /\ \/ data.pre = data.length /\ parser.prev = "f"
         \/ data.pre = data.length + 1 /\ data.pre = Colon(s, 1) /\ parser.prev = ":"
      /\ req = [of |-> q, hdrs |-> 0, remaining |-> 0]
  BY DEF Paused
<1>3. /\ HeadAt(s)[1] = 0 /\ Len(s.headers) \in Nat \ {0} /\ 1 \in 1..Len(s.headers)
      /\ Colon(s, 1) \in Nat /\ 1 < Colon(s, 1) /\ Colon(s, 1) <= Len(HeaderText(s))
      /\ Len(HeaderText(s)) \in Nat
      /\ \A i \in 1..Colon(s, 1) - 1 : HeaderText(s)[i] = "f"
      /\ HeaderText(s)[Colon(s, 1)] = ":"
  BY <1>1, FirstByte
<1> PICK b \in Nat : b = TextFrom(q)
  BY <1>1
<1> PICK c \in Nat : c = Colon(s, 1)
  BY <1>3
<1> PICK p \in Nat : p = data.pre
  BY <1>2
<1> PICK m \in Nat : m = data.length
  BY <1>1 DEF Data
<1>4. PICK k : BlockOf(b, k)
  <2>1. From(b)
    BY <1>2
  <2> QED BY <1>2, <2>1, ReadTakes
<1>5. k \in Nat /\ k = Len(pending) /\ p \in 1..k /\ 1 < c
  <2>1. pending # <<>>
    <3>1. Len(<<>>) = 0
      OBVIOUS
    <3> QED BY <1>1, <1>2, <3>1
  <2> QED BY <1>2, <1>3, <1>4, <2>1 DEF BlockOf
<1>6. Skipped(k) = p
  <2>1. Min({k, p}) = IF k <= p THEN k ELSE p
    BY SMTT(40), <1>5, MinOfTwo
  <2>2. Min({k, p}) = p
    BY <1>5, <2>1
  <2> QED BY <1>2, <2>2 DEF Skipped
<1>7. /\ data' = [data EXCEPT !.paused = FALSE, !.pre = 0]
      /\ parser' = [parser EXCEPT !.at = p]
  <2>1. data' = [data EXCEPT !.paused = FALSE, !.pre = @ - p] /\ parser' = [parser EXCEPT !.at = 0 + p]
    BY <1>2, <1>4, <1>6 DEF BlockOf
  <2>2. data.pre - p = 0 /\ 0 + p = p
    OBVIOUS
  <2> QED BY <2>1, <2>2
<1>8. /\ data'.status = "HDR_FIELD" /\ data'.error = "500" /\ data'.at = 0 /\ data'.length = m
      /\ data'.pre = 0 /\ data' \in Data
  <2>1. 0 \in 0..Block
    BY RequestAssumption
  <2> QED BY <1>1, <1>2, <1>7, <2>1 DEF Data
<1>9. data'.paused = FALSE /\ At' = p /\ parser'.prev = parser.prev
  BY <1>1, <1>7 DEF Data, At
<1>10. /\ pending' = <<>> /\ unread' \in Seq(Byte) /\ scratch' \in Seq(Byte) /\ Len(scratch') = k
       /\ Len(scratch') <= Scratch /\ k <= Block /\ From(b + k)' /\ UNCHANGED <<offset, req, answers>>
       /\ pc' = "execute" /\ AnsweredInOrder' /\ (InStep' <=> InStep) /\ Asked'
  <2>1. 0 + k = k
    BY <1>5
  <2> QED BY <1>2, <1>4, <2>1 DEF BlockOf
<1>11. ASSUME NEW i \in 1..k PROVE b + i \in 1..Len(Stream) /\ scratch'[i] = Stream[b + i]
  <2>1. i \in offset + 1..Len(scratch') /\ i - offset = i
    BY <1>2, <1>5, <1>10
  <2> QED BY <1>4, <2>1 DEF BlockOf
<1>12. Stream' = Stream /\ TextFrom(q)' = b
  BY StreamStays
<1>13. Reading(TextFrom(q))'
  <2>1. \A i \in p + 1..k : i \in 1..k
    BY <1>5
  <2>2. \A i \in At' + 1..Len(scratch') : b + i \in 1..Len(Stream') /\ scratch'[i] = Stream'[b + i]
    BY <1>9, <1>10, <1>11, <1>12, <2>1
  <2>3. offset' = 0 /\ 0 <= p /\ k <= 0 + Block
    <3>1. Block \in Nat
      BY RequestAssumption
    <3> QED BY SMTT(40), <1>2, <1>5, <1>10, <3>1
  <2>4. From(TextFrom(q) + Len(scratch))'
    BY <1>10, <1>12 DEF From
  <2> QED BY <1>8, <1>9, <1>10, <1>12, <2>2, <2>3, <2>4 DEF Reading
<1>14. Buffers'
  <2>1. Byte' = Byte
    BY DEF Byte
  <2>2. pending' \in Seq(Byte) /\ Len(pending') <= Block
    <3>1. <<>> \in Seq(Byte) /\ Len(<<>>) = 0 /\ Block \in Nat
      BY RequestAssumption
    <3> QED BY <1>10, <3>1
  <2>3. offset' \in 0..Len(scratch') /\ p \in 0..Len(scratch')
    BY <1>2, <1>5, <1>10
  <2>4. parser' \in [at : 0..Len(scratch'), prev : AllKinds \cup {"start"}]
    BY <1>1, <1>7, <2>3
  <2>5. data'.at <= Scratch /\ data'.at + data'.length <= Scratch
    <3>1. m <= k
      <4>1. m <= p
        BY <1>2
      <4> QED BY <1>5, <4>1
    <3>2. Scratch \in Nat /\ 0 + m = m
      BY RequestAssumption
    <3> QED BY <1>5, <1>8, <1>10, <3>1, <3>2
  <2> QED BY <1>1, <1>8, <1>10, <2>1, <2>2, <2>3, <2>4, <2>5 DEF Buffers, Phases
<1>15. \A i \in 1..p : scratch'[i] = [of |-> q, kind |-> HeaderText(s)[i]]
  <2>1. p <= Len(HeaderText(s)) /\ \A i \in 1..p : i \in 1..k /\ i \in 1..Len(HeaderText(s))
    <3>1. p <= c
      BY <1>2
    <3>2. c <= Len(HeaderText(s)) /\ Len(HeaderText(s)) \in Nat
      BY <1>3
    <3> QED BY <1>5, <3>1, <3>2
  <2>2. \A i \in 1..Len(HeaderText(s)) : Stream[b + i] = [of |-> q, kind |-> HeaderText(s)[i]]
    BY <1>1, StreamIs
  <2> QED BY <1>11, <2>1, <2>2
<1>16. Kept(q, p, 0)'
  <2>1. p <= Len(scratch')
    BY <1>5, <1>10
  <2>2. \A i \in 1..p : ~(i <= 0)
    OBVIOUS
  <2> QED BY <1>15, <2>1, <2>2 DEF Kept
<1>17. /\ p \in HeadAt(s)[1] + 1..c /\ parser'.prev = HeaderText(s)[p]
       /\ m = (IF p = c THEN p - 1 ELSE p) - HeadAt(s)[1]
  <2>1. CASE p = m /\ parser.prev = "f"
    <3>1. m \in 1..c - 1
      BY <1>2
    <3>2. HeaderText(s)[m] = "f"
      BY <1>3, <3>1
    <3>3. p \in 0 + 1..c /\ p # c /\ p - 0 = m
      BY <1>5, <2>1, <3>1
    <3> QED BY <1>3, <1>9, <2>1, <3>2, <3>3
  <2>2. CASE p = m + 1 /\ p = c /\ parser.prev = ":"
    <3>1. HeaderText(s)[p] = ":"
      BY <1>3, <2>2
    <3>2. p \in 0 + 1..c /\ p - 1 - 0 = m
      BY <1>5, <2>2
    <3> QED BY <1>3, <1>9, <2>2, <3>1, <3>2
  <2> QED BY <1>2, <2>1, <2>2
<1>18. InField(q, 1)'
  <2>1. data'.at = HeadAt(s)[1] /\ req' = [of |-> q, hdrs |-> 1 - 1, remaining |-> 0]
    <3>1. 1 - 1 = 0
      OBVIOUS
    <3> QED BY <1>2, <1>3, <1>8, <1>10, <3>1
  <2>2. PICK z : z = HeadAt(s)[1]
    OBVIOUS
  <2>3. Kept(q, p, z)'
    BY <1>3, <1>16, <2>2
  <2> QED BY ZenonT(60), <1>2, <1>3, <1>8, <1>9, <1>13, <1>17, <2>1, <2>2, <2>3, FieldPlaced
<1>19. InRequest(q)'
  BY <1>3, <1>18 DEF InRequest
<1> QED BY <1>10, <1>14, <1>19, StillIn

LEMMA PausedStep ==
  ASSUME SessionInv, UNCHANGED requests, NEW q \in 1..Len(requests), Turn(q), Paused(q), Server
  PROVE  SessionInv'
<1>1. pc = "read" /\ offset = 0
  BY DEF Paused
<1>2. ~TooBig
  <2>1. Room > 0 /\ Room \in Nat
    BY <1>1, RoomIs DEF SessionInv
  <2>2. Room # 0
    <3> HIDE DEF Room
    <3> QED BY <2>1
  <2> QED BY <2>2 DEF TooBig
<1>3. CASE ReadFails
  BY <1>1, <1>3, ReadEnds
<1>4. CASE ReadPending \/ ReadSocket
  BY <1>4, PausedReads
<1> QED BY <1>1, <1>2, <1>3, <1>4, Reads

-----------------------------------------------------------------------------
(* Between the parses: the handler, what is left of the body, the next      *)
(* request.                                                                 *)

\* What the server may do elsewhere.
LEMMA Elsewhere ==
  ASSUME Server
  PROVE  /\ pc = "select" => NewRequest
         /\ pc = "lookup" => Lookup
         /\ pc = "handle" => HandlerRecv \/ HandlerReturns
         /\ pc = "drain" => ReqDelete
BY DEF Server, NewRequest, ReadPending, ReadSocket, ReadFails, TooBig, BlockParsed, Silent, BadSyntax,
       CbUrl, FirstField, CbHeaderField, CbHeaderValue, CbHeadersComplete, CbOnBody, CbNoBody, Lookup,
       HandlerRecv, HandlerReturns, ReqDelete, Execute

LEMMA IdleStep ==
  ASSUME SessionInv, UNCHANGED requests, NEW b \in Nat, Idle(b), Server
  PROVE  SessionInv'
<1>1. /\ pc = "select" /\ From(b) /\ Due(b) /\ Buffers /\ Asked /\ AnsweredInOrder /\ answers \in Seq(Statuses)
  BY DEF Idle, SessionInv, Buffers
<1>2. /\ pc' = "read" /\ offset' = 0 /\ scratch' = <<>>
      /\ data' = NewData /\ parser' = NewParser /\ req' = NewReq
      /\ UNCHANGED <<pending, unread, answers>>
  BY <1>1, Elsewhere DEF NewRequest, input
<1>3. AnsweredInOrder' /\ (InStep' <=> InStep) /\ Asked'
  BY <1>1, <1>2, Unanswered DEF Asked
<1>4. Len(scratch') = 0 /\ At' = 0 /\ parser'.prev = "start" /\ scratch' \in Seq(Byte)
  BY <1>2 DEF NewParser, At
<1>5. Stream' = Stream /\ Start' = Start
  BY StreamStays
<1>6. Reading(b)'
  <2>1. data'.error = "500" /\ data'.paused = FALSE /\ data'.pre = 0
    BY <1>2 DEF NewData
  <2>2. From(b + Len(scratch))'
    <3>1. b + Len(scratch') = b
      BY <1>4
    <3> QED BY <1>1, <1>2, <1>5, <3>1 DEF From, Agrees
  <2>3. \A i \in At' + 1..Len(scratch') : FALSE
    <3>1. \A i \in 0 + 1..0 : FALSE
      OBVIOUS
    <3> QED BY <1>4, <3>1
  <2>4. 0 <= 0 + Block
    BY RequestAssumption
  <2> QED BY <1>2, <1>4, <2>1, <2>2, <2>3, <2>4 DEF Reading
<1>7. Fresh(b)'
  <2>1. Due(b)'
    BY <1>1, <1>2, <1>3, <1>5 DEF Due
  <2> QED BY <1>2, <1>4, <1>6, <2>1 DEF Fresh, NewData, NewReq
<1>8. Buffers'
  <2>1. Byte' = Byte
    BY DEF Byte
  <2>2. data' \in Data /\ data'.at + data'.length <= Scratch /\ data'.at <= Scratch
    BY <1>2, RequestAssumption DEF NewData, Data, Seven, Statuses
  <2>3. parser' \in [at : 0..Len(scratch'), prev : AllKinds \cup {"start"}] /\ offset' \in 0..Len(scratch')
    BY <1>2, <1>4 DEF NewParser
  <2>4. req' \in [of : Nat, hdrs : Nat, remaining : Nat]
    BY <1>2 DEF NewReq
  <2>5. Len(scratch') <= Scratch
    BY <1>4, RequestAssumption
  <2> QED BY <1>1, <1>2, <1>4, <2>1, <2>2, <2>3, <2>4, <2>5 DEF Buffers, Phases
<1> QED BY <1>3, <1>7, <1>8 DEF SessionInv, Place

LEMMA ServeFacts ==
  ASSUME SessionInv, NEW q \in 1..Len(requests), Serve(q)
  PROVE  LET s == requests[q]
         IN  /\ Asked /\ Buffers /\ AnsweredInOrder /\ s \in Shapes /\ answers \in Seq(Statuses)
             /\ Expected(s) = {"200", "404", "405"} /\ req \in [of : Nat, hdrs : Nat, remaining : Nat]
             /\ req.of = q /\ req.hdrs = Len(s.headers) /\ req.remaining \in Nat
             /\ req.remaining <= s.body /\ s.body \in Nat /\ Start[q + 1] \in Nat
             /\ Start[q + 1] - req.remaining \in Nat /\ From(Start[q + 1] - req.remaining)
             /\ Kept(q, Len(HeaderText(s)), Len(HeaderText(s)))
<1> DEFINE s == requests[q]
           L == Len(HeaderText(s))
<1>1. /\ Asked /\ Buffers /\ AnsweredInOrder /\ s \in Shapes /\ answers \in Seq(Statuses)
      /\ req \in [of : Nat, hdrs : Nat, remaining : Nat] /\ req.remaining \in Nat
  BY RequestsAre DEF SessionInv, Buffers
<1>2. /\ Expected(s) = {"200", "404", "405"} /\ req.of = q /\ req.hdrs = Len(s.headers)
      /\ req.remaining <= s.body /\ From(Start[q + 1] - req.remaining) /\ Kept(q, L, L)
  BY DEF Serve
<1>3. /\ Start[q + 1] = BodyFrom(q) + s.body /\ BodyFrom(q) \in Nat /\ Start[q + 1] \in Nat /\ s.body \in Nat
  BY <1>1, StreamIs
<1>4. Start[q + 1] - req.remaining \in Nat
  <2>1. PICK f \in Nat : f = BodyFrom(q)
    BY <1>3
  <2>2. PICK r \in Nat : r = req.remaining
    BY <1>1
  <2>3. PICK d \in Nat : d = s.body
    BY <1>3
  <2>4. r <= d
    BY <1>2, <2>2, <2>3
  <2>5. f + d - r \in Nat
    BY <2>4
  <2> QED BY SMTT(40), <1>3, <2>1, <2>2, <2>3, <2>5
<1> QED BY <1>1, <1>2, <1>3, <1>4

\* A response is sent: the request has been answered, and what is left of its
\* body is read next.
LEMMA Responded ==
  ASSUME SessionInv, UNCHANGED requests, NEW q \in 1..Len(requests), Turn(q), Serve(q),
         UNCHANGED <<unread, pending, scratch, offset, data, parser>>, req' = [req EXCEPT !.hdrs = 0],
         \/ pc' \in {"drain", "closed"} /\ \E x \in {"200", "404", "405"} : answers' = Append(answers, x)
         \/ pc' = "closed" /\ answers' = answers
  PROVE  SessionInv'
<1> DEFINE s == requests[q]
<1>1. /\ Asked /\ Buffers /\ AnsweredInOrder /\ s \in Shapes /\ answers \in Seq(Statuses)
      /\ Expected(s) = {"200", "404", "405"} /\ req \in [of : Nat, hdrs : Nat, remaining : Nat]
      /\ req.of = q /\ req.remaining \in Nat
      /\ Start[q + 1] - req.remaining \in Nat /\ From(Start[q + 1] - req.remaining) /\ Start[q + 1] \in Nat
  BY ServeFacts
<1>2. pc # "closed"
  BY DEF Serve
<1>3. /\ AnsweredInOrder' /\ answers' \in Seq(Statuses)
      /\ pc' = "drain" => (InStep' <=> InStep) /\ Len(answers') = Len(answers) + 1
  <2>1. CASE \E x \in {"200", "404", "405"} : answers' = Append(answers, x)
    <3>1. PICK x \in {"200", "404", "405"} : answers' = Append(answers, x)
      BY <2>1
    <3>2. x \in Statuses /\ x \notin ParseErrors
      BY DEF Statuses, ParseErrors
    <3>3. InStep => Len(answers) + 1 \in DOMAIN requests /\ x \in Expected(requests[Len(answers) + 1])
      BY <1>1, RequestsAre DEF Turn
    <3> QED BY <1>1, <1>2, <3>1, <3>2, <3>3, Appended
  <2>2. CASE pc' = "closed" /\ answers' = answers
    BY <1>1, <1>2, <2>2, Unanswered
  <2> QED BY <2>1, <2>2
<1>4. Buffers'
  <2>1. Byte' = Byte
    BY DEF Byte
  <2>2. pc' \in Phases
    BY DEF Phases
  <2>3. req' \in [of : Nat, hdrs : Nat, remaining : Nat]
    BY <1>1
  <2> QED BY <1>1, <1>3, <2>1, <2>2, <2>3 DEF Buffers
<1>5. Place'
  <2>1. CASE pc' = "closed"
    BY <2>1 DEF Place
  <2>2. CASE pc' = "drain"
    <3>1. PICK b \in Nat : b = Start[q + 1] - req.remaining
      BY <1>1
    <3>2. From(b)'
      BY <1>1, <3>1, StreamStays DEF From, Agrees
    <3>3. req'.of = q /\ req'.remaining = req.remaining
      BY <1>1
    <3>4. b + req.remaining = Start[q + 1]
      <4>1. PICK x \in Nat, y \in Nat : x = Start[q + 1] /\ y = req.remaining
        BY <1>1
      <4>2. b = x - y
        BY <3>1, <4>1
      <4>3. b + y = x
        BY <4>2
      <4> QED BY <4>1, <4>3
    <3>5. InStep' => Len(answers') = q
      BY <1>3, <2>2 DEF Turn
    <3>6. req.remaining <= requests[q].body
      BY ServeFacts
    <3>7. Drain(b)'
      BY <2>2, <3>2, <3>3, <3>4, <3>5, <3>6, StreamStays DEF Drain
    <3> QED BY <3>7 DEF Place
  <2> QED BY <2>1, <2>2
<1> QED BY <1>1, <1>3, <1>4, <1>5 DEF SessionInv, Asked

\* The request is still served, with r bytes of its body to come.
LEMMA StillServed ==
  ASSUME SessionInv, UNCHANGED requests, NEW q \in 1..Len(requests), Turn(q), Serve(q),
         UNCHANGED <<scratch, offset, data, parser, answers>>, pc' \in {"lookup", "handle"},
         NEW r \in Nat, req' = [req EXCEPT !.remaining = r], r <= req.remaining,
         NEW b \in Nat, b = Start[q + 1] - r, From(b)',
         unread' \in Seq(Byte), pending' \in Seq(Byte), Len(pending') <= Block
  PROVE  SessionInv'
<1> DEFINE s == requests[q]
<1>1. /\ Asked /\ Buffers /\ AnsweredInOrder /\ s \in Shapes /\ answers \in Seq(Statuses)
      /\ Expected(s) = {"200", "404", "405"} /\ req \in [of : Nat, hdrs : Nat, remaining : Nat]
      /\ req.of = q /\ req.hdrs = Len(s.headers) /\ req.remaining \in Nat
      /\ req.remaining <= s.body /\ s.body \in Nat
      /\ Kept(q, Len(HeaderText(s)), Len(HeaderText(s)))
  BY ServeFacts
<1>2. AnsweredInOrder' /\ (InStep' <=> InStep) /\ Asked'
  <2>1. pc # "closed"
    BY DEF Serve
  <2> QED BY <1>1, <2>1, Unanswered DEF Asked
<1>3. req'.of = q /\ req'.hdrs = req.hdrs /\ req'.remaining = r /\ req' \in [of : Nat, hdrs : Nat, remaining : Nat]
  BY <1>1
<1>4. Buffers'
  <2>1. Byte' = Byte
    BY DEF Byte
  <2> QED BY <1>1, <1>3, <2>1 DEF Buffers, Phases
<1>5. Serve(q)'
  <2>1. Expected(requests[q])' = {"200", "404", "405"}
    BY <1>1 DEF Expected, UrlError
  <2>2. Kept(q, Len(HeaderText(requests[q])), Len(HeaderText(requests[q])))'
    BY <1>1 DEF Kept
  <2>3. From(Start[q + 1] - req.remaining)'
    <3>1. Start'[q + 1] - req'.remaining = b
      BY <1>3, StreamStays
    <3> QED BY <3>1 DEF From
  <2>4. req'.remaining <= s.body
    <3>1. PICK x \in Nat, y \in Nat : x = req.remaining /\ y = s.body
      BY <1>1
    <3>2. r <= y
      <4>1. x <= y /\ r <= x
        BY <1>1, <3>1
      <4> QED BY ONLY <4>1, r \in Nat, x \in Nat, y \in Nat
    <3> QED BY <1>3, <3>1, <3>2
  <2> QED BY <1>1, <1>3, <2>1, <2>2, <2>3, <2>4 DEF Serve
<1>6. InRequest(q)'
  BY <1>5 DEF InRequest
<1> QED BY <1>2, <1>4, <1>6, StillIn

LEMMA LookupKeeps ==
  ASSUME SessionInv, UNCHANGED requests, NEW q \in 1..Len(requests), Turn(q), Serve(q), Lookup
  PROVE  SessionInv'
<1>1. /\ UNCHANGED <<unread, pending, scratch, offset, data, parser>>
      /\ Buffers /\ unread \in Seq(Byte) /\ pending \in Seq(Byte) /\ Len(pending) <= Block
  BY DEF SessionInv, Buffers, Lookup, input, block
<1>2. /\ Asked /\ req \in [of : Nat, hdrs : Nat, remaining : Nat] /\ req.remaining \in Nat
      /\ Start[q + 1] - req.remaining \in Nat /\ From(Start[q + 1] - req.remaining)
  BY ServeFacts
<1>3. CASE pc' = "wild" /\ UNCHANGED <<req, answers>>
  <2>1. AnsweredInOrder' /\ Asked'
    BY <1>2, <1>3, Unanswered DEF SessionInv, Asked, Serve
  <2>2. Byte' = Byte
    BY DEF Byte
  <2>3. Buffers'
    BY <1>1, <1>3, <2>2 DEF Buffers, Phases
  <2> QED BY <1>3, <2>1, <2>3 DEF SessionInv, Place
<1>4. CASE Close /\ UNCHANGED req
  <2>1. AnsweredInOrder' /\ Asked'
    BY <1>2, <1>4, Unanswered DEF SessionInv, Asked, Serve, Close
  <2>2. Byte' = Byte
    BY DEF Byte
  <2>3. Buffers'
    BY <1>1, <1>4, <2>2 DEF Buffers, Phases, Close
  <2> QED BY <1>4, <2>1, <2>3 DEF SessionInv, Place, Close
<1>5. CASE pc' = "handle" /\ UNCHANGED <<req, answers>>
  <2>1. PICK r \in Nat : r = req.remaining
    BY <1>2
  <2>2. req' = [req EXCEPT !.remaining = r] /\ r <= req.remaining
    BY <1>2, <1>5, <2>1
  <2>3. PICK b \in Nat : b = Start[q + 1] - r
    BY <1>2, <2>1
  <2>4. From(b)'
    BY <1>1, <1>2, <2>1, <2>3, StreamStays DEF From, Agrees
  <2>5. unread' \in Seq(Byte) /\ pending' \in Seq(Byte) /\ Len(pending') <= Block
    BY <1>1
  <2> QED BY <1>1, <1>5, <2>2, <2>3, <2>4, <2>5, StillServed
<1>6. CASE \E x \in {"404", "405"} : SendErr(x)
  <2>1. PICK x \in {"404", "405"} : SendErr(x)
    BY <1>6
  <2>2. /\ req' = [req EXCEPT !.hdrs = 0]
        /\ \/ pc' = "drain" /\ answers' = Append(answers, x)
           \/ pc' = "closed" /\ answers' = answers
    BY <2>1 DEF SendErr, Answer, Close
  <2> QED BY <1>1, <2>2, Responded
<1>7. \A t : Find(t) \in {"found", "404", "405"}
  BY DEF Find
<1> QED BY <1>3, <1>4, <1>5, <1>6, <1>7 DEF Lookup

LEMMA ReturnKeeps ==
  ASSUME SessionInv, UNCHANGED requests, NEW q \in 1..Len(requests), Turn(q), Serve(q), HandlerReturns
  PROVE  SessionInv'
<1>1. /\ UNCHANGED <<unread, pending, scratch, offset, data, parser>>
      /\ req' = [req EXCEPT !.hdrs = 0]
      /\ \/ pc' \in {"drain", "closed"} /\ answers' = Append(answers, "200")
         \/ pc' = "closed" /\ answers' = answers
  BY DEF HandlerReturns, Answer, Close, input, block
<1> QED BY <1>1, Responded

\* k bytes are received: first those that were put back, then the socket's.
LEMMA Received ==
  ASSUME SessionInv, UNCHANGED requests, NEW b \in Nat, From(b), NEW n \in Nat, n <= req.remaining,
         NEW k, Recv(n, k)
  PROVE  /\ k \in Nat /\ k <= n /\ From(b + k)' /\ req' = [req EXCEPT !.remaining = @ - k]
         /\ unread' \in Seq(Byte) /\ pending' \in Seq(Byte) /\ Len(pending') <= Block
<1>1. /\ unread \in Seq(Byte) /\ pending \in Seq(Byte) /\ Len(pending) \in Nat /\ Len(unread) \in Nat
      /\ Len(pending) <= Block /\ Block \in Nat
  BY LenProperties, RequestAssumption DEF SessionInv, Buffers
<1>2. PICK p \in Nat, u \in Nat : p = Len(pending) /\ u = Len(unread)
  BY <1>1
<1>3. Len(pending \o unread) = p + u
  BY <1>1, <1>2, Joined
<1>4. k \in Nat /\ k <= n /\ k <= p + u
  <2>1. Min({n, p + u}) = IF n <= p + u THEN n ELSE p + u
    BY MinOfTwo
  <2>2. k \in 0..Min({n, p + u})
    BY <1>3 DEF Recv
  <2> QED BY <2>1, <2>2
<1>5. Min({k, p}) = IF k <= p THEN k ELSE p
  BY <1>4, MinOfTwo
<1>6. /\ pending' = SubSeq(pending, k + 1, p) /\ unread' = SubSeq(unread, k + 1 - Min({k, p}), u)
      /\ req' = [req EXCEPT !.remaining = @ - k]
  BY <1>2 DEF Recv
<1>7. Agrees(pending, b) /\ Agrees(unread, b + p)
  BY <1>2 DEF From
<1>8. /\ From(b + k)' /\ unread' \in Seq(Byte) /\ pending' \in Seq(Byte) /\ Len(pending') <= p
  <2>1. CASE k <= p
    <3>1. k + 1 - Min({k, p}) = 0 + 1 /\ k \in 0..p /\ 0 \in 0..u
      BY <1>4, <1>5, <2>1
    <3>2. /\ Agrees(pending', b + k) /\ pending' \in Seq(Byte) /\ Len(pending') = p - k
      BY SMTT(40), <1>1, <1>2, <1>6, <1>7, <3>1, AgreesParts
    <3>3. b + p \in Nat /\ b + p + 0 = b + k + (p - k)
      BY <1>4
    <3>4. /\ Agrees(unread', b + k + (p - k)) /\ unread' \in Seq(Byte)
      <4>1. /\ Agrees(SubSeq(unread, 0 + 1, Len(unread)), b + p + 0)
            /\ SubSeq(unread, 0 + 1, Len(unread)) \in Seq(Byte)
        BY <1>1, <1>2, <1>7, <3>1, <3>3, AgreesParts
      <4> QED BY <1>2, <1>6, <3>1, <3>3, <4>1
    <3>5. p - k <= p
      BY <1>4
    <3> QED BY <3>2, <3>4, <3>5, StreamStays DEF From, Agrees
  <2>2. CASE ~(k <= p)
    <3>1. PICK j \in Nat : j = k - p
      BY <1>4, <2>2
    <3>2. k + 1 - Min({k, p}) = j + 1 /\ j \in 0..u /\ b + p + j = b + k + 0 /\ b + p \in Nat
      BY <1>4, <1>5, <2>2, <3>1
    <3>3. pending' = <<>>
      <4>1. k + 1 \in Int /\ p \in Int /\ \A i \in k + 1..p : pending[i] \in Byte
        BY <1>4, <2>2
      <4>2. pending' \in Seq(Byte) /\ Len(pending') = IF k + 1 <= p THEN p - (k + 1) + 1 ELSE 0
        BY <1>6, <4>1, SubSeqProperties
      <4>3. Len(pending') = 0
        BY <1>4, <2>2, <4>2
      <4> QED BY <4>2, <4>3, EmptySeq
    <3>4. Agrees(unread', b + k + 0) /\ unread' \in Seq(Byte)
      <4>1. /\ Agrees(SubSeq(unread, j + 1, Len(unread)), b + p + j)
            /\ SubSeq(unread, j + 1, Len(unread)) \in Seq(Byte)
        BY <1>1, <1>2, <1>7, <3>2, AgreesParts
      <4> QED BY <1>2, <1>6, <3>2, <4>1
    <3>5. Len(<<>>) = 0 /\ <<>> \in Seq(Byte)
      OBVIOUS
    <3>6. Agrees(pending', b + k)
      <4>1. \A i \in 1..0 : FALSE
        OBVIOUS
      <4> QED BY <3>3, <3>5, <4>1 DEF Agrees
    <3> QED BY SMTT(40), <3>3, <3>4, <3>5, <3>6, StreamStays DEF From, Agrees
  <2> QED BY <2>1, <2>2
<1>9. Len(pending') <= Block
  <2>1. Len(pending') \in Nat
    BY <1>8, LenProperties
  <2> QED BY <1>1, <1>2, <1>8, <2>1
<1> QED BY <1>4, <1>6, <1>8, <1>9

LEMMA ReceiveKeeps ==
  ASSUME SessionInv, UNCHANGED requests, NEW q \in 1..Len(requests), Turn(q), Serve(q), pc = "handle",
         HandlerRecv
  PROVE  SessionInv'
<1>1. /\ Buffers /\ req \in [of : Nat, hdrs : Nat, remaining : Nat] /\ req.remaining \in Nat
      /\ Start[q + 1] - req.remaining \in Nat /\ From(Start[q + 1] - req.remaining) /\ Start[q + 1] \in Nat
  BY ServeFacts
<1>2. UNCHANGED <<scratch, offset, data, parser, answers, pc>>
  BY DEF HandlerRecv, block
<1>3. PICK m \in {1, MaxUri + 1}, k \in 1..MaxUri + 1 : Recv(Min({m, req.remaining}), k)
  BY DEF HandlerRecv
<1>4. PICK r \in Nat, z \in Nat : r = req.remaining /\ z = Start[q + 1]
  BY <1>1
<1>5. PICK b \in Nat : b = z - r
  BY <1>1, <1>4
<1>6. PICK n \in Nat : n = Min({m, r}) /\ n <= r
  <2>1. m \in Nat
    BY RequestAssumption
  <2>2. Min({m, r}) = IF m <= r THEN m ELSE r
    BY <2>1, MinOfTwo
  <2> QED BY <2>1, <2>2
<1>7. /\ k \in Nat /\ k <= n /\ From(b + k)' /\ req' = [req EXCEPT !.remaining = @ - k]
      /\ unread' \in Seq(Byte) /\ pending' \in Seq(Byte) /\ Len(pending') <= Block
  <2>1. From(b) /\ n <= req.remaining /\ Recv(n, k)
    BY <1>1, <1>3, <1>4, <1>5, <1>6
  <2> QED BY <2>1, Received
<1>8. PICK x \in Nat : x = r - k /\ x <= r
  BY <1>6, <1>7
<1>9. PICK a \in Nat : a = b + k
  BY <1>7
<1>10. a = Start[q + 1] - x
  <2>1. a = z - x
    BY <1>5, <1>7, <1>8, <1>9
  <2> QED BY <1>4, <2>1
<1>11. req' = [req EXCEPT !.remaining = x] /\ x <= req.remaining /\ From(a)'
  BY <1>4, <1>7, <1>8, <1>9
<1> QED BY <1>2, <1>7, <1>10, <1>11, StillServed

LEMMA DrainStep ==
  ASSUME SessionInv, UNCHANGED requests, NEW b \in Nat, Drain(b), ReqDelete
  PROVE  SessionInv'
<1>1. /\ Buffers /\ Asked /\ req \in [of : Nat, hdrs : Nat, remaining : Nat] /\ req.remaining \in Nat
      /\ pc = "drain" /\ From(b) /\ answers \in Seq(Statuses) /\ Len(answers) \in Nat
      /\ InStep => /\ Len(answers) \in 1..Len(requests) /\ req.of = Len(answers)
                   /\ b + req.remaining = Start[Len(answers) + 1]
                   /\ req.remaining <= requests[Len(answers)].body
  BY LenProperties DEF SessionInv, Buffers, Drain
<1>2. UNCHANGED <<scratch, offset, data, parser, answers>>
  BY DEF ReqDelete, block, Close
<1>3. AnsweredInOrder' /\ (InStep' <=> InStep) /\ Asked'
  BY <1>1, <1>2, Unanswered DEF SessionInv, Asked
<1>4. Byte' = Byte
  BY DEF Byte
<1>5. CASE req.remaining = 0 /\ pc' = "select" /\ UNCHANGED <<input, req>>
  <2>1. Buffers'
    BY <1>1, <1>2, <1>4, <1>5 DEF Buffers, Phases, input
  <2>2. From(b)'
    BY <1>1, <1>5, StreamStays DEF From, Agrees, input
  <2>3. InStep => /\ Len(answers) + 1 \in 1..Len(requests) + 1 /\ b = Start[Len(answers) + 1]
                  /\ req.of = Len(answers)
    <3>1. b + 0 = b
      OBVIOUS
    <3>2. Len(requests) \in Nat
      BY <1>1, RequestsAre
    <3> QED BY <1>1, <1>5, <3>1, <3>2
  <2>4. Idle(b)'
    BY <1>2, <1>3, <1>5, <2>2, <2>3, StreamStays DEF Idle, Due
  <2> QED BY <1>3, <2>1, <2>4 DEF SessionInv, Place
<1>6. CASE Close /\ UNCHANGED <<input, req>>
  <2>1. Buffers'
    BY <1>1, <1>2, <1>4, <1>6 DEF Buffers, Phases, input, Close
  <2> QED BY <1>3, <1>6, <2>1 DEF SessionInv, Place, Close
<1>7. CASE (\E k \in 0..Purge : Recv(Min({Purge, req.remaining}), k)) /\ UNCHANGED pc
  <2>1. PICK k \in 0..Purge : Recv(Min({Purge, req.remaining}), k)
    BY <1>7
  <2>2. PICK r \in Nat : r = req.remaining
    BY <1>1
  <2>3. PICK n \in Nat : n = Min({Purge, r}) /\ n <= r
    <3>1. Purge \in Nat
      BY RequestAssumption
    <3>2. Min({Purge, r}) = IF Purge <= r THEN Purge ELSE r
      BY <3>1, MinOfTwo
    <3> QED BY <3>1, <3>2
  <2>4. /\ k \in Nat /\ k <= n /\ From(b + k)' /\ req' = [req EXCEPT !.remaining = @ - k]
        /\ unread' \in Seq(Byte) /\ pending' \in Seq(Byte) /\ Len(pending') <= Block
    <3>1. n <= req.remaining /\ Recv(n, k)
      BY <2>1, <2>2, <2>3
    <3> QED BY <1>1, <3>1, Received
  <2>5. PICK a \in Nat, x \in Nat : a = b + k /\ x = r - k /\ a + x = b + r
    BY <2>3, <2>4
  <2>6. req'.of = req.of /\ req'.remaining = x /\ req' \in [of : Nat, hdrs : Nat, remaining : Nat]
    BY <1>1, <2>2, <2>4, <2>5
  <2>7. Buffers'
    BY <1>1, <1>2, <1>4, <1>7, <2>4, <2>6 DEF Buffers, Phases
  <2>8. From(a)' /\ (InStep => a + x = Start[Len(answers) + 1])
    BY <1>1, <2>2, <2>4, <2>5
  <2>9. InStep => x <= requests[Len(answers)].body
    <3>1. CASE InStep
      <4>1. PICK y \in Nat : y = requests[Len(answers)].body
        BY <1>1, <3>1, StreamIs
      <4>2. r <= y
        BY <1>1, <2>2, <3>1, <4>1
      <4>3. x <= y
        BY SMTT(40), <2>4, <2>5, <4>2
      <4> QED BY <4>1, <4>3
    <3> QED BY <3>1
  <2>10. Drain(a)'
    BY <1>1, <1>2, <1>3, <1>7, <2>6, <2>8, <2>9, StreamStays DEF Drain
  <2> QED BY <1>3, <2>7, <2>10 DEF SessionInv, Place
<1> QED BY <1>5, <1>6, <1>7 DEF ReqDelete

\* The client leaves, the main task registers or removes a handler: nothing of
\* the session changes but what the client has not sent yet.
LEMMA Undisturbed ==
  ASSUME SessionInv, UNCHANGED <<requests, pending, scratch, offset, data, parser, req, pc, answers>>,
         unread' = unread \/ unread' = <<>>
  PROVE  SessionInv'
<1>1. Buffers /\ Asked /\ AnsweredInOrder /\ Place
  BY DEF SessionInv
<1>2. Byte' = Byte /\ Stream' = Stream /\ Start' = Start /\ (\A q : TextFrom(q)' = TextFrom(q))
  BY StreamStays DEF Byte
<1>3. AnsweredInOrder' /\ Asked' /\ (InStep' <=> InStep)
  BY <1>1 DEF AnsweredInOrder, Asked, InStep
<1>4. Buffers'
  <2>1. <<>> \in Seq(Byte)
    OBVIOUS
  <2> QED BY <1>1, <1>2, <2>1 DEF Buffers
<1>5. ASSUME NEW b, From(b) PROVE From(b)'
  <2>1. Agrees(pending, b)' /\ b + Len(pending') = b + Len(pending)
    BY <1>2, <1>5 DEF From, Agrees
  <2>2. Agrees(unread, b + Len(pending))'
    <3>1. CASE unread' = unread
      BY <1>2, <1>5, <3>1 DEF From, Agrees
    <3>2. CASE unread' = <<>>
      <4>1. \A i \in 1..Len(<<>>) : FALSE
        OBVIOUS
      <4> QED BY <3>2, <4>1 DEF Agrees
    <3> QED BY <3>1, <3>2
  <2> QED BY <2>1, <2>2 DEF From
<1>6. ASSUME NEW b, Reading(b) PROVE Reading(b)'
  <2>1. From(b + Len(scratch))'
    <3>1. PICK a : a = b + Len(scratch)
      OBVIOUS
    <3>2. From(a)'
      BY <1>5, <1>6, <3>1 DEF Reading
    <3> QED BY <3>1, <3>2 DEF From
  <2>2. At' = At
    BY DEF At
  <2> QED BY <1>2, <1>6, <2>1, <2>2 DEF Reading
<1>7. Place'
  <2>1. CASE \E b \in Nat : Idle(b) \/ Fresh(b) \/ Drain(b)
    <3>1. PICK b \in Nat : Idle(b) \/ Fresh(b) \/ Drain(b)
      BY <2>1
    <3>2. Due(b)' <=> Due(b)
      BY <1>2, <1>3 DEF Due
    <3>3. CASE Idle(b)
      <4>1. Idle(b)'
        BY <1>3, <1>5, <3>2, <3>3 DEF Idle
      <4> QED BY <4>1 DEF Place
    <3>4. CASE Fresh(b)
      <4>1. Fresh(b)'
        BY <1>6, <3>2, <3>4 DEF Fresh, At
      <4> QED BY <4>1 DEF Place
    <3>5. CASE Drain(b)
      <4>1. Drain(b)'
        BY <1>2, <1>3, <1>5, <3>5 DEF Drain
      <4> QED BY <4>1 DEF Place
    <3> QED BY <3>1, <3>3, <3>4, <3>5
  <2>2. CASE \E q \in 1..Len(requests) : Turn(q) /\ InRequest(q)
    <3>1. PICK q \in 1..Len(requests) : Turn(q) /\ InRequest(q)
      BY <2>2
    <3>2. InRequest(q)'
      <4>1. PICK t, z : t = TextFrom(q) /\ z = Start[q]
        OBVIOUS
      <4>2. At' = At
        BY DEF At
      <4>3. (Reading(t) => Reading(TextFrom(q))') /\ (Reading(z) => Reading(Start[q])')
        <5>1. Reading(t) => Reading(t)'
          BY <1>6
        <5>2. Reading(z) => Reading(z)'
          BY <1>6
        <5> QED BY <1>2, <4>1, <5>1, <5>2 DEF Reading, From
      <4>4. CASE InLine(q)
        <5>1. InLine(q)'
          BY <4>1, <4>2, <4>3, <4>4 DEF InLine
        <5> QED BY <5>1 DEF InRequest
      <4>5. CASE Paused(q)
        <5>1. From(t)'
          BY <1>5, <4>1, <4>5 DEF Paused
        <5>2. From(TextFrom(q))'
          BY <1>2, <4>1, <5>1 DEF From
        <5>3. Paused(q)'
          BY <4>5, <5>2 DEF Paused, LinePassed, UrlError
        <5> QED BY <5>3 DEF InRequest
      <4>6. CASE InBody(q)
        <5>1. InBody(q)'
          BY <4>1, <4>2, <4>3, <4>6 DEF InBody, LinePassed, UrlError, Kept
        <5> QED BY <5>1 DEF InRequest
      <4>7. CASE Serve(q)
        <5>1. PICK b : b = Start[q + 1] - req.remaining
          OBVIOUS
        <5>2. From(b)'
          BY <1>5, <4>7, <5>1 DEF Serve
        <5>3. From(Start[q + 1] - req.remaining)'
          BY <1>2, <5>1, <5>2 DEF From
        <5>4. Serve(q)'
          BY <4>7, <5>3 DEF Serve, Expected, UrlError, Kept
        <5> QED BY <5>4 DEF InRequest
      <4>8. CASE \E k \in 1..Len(requests[q].headers) : InField(q, k) \/ InValue(q, k)
        <5>1. PICK k \in 1..Len(requests[q].headers) : InField(q, k) \/ InValue(q, k)
          BY <4>8
        <5>2. CASE InField(q, k)
          <6>1. InField(q, k)'
            BY <4>1, <4>2, <4>3, <5>2 DEF InField, LinePassed, UrlError, Kept
          <6> QED BY <6>1 DEF InRequest
        <5>3. CASE InValue(q, k)
          <6>1. InValue(q, k)'
            BY <4>1, <4>2, <4>3, <5>3 DEF InValue, LinePassed, UrlError, Kept
          <6> QED BY <6>1 DEF InRequest
        <5> QED BY <5>1, <5>2, <5>3
      <4> QED BY <3>1, <4>4, <4>5, <4>6, <4>7, <4>8 DEF InRequest
    <3>3. Turn(q)'
      BY <1>3, <3>1 DEF Turn
    <3> QED BY <3>2, <3>3 DEF Place
  <2>3. CASE pc \in {"closed", "wild", "restart"}
    BY <2>3 DEF Place
  <2> QED BY <1>1, <2>1, <2>2, <2>3 DEF Place
<1> QED BY <1>3, <1>4, <1>7 DEF SessionInv

-----------------------------------------------------------------------------
(* Every step.                                                              *)

LEMMA InitSession == Init => SessionInv
<1> SUFFICES ASSUME Init PROVE SessionInv
  OBVIOUS
<1>1. Asked
  <2>1. PICK n \in 1..MaxRequests : requests \in [1..n -> Shapes]
    BY DEF Init
  <2>2. n \in Nat /\ n # 0
    BY RequestAssumption
  <2>3. requests \in Seq(Shapes) /\ Len(requests) = n
    BY <2>1, <2>2, LenProperties, IsASeq
  <2>4. Len(<<>>) = 0
    OBVIOUS
  <2> QED BY <2>2, <2>3, <2>4 DEF Asked
<1>2. /\ unread = Stream /\ pending = <<>> /\ answers = <<>> /\ pc = "select"
      /\ scratch = <<>> /\ offset = 0 /\ data = NewData /\ parser = NewParser /\ req = NewReq
  BY DEF Init, Stream, Sent
<1>3. /\ DOMAIN requests = 1..Len(requests) /\ Len(requests) \in Nat \ {0}
      /\ Stream \in Seq([of : 1..Len(requests), kind : AllKinds]) /\ Len(Stream) \in Nat /\ Start[1] = 0
  BY <1>1, RequestsAre, StreamIs
<1>4. Len(<<>>) = 0 /\ <<>> \in Seq(Byte) /\ <<>> \in Seq(Statuses)
  OBVIOUS
<1>5. AnsweredInOrder
  <2>1. DOMAIN <<>> = {}
    OBVIOUS
  <2> QED BY <1>2, <2>1 DEF AnsweredInOrder
<1>6. Buffers
  <2>1. unread \in Seq(Byte)
    <3>1. [of : 1..Len(requests), kind : AllKinds] \subseteq Byte
      BY <1>3 DEF Byte, AllKinds, TextKinds
    <3>2. Stream \in [1..Len(Stream) -> [of : 1..Len(requests), kind : AllKinds]]
      BY <1>3, LenProperties
    <3>3. Stream \in [1..Len(Stream) -> Byte]
      BY <3>1, <3>2
    <3> QED BY <1>2, <1>3, <3>3, IsASeq
  <2>2. data \in Data /\ data.at <= Scratch /\ data.at + data.length <= Scratch
    BY <1>2, RequestAssumption DEF NewData, Data, Seven, Statuses
  <2>3. /\ offset \in 0..Len(scratch) /\ parser \in [at : 0..Len(scratch), prev : AllKinds \cup {"start"}]
        /\ Len(scratch) <= Scratch /\ Len(pending) <= Block
    BY <1>2, <1>4, RequestAssumption DEF NewParser
  <2>4. req \in [of : Nat, hdrs : Nat, remaining : Nat]
    BY <1>2 DEF NewReq
  <2> QED BY <1>2, <1>4, <2>1, <2>2, <2>3, <2>4 DEF Buffers, Phases
<1>7. Idle(0)
  <2>1. From(0)
    <3>1. Agrees(pending, 0)
      <4>1. \A i \in 1..0 : FALSE
        OBVIOUS
      <4> QED BY <1>2, <1>4, <4>1 DEF Agrees
    <3>2. Agrees(unread, 0 + Len(pending))
      <4>1. \A i \in 1..Len(Stream) : 0 + 0 + i = i
        OBVIOUS
      <4> QED BY <1>2, <1>4, <4>1 DEF Agrees
    <3> QED BY <3>1, <3>2 DEF From
  <2>2. Due(0)
    <3>1. Len(answers) + 1 = 1 /\ 1 \in 1..Len(requests) + 1
      BY <1>2, <1>3, <1>4
    <3> QED BY <1>3, <3>1 DEF Due
  <2> QED BY <1>2, <2>1, <2>2 DEF Idle, NewReq
<1>8. Place
  BY <1>7 DEF Place
<1> QED BY <1>1, <1>5, <1>6, <1>8 DEF SessionInv

LEMMA ServerSession ==
  ASSUME SessionInv, UNCHANGED requests, Alive, Server
  PROVE  SessionInv'
<1>1. CASE \E b \in Nat : Idle(b) \/ Fresh(b) \/ Drain(b)
  <2>1. PICK b \in Nat : Idle(b) \/ Fresh(b) \/ Drain(b)
    BY <1>1
  <2>2. CASE Idle(b)
    BY <2>2, IdleStep
  <2>3. CASE Fresh(b)
    <3>1. pc \in {"read", "execute"}
      BY <2>3 DEF Fresh, Reading
    <3> QED BY <2>3, <3>1, FreshRead, FreshStep
  <2>4. CASE Drain(b)
    <3>1. ReqDelete
      BY <2>4, Elsewhere DEF Drain
    <3> QED BY <2>4, <3>1, DrainStep
  <2> QED BY <2>1, <2>2, <2>3, <2>4
<1>2. CASE \E q \in 1..Len(requests) : Turn(q) /\ InRequest(q)
  <2>1. PICK q \in 1..Len(requests) : Turn(q) /\ InRequest(q)
    BY <1>2
  <2>2. CASE InLine(q)
    <3>1. pc \in {"read", "execute"}
      BY <2>2 DEF InLine, Reading
    <3> QED BY <2>1, <2>2, <3>1, LineRead, InLineStep
  <2>3. CASE Paused(q)
    BY <2>1, <2>3, PausedStep
  <2>4. CASE InBody(q)
    <3>1. pc \in {"read", "execute"}
      BY <2>4 DEF InBody, Reading
    <3> QED BY <2>1, <2>4, <3>1, BodyRead, InBodyStep
  <2>5. CASE Serve(q)
    <3>1. pc \in {"lookup", "handle"}
      BY <2>5 DEF Serve
    <3>2. Lookup \/ (pc = "handle" /\ HandlerRecv) \/ HandlerReturns
      BY <3>1, Elsewhere
    <3> QED BY <2>1, <2>5, <3>2, LookupKeeps, ReceiveKeeps, ReturnKeeps
  <2>6. CASE \E k \in 1..Len(requests[q].headers) : InField(q, k) \/ InValue(q, k)
    <3>1. PICK k \in 1..Len(requests[q].headers) : InField(q, k) \/ InValue(q, k)
      BY <2>6
    <3>2. pc \in {"read", "execute"}
      BY <3>1 DEF InField, InValue, Reading
    <3>3. CASE InField(q, k)
      BY <2>1, <3>2, <3>3, FieldRead, InFieldStep
    <3>4. CASE InValue(q, k)
      BY <2>1, <3>2, <3>4, ValueRead, InValueStep
    <3> QED BY <3>1, <3>3, <3>4
  <2> QED BY <2>1, <2>2, <2>3, <2>4, <2>5, <2>6 DEF InRequest
<1>3. pc \notin {"closed", "wild", "restart"}
  BY DEF Alive
<1> QED BY <1>1, <1>2, <1>3 DEF SessionInv, Place

LEMMA SessionStep ==
  ASSUME SessionInv, [Next]_vars
  PROVE  SessionInv'
<1>1. CASE UNCHANGED vars
  <2>1. /\ UNCHANGED <<requests, pending, scratch, offset, data, parser, req, pc, answers>>
        /\ unread' = unread
    BY <1>1 DEF vars, input, block
  <2> QED BY <2>1, Undisturbed
<1>2. CASE UNCHANGED requests /\ Alive /\ Server
  BY <1>2, ServerSession
<1>3. CASE UNCHANGED requests /\ Main
  <2>1. UNCHANGED <<unread, pending, scratch, offset, data, parser, req, answers>>
    BY <1>3 DEF Main, Register, Install, NoMemory, RemoveHandler, input, block
  <2>2. CASE UNCHANGED pc
    BY <1>3, <2>1, <2>2, Undisturbed
  <2>3. CASE pc' = "restart"
    <3>1. AnsweredInOrder' /\ Asked'
      <4>1. pc # "closed"
        BY <1>3 DEF Main
      <4> QED BY <1>3, <2>1, <4>1, Unanswered DEF SessionInv, Asked
    <3>2. Buffers'
      <4>1. Byte' = Byte
        BY <1>3 DEF Byte
      <4> QED BY <2>1, <2>3, <4>1 DEF SessionInv, Buffers, Phases
    <3> QED BY <2>3, <3>1, <3>2 DEF SessionInv, Place
  <2> QED BY <1>3, <2>2, <2>3 DEF Main, Register, Install, NoMemory, RemoveHandler
<1>4. CASE UNCHANGED requests /\ Leave
  <2>1. /\ UNCHANGED <<requests, pending, scratch, offset, data, parser, req, pc, answers>>
        /\ unread' = <<>>
    BY <1>4 DEF Leave, block
  <2> QED BY <2>1, Undisturbed
<1>5. CASE UNCHANGED requests /\ Ended
  <2>1. /\ UNCHANGED <<requests, pending, scratch, offset, data, parser, req, pc, answers>>
        /\ unread' = unread
    BY <1>5 DEF Ended, input, block
  <2> QED BY <2>1, Undisturbed
<1> QED BY <1>1, <1>2, <1>3, <1>4, <1>5 DEF Next

\* What follows r bytes before the end of a request is the rest of its body,
\* and then the next request.
LEMMA RestFollows ==
  ASSUME Asked, pending \in Seq(Byte), unread \in Seq(Byte), NEW q \in 1..Len(requests),
         NEW b \in Nat, NEW r \in Nat, b + r = Start[q + 1], r <= requests[q].body, From(b)
  PROVE  LET rest == pending \o unread
         IN  /\ \A i \in DOMAIN rest : i <= r => rest[i] = [of |-> q, kind |-> "d"]
             /\ Len(rest) > r => rest[r + 1] = [of |-> q + 1, kind |-> "m"]
<1> DEFINE rest == pending \o unread
           s == requests[q]
<1>1. PICK p \in Nat, u \in Nat : p = Len(pending) /\ u = Len(unread)
  BY LenProperties
<1>2. /\ rest \in Seq(Byte) /\ Len(rest) = p + u /\ DOMAIN rest = 1..p + u
      /\ \A i \in 1..p : rest[i] = pending[i]
      /\ \A i \in 1..u : rest[p + i] = unread[i]
  BY SMTT(40), <1>1, Joined, LenProperties
<1> HIDE DEF rest
<1>3. ASSUME NEW i \in 1..p + u PROVE b + i \in 1..Len(Stream) /\ rest[i] = Stream[b + i]
  <2>1. CASE i \in 1..p
    BY <1>1, <1>2, <2>1 DEF From, Agrees
  <2>2. CASE i \notin 1..p
    <3>1. PICK j \in 1..u : i = p + j
      <4>1. i - p \in 1..u /\ i = p + (i - p)
        BY <2>2
      <4> QED BY <4>1
    <3>2. b + p + j \in 1..Len(Stream) /\ unread[j] = Stream[b + p + j]
      BY <1>1 DEF From, Agrees
    <3>3. b + p + j = b + i
      BY <3>1
    <3> QED BY <1>2, <3>1, <3>2, <3>3
  <2> QED BY <2>1, <2>2
<1>4. /\ Start[q + 1] = BodyFrom(q) + s.body /\ BodyFrom(q) \in Nat /\ s.body \in Nat
      /\ \A x \in BodyFrom(q) + 1..Start[q + 1] : Stream[x] = [of |-> q, kind |-> "d"]
      /\ Len(requests) \in Nat /\ Len(Stream) \in Nat /\ Start[Len(requests) + 1] = Len(Stream)
  BY RequestsAre, StreamIs
<1>5. ASSUME NEW i \in 1..p + u, i <= r PROVE rest[i] = [of |-> q, kind |-> "d"]
  <2>1. PICK f \in Nat, d \in Nat : f = BodyFrom(q) /\ d = s.body
    BY <1>4
  <2>2. b + r = f + d /\ r <= d
    BY <1>4, <2>1
  <2>3. b + i \in f + 1..b + r
    <3>1. r \in Nat /\ b \in Nat /\ i \in Nat /\ i >= 1 /\ i <= r
      BY <1>5
    <3> QED BY ONLY <2>2, <3>1, f \in Nat, d \in Nat
  <2> QED BY <1>3, <1>4, <2>1, <2>3
<1>6. ASSUME p + u > r PROVE rest[r + 1] = [of |-> q + 1, kind |-> "m"]
  <2>1. r + 1 \in 1..p + u /\ b + (r + 1) = Start[q + 1] + 1
    BY <1>6
  <2>2. Start[q + 1] + 1 \in 1..Len(Stream) /\ rest[r + 1] = Stream[Start[q + 1] + 1]
    <3>1. b + (r + 1) \in 1..Len(Stream) /\ rest[r + 1] = Stream[b + (r + 1)]
      BY <1>3, <2>1
    <3> QED BY <2>1, <3>1
  <2>3. q + 1 \in 1..Len(requests)
    <3>1. q # Len(requests)
      <4>1. ~(Len(Stream) + 1 \in 1..Len(Stream))
        BY <1>4
      <4> QED BY <1>4, <2>2, <4>1
    <3> QED BY <1>4, <3>1
  <2>4. PICK k \in 1..Len(requests) : k = q + 1
    BY <2>3
  <2>5. Stream[Start[k] + 1] = [of |-> k, kind |-> "m"]
    <3>1. requests[k] \in Shapes
      BY RequestsAre
    <3>2. 1 \in 1..requests[k].url + 4 /\ RequestLine(requests[k])[1] = "m"
      BY SMTT(40), <3>1, RequestLineIs
    <3> QED BY ZenonT(60), <3>2, StreamIs
  <2> QED BY <2>2, <2>4, <2>5
<1> QED BY <1>2, <1>5, <1>6 DEF rest

LEMMA SessionFramed ==
  ASSUME SessionInv
  PROVE  Framed
<1> SUFFICES ASSUME pc \in {"select", "lookup", "handle", "drain"}, InStep, req.of # 0
             PROVE  LET rest == pending \o unread
                    IN  /\ \A i \in DOMAIN rest : i <= req.remaining => rest[i] = [of |-> req.of, kind |-> "d"]
                        /\ Len(rest) > req.remaining => rest[req.remaining + 1] = [of |-> req.of + 1, kind |-> "m"]
  BY DEF Framed
<1>1. /\ Asked /\ pending \in Seq(Byte) /\ unread \in Seq(Byte) /\ answers \in Seq(Statuses)
      /\ req.of \in Nat /\ req.remaining \in Nat /\ Place /\ Len(answers) \in Nat /\ Len(requests) \in Nat
  BY RequestsAre, LenProperties DEF SessionInv, Buffers
<1>2. \E q \in 1..Len(requests), b \in Nat, r \in Nat :
         /\ q = req.of /\ r = req.remaining /\ b + r = Start[q + 1] /\ r <= requests[q].body /\ From(b)
  <2>1. CASE \E b \in Nat : Idle(b) \/ Fresh(b) \/ Drain(b)
    <3>1. PICK b \in Nat : Idle(b) \/ Fresh(b) \/ Drain(b)
      BY <2>1
    <3>2. ~Fresh(b)
      BY DEF Fresh, Reading
    <3>3. CASE Idle(b)
      <4>1. /\ req.remaining = 0 /\ req.of = Len(answers) /\ From(b) /\ Len(answers) + 1 \in 1..Len(requests) + 1
            /\ b = Start[Len(answers) + 1]
        BY <3>3 DEF Idle, Due
      <4>2. Len(answers) \in 1..Len(requests)
        BY <1>1, <4>1
      <4>3. requests[Len(answers)].body \in Nat
        BY <1>1, <4>2, StreamIs
      <4>4. b + 0 = b /\ 0 <= requests[Len(answers)].body
        BY <4>3
      <4> QED BY <1>1, <4>1, <4>2, <4>4
    <3>4. CASE Drain(b)
      BY <1>1, <3>4 DEF Drain
    <3> QED BY <3>1, <3>2, <3>3, <3>4
  <2>2. CASE \E q \in 1..Len(requests) : Turn(q) /\ InRequest(q)
    <3>1. PICK q \in 1..Len(requests) : Turn(q) /\ InRequest(q)
      BY <2>2
    <3>2. Serve(q)
      BY <3>1 DEF InRequest, InLine, Paused, InField, InValue, InBody, Reading
    <3>3. /\ req.of = q /\ req.remaining <= requests[q].body /\ Start[q + 1] \in Nat
          /\ Start[q + 1] - req.remaining \in Nat /\ From(Start[q + 1] - req.remaining)
      BY <3>2, ServeFacts
    <3>4. PICK x \in Nat, r \in Nat : x = Start[q + 1] /\ r = req.remaining
      BY <1>1, <3>3
    <3>5. PICK b \in Nat : b = x - r /\ From(b)
      BY <3>3, <3>4
    <3>6. b + r = x
      BY <3>5
    <3> QED BY <3>3, <3>4, <3>5, <3>6
  <2> QED BY <1>1, <2>1, <2>2 DEF Place
<1>3. PICK q \in 1..Len(requests), b \in Nat, r \in Nat :
         /\ q = req.of /\ r = req.remaining /\ b + r = Start[q + 1] /\ r <= requests[q].body /\ From(b)
  BY <1>2
<1> QED BY <1>1, <1>3, RestFollows

-----------------------------------------------------------------------------
(* The theorems.                                                            *)

\* A session is always at a place in the bytes of its connection, with the
\* buffers, the parser's state and the request that belong to it: for requests
\* of any shape, any sizes of the blocks and of scratch, and any pieces.
THEOREM SessionPlaced == Spec => []SessionInv
<1>1. SessionInv /\ [Next]_vars => SessionInv'
  BY SessionStep
<1> QED BY <1>1, InitSession, PTL DEF Spec

\* The entries that are written are the handlers registered and not removed
\* (httpd_register_uri_handler, httpd_unregister_uri_handler, httpd_unregister_uri),
\* with any number of slots, handlers and calls.
THEOREM TableServed == Spec => []ServedInv
<1>1. ServedInv /\ [Next]_vars => ServedInv'
  BY ServedStep
<1> QED BY <1>1, InitServed, PTL DEF Spec

\* No buffer overflows: a block never passes the end of scratch (read_block),
\* what is put back never passes pending_data (httpd_unrecv), and the places of
\* parser_data_t are inside scratch.
THEOREM BuffersFit == Spec => []TypeOK
<1>1. SessionInv /\ ServedInv => TypeOK
  <2> SUFFICES ASSUME SessionInv, ServedInv PROVE TypeOK
    OBVIOUS
  <2>1. /\ Buffers /\ data \in Data /\ hd_calls \in Table /\ served \subseteq Handler
        /\ parser \in [at : 0..Len(scratch), prev : AllKinds \cup {"start"}]
        /\ req \in [of : Nat, hdrs : Nat, remaining : Nat]
    BY DEF SessionInv, ServedInv, Buffers
  <2>2. data.status \in Seven /\ data.pre \in 0..Block /\ data.error \in Statuses
    BY <2>1 DEF Data
  <2>3. parser.at \in 0..Len(scratch) /\ req.hdrs \in Nat /\ req.remaining \in Nat
    BY <2>1
  <2> QED BY <2>1, <2>2, <2>3 DEF TypeOK, Buffers, Seven, Phases
<1> QED BY <1>1, SessionPlaced, TableServed, PTL

\* Whatever the pieces TCP delivers, each request has the answer its shape calls
\* for and in its turn, until one has a parse error (httpd_req_new, parse_block,
\* verify_url and the callbacks of http_parser).
THEOREM AnswersInTurn == Spec => []AnsweredInOrder
<1>1. SessionInv => AnsweredInOrder
  BY DEF SessionInv
<1> QED BY <1>1, SessionPlaced, PTL

\* A request never reads the bytes of the next one, and leaves none of its own
\* (pause_parsing, httpd_unrecv, httpd_req_recv, httpd_req_delete).
THEOREM RequestsFramed == Spec => []Framed
BY SessionPlaced, SessionFramed, PTL

\* What the parser kept of the headers is whole when the handler looks for them
\* in scratch, over the pause that moves them to its start.
THEOREM HeadersInScratch == Spec => []HeadersKept
<1>1. SessionInv => HeadersKept
  <2> SUFFICES ASSUME SessionInv, pc \in {"lookup", "handle"}
               PROVE  LET s == requests[req.of]
                          text == HeaderText(s)
                          inner == Len(text) - 3
                      IN  /\ req.hdrs = Len(s.headers)
                          /\ Len(scratch) >= inner
                          /\ \A i \in 1..inner + 1 :
                               scratch[i] = [of |-> req.of, kind |-> IF text[i] = "l" THEN "NUL" ELSE text[i]]
    BY DEF HeadersKept
  <2>1. PICK q \in 1..Len(requests) : Serve(q)
    BY DEF SessionInv, Place, Idle, Fresh, Drain, InRequest, InLine, Paused, InField, InValue, InBody, Reading
  <2> DEFINE text == HeaderText(requests[q])
  <2>2. /\ req.of = q /\ req.hdrs = Len(requests[q].headers) /\ requests[q] \in Shapes
        /\ Kept(q, Len(text), Len(text))
    BY <2>1, ServeFacts
  <2>3. PICK L \in Nat : L = Len(text)
    BY <2>2, TextIs
  <2>4. L <= Len(scratch) /\ Len(scratch) \in Nat
    BY <2>2, <2>3, LenProperties DEF Kept, SessionInv, Buffers
  <2>5. \A i \in 1..L - 3 + 1 : i \in 1..L /\ i <= L
    OBVIOUS
  <2>6. \A i \in 1..L : scratch[i] = [of |-> q, kind |-> IF text[i] = "l" /\ i <= L THEN "NUL" ELSE text[i]]
    BY <2>2, <2>3 DEF Kept
  <2>7. \A i \in 1..L - 3 + 1 : scratch[i] = [of |-> q, kind |-> IF text[i] = "l" THEN "NUL" ELSE text[i]]
    BY <2>5, <2>6
  <2> QED BY SMTT(40), <2>2, <2>3, <2>4, <2>7
<1> QED BY <1>1, SessionPlaced, PTL

-----------------------------------------------------------------------------
(* A lookup is exact.                                                       *)

\* What a search finds in a table with no entry half written is what is served.
LEMMA FindExact ==
  ASSUME ServedInv, ~ ReadsGarbage, NEW h
  PROVE  Find(h) = IF h \in served THEN "found"
                   ELSE IF \E g \in served : g.uri = h.uri THEN "405" ELSE "404"
<1>1. Installed = served
  BY DEF ServedInv, ReadsGarbage
<1> QED BY <1>1 DEF Find

\* A step of the session from a lookup to the handler, or to an answer that is
\* sent, is the search; and its answer is the last one.
LEMMA LookupStep ==
  ASSUME ServedInv, SessionInv, Next, pc = "lookup", pc' \in {"handle", "drain"}
  PROVE  LET h == requests[req.of].target
         IN  IF h \in served THEN pc' = "handle"
             ELSE Last(answers') = IF \E g \in served : g.uri = h.uri THEN "405" ELSE "404"
<1> DEFINE h == requests[req.of].target
<1>1. Lookup
  <2>1. CASE Server
    BY <2>1, Elsewhere
  <2>2. CASE Main
    BY <2>2 DEF Main, Register, Install, NoMemory, RemoveHandler
  <2>3. CASE Leave \/ Ended
    BY <2>3 DEF Leave, Ended
  <2> QED BY <2>1, <2>2, <2>3 DEF Next
<1>2. ~ ReadsGarbage /\ \/ Find(h) = "found" /\ pc' = "handle"
                        \/ Find(h) # "found" /\ answers' = Append(answers, Find(h)) /\ pc' = "drain"
  BY <1>1 DEF Lookup, SendErr, Answer, Close
<1>3. CASE h \in served
  BY <1>2, <1>3, FindExact
<1>4. CASE h \notin served
  <2>1. Find(h) = IF \E g \in served : g.uri = h.uri THEN "405" ELSE "404"
    BY <1>2, <1>4, FindExact
  <2>2. answers' = Append(answers, Find(h)) /\ Find(h) \in Statuses
    BY <1>2, <2>1 DEF Statuses
  <2>3. Last(answers') = Find(h)
    BY <2>2 DEF SessionInv, Buffers, Last
  <2> QED BY <1>4, <2>1, <2>3
<1> QED BY <1>3, <1>4

\* httpd_uri finds a handler exactly if it is registered, and 405 and 404 are
\* answered as they should be, for any requests, table and order of the calls.
THEOREM LookupIsExact == Spec => LookupExact
<1>1. ServedInv /\ SessionInv /\ [Next]_vars =>
        [pc = "lookup" /\ pc' \in {"handle", "drain"} =>
           LET h == requests[req.of].target
           IN  IF h \in served THEN pc' = "handle"
               ELSE Last(answers') = IF \E g \in served : g.uri = h.uri THEN "405" ELSE "404"]_vars
  <2>1. CASE Next
    BY <2>1, LookupStep
  <2>2. CASE UNCHANGED vars
    BY <2>2
  <2> QED BY <2>1, <2>2
<1> QED BY <1>1, SessionPlaced, TableServed, PTL DEF Spec, LookupExact
=============================================================================
