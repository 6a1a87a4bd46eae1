-------------------------- MODULE JpgHandler_proofs --------------------------
(***************************************************************************)
(* Proofs about the answers to GETs of /jpg, for any frames, headers,      *)
(* failing allocations and sends: a response the client sees as complete   *)
(* has all that the camera or the encoder gave, and one that the handler   *)
(* reports as sent is complete.                                            *)
(***************************************************************************)
EXTENDS ResponseReader, Numbers

-----------------------------------------------------------------------------
(* Sequences joined.                                                       *)

\* The elements of two sequences joined.  Named, because the provers lose their
\* way where they may unfold what is joined.
Join(s, t, S) ==
  /\ s \o t \in Seq(S) /\ Len(s) \in Nat /\ Len(t) \in Nat /\ Len(s \o t) = Len(s) + Len(t)
  /\ \A i \in 1..Len(s) : (s \o t)[i] = s[i]
  /\ \A i \in 1..Len(t) : (s \o t)[Len(s) + i] = t[i]
Grouped(s, t, u) == (s \o t) \o u = s \o (t \o u)

LEMMA Joined == \A S : \A s, t \in Seq(S) : Join(s, t, S)
<1> SUFFICES ASSUME NEW S, NEW s \in Seq(S), NEW t \in Seq(S) PROVE Join(s, t, S)
  OBVIOUS
<1>1. /\ s \o t \in Seq(S) /\ Len(s \o t) = Len(s) + Len(t)
      /\ \A i \in 1 .. Len(s) + Len(t) : (s \o t)[i] = IF i <= Len(s) THEN s[i] ELSE t[i - Len(s)]
  BY ConcatProperties
<1>2. Len(s) \in Nat /\ Len(t) \in Nat
  BY LenProperties
<1>3. ASSUME NEW i \in 1..Len(t) PROVE (s \o t)[Len(s) + i] = t[i]
  <2>1. Len(s) + i \in 1..Len(s) + Len(t) /\ ~ (Len(s) + i <= Len(s)) /\ Len(s) + i - Len(s) = i
    BY <1>2
  <2> QED BY <1>1, <2>1
<1> QED BY <1>1, <1>2, <1>3 DEF Join

LEMMA Groups == \A S : \A s, t, u \in Seq(S) : Grouped(s, t, u)
BY ConcatAssociative DEF Grouped

\* A sequence of one.
LEMMA Single ==
  ASSUME NEW S, NEW x \in S
  PROVE  <<x>> \in Seq(S) /\ Len(<<x>>) = 1 /\ <<x>>[1] = x
OBVIOUS

\* FlattenSeq takes the sequences one by one.
Joins(f, seqs, n) ==
  f[1] = seqs[1] /\ \A i \in 1..n : i < n => f[i + 1] = f[i] \o seqs[i + 1]

LEMMA FlattenJoins ==
  ASSUME NEW seqs, NEW n \in Nat \ {0}, Len(seqs) = n
  PROVE  \E f : FlattenSeq(seqs) = f[n] /\ Joins(f, seqs, n)
<1>1. PICK f : /\ FlattenSeq(seqs) = f[n]
               /\ \A i \in 1..n : f[i] = IF i = 1 THEN seqs[i] ELSE f[i - 1] \o seqs[i]
  BY FlattenSteps
<1>2. f[1] = seqs[1]
  BY <1>1
<1>3. ASSUME NEW i \in 1..n, i < n PROVE f[i + 1] = f[i] \o seqs[i + 1]
  <2> DEFINE k == i + 1
  <2>1. k \in 1..n /\ k # 1 /\ k - 1 = i
    BY <1>3
  <2> HIDE DEF k
  <2>2. f[k] = IF k = 1 THEN seqs[k] ELSE f[k - 1] \o seqs[k]
    BY <1>1, <2>1
  <2>3. f[k] = f[i] \o seqs[k]
    BY ONLY <2>1, <2>2
  <2> QED BY <2>3 DEF k
<1> QED BY <1>1, <1>2, <1>3 DEF Joins

LEMMA FlattenAppend ==
  ASSUME NEW S, NEW s \in Seq(Seq(S)), NEW x \in Seq(S)
  PROVE  FlattenSeq(s) \in Seq(S) /\ FlattenSeq(Append(s, x)) = FlattenSeq(s) \o x
<1> DEFINE n == Len(s)
           t == Append(s, x)
<1>1. /\ n \in Nat /\ t \in Seq(Seq(S)) /\ Len(t) = n + 1 /\ t[n + 1] = x
      /\ \A i \in 1..n : t[i] = s[i] /\ s[i] \in Seq(S)
  BY AppendProperties, LenProperties, ElementOfSeq
<1> HIDE DEF n, t
<1>2. PICK g : FlattenSeq(t) = g[n + 1] /\ Joins(g, t, n + 1)
  <2>1. n + 1 \in Nat \ {0}
    BY <1>1
  <2> QED BY <1>1, <2>1, FlattenJoins
<1>3. CASE n = 0
  <2>1. s = <<>> /\ FlattenSeq(s) = <<>>
    BY <1>1, <1>3 DEF FlattenSeq, n
  <2>2. FlattenSeq(t) = x
    BY <1>1, <1>2, <1>3 DEF Joins
  <2>3. <<>> \in Seq(S) /\ <<>> \o x = x
    BY ConcatEmptySeq, EmptySeq
  <2> QED BY <2>1, <2>2, <2>3 DEF t
<1>4. CASE n # 0
  <2>1. n \in Nat \ {0}
    BY <1>1, <1>4
  <2>2. PICK f : FlattenSeq(s) = f[n] /\ Joins(f, s, n)
    BY <2>1, FlattenJoins DEF n
  <2> DEFINE P == {m \in Nat : m + 1 \in 1..n => f[m + 1] \in Seq(S) /\ g[m + 1] = f[m + 1]}
  <2>3. 0 \in P
    <3>1. 1 \in 1..n
      BY <2>1
    <3> QED BY <1>1, <1>2, <2>2, <3>1 DEF Joins
  <2>4. ASSUME NEW m \in Nat, m \in P PROVE m + 1 \in P
    <3> SUFFICES ASSUME m + 2 \in 1..n PROVE f[m + 2] \in Seq(S) /\ g[m + 2] = f[m + 2]
      BY <2>4
    <3>1. m + 1 \in 1..n /\ m + 1 < n /\ m + 1 \in 1..n + 1 /\ m + 1 < n + 1 /\ m + 1 + 1 = m + 2
      BY <2>1
    <3>2. f[m + 1] \in Seq(S) /\ g[m + 1] = f[m + 1]
      BY <2>4, <3>1
    <3>3. f[m + 1 + 1] = f[m + 1] \o s[m + 1 + 1] /\ g[m + 1 + 1] = g[m + 1] \o t[m + 1 + 1]
      BY <1>2, <2>2, <3>1 DEF Joins
    <3>4. t[m + 2] = s[m + 2] /\ s[m + 2] \in Seq(S)
      BY <1>1
    <3>5. f[m + 1] \o s[m + 2] \in Seq(S)
      BY <3>2, <3>4, ConcatProperties
    <3> QED BY <3>1, <3>2, <3>3, <3>4, <3>5
  <2>5. n - 1 \in P
    <3>1. n - 1 \in Nat
      BY <2>1
    <3> HIDE DEF P
    <3>2. Nat \subseteq P
      BY <2>3, <2>4, AllNumbers
    <3> QED BY <3>1, <3>2
  <2>6. f[n] \in Seq(S) /\ g[n] = f[n]
    <3>1. n - 1 + 1 = n /\ n \in 1..n
      BY <2>1
    <3> QED BY <2>5, <3>1
  <2>7. g[n + 1] = g[n] \o x
    <3>1. n \in 1..n + 1 /\ n < n + 1
      BY <2>1
    <3> QED BY <1>1, <1>2, <3>1 DEF Joins
  <2> QED BY <1>2, <2>2, <2>6, <2>7 DEF t
<1> QED BY <1>3, <1>4

LEMMA FlattenEmpty == FlattenSeq(<<>>) = <<>>
BY DEF FlattenSeq

LEMMA FlattenOne ==
  ASSUME NEW S, NEW x \in Seq(S)
  PROVE  FlattenSeq(<<x>>) = x
<1>1. <<>> \in Seq(Seq(S)) /\ <<>> \in Seq(S) /\ Append(<<>>, x) = <<x>>
  BY EmptySeq
<1>2. FlattenSeq(<<x>>) = <<>> \o x
  <2>1. FlattenSeq(Append(<<>>, x)) = FlattenSeq(<<>>) \o x
    BY <1>1, FlattenAppend
  <2> QED BY <1>1, <2>1, FlattenEmpty
<1> QED BY <1>2, ConcatEmptySeq

LEMMA FlattenCat ==
  ASSUME NEW S, NEW s \in Seq(Seq(S)), NEW t \in Seq(Seq(S))
  PROVE  FlattenSeq(s \o t) = FlattenSeq(s) \o FlattenSeq(t)
<1> DEFINE P == {m \in Nat : \A u \in Seq(Seq(S)) :
                   Len(u) = m => FlattenSeq(s \o u) = FlattenSeq(s) \o FlattenSeq(u)}
<1>0. FlattenSeq(s) \in Seq(S)
  <2>1. <<>> \in Seq(S)
    BY EmptySeq
  <2> QED BY <2>1, FlattenAppend
<1>1. 0 \in P
  <2> SUFFICES ASSUME NEW u \in Seq(Seq(S)), Len(u) = 0
               PROVE  FlattenSeq(s \o u) = FlattenSeq(s) \o FlattenSeq(u)
    OBVIOUS
  <2>1. u = <<>> /\ s \o u = s
    BY EmptySeq, ConcatEmptySeq
  <2>2. FlattenSeq(s) \o <<>> = FlattenSeq(s)
    BY <1>0, ConcatEmptySeq
  <2> QED BY <2>1, <2>2, FlattenEmpty
<1>2. ASSUME NEW m \in Nat, m \in P PROVE m + 1 \in P
  <2> SUFFICES ASSUME NEW u \in Seq(Seq(S)), Len(u) = m + 1
               PROVE  FlattenSeq(s \o u) = FlattenSeq(s) \o FlattenSeq(u)
    OBVIOUS
  <2>1. PICK v \in Seq(Seq(S)), x \in Seq(S) : u = Append(v, x)
    <3>1. u # <<>>
      OBVIOUS
    <3> QED BY <3>1, SequenceEmptyOrAppend
  <2>2. Len(v) = m
    <3>1. Len(v) \in Nat /\ Len(Append(v, x)) = Len(v) + 1
      BY <2>1, AppendProperties, LenProperties
    <3> QED BY <2>1, <3>1
  <2>3. FlattenSeq(s \o v) = FlattenSeq(s) \o FlattenSeq(v)
    BY <1>2, <2>2
  <2>4. s \o u = Append(s \o v, x) /\ s \o v \in Seq(Seq(S))
    <3>1. u = v \o <<x>> /\ <<x>> \in Seq(Seq(S)) /\ s \o v \in Seq(Seq(S))
      BY <2>1, AppendIsConcat, ConcatProperties
    <3>2. s \o (v \o <<x>>) = (s \o v) \o <<x>>
      BY <3>1, ConcatAssociative
    <3>3. Append(s \o v, x) = (s \o v) \o <<x>>
      BY <3>1, AppendIsConcat
    <3> QED BY <3>1, <3>2, <3>3
  <2>5. FlattenSeq(Append(s \o v, x)) = FlattenSeq(s \o v) \o x
    BY <2>4, FlattenAppend
  <2>6. FlattenSeq(u) = FlattenSeq(v) \o x /\ FlattenSeq(v) \in Seq(S)
    BY <2>1, FlattenAppend
  <2>7. (FlattenSeq(s) \o FlattenSeq(v)) \o x = FlattenSeq(s) \o (FlattenSeq(v) \o x)
    <3> DEFINE a == FlattenSeq(s)
               c == FlattenSeq(v)
    <3>1. a \in Seq(S) /\ c \in Seq(S) /\ x \in Seq(S)
      BY <1>0, <2>6
    <3> HIDE DEF a, c
    <3>2. Grouped(a, c, x)
      BY <3>1, Groups, Zenon
    <3> QED BY ONLY <3>2 DEF a, c, Grouped
  <2> QED BY <2>3, <2>4, <2>5, <2>6, <2>7
<1>3. Len(t) \in P
  <2> HIDE DEF P
  <2>1. Nat \subseteq P
    BY <1>1, <1>2, AllNumbers
  <2> QED BY <2>1, LenProperties
<1> QED BY <1>3

LEMMA FlattenIn ==
  ASSUME NEW S, NEW s \in Seq(Seq(S))
  PROVE  FlattenSeq(s) \in Seq(S)
<1>1. <<>> \in Seq(S)
  BY EmptySeq
<1> QED BY <1>1, FlattenAppend

LEMMA FlattenCons ==
  ASSUME NEW S, NEW x \in Seq(S), NEW t \in Seq(Seq(S))
  PROVE  FlattenSeq(<<x>> \o t) = x \o FlattenSeq(t)
<1>1. <<x>> \in Seq(Seq(S))
  OBVIOUS
<1>2. FlattenSeq(<<x>>) = x
  BY FlattenOne
<1> QED BY <1>1, <1>2, FlattenCat

-----------------------------------------------------------------------------
(* What the client reads.                                                  *)

Tok == [t : {"length", "chunked", "error", "header", "blank", "size", "byte", "crlf"}, v : Nat]
Data == Seq(Nat)

Chunk(b) == <<Token("size", Len(b))>> \o Bytes(b) \o <<Token("crlf", 0)>>
ChunksOf(bs) == FlattenSeq([i \in DOMAIN bs |-> Chunk(bs[i])])

\* w is the beginning of s.
Begins(w, s) == Len(w) <= Len(s) /\ \A i \in 1..Len(w) : w[i] = s[i]

LEMMA BytesIs ==
  ASSUME NEW b \in Data
  PROVE  /\ Bytes(b) \in Seq(Tok) /\ Len(Bytes(b)) = Len(b)
         /\ \A i \in 1..Len(b) : Bytes(b)[i] = Token("byte", b[i])
<1>1. Len(b) \in Nat /\ DOMAIN b = 1..Len(b) /\ \A i \in 1..Len(b) : b[i] \in Nat
  BY LenProperties, ElementOfSeq DEF Data
<1>2. Bytes(b) = [i \in 1..Len(b) |-> Token("byte", b[i])]
  BY <1>1 DEF Bytes
<1>3. \A i \in 1..Len(b) : Token("byte", b[i]) \in Tok
  BY <1>1 DEF Token, Tok
<1>4. [i \in 1..Len(b) |-> Token("byte", b[i])] \in Seq(Tok)
  BY <1>1, <1>3
<1> QED BY <1>1, <1>2, <1>4

LEMMA ChunkIs ==
  ASSUME NEW b \in Data
  PROVE  /\ Chunk(b) \in Seq(Tok) /\ Len(b) \in Nat /\ Len(Chunk(b)) = Len(b) + 2
         /\ Chunk(b)[1] = Token("size", Len(b))
         /\ \A i \in 1..Len(b) : Chunk(b)[i + 1] = Token("byte", b[i])
         /\ Chunk(b)[Len(b) + 2] = Token("crlf", 0)
<1> DEFINE x == <<Token("size", Len(b))>>
           y == Bytes(b)
           z == <<Token("crlf", 0)>>
<1>1. Len(b) \in Nat
  BY LenProperties DEF Data
<1>2. x \in Seq(Tok) /\ Len(x) = 1 /\ x[1] = Token("size", Len(b))
  <2>1. Token("size", Len(b)) \in Tok
    BY <1>1 DEF Token, Tok
  <2> QED BY <2>1
<1>3. z \in Seq(Tok) /\ Len(z) = 1 /\ z[1] = Token("crlf", 0)
  <2>1. Token("crlf", 0) \in Tok
    BY DEF Token, Tok
  <2> QED BY <2>1
<1>4. y \in Seq(Tok) /\ Len(y) = Len(b) /\ \A i \in 1..Len(b) : y[i] = Token("byte", b[i])
  BY BytesIs
<1>5. Chunk(b) = (x \o y) \o z
  BY DEF Chunk
<1> HIDE DEF x, y, z
<1>6. /\ x \o y \in Seq(Tok) /\ Len(x \o y) = 1 + Len(b) /\ (x \o y)[1] = x[1]
      /\ \A i \in 1..Len(b) : (x \o y)[1 + i] = y[i]
  <2>1. Join(x, y, Tok)
    BY <1>2, <1>4, Joined, Zenon
  <2> QED BY <1>2, <1>4, <2>1 DEF Join
<1>7. /\ (x \o y) \o z \in Seq(Tok) /\ Len((x \o y) \o z) = 1 + Len(b) + 1
      /\ \A i \in 1..1 + Len(b) : ((x \o y) \o z)[i] = (x \o y)[i]
      /\ ((x \o y) \o z)[1 + Len(b) + 1] = z[1]
  <2> DEFINE u == x \o y
  <2>1. u \in Seq(Tok) /\ Len(u) = 1 + Len(b)
    BY <1>6
  <2> HIDE DEF u
  <2>2. Join(u, z, Tok)
    BY <1>3, <2>1, Joined, Zenon
  <2>3. /\ u \o z \in Seq(Tok) /\ Len(u \o z) = 1 + Len(b) + 1
        /\ \A i \in 1..1 + Len(b) : (u \o z)[i] = u[i]
        /\ (u \o z)[1 + Len(b) + 1] = z[1]
    BY <1>3, <2>1, <2>2 DEF Join
  <2> QED BY <2>3 DEF u
<1>8. ASSUME NEW i \in 1..Len(b) PROVE 1 + i \in 1..1 + Len(b) /\ 1 + i = i + 1
  BY <1>1
<1>9. 1 \in 1..1 + Len(b) /\ 1 + Len(b) + 1 = Len(b) + 2
  BY <1>1
<1> QED BY <1>1, <1>2, <1>3, <1>4, <1>5, <1>6, <1>7, <1>8, <1>9

LEMMA EmptyData == <<>> \in Data /\ Len(<<>>) = 0
BY EmptySeq DEF Data

\* The reader is defined by recursion, from the end on.
ReadAt(w, g, p) ==
  IF ~ ChunkAt(w, p) THEN Nothing
  ELSE IF w[p].v = 0 THEN [complete |-> TRUE, body |-> <<>>]
  ELSE [complete |-> g[p + w[p].v + 2].complete,
        body     |-> Values(SubSeq(w, p + 1, p + w[p].v)) \o g[p + w[p].v + 2].body]

LEMMA ChunksDefined ==
  ASSUME NEW w \in Seq(Tok)
  PROVE  \E g : g = [p \in 1..Len(w) + 1 |-> ReadAt(w, g, p)]
<1> DEFINE n == Len(w) + 1
           P == {m \in Nat : m <= n => \E g : g = [p \in n + 1 - m..n |-> ReadAt(w, g, p)]}
<1>0. n \in Nat /\ Len(w) \in Nat
  BY LenProperties
<1> HIDE DEF n
<1>1. 0 \in P
  <2> DEFINE g == [p \in n + 1..n |-> w]
  <2>1. g = [p \in n + 1..n |-> ReadAt(w, g, p)]
    BY <1>0
  <2>2. n + 1 - 0 = n + 1
    BY <1>0
  <2> QED BY <2>1, <2>2
<1>2. ASSUME NEW m \in Nat, m \in P PROVE m + 1 \in P
  <2> SUFFICES ASSUME m + 1 <= n PROVE \E h : h = [p \in n + 1 - (m + 1)..n |-> ReadAt(w, h, p)]
    OBVIOUS
  <2>1. PICK g : g = [p \in n + 1 - m..n |-> ReadAt(w, g, p)]
    BY <1>0, <1>2
  <2> DEFINE D == n + 1 - (m + 1)..n
             h == [p \in D |-> ReadAt(w, g, p)]
  <2>2. ASSUME NEW q \in n + 1 - m..n PROVE h[q] = g[q]
    <3>1. q \in D
      BY <1>0
    <3> QED BY <2>1, <3>1
  <2>3. ASSUME NEW p \in D PROVE ReadAt(w, h, p) = ReadAt(w, g, p)
    <3>1. CASE ChunkAt(w, p)
      <4>1. p \in 1..Len(w) /\ w[p].v \in Nat /\ p + w[p].v + 1 <= Len(w)
        <5>1. p \in Int /\ p >= 1 /\ p <= Len(w)
          BY <1>0, <3>1 DEF ChunkAt
        <5>2. w[p] \in Tok
          BY <1>0, <5>1, ElementOfSeq
        <5> QED BY <1>0, <3>1, <5>1, <5>2 DEF ChunkAt, Tok
      <4>2. p + w[p].v + 2 \in n + 1 - m..n
        <5>1. p >= n - m /\ n = Len(w) + 1
          BY <1>0 DEF n
        <5> QED BY <1>0, <4>1, <5>1
      <4>3. h[p + w[p].v + 2] = g[p + w[p].v + 2]
        BY <2>2, <4>2
      <4> QED BY <4>3 DEF ReadAt
    <3>2. CASE ~ ChunkAt(w, p)
      BY <3>2 DEF ReadAt
    <3> QED BY <3>1, <3>2
  <2>4. h = [p \in D |-> ReadAt(w, h, p)]
    <3> HIDE DEF h, D
    <3>1. h = [p \in D |-> ReadAt(w, g, p)]
      BY DEF h
    <3> QED BY <2>3, <3>1
  <2> HIDE DEF h
  <2> QED BY <2>4, Zenon
<1>3. n \in P
  <2> HIDE DEF P
  <2> QED BY <1>0, <1>1, <1>2, AllNumbers
<1>4. \E g : g = [p \in n + 1 - n..n |-> ReadAt(w, g, p)]
  BY <1>0, <1>3
<1>5. n + 1 - n = 1
  BY <1>0
<1> QED BY <1>4, <1>5 DEF n

LEMMA ChunksStep ==
  ASSUME NEW w \in Seq(Tok), NEW p \in 1..Len(w) + 1
  PROVE  Chunks(w, p) =
           IF ~ ChunkAt(w, p) THEN Nothing
           ELSE IF w[p].v = 0 THEN [complete |-> TRUE, body |-> <<>>]
           ELSE [complete |-> Chunks(w, p + w[p].v + 2).complete,
                 body     |-> Values(SubSeq(w, p + 1, p + w[p].v)) \o Chunks(w, p + w[p].v + 2).body]
<1> DEFINE from[q \in 1..Len(w) + 1] ==
             IF ~ ChunkAt(w, q) THEN Nothing
             ELSE IF w[q].v = 0 THEN [complete |-> TRUE, body |-> <<>>]
             ELSE LET rest == from[q + w[q].v + 2]
                  IN  [complete |-> rest.complete,
                       body     |-> Values(SubSeq(w, q + 1, q + w[q].v)) \o rest.body]
<1>1. \A q : Chunks(w, q) = from[q]
  BY DEF Chunks
<1>2. from = [q \in 1..Len(w) + 1 |-> ReadAt(w, from, q)]
  BY ChunksDefined, Zenon DEF ReadAt
<1> HIDE DEF from
<1>3. from[p] = ReadAt(w, from, p)
  BY <1>2, Zenon
<1> QED BY <1>1, <1>3 DEF ReadAt

LEMMA ChunksOfEmpty == ChunksOf(<<>>) = <<>>
<1>1. [i \in DOMAIN <<>> |-> Chunk(<<>>[i])] = <<>>
  OBVIOUS
<1> QED BY <1>1, FlattenEmpty DEF ChunksOf

LEMMA ChunkSequence ==
  ASSUME NEW bs \in Seq(Data), NEW s, s = [i \in DOMAIN bs |-> Chunk(bs[i])]
  PROVE  /\ s \in Seq(Seq(Tok)) /\ Len(s) = Len(bs) /\ Len(bs) \in Nat
         /\ \A i \in 1..Len(bs) : s[i] = Chunk(bs[i]) /\ bs[i] \in Data /\ s[i] \in Seq(Tok)
<1>1. Len(bs) \in Nat /\ DOMAIN bs = 1..Len(bs) /\ \A i \in 1..Len(bs) : bs[i] \in Data
  BY LenProperties, ElementOfSeq
<1>2. \A i \in 1..Len(bs) : Chunk(bs[i]) \in Seq(Tok)
  BY <1>1, ChunkIs
<1>3. s = [i \in 1..Len(bs) |-> Chunk(bs[i])]
  BY <1>1
<1>4. [i \in 1..Len(bs) |-> Chunk(bs[i])] \in Seq(Seq(Tok))
  BY <1>1, <1>2
<1> QED BY <1>1, <1>2, <1>3, <1>4

LEMMA ChunksOfIn ==
  ASSUME NEW bs \in Seq(Data)
  PROVE  ChunksOf(bs) \in Seq(Tok)
BY ChunkSequence, FlattenIn DEF ChunksOf

LEMMA ChunksOfAppend ==
  ASSUME NEW bs \in Seq(Data), NEW b \in Data
  PROVE  ChunksOf(Append(bs, b)) = ChunksOf(bs) \o Chunk(b)
<1> DEFINE s == [i \in DOMAIN bs |-> Chunk(bs[i])]
           bt == Append(bs, b)
           t == [i \in DOMAIN bt |-> Chunk(bt[i])]
           u == Append(s, Chunk(b))
<1>1. /\ bt \in Seq(Data) /\ Len(bt) = Len(bs) + 1 /\ bt[Len(bs) + 1] = b
      /\ \A i \in 1..Len(bs) : bt[i] = bs[i]
  BY AppendProperties
<1>2. /\ s \in Seq(Seq(Tok)) /\ Len(s) = Len(bs) /\ Len(bs) \in Nat
      /\ \A i \in 1..Len(bs) : s[i] = Chunk(bs[i])
  BY ChunkSequence
<1>3. Chunk(b) \in Seq(Tok)
  BY ChunkIs
<1> HIDE DEF bt
<1>4. t \in Seq(Seq(Tok)) /\ Len(t) = Len(bt) /\ \A i \in 1..Len(bt) : t[i] = Chunk(bt[i])
  BY <1>1, ChunkSequence
<1> HIDE DEF s, t
<1>5. u \in Seq(Seq(Tok)) /\ Len(u) = Len(s) + 1 /\ u[Len(s) + 1] = Chunk(b) /\ \A i \in 1..Len(s) : u[i] = s[i]
  BY <1>2, <1>3, AppendProperties
<1> HIDE DEF u
<1>6. t = u
  <2>1. ASSUME NEW i \in 1..Len(t) PROVE t[i] = u[i]
    <3>1. i \in 1..Len(bs) \/ i = Len(bs) + 1
      BY <1>1, <1>2, <1>4
    <3> QED BY <1>1, <1>2, <1>4, <1>5, <3>1
  <2>2. Len(t) = Len(u)
    BY <1>1, <1>2, <1>4, <1>5
  <2> QED BY <1>4, <1>5, <2>1, <2>2, SeqEqual
<1>7. FlattenSeq(u) = FlattenSeq(s) \o Chunk(b)
  BY <1>2, <1>3, FlattenAppend DEF u
<1>8. ChunksOf(Append(bs, b)) = FlattenSeq(t) /\ ChunksOf(bs) = FlattenSeq(s)
  BY DEF ChunksOf, s, t, bt
<1> QED BY <1>6, <1>7, <1>8

LEMMA ChunksOfCons ==
  ASSUME NEW bs \in Seq(Data), NEW b \in Data
  PROVE  ChunksOf(<<b>> \o bs) = Chunk(b) \o ChunksOf(bs)
<1> DEFINE s == [i \in DOMAIN bs |-> Chunk(bs[i])]
           bt == <<b>> \o bs
           t == [i \in DOMAIN bt |-> Chunk(bt[i])]
           u == <<Chunk(b)>> \o s
<1>0. <<b>> \in Seq(Data) /\ Len(<<b>>) = 1 /\ <<b>>[1] = b
  OBVIOUS
<1>1. /\ bt \in Seq(Data) /\ Len(bt) = 1 + Len(bs)
      /\ \A i \in 1..1 + Len(bs) : bt[i] = IF i <= 1 THEN b ELSE bs[i - 1]
  <2>1. /\ bt \in Seq(Data) /\ Len(bt) = Len(<<b>>) + Len(bs)
        /\ \A i \in 1..Len(<<b>>) + Len(bs) : bt[i] = IF i <= Len(<<b>>) THEN <<b>>[i] ELSE bs[i - Len(<<b>>)]
    BY <1>0, ConcatProperties
  <2>2. ASSUME NEW i \in 1..1 + Len(bs) PROVE i <= 1 => i = 1
    BY LenProperties
  <2> HIDE DEF bt
  <2> QED BY <1>0, <2>1, <2>2
<1>2. /\ s \in Seq(Seq(Tok)) /\ Len(s) = Len(bs) /\ Len(bs) \in Nat
      /\ \A i \in 1..Len(bs) : s[i] = Chunk(bs[i])
  BY ChunkSequence
<1>3. Chunk(b) \in Seq(Tok) /\ <<Chunk(b)>> \in Seq(Seq(Tok)) /\ Len(<<Chunk(b)>>) = 1 /\ <<Chunk(b)>>[1] = Chunk(b)
  <2>1. Chunk(b) \in Seq(Tok)
    BY ChunkIs
  <2> QED BY <2>1
<1> HIDE DEF bt
<1>4. t \in Seq(Seq(Tok)) /\ Len(t) = Len(bt) /\ \A i \in 1..Len(bt) : t[i] = Chunk(bt[i])
  BY <1>1, ChunkSequence
<1> HIDE DEF s, t
<1>5. /\ u \in Seq(Seq(Tok)) /\ Len(u) = 1 + Len(s)
      /\ \A i \in 1..1 + Len(s) : u[i] = IF i <= 1 THEN Chunk(b) ELSE s[i - 1]
  <2> DEFINE v == <<Chunk(b)>>
  <2>0. v \in Seq(Seq(Tok)) /\ Len(v) = 1 /\ v[1] = Chunk(b)
    BY <1>3
  <2>3. u = v \o s
    OBVIOUS
  <2> HIDE DEF v, u
  <2>1. /\ u \in Seq(Seq(Tok)) /\ Len(u) = Len(v) + Len(s)
        /\ \A i \in 1..Len(v) + Len(s) : u[i] = IF i <= Len(v) THEN v[i] ELSE s[i - Len(v)]
    BY <1>2, <2>0, <2>3, ConcatProperties
  <2>2. ASSUME NEW i \in 1..1 + Len(s) PROVE i <= 1 => i = 1
    BY <1>2
  <2> QED BY <2>0, <2>1, <2>2
<1> HIDE DEF u
<1>6. t = u
  <2>1. ASSUME NEW i \in 1..Len(t) PROVE t[i] = u[i]
    <3>1. i \in 1..1 + Len(bs) /\ t[i] = Chunk(bt[i])
      BY <1>1, <1>2, <1>4
    <3>2. CASE i <= 1
      BY <1>1, <1>2, <1>5, <3>1, <3>2
    <3>3. CASE ~ (i <= 1)
      <4>1. i - 1 \in 1..Len(bs)
        BY <1>2, <3>1, <3>3
      <4> QED BY <1>1, <1>2, <1>5, <3>1, <3>3, <4>1
    <3> QED BY <3>2, <3>3
  <2>2. Len(t) = Len(u)
    BY <1>1, <1>2, <1>4, <1>5
  <2> QED BY <1>4, <1>5, <2>1, <2>2, SeqEqual
<1>7. FlattenSeq(u) = Chunk(b) \o FlattenSeq(s)
  BY <1>2, <1>3, FlattenCons DEF u
<1>8. ChunksOf(<<b>> \o bs) = FlattenSeq(t) /\ ChunksOf(bs) = FlattenSeq(s)
  BY DEF ChunksOf, s, t, bt
<1> QED BY <1>6, <1>7, <1>8

\* A chunk of the response at the place where the client looks for one.
LEMMA ChunkRead ==
  ASSUME NEW w \in Seq(Tok), NEW h \in Seq(Tok), NEW b \in Data, NEW x \in Seq(Tok),
         Begins(w, h \o (Chunk(b) \o x)), Len(h) <= Len(w), NEW p, p = Len(h) + 1
  PROVE  /\ p \in 1..Len(w) + 1 /\ Len(b) \in Nat /\ p + Len(b) + 2 = Len(h) + Len(Chunk(b)) + 1
         /\ ChunkAt(w, p) => /\ w[p].v = Len(b) /\ Len(h) + Len(Chunk(b)) <= Len(w)
                             /\ Values(SubSeq(w, p + 1, p + Len(b))) = b
         /\ Len(h) + Len(Chunk(b)) <= Len(w) => ChunkAt(w, p)
<1> DEFINE c == Chunk(b)
           n == Len(b)
           k == Len(h)
<1>1. /\ c \in Seq(Tok) /\ n \in Nat /\ Len(c) = n + 2
      /\ c[1] = Token("size", n) /\ c[n + 2] = Token("crlf", 0)
      /\ \A i \in 1..n : c[i + 1] = Token("byte", b[i])
  BY ChunkIs
<1>2. k \in Nat /\ Len(w) \in Nat /\ Len(x) \in Nat /\ \A i \in 1..n : b[i] \in Nat
  BY LenProperties, ElementOfSeq DEF Data
<1> HIDE DEF c
<1>3. ASSUME NEW j \in 1..n + 2, k + j <= Len(w) PROVE w[k + j] = c[j]
  <2> DEFINE y == c \o x
  <2>1. y \in Seq(Tok) /\ Len(y) = n + 2 + Len(x) /\ \A i \in 1..Len(c) : y[i] = c[i]
    <3>1. Join(c, x, Tok)
      BY <1>1, Joined, Zenon
    <3> QED BY <1>1, <3>1 DEF Join
  <2>2. y[j] = c[j] /\ j \in 1..Len(y)
    BY <1>1, <1>2, <2>1
  <2> HIDE DEF y
  <2>3. \A i \in 1..Len(y) : (h \o y)[Len(h) + i] = y[i]
    <3>1. Join(h, y, Tok)
      BY <2>1, Joined, Zenon
    <3> QED BY <3>1 DEF Join
  <2>5. (h \o y)[k + j] = c[j]
    BY <2>2, <2>3
  <2>6. Begins(w, h \o y)
    BY DEF y, c
  <2>7. k + j \in 1..Len(w)
    BY <1>1, <1>2, <1>3
  <2> QED BY <2>5, <2>6, <2>7 DEF Begins
<1>4. p = k + 1 /\ p \in 1..Len(w) + 1 /\ p + n + 2 = k + Len(c) + 1
  BY <1>1, <1>2
<1>0. k \in Nat /\ n \in Nat /\ Len(w) \in Nat /\ p = k + 1
  BY <1>1, <1>2
<1> HIDE DEF n, k
<1>5. ASSUME ChunkAt(w, p)
      PROVE  w[p].v = n /\ k + Len(c) <= Len(w) /\ Values(SubSeq(w, p + 1, p + n)) = b
  <2>1. w[p] = Token("size", n)
    <3>1. k + 1 <= Len(w) /\ 1 \in 1..n + 2
      BY <1>1, <1>4, <1>5 DEF ChunkAt
    <3> QED BY <1>1, <1>3, <1>4, <3>1
  <2>2. w[p].v = n
    BY <2>1 DEF Token
  <2>3. k + n + 2 <= Len(w)
    BY <1>1, <1>2, <1>4, <1>5, <2>2 DEF ChunkAt
  <2>4. ASSUME NEW i \in 1..n PROVE w[p + i] = Token("byte", b[i])
    <3>1. i + 1 \in 1..n + 2 /\ k + (i + 1) <= Len(w) /\ p + i = k + (i + 1)
      BY <1>0, <2>3
    <3>2. w[k + (i + 1)] = c[i + 1]
      BY <1>3, <3>1
    <3> QED BY <1>1, <3>1, <3>2
  <2>5. Values(SubSeq(w, p + 1, p + n)) = b
    <3> DEFINE s == SubSeq(w, p + 1, p + n)
    <3>1. \A i \in p + 1..p + n : w[i] \in Tok
      <4> SUFFICES ASSUME NEW i \in p + 1..p + n PROVE w[i] \in Tok
        OBVIOUS
      <4>1. i \in 1..Len(w)
        BY <1>1, <1>2, <1>4, <2>3
      <4> QED BY <4>1, ElementOfSeq
    <3>2. /\ s \in Seq(Tok) /\ Len(s) = n
          /\ \A i \in 1..n : s[i] = w[p + i]
      <4>1. p + 1 \in Int /\ p + n \in Int /\ p + n - (p + 1) + 1 = n
        BY <1>1, <1>2, <1>4
      <4> DEFINE lo == p + 1
                 hi == p + n
      <4>2. /\ s \in Seq(Tok) /\ Len(s) = IF lo <= hi THEN hi - lo + 1 ELSE 0
            /\ \A i \in 1..hi - lo + 1 : s[i] = w[lo + i - 1]
        <5>1. lo \in Int /\ hi \in Int /\ \A i \in lo..hi : w[i] \in Tok
          BY <3>1, <4>1
        <5>2. s = SubSeq(w, lo, hi)
          OBVIOUS
        <5> HIDE DEF lo, hi, s
        <5> QED BY <5>1, <5>2, SubSeqProperties
      <4>3. ~ (p + 1 <= p + n) => n = 0
        BY <1>1, <1>2, <1>4
      <4>4. \A i \in 1..n : p + 1 + i - 1 = p + i
        BY <1>2, <1>4, <1>1
      <4>5. lo + 1 = p + 2 /\ (lo <= hi => hi - lo + 1 = n) /\ (~ (lo <= hi) => n = 0) /\ hi - lo + 1 = n
        BY <1>0
      <4>6. \A i \in 1..n : lo + i - 1 = p + i
        BY <1>0
      <4> HIDE DEF s, lo, hi
      <4>7. Len(s) = n
        BY <4>2, <4>5
      <4> QED BY <4>2, <4>5, <4>6, <4>7
    <3> HIDE DEF s
    <3>3. DOMAIN s = 1..n
      BY <3>2, LenProperties
    <3>4. Values(s) = [i \in 1..n |-> b[i]]
      <4>1. \A i \in 1..n : s[i].v = b[i]
        <5> SUFFICES ASSUME NEW i \in 1..n PROVE s[i].v = b[i]
          OBVIOUS
        <5>1. s[i] = Token("byte", b[i])
          BY <2>4, <3>2
        <5> QED BY <5>1 DEF Token
      <4> QED BY <3>3, <4>1 DEF Values
    <3>5. b = [i \in 1..n |-> b[i]]
      BY LenProperties DEF Data, n
    <3> QED BY <3>4, <3>5 DEF s
  <2>6. k + Len(c) <= Len(w)
    BY <1>1, <1>2, <2>3
  <2> QED BY <2>2, <2>5, <2>6
<1>6. ASSUME k + Len(c) <= Len(w) PROVE ChunkAt(w, p)
  <2>1. k + n + 2 <= Len(w)
    BY <1>1, <1>2, <1>6
  <2>2. ASSUME NEW j \in 1..n + 2 PROVE w[k + j] = c[j]
    <3>1. k + j <= Len(w)
      BY <1>1, <1>2, <2>1
    <3> QED BY <1>3, <3>1
  <2>3. w[p] = Token("size", n)
    <3>1. 1 \in 1..n + 2
      BY <1>1
    <3> QED BY <1>1, <1>4, <2>2, <3>1
  <2>4. w[p].t = "size" /\ w[p].v = n
    BY <2>3 DEF Token
  <2>5. p <= Len(w) /\ p + n + 1 <= Len(w)
    BY <1>1, <1>2, <1>4, <2>1
  <2>6. w[p + n + 1].t = "crlf"
    <3>1. n + 2 \in 1..n + 2 /\ p + n + 1 = k + (n + 2)
      BY <1>0
    <3>2. w[k + (n + 2)] = Token("crlf", 0)
      BY <1>1, <2>2, <3>1
    <3> QED BY <3>1, <3>2 DEF Token
  <2>7. ASSUME NEW i \in p + 1..p + n PROVE w[i].t = "byte"
    <3>1. i - p \in 1..n /\ i - p + 1 \in 1..n + 2 /\ k + (i - p + 1) = i
      BY <1>0
    <3>2. w[i] = c[i - p + 1]
      BY <2>2, <3>1
    <3>3. c[i - p + 1] = Token("byte", b[i - p])
      BY <1>1, <3>1
    <3> QED BY <3>2, <3>3 DEF Token
  <2> QED BY <2>4, <2>5, <2>6, <2>7 DEF ChunkAt
<1> QED BY <1>1, <1>4, <1>5, <1>6 DEF n, k, c

\* What ends a response: nothing yet, or the empty chunk.
Open(t) == t = <<>>
Ends(t) == \E u \in Seq(Tok) : t = Chunk(<<>>) \o u

Full == Seq(Nat) \ {<<>>}

\* The client takes the beginning w of a response that is head, chunks and
\* end.  It sees the end only if all the chunks are there, and has their data.
Reading(w, h, bs, t) ==
  LET all == h \o (ChunksOf(bs) \o t)
      r == Chunks(w, Len(h) + 1)
  IN  Len(h) <= Len(w) /\ Begins(w, all) =>
        /\ r.complete => Ends(t) /\ r.body = FlattenSeq(bs)
        /\ Ends(t) /\ Len(w) = Len(all) => r.complete

LEMMA EndsNotOpen == ASSUME NEW t, Ends(t) PROVE ~ Open(t) /\ t \in Seq(Tok)
<1>1. PICK u \in Seq(Tok) : t = Chunk(<<>>) \o u
  BY DEF Ends
<1>2. Chunk(<<>>) \in Seq(Tok) /\ Len(Chunk(<<>>)) = 2
  <2>1. Chunk(<<>>) \in Seq(Tok) /\ Len(Chunk(<<>>)) = Len(<<>>) + 2
    BY EmptyData, ChunkIs
  <2> QED BY <2>1, EmptyData
<1> DEFINE c == Chunk(<<>>)
<1> HIDE DEF c
<1>3. Join(c, u, Tok)
  BY <1>2, Joined, Zenon DEF c
<1>4. t \in Seq(Tok) /\ Len(t) >= 2
  BY <1>1, <1>2, <1>3 DEF Join, c
<1> QED BY <1>4 DEF Open

LEMMA ReadsEnd ==
  ASSUME NEW w \in Seq(Tok), NEW h \in Seq(Tok), NEW t, Open(t) \/ Ends(t)
  PROVE  Reading(w, h, <<>>, t)
<1> DEFINE p == Len(h) + 1
<1>0. t \in Seq(Tok)
  BY EndsNotOpen, EmptySeq DEF Open
<1>1. ChunksOf(<<>>) \o t = t
  BY <1>0, ChunksOfEmpty, ConcatEmptySeq
<1> SUFFICES ASSUME Len(h) <= Len(w), Begins(w, h \o t)
             PROVE  /\ Chunks(w, p).complete => Ends(t) /\ Chunks(w, p).body = <<>>
                    /\ Ends(t) /\ Len(w) = Len(h \o t) => Chunks(w, p).complete
  BY <1>1, FlattenEmpty DEF Reading
<1>2. Len(h) \in Nat /\ Len(w) \in Nat /\ p \in 1..Len(w) + 1
  BY LenProperties
<1> HIDE DEF p
<1>3. CASE Open(t)
  <2>1. h \o t = h
    BY <1>3, ConcatEmptySeq DEF Open
  <2>2. Len(w) <= Len(h)
    BY <2>1 DEF Begins
  <2>3. ~ ChunkAt(w, p)
    BY <1>2, <2>2 DEF ChunkAt, p
  <2>4. Chunks(w, p) = Nothing
    BY <1>2, <2>3, ChunksStep
  <2>5. ~ Ends(t)
    BY <1>3, EndsNotOpen
  <2> QED BY <2>4, <2>5 DEF Nothing
<1>4. CASE Ends(t)
  <2>1. PICK u \in Seq(Tok) : t = Chunk(<<>>) \o u
    BY <1>4 DEF Ends
  <2>2. Begins(w, h \o (Chunk(<<>>) \o u))
    BY <2>1
  <2>3. Len(<<>>) = 0 /\ <<>> \in Data
    BY EmptyData
  <2>4. /\ ChunkAt(w, p) => w[p].v = 0
        /\ Len(h) + Len(Chunk(<<>>)) <= Len(w) => ChunkAt(w, p)
    BY <2>2, <2>3, ChunkRead DEF p
  <2>5. Chunks(w, p) = IF ChunkAt(w, p) THEN [complete |-> TRUE, body |-> <<>>] ELSE Nothing
    <3>1. CASE ChunkAt(w, p)
      BY <1>2, <2>4, <3>1, ChunksStep
    <3>2. CASE ~ ChunkAt(w, p)
      BY <1>2, <3>2, ChunksStep
    <3> QED BY <3>1, <3>2
  <2>6. Chunks(w, p).complete => Chunks(w, p).body = <<>>
    BY <2>5 DEF Nothing
  <2>7. ASSUME Len(w) = Len(h \o t) PROVE Chunks(w, p).complete
    <3> DEFINE c == Chunk(<<>>)
    <3>1. c \in Seq(Tok)
      BY <2>3, ChunkIs
    <3> HIDE DEF c
    <3>2. Join(c, u, Tok)
      BY <3>1, Joined, Zenon
    <3>3. t = c \o u
      BY <2>1 DEF c
    <3>4. Join(h, t, Tok)
      BY <1>0, Joined, Zenon
    <3>5. Len(h) + Len(c) <= Len(w)
      BY <1>2, <2>7, <3>2, <3>3, <3>4 DEF Join
    <3>6. ChunkAt(w, p)
      BY <2>4, <3>5 DEF c
    <3> QED BY <2>5, <3>6
  <2> QED BY <1>4, <2>6, <2>7
<1> QED BY <1>3, <1>4

LEMMA ReadsChunk ==
  ASSUME NEW w \in Seq(Tok), NEW h \in Seq(Tok), NEW b \in Full, NEW bs \in Seq(Full), NEW t \in Seq(Tok),
         Reading(w, h \o Chunk(b), bs, t)
  PROVE  Reading(w, h, <<b>> \o bs, t)
<1> DEFINE p == Len(h) + 1
           c == Chunk(b)
           d == ChunksOf(bs)
           x == d \o t
           all == h \o (c \o x)
<1>1. b \in Data /\ b # <<>> /\ bs \in Seq(Data)
  <2>1. Full \subseteq Data
    BY DEF Full, Data
  <2> QED BY <2>1, SeqMonotonic DEF Full
<1>2. c \in Seq(Tok) /\ d \in Seq(Tok) /\ FlattenSeq(bs) \in Seq(Nat) /\ Len(b) \in Nat /\ Len(b) # 0
  <2>1. FlattenSeq(bs) \in Seq(Nat)
    BY <1>1, FlattenIn DEF Data
  <2>2. Len(b) \in Nat /\ Len(b) # 0
    BY <1>1, EmptySeq DEF Data
  <2> QED BY <1>1, <2>1, <2>2, ChunkIs, ChunksOfIn
<1>3. ChunksOf(<<b>> \o bs) = c \o d /\ FlattenSeq(<<b>> \o bs) = b \o FlattenSeq(bs)
  BY <1>1, ChunksOfCons, FlattenCons DEF Data
<1> HIDE DEF c, d
<1>4. x \in Seq(Tok) /\ Grouped(c, d, t)
  <2>1. Join(d, t, Tok) /\ Grouped(c, d, t)
    BY <1>2, Joined, Groups, Zenon
  <2> QED BY <2>1 DEF Join
<1>5. h \o (ChunksOf(<<b>> \o bs) \o t) = all
  BY ONLY <1>3, <1>4 DEF Grouped, x, all
<1>6. (h \o c) \o x = all /\ Join(h, c, Tok)
  <2> HIDE DEF x
  <2>1. Grouped(h, c, x) /\ Join(h, c, Tok)
    BY <1>2, <1>4, Joined, Groups, Zenon
  <2> QED BY ONLY <2>1 DEF Grouped, all
<1> HIDE DEF all
<1>7. SUFFICES ASSUME Len(h) <= Len(w), Begins(w, all)
               PROVE  /\ Chunks(w, p).complete => Ends(t) /\ Chunks(w, p).body = b \o FlattenSeq(bs)
                      /\ Ends(t) /\ Len(w) = Len(all) => Chunks(w, p).complete
  BY <1>3, <1>5 DEF Reading
<1>8. /\ p \in 1..Len(w) + 1 /\ p + Len(b) + 2 = Len(h) + Len(c) + 1
      /\ ChunkAt(w, p) => /\ w[p].v = Len(b) /\ Len(h) + Len(c) <= Len(w)
                          /\ Values(SubSeq(w, p + 1, p + Len(b))) = b
      /\ Len(h) + Len(c) <= Len(w) => ChunkAt(w, p)
  <2> HIDE DEF x
  <2>1. Begins(w, h \o (c \o x))
    BY <1>7 DEF all
  <2> QED BY <1>1, <1>4, <1>7, <2>1, ChunkRead DEF c
<1>9. Len(h \o c) = Len(h) + Len(c)
  BY <1>6 DEF Join
<1> DEFINE r == Chunks(w, Len(h \o c) + 1)
<1>10. ASSUME ChunkAt(w, p)
       PROVE  Chunks(w, p) = [complete |-> r.complete, body |-> b \o r.body]
  <2>1. w[p].v = Len(b) /\ p + w[p].v + 2 = Len(h \o c) + 1
    BY <1>8, <1>9, <1>10
  <2> HIDE DEF p
  <2>2. Chunks(w, p) = [complete |-> Chunks(w, p + w[p].v + 2).complete,
                        body |-> Values(SubSeq(w, p + 1, p + w[p].v)) \o Chunks(w, p + w[p].v + 2).body]
    BY <1>2, <1>8, <1>10, <2>1, ChunksStep
  <2> QED BY <1>8, <1>10, <2>1, <2>2
<1>11. ASSUME Len(h) + Len(c) <= Len(w)
       PROVE  /\ r.complete => Ends(t) /\ r.body = FlattenSeq(bs)
              /\ Ends(t) /\ Len(w) = Len(all) => r.complete
  <2>1. Len(h \o c) <= Len(w) /\ Begins(w, (h \o c) \o (d \o t)) /\ Len((h \o c) \o (d \o t)) = Len(all)
    BY <1>6, <1>7, <1>9, <1>11
  <2> QED BY <2>1 DEF Reading, c, d
<1> HIDE DEF r, p
<1>12. Chunks(w, p).complete => Ends(t) /\ Chunks(w, p).body = b \o FlattenSeq(bs)
  <2>1. CASE ChunkAt(w, p)
    <3>1. Chunks(w, p).complete = r.complete /\ Chunks(w, p).body = b \o r.body
      BY <1>10, <2>1
    <3>2. r.complete => Ends(t) /\ r.body = FlattenSeq(bs)
      BY <1>8, <1>11, <2>1
    <3> QED BY <3>1, <3>2
  <2>2. CASE ~ ChunkAt(w, p)
    <3>1. Chunks(w, p) = Nothing
      BY <1>8, <2>2, ChunksStep
    <3> QED BY <3>1 DEF Nothing
  <2> QED BY <2>1, <2>2
<1>13. ASSUME Ends(t), Len(w) = Len(all) PROVE Chunks(w, p).complete
  <2>1. Len(h) + Len(c) <= Len(w)
    <3> DEFINE hc == h \o c
    <3>1. hc \in Seq(Tok) /\ Len(hc) = Len(h) + Len(c) /\ Len(h) + Len(c) \in Nat
      BY <1>6 DEF Join
    <3> HIDE DEF hc, x
    <3>2. Join(hc, x, Tok)
      BY <1>4, <3>1, Joined, Zenon
    <3>3. hc \o x = all
      BY <1>6 DEF hc
    <3> QED BY <1>13, <3>1, <3>2, <3>3 DEF Join
  <2>2. r.complete
    BY <1>11, <1>13, <2>1
  <2>3. ChunkAt(w, p)
    BY <1>8, <2>1
  <2> QED BY <1>10, <2>2, <2>3
<1> QED BY <1>12, <1>13

LEMMA ReadsAll ==
  ASSUME NEW w \in Seq(Tok), NEW h \in Seq(Tok), NEW bs \in Seq(Full), NEW t, Open(t) \/ Ends(t)
  PROVE  Reading(w, h, bs, t)
<1>0. t \in Seq(Tok)
  BY EndsNotOpen, EmptySeq DEF Open
<1> DEFINE P == {m \in Nat : \A g \in Seq(Tok), cs \in Seq(Full) : Len(cs) = m => Reading(w, g, cs, t)}
<1>1. 0 \in P
  <2> SUFFICES ASSUME NEW g \in Seq(Tok), NEW cs \in Seq(Full), Len(cs) = 0 PROVE Reading(w, g, cs, t)
    OBVIOUS
  <2>1. cs = <<>>
    BY EmptySeq
  <2> QED BY <2>1, ReadsEnd
<1>2. ASSUME NEW m \in Nat, m \in P PROVE m + 1 \in P
  <2> SUFFICES ASSUME NEW g \in Seq(Tok), NEW cs \in Seq(Full), Len(cs) = m + 1 PROVE Reading(w, g, cs, t)
    OBVIOUS
  <2> DEFINE b == Head(cs)
             ds == Tail(cs)
  <2>1. b \in Full /\ ds \in Seq(Full) /\ Len(ds) = m /\ cs # <<>>
    <3>1. cs # <<>>
      BY EmptySeq
    <3> QED BY <3>1, HeadTailProperties
  <2>2. cs = <<b>> \o ds
    BY <2>1
  <2> HIDE DEF b, ds
  <2>3. g \o Chunk(b) \in Seq(Tok)
    <3>1. Chunk(b) \in Seq(Tok)
      BY <2>1, ChunkIs DEF Full, Data
    <3> QED BY <3>1, ConcatProperties
  <2>4. Reading(w, g \o Chunk(b), ds, t)
    BY <1>2, <2>1, <2>3
  <2>5. Reading(w, g, <<b>> \o ds, t)
    BY <1>0, <2>1, <2>4, ReadsChunk
  <2> QED BY <2>2, <2>5
<1>3. Len(bs) \in P
  <2> HIDE DEF P
  <2>1. Nat \subseteq P
    BY <1>1, <1>2, AllNumbers
  <2> QED BY <2>1, LenProperties
<1> QED BY <1>3

-----------------------------------------------------------------------------
(* What the handler sends.                                                 *)

Kinds == {"length", "chunked", "error"}
Blank == <<Token("blank", 0)>>

\* The head of a response with one header besides the essential ones.
Preamble(kind, n) ==
  <<Token(kind, n), Token("header", 1), Token("header", 2), Token("header", 3), Token("header", 4),
    Token("blank", 0)>>

LEMMA PreambleIs ==
  ASSUME NEW kind \in Kinds, NEW n \in Nat
  PROVE  /\ Preamble(kind, n) \in Seq(Tok) /\ Len(Preamble(kind, n)) = 6
         /\ Preamble(kind, n)[1] = Token(kind, n) /\ Preamble(kind, n)[6].t = "blank"
         /\ \A i \in 1..5 : Preamble(kind, n)[i].t # "blank"
<1> DEFINE s == Preamble(kind, n)
<1>1. /\ Len(s) = 6 /\ s[1] = Token(kind, n) /\ s[2] = Token("header", 1) /\ s[3] = Token("header", 2)
      /\ s[4] = Token("header", 3) /\ s[5] = Token("header", 4) /\ s[6] = Token("blank", 0)
  BY DEF Preamble
<1>2. \A k \in Kinds \cup {"header", "blank"}, v \in Nat : Token(k, v) \in Tok /\ Token(k, v).t = k
  BY DEF Token, Tok, Kinds
<1>3. s \in Seq(Tok)
  <2>1. /\ Token(kind, n) \in Tok /\ Token("header", 1) \in Tok /\ Token("header", 2) \in Tok
        /\ Token("header", 3) \in Tok /\ Token("header", 4) \in Tok /\ Token("blank", 0) \in Tok
    BY <1>2
  <2> QED BY <2>1 DEF Preamble
<1>4. /\ s[1].t # "blank" /\ s[2].t # "blank" /\ s[3].t # "blank" /\ s[4].t # "blank" /\ s[5].t # "blank"
      /\ s[6].t = "blank"
  BY <1>1, <1>2 DEF Kinds
<1> HIDE DEF s
<1>5. ASSUME NEW i \in 1..5 PROVE s[i].t # "blank"
  <2>1. i = 1 \/ i = 2 \/ i = 3 \/ i = 4 \/ i = 5
    OBVIOUS
  <2> QED BY <1>4, <2>1
<1> QED BY <1>1, <1>3, <1>4, <1>5 DEF s

\* What the client makes of a response with that head.
LEMMA HeadRead ==
  ASSUME NEW w \in Seq(Tok), NEW kind \in {"length", "chunked"}, NEW n \in Nat, NEW x \in Seq(Tok),
         Begins(w, Preamble(kind, n) \o x)
  PROVE  Response(w) = IF Len(w) < 6 THEN Nothing
                       ELSE IF kind = "chunked" THEN Chunks(w, 7)
                       ELSE [complete |-> Len(w) >= 6 + n, body |-> Values(SubSeq(w, 7, Len(w)))]
<1> DEFINE h == Preamble(kind, n)
           ends == {i \in DOMAIN w : w[i].t = "blank"}
<1>1. /\ h \in Seq(Tok) /\ Len(h) = 6 /\ h[1] = Token(kind, n) /\ h[6].t = "blank"
      /\ \A i \in 1..5 : h[i].t # "blank"
  BY PreambleIs DEF Kinds
<1> HIDE DEF h
<1>2. Len(w) \in Nat /\ DOMAIN w = 1..Len(w)
  BY LenProperties
<1>3. ASSUME NEW i \in 1..6, i <= Len(w) PROVE w[i] = h[i]
  <2>1. Join(h, x, Tok)
    BY <1>1, Joined, Zenon
  <2>2. i \in 1..Len(w) /\ (h \o x)[i] = h[i]
    BY <1>1, <1>2, <1>3, <2>1 DEF Join
  <2>3. Begins(w, h \o x)
    BY DEF h
  <2> QED BY <2>2, <2>3 DEF Begins
<1>4. ASSUME NEW i \in ends PROVE i \in 1..Len(w) /\ i >= 6
  <2>1. i \in 1..Len(w) /\ w[i].t = "blank"
    BY <1>2
  <2>2. CASE i \in 1..5
    BY <1>1, <1>3, <2>1, <2>2
  <2> QED BY <1>2, <2>1, <2>2
<1>5. Response(w) =
        LET head == CHOOSE i \in ends : \A j \in ends : i <= j
        IN IF ends = {} \/ w[1].t \notin {"length", "chunked"} THEN Nothing
           ELSE IF w[1].t = "chunked" THEN Chunks(w, head + 1)
           ELSE [complete |-> Len(w) >= head + w[1].v, body |-> Values(SubSeq(w, head + 1, Len(w)))]
  BY DEF Response
<1>6. CASE Len(w) < 6
  <2>1. ends = {}
    BY <1>2, <1>4, <1>6
  <2> HIDE DEF ends
  <2> QED BY <1>5, <1>6, <2>1
<1>7. CASE ~ (Len(w) < 6)
  <2>1. 6 \in ends
    BY <1>1, <1>2, <1>3, <1>7
  <2>2. w[1].t = kind /\ w[1].v = n
    <3>1. w[1] = Token(kind, n)
      BY <1>1, <1>2, <1>3, <1>7
    <3> QED BY <3>1 DEF Token
  <2> HIDE DEF ends
  <2> DEFINE head == CHOOSE i \in ends : \A j \in ends : i <= j
  <2>3. head = 6
    <3>1. \A j \in ends : 6 <= j
      BY <1>4
    <3>2. head \in ends /\ \A j \in ends : head <= j
      BY <2>1, <3>1
    <3> HIDE DEF head
    <3>3. head <= 6 /\ head >= 6 /\ head \in Int
      BY <1>4, <2>1, <3>2
    <3> QED BY <3>3
  <2>4. ends # {}
    BY <2>1
  <2> HIDE DEF head
  <2>5. Response(w) = IF kind = "chunked" THEN Chunks(w, 6 + 1)
                      ELSE [complete |-> Len(w) >= 6 + n, body |-> Values(SubSeq(w, 6 + 1, Len(w)))]
    BY <1>5, <2>2, <2>3, <2>4 DEF head
  <2> QED BY <1>7, <2>5
<1> QED BY <1>6, <1>7

LEMMA RespHeadIn ==
  ASSUME NEW kind \in Kinds, NEW n \in Nat, NEW headers \in Nat
  PROVE  /\ RespHead(kind, n, headers) \in Seq(Seq(Tok))
         /\ \E i \in 1..Len(RespHead(kind, n, headers)) : RespHead(kind, n, headers)[i] = Blank
<1> DEFINE x == <<<<Token(kind, n)>>>>
           y == [h \in 1..headers |-> [i \in 1..4 |-> Token("header", i)]]
           z == <<Blank>>
           S == Seq(Tok)
<1>1. RespHead(kind, n, headers) = (x \o y) \o z
  BY DEF RespHead, Blank
<1>2. \A k \in Kinds \cup {"header", "blank"}, v \in Nat : Token(k, v) \in Tok
  BY DEF Token, Tok, Kinds
<1>3. x \in Seq(S)
  <2>1. Token(kind, n) \in Tok
    BY <1>2
  <2> QED BY <2>1
<1>4. z \in Seq(S) /\ Len(z) = 1 /\ z[1] = Blank
  <2>1. Token("blank", 0) \in Tok
    BY <1>2
  <2> QED BY <2>1 DEF Blank
<1>5. y \in Seq(S)
  <2>1. [i \in 1..4 |-> Token("header", i)] \in Seq(Tok)
    BY <1>2
  <2> DEFINE e == [i \in 1..4 |-> Token("header", i)]
  <2> HIDE DEF e
  <2>2. [h \in 1..headers |-> e] \in Seq(S)
    BY <2>1 DEF e
  <2> QED BY <2>2 DEF e
<1> HIDE DEF x, y, z, S
<1>6. Join(x, y, S)
  BY <1>3, <1>5, Joined, Zenon
<1> DEFINE u == x \o y
<1>7. u \in Seq(S)
  BY <1>6 DEF Join
<1> HIDE DEF u
<1>8. Join(u, z, S)
  BY <1>4, <1>7, Joined, Zenon
<1>9. u \o z \in Seq(S) /\ Len(u \o z) = Len(u) + 1 /\ (u \o z)[Len(u) + 1] = Blank /\ Len(u) + 1 \in 1..Len(u) + 1
  BY <1>4, <1>8 DEF Join
<1> QED BY <1>1, <1>9 DEF u, S

LEMMA RespHeadFlat ==
  ASSUME NEW kind \in Kinds, NEW n \in Nat
  PROVE  FlattenSeq(RespHead(kind, n, 1)) = Preamble(kind, n)
<1> DEFINE a == <<Token(kind, n)>>
           e == [i \in 1..4 |-> Token("header", i)]
           z == Blank
<1>1. \A k \in Kinds \cup {"header", "blank"}, v \in Nat : Token(k, v) \in Tok
  BY DEF Token, Tok, Kinds
<1>2. a \in Seq(Tok) /\ Len(a) = 1 /\ a[1] = Token(kind, n)
  <2>1. Token(kind, n) \in Tok
    BY <1>1
  <2> QED BY <2>1
<1>3. z \in Seq(Tok) /\ Len(z) = 1 /\ z[1] = Token("blank", 0)
  <2>1. Token("blank", 0) \in Tok
    BY <1>1
  <2> QED BY <2>1 DEF Blank
<1>4. e \in Seq(Tok) /\ Len(e) = 4 /\ \A i \in 1..4 : e[i] = Token("header", i)
  BY <1>1
<1>5. RespHead(kind, n, 1) = (<<a>> \o [h \in 1..1 |-> e]) \o <<z>>
  BY DEF RespHead, Blank
<1> HIDE DEF a, e, z
<1>6. [h \in 1..1 |-> e] = <<e>>
  OBVIOUS
<1>7. <<a>> \in Seq(Seq(Tok)) /\ <<e>> \in Seq(Seq(Tok)) /\ <<z>> \in Seq(Seq(Tok))
  BY <1>2, <1>3, <1>4
<1>8. FlattenSeq(<<a>> \o <<e>>) = a \o e
  <2>1. FlattenSeq(<<a>> \o <<e>>) = FlattenSeq(<<a>>) \o FlattenSeq(<<e>>)
    BY <1>7, FlattenCat
  <2>2. FlattenSeq(<<a>>) = a /\ FlattenSeq(<<e>>) = e
    BY <1>2, <1>4, FlattenOne
  <2> QED BY ONLY <2>1, <2>2
<1>9. FlattenSeq(RespHead(kind, n, 1)) = (a \o e) \o z
  <2> DEFINE u == <<a>> \o <<e>>
             v == <<z>>
  <2>1. u \in Seq(Seq(Tok)) /\ v \in Seq(Seq(Tok))
    <3>1. Join(<<a>>, <<e>>, Seq(Tok))
      BY <1>7, Joined, Zenon
    <3> QED BY <1>7, <3>1 DEF Join
  <2>2. RespHead(kind, n, 1) = u \o v
    BY ONLY <1>5, <1>6 DEF u, v
  <2>3. FlattenSeq(u) = a \o e /\ FlattenSeq(v) = z
    BY <1>3, <1>8, FlattenOne
  <2> HIDE DEF u, v
  <2>4. FlattenSeq(u \o v) = FlattenSeq(u) \o FlattenSeq(v)
    BY <2>1, FlattenCat
  <2> QED BY ONLY <2>2, <2>3, <2>4
<1> DEFINE g == a \o e
<1>10. /\ g \in Seq(Tok) /\ Len(g) = 5 /\ g[1] = Token(kind, n)
       /\ \A i \in 1..4 : g[1 + i] = Token("header", i)
  <2>1. Join(a, e, Tok)
    BY <1>2, <1>4, Joined, Zenon
  <2> QED BY <1>2, <1>4, <2>1 DEF Join
<1> HIDE DEF g
<1>11. /\ g \o z \in Seq(Tok) /\ Len(g \o z) = 6 /\ \A i \in 1..5 : (g \o z)[i] = g[i]
       /\ (g \o z)[6] = Token("blank", 0)
  <2>1. Join(g, z, Tok)
    BY <1>3, <1>10, Joined, Zenon
  <2> QED BY <1>3, <1>10, <2>1 DEF Join
<1> DEFINE p == Preamble(kind, n)
<1>12. /\ p \in Seq(Tok) /\ Len(p) = 6 /\ p[1] = Token(kind, n) /\ p[2] = Token("header", 1)
       /\ p[3] = Token("header", 2) /\ p[4] = Token("header", 3) /\ p[5] = Token("header", 4)
       /\ p[6] = Token("blank", 0)
  BY PreambleIs DEF Preamble
<1> HIDE DEF p
<1> DEFINE f == g \o z
<1>13. /\ f[1] = Token(kind, n) /\ f[2] = Token("header", 1) /\ f[3] = Token("header", 2)
       /\ f[4] = Token("header", 3) /\ f[5] = Token("header", 4) /\ f[6] = Token("blank", 0)
  <2>1. /\ g[1] = Token(kind, n) /\ g[2] = Token("header", 1) /\ g[3] = Token("header", 2)
        /\ g[4] = Token("header", 3) /\ g[5] = Token("header", 4)
    BY <1>10
  <2> QED BY <1>11, <2>1
<1>14. f \in Seq(Tok) /\ Len(f) = 6
  BY <1>11
<1> HIDE DEF f
<1>15. \A i \in 1..6 : f[i] = p[i]
  <2> SUFFICES ASSUME NEW i \in 1..6 PROVE f[i] = p[i]
    OBVIOUS
  <2>1. i = 1 \/ i = 2 \/ i = 3 \/ i = 4 \/ i = 5 \/ i = 6
    OBVIOUS
  <2> QED BY <1>12, <1>13, <2>1
<1>16. f = p
  BY <1>12, <1>14, <1>15, SeqEqual
<1> QED BY <1>9, <1>16 DEF f, g, p

LEMMA TokIs ==
  /\ \A n \in Nat : Token("size", n) \in Tok
  /\ Token("crlf", 0) \in Tok /\ Token("blank", 0) \in Tok
  /\ \A kind \in Kinds, n \in Nat : Token(kind, n) \in Tok
BY DEF Token, Tok, Kinds

\* The parts of a response with its length, one after the other.
LEMMA RespSendIs ==
  ASSUME NEW kind \in Kinds, NEW b \in Data
  PROVE  /\ RespSend(kind, b, 1) \in Seq(Seq(Tok))
         /\ FlattenSeq(RespSend(kind, b, 1)) = Preamble(kind, Len(b)) \o Bytes(b)
<1> DEFINE h == RespHead(kind, Len(b), 1)
           d == IF b = <<>> THEN <<>> ELSE <<Bytes(b)>>
           y == Bytes(b)
<1>1. h \in Seq(Seq(Tok)) /\ FlattenSeq(h) = Preamble(kind, Len(b))
  <2>1. Len(b) \in Nat
    BY LenProperties DEF Data
  <2> QED BY <2>1, RespHeadIn, RespHeadFlat
<1>2. y \in Seq(Tok) /\ (b = <<>> => y = <<>>)
  <2>1. b = <<>> => Len(y) = 0
    BY BytesIs, EmptyData
  <2> QED BY <2>1, BytesIs, EmptySeq
<1>3. d = IF b = <<>> THEN <<>> ELSE <<y>>
  OBVIOUS
<1> HIDE DEF h, d, y
<1>4. d \in Seq(Seq(Tok)) /\ FlattenSeq(d) = y
  <2>1. <<>> \in Seq(Seq(Tok)) /\ <<y>> \in Seq(Seq(Tok)) /\ FlattenSeq(<<y>>) = y
    BY <1>2, FlattenOne, EmptySeq
  <2> QED BY <1>2, <1>3, <2>1, FlattenEmpty
<1>5. FlattenSeq(h \o d) = FlattenSeq(h) \o FlattenSeq(d)
  BY <1>1, <1>4, FlattenCat
<1>6. h \o d \in Seq(Seq(Tok))
  <2>1. Join(h, d, Seq(Tok))
    BY <1>1, <1>4, Joined, Zenon
  <2> QED BY <2>1 DEF Join
<1>7. RespSend(kind, b, 1) = h \o d
  BY DEF RespSend, h, d
<1> QED BY ONLY <1>1, <1>4, <1>5, <1>6, <1>7 DEF y

LEMMA RespSendIn ==
  ASSUME NEW kind \in Kinds, NEW b \in Data, NEW headers \in Nat
  PROVE  RespSend(kind, b, headers) \in Seq(Seq(Tok))
<1> DEFINE h == RespHead(kind, Len(b), headers)
           d == IF b = <<>> THEN <<>> ELSE <<Bytes(b)>>
<1>1. h \in Seq(Seq(Tok))
  <2>1. Len(b) \in Nat
    BY LenProperties DEF Data
  <2> QED BY <2>1, RespHeadIn
<1>2. d \in Seq(Seq(Tok))
  <2>1. Bytes(b) \in Seq(Tok)
    BY BytesIs
  <2>2. <<>> \in Seq(Seq(Tok)) /\ <<Bytes(b)>> \in Seq(Seq(Tok))
    BY <2>1, EmptySeq
  <2> QED BY <2>2
<1> HIDE DEF h, d
<1>3. Join(h, d, Seq(Tok))
  BY <1>1, <1>2, Joined, Zenon
<1>4. RespSend(kind, b, headers) = h \o d
  BY DEF RespSend, h, d
<1> QED BY <1>3, <1>4 DEF Join

\* The parts of a chunk.
ChunkParts(b) ==
  <<<<Token("size", Len(b))>>>> \o (IF b = <<>> THEN <<>> ELSE <<Bytes(b)>>) \o <<<<Token("crlf", 0)>>>>

LEMMA ChunkPartsIs ==
  ASSUME NEW b \in Data, NEW head \in Seq(Seq(Tok))
  PROVE  /\ ChunkParts(b) \in Seq(Seq(Tok)) /\ FlattenSeq(ChunkParts(b)) = Chunk(b)
         /\ head \o <<<<Token("size", Len(b))>>>> \o (IF b = <<>> THEN <<>> ELSE <<Bytes(b)>>)
            \o <<<<Token("crlf", 0)>>>> = head \o ChunkParts(b)
<1> DEFINE a == <<Token("size", Len(b))>>
           y == Bytes(b)
           z == <<Token("crlf", 0)>>
           as == <<a>>
           d == IF b = <<>> THEN <<>> ELSE <<y>>
           zs == <<z>>
<1>1. y \in Seq(Tok) /\ (b = <<>> => y = <<>>)
  <2>1. b = <<>> => Len(y) = 0
    BY BytesIs, EmptyData
  <2> QED BY <2>1, BytesIs, EmptySeq
<1>2. a \in Seq(Tok)
  <2>1. Len(b) \in Nat
    BY LenProperties DEF Data
  <2>2. Token("size", Len(b)) \in Tok
    BY <2>1, TokIs
  <2> QED BY <2>2
<1>3. z \in Seq(Tok)
  BY TokIs
<1>4. Chunk(b) = (a \o y) \o z /\ ChunkParts(b) = (as \o d) \o zs
  BY DEF Chunk, ChunkParts
<1> HIDE DEF a, y, z
<1>5. as \in Seq(Seq(Tok)) /\ zs \in Seq(Seq(Tok)) /\ FlattenSeq(as) = a /\ FlattenSeq(zs) = z
  BY <1>2, <1>3, FlattenOne
<1>6. d \in Seq(Seq(Tok)) /\ FlattenSeq(d) = y
  <2>1. <<>> \in Seq(Seq(Tok)) /\ <<y>> \in Seq(Seq(Tok)) /\ FlattenSeq(<<y>>) = y
    BY <1>1, FlattenOne, EmptySeq
  <2> QED BY <1>1, <2>1, FlattenEmpty
<1> HIDE DEF as, d, zs
<1> DEFINE u == as \o d
<1>7. u \in Seq(Seq(Tok)) /\ FlattenSeq(u) = a \o y
  <2>1. Join(as, d, Seq(Tok))
    BY <1>5, <1>6, Joined, Zenon
  <2>2. FlattenSeq(as \o d) = FlattenSeq(as) \o FlattenSeq(d)
    BY <1>5, <1>6, FlattenCat
  <2>3. FlattenSeq(u) = a \o y
    BY ONLY <1>5, <1>6, <2>2
  <2> QED BY <2>1, <2>3 DEF Join
<1>8. Grouped(head, as, d)
  BY <1>5, <1>6, Groups, Zenon
<1> HIDE DEF u
<1>9. u \o zs \in Seq(Seq(Tok)) /\ FlattenSeq(u \o zs) = (a \o y) \o z /\ Grouped(head, u, zs)
  <2>1. Join(u, zs, Seq(Tok)) /\ Grouped(head, u, zs)
    BY <1>5, <1>7, Joined, Groups, Zenon
  <2>2. FlattenSeq(u \o zs) = FlattenSeq(u) \o FlattenSeq(zs)
    BY <1>5, <1>7, FlattenCat
  <2>3. FlattenSeq(u \o zs) = (a \o y) \o z
    BY ONLY <1>5, <1>7, <2>2
  <2> QED BY <2>1, <2>3 DEF Join
<1>10. ((head \o as) \o d) \o zs = head \o ((as \o d) \o zs)
  BY ONLY <1>8, <1>9 DEF Grouped, u
<1>11. ChunkParts(b) = u \o zs
  BY <1>4 DEF u
<1> QED BY ONLY <1>4, <1>9, <1>10, <1>11 DEF as, d, zs, a, y, z

\* What send_fn takes is gone from what is left to send, and nothing else is.
SentOf(q, n, T) == (IF n = Len(q) THEN <<>> ELSE <<SubSeq(q, n + 1, Len(q))>>) \o T

SendsOn(w, q, T, n) ==
  /\ w \o SubSeq(q, 1, n) \in Seq(Tok) /\ SentOf(q, n, T) \in Seq(Seq(Tok))
  /\ (w \o SubSeq(q, 1, n)) \o FlattenSeq(SentOf(q, n, T)) = w \o FlattenSeq(<<q>> \o T)
  /\ (\E i \in 1..Len(T) : T[i] = Blank) =>
       \E i \in 1..Len(SentOf(q, n, T)) : SentOf(q, n, T)[i] = Blank

LEMMA SendOn ==
  ASSUME NEW w \in Seq(Tok), NEW q \in Seq(Tok), NEW T \in Seq(Seq(Tok)),
         NEW n \in {Len(q), (Len(q) + 1) \div 2}
  PROVE  SendsOn(w, q, T, n)
<1> DEFINE a == SubSeq(q, 1, n)
           c == SubSeq(q, n + 1, Len(q))
           r == IF n = Len(q) THEN <<>> ELSE <<c>>
           f == FlattenSeq(T)
<1>1. n \in 0..Len(q) /\ Len(q) \in Nat /\ n \in Nat
  <2>1. Len(q) \in Nat
    BY LenProperties
  <2> QED BY <2>1
<1>2. a \in Seq(Tok) /\ c \in Seq(Tok) /\ a \o c = q /\ (n = Len(q) => c = <<>>)
  <2>1. \A i \in 1..Len(q) : q[i] \in Tok
    BY ElementOfSeq
  <2>2. /\ a \in Seq(Tok) /\ Len(a) = n /\ \A i \in 1..n : a[i] = q[i]
    BY <1>1, <2>1
  <2>3. /\ c \in Seq(Tok) /\ Len(c) = Len(q) - n /\ \A i \in 1..Len(q) - n : c[i] = q[n + i]
    BY <1>1, <2>1
  <2> HIDE DEF a, c
  <2>4. Join(a, c, Tok)
    BY <2>2, <2>3, Joined, Zenon
  <2>5. a \o c \in Seq(Tok) /\ Len(a \o c) = Len(q)
    BY <1>1, <2>2, <2>3, <2>4 DEF Join
  <2>6. ASSUME NEW i \in 1..Len(q) PROVE (a \o c)[i] = q[i]
    <3>1. CASE i <= n
      <4>1. i \in 1..n
        BY <1>1, <3>1
      <4> QED BY <2>2, <2>4, <4>1 DEF Join
    <3>2. CASE i > n
      <4> DEFINE j == i - n
      <4>1. j \in 1..Len(q) - n /\ n + j = i
        BY <1>1, <3>2
      <4> HIDE DEF j
      <4>2. (a \o c)[Len(a) + j] = c[j]
        <5>1. j \in 1..Len(c)
          BY <2>3, <4>1
        <5> QED BY ONLY <2>4, <5>1 DEF Join
      <4>3. Len(a) = n
        BY <2>2
      <4>4. c[j] = q[n + j]
        BY <2>3, <4>1
      <4> QED BY ONLY <4>1, <4>2, <4>3, <4>4
    <3>3. i <= n \/ i > n
      <4>1. n \in Nat /\ i \in Int
        BY <1>1
      <4> QED BY ONLY <4>1
    <3> QED BY ONLY <3>1, <3>2, <3>3
  <2>7. a \o c = q
    BY <2>5, <2>6, SeqEqual
  <2>8. n = Len(q) => c = <<>>
    BY <1>1, <2>3, EmptySeq
  <2> QED BY <2>2, <2>3, <2>7, <2>8
<1>3. f \in Seq(Tok)
  BY FlattenIn
<1>4. SentOf(q, n, T) = r \o T
  BY DEF SentOf
<1>5. r = IF n = Len(q) THEN <<>> ELSE <<c>>
  OBVIOUS
<1> HIDE DEF a, c, r, f
<1>6. r \in Seq(Seq(Tok)) /\ FlattenSeq(r) = c
  <2>1. <<>> \in Seq(Seq(Tok)) /\ <<c>> \in Seq(Seq(Tok)) /\ FlattenSeq(<<c>>) = c
    BY <1>2, FlattenOne, EmptySeq
  <2> QED BY <1>2, <1>5, <2>1, FlattenEmpty
<1>7. Join(r, T, Seq(Tok)) /\ Join(w, a, Tok) /\ Grouped(w, a, c) /\ Grouped(w, q, f)
  BY <1>2, <1>3, <1>6, Joined, Groups, Zenon
<1>8. FlattenSeq(r \o T) = c \o f
  <2>1. FlattenSeq(r \o T) = FlattenSeq(r) \o FlattenSeq(T)
    BY <1>6, FlattenCat
  <2> QED BY ONLY <1>6, <2>1 DEF f
<1>9. FlattenSeq(<<q>> \o T) = q \o f
  BY FlattenCons DEF f
<1> DEFINE v == w \o a
<1>10. v \in Seq(Tok)
  BY <1>7 DEF Join
<1> HIDE DEF v
<1>11. Grouped(v, c, f)
  BY <1>2, <1>3, <1>10, Groups, Zenon
<1>12. v \o FlattenSeq(r \o T) = w \o FlattenSeq(<<q>> \o T)
  <2>1. v \o (c \o f) = (v \o c) \o f
    BY ONLY <1>11 DEF Grouped
  <2>2. v \o c = w \o q
    BY ONLY <1>2, <1>7 DEF Grouped, v
  <2>3. (w \o q) \o f = w \o (q \o f)
    BY ONLY <1>7 DEF Grouped
  <2> QED BY ONLY <1>8, <1>9, <2>1, <2>2, <2>3
<1>13. ASSUME NEW i \in 1..Len(T), T[i] = Blank PROVE \E j \in 1..Len(r \o T) : (r \o T)[j] = Blank
  <2>1. Len(r) + i \in 1..Len(r \o T) /\ (r \o T)[Len(r) + i] = T[i]
    BY <1>7 DEF Join
  <2> QED BY <1>13, <2>1
<1>14. r \o T \in Seq(Seq(Tok))
  BY <1>7 DEF Join
<1> HIDE DEF v
<1> QED BY ONLY <1>4, <1>10, <1>12, <1>13, <1>14 DEF v, a, SendsOn

\* The beginning of what is sent and still to be sent.
LEMMA BeginsOf ==
  ASSUME NEW w \in Seq(Tok), NEW x \in Seq(Tok)
  PROVE  Begins(w, w \o x)
<1>1. Join(w, x, Tok)
  BY Joined, Zenon
<1> QED BY <1>1 DEF Join, Begins

\* The response the handler sends for a raw frame: what its chunks hold so far.
RespOf(bs, t) == Preamble("chunked", 0) \o (ChunksOf(bs) \o t)

LEMMA FullIsData == Full \subseteq Data /\ Seq(Full) \subseteq Seq(Data)
<1>1. Full \subseteq Data
  BY DEF Full, Data
<1> QED BY <1>1, SeqMonotonic

LEMMA RespOfIn ==
  ASSUME NEW bs \in Seq(Full), NEW t \in Seq(Tok)
  PROVE  ChunksOf(bs) \in Seq(Tok) /\ ChunksOf(bs) \o t \in Seq(Tok) /\ RespOf(bs, t) \in Seq(Tok)
<1> DEFINE d == ChunksOf(bs)
           h == Preamble("chunked", 0)
<1>1. d \in Seq(Tok) /\ h \in Seq(Tok)
  BY FullIsData, ChunksOfIn, PreambleIs DEF Kinds
<1> HIDE DEF d, h
<1>2. d \o t \in Seq(Tok)
  <2>1. Join(d, t, Tok)
    BY <1>1, Joined, Zenon
  <2> QED BY <2>1 DEF Join
<1> DEFINE x == d \o t
<1> HIDE DEF x
<1>3. Join(h, x, Tok)
  BY <1>1, <1>2, Joined, Zenon DEF x
<1> QED BY <1>1, <1>2, <1>3 DEF RespOf, Join, x, d, h

LEMMA RespOfAppend ==
  ASSUME NEW bs \in Seq(Full), NEW c \in Full
  PROVE  RespOf(bs, <<>>) \o Chunk(c) = RespOf(Append(bs, c), <<>>)
<1> DEFINE h == Preamble("chunked", 0)
           d == ChunksOf(bs)
           k == Chunk(c)
           dk == d \o k
<1>1. h \in Seq(Tok) /\ d \in Seq(Tok) /\ k \in Seq(Tok) /\ ChunksOf(Append(bs, c)) = dk
  BY FullIsData, ChunksOfIn, ChunksOfAppend, ChunkIs, PreambleIs DEF Kinds
<1> HIDE DEF h, d, k
<1>2. Grouped(h, d, k) /\ Join(d, k, Tok)
  BY <1>1, Joined, Groups, Zenon
<1>3. dk \in Seq(Tok)
  BY <1>2 DEF Join
<1> HIDE DEF dk
<1>4. d \o <<>> = d /\ dk \o <<>> = dk
  BY <1>1, <1>3, ConcatEmptySeq
<1>5. RespOf(bs, <<>>) = h \o (d \o <<>>) /\ RespOf(Append(bs, c), <<>>) = h \o (dk \o <<>>)
  BY ONLY <1>1 DEF RespOf, h, d
<1>6. (h \o d) \o k = h \o dk
  BY ONLY <1>2 DEF Grouped, dk
<1> QED BY ONLY <1>4, <1>5, <1>6 DEF k

LEMMA RespOfEnd ==
  ASSUME NEW bs \in Seq(Full), NEW t, Open(t) \/ Ends(t)
  PROVE  /\ RespOf(bs, t) \o Chunk(<<>>) = RespOf(bs, t \o Chunk(<<>>))
         /\ Ends(t \o Chunk(<<>>))
<1> DEFINE h == Preamble("chunked", 0)
           d == ChunksOf(bs)
           k == Chunk(<<>>)
           x == d \o t
<1>0. t \in Seq(Tok)
  BY EndsNotOpen, EmptySeq DEF Open
<1>1. h \in Seq(Tok) /\ d \in Seq(Tok) /\ k \in Seq(Tok)
  BY FullIsData, ChunksOfIn, ChunkIs, EmptyData, PreambleIs DEF Kinds
<1>2. k = Chunk(<<>>) /\ RespOf(bs, t) = h \o x /\ RespOf(bs, t \o k) = h \o (d \o (t \o k))
  BY DEF RespOf
<1> HIDE DEF h, d, k
<1>3. Grouped(d, t, k) /\ Join(d, t, Tok) /\ Join(t, k, Tok)
  BY <1>0, <1>1, Joined, Groups, Zenon
<1>4. x \in Seq(Tok)
  BY <1>3 DEF Join
<1> HIDE DEF x
<1>5. Grouped(h, x, k)
  BY <1>1, <1>4, Groups, Zenon
<1>6. (h \o x) \o k = h \o (x \o k) /\ x \o k = d \o (t \o k)
  BY ONLY <1>3, <1>5 DEF Grouped, x
<1>7. RespOf(bs, t) \o k = RespOf(bs, t \o k)
  BY ONLY <1>2, <1>6
<1>8. Ends(t \o k)
  <2>1. CASE Open(t)
    <3>1. t \o k = k /\ k \o <<>> = k /\ <<>> \in Seq(Tok)
      BY <1>1, <2>1, ConcatEmptySeq, EmptySeq DEF Open
    <3>2. t \o k = k \o <<>>
      BY ONLY <3>1
    <3> QED BY <1>2, <3>1, <3>2 DEF Ends
  <2>2. CASE Ends(t)
    <3>1. PICK u \in Seq(Tok) : t = k \o u
      BY <1>2, <2>2 DEF Ends
    <3>2. Grouped(k, u, k) /\ Join(u, k, Tok)
      BY <1>1, Joined, Groups, Zenon
    <3>3. t \o k = k \o (u \o k)
      BY ONLY <3>1, <3>2 DEF Grouped
    <3>4. u \o k \in Seq(Tok)
      BY <3>2 DEF Join
    <3> QED BY <1>2, <3>3, <3>4 DEF Ends
  <2> QED BY <2>1, <2>2
<1> QED BY ONLY <1>2, <1>7, <1>8

-----------------------------------------------------------------------------
(* What the encoder still owes.                                            *)

LEMMA NextCalls ==
  ASSUME NEW S, NEW s \in Seq(Seq(S)), NEW k \in Nat, k < Len(s)
  PROVE  /\ s[k + 1] \in Seq(S) /\ FlattenSeq(SubSeq(s, k + 2, Len(s))) \in Seq(S)
         /\ FlattenSeq(SubSeq(s, k + 1, Len(s))) = s[k + 1] \o FlattenSeq(SubSeq(s, k + 2, Len(s)))
<1> DEFINE n == Len(s)
           x == s[k + 1]
           b == SubSeq(s, k + 2, n)
           T == Seq(S)
<1>1. s \in Seq(T) /\ n \in Nat /\ k + 1 \in 1..n /\ n \in k + 1..n /\ k + 1 + 1 = k + 2
  BY LenProperties
<1>2. \A i \in 1..n : s[i] \in T
  BY ElementOfSeq
<1> HIDE DEF T
<1>3. SubSeq(s, k + 1, n) = <<x>> \o b
  <2>1. SubSeq(s, k + 1, n) = <<s[k + 1]>> \o SubSeq(s, k + 1 + 1, n)
    BY <1>1, SubSeqRecursiveFirst
  <2> QED BY ONLY <1>1, <2>1
<1> HIDE DEF n
<1>4. x \in T /\ b \in Seq(T)
  <2>1. \A i \in k + 2..n : i \in 1..n
    BY <1>1
  <2>2. k + 2 \in Int /\ n \in Int
    BY <1>1
  <2> QED BY <1>1, <1>2, <2>1, <2>2, SubSeqProperties
<1> HIDE DEF x, b
<1>5. FlattenSeq(<<x>> \o b) = x \o FlattenSeq(b) /\ FlattenSeq(b) \in Seq(S)
  BY <1>4, FlattenCons, FlattenIn DEF T
<1> QED BY ONLY <1>3, <1>4, <1>5 DEF b, x, n, T

\* All the buffers of a picture: the last alone is empty.
LastEmpty(all) ==
  all \in Seq(Data) /\ all # <<>> /\ \A i \in 1..Len(all) : all[i] = <<>> <=> i = Len(all)

Taken(all, bs, c, rest) ==
  /\ c # <<>> => Append(bs, c) \in Seq(Full) /\ Append(bs, c) \o rest = all
  /\ c = <<>> => Append(bs, <<>>) = all /\ rest = <<>>

LEMMA TakeOne ==
  ASSUME NEW all, LastEmpty(all), NEW bs \in Seq(Full), NEW c \in Data, NEW rest \in Seq(Data),
         bs \o (<<c>> \o rest) = all
  PROVE  Taken(all, bs, c, rest)
<1> DEFINE y == <<c>>
           x == y \o rest
           a == Append(bs, c)
<1>1. bs \in Seq(Data) /\ y \in Seq(Data) /\ Len(y) = 1 /\ y[1] = c
  BY FullIsData
<1>2. bs \o y = a /\ a \in Seq(Data) /\ Len(a) = Len(bs) + 1
  BY <1>1, AppendIsConcat, AppendProperties
<1>3. c # <<>> => a \in Seq(Full)
  <2>1. c # <<>> => c \in Full
    BY DEF Full, Data
  <2> QED BY <2>1, AppendProperties
<1> HIDE DEF y, a
<1>4. Grouped(bs, y, rest) /\ Join(y, rest, Data)
  BY <1>1, Joined, Groups, Zenon
<1>5. a \o rest = all
  <2>1. bs \o (y \o rest) = all
    BY DEF y
  <2> QED BY ONLY <1>2, <1>4, <2>1 DEF Grouped
<1>6. x \in Seq(Data) /\ Len(x) = 1 + Len(rest) /\ x[1] = c /\ Len(rest) \in Nat /\ Len(bs) \in Nat
  <2>1. Len(bs) \in Nat
    BY LenProperties
  <2>2. 1 \in 1..Len(y)
    BY <1>1
  <2> QED BY <1>1, <1>4, <2>1, <2>2 DEF Join
<1> HIDE DEF x
<1>7. Len(all) = Len(bs) + 1 + Len(rest) /\ all[Len(bs) + 1] = c
  <2>1. Join(bs, x, Data)
    BY <1>1, <1>6, Joined, Zenon
  <2>2. bs \o x = all
    BY DEF x, y
  <2>3. 1 \in 1..Len(x)
    BY <1>6
  <2> QED BY <1>6, <2>1, <2>2, <2>3 DEF Join
<1>8. ASSUME c = <<>> PROVE rest = <<>> /\ a = all
  <2>1. Len(bs) + 1 \in 1..Len(all)
    BY <1>6, <1>7
  <2>2. Len(bs) + 1 = Len(all)
    BY <1>7, <1>8, <2>1 DEF LastEmpty
  <2>3. Len(rest) = 0
    BY <1>6, <1>7, <2>2
  <2>4. rest = <<>>
    BY <2>3, EmptySeq
  <2>5. a \o <<>> = a
    BY <1>2, ConcatEmptySeq
  <2> QED BY <1>5, <2>4, <2>5
<1> QED BY ONLY <1>3, <1>5, <1>8 DEF a, Taken

\* As long as no buffer was empty some are owed.
LEMMA NotYetAll ==
  ASSUME NEW all, LastEmpty(all), NEW bs \in Seq(Full), bs \o <<>> = all
  PROVE  FALSE
<1>1. bs = all
  BY ConcatEmptySeq
<1>2. Len(all) \in 1..Len(all)
  BY EmptySeq, LenProperties DEF LastEmpty
<1>3. all[Len(all)] = <<>> /\ bs[Len(all)] \in Full
  BY <1>1, <1>2, ElementOfSeq DEF LastEmpty
<1> QED BY <1>1, <1>3 DEF Full

-----------------------------------------------------------------------------
(* The states of the handler.                                              *)

\* A send of a chunked response that fails is the end of its connection: see
\* the README on what the handler does where it is not.
NoHole == Recovers \subseteq {"JPEG"}

\* The encoder fills buffers as it promises, for every raw frame.
Promised == \A f \in Buffers : Frame[f].format # "JPEG" => FillsBuffers(f)

Parts == Seq(Seq(Tok))

HandlerTyped ==
  /\ pc \in {"get", "send", "line", "lines", "deinit", "terminate", "return", "done"}
  /\ fb \in Buffers \cup {NULL} /\ scanline \in Nat /\ dead \in BOOLEAN /\ res \in {"OK", "FAIL"}
  /\ resp \in [hdrs_count : Nat, first_chunk_sent : BOOLEAN]
  /\ calls \in Seq(Data) /\ parts \in Parts /\ wire \in Seq(Tok)

Raw == fb # NULL /\ Format # "JPEG"
Compressed == fb # NULL /\ Format = "JPEG"
Unsent == wire = <<>> /\ parts = <<>> /\ ~ resp.first_chunk_sent

\* What goes with each place the handler may be at.
Phases ==
  /\ fb = NULL <=> pc \in {"get", "done"}
  /\ pc \in {"get", "send"} => Unsent /\ calls = <<>>
  /\ pc = "get" => resp.hdrs_count = 0
  /\ fb # NULL /\ res = "OK" => resp.hdrs_count = 1
  /\ Compressed => pc \in {"send", "return"} /\ calls = <<>>
  /\ pc = "lines" => scanline \in 1..Frame[fb].height + 1

LEMMA FrameFacts ==
  ASSUME Promised, NEW f \in Buffers
  PROVE  /\ f # NULL
         /\ Frame[f].format = "JPEG" => Frame[f].data \in Data
         /\ Frame[f].format # "JPEG" =>
              /\ Frame[f].height \in Nat
              /\ Puts[f] \in Seq(Seq(Data)) /\ Len(Puts[f]) = Frame[f].height + 2
              /\ FlattenSeq(Puts[f]) \in Seq(Data) /\ LastEmpty(FlattenSeq(Puts[f]))
              /\ \A k \in 1..Frame[f].height + 2 : Puts[f][k] \in Seq(Data)
<1>1. f # NULL
  BY FrameAssumption DEF Buffers
<1>2. Seq(0..255) \subseteq Data
  <2>1. 0..255 \subseteq Nat
    OBVIOUS
  <2> QED BY <2>1, SeqMonotonic DEF Data
<1>3. CASE Frame[f].format = "JPEG"
  <2>1. Frame[f].data \in Seq(0..255)
    BY <1>3, FrameAssumption DEF Buffers
  <2> QED BY <1>1, <1>2, <1>3, <2>1
<1>4. CASE Frame[f].format # "JPEG"
  <2> DEFINE all == FlattenSeq(Puts[f])
             p == Puts[f]
             n == Frame[f].height
  <2>1. n \in Nat
    BY <1>4, FrameAssumption DEF Buffers
  <2>2. FillsBuffers(f)
    BY <1>4 DEF Promised
  <2>3. p \in Seq(Seq(Data)) /\ Len(p) = n + 2
    <3>1. p \in Seq(Seq(Seq(0..255))) /\ Len(p) = n + 2
      BY <2>2 DEF FillsBuffers
    <3>2. Seq(Seq(0..255)) \subseteq Seq(Data)
      BY <1>2, SeqMonotonic
    <3>3. Seq(Seq(Seq(0..255))) \subseteq Seq(Seq(Data))
      BY <3>2, SeqMonotonic
    <3> QED BY <3>1, <3>3
  <2>4. all # <<>> /\ \A i \in DOMAIN all : all[i] = <<>> <=> i = Len(all)
    BY <2>2 DEF FillsBuffers
  <2> HIDE DEF p, n, all
  <2>5. FlattenSeq(p) \in Seq(Data)
    BY <2>3, FlattenIn
  <2>6. all \in Seq(Data)
    BY <2>5 DEF all, p
  <2>7. LastEmpty(all)
    <3>1. DOMAIN all = 1..Len(all)
      BY <2>6, LenProperties
    <3> QED BY ONLY <2>4, <2>6, <3>1 DEF LastEmpty
  <2>8. ASSUME NEW k \in 1..n + 2 PROVE p[k] \in Seq(Data)
    BY <2>3, ElementOfSeq
  <2> QED BY <1>1, <1>4, <2>1, <2>3, <2>6, <2>7, <2>8 DEF all, p, n
<1> QED BY <1>3, <1>4

LEMMA SendStep ==
  ASSUME HandlerTyped, Send
  PROVE  /\ wire' \in Seq(Tok) /\ parts' \in Parts
         /\ wire' \o FlattenSeq(parts') = wire \o FlattenSeq(parts)
         /\ (\E i \in 1..Len(parts) : parts[i] = Blank) =>
              parts[1] = Blank \/ \E i \in 1..Len(parts') : parts'[i] = Blank
<1> DEFINE q == parts[1]
           T == Tail(parts)
           S == Seq(Tok)
<1>1. parts \in Seq(S) /\ parts # <<>> /\ wire \in Seq(Tok)
  BY DEF HandlerTyped, Parts, Send
<1> HIDE DEF S
<1>2. q \in S /\ T \in Seq(S) /\ parts = <<q>> \o T
  BY <1>1
<1>3. (\E i \in 1..Len(parts) : parts[i] = Blank) => q = Blank \/ \E i \in 1..Len(T) : T[i] = Blank
  <2> SUFFICES ASSUME NEW i \in 1..Len(parts), parts[i] = Blank, i # 1 PROVE \E j \in 1..Len(T) : T[j] = Blank
    OBVIOUS
  <2>1. Len(T) = Len(parts) - 1 /\ \A j \in 1..Len(T) : T[j] = parts[j + 1]
    BY <1>1
  <2> HIDE DEF T
  <2> DEFINE j == i - 1
  <2>2. j \in 1..Len(T) /\ j + 1 = i
    <3>1. Len(parts) \in Nat
      BY <1>1, LenProperties
    <3> QED BY <2>1, <3>1
  <2> HIDE DEF j
  <2>3. T[j] = Blank
    BY <2>1, <2>2
  <2> QED BY <2>2, <2>3
<1>4. PICK n \in {Len(q), (Len(q) + 1) \div 2} :
        wire' = wire \o SubSeq(q, 1, n) /\ parts' = SentOf(q, n, T)
  BY DEF Send, SentOf
<1> HIDE DEF q, T
<1>5. SendsOn(wire, q, T, n)
  <2>1. q \in Seq(Tok) /\ T \in Seq(Seq(Tok))
    BY ONLY <1>2 DEF S
  <2>2. n \in {Len(q), (Len(q) + 1) \div 2}
    OBVIOUS
  <2> QED BY <1>1, <2>1, <2>2, SendOn, Zenon
<1> QED BY ONLY <1>2, <1>3, <1>4, <1>5 DEF q, SendsOn, Parts

LEMMA RespSendChunkIs ==
  ASSUME HandlerTyped, NEW c \in Data
  PROVE  /\ RespSendChunk(c) \in Parts
         /\ resp.first_chunk_sent => FlattenSeq(RespSendChunk(c)) = Chunk(c)
         /\ ~ resp.first_chunk_sent =>
              /\ \E i \in 1..Len(RespSendChunk(c)) : RespSendChunk(c)[i] = Blank
              /\ resp.hdrs_count = 1 => FlattenSeq(RespSendChunk(c)) = Preamble("chunked", 0) \o Chunk(c)
<1> DEFINE h == RespHead("chunked", 0, resp.hdrs_count)
           g == IF resp.first_chunk_sent THEN <<>> ELSE h
           k == ChunkParts(c)
           S == Seq(Tok)
<1>1. /\ h \in Seq(S) /\ \E i \in 1..Len(h) : h[i] = Blank
      /\ resp.hdrs_count = 1 => FlattenSeq(h) = Preamble("chunked", 0)
  <2>1. resp.hdrs_count \in Nat /\ "chunked" \in Kinds
    BY DEF HandlerTyped, Kinds
  <2> QED BY <2>1, RespHeadIn, RespHeadFlat
<1> HIDE DEF h
<1>2. g \in Seq(S)
  BY <1>1, EmptySeq
<1> HIDE DEF g
<1>3. k \in Seq(S) /\ FlattenSeq(k) = Chunk(c) /\ RespSendChunk(c) = g \o k
  BY <1>2, ChunkPartsIs DEF RespSendChunk, g, h
<1> HIDE DEF k, S
<1>4. Join(g, k, S)
  BY <1>2, <1>3, Joined, Zenon
<1>5. g \o k \in Parts
  BY <1>4 DEF Join, Parts, S
<1>6. CASE resp.first_chunk_sent
  <2>1. g \o k = k
    <3>1. g = <<>>
      BY <1>6 DEF g
    <3> QED BY <1>3, <3>1, ConcatEmptySeq
  <2> QED BY ONLY <1>3, <1>5, <1>6, <2>1
<1>7. CASE ~ resp.first_chunk_sent
  <2>1. g = h
    BY <1>7 DEF g
  <2>2. \E i \in 1..Len(g \o k) : (g \o k)[i] = Blank
    <3>1. PICK i \in 1..Len(g) : g[i] = Blank
      BY <1>1, <2>1
    <3>2. i \in 1..Len(g \o k) /\ (g \o k)[i] = g[i]
      BY <1>4 DEF Join
    <3> QED BY <3>1, <3>2
  <2>3. FlattenSeq(g \o k) = FlattenSeq(g) \o FlattenSeq(k)
    BY <1>2, <1>3, FlattenCat DEF S
  <2> QED BY ONLY <1>1, <1>3, <1>5, <1>7, <2>1, <2>2, <2>3
<1> QED BY <1>6, <1>7

LEMMA EmptyTyped == <<>> \in Seq(Data) /\ <<>> \in Parts /\ <<>> \in Seq(Tok) /\ <<>> \in Data
BY EmptySeq DEF Parts, Data

LEMMA InitTyped == Init => HandlerTyped /\ Phases
<1> SUFFICES ASSUME Init PROVE HandlerTyped /\ Phases
  OBVIOUS
<1>1. HandlerTyped
  BY EmptyTyped DEF Init, HandlerTyped
<1>2. Phases
  BY DEF Init, Phases, Unsent, Compressed
<1> QED BY <1>1, <1>2

LEMMA TypedStep ==
  ASSUME Promised, HandlerTyped, Phases, [Next]_vars
  PROVE  HandlerTyped' /\ Phases'
<1>1. CASE UNCHANGED vars
  BY <1>1 DEF vars, HandlerTyped, Phases, Unsent, Compressed, Format
<1>2. CASE Send
  <2>1. wire' \in Seq(Tok) /\ parts' \in Parts
    BY <1>2, SendStep
  <2>2. /\ resp' \in [hdrs_count : Nat, first_chunk_sent : BOOLEAN] /\ resp'.hdrs_count = resp.hdrs_count
    <3> DEFINE b == resp.first_chunk_sent \/ (fb # NULL /\ Format # "JPEG" /\ parts[1] = <<Token("blank", 0)>>)
    <3>1. b \in BOOLEAN /\ resp' = [resp EXCEPT !.first_chunk_sent = b]
      BY <1>2 DEF Send, HandlerTyped
    <3> HIDE DEF b
    <3> QED BY <3>1 DEF HandlerTyped
  <2>3. HandlerTyped'
    BY <1>2, <2>1, <2>2 DEF Send, HandlerTyped
  <2>4. pc \notin {"get", "send"}
    BY <1>2 DEF Send, Phases, Unsent
  <2>5. pc' = pc /\ fb' = fb /\ scanline' = scanline /\ calls' = calls /\ res' = res
    BY <1>2 DEF Send
  <2> QED BY <2>2, <2>3, <2>4, <2>5 DEF Phases, Compressed, Format
<1>3. CASE SendFails
  <2>1. pc \notin {"get", "send"}
    BY <1>3 DEF SendFails, Phases, Unsent
  <2>2. /\ pc' = pc /\ fb' = fb /\ scanline' = scanline /\ calls' = calls /\ resp' = resp /\ wire' = wire
        /\ res' \in {res, "FAIL"} /\ dead' \in BOOLEAN /\ parts' = <<>>
    BY <1>3 DEF SendFails
  <2>3. HandlerTyped'
    BY <2>2, EmptyTyped DEF HandlerTyped
  <2> QED BY <2>1, <2>2, <2>3 DEF Phases, Compressed, Format
<1>4. CASE EncodeStream
  <2>1. calls[1] \in Data /\ Tail(calls) \in Seq(Data) /\ calls # <<>>
    BY <1>4 DEF HandlerTyped, EncodeStream
  <2>2. RespSendChunk(calls[1]) \in Parts
    BY <2>1, RespSendChunkIs
  <2>3. /\ pc' = pc /\ fb' = fb /\ scanline' = scanline /\ resp' = resp /\ wire' = wire
        /\ dead' = dead /\ res' = res /\ parts' = RespSendChunk(calls[1]) /\ calls' = Tail(calls)
    BY <1>4 DEF EncodeStream
  <2>4. HandlerTyped'
    BY <2>1, <2>2, <2>3 DEF HandlerTyped
  <2>5. pc \notin {"get", "send"} /\ ~ Compressed
    BY <2>1 DEF Phases
  <2> QED BY <2>3, <2>4, <2>5 DEF Phases, Compressed, Format
<1>5. CASE FrameMissing
  <2>1. RespSend("error", <<0>>, resp.hdrs_count) \in Parts
    <3>1. <<0>> \in Data /\ "error" \in Kinds /\ resp.hdrs_count \in Nat
      BY DEF Data, Kinds, HandlerTyped
    <3> QED BY <3>1, RespSendIn, Zenon DEF Parts
  <2>2. HandlerTyped'
    BY <1>5, <2>1 DEF FrameMissing, HandlerTyped
  <2>3. fb' = fb /\ pc = "get" /\ pc' = "done"
    BY <1>5 DEF FrameMissing
  <2> QED BY <2>2, <2>3 DEF Phases, Compressed
<1>6. ASSUME NEW f \in Buffers, GetFrame(f) PROVE HandlerTyped' /\ Phases'
  <2>1. /\ resp' \in [hdrs_count : Nat, first_chunk_sent : BOOLEAN]
        /\ resp'.first_chunk_sent = resp.first_chunk_sent /\ res' \in {"OK", "FAIL"} /\ pc' \in {"send", "return"}
        /\ res' = "OK" => resp'.hdrs_count = resp.hdrs_count + 1
    BY <1>6 DEF GetFrame, HandlerTyped
  <2>2. HandlerTyped'
    BY <1>6, <2>1 DEF GetFrame, HandlerTyped
  <2>3. /\ pc = "get" /\ fb' = f /\ f # NULL /\ wire' = wire /\ parts' = parts /\ calls' = calls
    BY <1>6, FrameFacts DEF GetFrame
  <2>4. Unsent /\ calls = <<>> /\ resp.hdrs_count = 0
    BY <2>3 DEF Phases
  <2> QED BY <2>1, <2>2, <2>3, <2>4 DEF Phases, Compressed, Unsent
<1>7. CASE SendFrame
  <2>1. fb \in Buffers /\ Frame[fb].data \in Data /\ fb # NULL
    <3>1. fb \in Buffers /\ fb # NULL
      BY <1>7 DEF SendFrame, Phases, HandlerTyped
    <3> QED BY <1>7, <3>1, FrameFacts DEF SendFrame, Format
  <2>2. RespSend("length", Frame[fb].data, resp.hdrs_count) \in Parts
    <3>1. "length" \in Kinds /\ resp.hdrs_count \in Nat
      BY DEF Kinds, HandlerTyped
    <3> QED BY <2>1, <3>1, RespSendIn, Zenon DEF Parts
  <2>3. HandlerTyped'
    BY <1>7, <2>2 DEF SendFrame, HandlerTyped
  <2> QED BY <1>7, <2>1, <2>3 DEF SendFrame, Phases, Compressed, Format
<1>8. CASE InitEncoder
  <2>1. fb \in Buffers /\ fb # NULL /\ Format # "JPEG" /\ Puts[fb][1] \in Seq(Data)
    <3>1. fb \in Buffers /\ fb # NULL /\ Format # "JPEG"
      BY <1>8 DEF InitEncoder, Phases, HandlerTyped
    <3>2. Frame[fb].height \in Nat /\ \A k \in 1..Frame[fb].height + 2 : Puts[fb][k] \in Seq(Data)
      BY <3>1, FrameFacts DEF Format
    <3>3. 1 \in 1..Frame[fb].height + 2
      BY <3>2
    <3> QED BY <3>1, <3>2, <3>3
  <2>2. /\ pc' \in {"line", "terminate"} /\ fb' = fb /\ scanline' = scanline /\ parts' = parts /\ resp' = resp
        /\ wire' = wire /\ dead' = dead /\ calls' \in {calls, Puts[fb][1]} /\ res' \in {res, "FAIL"}
    BY <1>8 DEF InitEncoder, GiveUp
  <2>3. HandlerTyped'
    BY <2>1, <2>2 DEF HandlerTyped
  <2> QED BY <2>1, <2>2, <2>3 DEF Phases, Compressed, Format
<1>9. CASE AllocLine
  <2>1. /\ pc = "line" /\ pc' \in {"lines", "terminate"} /\ fb' = fb /\ scanline' = 1 /\ parts' = parts
        /\ resp' = resp /\ wire' = wire /\ dead' = dead /\ calls' = calls /\ res' \in {res, "FAIL"}
    BY <1>9 DEF AllocLine, GiveUp
  <2>2. HandlerTyped'
    BY <2>1 DEF HandlerTyped
  <2>3. fb \in Buffers /\ fb # NULL /\ ~ Compressed
    BY <2>1 DEF Phases, HandlerTyped
  <2>4. Frame[fb].height \in Nat
    BY <2>3, FrameFacts DEF Compressed, Format
  <2> QED BY <2>1, <2>2, <2>3, <2>4 DEF Phases, Compressed, Format
<1>10. ASSUME ProcessLine \/ ProcessEnd PROVE HandlerTyped' /\ Phases'
  <2>1. /\ pc = "lines" /\ pc' \in {"lines", "deinit"} /\ fb' = fb /\ parts' = parts /\ resp' = resp
        /\ wire' = wire /\ dead' = dead /\ res' = res /\ calls' = Puts[fb][scanline + 1]
        /\ \/ pc' = "lines" /\ scanline' = scanline + 1 /\ scanline <= Frame[fb].height
           \/ pc' = "deinit" /\ scanline' = scanline
    BY <1>10 DEF ProcessLine, ProcessEnd
  <2>2. fb \in Buffers /\ fb # NULL /\ ~ Compressed /\ scanline \in 1..Frame[fb].height + 1
    BY <2>1 DEF Phases, HandlerTyped
  <2>3. Frame[fb].height \in Nat /\ \A k \in 1..Frame[fb].height + 2 : Puts[fb][k] \in Seq(Data)
    BY <2>2, FrameFacts DEF Compressed, Format
  <2>4. scanline + 1 \in 1..Frame[fb].height + 2 /\ (pc' = "lines" => scanline' \in 1..Frame[fb].height + 1)
    BY <2>1, <2>2, <2>3
  <2>5. HandlerTyped'
    BY <2>1, <2>2, <2>3, <2>4 DEF HandlerTyped
  <2> QED BY <2>1, <2>2, <2>4, <2>5 DEF Phases, Compressed, Format
<1>11. CASE Deinit
  <2>1. HandlerTyped'
    BY <1>11 DEF Deinit, HandlerTyped
  <2> QED BY <1>11, <2>1 DEF Deinit, Phases, Compressed, Format
<1>12. CASE Terminate
  <2>1. RespSendChunk(<<>>) \in Parts
    BY EmptyTyped, RespSendChunkIs
  <2>2. HandlerTyped'
    BY <1>12, <2>1 DEF Terminate, HandlerTyped
  <2> QED BY <1>12, <2>2 DEF Terminate, Phases, Compressed, Format
<1>13. CASE FbReturn
  <2>1. HandlerTyped'
    BY <1>13 DEF FbReturn, HandlerTyped
  <2> QED BY <1>13, <2>1 DEF FbReturn, Phases, Compressed
<1>14. CASE Next
  BY <1>2, <1>3, <1>4, <1>5, <1>6, <1>7, <1>8, <1>9, <1>10, <1>11, <1>12, <1>13, <1>14 DEF Next
<1> QED BY <1>1, <1>14

-----------------------------------------------------------------------------
(* A compressed frame.                                                     *)

\* What is sent and still to be sent is the response with its length.
LengthInv ==
  Compressed /\ res = "OK" /\ pc = "return" =>
    wire \o FlattenSeq(parts) = Preamble("length", Len(Frame[fb].data)) \o Bytes(Frame[fb].data)

LEMMA LengthStep ==
  ASSUME Promised, HandlerTyped, Phases, LengthInv, [Next]_vars
  PROVE  LengthInv'
<1>1. CASE UNCHANGED vars
  BY <1>1 DEF vars, LengthInv, Compressed, Format
<1>2. CASE Send
  <2>1. wire' \o FlattenSeq(parts') = wire \o FlattenSeq(parts)
    BY <1>2, SendStep
  <2>2. fb' = fb /\ res' = res /\ pc' = pc
    BY <1>2 DEF Send
  <2> QED BY <2>1, <2>2, Zenon DEF LengthInv, Compressed, Format
<1>3. CASE SendFails
  <2>1. fb' = fb /\ (Compressed => res' = "FAIL")
    BY <1>3 DEF SendFails, Compressed
  <2> QED BY <2>1 DEF LengthInv, Compressed, Format
<1>4. CASE EncodeStream
  <2>1. fb' = fb /\ ~ Compressed
    BY <1>4 DEF EncodeStream, Phases
  <2> QED BY <2>1 DEF LengthInv, Compressed, Format
<1>5. CASE SendFrame
  <2> SUFFICES ASSUME res = "OK"
               PROVE  wire \o FlattenSeq(parts') = Preamble("length", Len(Frame[fb].data)) \o Bytes(Frame[fb].data)
    <3>1. wire' = wire /\ fb' = fb /\ res' = res
      BY <1>5 DEF SendFrame
    <3> QED BY <3>1, Zenon DEF LengthInv
  <2>1. fb \in Buffers /\ Frame[fb].data \in Data /\ fb # NULL /\ resp.hdrs_count = 1 /\ wire = <<>>
    <3>1. fb \in Buffers /\ fb # NULL /\ wire = <<>>
      BY <1>5 DEF SendFrame, Phases, HandlerTyped, Unsent
    <3> QED BY <1>5, <3>1, FrameFacts DEF SendFrame, Format, Phases
  <2> DEFINE b == Frame[fb].data
             ps == RespSend("length", b, 1)
             all == Preamble("length", Len(b)) \o Bytes(b)
  <2>2. parts' = ps
    BY <1>5, <2>1 DEF SendFrame
  <2> HIDE DEF b, ps, all
  <2>3. ps \in Seq(Seq(Tok)) /\ FlattenSeq(ps) = all
    <3>1. "length" \in Kinds /\ b \in Data
      BY <2>1 DEF Kinds, b
    <3> QED BY <3>1, RespSendIs, Zenon DEF ps, all
  <2>4. all \in Seq(Tok)
    BY <2>3, FlattenIn
  <2>5. <<>> \o all = all
    BY <2>4, ConcatEmptySeq
  <2> QED BY ONLY <2>1, <2>2, <2>3, <2>5 DEF all, b
<1>6. ASSUME NEW f \in Buffers, GetFrame(f) PROVE LengthInv'
  BY <1>6 DEF GetFrame, LengthInv
<1>7. ASSUME FrameMissing \/ InitEncoder \/ AllocLine \/ ProcessLine \/ ProcessEnd \/ Deinit \/ Terminate \/ FbReturn
      PROVE  LengthInv'
  <2>1. pc' # "return" \/ (fb' = fb /\ ~ Compressed)
    BY <1>7 DEF FrameMissing, InitEncoder, AllocLine, ProcessLine, ProcessEnd, Deinit, Terminate, FbReturn,
                GiveUp, Phases
  <2> QED BY <2>1 DEF LengthInv, Compressed, Format
<1>8. CASE Next
  BY <1>2, <1>3, <1>4, <1>5, <1>6, <1>7, <1>8 DEF Next
<1> QED BY <1>1, <1>8

-----------------------------------------------------------------------------
(* A raw frame.                                                            *)

\* How many of the encoder's batches of buffers the handler has been given.
Loaded ==
  IF pc = "send" THEN 0 ELSE IF pc = "line" THEN 1 ELSE IF pc = "lines" THEN scanline
  ELSE Frame[fb].height + 2
Later == FlattenSeq(SubSeq(Puts[fb], Loaded + 1, Len(Puts[fb])))
All == FlattenSeq(Puts[fb])
Sending == resp.first_chunk_sent \/ \E i \in 1..Len(parts) : parts[i] = Blank

\* bs are the buffers that have become chunks, and t is how the response ends
\* so far.  On a connection that works what is sent and what is still to be
\* sent is the response, and the encoder owes the buffers bs lacks; on a dead
\* one the client has the beginning of it.
Progress(bs, t) ==
  /\ Open(t) \/ Ends(t)
  /\ Begins(wire, RespOf(bs, t))
  /\ Ends(t) => Append(bs, <<>>) = All
  /\ ~ dead =>
       /\ \/ Unsent /\ bs = <<>> /\ Open(t)
          \/ Sending /\ wire \o FlattenSeq(parts) = RespOf(bs, t)
       /\ Open(t) => bs \o (calls \o Later) = All
       /\ Ends(t) => calls \o Later = <<>>
       /\ pc = "return" => Ends(t)
ChunkInv == Raw /\ res = "OK" => \E bs \in Seq(Full), t \in Seq(Tok) : Progress(bs, t)

LEMMA RawFacts ==
  ASSUME Promised, HandlerTyped, Phases, Raw
  PROVE  /\ fb \in Buffers /\ Frame[fb].height \in Nat /\ LastEmpty(All) /\ All \in Seq(Data)
         /\ Puts[fb] \in Seq(Seq(Data)) /\ Len(Puts[fb]) = Frame[fb].height + 2
         /\ Loaded \in 0..Frame[fb].height + 2 /\ Later \in Seq(Data)
<1>1. fb \in Buffers /\ Frame[fb].format # "JPEG"
  BY DEF HandlerTyped, Raw, Format
<1> DEFINE p == Puts[fb]
           n == Frame[fb].height
<1>2. n \in Nat /\ LastEmpty(All) /\ All \in Seq(Data) /\ p \in Seq(Seq(Data)) /\ Len(p) = n + 2
  BY <1>1, FrameFacts DEF All
<1>3. Loaded \in 0..n + 2
  BY <1>2 DEF Loaded, Phases
<1> DEFINE r == SubSeq(p, Loaded + 1, Len(p))
<1>4. Later = FlattenSeq(r)
  BY DEF Later
<1> HIDE DEF p, n
<1>5. r \in Seq(Seq(Data))
  <2> DEFINE k == Loaded + 1
             S == Seq(Data)
  <2>1. k \in 1..Len(p) + 1 /\ Len(p) \in Nat /\ p \in Seq(S)
    BY <1>2, <1>3
  <2> HIDE DEF k, S
  <2>2. \A i \in 1..Len(p) : p[i] \in S
    BY <2>1, ElementOfSeq
  <2>3. SubSeq(p, k, Len(p)) \in Seq(S)
    BY <2>1, <2>2
  <2> QED BY <2>3 DEF k, S
<1> HIDE DEF r
<1>6. FlattenSeq(r) \in Seq(Data)
  BY <1>5, FlattenIn
<1> QED BY <1>1, <1>2, <1>3, <1>4, <1>6 DEF p, n

\* A batch of buffers moves from what comes later to the calls.
LEMMA BatchHanded ==
  ASSUME Promised, HandlerTyped, Phases, Raw, NEW k \in Nat, k < Frame[fb].height + 2, Loaded = k,
         calls = <<>>, calls' = Puts[fb][k + 1], fb' = fb, Loaded' = k + 1
  PROVE  (calls \o Later)' = calls \o Later
<1> DEFINE p == Puts[fb]
           later(j) == FlattenSeq(SubSeq(p, j + 1, Len(p)))
<1>1. p \in Seq(Seq(Data)) /\ Len(p) = Frame[fb].height + 2 /\ Frame[fb].height \in Nat /\ Later \in Seq(Data)
  BY RawFacts
<1>2. Later = later(k) /\ Later' = later(k + 1) /\ calls' = p[k + 1]
  BY DEF Later
<1> HIDE DEF p
<1>3. k < Len(p) /\ k + 1 + 1 = k + 2
  BY <1>1
<1>4. later(k) = p[k + 1] \o FlattenSeq(SubSeq(p, k + 2, Len(p)))
  BY <1>1, <1>3, NextCalls
<1>5. later(k + 1) = FlattenSeq(SubSeq(p, k + 2, Len(p)))
  BY <1>3
<1>6. calls \o Later = Later
  BY <1>1, ConcatEmptySeq
<1> HIDE DEF later
<1> QED BY ONLY <1>2, <1>4, <1>5, <1>6

\* A step that sends nothing and moves no buffer.
LEMMA QuietStep ==
  ASSUME NEW bs, NEW t, Progress(bs, t), (calls \o Later)' = calls \o Later, pc' # "return" \/ pc' = pc,
         wire' = wire, parts' = parts, resp' = resp, dead' = dead, fb' = fb
  PROVE  Progress(bs, t)'
<1> DEFINE o == calls \o Later
<1>1. o' = o /\ All' = All
  BY DEF All
<1>2. Unsent' = Unsent /\ Sending' = Sending
  BY DEF Unsent, Sending
<1>3. Progress(bs, t) <=>
        /\ Open(t) \/ Ends(t)
        /\ Begins(wire, RespOf(bs, t))
        /\ Ends(t) => Append(bs, <<>>) = All
        /\ ~ dead =>
             /\ \/ Unsent /\ bs = <<>> /\ Open(t)
                \/ Sending /\ wire \o FlattenSeq(parts) = RespOf(bs, t)
             /\ Open(t) => bs \o o = All
             /\ Ends(t) => o = <<>>
             /\ pc = "return" => Ends(t)
  BY DEF Progress
<1>4. Progress(bs, t)' <=>
        /\ Open(t) \/ Ends(t)
        /\ Begins(wire', RespOf(bs, t))
        /\ Ends(t) => Append(bs, <<>>) = All'
        /\ ~ dead' =>
             /\ \/ Unsent' /\ bs = <<>> /\ Open(t)
                \/ Sending' /\ wire' \o FlattenSeq(parts') = RespOf(bs, t)
             /\ Open(t) => bs \o o' = All'
             /\ Ends(t) => o' = <<>>
             /\ pc' = "return" => Ends(t)
  BY DEF Progress
<1> HIDE DEF o
<1> QED BY <1>1, <1>2, <1>3, <1>4

\* A step on a dead connection: whatever is to be sent, the client has what it had.
LEMMA DeadStep ==
  ASSUME NEW bs, NEW t, Progress(bs, t), wire' = wire, dead', fb' = fb
  PROVE  Progress(bs, t)'
BY DEF Progress, All

\* A chunk is to be sent where nothing is left to send.
LEMMA SendsChunk ==
  ASSUME HandlerTyped, parts = <<>>, resp.hdrs_count = 1, NEW bs \in Seq(Full), NEW t \in Seq(Tok), NEW c \in Data,
         \/ Unsent /\ bs = <<>> /\ Open(t)
         \/ Sending /\ wire \o FlattenSeq(parts) = RespOf(bs, t)
  PROVE  /\ wire \o FlattenSeq(RespSendChunk(c)) = RespOf(bs, t) \o Chunk(c)
         /\ resp.first_chunk_sent \/ \E i \in 1..Len(RespSendChunk(c)) : RespSendChunk(c)[i] = Blank
<1> DEFINE k == Chunk(c)
           h == Preamble("chunked", 0)
           f == FlattenSeq(RespSendChunk(c))
           b == resp.first_chunk_sent \/ \E i \in 1..Len(RespSendChunk(c)) : RespSendChunk(c)[i] = Blank
<1>1. /\ resp.first_chunk_sent => f = k
      /\ ~ resp.first_chunk_sent => f = h \o k
      /\ b
  BY RespSendChunkIs
<1>2. k \in Seq(Tok) /\ h \in Seq(Tok) /\ wire \in Seq(Tok)
  BY ChunkIs, PreambleIs DEF Kinds, HandlerTyped
<1> HIDE DEF k, h, f, b
<1>3. CASE Unsent /\ bs = <<>> /\ Open(t)
  <2>1. RespOf(bs, t) = h
    <3>1. RespOf(bs, t) = h \o (<<>> \o <<>>)
      BY <1>3, ChunksOfEmpty DEF RespOf, Open, h
    <3>2. <<>> \o <<>> = <<>> /\ h \o <<>> = h
      BY <1>2, EmptySeq, ConcatEmptySeq
    <3> QED BY ONLY <3>1, <3>2
  <2>2. wire = <<>> /\ f = h \o k
    BY <1>1, <1>3 DEF Unsent
  <2>3. <<>> \o (h \o k) = h \o k
    <3>1. Join(h, k, Tok)
      BY <1>2, Joined, Zenon
    <3>2. h \o k \in Seq(Tok)
      BY <3>1 DEF Join
    <3> QED BY <3>2, ConcatEmptySeq
  <2> QED BY ONLY <1>1, <2>1, <2>2, <2>3 DEF k, f, b
<1>4. CASE Sending /\ wire \o FlattenSeq(parts) = RespOf(bs, t)
  <2>1. resp.first_chunk_sent
    BY <1>4 DEF Sending
  <2>2. wire = RespOf(bs, t)
    <3>1. FlattenSeq(parts) = <<>> /\ wire \o <<>> = wire
      BY <1>2, FlattenEmpty, ConcatEmptySeq
    <3> QED BY ONLY <1>4, <3>1
  <2> QED BY ONLY <1>1, <2>1, <2>2 DEF k, f, b
<1> QED BY <1>3, <1>4

\* The first of the calls, the calls after it and what comes later are joined
\* as they are owed.
LEMMA FirstOwed ==
  ASSUME NEW cs \in Seq(Data), cs # <<>>, NEW later \in Seq(Data)
  PROVE  /\ cs[1] \in Data /\ Tail(cs) \in Seq(Data) /\ Tail(cs) \o later \in Seq(Data)
         /\ cs \o later = <<cs[1]>> \o (Tail(cs) \o later) /\ cs \o later # <<>>
<1> DEFINE c == cs[1]
           T == Tail(cs)
           y == <<c>>
<1>1. c \in Data /\ T \in Seq(Data) /\ cs = <<c>> \o T
  OBVIOUS
<1>2. y \in Seq(Data)
  BY <1>1, Single
<1>3. cs = y \o T
  BY <1>1
<1> HIDE DEF c, T, y
<1>4. Grouped(y, T, later) /\ Join(T, later, Data) /\ Join(cs, later, Data)
  BY <1>1, <1>2, Joined, Groups, Zenon
<1>5. cs \o later = y \o (T \o later)
  BY ONLY <1>3, <1>4 DEF Grouped
<1>6. T \o later \in Seq(Data)
  BY <1>4 DEF Join
<1>7. cs \o later # <<>>
  <2>1. Len(cs \o later) = Len(cs) + Len(later) /\ Len(later) \in Nat /\ Len(cs) \in Nat
    BY <1>4 DEF Join
  <2>2. Len(cs) # 0
    BY EmptySeq
  <2>3. Len(cs \o later) # 0
    BY <2>1, <2>2
  <2>4. Len(<<>>) = 0
    OBVIOUS
  <2> QED BY ONLY <2>3, <2>4
<1> QED BY ONLY <1>1, <1>5, <1>6, <1>7 DEF c, T, y

LEMMA EncodeStep ==
  ASSUME Promised, HandlerTyped, Phases, Raw, res = "OK", EncodeStream,
         NEW bs \in Seq(Full), NEW t \in Seq(Tok), Progress(bs, t)
  PROVE  \E cs \in Seq(Full), u \in Seq(Tok) : Progress(cs, u)'
<1>0. /\ calls \in Seq(Data) /\ calls # <<>> /\ parts = <<>> /\ calls' = Tail(calls)
      /\ parts' = RespSendChunk(calls[1]) /\ wire \in Seq(Tok)
      /\ pc' = pc /\ fb' = fb /\ scanline' = scanline /\ resp' = resp /\ wire' = wire /\ dead' = dead
  BY DEF EncodeStream, HandlerTyped
<1>1. CASE dead
  <2>1. Progress(bs, t)'
    BY <1>0, <1>1, DeadStep
  <2> QED BY <2>1
<1>2. CASE ~ dead
  <2> DEFINE c == calls[1]
             o == Tail(calls) \o Later
  <2>1. Later \in Seq(Data) /\ LastEmpty(All) /\ resp.hdrs_count = 1
    BY RawFacts DEF Phases, Raw
  <2>2. c \in Data /\ o \in Seq(Data) /\ calls \o Later = <<c>> \o o /\ calls \o Later # <<>>
    BY <1>0, <2>1, FirstOwed
  <2>3. Later' = Later /\ All' = All /\ (calls \o Later)' = o
    BY <1>0 DEF Later, All, Loaded
  <2>4. /\ Open(t) \/ Ends(t)
        /\ \/ Unsent /\ bs = <<>> /\ Open(t)
           \/ Sending /\ wire \o FlattenSeq(parts) = RespOf(bs, t)
        /\ Open(t) => bs \o (calls \o Later) = All
        /\ Ends(t) => calls \o Later = <<>>
        /\ pc = "return" => Ends(t)
    BY <1>2 DEF Progress
  <2>5. Open(t) /\ ~ Ends(t) /\ pc # "return" /\ bs \o (<<c>> \o o) = All /\ t = <<>>
    BY <2>2, <2>4 DEF Open
  <2> DEFINE f == FlattenSeq(parts')
  <2>6. wire \o f = RespOf(bs, t) \o Chunk(c) /\ Sending'
    <3> DEFINE g == FlattenSeq(RespSendChunk(c))
               b == resp.first_chunk_sent \/ \E i \in 1..Len(RespSendChunk(c)) : RespSendChunk(c)[i] = Blank
    <3>1. wire \o g = RespOf(bs, t) \o Chunk(c) /\ b
      BY <1>0, <2>1, <2>2, <2>4, SendsChunk
    <3>2. f = g /\ (b <=> Sending')
      BY <1>0 DEF Sending
    <3> QED BY ONLY <3>1, <3>2
  <2>7. f \in Seq(Tok)
    <3>1. parts' \in Seq(Seq(Tok))
      BY <1>0, <2>2, RespSendChunkIs DEF Parts
    <3> QED BY <3>1, FlattenIn
  <2> HIDE DEF c, o, f
  <2>8. Begins(wire, wire \o f)
    BY <1>0, <2>7, BeginsOf
  <2>9. Taken(All, bs, c, o)
    BY <2>1, <2>2, <2>5, TakeOne, Zenon
  <2>10. CASE c # <<>>
    <3>0. PICK cs \in Seq(Full) : cs = Append(bs, c)
      BY <2>9, <2>10 DEF Taken
    <3>1. RespOf(bs, <<>>) \o Chunk(c) = RespOf(cs, <<>>)
      <4>1. c \in Full
        BY <2>2, <2>10 DEF Full, Data
      <4> QED BY <3>0, <4>1, RespOfAppend
    <3>2. cs \o o = All
      BY ONLY <2>9, <2>10, <3>0 DEF Taken
    <3>3. wire \o f = RespOf(cs, t)
      BY ONLY <2>5, <2>6, <3>1
    <3>4. Progress(cs, t)'
      <4>1. Begins(wire, RespOf(cs, t))
        BY ONLY <2>8, <3>3
      <4>2. cs \o (calls \o Later)' = All
        BY ONLY <2>3, <3>2
      <4>3. Open(t) /\ ~ Ends(t) /\ pc' # "return" /\ wire' = wire /\ All' = All /\ Sending'
        BY <1>0, <2>3, <2>5, <2>6
      <4> QED BY ONLY <3>3, <4>1, <4>2, <4>3 DEF Progress, f
    <3> QED BY <3>4
  <2>11. CASE c = <<>>
    <3> DEFINE u == t \o Chunk(<<>>)
    <3>1. RespOf(bs, t) \o Chunk(<<>>) = RespOf(bs, u) /\ Ends(u)
      BY <2>5, RespOfEnd
    <3> HIDE DEF u
    <3>2. u \in Seq(Tok) /\ ~ Open(u)
      BY <3>1, EndsNotOpen
    <3>3. wire \o f = RespOf(bs, u)
      BY ONLY <2>6, <2>11, <3>1
    <3>4. Progress(bs, u)'
      <4>1. Begins(wire, RespOf(bs, u))
        BY ONLY <2>8, <3>3
      <4>2. (calls \o Later)' = <<>> /\ Append(bs, <<>>) = All
        BY ONLY <2>3, <2>9, <2>11 DEF Taken
      <4> QED BY <1>0, <2>3, <2>6, <3>1, <3>2, <3>3, <4>1, <4>2 DEF Progress, f
    <3> QED BY <3>2, <3>4
  <2> QED BY <2>10, <2>11
<1> QED BY <1>1, <1>2

LEMMA TerminateStep ==
  ASSUME Promised, HandlerTyped, Phases, Raw, res = "OK", Terminate,
         NEW bs \in Seq(Full), NEW t \in Seq(Tok), Progress(bs, t)
  PROVE  \E u \in Seq(Tok) : Progress(bs, u)'
<1>0. /\ calls = <<>> /\ parts = <<>> /\ calls' = <<>> /\ parts' = RespSendChunk(<<>>) /\ wire \in Seq(Tok)
      /\ pc = "terminate" /\ pc' = "return" /\ fb' = fb /\ resp' = resp /\ wire' = wire /\ dead' = dead
  BY DEF Terminate, Idle, HandlerTyped
<1>1. CASE dead
  <2>1. Progress(bs, t)'
    BY <1>0, <1>1, DeadStep
  <2> QED BY <2>1
<1>2. CASE ~ dead
  <2>1. LastEmpty(All) /\ resp.hdrs_count = 1
    BY RawFacts DEF Phases, Raw
  <2>2. Later = <<>> /\ Later' = Later /\ All' = All
    <3> DEFINE p == Puts[fb]
               n == Frame[fb].height + 2
    <3>1. n \in Nat /\ p \in Seq(Seq(Data)) /\ Len(p) = n
      BY RawFacts
    <3>2. Later = FlattenSeq(SubSeq(p, n + 1, Len(p))) /\ Later' = Later
      BY <1>0 DEF Later, Loaded
    <3> HIDE DEF p, n
    <3>3. SubSeq(p, n + 1, Len(p)) = <<>>
      BY <3>1, SubSeqEmpty
    <3>4. Later = <<>>
      BY ONLY <3>2, <3>3, FlattenEmpty
    <3> QED BY <1>0, <3>2, <3>4 DEF All
  <2>3. calls \o Later = <<>> /\ (calls \o Later)' = <<>>
    BY <1>0, <2>2
  <2>4. /\ Open(t) \/ Ends(t)
        /\ \/ Unsent /\ bs = <<>> /\ Open(t)
           \/ Sending /\ wire \o FlattenSeq(parts) = RespOf(bs, t)
        /\ Open(t) => bs \o (calls \o Later) = All
        /\ Ends(t) => Append(bs, <<>>) = All
    BY <1>2 DEF Progress
  <2>5. Ends(t) /\ Append(bs, <<>>) = All
    <3>1. CASE Open(t)
      <4>1. bs \o <<>> = All
        BY ONLY <2>3, <2>4, <3>1
      <4> QED BY <2>1, <4>1, NotYetAll
    <3> QED BY <2>4, <3>1
  <2> DEFINE f == FlattenSeq(parts')
             u == t \o Chunk(<<>>)
  <2>6. wire \o f = RespOf(bs, t) \o Chunk(<<>>) /\ Sending' /\ f \in Seq(Tok)
    <3> DEFINE g == FlattenSeq(RespSendChunk(<<>>))
               b == resp.first_chunk_sent \/ \E i \in 1..Len(RespSendChunk(<<>>)) : RespSendChunk(<<>>)[i] = Blank
    <3>1. wire \o g = RespOf(bs, t) \o Chunk(<<>>) /\ b
      BY <1>0, <2>1, <2>4, EmptyTyped, SendsChunk
    <3>2. f = g /\ (b <=> Sending')
      BY <1>0 DEF Sending
    <3>3. g \in Seq(Tok)
      <4>1. RespSendChunk(<<>>) \in Seq(Seq(Tok))
        BY EmptyTyped, RespSendChunkIs DEF Parts
      <4> QED BY <4>1, FlattenIn
    <3> QED BY ONLY <3>1, <3>2, <3>3
  <2>7. RespOf(bs, t) \o Chunk(<<>>) = RespOf(bs, u) /\ Ends(u)
    BY <2>5, RespOfEnd
  <2> HIDE DEF f, u
  <2>8. u \in Seq(Tok) /\ ~ Open(u)
    BY <2>7, EndsNotOpen
  <2>9. wire \o f = RespOf(bs, u)
    BY ONLY <2>6, <2>7
  <2>10. Begins(wire, RespOf(bs, u))
    <3>1. Begins(wire, wire \o f)
      BY <1>0, <2>6, BeginsOf
    <3> QED BY ONLY <2>9, <3>1
  <2>11. Progress(bs, u)'
    BY <1>0, <2>2, <2>3, <2>5, <2>6, <2>7, <2>8, <2>9, <2>10 DEF Progress, f
  <2> QED BY <2>8, <2>11
<1> QED BY <1>1, <1>2

LEMMA SentStep ==
  ASSUME Promised, HandlerTyped, Phases, Raw, Send, NEW bs \in Seq(Full), NEW t \in Seq(Tok), Progress(bs, t)
  PROVE  Progress(bs, t)'
<1> DEFINE f == FlattenSeq(parts')
           r == RespOf(bs, t)
<1>1. /\ wire' \in Seq(Tok) /\ f \in Seq(Tok) /\ wire' \o f = wire \o FlattenSeq(parts)
      /\ (\E i \in 1..Len(parts) : parts[i] = Blank) =>
           parts[1] = Blank \/ \E i \in 1..Len(parts') : parts'[i] = Blank
  <2>1. /\ wire' \in Seq(Tok) /\ parts' \in Parts /\ wire' \o FlattenSeq(parts') = wire \o FlattenSeq(parts)
        /\ (\E i \in 1..Len(parts) : parts[i] = Blank) =>
             parts[1] = Blank \/ \E i \in 1..Len(parts') : parts'[i] = Blank
    BY SendStep
  <2>2. f \in Seq(Tok)
    BY <2>1, FlattenIn DEF Parts
  <2> QED BY ONLY <2>1, <2>2
<1>2. /\ pc' = pc /\ fb' = fb /\ scanline' = scanline /\ calls' = calls /\ ~ dead /\ dead' = dead /\ parts # <<>>
      /\ resp'.first_chunk_sent <=> resp.first_chunk_sent \/ parts[1] = Blank
  <2>1. resp' = [resp EXCEPT !.first_chunk_sent =
                   @ \/ (fb # NULL /\ Format # "JPEG" /\ parts[1] = <<Token("blank", 0)>>)]
    BY DEF Send
  <2>2. resp'.first_chunk_sent = (resp.first_chunk_sent \/ parts[1] = Blank)
    BY <2>1 DEF Raw, Blank, HandlerTyped
  <2> QED BY <2>2 DEF Send
<1>3. /\ Open(t) \/ Ends(t)
      /\ Ends(t) => Append(bs, <<>>) = All
      /\ Sending /\ wire \o FlattenSeq(parts) = r
      /\ Open(t) => bs \o (calls \o Later) = All
      /\ Ends(t) => calls \o Later = <<>>
      /\ pc = "return" => Ends(t)
  BY <1>2 DEF Progress, Unsent
<1>4. Sending'
  BY <1>1, <1>2, <1>3 DEF Sending
<1>5. All' = All /\ Later' = Later
  BY <1>2 DEF All, Later, Loaded
<1> HIDE DEF f, r
<1>6. wire' \o f = r
  BY ONLY <1>1, <1>3
<1>7. Begins(wire', r)
  <2>1. Begins(wire', wire' \o f)
    BY <1>1, BeginsOf
  <2> QED BY ONLY <1>6, <2>1
<1> QED BY <1>2, <1>3, <1>4, <1>5, <1>6, <1>7 DEF Progress, f, r

LEMMA FirstProgress ==
  ASSUME Promised, HandlerTyped, Phases, NEW f \in Buffers, GetFrame(f), Raw', res' = "OK"
  PROVE  \E bs \in Seq(Full), t \in Seq(Tok) : Progress(bs, t)'
<1>1. /\ pc' = "send" /\ fb' = f /\ calls' = <<>> /\ wire' = <<>> /\ Unsent' /\ Frame[f].format # "JPEG"
  <2>1. Unsent /\ calls = <<>> /\ pc = "get"
    BY DEF GetFrame, Phases
  <2>2. pc' = "send" /\ fb' = f /\ resp'.first_chunk_sent = resp.first_chunk_sent
    BY DEF GetFrame, HandlerTyped
  <2>3. calls' = calls /\ parts' = parts /\ wire' = wire
    BY DEF GetFrame
  <2> QED BY <2>1, <2>2, <2>3 DEF Unsent, Raw, Format
<1> DEFINE p == Puts[f]
<1>2. p \in Seq(Seq(Data)) /\ FlattenSeq(p) \in Seq(Data)
  BY <1>1, FrameFacts
<1>3. All' = FlattenSeq(p) /\ Later' = FlattenSeq(SubSeq(p, 0 + 1, Len(p)))
  BY <1>1 DEF All, Later, Loaded
<1> HIDE DEF p
<1>4. SubSeq(p, 0 + 1, Len(p)) = p
  <2> DEFINE S == Seq(Data)
  <2>1. p \in Seq(S)
    BY <1>2
  <2> HIDE DEF S
  <2> QED BY <2>1, SubSeqFull
<1>5. PICK bs \in Seq(Full), t \in Seq(Tok) : bs = <<>> /\ t = <<>>
  BY EmptySeq
<1>6. bs \o (calls \o Later)' = All'
  <2> DEFINE x == FlattenSeq(p)
  <2>1. All' = x /\ Later' = x /\ calls' = <<>>
    BY ONLY <1>1, <1>3, <1>4
  <2>2. <<>> \o x = x
    BY <1>2, ConcatEmptySeq
  <2> HIDE DEF x
  <2>3. (calls \o Later)' = <<>> \o x
    BY ONLY <2>1
  <2> QED BY ONLY <1>5, <2>1, <2>2, <2>3
<1>7. Open(t) /\ ~ Ends(t)
  BY <1>5, EndsNotOpen DEF Open
<1>8. Begins(<<>>, RespOf(bs, t))
  <2> DEFINE r == RespOf(bs, t)
  <2>1. r \in Seq(Tok)
    BY RespOfIn
  <2> HIDE DEF r
  <2>2. Len(r) \in Nat
    BY <2>1, LenProperties
  <2> QED BY <2>2 DEF Begins, r
<1>9. Progress(bs, t)'
  BY ONLY <1>1, <1>5, <1>6, <1>7, <1>8 DEF Progress
<1> QED BY <1>9

LEMMA ChunkStep ==
  ASSUME NoHole, Promised, HandlerTyped, Phases, ChunkInv, [Next]_vars
  PROVE  ChunkInv'
<1> SUFFICES ASSUME Raw', res' = "OK" PROVE \E bs \in Seq(Full), t \in Seq(Tok) : Progress(bs, t)'
  BY Zenon DEF ChunkInv
<1>1. ASSUME NEW f \in Buffers, GetFrame(f) PROVE \E bs \in Seq(Full), t \in Seq(Tok) : Progress(bs, t)'
  BY <1>1, FirstProgress
<1>2. CASE FrameMissing \/ FbReturn
  <2>1. fb' = NULL
    BY <1>2 DEF FrameMissing, FbReturn, Phases
  <2> QED BY <2>1 DEF Raw
<1>3. ASSUME \/ Send \/ SendFails \/ EncodeStream \/ SendFrame \/ InitEncoder \/ AllocLine \/ ProcessLine
             \/ ProcessEnd \/ Deinit \/ Terminate \/ UNCHANGED vars
      PROVE  \E bs \in Seq(Full), t \in Seq(Tok) : Progress(bs, t)'
  <2>1. fb' = fb /\ res = "OK"
    BY <1>3 DEF Send, SendFails, EncodeStream, SendFrame, InitEncoder, AllocLine, ProcessLine, ProcessEnd,
                Deinit, Terminate, vars, GiveUp, HandlerTyped
  <2>2. Raw
    BY <2>1 DEF Raw, Format
  <2>3. PICK bs \in Seq(Full), t \in Seq(Tok) : Progress(bs, t)
    BY <2>1, <2>2 DEF ChunkInv
  <2> SUFFICES ASSUME ~ \E cs \in Seq(Full), u \in Seq(Tok) : Progress(cs, u)' PROVE FALSE
    OBVIOUS
  <2>4. ~ Progress(bs, t)'
    OBVIOUS
  <2>5. CASE Send
    BY <2>2, <2>3, <2>4, <2>5, SentStep
  <2>6. CASE SendFails
    <3>1. wire' = wire /\ dead'
      BY <2>2, <2>6 DEF SendFails, Raw, NoHole
    <3> QED BY <2>1, <2>3, <2>4, <3>1, DeadStep
  <2>7. CASE EncodeStream
    BY <2>1, <2>2, <2>3, <2>7, EncodeStep
  <2>8. CASE Terminate
    BY <2>1, <2>2, <2>3, <2>8, TerminateStep
  <2>9. CASE SendFrame
    BY <2>2, <2>9 DEF SendFrame, Raw
  <2>10. CASE UNCHANGED vars \/ AllocLine \/ Deinit
    <3>1. wire' = wire /\ parts' = parts /\ resp' = resp /\ dead' = dead /\ (pc' # "return" \/ pc' = pc)
      BY <2>10 DEF vars, AllocLine, Deinit, GiveUp
    <3>2. calls' = calls /\ Loaded' = Loaded
      <4>1. CASE AllocLine
        <5>1. pc = "line" /\ pc' = "lines" /\ scanline' = 1 /\ calls' = calls
          BY <2>1, <4>1 DEF AllocLine, GiveUp
        <5> QED BY <5>1 DEF Loaded
      <4>2. CASE Deinit
        BY <4>2 DEF Deinit, Loaded
      <4>3. CASE UNCHANGED vars
        BY <4>3 DEF vars, Loaded
      <4> QED BY <2>10, <4>1, <4>2, <4>3
    <3>3. (calls \o Later)' = calls \o Later
      BY <2>1, <3>2 DEF Later
    <3> QED BY <2>1, <2>3, <2>4, <3>1, <3>3, QuietStep
  <2>11. CASE InitEncoder \/ ProcessLine \/ ProcessEnd
    <3> DEFINE h == Frame[fb].height
    <3>1. wire' = wire /\ parts' = parts /\ resp' = resp /\ dead' = dead /\ pc' # "return"
      BY <2>11 DEF InitEncoder, ProcessLine, ProcessEnd, GiveUp
    <3>2. PICK k \in Nat : /\ k < h + 2 /\ Loaded = k /\ Loaded' = k + 1
                           /\ calls = <<>> /\ calls' = Puts[fb][k + 1]
      <4>1. h \in Nat /\ h' = h
        BY <2>1, <2>2, RawFacts
      <4>2. CASE InitEncoder
        <5>1. pc = "send" /\ pc' = "line" /\ calls' = Puts[fb][1] /\ calls = <<>>
          BY <4>2 DEF InitEncoder, GiveUp, Phases
        <5>2. Loaded = 0 /\ Loaded' = 1
          BY <5>1 DEF Loaded
        <5> QED BY <4>1, <5>1, <5>2
      <4>3. CASE ProcessLine
        <5>1. /\ pc = "lines" /\ pc' = "lines" /\ scanline' = scanline + 1 /\ scanline <= h /\ calls = <<>>
              /\ calls' = Puts[fb][scanline + 1] /\ scanline \in Nat
          BY <4>3 DEF ProcessLine, Idle, HandlerTyped
        <5>2. Loaded = scanline /\ Loaded' = scanline + 1
          BY <5>1 DEF Loaded
        <5> QED BY <4>1, <5>1, <5>2
      <4>4. CASE ProcessEnd
        <5>1. /\ pc = "lines" /\ pc' = "deinit" /\ scanline > h /\ calls = <<>> /\ calls' = Puts[fb][scanline + 1]
              /\ scanline \in 1..h + 1
          BY <4>4 DEF ProcessEnd, Idle, Phases
        <5>2. Loaded = scanline /\ Loaded' = h + 2 /\ scanline = h + 1
          BY <4>1, <5>1 DEF Loaded
        <5> QED BY <4>1, <5>1, <5>2
      <4> QED BY <2>11, <4>2, <4>3, <4>4
    <3>3. (calls \o Later)' = calls \o Later
      BY <2>1, <2>2, <3>2, BatchHanded
    <3> QED BY <2>1, <2>3, <2>4, <3>1, <3>3, QuietStep
  <2> QED BY <1>3, <2>5, <2>6, <2>7, <2>8, <2>9, <2>10, <2>11
<1> QED BY <1>1, <1>2, <1>3 DEF Next

-----------------------------------------------------------------------------
(* What the client makes of what the handler has sent.                     *)

LEMMA LengthRead ==
  ASSUME NEW w \in Seq(Tok), NEW rest \in Seq(Tok), NEW b \in Data,
         w \o rest = Preamble("length", Len(b)) \o Bytes(b)
  PROVE  /\ Response(w).complete => Response(w).body = b
         /\ rest = <<>> => Response(w).complete
<1> DEFINE h == Preamble("length", Len(b))
           y == Bytes(b)
           all == h \o y
           n == Len(b)
<1>1. /\ h \in Seq(Tok) /\ Len(h) = 6 /\ y \in Seq(Tok) /\ Len(y) = n /\ n \in Nat
      /\ \A i \in 1..n : y[i] = Token("byte", b[i])
  <2>1. n \in Nat
    BY LenProperties DEF Data
  <2> QED BY <2>1, PreambleIs, BytesIs DEF Kinds
<1>2. Begins(w, all)
  <2>1. Begins(w, w \o rest)
    BY BeginsOf
  <2>2. w \o rest = all
    OBVIOUS
  <2> QED BY ONLY <2>1, <2>2
<1>3. Response(w) = IF Len(w) < 6 THEN Nothing
                    ELSE [complete |-> Len(w) >= 6 + n, body |-> Values(SubSeq(w, 7, Len(w)))]
  <2>1. Begins(w, h \o y) /\ y \in Seq(Tok) /\ n \in Nat
    BY <1>1, <1>2
  <2> HIDE DEF y, n
  <2> QED BY <2>1, HeadRead DEF n
<1> DEFINE ended == Len(w) >= 6 + n
           s == SubSeq(w, 7, Len(w))
<1>4. /\ Len(w) < 6 => ~ Response(w).complete
      /\ ~ (Len(w) < 6) => (Response(w).complete <=> ended) /\ Response(w).body = Values(s)
  <2> DEFINE r == [complete |-> ended, body |-> Values(s)]
  <2>1. CASE Len(w) < 6
    <3>1. Response(w) = Nothing
      BY ONLY <1>3, <2>1
    <3> QED BY ONLY <2>1, <3>1 DEF Nothing
  <2>2. CASE ~ (Len(w) < 6)
    <3>1. Response(w) = r
      BY ONLY <1>3, <2>2
    <3> HIDE DEF ended, s
    <3>2. (r.complete <=> ended) /\ r.body = Values(s)
      BY Zenon
    <3> HIDE DEF r
    <3> QED BY ONLY <2>2, <3>1, <3>2
  <2> QED BY ONLY <2>1, <2>2
<1> HIDE DEF h, y
<1>5. all \in Seq(Tok) /\ Len(all) = 6 + n /\ \A i \in 1..n : all[6 + i] = y[i]
  <2>1. Join(h, y, Tok)
    BY <1>1, Joined, Zenon
  <2> QED BY <1>1, <2>1 DEF Join
<1>6. Len(w) \in Nat /\ Len(rest) \in Nat /\ Len(w) + Len(rest) = 6 + n
  <2>1. Join(w, rest, Tok)
    BY Joined, Zenon
  <2>2. w \o rest = all
    BY DEF h, y
  <2> QED BY ONLY <1>5, <2>1, <2>2 DEF Join
<1>7. ASSUME Response(w).complete PROVE Response(w).body = b
  <2>1. Len(w) = 6 + n
    <3>1. ~ (Len(w) < 6) /\ Len(w) >= 6 + n
      BY ONLY <1>7, <1>4 DEF ended
    <3> QED BY <1>1, <1>6, <3>1
  <2>2. Response(w).body = Values(s)
    <3>1. ~ (Len(w) < 6)
      BY <1>1, <2>1
    <3> QED BY ONLY <1>4, <3>1
  <2>3. s \in Seq(Tok) /\ Len(s) = n /\ \A i \in 1..n : s[i] = w[6 + i]
    <3>1. \A i \in 7..Len(w) : w[i] \in Tok
      BY ElementOfSeq
    <3>2. /\ s \in Seq(Tok) /\ Len(s) = IF 7 <= Len(w) THEN Len(w) - 7 + 1 ELSE 0
          /\ \A i \in 1..Len(w) - 7 + 1 : s[i] = w[7 + i - 1]
      BY <1>6, <3>1, SubSeqProperties
    <3> HIDE DEF s
    <3>3. Len(s) = n /\ Len(w) - 7 + 1 = n
      BY <1>1, <2>1, <3>2
    <3>4. ASSUME NEW i \in 1..n PROVE 7 + i - 1 = 6 + i
      BY <1>1
    <3> QED BY <3>2, <3>3, <3>4
  <2> HIDE DEF s, all, n
  <2>4. ASSUME NEW i \in 1..n PROVE s[i].v = b[i]
    <3>1. 6 + i \in 1..Len(w)
      BY <1>1, <2>1
    <3>2. w[6 + i] = all[6 + i]
      BY <1>2, <3>1 DEF Begins
    <3>3. s[i] = Token("byte", b[i])
      BY <1>1, <1>5, <2>3, <3>2
    <3> QED BY <3>3 DEF Token
  <2>5. Values(s) = [i \in 1..n |-> b[i]]
    <3>1. DOMAIN s = 1..n
      BY <2>3, LenProperties
    <3> QED BY <2>4, <3>1 DEF Values
  <2>6. [i \in 1..n |-> b[i]] = b
    <3>1. b \in Seq(Nat) /\ n = Len(b)
      BY DEF Data, n
    <3> QED BY <3>1
  <2> QED BY ONLY <2>2, <2>5, <2>6 DEF s
<1>8. ASSUME rest = <<>> PROVE Response(w).complete
  <2>1. Len(rest) = 0
    BY <1>8
  <2>2. Len(w) = 6 + n
    BY <1>1, <1>6, <2>1
  <2>3. ~ (Len(w) < 6) /\ ended
    BY ONLY <1>1, <2>2 DEF ended
  <2> QED BY ONLY <1>4, <2>3
<1> QED BY <1>7, <1>8

LEMMA ChunkedRead ==
  ASSUME NEW w \in Seq(Tok), NEW bs \in Seq(Full), NEW t \in Seq(Tok), Open(t) \/ Ends(t), Begins(w, RespOf(bs, t))
  PROVE  /\ Response(w).complete => Ends(t) /\ Response(w).body = FlattenSeq(bs)
         /\ Ends(t) /\ w = RespOf(bs, t) => Response(w).complete
<1> DEFINE h == Preamble("chunked", 0)
           x == ChunksOf(bs) \o t
           r == Chunks(w, 7)
           all == RespOf(bs, t)
<1>1. h \in Seq(Tok) /\ Len(h) = 6 /\ x \in Seq(Tok)
  BY PreambleIs, RespOfIn DEF Kinds
<1>2. all = h \o x
  BY DEF RespOf
<1>3. Response(w) = IF Len(w) < 6 THEN Nothing ELSE r
  <2>1. Begins(w, h \o x)
    BY <1>2
  <2> HIDE DEF x
  <2> QED BY <1>1, <2>1, HeadRead
<1>4. Reading(w, h, bs, t)
  BY <1>1, ReadsAll
<1> HIDE DEF h
<1>5. Len(w) >= 6 => /\ r.complete => Ends(t) /\ r.body = FlattenSeq(bs)
                     /\ Ends(t) /\ Len(w) = Len(all) => r.complete
  <2>1. Len(h) + 1 = 7
    BY <1>1
  <2>2. Len(w) \in Nat /\ Begins(w, all)
    BY LenProperties
  <2> HIDE DEF r, all
  <2>3. Len(h) <= Len(w) /\ Begins(w, all) =>
          /\ r.complete => Ends(t) /\ r.body = FlattenSeq(bs)
          /\ Ends(t) /\ Len(w) = Len(all) => r.complete
    BY ONLY <1>2, <1>4, <2>1 DEF Reading, r, x
  <2> QED BY <1>1, <2>2, <2>3
<1>6. w = all => Len(w) >= 6
  <2> HIDE DEF x
  <2>1. Join(h, x, Tok)
    BY <1>1, Joined, Zenon
  <2>2. Len(all) = 6 + Len(x) /\ Len(x) \in Nat
    BY ONLY <1>1, <1>2, <2>1 DEF Join
  <2> HIDE DEF all
  <2> QED BY <2>2
<1>7. Len(w) \in Nat
  BY LenProperties
<1> HIDE DEF r, all
<1> QED BY <1>3, <1>5, <1>6, <1>7 DEF Nothing, all

-----------------------------------------------------------------------------
(* The theorems.                                                           *)

PictureInv == HandlerTyped /\ Phases /\ LengthInv /\ ChunkInv

LEMMA InvBodyIntact ==
  ASSUME Promised, PictureInv
  PROVE  BodyIntact
<1> SUFFICES ASSUME res = "OK", fb # NULL, Response(wire).complete PROVE Response(wire).body = Content(fb)
  BY DEF BodyIntact
<1>1. wire \in Seq(Tok) /\ parts \in Seq(Seq(Tok)) /\ fb \in Buffers
  BY DEF PictureInv, HandlerTyped, Parts
<1>2. CASE Format = "JPEG"
  <2> DEFINE b == Frame[fb].data
  <2>1. Compressed /\ pc \in {"send", "return"} /\ b \in Data /\ Content(fb) = b
    <3>1. Compressed
      BY <1>2 DEF Compressed
    <3> QED BY <1>1, <1>2, <3>1, FrameFacts DEF PictureInv, Phases, Format, Content
  <2>2. CASE pc = "return"
    <3> DEFINE rest == FlattenSeq(parts)
    <3>1. rest \in Seq(Tok)
      BY <1>1, FlattenIn
    <3>2. wire \o rest = Preamble("length", Len(b)) \o Bytes(b)
      BY <2>1, <2>2 DEF PictureInv, LengthInv
    <3> HIDE DEF b, rest
    <3>3. Response(wire).body = b
      BY <1>1, <2>1, <3>1, <3>2, LengthRead
    <3> QED BY ONLY <2>1, <3>3
  <2>3. CASE pc = "send"
    <3>1. wire = <<>>
      BY <2>3 DEF PictureInv, Phases, Unsent
    <3>2. Begins(<<>>, Preamble("length", 0) \o <<>>)
      <4>1. Preamble("length", 0) \o <<>> = Preamble("length", 0) /\ Len(Preamble("length", 0)) = 6
        BY PreambleIs, ConcatEmptySeq DEF Kinds
      <4> QED BY <4>1 DEF Begins
    <3>3. Response(wire) = Nothing
      <4>1. <<>> \in Seq(Tok) /\ Len(<<>>) < 6
        BY EmptySeq
      <4> QED BY <3>1, <3>2, <4>1, HeadRead
    <3> QED BY <3>3 DEF Nothing
  <2> QED BY <2>1, <2>2, <2>3
<1>3. CASE Format # "JPEG"
  <2>1. Raw
    BY <1>3 DEF Raw
  <2>2. PICK bs \in Seq(Full), t \in Seq(Tok) : Progress(bs, t)
    BY <2>1 DEF PictureInv, ChunkInv
  <2>3. (Open(t) \/ Ends(t)) /\ Begins(wire, RespOf(bs, t)) /\ (Ends(t) => Append(bs, <<>>) = All)
    BY <2>2 DEF Progress
  <2>4. Ends(t) /\ Response(wire).body = FlattenSeq(bs)
    BY <1>1, <2>3, ChunkedRead
  <2>5. FlattenSeq(Append(bs, <<>>)) = FlattenSeq(bs)
    <3> DEFINE x == FlattenSeq(bs)
    <3>1. bs \in Seq(Seq(Nat)) /\ <<>> \in Seq(Nat)
      BY FullIsData, EmptySeq DEF Data
    <3>2. x \in Seq(Nat) /\ FlattenSeq(Append(bs, <<>>)) = x \o <<>>
      BY <3>1, FlattenAppend
    <3> HIDE DEF x
    <3>3. x \o <<>> = x
      BY <3>2, ConcatEmptySeq
    <3> QED BY ONLY <3>2, <3>3 DEF x
  <2>6. Content(fb) = FlattenSeq(All)
    BY <1>3 DEF Content, Format, All
  <2> QED BY ONLY <2>3, <2>4, <2>5, <2>6
<1> QED BY <1>2, <1>3

LEMMA InvDelivered ==
  ASSUME Promised, PictureInv
  PROVE  Delivered
<1> SUFFICES ASSUME pc = "return", Idle, res = "OK", ~ dead PROVE Response(wire).complete
  BY DEF Delivered
<1>1. wire \in Seq(Tok) /\ parts = <<>> /\ FlattenSeq(parts) = <<>> /\ fb \in Buffers /\ fb # NULL
  BY FlattenEmpty DEF PictureInv, HandlerTyped, Phases, Idle
<1>2. CASE Format = "JPEG"
  <2> DEFINE b == Frame[fb].data
             rest == FlattenSeq(parts)
  <2>1. b \in Data /\ <<>> \in Seq(Tok)
    BY <1>1, <1>2, FrameFacts, EmptySeq DEF Format
  <2>2. wire \o rest = Preamble("length", Len(b)) \o Bytes(b)
    BY <1>1, <1>2 DEF PictureInv, LengthInv, Compressed
  <2>3. rest = <<>> /\ rest \in Seq(Tok)
    BY <1>1, <2>1
  <2> HIDE DEF b, rest
  <2> QED BY <1>1, <2>1, <2>2, <2>3, LengthRead
<1>3. CASE Format # "JPEG"
  <2>1. Raw
    BY <1>1, <1>3 DEF Raw
  <2>2. PICK bs \in Seq(Full), t \in Seq(Tok) : Progress(bs, t)
    BY <2>1 DEF PictureInv, ChunkInv
  <2>3. (Open(t) \/ Ends(t)) /\ Begins(wire, RespOf(bs, t)) /\ Ends(t)
    BY <2>2 DEF Progress
  <2>4. wire \o FlattenSeq(parts) = RespOf(bs, t)
    BY <2>2, <2>3, EndsNotOpen DEF Progress
  <2>5. wire = RespOf(bs, t)
    <3>1. wire \o <<>> = wire
      BY <1>1, ConcatEmptySeq
    <3> QED BY ONLY <1>1, <2>4, <3>1
  <2> QED BY <1>1, <2>3, <2>5, ChunkedRead
<1> QED BY <1>2, <1>3

LEMMA PictureAlways == ASSUME NoHole, Promised PROVE Spec => []PictureInv
<1>1. Init => PictureInv
  <2> SUFFICES ASSUME Init PROVE PictureInv
    OBVIOUS
  <2>1. HandlerTyped /\ Phases
    BY InitTyped
  <2>2. fb = NULL
    BY DEF Init
  <2> QED BY <2>1, <2>2 DEF PictureInv, LengthInv, ChunkInv, Compressed, Raw
<1>2. PictureInv /\ [Next]_vars => PictureInv'
  <2> SUFFICES ASSUME PictureInv, [Next]_vars PROVE PictureInv'
    OBVIOUS
  <2>1. HandlerTyped /\ Phases /\ LengthInv /\ ChunkInv
    BY DEF PictureInv
  <2>2. HandlerTyped' /\ Phases'
    BY <2>1, TypedStep
  <2>3. LengthInv'
    BY <2>1, LengthStep
  <2>4. ChunkInv'
    BY <2>1, ChunkStep
  <2> QED BY <2>2, <2>3, <2>4 DEF PictureInv
<1> QED BY <1>1, <1>2, PTL DEF Spec

\* A response the client sees as complete has all that the camera or the
\* encoder gave and nothing else, in its order, however the encoder's buffers
\* cut it into chunks, the sends cut the chunks, and wherever a send or an
\* allocation failed (app_main.c:142-181, httpd_txrx.c:297-372).
THEOREM ResponseIntact == ASSUME NoHole, Promised PROVE Spec => []BodyIntact
<1>1. PictureInv => BodyIntact
  BY InvBodyIntact
<1> QED BY <1>1, PictureAlways, PTL

\* A handler that reports success on a connection that works has sent a
\* complete response (app_main.c:142-181, httpd_txrx.c:297-372).
THEOREM ResponseDelivered == ASSUME NoHole, Promised PROVE Spec => []Delivered
<1>1. PictureInv => Delivered
  BY InvDelivered
<1> QED BY <1>1, PictureAlways, PTL
=============================================================================
