------------------------- MODULE CameraSetup_proofs --------------------------
(***************************************************************************)
(* Proofs about esp_camera_init and esp_camera_deinit, for any             *)
(* configurations, sensors, failing allocations and transfers, and         *)
(* restarts, within the bounds below.                                      *)
(***************************************************************************)
EXTENDS CameraSetup, Numbers, TLAPS

-----------------------------------------------------------------------------
(* Runs of transfers.                                                      *)

\* The states a run of transfers goes through.
Trace(r, d, ops, f) ==
  /\ r[0] = [d EXCEPT !.ok = TRUE]
  /\ \A i \in 1..Len(ops) : r[i] = IF r[i - 1].ok THEN Send(r[i - 1], ops[i], i # f) ELSE r[i - 1]

LEMMA RunTrace ==
  ASSUME NEW d, NEW ops, Len(ops) \in Nat, NEW f
  PROVE  \E r : Trace(r, d, ops, f) /\ Run(d, ops, f) = r[Len(ops)]
<1> DEFINE n == Len(ops)
           start == [d EXCEPT !.ok = TRUE]
           Step(x, i) == IF x.ok THEN Send(x, ops[i], i # f) ELSE x
           P == {m \in Nat : \E g : g = [i \in 0..m |-> IF i = 0 THEN start ELSE Step(g[i - 1], i)]}
           after[i \in 0..n] == IF i = 0 THEN start ELSE Step(after[i - 1], i)
<1>1. Run(d, ops, f) = after[n]
  BY DEF Run
<1> HIDE DEF start, Step
<1>2. 0 \in P
  <2> DEFINE g == [i \in 0..0 |-> start]
  <2>1. g = [i \in 0..0 |-> IF i = 0 THEN start ELSE Step(g[i - 1], i)]
    OBVIOUS
  <2> QED BY <2>1
<1>3. ASSUME NEW m \in Nat, m \in P PROVE m + 1 \in P
  <2>1. PICK g : g = [i \in 0..m |-> IF i = 0 THEN start ELSE Step(g[i - 1], i)]
    BY <1>3
  <2> DEFINE h == [i \in 0..m + 1 |-> IF i = 0 THEN start ELSE Step(g[i - 1], i)]
  <2>2. ASSUME NEW i \in 0..m + 1, i # 0 PROVE h[i - 1] = g[i - 1]
    <3>1. i - 1 \in 0..m /\ i - 1 \in 0..m + 1
      BY <2>2
    <3>2. g[i - 1] = IF i - 1 = 0 THEN start ELSE Step(g[i - 1 - 1], i - 1)
      BY <2>1, <3>1
    <3> QED BY <3>1, <3>2
  <2>3. h = [i \in 0..m + 1 |-> IF i = 0 THEN start ELSE Step(h[i - 1], i)]
    <3> HIDE DEF h
    <3>1. h = [i \in 0..m + 1 |-> IF i = 0 THEN start ELSE Step(g[i - 1], i)]
      BY DEF h
    <3> QED BY <2>2, <3>1
  <2> HIDE DEF h
  <2>4. \E k : k = [i \in 0..m + 1 |-> IF i = 0 THEN start ELSE Step(k[i - 1], i)]
    BY <2>3, Zenon
  <2>5. m + 1 \in Nat
    OBVIOUS
  <2> QED BY <2>4, <2>5, Zenon
<1>4. n \in P
  <2> HIDE DEF P
  <2> QED BY <1>2, <1>3, AllNumbers
<1>5. after = [i \in 0..n |-> IF i = 0 THEN start ELSE Step(after[i - 1], i)]
  BY <1>4, Zenon
<1> HIDE DEF after
<1>6. after[0] = start
  BY <1>5
<1>7. ASSUME NEW i \in 1..n PROVE after[i] = Step(after[i - 1], i)
  <2>1. i \in 0..n /\ i # 0
    OBVIOUS
  <2>2. after[i] = IF i = 0 THEN start ELSE Step(after[i - 1], i)
    BY <1>5, <2>1
  <2> QED BY <2>1, <2>2
<1>8. Trace(after, d, ops, f)
  BY <1>6, <1>7 DEF Trace, start, Step
<1> QED BY <1>1, <1>8

-----------------------------------------------------------------------------
(* What a transfer does.                                                    *)

\* The sensor has two banks and the parts of its registers.
IsChip(c) ==
  /\ c = [bank |-> c.bank, home |-> c.home, regs |-> c.regs]
  /\ c.bank \in Banks /\ c.home \in Banks /\ c.regs = [p \in Parts |-> c.regs[p]]

IsDriver(d) ==
  /\ d = [chip |-> d.chip, cache |-> d.cache, seen |-> d.seen, ok |-> d.ok]
  /\ IsChip(d.chip) /\ d.cache \in Banks \cup {"none"} /\ d.ok \in BOOLEAN

IsTransfer(o) ==
  /\ o.op \in {"bank", "write", "read", "bits", "srst"}
  /\ o.op = "bank" => o.to \in Banks
Harmless(o) == IsTransfer(o) /\ o.op # "srst"

ChipOf(d) == d.chip
CacheOf(d) == d.cache
SeenOf(d) == d.seen
RegsOf(d) == d.chip.regs
BankOf(d) == d.chip.bank

\* Everything has gone through, and the driver knows the bank.
Goes(d) == IsDriver(d) /\ d.ok
Agrees(d) == Goes(d) /\ CacheOf(d) = BankOf(d)

\* The sensor with other registers: all of its form but what they hold stays.
Like(c, k) == IsChip(c) /\ c.bank = k.bank

LEMMA PutIs ==
  ASSUME NEW c, IsChip(c), NEW v
  PROVE  /\ Like(Put(c, v), c)
         /\ \A p \in Parts : Put(c, v).regs[p] =
              IF p \in DOMAIN v /\ Place[p].bank = c.bank THEN v[p] ELSE c.regs[p]
<1> DEFINE regs == [p \in Parts |-> IF p \in DOMAIN v /\ Place[p].bank = c.bank THEN v[p] ELSE c.regs[p]]
<1>1. Put(c, v) = [bank |-> c.bank, home |-> c.home, regs |-> regs]
  BY DEF IsChip, Put
<1>2. \A p \in Parts : regs[p] = IF p \in DOMAIN v /\ Place[p].bank = c.bank THEN v[p] ELSE c.regs[p]
  OBVIOUS
<1>3. regs = [p \in Parts |-> regs[p]]
  OBVIOUS
<1> HIDE DEF regs
<1> QED BY <1>1, <1>2, <1>3 DEF IsChip, Like

LEMMA ResetIs ==
  ASSUME NEW c, IsChip(c)
  PROVE  IsChip(Reset(c))
<1> DEFINE regs == [p \in Parts |-> Unknown]
<1> DEFINE home == [c EXCEPT !.bank = c.home]
<1>1. Reset(c) = [bank |-> c.home, home |-> c.home, regs |-> regs]
  <2>1. home = [bank |-> c.home, home |-> c.home, regs |-> c.regs]
    BY DEF IsChip
  <2>2. Reset(c) = [home EXCEPT !.regs = regs]
    BY DEF Reset
  <2> HIDE DEF home, regs
  <2> QED BY <2>1, <2>2
<1>2. regs = [p \in Parts |-> regs[p]]
  OBVIOUS
<1> HIDE DEF regs
<1> QED BY <1>1, <1>2 DEF IsChip

\* A driver that is put together from its fields.
LEMMA Assembled ==
  ASSUME NEW c, IsChip(c), NEW b \in Banks \cup {"none"}, NEW s,
         NEW e, e = [chip |-> c, cache |-> b, seen |-> s, ok |-> e.ok], e.ok \in BOOLEAN
  PROVE  IsDriver(e) /\ ChipOf(e) = c /\ CacheOf(e) = b /\ SeenOf(e) = s /\ RegsOf(e) = c.regs
<1>1. /\ e = [chip |-> e.chip, cache |-> e.cache, seen |-> e.seen, ok |-> e.ok]
      /\ e.chip = c /\ e.cache = b /\ e.seen = s
  OBVIOUS
<1>2. IsDriver(e)
  BY <1>1 DEF IsDriver
<1> QED BY <1>1, <1>2 DEF ChipOf, CacheOf, SeenOf, RegsOf

\* A write or a reset, of which the sensor makes c; a read that sees s; and before the first of them.
Transferred(d, c, ack) == [d EXCEPT !.ok = ack, !.chip = IF ack THEN c ELSE d.chip]
Looked(d, s) == [d EXCEPT !.seen = s]
Started(d) == [d EXCEPT !.ok = TRUE]

\* Those that get through.
Pass(d, o) == Send(d, o, TRUE)
Selected(d, b) == SetBank(d, b, TRUE)
Reached(d, c) == [d EXCEPT !.ok = TRUE, !.chip = c]

\* Whatever becomes of a transfer, the sensor and the driver keep their form.
LEMMA BankSent ==
  ASSUME NEW d, IsDriver(d), NEW b \in Banks, NEW ack \in BOOLEAN, NEW e, e = SetBank(d, b, ack)
  PROVE  IsDriver(e) /\ CacheOf(e) = b /\ RegsOf(e) = RegsOf(d)
<1> DEFINE chip2 == [d.chip EXCEPT !.bank = IF ack THEN b ELSE d.chip.bank]
<1>1. CASE b = d.cache
  BY <1>1 DEF SetBank, CacheOf
<1>2. CASE b # d.cache
  <2>1. e = [chip |-> chip2, cache |-> b, seen |-> d.seen, ok |-> ack]
    BY <1>2 DEF SetBank, IsDriver
  <2>2. chip2 = [bank |-> IF ack THEN b ELSE d.chip.bank, home |-> d.chip.home, regs |-> d.chip.regs]
    BY DEF IsDriver, IsChip
  <2>3. IsChip(chip2) /\ chip2.regs = d.chip.regs
    BY <2>2 DEF IsDriver, IsChip
  <2> HIDE DEF chip2
  <2>4. b \in Banks \cup {"none"}
    OBVIOUS
  <2>6. e = [chip |-> chip2, cache |-> b, seen |-> d.seen, ok |-> e.ok] /\ e.ok \in BOOLEAN
    BY <2>1
  <2>5. IsDriver(e) /\ CacheOf(e) = b /\ RegsOf(e) = chip2.regs
    BY <2>3, <2>4, <2>6, Assembled
  <2> QED BY <2>3, <2>5 DEF RegsOf
<1> QED BY <1>1, <1>2

LEMMA ChipSent ==
  ASSUME NEW d, IsDriver(d), NEW c, IsChip(c), NEW ack \in BOOLEAN, NEW e, e = Transferred(d, c, ack)
  PROVE  IsDriver(e)
<1> DEFINE h == [d EXCEPT !.ok = ack]
           k == IF ack THEN c ELSE d.chip
<1>1. e = [chip |-> k, cache |-> d.cache, seen |-> d.seen, ok |-> ack]
  <2>1. h = [chip |-> d.chip, cache |-> d.cache, seen |-> d.seen, ok |-> ack]
    BY DEF IsDriver
  <2>2. e = [h EXCEPT !.chip = k]
    BY DEF Transferred
  <2> HIDE DEF h, k
  <2> QED BY <2>1, <2>2
<1>2. IsChip(k) /\ d.cache \in Banks \cup {"none"}
  BY DEF IsDriver
<1>3. e = [chip |-> k, cache |-> d.cache, seen |-> d.seen, ok |-> e.ok] /\ e.ok \in BOOLEAN
  BY <1>1
<1> HIDE DEF k
<1> QED BY <1>2, <1>3, Assembled

LEMMA LookedIs ==
  ASSUME NEW d, IsDriver(d), NEW s, NEW e, e = Looked(d, s)
  PROVE  /\ IsDriver(e) /\ ChipOf(e) = ChipOf(d) /\ CacheOf(e) = CacheOf(d) /\ SeenOf(e) = s
         /\ Agrees(d) => Agrees(e)
<1>1. e = [chip |-> d.chip, cache |-> d.cache, seen |-> s, ok |-> d.ok]
  BY DEF IsDriver, Looked
<1>2. IsChip(d.chip) /\ d.cache \in Banks \cup {"none"} /\ d.ok \in BOOLEAN
  BY DEF IsDriver
<1>5. e = [chip |-> d.chip, cache |-> d.cache, seen |-> s, ok |-> e.ok] /\ e.ok \in BOOLEAN
  BY <1>1, <1>2
<1>3. IsDriver(e) /\ ChipOf(e) = d.chip /\ CacheOf(e) = d.cache /\ SeenOf(e) = s
  BY <1>2, <1>5, Assembled
<1>4. e.ok = d.ok /\ e.chip = d.chip
  BY <1>1
<1> QED BY <1>3, <1>4 DEF Agrees, Goes, BankOf, CacheOf, ChipOf

LEMMA StartedShape ==
  ASSUME NEW d, IsDriver(d), NEW e, e = Started(d)
  PROVE  e = [chip |-> d.chip, cache |-> d.cache, seen |-> d.seen, ok |-> TRUE]
BY DEF IsDriver, Started

LEMMA StartedIs ==
  ASSUME NEW d, IsDriver(d), NEW e, e = Started(d)
  PROVE  /\ Goes(e) /\ ChipOf(e) = ChipOf(d) /\ CacheOf(e) = CacheOf(d)
         /\ CacheOf(d) = BankOf(d) => Agrees(e)
<1>1. e = [chip |-> d.chip, cache |-> d.cache, seen |-> d.seen, ok |-> TRUE]
  BY StartedShape
<1>2. IsChip(d.chip) /\ d.cache \in Banks \cup {"none"}
  BY DEF IsDriver
<1>4. e.ok = TRUE /\ e.chip = d.chip
  BY <1>1
<1>5. e = [chip |-> d.chip, cache |-> d.cache, seen |-> d.seen, ok |-> e.ok] /\ e.ok \in BOOLEAN
  BY <1>1, <1>4
<1>3. IsDriver(e) /\ ChipOf(e) = d.chip /\ CacheOf(e) = d.cache
  BY <1>2, <1>5, Assembled
<1> QED BY <1>3, <1>4 DEF Agrees, Goes, BankOf, CacheOf, ChipOf

LEMMA SendKeeps ==
  ASSUME NEW d, IsDriver(d), NEW o, IsTransfer(o), NEW ack \in BOOLEAN
  PROVE  IsDriver(Send(d, o, ack))
<1> DEFINE e == Send(d, o, ack)
<1>1. CASE o.op = "bank"
  <2>1. e = SetBank(d, o.to, ack) /\ o.to \in Banks
    BY <1>1 DEF Send, IsTransfer
  <2> HIDE DEF e
  <2>2. IsDriver(e)
    BY <2>1, BankSent
  <2> QED BY <2>2 DEF e
<1>2. CASE o.op = "read"
  <2> DEFINE s == [p \in Parts |-> IF ack THEN d.chip.regs[p] ELSE Place[p].ones]
  <2>1. e = Looked(d, s)
    BY <1>2 DEF Send, Looked
  <2> HIDE DEF s, e
  <2>2. IsDriver(e)
    BY <2>1, LookedIs
  <2> QED BY <2>2 DEF e
<1>3. CASE o.op = "write"
  <2>1. e = Transferred(d, Put(d.chip, o.to), ack)
    BY <1>3 DEF Send, Transferred
  <2>2. IsChip(Put(d.chip, o.to))
    BY PutIs DEF IsDriver, Like
  <2> HIDE DEF e
  <2>3. IsDriver(e)
    BY <2>1, <2>2, ChipSent
  <2> QED BY <2>3 DEF e
<1>4. CASE o.op = "bits"
  <2> DEFINE v == [q \in Peers(o.part) |-> IF q = o.part THEN o.to ELSE d.seen[q]]
  <2>1. e = Transferred(d, Put(d.chip, v), ack)
    BY <1>4 DEF Send, Transferred
  <2> HIDE DEF v
  <2>2. IsChip(Put(d.chip, v))
    BY PutIs DEF IsDriver, Like
  <2> HIDE DEF e
  <2>3. IsDriver(e)
    BY <2>1, <2>2, ChipSent
  <2> QED BY <2>3 DEF e
<1>5. CASE o.op = "srst"
  <2> DEFINE c == IF d.chip.bank = "sensor" THEN Reset(d.chip) ELSE d.chip
  <2>1. e = Transferred(d, c, ack)
    BY <1>5 DEF Send, Transferred
  <2>2. IsChip(c)
    BY ResetIs DEF IsDriver
  <2> HIDE DEF e, c
  <2>3. IsDriver(e)
    BY <2>1, <2>2, ChipSent
  <2> QED BY <2>3 DEF e
<1> QED BY <1>1, <1>2, <1>3, <1>4, <1>5 DEF IsTransfer

\* A selection that gets through, unless the driver is wrong about the bank and skips it.
LEMMA BankSelected ==
  ASSUME NEW d, Goes(d), NEW b \in Banks, CacheOf(d) = b => BankOf(d) = b, NEW e, e = Selected(d, b)
  PROVE  Agrees(e) /\ CacheOf(e) = b /\ RegsOf(e) = RegsOf(d)
<1>1. IsDriver(e) /\ CacheOf(e) = b /\ RegsOf(e) = RegsOf(d)
  <2>1. IsDriver(d)
    BY DEF Goes
  <2> DEFINE h == SetBank(d, b, TRUE)
  <2>2. IsDriver(h) /\ CacheOf(h) = b /\ RegsOf(h) = RegsOf(d)
    BY ONLY <2>1, b \in Banks, BankSent
  <2> QED BY <2>2 DEF Selected
<1>2. e.ok /\ e.chip.bank = b
  <2>1. CASE b = d.cache
    BY <2>1 DEF Selected, SetBank, Goes, CacheOf, BankOf
  <2>2. CASE b # d.cache
    BY <2>2 DEF Selected, SetBank, Goes, IsDriver, IsChip
  <2> QED BY <2>1, <2>2
<1> QED BY <1>1, <1>2 DEF Agrees, Goes, BankOf

LEMMA ReachedIs ==
  ASSUME NEW d, IsDriver(d), NEW c, IsChip(c), NEW e, e = Reached(d, c)
  PROVE  Goes(e) /\ CacheOf(e) = CacheOf(d) /\ ChipOf(e) = c /\ RegsOf(e) = c.regs
<1> DEFINE h == Started(d)
<1>1. e = [chip |-> c, cache |-> d.cache, seen |-> d.seen, ok |-> TRUE]
  <2>2. e = [h EXCEPT !.chip = c]
    BY DEF Reached, Started
  <2>0. h = Started(d)
    OBVIOUS
  <2> HIDE DEF h
  <2>1. h = [chip |-> d.chip, cache |-> d.cache, seen |-> d.seen, ok |-> TRUE]
    BY <2>0, StartedShape
  <2> HIDE DEF h
  <2> QED BY <2>1, <2>2
<1>2. d.cache \in Banks \cup {"none"}
  BY DEF IsDriver
<1>3. e.ok = TRUE
  BY <1>1
<1>4. e = [chip |-> c, cache |-> d.cache, seen |-> d.seen, ok |-> e.ok] /\ e.ok \in BOOLEAN
  BY <1>1, <1>3
<1>5. IsDriver(e) /\ CacheOf(e) = d.cache /\ ChipOf(e) = c /\ RegsOf(e) = c.regs
  BY <1>2, <1>4, Assembled
<1> QED BY <1>3, <1>5 DEF Goes, CacheOf

LEMMA ChipReached ==
  ASSUME NEW d, Agrees(d), NEW c, Like(c, d.chip), NEW e, e = Reached(d, c)
  PROVE  Agrees(e) /\ CacheOf(e) = CacheOf(d) /\ RegsOf(e) = c.regs
<1>1. IsDriver(d) /\ IsChip(c) /\ c.bank = d.chip.bank
  BY DEF Agrees, Goes, Like
<1>2. Goes(e) /\ CacheOf(e) = CacheOf(d) /\ ChipOf(e) = c /\ RegsOf(e) = c.regs
  BY <1>1, ReachedIs
<1> QED BY <1>1, <1>2 DEF Agrees, ChipOf, BankOf

\* A transfer that gets through, when the driver knows the bank.
LEMMA SendAgrees ==
  ASSUME NEW d, Agrees(d), NEW o, Harmless(o)
  PROVE  Agrees(Pass(d, o))
<1> DEFINE e == Pass(d, o)
<1>0. IsDriver(d) /\ IsChip(d.chip) /\ CacheOf(d) = BankOf(d) /\ Goes(d)
  BY DEF Agrees, Goes, IsDriver
<1>1. CASE o.op = "bank"
  <2>1. e = Selected(d, o.to) /\ o.to \in Banks
    BY <1>1 DEF Pass, Selected, Send, IsTransfer, Harmless
  <2>2. CacheOf(d) = o.to => BankOf(d) = o.to
    BY <1>0
  <2> HIDE DEF e
  <2>3. Agrees(e)
    BY <1>0, <2>1, <2>2, BankSelected
  <2> QED BY <2>3 DEF e
<1>2. CASE o.op = "read"
  <2> DEFINE s == [p \in Parts |-> d.chip.regs[p]]
  <2>1. e = Looked(d, s)
    BY <1>2 DEF Pass, Send, Looked
  <2> HIDE DEF s, e
  <2>2. Agrees(e)
    BY <1>0, <2>1, LookedIs
  <2> QED BY <2>2 DEF e
<1>3. CASE o.op = "write"
  <2>1. e = Reached(d, Put(d.chip, o.to))
    BY <1>3 DEF Pass, Send, Reached
  <2>2. Like(Put(d.chip, o.to), d.chip)
    BY <1>0, PutIs
  <2> HIDE DEF e
  <2>3. Agrees(e)
    BY <2>1, <2>2, ChipReached
  <2> QED BY <2>3 DEF e
<1>4. CASE o.op = "bits"
  <2> DEFINE v == [q \in Peers(o.part) |-> IF q = o.part THEN o.to ELSE d.seen[q]]
  <2>1. e = Reached(d, Put(d.chip, v))
    BY <1>4 DEF Pass, Send, Reached
  <2> HIDE DEF v
  <2>2. Like(Put(d.chip, v), d.chip)
    BY <1>0, PutIs
  <2> HIDE DEF e
  <2>3. Agrees(e)
    BY <2>1, <2>2, ChipReached
  <2> QED BY <2>3 DEF e
<1> QED BY <1>1, <1>2, <1>3, <1>4 DEF IsTransfer, Harmless

LEMMA PassIs ==
  ASSUME NEW d, NEW b, NEW v, NEW p
  PROVE  /\ Pass(d, Bank(b)) = Selected(d, b)
         /\ Pass(d, Write(v)) = Reached(d, Put(d.chip, v))
         /\ Pass(d, Read(p)) = Looked(d, [q \in Parts |-> d.chip.regs[q]])
<1>1. Pass(d, Bank(b)) = Selected(d, b)
  BY DEF Pass, Selected, Send, Bank
<1>2. Pass(d, Write(v)) = Reached(d, Put(d.chip, v))
  BY DEF Pass, Reached, Send, Write
<1>3. Pass(d, Read(p)) = Looked(d, [q \in Parts |-> d.chip.regs[q]])
  BY DEF Pass, Send, Read, Looked
<1> QED BY <1>1, <1>2, <1>3

-----------------------------------------------------------------------------
(* What a run of transfers does.                                            *)

\* Whatever fails, the sensor and the driver keep their form.
LEMMA RunKeeps ==
  ASSUME NEW d, IsDriver(d), NEW ops, Len(ops) \in Nat, \A i \in 1..Len(ops) : IsTransfer(ops[i]),
         NEW f \in Int
  PROVE  IsDriver(Run(d, ops, f))
<1>1. PICK r : Trace(r, d, ops, f) /\ Run(d, ops, f) = r[Len(ops)]
  BY RunTrace
<1> DEFINE P == {m \in Nat : m <= Len(ops) => IsDriver(r[m])}
<1>2. 0 \in P
  <2>1. r[0] = Started(d)
    BY <1>1 DEF Trace, Started
  <2> QED BY <2>1, StartedIs DEF Goes
<1>3. ASSUME NEW m \in Nat, m \in P PROVE m + 1 \in P
  <2> SUFFICES ASSUME m + 1 <= Len(ops) PROVE IsDriver(r[m + 1])
    OBVIOUS
  <2>1. m + 1 \in 1..Len(ops) /\ IsDriver(r[m]) /\ m + 1 - 1 = m
    BY <1>3
  <2>2. r[m + 1] = IF r[m].ok THEN Send(r[m], ops[m + 1], m + 1 # f) ELSE r[m]
    BY <1>1, <2>1 DEF Trace
  <2>3. IsDriver(Send(r[m], ops[m + 1], m + 1 # f))
    BY <2>1, SendKeeps
  <2> QED BY <2>1, <2>2, <2>3
<1>4. Nat \subseteq P
  <2> HIDE DEF P
  <2> QED BY <1>2, <1>3, AllNumbers
<1> QED BY <1>1, <1>4

\* When no transfer fails.
Faultless(r, d, ops) ==
  /\ r[0] = Started(d)
  /\ \A i \in 1..Len(ops) : r[i - 1].ok => r[i] = Pass(r[i - 1], ops[i])

LEMMA RunFaultless ==
  ASSUME NEW d, NEW ops, Len(ops) \in Nat, NEW f \in Int, f < 1
  PROVE  \E r : Faultless(r, d, ops) /\ Run(d, ops, f) = r[Len(ops)]
<1>1. PICK r : Trace(r, d, ops, f) /\ Run(d, ops, f) = r[Len(ops)]
  BY RunTrace
<1>2. ASSUME NEW i \in 1..Len(ops), r[i - 1].ok PROVE r[i] = Pass(r[i - 1], ops[i])
  <2>1. (i # f) = TRUE
    OBVIOUS
  <2>2. r[i] = Send(r[i - 1], ops[i], i # f)
    BY <1>1, <1>2 DEF Trace
  <2> QED BY <2>1, <2>2 DEF Pass
<1>3. Faultless(r, d, ops)
  BY <1>1, <1>2 DEF Trace, Faultless, Started
<1> QED BY <1>1, <1>3

AllHarmless(ops, k, n) == \A i \in k..n : Harmless(ops[i])

\* From a transfer on after which the driver knows the bank, it does.
LEMMA KeepsAgreeing ==
  ASSUME NEW d, NEW ops, NEW n \in Nat, Len(ops) = n, NEW r, Faultless(r, d, ops),
         NEW k \in 0..n, Agrees(r[k]),
         AllHarmless(ops, k + 1, n)
  PROVE  Agrees(r[n])
<1> DEFINE P == {m \in Nat : k + m <= n => Agrees(r[k + m])}
<1>1. 0 \in P
  OBVIOUS
<1>2. ASSUME NEW m \in Nat, m \in P PROVE m + 1 \in P
  <2> SUFFICES ASSUME k + (m + 1) <= n PROVE Agrees(r[k + (m + 1)])
    OBVIOUS
  <2>1. /\ k + (m + 1) \in 1..n /\ k + (m + 1) \in k + 1..n
        /\ (k + (m + 1)) - 1 = k + m /\ k + m <= n
    OBVIOUS
  <2>4. Agrees(r[k + m])
    BY <1>2, <2>1
  <2>5. IsDriver(r[k + m]) /\ r[k + m].ok
    BY <2>4 DEF Agrees, Goes
  <2> DEFINE i == k + (m + 1)
  <2>6. i - 1 = k + m /\ i \in 1..Len(ops) /\ i \in k + 1..n
    BY <2>1
  <2> HIDE DEF i
  <2>2. r[i] = Pass(r[k + m], ops[i])
    BY <2>5, <2>6 DEF Faultless
  <2>3. Harmless(ops[i])
    BY <2>6 DEF AllHarmless
  <2>7. Agrees(Pass(r[k + m], ops[i]))
    BY <2>3, <2>4, SendAgrees
  <2> QED BY <2>2, <2>7 DEF i
<1>3. Nat \subseteq P
  <2> HIDE DEF P
  <2> QED BY <1>1, <1>2, AllNumbers
<1>4. n - k \in Nat /\ k + (n - k) = n
  OBVIOUS
<1>5. n - k \in P
  BY <1>3, <1>4, Zenon
<1> QED BY <1>4, <1>5

-----------------------------------------------------------------------------
(* What the driver's operations do.                                         *)

\* Transfers that get through, when the driver knows the bank.
LEMMA BankGoes ==
  ASSUME NEW d, Agrees(d), NEW b \in Banks, NEW e, e = Pass(d, Bank(b))
  PROVE  Agrees(e) /\ CacheOf(e) = b /\ RegsOf(e) = RegsOf(d)
<1>1. Goes(d) /\ (CacheOf(d) = b => BankOf(d) = b)
  BY DEF Agrees
<1>2. e = Selected(d, b)
  BY PassIs
<1> QED BY <1>1, <1>2, BankSelected

LEMMA WriteGoes ==
  ASSUME NEW d, Agrees(d), NEW v, NEW e, e = Pass(d, Write(v)),
         \A p \in Parts : p \in DOMAIN v => Place[p].bank = CacheOf(d)
  PROVE  /\ Agrees(e) /\ CacheOf(e) = CacheOf(d)
         /\ \A p \in Parts : RegsOf(e)[p] = IF p \in DOMAIN v THEN v[p] ELSE RegsOf(d)[p]
<1> DEFINE c == Put(d.chip, v)
<1>1. IsChip(d.chip) /\ d.chip.bank = CacheOf(d) /\ RegsOf(d) = d.chip.regs
  BY DEF Agrees, Goes, IsDriver, BankOf, RegsOf
<1>2. /\ Like(c, d.chip)
      /\ \A p \in Parts : c.regs[p] = IF p \in DOMAIN v /\ Place[p].bank = d.chip.bank THEN v[p] ELSE d.chip.regs[p]
  BY <1>1, PutIs
<1>3. e = Reached(d, c)
  BY PassIs
<1> HIDE DEF c
<1>4. Agrees(e) /\ CacheOf(e) = CacheOf(d) /\ RegsOf(e) = c.regs
  BY <1>2, <1>3, ChipReached
<1> QED BY <1>1, <1>2, <1>4

LEMMA ReadGoes ==
  ASSUME NEW d, Agrees(d), NEW p, NEW e, e = Pass(d, Read(p))
  PROVE  /\ Agrees(e) /\ CacheOf(e) = CacheOf(d) /\ RegsOf(e) = RegsOf(d)
         /\ \A q \in Parts : SeenOf(e)[q] = RegsOf(d)[q]
<1> DEFINE s == [q \in Parts |-> d.chip.regs[q]]
<1>1. IsDriver(d)
  BY DEF Agrees, Goes
<1>2. \A q \in Parts : s[q] = RegsOf(d)[q]
  BY DEF RegsOf
<1>3. e = Looked(d, s)
  BY PassIs
<1> HIDE DEF s
<1>4. Agrees(e) /\ CacheOf(e) = CacheOf(d) /\ ChipOf(e) = ChipOf(d) /\ SeenOf(e) = s
  BY <1>1, <1>3, LookedIs
<1>5. RegsOf(e) = RegsOf(d)
  BY <1>4 DEF RegsOf, ChipOf
<1> QED BY <1>2, <1>4, <1>5

\* The write that changes one part puts back what was read of the others.
LEMMA BitsGo ==
  ASSUME NEW d, Agrees(d), NEW p \in Parts, NEW x, CacheOf(d) = Place[p].bank,
         \A q \in Parts : SeenOf(d)[q] = RegsOf(d)[q],
         NEW e, e = Pass(d, WriteBack(p, x))
  PROVE  /\ Agrees(e) /\ CacheOf(e) = CacheOf(d)
         /\ \A q \in Parts : RegsOf(e)[q] = IF q = p THEN x ELSE RegsOf(d)[q]
<1> DEFINE v == [q \in Peers(p) |-> IF q = p THEN x ELSE d.seen[q]]
           c == Put(d.chip, v)
<1>1. IsChip(d.chip) /\ d.chip.bank = CacheOf(d) /\ RegsOf(d) = d.chip.regs /\ SeenOf(d) = d.seen
  BY DEF Agrees, Goes, IsDriver, BankOf, RegsOf, SeenOf
<1>2. DOMAIN v = Peers(p) /\ \A q \in Peers(p) : v[q] = IF q = p THEN x ELSE d.seen[q]
  OBVIOUS
<1>3. p \in Peers(p) /\ \A q \in Peers(p) : q \in Parts /\ Place[q].bank = Place[p].bank
  BY DEF Peers
<1>4. e = Reached(d, c)
  BY DEF Pass, Send, WriteBack, Reached
<1> HIDE DEF v
<1>5. /\ Like(c, d.chip)
      /\ \A q \in Parts : c.regs[q] = IF q \in DOMAIN v /\ Place[q].bank = d.chip.bank THEN v[q] ELSE d.chip.regs[q]
  BY <1>1, PutIs
<1>6. \A q \in Parts : c.regs[q] = IF q = p THEN x ELSE RegsOf(d)[q]
  BY <1>1, <1>2, <1>3, <1>5
<1> HIDE DEF c
<1>7. Agrees(e) /\ CacheOf(e) = CacheOf(d) /\ RegsOf(e) = c.regs
  BY <1>4, <1>5, ChipReached
<1> QED BY <1>6, <1>7

\* The next of the transfers.
Follows(r, ops, i, j) == Goes(r[j]) => r[i] = Pass(r[j], ops[i])

LEMMA Passes ==
  ASSUME NEW r, NEW d, NEW ops, Faultless(r, d, ops), Len(ops) \in Nat
  PROVE  /\ Len(ops) >= 1 => Follows(r, ops, 1, 0)
         /\ Len(ops) >= 2 => Follows(r, ops, 2, 1)
         /\ Len(ops) >= 3 => Follows(r, ops, 3, 2)
         /\ Len(ops) >= 4 => Follows(r, ops, 4, 3)
         /\ Len(ops) >= 5 => Follows(r, ops, 5, 4)
         /\ Len(ops) >= 6 => Follows(r, ops, 6, 5)
         /\ Len(ops) >= 7 => Follows(r, ops, 7, 6)
         /\ Len(ops) >= 8 => Follows(r, ops, 8, 7)
         /\ Len(ops) >= 9 => Follows(r, ops, 9, 8)
         /\ Len(ops) >= 10 => Follows(r, ops, 10, 9)
         /\ Len(ops) >= 11 => Follows(r, ops, 11, 10)
         /\ Len(ops) >= 12 => Follows(r, ops, 12, 11)
<1>1. ASSUME NEW i \in 1..Len(ops), NEW j, j = i - 1 PROVE Follows(r, ops, i, j)
  <2>1. r[j].ok => r[i] = Pass(r[j], ops[i])
    BY <1>1 DEF Faultless
  <2> QED BY <2>1 DEF Follows, Goes
<1> QED BY <1>1

\* Each part is in one of the two banks.
LEMMA PlaceBank == \A p \in Parts : Place[p].bank \in Banks
BY DEF Place, In, Parts, Banks

\* set_reg_bits, which other transfers may follow.
LEMMA BitsFirst ==
  ASSUME NEW d, IsDriver(d), CacheOf(d) = BankOf(d), NEW p \in Parts, NEW x,
         NEW ops, Len(ops) \in Nat, Len(ops) >= 3,
         ops[1] = Bank(Place[p].bank), ops[2] = Read(p), ops[3] = WriteBack(p, x),
         NEW r, Faultless(r, d, ops)
  PROVE  /\ Agrees(r[3])
         /\ \A q \in Parts : RegsOf(r[3])[q] = IF q = p THEN x ELSE RegsOf(d)[q]
<1>1. Follows(r, ops, 1, 0) /\ Follows(r, ops, 2, 1) /\ Follows(r, ops, 3, 2)
  <2>1. Len(ops) \in Nat /\ Len(ops) >= 1 /\ Len(ops) >= 2 /\ Len(ops) >= 3
    OBVIOUS
  <2> QED BY <2>1, Passes
<1>2. r[0] = Started(d)
  BY DEF Faultless
<1>3. Agrees(r[0]) /\ RegsOf(r[0]) = RegsOf(d) /\ Goes(r[0])
  BY <1>2, StartedIs DEF RegsOf, ChipOf
<1>4. Agrees(r[1]) /\ CacheOf(r[1]) = Place[p].bank /\ RegsOf(r[1]) = RegsOf(d) /\ Goes(r[1])
  <2>1. r[1] = Pass(r[0], Bank(Place[p].bank))
    BY <1>1, <1>3 DEF Follows
  <2>2. Agrees(r[1]) /\ CacheOf(r[1]) = Place[p].bank /\ RegsOf(r[1]) = RegsOf(r[0])
    BY <1>3, <2>1, BankGoes, PlaceBank
  <2> QED BY <1>3, <2>2 DEF Agrees
<1>5. /\ Agrees(r[2]) /\ CacheOf(r[2]) = Place[p].bank /\ RegsOf(r[2]) = RegsOf(d) /\ Goes(r[2])
      /\ \A q \in Parts : SeenOf(r[2])[q] = RegsOf(r[2])[q]
  <2>1. r[2] = Pass(r[1], Read(p))
    BY <1>1, <1>4 DEF Follows
  <2>2. /\ Agrees(r[2]) /\ CacheOf(r[2]) = CacheOf(r[1]) /\ RegsOf(r[2]) = RegsOf(r[1])
        /\ \A q \in Parts : SeenOf(r[2])[q] = RegsOf(r[1])[q]
    BY <1>4, <2>1, ReadGoes
  <2> QED BY <1>4, <2>2 DEF Agrees
<1>6. r[3] = Pass(r[2], WriteBack(p, x))
  BY <1>1, <1>5 DEF Follows
<1>7. /\ Agrees(r[3])
      /\ \A q \in Parts : RegsOf(r[3])[q] = IF q = p THEN x ELSE RegsOf(r[2])[q]
  BY <1>5, <1>6, BitsGo
<1> QED BY <1>5, <1>7

LEMMA BitsRun ==
  ASSUME NEW d, IsDriver(d), CacheOf(d) = BankOf(d), NEW p \in Parts, NEW x, NEW f \in Int, f < 1,
         NEW e, e = Run(d, BitsOps(p, x), f)
  PROVE  /\ Agrees(e)
         /\ \A q \in Parts : RegsOf(e)[q] = IF q = p THEN x ELSE RegsOf(d)[q]
<1> DEFINE ops == BitsOps(p, x)
<1>1. /\ Len(ops) = 3 /\ Len(ops) \in Nat /\ Len(ops) >= 3
      /\ ops[1] = Bank(Place[p].bank) /\ ops[2] = Read(p) /\ ops[3] = WriteBack(p, x)
  BY DEF BitsOps
<1> HIDE DEF ops
<1>2. PICK r : Faultless(r, d, ops) /\ Run(d, ops, f) = r[Len(ops)]
  BY <1>1, RunFaultless
<1>3. Agrees(r[3]) /\ \A q \in Parts : RegsOf(r[3])[q] = IF q = p THEN x ELSE RegsOf(d)[q]
  BY <1>1, <1>2, BitsFirst
<1> QED BY <1>1, <1>2, <1>3 DEF ops

-----------------------------------------------------------------------------
(* Runs of selections and writes, step by step.                             *)

\* The driver has selected bank b, and the registers hold what g says.
Point(e, b, g) == Agrees(e) /\ CacheOf(e) = b /\ \A p \in Parts : RegsOf(e)[p] = g[p]
Over(g, v) == [p \in Parts |-> IF p \in DOMAIN v THEN v[p] ELSE g[p]]
OfBank(v, b) == \A p \in Parts : p \in DOMAIN v => Place[p].bank = b

LEMMA BankNext ==
  ASSUME NEW r, NEW ops, NEW i, NEW j, Follows(r, ops, i, j), NEW b \in Banks, ops[i] = Bank(b),
         NEW a, NEW g, Point(r[j], a, g)
  PROVE  Point(r[i], b, g)
<1>1. Agrees(r[j]) /\ Goes(r[j])
  BY DEF Point, Agrees
<1>2. r[i] = Pass(r[j], Bank(b))
  BY <1>1 DEF Follows
<1>3. Agrees(r[i]) /\ CacheOf(r[i]) = b /\ RegsOf(r[i]) = RegsOf(r[j])
  BY <1>1, <1>2, BankGoes
<1> QED BY <1>3 DEF Point

LEMMA WriteNext ==
  ASSUME NEW r, NEW ops, NEW i, NEW j, Follows(r, ops, i, j), NEW v, ops[i] = Write(v),
         NEW b, OfBank(v, b), NEW g, Point(r[j], b, g)
  PROVE  Point(r[i], b, Over(g, v))
<1>1. Agrees(r[j]) /\ Goes(r[j]) /\ CacheOf(r[j]) = b
  BY DEF Point, Agrees
<1>2. r[i] = Pass(r[j], Write(v))
  BY <1>1 DEF Follows
<1>3. \A p \in Parts : p \in DOMAIN v => Place[p].bank = CacheOf(r[j])
  BY <1>1 DEF OfBank
<1>4. /\ Agrees(r[i]) /\ CacheOf(r[i]) = b
      /\ \A p \in Parts : RegsOf(r[i])[p] = IF p \in DOMAIN v THEN v[p] ELSE RegsOf(r[j])[p]
  BY <1>1, <1>2, <1>3, WriteGoes
<1>5. \A p \in Parts : Over(g, v)[p] = IF p \in DOMAIN v THEN v[p] ELSE g[p]
  BY DEF Over
<1> QED BY <1>4, <1>5 DEF Point

LEMMA OverIs ==
  ASSUME NEW g, NEW v, NEW p \in Parts
  PROVE  Over(g, v)[p] = IF p \in DOMAIN v THEN v[p] ELSE g[p]
BY DEF Over

\* The writes of the size and format tables reach their bank.
LEMMA TablesFit ==
  ASSUME NEW x
  PROVE  /\ OfBank([held |-> x], "dsp") /\ OfBank([bypass |-> x], "dsp") /\ OfBank([window |-> x], "dsp")
         /\ OfBank([dcw |-> x], "dsp") /\ OfBank([outsize |-> x], "dsp") /\ OfBank([mode |-> x], "dsp")
         /\ OfBank([res |-> x, colorbar |-> 0], "sensor")
<1>1. /\ Place["held"].bank = "dsp" /\ Place["bypass"].bank = "dsp" /\ Place["window"].bank = "dsp"
      /\ Place["dcw"].bank = "dsp" /\ Place["outsize"].bank = "dsp" /\ Place["mode"].bank = "dsp"
      /\ Place["res"].bank = "sensor" /\ Place["colorbar"].bank = "sensor"
  BY DEF Place, In
<1> QED BY <1>1 DEF OfBank

\* The parts that say what a picture is like.
PictureParts == {"bypass", "held", "mode", "outsize", "window", "res", "dcw", "colorbar"}

LEMMA FramesizeRun ==
  ASSUME NEW d, IsDriver(d), CacheOf(d) = BankOf(d), NEW s, NEW f \in Int, f < 1,
         NEW e, e = Run(d, FramesizeOps(s), f)
  PROVE  /\ Agrees(e)
         /\ RegsOf(e)["bypass"] = 0 /\ RegsOf(e)["held"] = 0 /\ RegsOf(e)["outsize"] = s
         /\ RegsOf(e)["window"] = SizeOf(s) /\ RegsOf(e)["res"] = SizeOf(s)
         /\ RegsOf(e)["dcw"] = 1 /\ RegsOf(e)["colorbar"] = 0
         /\ \A p \in Parts \ (PictureParts \ {"mode"}) : RegsOf(e)[p] = RegsOf(d)[p]
<1> DEFINE ops == FramesizeOps(s)
           g0 == RegsOf(d)
           g1 == Over(g0, [bypass |-> 1])
           g2 == Over(g1, [res |-> SizeOf(s), colorbar |-> 0])
           g3 == Over(g2, [held |-> 1])
           g4 == Over(g3, [window |-> SizeOf(s)])
           g5 == Over(g4, [dcw |-> 1])
           g6 == Over(g5, [outsize |-> s])
           g7 == Over(g6, [held |-> 0])
           g8 == Over(g7, [bypass |-> 0])
<1>1. /\ Len(ops) = 12
      /\ ops[1] = Bank("dsp") /\ ops[2] = Write([bypass |-> 1])
      /\ ops[3] = Bank("sensor") /\ ops[4] = Write([res |-> SizeOf(s), colorbar |-> 0])
      /\ ops[5] = Bank("dsp") /\ ops[6] = Write([held |-> 1])
      /\ ops[7] = Write([window |-> SizeOf(s)]) /\ ops[8] = Write([dcw |-> 1])
      /\ ops[9] = Bank("dsp") /\ ops[10] = Write([outsize |-> s])
      /\ ops[11] = Write([held |-> 0]) /\ ops[12] = Write([bypass |-> 0])
  BY DEF FramesizeOps, ToSize
<1> HIDE DEF ops
<1>2. PICK r : Faultless(r, d, ops) /\ Run(d, ops, f) = r[Len(ops)]
  <2>1. Len(ops) \in Nat
    BY <1>1
  <2> QED BY <2>1, RunFaultless
<1>3. /\ Follows(r, ops, 1, 0) /\ Follows(r, ops, 2, 1) /\ Follows(r, ops, 3, 2) /\ Follows(r, ops, 4, 3)
      /\ Follows(r, ops, 5, 4) /\ Follows(r, ops, 6, 5) /\ Follows(r, ops, 7, 6) /\ Follows(r, ops, 8, 7)
      /\ Follows(r, ops, 9, 8) /\ Follows(r, ops, 10, 9) /\ Follows(r, ops, 11, 10) /\ Follows(r, ops, 12, 11)
  <2>1. Len(ops) \in Nat /\ \A k \in 1..12 : Len(ops) >= k
    BY <1>1
  <2> QED BY <1>2, <2>1, Passes
<1>4. "dsp" \in Banks /\ "sensor" \in Banks
  BY DEF Banks
<1>5. Point(r[0], CacheOf(r[0]), g0)
  BY <1>2, StartedIs DEF Faultless, Point, RegsOf, ChipOf
<1>0. /\ g1 = Over(g0, [bypass |-> 1]) /\ g2 = Over(g1, [res |-> SizeOf(s), colorbar |-> 0])
      /\ g3 = Over(g2, [held |-> 1]) /\ g4 = Over(g3, [window |-> SizeOf(s)]) /\ g5 = Over(g4, [dcw |-> 1])
      /\ g6 = Over(g5, [outsize |-> s]) /\ g7 = Over(g6, [held |-> 0]) /\ g8 = Over(g7, [bypass |-> 0])
  OBVIOUS
<1> HIDE DEF g0, g1, g2, g3, g4, g5, g6, g7, g8
<1>6. Point(r[1], "dsp", g0)
  BY <1>1, <1>3, <1>4, <1>5, BankNext
<1>7. Point(r[2], "dsp", g1)
  BY <1>1, <1>3, <1>6, <1>0, WriteNext, TablesFit
<1>8. Point(r[3], "sensor", g1)
  BY <1>1, <1>3, <1>4, <1>7, BankNext
<1>9. Point(r[4], "sensor", g2)
  BY <1>1, <1>3, <1>8, <1>0, WriteNext, TablesFit
<1>10. Point(r[5], "dsp", g2)
  BY <1>1, <1>3, <1>4, <1>9, BankNext
<1>11. Point(r[6], "dsp", g3)
  <2>1. ops[6] = Write([held |-> 1]) /\ Follows(r, ops, 6, 5) /\ OfBank([held |-> 1], "dsp")
    BY <1>1, <1>3, TablesFit
  <2>2. Point(r[6], "dsp", Over(g2, [held |-> 1]))
    BY <1>10, <2>1, WriteNext
  <2> QED BY <1>0, <2>2
<1>12. Point(r[7], "dsp", g4)
  <2>1. ops[7] = Write([window |-> SizeOf(s)]) /\ Follows(r, ops, 7, 6) /\ OfBank([window |-> SizeOf(s)], "dsp")
    BY <1>1, <1>3, TablesFit
  <2>2. Point(r[7], "dsp", Over(g3, [window |-> SizeOf(s)]))
    BY <1>11, <2>1, WriteNext
  <2> QED BY <1>0, <2>2
<1>13. Point(r[8], "dsp", g5)
  <2>1. ops[8] = Write([dcw |-> 1]) /\ Follows(r, ops, 8, 7) /\ OfBank([dcw |-> 1], "dsp")
    BY <1>1, <1>3, TablesFit
  <2>2. Point(r[8], "dsp", Over(g4, [dcw |-> 1]))
    BY <1>12, <2>1, WriteNext
  <2> QED BY <1>0, <2>2
<1>14. Point(r[9], "dsp", g5)
  BY <1>1, <1>3, <1>4, <1>13, BankNext
<1>15. Point(r[10], "dsp", g6)
  <2>1. ops[10] = Write([outsize |-> s]) /\ Follows(r, ops, 10, 9) /\ OfBank([outsize |-> s], "dsp")
    BY <1>1, <1>3, TablesFit
  <2>2. Point(r[10], "dsp", Over(g5, [outsize |-> s]))
    BY <1>14, <2>1, WriteNext
  <2> QED BY <1>0, <2>2
<1>16. Point(r[11], "dsp", g7)
  <2>1. ops[11] = Write([held |-> 0]) /\ Follows(r, ops, 11, 10) /\ OfBank([held |-> 0], "dsp")
    BY <1>1, <1>3, TablesFit
  <2>2. Point(r[11], "dsp", Over(g6, [held |-> 0]))
    BY <1>15, <2>1, WriteNext
  <2> QED BY <1>0, <2>2
<1>17. Point(r[12], "dsp", g8)
  <2>1. ops[12] = Write([bypass |-> 0]) /\ Follows(r, ops, 12, 11) /\ OfBank([bypass |-> 0], "dsp")
    BY <1>1, <1>3, TablesFit
  <2>2. Point(r[12], "dsp", Over(g7, [bypass |-> 0]))
    BY <1>16, <2>1, WriteNext
  <2> QED BY <1>0, <2>2
<1>18. /\ \A p \in Parts : g1[p] = IF p = "bypass" THEN 1 ELSE g0[p]
       /\ \A p \in Parts : g2[p] = IF p = "res" THEN SizeOf(s) ELSE IF p = "colorbar" THEN 0 ELSE g1[p]
       /\ \A p \in Parts : g3[p] = IF p = "held" THEN 1 ELSE g2[p]
       /\ \A p \in Parts : g4[p] = IF p = "window" THEN SizeOf(s) ELSE g3[p]
       /\ \A p \in Parts : g5[p] = IF p = "dcw" THEN 1 ELSE g4[p]
       /\ \A p \in Parts : g6[p] = IF p = "outsize" THEN s ELSE g5[p]
       /\ \A p \in Parts : g7[p] = IF p = "held" THEN 0 ELSE g6[p]
       /\ \A p \in Parts : g8[p] = IF p = "bypass" THEN 0 ELSE g7[p]
  BY <1>0, OverIs
<1>19. PictureParts \subseteq Parts
  BY DEF PictureParts, Parts, Place
<1>20. Agrees(e) /\ \A p \in Parts : RegsOf(e)[p] = g8[p]
  BY <1>1, <1>2, <1>17 DEF Point, ops
<1>21. /\ g8["bypass"] = 0 /\ g8["held"] = 0 /\ g8["outsize"] = s /\ g8["window"] = SizeOf(s)
       /\ g8["res"] = SizeOf(s) /\ g8["dcw"] = 1 /\ g8["colorbar"] = 0
  BY <1>18, <1>19 DEF PictureParts
<1>22. ASSUME NEW p \in Parts \ (PictureParts \ {"mode"}) PROVE g8[p] = g0[p]
  BY <1>18 DEF PictureParts
<1>23. \A p \in PictureParts : RegsOf(e)[p] = g8[p]
  BY <1>19, <1>20
<1>24. \A p \in Parts \ (PictureParts \ {"mode"}) : RegsOf(e)[p] = RegsOf(d)[p]
  BY <1>20, <1>22 DEF g0
<1> QED BY <1>20, <1>21, <1>23, <1>24 DEF PictureParts

LEMMA PixformatRun ==
  ASSUME NEW d, IsDriver(d), CacheOf(d) = BankOf(d), NEW format, NEW f \in Int, f < 1,
         NEW e, e = Run(d, PixformatOps(format), f)
  PROVE  /\ Agrees(e) /\ RegsOf(e)["held"] = 0 /\ RegsOf(e)["mode"] = Mode(format)
         /\ \A p \in Parts \ {"held", "mode"} : RegsOf(e)[p] = RegsOf(d)[p]
<1> DEFINE ops == PixformatOps(format)
           g0 == RegsOf(d)
           g1 == Over(g0, [held |-> 1])
           g2 == Over(g1, [mode |-> Mode(format)])
           g3 == Over(g2, [held |-> 0])
<1>1. /\ Len(ops) = 4 /\ ops[1] = Bank("dsp") /\ ops[2] = Write([held |-> 1])
      /\ ops[3] = Write([mode |-> Mode(format)]) /\ ops[4] = Write([held |-> 0])
  BY DEF PixformatOps, ToFormat
<1> HIDE DEF ops
<1>2. PICK r : Faultless(r, d, ops) /\ Run(d, ops, f) = r[Len(ops)]
  <2>1. Len(ops) \in Nat
    BY <1>1
  <2> QED BY <2>1, RunFaultless
<1>3. Follows(r, ops, 1, 0) /\ Follows(r, ops, 2, 1) /\ Follows(r, ops, 3, 2) /\ Follows(r, ops, 4, 3)
  <2>1. Len(ops) \in Nat /\ \A k \in 1..4 : Len(ops) >= k
    BY <1>1
  <2> QED BY <1>2, <2>1, Passes
<1>4. "dsp" \in Banks
  BY DEF Banks
<1>5. Point(r[0], CacheOf(r[0]), g0)
  BY <1>2, StartedIs DEF Faultless, Point, RegsOf, ChipOf
<1>0. g1 = Over(g0, [held |-> 1]) /\ g2 = Over(g1, [mode |-> Mode(format)]) /\ g3 = Over(g2, [held |-> 0])
  OBVIOUS
<1> HIDE DEF g0, g1, g2, g3
<1>6. Point(r[1], "dsp", g0)
  BY <1>1, <1>3, <1>4, <1>5, BankNext
<1>7. Point(r[2], "dsp", g1)
  <2>1. ops[2] = Write([held |-> 1]) /\ Follows(r, ops, 2, 1) /\ OfBank([held |-> 1], "dsp")
    BY <1>1, <1>3, TablesFit
  <2>2. Point(r[2], "dsp", Over(g0, [held |-> 1]))
    BY <1>6, <2>1, WriteNext
  <2> QED BY <1>0, <2>2
<1>8. Point(r[3], "dsp", g2)
  <2>1. ops[3] = Write([mode |-> Mode(format)]) /\ Follows(r, ops, 3, 2) /\ OfBank([mode |-> Mode(format)], "dsp")
    BY <1>1, <1>3, TablesFit
  <2>2. Point(r[3], "dsp", Over(g1, [mode |-> Mode(format)]))
    BY <1>7, <2>1, WriteNext
  <2> QED BY <1>0, <2>2
<1>9. Point(r[4], "dsp", g3)
  <2>1. ops[4] = Write([held |-> 0]) /\ Follows(r, ops, 4, 3) /\ OfBank([held |-> 0], "dsp")
    BY <1>1, <1>3, TablesFit
  <2>2. Point(r[4], "dsp", Over(g2, [held |-> 0]))
    BY <1>8, <2>1, WriteNext
  <2> QED BY <1>0, <2>2
<1>10. /\ \A p \in Parts : g1[p] = IF p = "held" THEN 1 ELSE g0[p]
       /\ \A p \in Parts : g2[p] = IF p = "mode" THEN Mode(format) ELSE g1[p]
       /\ \A p \in Parts : g3[p] = IF p = "held" THEN 0 ELSE g2[p]
  BY <1>0, OverIs
<1>11. "held" \in Parts /\ "mode" \in Parts
  BY DEF Parts, Place
<1>12. Agrees(e) /\ \A p \in Parts : RegsOf(e)[p] = g3[p]
  BY <1>1, <1>2, <1>9 DEF Point, ops
<1> QED BY <1>10, <1>11, <1>12 DEF g0

\* What a picture of this size and format needs; the registers hold it.
Pictured(regs, framesize, format) ==
  /\ regs["bypass"] = 0 /\ regs["held"] = 0 /\ regs["mode"] = Mode(format)
  /\ regs["outsize"] = framesize /\ regs["window"] = SizeOf(framesize) /\ regs["res"] = SizeOf(framesize)
  /\ regs["dcw"] = 1 /\ regs["colorbar"] = 0

LEMMA SetFramesizeRun ==
  ASSUME NEW d, IsDriver(d), CacheOf(d) = BankOf(d), NEW s, NEW format, NEW f \in Int, f < 1,
         NEW e, e = SetFramesize(d, s, format, f)
  PROVE  /\ Agrees(e) /\ Pictured(RegsOf(e), s, format)
         /\ \A p \in Parts \ PictureParts : RegsOf(e)[p] = RegsOf(d)[p]
<1> DEFINE sized == Run(d, FramesizeOps(s), f)
           n == Len(FramesizeOps(s))
           run == Run(sized, PixformatOps(format), f - n)
<1>1. n = 12
  BY DEF FramesizeOps, ToSize
<1>2. e = IF ~ sized.ok THEN sized ELSE Started(run)
  BY DEF SetFramesize, Started
<1>3. f - n \in Int /\ f - n < 1
  BY <1>1
<1> HIDE DEF n
<1>4. /\ Agrees(sized)
      /\ RegsOf(sized)["bypass"] = 0 /\ RegsOf(sized)["outsize"] = s
      /\ RegsOf(sized)["window"] = SizeOf(s) /\ RegsOf(sized)["res"] = SizeOf(s)
      /\ RegsOf(sized)["dcw"] = 1 /\ RegsOf(sized)["colorbar"] = 0
      /\ \A p \in Parts \ (PictureParts \ {"mode"}) : RegsOf(sized)[p] = RegsOf(d)[p]
  BY FramesizeRun
<1> HIDE DEF sized
<1>5. IsDriver(sized) /\ CacheOf(sized) = BankOf(sized) /\ sized.ok
  BY <1>4 DEF Agrees, Goes
<1>6. /\ Agrees(run) /\ RegsOf(run)["held"] = 0 /\ RegsOf(run)["mode"] = Mode(format)
      /\ \A p \in Parts \ {"held", "mode"} : RegsOf(run)[p] = RegsOf(sized)[p]
  BY <1>3, <1>5, PixformatRun
<1> HIDE DEF run
<1>7. e = Started(run) /\ IsDriver(run) /\ CacheOf(run) = BankOf(run)
  BY <1>2, <1>5, <1>6 DEF Agrees, Goes
<1>8. Agrees(e) /\ ChipOf(e) = ChipOf(run)
  BY <1>7, StartedIs
<1>9. RegsOf(e) = RegsOf(run)
  BY <1>8 DEF RegsOf, ChipOf
<1>10. PictureParts \subseteq Parts
  BY DEF PictureParts, Parts, Place
<1>11. Pictured(RegsOf(e), s, format)
  BY <1>4, <1>6, <1>9, <1>10 DEF Pictured, PictureParts
<1>12. ASSUME NEW p \in Parts \ PictureParts PROVE RegsOf(e)[p] = RegsOf(d)[p]
  <2>1. p \in Parts \ (PictureParts \ {"mode"}) /\ p \in Parts \ {"held", "mode"}
    BY DEF PictureParts
  <2> QED BY <1>4, <1>6, <1>9, <2>1
<1> QED BY <1>8, <1>11, <1>12

-----------------------------------------------------------------------------
(* The reset, whatever the driver and the sensor were before.               *)

LEMMA TransferIs ==
  ASSUME NEW v, NEW p, NEW x
  PROVE  /\ \A b \in Banks : IsTransfer(Bank(b)) /\ Bank(b).op # "srst"
         /\ IsTransfer(Write(v)) /\ Write(v).op # "srst"
         /\ IsTransfer(Read(p)) /\ Read(p).op # "srst"
         /\ IsTransfer(WriteBack(p, x)) /\ WriteBack(p, x).op # "srst"
         /\ IsTransfer(SwReset)
<1>1. ASSUME NEW b \in Banks PROVE IsTransfer(Bank(b)) /\ Bank(b).op # "srst"
  BY DEF IsTransfer, Bank
<1>2. IsTransfer(Write(v)) /\ Write(v).op # "srst"
  BY DEF IsTransfer, Write
<1>3. IsTransfer(Read(p)) /\ Read(p).op # "srst"
  BY DEF IsTransfer, Read
<1>4. IsTransfer(WriteBack(p, x)) /\ WriteBack(p, x).op # "srst"
  BY DEF IsTransfer, WriteBack
<1>5. IsTransfer(SwReset)
  BY DEF IsTransfer, SwReset
<1> QED BY <1>1, <1>2, <1>3, <1>4, <1>5

LEMMA HarmlessIs ==
  ASSUME NEW v, NEW p, NEW x
  PROVE  /\ Harmless(Bank("dsp")) /\ Harmless(Bank("sensor")) /\ Harmless(Write(v))
         /\ Harmless(Read(p)) /\ Harmless(WriteBack(p, x))
<1>1. "dsp" \in Banks /\ "sensor" \in Banks
  BY DEF Banks
<1> QED BY <1>1, TransferIs DEF Harmless

LEMMA ResetOpsAre ==
  ASSUME NEW ops, ops = ResetOps
  PROVE  /\ Len(ops) = 15 /\ ops[1] = Bank("sensor") /\ ops[2] = SwReset /\ ops[3] = Bank("dsp")
         /\ \A i \in 3..15 : Harmless(ops[i])
<1>1. /\ Len(ops) = 15
      /\ ops[1] = Bank("sensor") /\ ops[2] = SwReset /\ ops[3] = Bank("dsp") /\ ops[4] = Bank("sensor")
      /\ ops[5] = Write([hmirror |-> 0, vflip |-> 0]) /\ ops[6] = Write([agc |-> 1, aec |-> 1])
      /\ ops[7] = Write([gainceiling |-> 2]) /\ ops[8] = Write([res |-> 0, colorbar |-> 0])
      /\ ops[9] = Bank("dsp") /\ ops[10] = Write([held |-> 1]) /\ ops[11] = Write([bpc |-> 0, wpc |-> 1])
      /\ ops[12] = Write([raw_gma |-> 1, lenc |-> 0, awb |-> 1, awb_gain |-> 1])
      /\ ops[13] = Write([mode |-> 0]) /\ ops[14] = Write([held |-> 0]) /\ ops[15] = Write([bypass |-> 0])
  BY DEF ResetOps, Cif
<1>2. /\ Harmless(ops[3]) /\ Harmless(ops[4]) /\ Harmless(ops[5]) /\ Harmless(ops[6]) /\ Harmless(ops[7])
      /\ Harmless(ops[8]) /\ Harmless(ops[9]) /\ Harmless(ops[10]) /\ Harmless(ops[11])
      /\ Harmless(ops[12]) /\ Harmless(ops[13]) /\ Harmless(ops[14]) /\ Harmless(ops[15])
  BY <1>1, HarmlessIs
<1>3. ASSUME NEW i \in 3..15 PROVE Harmless(ops[i])
  BY <1>2
<1> QED BY <1>1, <1>3

LEMMA ResetRun ==
  ASSUME NEW d, IsDriver(d), NEW f \in Int, f < 1, NEW e, e = Run(d, ResetOps, f)
  PROVE  Agrees(e)
<1> DEFINE ops == ResetOps
<1>1. /\ Len(ops) = 15 /\ ops[1] = Bank("sensor") /\ ops[2] = SwReset /\ ops[3] = Bank("dsp")
      /\ \A i \in 3..15 : Harmless(ops[i])
  BY ResetOpsAre
<1> HIDE DEF ops
<1>2. PICK r : Faultless(r, d, ops) /\ Run(d, ops, f) = r[Len(ops)]
  <2>1. Len(ops) \in Nat
    BY <1>1
  <2> QED BY <2>1, RunFaultless
<1>3. Follows(r, ops, 1, 0) /\ Follows(r, ops, 2, 1) /\ Follows(r, ops, 3, 2)
  <2>1. Len(ops) \in Nat /\ \A k \in 1..3 : Len(ops) >= k
    BY <1>1
  <2> QED BY <1>2, <2>1, Passes
<1>4. Goes(r[0])
  BY <1>2, StartedIs DEF Faultless
<1>5. Goes(r[1]) /\ CacheOf(r[1]) = "sensor"
  <2>1. r[1] = SetBank(r[0], "sensor", TRUE)
    BY <1>1, <1>3, <1>4, PassIs DEF Follows, Selected
  <2>2. IsDriver(r[0]) /\ "sensor" \in Banks /\ r[0].ok
    BY <1>4 DEF Goes, Banks
  <2>3. IsDriver(r[1]) /\ CacheOf(r[1]) = "sensor"
    BY <2>1, <2>2, BankSent
  <2>4. r[1].ok
    <3>1. CASE r[0].cache = "sensor"
      BY <2>1, <2>2, <3>1 DEF SetBank
    <3>2. CASE r[0].cache # "sensor"
      <4>1. r[1] = [r[0] EXCEPT !.cache = "sensor", !.chip.bank = "sensor", !.ok = TRUE]
        BY <2>1, <3>2 DEF SetBank
      <4> QED BY <2>2, <4>1 DEF IsDriver
    <3> QED BY <3>1, <3>2
  <2> QED BY <2>3, <2>4 DEF Goes
<1>6. Goes(r[2]) /\ CacheOf(r[2]) = "sensor"
  <2> DEFINE c == IF r[1].chip.bank = "sensor" THEN Reset(r[1].chip) ELSE r[1].chip
  <2>1. r[2] = Reached(r[1], c)
    BY <1>1, <1>3, <1>5 DEF Follows, Pass, Send, SwReset, Reached
  <2>2. IsDriver(r[1]) /\ IsChip(c)
    BY <1>5, ResetIs DEF Goes, IsDriver
  <2> HIDE DEF c
  <2>3. Goes(r[2]) /\ CacheOf(r[2]) = CacheOf(r[1])
    BY <2>1, <2>2, ReachedIs
  <2> QED BY <1>5, <2>3
<1>7. Agrees(r[3])
  <2>1. r[3] = Selected(r[2], "dsp")
    BY <1>1, <1>3, <1>6, PassIs DEF Follows
  <2>2. "dsp" \in Banks /\ (CacheOf(r[2]) = "dsp" => BankOf(r[2]) = "dsp")
    BY <1>6 DEF Banks
  <2> QED BY <1>6, <2>1, <2>2, BankSelected
<1>8. AllHarmless(ops, 3 + 1, 15)
  BY <1>1 DEF AllHarmless
<1>9. 15 \in Nat /\ 3 \in 0..15 /\ Len(ops) = 15
  BY <1>1
<1>10. Agrees(r[15])
  BY <1>2, <1>7, <1>8, <1>9, KeepsAgreeing
<1> QED BY <1>1, <1>2, <1>10 DEF ops

-----------------------------------------------------------------------------
(* The settings.                                                            *)

\* Parts that a setter may change besides its own.
Beside == {"sde", "wb_on", "vref"}

LEMMA OneFits ==
  ASSUME NEW p \in Parts, NEW x, NEW v, v = [q \in {p} |-> x]
  PROVE  OfBank(v, Place[p].bank) /\ DOMAIN v = {p} /\ v[p] = x
<1>1. DOMAIN v = {p} /\ v[p] = x
  OBVIOUS
<1> QED BY <1>1 DEF OfBank

\* A setter does what it says, and leaves all other parts but those beside it alone.
SetsPart(e, d, p, x) ==
  /\ Agrees(e) /\ RegsOf(e)[p] = x
  /\ \A q \in Parts \ ({p} \cup Beside) : RegsOf(e)[q] = RegsOf(d)[q]

LEMMA BitsSet ==
  ASSUME NEW d, IsDriver(d), CacheOf(d) = BankOf(d), NEW p \in Settings, NEW x, NEW f \in Int, f < 1,
         NEW e, e = Run(d, BitsOps(p, x), f)
  PROVE  SetsPart(e, d, p, x)
<1>1. p \in Parts
  BY DEF Settings
<1>2. Agrees(e) /\ \A q \in Parts : RegsOf(e)[q] = IF q = p THEN x ELSE RegsOf(d)[q]
  BY <1>1, BitsRun
<1> QED BY <1>1, <1>2 DEF SetsPart

LEMMA WriteSet ==
  ASSUME NEW d, IsDriver(d), CacheOf(d) = BankOf(d), NEW p \in Settings, NEW x, NEW f \in Int, f < 1,
         NEW e, e = Run(d, <<Bank(Place[p].bank), Write([q \in {p} |-> x])>>, f)
  PROVE  SetsPart(e, d, p, x)
<1> DEFINE v == [q \in {p} |-> x]
           ops == <<Bank(Place[p].bank), Write(v)>>
           g == RegsOf(d)
           b == Place[p].bank
<1>0. p \in Parts /\ b \in Banks
  BY PlaceBank DEF Settings
<1>1. Len(ops) = 2 /\ ops[1] = Bank(b) /\ ops[2] = Write(v)
  OBVIOUS
<1> HIDE DEF ops, b, v
<1>2. PICK r : Faultless(r, d, ops) /\ Run(d, ops, f) = r[Len(ops)]
  <2>1. Len(ops) \in Nat
    BY <1>1
  <2> QED BY <2>1, RunFaultless
<1>3. Follows(r, ops, 1, 0) /\ Follows(r, ops, 2, 1)
  <2>1. Len(ops) \in Nat /\ Len(ops) >= 1 /\ Len(ops) >= 2
    BY <1>1
  <2> QED BY <1>2, <2>1, Passes
<1>4. Point(r[0], CacheOf(r[0]), g)
  BY <1>2, StartedIs DEF Faultless, Point, RegsOf, ChipOf
<1> HIDE DEF g
<1>5. Point(r[1], b, g)
  BY <1>0, <1>1, <1>3, <1>4, BankNext
<1>6. OfBank(v, b) /\ DOMAIN v = {p} /\ v[p] = x
  BY <1>0, OneFits DEF b, v
<1>7. Point(r[2], b, Over(g, v))
  BY <1>1, <1>3, <1>5, <1>6, WriteNext
<1>8. \A q \in Parts : Over(g, v)[q] = IF q = p THEN x ELSE g[q]
  BY <1>6, OverIs
<1>9. e = r[2]
  BY <1>1, <1>2 DEF ops, b, v
<1> QED BY <1>0, <1>7, <1>8, <1>9 DEF Point, SetsPart, g

\* The levels, behind the enable mask.
LEMMA LevelSet ==
  ASSUME NEW d, IsDriver(d), CacheOf(d) = BankOf(d), NEW p \in Settings, Place[p].bank = "dsp",
         NEW m, NEW x, NEW f \in Int, f < 1,
         NEW e, e = Run(d, <<Bank("dsp"), Write([sde |-> m]), Write([q \in {p} |-> x])>>, f)
  PROVE  SetsPart(e, d, p, x)
<1> DEFINE v == [q \in {p} |-> x]
           ops == <<Bank("dsp"), Write([sde |-> m]), Write(v)>>
           g == RegsOf(d)
           g1 == Over(g, [sde |-> m])
<1>0. p \in Parts /\ "dsp" \in Banks /\ OfBank([sde |-> m], "dsp")
  <2>1. Place["sde"].bank = "dsp"
    BY DEF Place, In
  <2> QED BY <2>1 DEF Settings, Banks, OfBank
<1>1. Len(ops) = 3 /\ ops[1] = Bank("dsp") /\ ops[2] = Write([sde |-> m]) /\ ops[3] = Write(v)
  OBVIOUS
<1> HIDE DEF ops, v
<1>2. PICK r : Faultless(r, d, ops) /\ Run(d, ops, f) = r[Len(ops)]
  <2>1. Len(ops) \in Nat
    BY <1>1
  <2> QED BY <2>1, RunFaultless
<1>3. Follows(r, ops, 1, 0) /\ Follows(r, ops, 2, 1) /\ Follows(r, ops, 3, 2)
  <2>1. Len(ops) \in Nat /\ Len(ops) >= 1 /\ Len(ops) >= 2 /\ Len(ops) >= 3
    BY <1>1
  <2> QED BY <1>2, <2>1, Passes
<1>4. Point(r[0], CacheOf(r[0]), g)
  BY <1>2, StartedIs DEF Faultless, Point, RegsOf, ChipOf
<1>5. \A q \in Parts : g1[q] = IF q = "sde" THEN m ELSE g[q]
  BY OverIs
<1> HIDE DEF g
<1>6. Point(r[1], "dsp", g)
  BY <1>0, <1>1, <1>3, <1>4, BankNext
<1>7. Point(r[2], "dsp", g1)
  BY <1>0, <1>1, <1>3, <1>6, WriteNext
<1> HIDE DEF g1
<1>8. OfBank(v, "dsp") /\ DOMAIN v = {p} /\ v[p] = x
  <2>1. OfBank(v, Place[p].bank) /\ DOMAIN v = {p} /\ v[p] = x
    BY <1>0, OneFits DEF v
  <2> QED BY <2>1
<1>9. Point(r[3], "dsp", Over(g1, v))
  BY <1>1, <1>3, <1>7, <1>8, WriteNext
<1>10. \A q \in Parts : Over(g1, v)[q] = IF q = p THEN x ELSE g1[q]
  BY <1>8, OverIs
<1>11. e = r[3]
  BY <1>1, <1>2 DEF ops, v
<1> QED BY <1>0, <1>5, <1>9, <1>10, <1>11 DEF Point, SetsPart, g, Beside

\* The white balance, whose register stays when it is set to automatic.
LEMMA WhiteSet ==
  ASSUME NEW d, IsDriver(d), CacheOf(d) = BankOf(d), NEW x, NEW f \in Int, f < 1,
         NEW e, e = Run(d, SetOps("wb_mode", x), f)
  PROVE  Agrees(e) /\ \A q \in Parts \ ({"wb_mode"} \cup Beside) : RegsOf(e)[q] = RegsOf(d)[q]
<1> DEFINE ops == SetOps("wb_mode", x)
           v == [q \in {"wb_mode"} |-> x]
<1>0. "wb_mode" \in Parts /\ "wb_on" \in Parts /\ Place["wb_mode"].bank = "dsp" /\ "dsp" \in Banks
  BY DEF Parts, Place, In, Banks
<1>1. CASE x = 0
  <2>1. Len(ops) \in Nat /\ Len(ops) >= 3 /\ Len(ops) = 3
        /\ ops[1] = Bank(Place["wb_on"].bank) /\ ops[2] = Read("wb_on") /\ ops[3] = WriteBack("wb_on", 0)
    BY <1>1 DEF SetOps, BitsOps, Levels
  <2> HIDE DEF ops
  <2>2. PICK r : Faultless(r, d, ops) /\ Run(d, ops, f) = r[Len(ops)]
    BY <2>1, RunFaultless
  <2>3. Agrees(r[3]) /\ \A q \in Parts : RegsOf(r[3])[q] = IF q = "wb_on" THEN 0 ELSE RegsOf(d)[q]
    BY ONLY IsDriver(d), CacheOf(d) = BankOf(d), <1>0, <2>1, <2>2, BitsFirst
  <2>4. e = r[3]
    BY <2>1, <2>2 DEF ops
  <2> QED BY <2>3, <2>4 DEF Beside
<1>2. CASE x # 0
  <2>1. Len(ops) \in Nat /\ Len(ops) >= 3 /\ Len(ops) = 5
        /\ ops[1] = Bank(Place["wb_on"].bank) /\ ops[2] = Read("wb_on") /\ ops[3] = WriteBack("wb_on", 1)
        /\ ops[4] = Bank("dsp") /\ ops[5] = Write(v)
    BY <1>2 DEF SetOps, BitsOps, Levels
  <2> HIDE DEF ops, v
  <2>2. PICK r : Faultless(r, d, ops) /\ Run(d, ops, f) = r[Len(ops)]
    BY <2>1, RunFaultless
  <2>3. Agrees(r[3]) /\ \A q \in Parts : RegsOf(r[3])[q] = IF q = "wb_on" THEN 1 ELSE RegsOf(d)[q]
    BY <1>0, <2>1, <2>2, BitsFirst
  <2>4. Follows(r, ops, 4, 3) /\ Follows(r, ops, 5, 4)
    <3>1. Len(ops) \in Nat /\ Len(ops) >= 4 /\ Len(ops) >= 5
      BY <2>1
    <3> QED BY <2>2, <3>1, Passes
  <2> DEFINE g == RegsOf(r[3])
  <2>5. Point(r[3], CacheOf(r[3]), g)
    BY <2>3 DEF Point
  <2> HIDE DEF g
  <2>6. Point(r[4], "dsp", g)
    BY <1>0, <2>1, <2>4, <2>5, BankNext
  <2>7. OfBank(v, "dsp") /\ DOMAIN v = {"wb_mode"}
    <3>1. OfBank(v, Place["wb_mode"].bank) /\ DOMAIN v = {"wb_mode"}
      BY <1>0, OneFits DEF v
    <3> QED BY <1>0, <3>1
  <2>8. Point(r[5], "dsp", Over(g, v))
    BY <2>1, <2>4, <2>6, <2>7, WriteNext
  <2>9. \A q \in Parts \ {"wb_mode"} : Over(g, v)[q] = g[q]
    BY <2>7, OverIs
  <2>10. e = r[5]
    BY <2>1, <2>2 DEF ops
  <2> QED BY <2>3, <2>8, <2>9, <2>10 DEF Point, g, Beside
<1> QED BY <1>1, <1>2

\* What a setter does when no transfer fails.
LEMMA SetRun ==
  ASSUME NEW d, IsDriver(d), CacheOf(d) = BankOf(d), NEW p \in Settings, NEW x, NEW f \in Int, f < 1,
         NEW e, e = Set(d, p, x, f)
  PROVE  /\ Agrees(e)
         /\ \A q \in Parts \ ({p} \cup Beside) : RegsOf(e)[q] = RegsOf(d)[q]
         /\ p \notin {"wb_mode", "aec2"} => RegsOf(e)[p] = x
<1>1. CASE p = "vflip"
  <2> DEFINE vref == Run(d, BitsOps("vref", x), f)
             vflip == Run(vref, BitsOps("vflip", x), f - 3)
  <2>1. e = [vflip EXCEPT !.ok = vref.ok \/ vflip.ok]
    BY <1>1 DEF Set
  <2>2. "vref" \in Parts /\ "vflip" \in Parts
    BY DEF Parts, Place
  <2>3. Agrees(vref) /\ \A q \in Parts : RegsOf(vref)[q] = IF q = "vref" THEN x ELSE RegsOf(d)[q]
    BY <2>2, BitsRun
  <2> HIDE DEF vref
  <2>4. IsDriver(vref) /\ CacheOf(vref) = BankOf(vref) /\ f - 3 \in Int /\ f - 3 < 1
    BY <2>3 DEF Agrees, Goes
  <2>5. Agrees(vflip) /\ \A q \in Parts : RegsOf(vflip)[q] = IF q = "vflip" THEN x ELSE RegsOf(vref)[q]
    BY <2>2, <2>4, BitsRun
  <2> HIDE DEF vflip
  <2>6. vflip.ok /\ IsDriver(vflip) /\ CacheOf(vflip) = BankOf(vflip)
    BY <2>5 DEF Agrees, Goes
  <2>7. (vref.ok \/ vflip.ok) = TRUE
    BY <2>6
  <2>8. e = Started(vflip)
    BY <2>1, <2>7 DEF Started
  <2>9. Agrees(e) /\ ChipOf(e) = ChipOf(vflip)
    BY <2>6, <2>8, StartedIs
  <2>10. RegsOf(e) = RegsOf(vflip)
    BY <2>9 DEF RegsOf, ChipOf
  <2> QED BY <1>1, <2>2, <2>3, <2>5, <2>9, <2>10 DEF Beside
<1>2. CASE p = "wb_mode"
  <2>1. e = Run(d, SetOps("wb_mode", x), f)
    BY <1>2 DEF Set
  <2> QED BY <1>2, <2>1, WhiteSet
<1>3. CASE p = "aec2"
  <2>1. e = Run(d, BitsOps(p, 1 - x), f)
    BY <1>3 DEF Set, SetOps, Levels
  <2>2. SetsPart(e, d, p, 1 - x)
    BY <2>1, BitsSet
  <2> QED BY <1>3, <2>2 DEF SetsPart
<1>4. CASE p \notin {"vflip", "wb_mode", "aec2"}
  <2>1. e = Run(d, SetOps(p, x), f)
    BY <1>4 DEF Set
  <2>2. CASE p \in {"quality", "agc_gain", "ae_level"}
    <3>1. e = Run(d, <<Bank(Place[p].bank), Write([q \in {p} |-> x])>>, f)
      BY <2>1, <2>2 DEF SetOps, Levels
    <3>2. SetsPart(e, d, p, x)
      BY <3>1, WriteSet
    <3> QED BY <3>2 DEF SetsPart
  <2>3. CASE p \in Levels \ {"ae_level"}
    <3> DEFINE m == Mask(p, x)
    <3>1. e = Run(d, <<Bank("dsp"), Write([sde |-> m]), Write([q \in {p} |-> x])>>, f)
      BY <2>1, <2>3 DEF SetOps, Levels
    <3>2. Place[p].bank = "dsp"
      BY <2>3 DEF Levels, Place, In
    <3> HIDE DEF m
    <3>3. SetsPart(e, d, p, x)
      BY <3>1, <3>2, LevelSet
    <3> QED BY <3>3 DEF SetsPart
  <2>4. CASE p \notin {"quality", "agc_gain"} \cup Levels
    <3>1. e = Run(d, BitsOps(p, x), f)
      BY <1>4, <2>1, <2>4 DEF SetOps, Levels
    <3>2. SetsPart(e, d, p, x)
      BY <3>1, BitsSet
    <3> QED BY <3>2 DEF SetsPart
  <2> QED BY <2>2, <2>3, <2>4 DEF Levels
<1> QED BY <1>1, <1>2, <1>3, <1>4

-----------------------------------------------------------------------------
(* Whatever fails, the sensor and the driver keep their form.               *)
Transfers(ops) == Len(ops) \in Nat /\ \A i \in 1..Len(ops) : Harmless(ops[i])

LEMMA TransfersKeep ==
  ASSUME NEW d, IsDriver(d), NEW ops, Transfers(ops), NEW f \in Int, NEW e, e = Run(d, ops, f)
  PROVE  IsDriver(e)
<1>1. Len(ops) \in Nat /\ \A i \in 1..Len(ops) : IsTransfer(ops[i])
  BY DEF Transfers, Harmless
<1> QED BY <1>1, RunKeeps

LEMMA BankHarmless == ASSUME NEW p \in Parts PROVE Harmless(Bank(Place[p].bank))
<1>1. Place[p].bank \in {"dsp", "sensor"}
  BY PlaceBank DEF Banks
<1> QED BY <1>1, HarmlessIs

LEMMA BitsTransfers ==
  ASSUME NEW p \in Parts, NEW x
  PROVE  Transfers(BitsOps(p, x))
<1> DEFINE ops == BitsOps(p, x)
<1>1. Len(ops) = 3 /\ ops[1] = Bank(Place[p].bank) /\ ops[2] = Read(p) /\ ops[3] = WriteBack(p, x)
  BY DEF BitsOps
<1>2. Harmless(Bank(Place[p].bank)) /\ Harmless(Read(p)) /\ Harmless(WriteBack(p, x))
  BY BankHarmless, HarmlessIs
<1> HIDE DEF ops
<1>3. \A i \in 1..3 : Harmless(ops[i])
  BY <1>1, <1>2
<1> QED BY <1>1, <1>3 DEF Transfers, ops

LEMMA SetTransfers ==
  ASSUME NEW p \in Settings, NEW x
  PROVE  Transfers(SetOps(p, x))
<1> DEFINE ops == SetOps(p, x)
           w == [q \in {p} |-> x]
<1>0. p \in Parts /\ "wb_on" \in Parts
  BY DEF Settings, Parts, Place
<1>1. CASE p \in {"quality", "agc_gain", "ae_level"}
  <2>1. Len(ops) = 2 /\ ops[1] = Bank(Place[p].bank) /\ ops[2] = Write(w)
    BY <1>1 DEF SetOps, Levels
  <2>2. Harmless(Bank(Place[p].bank)) /\ Harmless(Write(w))
    BY <1>0, BankHarmless, HarmlessIs
  <2> HIDE DEF ops, w
  <2>3. \A i \in 1..2 : Harmless(ops[i])
    BY <2>1, <2>2
  <2> QED BY <2>1, <2>3 DEF Transfers, ops
<1>2. CASE p \in Levels \ {"ae_level"}
  <2> DEFINE m == [sde |-> Mask(p, x)]
  <2>1. Len(ops) = 3 /\ ops[1] = Bank("dsp") /\ ops[2] = Write(m) /\ ops[3] = Write(w)
    BY <1>2 DEF SetOps, Levels
  <2> HIDE DEF ops, w, m
  <2>2. Harmless(Bank("dsp")) /\ Harmless(Write(m)) /\ Harmless(Write(w))
    BY HarmlessIs
  <2>3. \A i \in 1..3 : Harmless(ops[i])
    BY <2>1, <2>2
  <2> QED BY <2>1, <2>3 DEF Transfers, ops
<1>3. CASE p = "wb_mode"
  <2> DEFINE y == IF x = 0 THEN 0 ELSE 1
  <2>1. CASE x = 0
    <3>1. /\ Len(ops) = 3 /\ ops[1] = Bank(Place["wb_on"].bank) /\ ops[2] = Read("wb_on")
          /\ ops[3] = WriteBack("wb_on", 0)
      BY <1>3, <2>1 DEF SetOps, BitsOps, Levels
    <3>2. Harmless(Bank(Place["wb_on"].bank)) /\ Harmless(Read("wb_on")) /\ Harmless(WriteBack("wb_on", 0))
      BY <1>0, BankHarmless, HarmlessIs
    <3> HIDE DEF ops
    <3>3. \A i \in 1..3 : Harmless(ops[i])
      BY <3>1, <3>2
    <3> QED BY <3>1, <3>3 DEF Transfers, ops
  <2>2. CASE x # 0
    <3>1. /\ Len(ops) = 5 /\ ops[1] = Bank(Place["wb_on"].bank) /\ ops[2] = Read("wb_on")
          /\ ops[3] = WriteBack("wb_on", 1) /\ ops[4] = Bank("dsp") /\ ops[5] = Write(w)
      BY <1>3, <2>2 DEF SetOps, BitsOps, Levels
    <3> HIDE DEF ops, w
    <3>2. /\ Harmless(Bank(Place["wb_on"].bank)) /\ Harmless(Read("wb_on"))
          /\ Harmless(WriteBack("wb_on", 1)) /\ Harmless(Bank("dsp")) /\ Harmless(Write(w))
      BY <1>0, BankHarmless, HarmlessIs
    <3>3. \A i \in 1..5 : Harmless(ops[i])
      BY <3>1, <3>2
    <3> QED BY <3>1, <3>3 DEF Transfers, ops
  <2> QED BY <2>1, <2>2
<1>4. CASE p \notin {"quality", "agc_gain", "wb_mode"} \cup Levels
  <2>1. ops = BitsOps(p, 1 - x) \/ ops = BitsOps(p, x)
    BY <1>4 DEF SetOps, Levels
  <2> HIDE DEF ops
  <2> QED BY <1>0, <2>1, BitsTransfers DEF ops
<1> QED BY <1>1, <1>2, <1>3, <1>4 DEF Levels

LEMMA OkKeeps ==
  ASSUME NEW d, IsDriver(d), NEW ok \in BOOLEAN, NEW e, e = [d EXCEPT !.ok = ok]
  PROVE  IsDriver(e)
<1>1. e = [chip |-> d.chip, cache |-> d.cache, seen |-> d.seen, ok |-> ok]
  BY DEF IsDriver
<1>2. IsChip(d.chip) /\ d.cache \in Banks \cup {"none"}
  BY DEF IsDriver
<1>3. e = [chip |-> d.chip, cache |-> d.cache, seen |-> d.seen, ok |-> e.ok] /\ e.ok \in BOOLEAN
  BY <1>1
<1> QED BY <1>2, <1>3, Assembled

LEMMA SetKeeps ==
  ASSUME NEW d, IsDriver(d), NEW p \in Settings, NEW x, NEW f \in Int, NEW e, e = Set(d, p, x, f)
  PROVE  IsDriver(e)
<1>1. CASE p # "vflip"
  <2>1. e = Run(d, SetOps(p, x), f)
    BY <1>1 DEF Set
  <2> QED BY <2>1, SetTransfers, TransfersKeep
<1>2. CASE p = "vflip"
  <2> DEFINE vref == Run(d, BitsOps("vref", x), f)
             vflip == Run(vref, BitsOps("vflip", x), f - 3)
             ok == vref.ok \/ vflip.ok
  <2>1. e = [vflip EXCEPT !.ok = ok]
    BY <1>2 DEF Set
  <2>2. "vref" \in Parts /\ "vflip" \in Parts
    BY DEF Parts, Place
  <2>3. IsDriver(vref)
    BY <2>2, BitsTransfers, TransfersKeep
  <2> HIDE DEF vref
  <2>4. f - 3 \in Int
    OBVIOUS
  <2>5. IsDriver(vflip)
    BY <2>2, <2>3, <2>4, BitsTransfers, TransfersKeep
  <2> HIDE DEF vflip
  <2>6. ok \in BOOLEAN
    OBVIOUS
  <2> HIDE DEF ok
  <2> QED BY <2>1, <2>5, <2>6, OkKeeps
<1> QED BY <1>1, <1>2

LEMMA FramesizeTransfers ==
  ASSUME NEW s
  PROVE  Transfers(FramesizeOps(s))
<1> DEFINE ops == FramesizeOps(s)
<1>1. /\ Len(ops) = 12
      /\ ops[1] = Bank("dsp") /\ ops[2] = Write([bypass |-> 1])
      /\ ops[3] = Bank("sensor") /\ ops[4] = Write([res |-> SizeOf(s), colorbar |-> 0])
      /\ ops[5] = Bank("dsp") /\ ops[6] = Write([held |-> 1])
      /\ ops[7] = Write([window |-> SizeOf(s)]) /\ ops[8] = Write([dcw |-> 1])
      /\ ops[9] = Bank("dsp") /\ ops[10] = Write([outsize |-> s])
      /\ ops[11] = Write([held |-> 0]) /\ ops[12] = Write([bypass |-> 0])
  BY DEF FramesizeOps, ToSize
<1> HIDE DEF ops
<1>2. /\ Harmless(ops[1]) /\ Harmless(ops[2]) /\ Harmless(ops[3]) /\ Harmless(ops[4]) /\ Harmless(ops[5])
      /\ Harmless(ops[6]) /\ Harmless(ops[7]) /\ Harmless(ops[8]) /\ Harmless(ops[9]) /\ Harmless(ops[10])
      /\ Harmless(ops[11]) /\ Harmless(ops[12])
  BY <1>1, HarmlessIs
<1>3. \A i \in 1..12 : Harmless(ops[i])
  BY <1>2
<1> QED BY <1>1, <1>3 DEF Transfers, ops

LEMMA PixformatTransfers ==
  ASSUME NEW format
  PROVE  Transfers(PixformatOps(format))
<1> DEFINE ops == PixformatOps(format)
<1>1. /\ Len(ops) = 4 /\ ops[1] = Bank("dsp") /\ ops[2] = Write([held |-> 1])
      /\ ops[3] = Write([mode |-> Mode(format)]) /\ ops[4] = Write([held |-> 0])
  BY DEF PixformatOps, ToFormat
<1> HIDE DEF ops
<1>2. Harmless(ops[1]) /\ Harmless(ops[2]) /\ Harmless(ops[3]) /\ Harmless(ops[4])
  BY <1>1, HarmlessIs
<1>3. \A i \in 1..4 : Harmless(ops[i])
  BY <1>2
<1> QED BY <1>1, <1>3 DEF Transfers, ops

LEMMA SetFramesizeKeeps ==
  ASSUME NEW d, IsDriver(d), NEW s, NEW format, NEW f \in Int, NEW e, e = SetFramesize(d, s, format, f)
  PROVE  IsDriver(e)
<1> DEFINE sized == Run(d, FramesizeOps(s), f)
           n == Len(FramesizeOps(s))
           run == Run(sized, PixformatOps(format), f - n)
<1>1. e = IF ~ sized.ok THEN sized ELSE Started(run)
  BY DEF SetFramesize, Started
<1>2. f - n \in Int
  BY FramesizeTransfers DEF Transfers
<1>3. IsDriver(sized)
  BY FramesizeTransfers, TransfersKeep
<1> HIDE DEF n, sized
<1>4. IsDriver(run)
  BY <1>2, <1>3, PixformatTransfers, TransfersKeep
<1> HIDE DEF run
<1>5. IsDriver(Started(run))
  BY <1>4, StartedIs DEF Goes
<1> QED BY <1>1, <1>3, <1>5

LEMMA ResetKeeps ==
  ASSUME NEW d, IsDriver(d), NEW f \in Int, NEW e, e = Run(d, ResetOps, f)
  PROVE  IsDriver(e)
<1> DEFINE ops == ResetOps
<1>1. Len(ops) = 15 /\ ops[1] = Bank("sensor") /\ ops[2] = SwReset /\ \A i \in 3..15 : Harmless(ops[i])
  BY ResetOpsAre
<1> HIDE DEF ops
<1>2. IsTransfer(ops[1]) /\ IsTransfer(ops[2])
  BY <1>1, TransferIs, HarmlessIs DEF Harmless
<1>3. ASSUME NEW i \in 1..15 PROVE IsTransfer(ops[i])
  <2>1. i = 1 \/ i = 2 \/ i \in 3..15
    OBVIOUS
  <2> QED BY <1>1, <1>2, <2>1 DEF Harmless
<1>4. Len(ops) \in Nat /\ \A i \in 1..Len(ops) : IsTransfer(ops[i])
  BY <1>1, <1>3
<1>5. IsDriver(Run(d, ops, f))
  BY <1>4, RunKeeps
<1> QED BY <1>5 DEF ops

\* The states init_status goes through.
Readings(r, d, f) ==
  /\ r[0] = [d |-> d, status |-> [p \in Settings |-> 0]]
  /\ \A i \in 1..Len(StatusOrder) : r[i] = ReadOne(r[i - 1], i, f)

LEMMA ReadingsAre ==
  ASSUME NEW d, NEW f
  PROVE  \E r : Readings(r, d, f) /\ ReadStatus(d, f) = r[Len(StatusOrder)]
<1> DEFINE n == Len(StatusOrder)
           start == [d |-> d, status |-> [p \in Settings |-> 0]]
           P == {m \in Nat : \E g : g = [i \in 0..m |-> IF i = 0 THEN start ELSE ReadOne(g[i - 1], i, f)]}
           reading[i \in 0..n] == IF i = 0 THEN start ELSE ReadOne(reading[i - 1], i, f)
<1>0. n \in Nat
  BY DEF StatusOrder
<1>1. ReadStatus(d, f) = reading[n]
  BY DEF ReadStatus
<1> HIDE DEF start, n
<1>2. 0 \in P
  <2> DEFINE g == [i \in 0..0 |-> start]
  <2>1. g = [i \in 0..0 |-> IF i = 0 THEN start ELSE ReadOne(g[i - 1], i, f)]
    OBVIOUS
  <2> QED BY <2>1
<1>3. ASSUME NEW m \in Nat, m \in P PROVE m + 1 \in P
  <2>1. PICK g : g = [i \in 0..m |-> IF i = 0 THEN start ELSE ReadOne(g[i - 1], i, f)]
    BY <1>3
  <2> DEFINE h == [i \in 0..m + 1 |-> IF i = 0 THEN start ELSE ReadOne(g[i - 1], i, f)]
  <2>2. ASSUME NEW i \in 0..m + 1, i # 0 PROVE h[i - 1] = g[i - 1]
    <3>1. i - 1 \in 0..m /\ i - 1 \in 0..m + 1
      BY <2>2
    <3>2. g[i - 1] = IF i - 1 = 0 THEN start ELSE ReadOne(g[i - 1 - 1], i - 1, f)
      BY <2>1, <3>1
    <3> QED BY <3>1, <3>2
  <2>3. h = [i \in 0..m + 1 |-> IF i = 0 THEN start ELSE ReadOne(h[i - 1], i, f)]
    <3> HIDE DEF h
    <3>1. h = [i \in 0..m + 1 |-> IF i = 0 THEN start ELSE ReadOne(g[i - 1], i, f)]
      BY DEF h
    <3> QED BY <2>2, <3>1
  <2> HIDE DEF h
  <2>4. \E k : k = [i \in 0..m + 1 |-> IF i = 0 THEN start ELSE ReadOne(k[i - 1], i, f)]
    BY <2>3, Zenon
  <2>5. m + 1 \in Nat
    OBVIOUS
  <2> QED BY <2>4, <2>5, Zenon
<1>4. n \in P
  <2> HIDE DEF P
  <2> QED BY <1>0, <1>2, <1>3, AllNumbers
<1>5. reading = [i \in 0..n |-> IF i = 0 THEN start ELSE ReadOne(reading[i - 1], i, f)]
  BY <1>4, Zenon
<1> HIDE DEF reading
<1>6. reading[0] = start
  BY <1>0, <1>5
<1>7. ASSUME NEW i \in 1..n PROVE reading[i] = ReadOne(reading[i - 1], i, f)
  <2>1. i \in 0..n /\ i # 0
    BY <1>0
  <2>2. reading[i] = IF i = 0 THEN start ELSE ReadOne(reading[i - 1], i, f)
    BY <1>5, <2>1
  <2> QED BY <2>1, <2>2
<1>8. Readings(reading, d, f)
  BY <1>6, <1>7 DEF Readings, start, n
<1> QED BY <1>1, <1>8 DEF n

\* What is read is kept for each setting.
IsStatus(s) == s = [p \in Settings |-> s[p]]
DriverOf(a) == a.d
StatusOf(a) == a.status

LEMMA StatusPart ==
  /\ Len(StatusOrder) = 16
  /\ \A i \in 1..16 : StatusOrder[i] \in Settings /\ StatusOrder[i] \in Parts
<1>1. Len(StatusOrder) = 16
  BY DEF StatusOrder
<1>2. \A i \in 1..16 : StatusOrder[i] \in Settings
  <2> DEFINE sixteen == {"agc_gain", "quality", "gainceiling", "awb", "awb_gain", "aec", "aec2", "agc", "bpc",
                     "wpc", "raw_gma", "lenc", "hmirror", "vflip", "dcw", "colorbar"}
  <2>1. \A i \in 1..16 : StatusOrder[i] \in sixteen
    BY DEF StatusOrder
  <2>2. sixteen \subseteq Settings
    BY DEF Settings, Parts, Place
  <2> HIDE DEF sixteen
  <2> QED BY <2>1, <2>2
<1> QED BY <1>1, <1>2 DEF Settings

\* One reading: of the bank it selects, and of the part it reads into the status.
LEMMA ReadKeeps ==
  ASSUME NEW a, IsDriver(DriverOf(a)), IsStatus(StatusOf(a)), NEW i \in 1..16, NEW f \in Int,
         NEW e, e = ReadOne(a, i, f)
  PROVE  /\ IsDriver(DriverOf(e)) /\ IsStatus(StatusOf(e))
         /\ \A q \in Settings \ {StatusOrder[i]} : StatusOf(e)[q] = StatusOf(a)[q]
<1> DEFINE p == StatusOrder[i]
           ack == 2 * i - 1 # f
           h == Started(a.d)
           s == SetBank(h, Place[p].bank, ack)
           x == IF ~ s.ok THEN 0
                ELSE IF 2 * i = f THEN Place[p].ones
                ELSE IF s.chip.bank = Place[p].bank THEN s.chip.regs[p] ELSE Unknown
           status == [a.status EXCEPT ![p] = x]
<1>1. e = [d |-> s, status |-> status]
  BY DEF ReadOne, Started
<1>2. p \in Settings /\ Place[p].bank \in Banks
  BY StatusPart, PlaceBank
<1>3. ack \in BOOLEAN
  OBVIOUS
<1> HIDE DEF p, ack
<1>4. IsDriver(h)
  BY StartedIs DEF Goes, DriverOf
<1> HIDE DEF h
<1>5. IsDriver(s)
  BY <1>2, <1>3, <1>4, BankSent
<1> HIDE DEF s, x
<1>6. IsStatus(status) /\ \A q \in Settings \ {p} : status[q] = a.status[q]
  <2>1. a.status = [q \in Settings |-> a.status[q]]
    BY DEF IsStatus, StatusOf
  <2> QED BY <1>2, <2>1 DEF IsStatus
<1> HIDE DEF status
<1>7. DriverOf(e) = s /\ StatusOf(e) = status
  BY <1>1 DEF DriverOf, StatusOf
<1> QED BY <1>5, <1>6, <1>7 DEF StatusOf, p

LEMMA ReadRight ==
  ASSUME NEW a, IsDriver(DriverOf(a)), CacheOf(DriverOf(a)) = BankOf(DriverOf(a)), IsStatus(StatusOf(a)),
         NEW i \in 1..16, NEW f \in Int, f < 1, NEW e, e = ReadOne(a, i, f)
  PROVE  /\ CacheOf(DriverOf(e)) = BankOf(DriverOf(e)) /\ RegsOf(DriverOf(e)) = RegsOf(DriverOf(a))
         /\ StatusOf(e)[StatusOrder[i]] = RegsOf(DriverOf(a))[StatusOrder[i]]
<1> DEFINE p == StatusOrder[i]
           h == Started(a.d)
           b == Place[p].bank
           s == Selected(h, b)
           x == IF ~ s.ok THEN 0
                ELSE IF 2 * i = f THEN Place[p].ones
                ELSE IF s.chip.bank = b THEN s.chip.regs[p] ELSE Unknown
           status == [a.status EXCEPT ![p] = x]
<1>0. (2 * i - 1 # f) = TRUE
  OBVIOUS
<1>1. e = [d |-> s, status |-> status]
  BY <1>0 DEF ReadOne, Started, Selected
<1>2. p \in Settings /\ p \in Parts /\ b \in Banks
  BY StatusPart, PlaceBank
<1> HIDE DEF p, b
<1>3. Agrees(h) /\ ChipOf(h) = ChipOf(a.d) /\ Goes(h)
  BY StartedIs DEF DriverOf
<1>4. RegsOf(h) = RegsOf(a.d) /\ (CacheOf(h) = b => BankOf(h) = b)
  BY <1>3 DEF RegsOf, ChipOf, Agrees
<1> HIDE DEF h
<1>5. Agrees(s) /\ CacheOf(s) = b /\ RegsOf(s) = RegsOf(h)
  BY <1>2, <1>3, <1>4, BankSelected
<1> HIDE DEF s
<1>6. s.ok /\ s.chip.bank = b /\ s.chip.regs = RegsOf(a.d) /\ CacheOf(s) = BankOf(s)
  BY <1>4, <1>5 DEF Agrees, Goes, BankOf, CacheOf, RegsOf
<1>7. x = RegsOf(a.d)[p]
  <2>1. 2 * i # f
    OBVIOUS
  <2> QED BY <1>6, <2>1
<1> HIDE DEF x
<1>8. status[p] = x
  <2>1. a.status = [q \in Settings |-> a.status[q]]
    BY DEF IsStatus, StatusOf
  <2> QED BY <1>2, <2>1
<1> HIDE DEF status
<1>9. DriverOf(e) = s /\ StatusOf(e) = status
  BY <1>1 DEF DriverOf, StatusOf
<1> QED BY <1>4, <1>5, <1>6, <1>7, <1>8, <1>9 DEF DriverOf, p

LEMMA StartStatus == IsStatus([p \in Settings |-> 0])
BY DEF IsStatus

LEMMA StatusKeeps ==
  ASSUME NEW d, IsDriver(d), NEW f \in Int, NEW e, e = ReadStatus(d, f)
  PROVE  IsDriver(DriverOf(e)) /\ IsStatus(StatusOf(e))
<1>1. PICK r : Readings(r, d, f) /\ ReadStatus(d, f) = r[Len(StatusOrder)]
  BY ReadingsAre
<1> DEFINE P == {m \in Nat : m <= 16 => IsDriver(DriverOf(r[m])) /\ IsStatus(StatusOf(r[m]))}
<1>2. 0 \in P
  <2>1. DriverOf(r[0]) = d /\ StatusOf(r[0]) = [p \in Settings |-> 0]
    BY <1>1 DEF Readings, DriverOf, StatusOf
  <2> QED BY <2>1, StartStatus
<1>3. ASSUME NEW m \in Nat, m \in P PROVE m + 1 \in P
  <2> SUFFICES ASSUME m + 1 <= 16 PROVE IsDriver(DriverOf(r[m + 1])) /\ IsStatus(StatusOf(r[m + 1]))
    OBVIOUS
  <2> DEFINE i == m + 1
  <2>1. i \in 1..16 /\ i - 1 = m /\ IsDriver(DriverOf(r[m])) /\ IsStatus(StatusOf(r[m]))
    BY <1>3
  <2> HIDE DEF i
  <2>2. r[i] = ReadOne(r[m], i, f)
    BY <1>1, <2>1, StatusPart DEF Readings
  <2>3. IsDriver(DriverOf(r[i])) /\ IsStatus(StatusOf(r[i]))
    BY <2>1, <2>2, ReadKeeps
  <2> QED BY <2>3 DEF i
<1>4. 16 \in P
  <2> HIDE DEF P
  <2> QED BY <1>2, <1>3, AllNumbers
<1> QED BY <1>1, <1>4, StatusPart

LEMMA StatusRun ==
  ASSUME NEW d, IsDriver(d), CacheOf(d) = BankOf(d), NEW f \in Int, f < 1, NEW e, e = ReadStatus(d, f)
  PROVE  /\ CacheOf(DriverOf(e)) = BankOf(DriverOf(e)) /\ RegsOf(DriverOf(e)) = RegsOf(d)
         /\ \A j \in 1..16 : StatusOf(e)[StatusOrder[j]] = RegsOf(d)[StatusOrder[j]]
<1> DEFINE Right(a, m) ==
             /\ IsDriver(DriverOf(a)) /\ CacheOf(DriverOf(a)) = BankOf(DriverOf(a))
             /\ RegsOf(DriverOf(a)) = RegsOf(d) /\ IsStatus(StatusOf(a))
             /\ \A j \in 1..m : StatusOf(a)[StatusOrder[j]] = RegsOf(d)[StatusOrder[j]]
<1>1. PICK r : Readings(r, d, f) /\ ReadStatus(d, f) = r[Len(StatusOrder)]
  BY ReadingsAre
<1> DEFINE P == {m \in Nat : m <= 16 => Right(r[m], m)}
<1>2. 0 \in P
  <2>1. DriverOf(r[0]) = d /\ StatusOf(r[0]) = [p \in Settings |-> 0]
    BY <1>1 DEF Readings, DriverOf, StatusOf
  <2> QED BY <2>1, StartStatus
<1>3. ASSUME NEW m \in Nat, m \in P PROVE m + 1 \in P
  <2> SUFFICES ASSUME m + 1 <= 16 PROVE Right(r[m + 1], m + 1)
    OBVIOUS
  <2> DEFINE i == m + 1
             a == r[m]
             b == r[i]
  <2>1. i \in 1..16 /\ i - 1 = m /\ Right(a, m)
    BY <1>3
  <2>2. b = ReadOne(a, i, f)
    <3>1. i \in 1..Len(StatusOrder) /\ i - 1 = m
      BY <2>1, StatusPart
    <3> HIDE DEF i
    <3> QED BY <1>1, <3>1 DEF Readings
  <2>0. \A j \in 1..i : j \in 1..m \/ j = i
    OBVIOUS
  <2> HIDE DEF i, a, b
  <2>3. IsDriver(DriverOf(a)) /\ CacheOf(DriverOf(a)) = BankOf(DriverOf(a)) /\ IsStatus(StatusOf(a))
    BY <2>1
  <2>8. i \in 1..16
    BY <2>1
  <2>4. /\ IsDriver(DriverOf(b)) /\ IsStatus(StatusOf(b))
        /\ \A q \in Settings \ {StatusOrder[i]} : StatusOf(b)[q] = StatusOf(a)[q]
    BY <2>8, <2>2, <2>3, ReadKeeps
  <2>5. /\ CacheOf(DriverOf(b)) = BankOf(DriverOf(b)) /\ RegsOf(DriverOf(b)) = RegsOf(DriverOf(a))
        /\ StatusOf(b)[StatusOrder[i]] = RegsOf(DriverOf(a))[StatusOrder[i]]
    BY <2>8, <2>2, <2>3, ReadRight
  <2>6. ASSUME NEW j \in 1..i PROVE StatusOf(b)[StatusOrder[j]] = RegsOf(d)[StatusOrder[j]]
    <3>1. CASE StatusOrder[j] = StatusOrder[i]
      BY <2>1, <2>5, <3>1
    <3>2. CASE StatusOrder[j] # StatusOrder[i]
      <4>1. j \in 1..m /\ j \in 1..16
        BY <2>0, <2>1, <3>2
      <4>2. StatusOrder[j] \in Settings \ {StatusOrder[i]}
        BY <3>2, <4>1, StatusPart
      <4> QED BY <2>1, <2>4, <4>1, <4>2
    <3> QED BY <3>1, <3>2
  <2>7. Right(b, i)
    BY <2>1, <2>4, <2>5, <2>6
  <2> QED BY <2>7 DEF b, i
<1>4. 16 \in P
  <2> HIDE DEF P
  <2> QED BY <1>2, <1>3, AllNumbers
<1> QED BY <1>1, <1>4, StatusPart

-----------------------------------------------------------------------------
(* s_state.                                                                *)

\* The fields of s_state.
Fields == {"has", "dmaCount", "dmaSize", "fbSize", "formed", "model",
           "pixformat", "framesize", "status"}
IsState(s) == s = [x \in Fields |-> s[x]]

-----------------------------------------------------------------------------
(* The geometry of a picture.                                              *)

Widths == {160, 128, 176, 240, 320, 400, 640, 800, 1024, 1280, 1600}

\* The defining property of Halved (the loop of dma_desc_init).
LEMMA HalvedHas ==
  ASSUME NEW line \in Nat,
         \E n \in {1, 2, 4, 8, 16} :
           line \div n < 4096 /\ (n = 1 \/ line \div (n \div 2) >= 4096)
  PROVE  LET n == Halved(line, 4096)
         IN  /\ n \in {1, 2, 4, 8, 16}
             /\ line \div n < 4096
             /\ n = 1 \/ line \div (n \div 2) >= 4096
<1> DEFINE S == {1, 2, 4, 8, 16}
           P(n) == line \div n < 4096 /\ (n = 1 \/ line \div (n \div 2) >= 4096)
<1>1. Halved(line, 4096) = CHOOSE n \in S : P(n)
  BY DEF Halved
<1>2. \E n \in S : P(n)
  OBVIOUS
<1> HIDE DEF P, S
<1>3. \A n : n = (CHOOSE m \in S : P(m)) => n \in S /\ P(n)
  BY <1>2
<1>4. Halved(line, 4096) \in S /\ P(Halved(line, 4096))
  BY <1>1, <1>3
<1> QED BY <1>4 DEF P, S

\* A line is halved at most twice, and without remainder: its parts are of
\* whole groups of 32 bytes, the most that a filter takes at a time.
LEMMA LineHalved ==
  ASSUME NEW w \in Widths, NEW k \in {4, 8}
  PROVE  LET n == Halved(w * k, 4096)
         IN  /\ n \in {1, 2, 4} /\ (w * k) \div n < 4096
             /\ ((w * k) \div n) % 32 = 0 /\ n * ((w * k) \div n) = w * k
<1> DEFINE n == Halved(w * k, 4096)
           Fits(m) == (w * k) \div m < 4096 /\ (m = 1 \/ (w * k) \div (m \div 2) >= 4096)
<1>1. w * k \in Nat /\ w * k < 16384
  BY DEF Widths
<1>2. \E m \in {1, 2, 4, 8, 16} : Fits(m)
  <2>1. CASE w * k < 4096
    <3>1. Fits(1)
      BY <1>1, <2>1
    <3> QED BY <3>1
  <2>2. CASE w * k >= 4096 /\ w * k < 8192
    <3>1. Fits(2)
      BY <1>1, <2>2
    <3> QED BY <3>1
  <2>3. CASE w * k >= 8192
    <3>1. Fits(4)
      BY <1>1, <2>3
    <3> QED BY <3>1
  <2> QED BY <1>1, <2>1, <2>2, <2>3
<1>3. n \in {1, 2, 4, 8, 16} /\ Fits(n)
  BY <1>1, <1>2, HalvedHas
<1> HIDE DEF n
<1>4. n \in {1, 2, 4} /\ ((w * k) \div n) % 32 = 0 /\ n * ((w * k) \div n) = w * k
  BY <1>3 DEF Widths
<1> QED BY <1>3, <1>4 DEF n

\* The size of a picture, as far as the proof needs it.
LEMMA SizeIs ==
  ASSUME NEW c \in Configs
  PROVE  /\ Width[c.framesize + 1] \in Widths /\ Height[c.framesize + 1] \in Nat
         /\ Width[c.framesize + 1] * Height[c.framesize + 1] >= 15360
<1>1. c.framesize \in 0 .. 10
  BY SetupAssumption
<1>2. Width[c.framesize + 1] \in Widths
  BY <1>1 DEF Width, Widths
<1>3. /\ Height[c.framesize + 1] \in Nat
      /\ Width[c.framesize + 1] * Height[c.framesize + 1] >= 15360
  BY <1>1 DEF Width, Height
<1> QED BY <1>2, <1>3

LEMMA Products ==
  ASSUME NEW n \in {1, 2, 4}, NEW q \in Nat, NEW w \in Nat
  PROVE  /\ n * (32 * q) = (w * 2) * 4 => n * (8 * q) = w * 2 /\ n * (4 * q) = w * 1
         /\ n * (32 * q) = (w * 2) * 2 => n * (16 * q) = w * 2 /\ n * (8 * q) = w * 1
  OBVIOUS

\* What the filters make of one of n equal parts of a line of w pixels.
LEMMA FilteredPart ==
  ASSUME NEW c, NEW w \in Widths, NEW n \in {1, 2, 4}, NEW len \in Nat,
         Supported(c), len < 4096, len % 32 = 0, n * len = w * 2 * BytesPerSample(c)
  PROVE  n * Filtered(c, len) = w * FbBytesPerPixel(c) /\ Filtered(c, len) \in Nat
         /\ (Jpeg(c) => Filtered(c, len) < 1024)
<1>1. PICK q \in Nat : len = 32 * q
  OBVIOUS
<1>2. /\ len \div 4 = 8 * q /\ len % 8 = 0 /\ (8 * q) \div 4 = 2 * q /\ (8 * q) \div 8 = q
  BY <1>1
<1>3. w \in Nat
  BY DEF Widths
<1>4. CASE Jpeg(c) /\ ~ Gray(c)
  <2>1. Filtered(c, len) = ((len \div 4) \div 4) * 4
    BY <1>4 DEF Filtered
  <2>2. FbBytesPerPixel(c) = 2 /\ BytesPerSample(c) = 4
    BY <1>4 DEF FbBytesPerPixel, BytesPerSample
  <2>3. Filtered(c, len) = 8 * q
    BY <1>2, <2>1
  <2> QED BY <1>4, <1>1, <1>3, <2>2, <2>3, Products
<1>5. CASE ~ Jpeg(c) /\ Gray(c) /\ ~ c.highspeed
  <2>1. Filtered(c, len) = ((len \div 4) \div 4) * 4
    BY <1>5 DEF Filtered
  <2>2. FbBytesPerPixel(c) = 1 /\ BytesPerSample(c) = 2
    BY <1>5 DEF FbBytesPerPixel, BytesPerSample
  <2>3. Filtered(c, len) = 8 * q
    BY <1>2, <2>1
  <2> QED BY <1>5, <1>1, <1>3, <2>2, <2>3, Products
<1>6. CASE ~ Jpeg(c) /\ Gray(c) /\ c.highspeed
  <2>1. Filtered(c, len) = ((len \div 4) \div 8) * 4 + (IF len % 8 # 0 THEN 2 ELSE 0)
    BY <1>6 DEF Filtered
  <2>2. FbBytesPerPixel(c) = 1 /\ BytesPerSample(c) = 4
    BY <1>6 DEF FbBytesPerPixel, BytesPerSample
  <2>3. Filtered(c, len) = 4 * q
    BY <1>2, <2>1
  <2> QED BY <1>6, <1>1, <1>3, <2>2, <2>3, Products
<1>7. CASE ~ Jpeg(c) /\ ~ Gray(c) /\ ~ c.highspeed
  <2>1. Filtered(c, len) = ((len \div 4) \div 4) * 8
    BY <1>7 DEF Filtered
  <2>2. FbBytesPerPixel(c) = 2 /\ BytesPerSample(c) = 2
    BY <1>7 DEF FbBytesPerPixel, BytesPerSample
  <2>3. Filtered(c, len) = 16 * q
    BY <1>2, <2>1
  <2> QED BY <1>7, <1>1, <1>3, <2>2, <2>3, Products
<1>8. CASE ~ Jpeg(c) /\ ~ Gray(c) /\ c.highspeed
  <2>1. Filtered(c, len) = ((len \div 4) \div 8) * 8 + (IF len % 8 # 0 THEN 4 ELSE 0)
    BY <1>8 DEF Filtered
  <2>2. FbBytesPerPixel(c) = 2 /\ BytesPerSample(c) = 4
    BY <1>8 DEF FbBytesPerPixel, BytesPerSample
  <2>3. Filtered(c, len) = 8 * q
    BY <1>2, <2>1
  <2> QED BY <1>8, <1>1, <1>3, <2>2, <2>3, Products
<1>9. ~ (Jpeg(c) /\ Gray(c))
  BY DEF Jpeg, Gray
<1> QED BY <1>4, <1>5, <1>6, <1>7, <1>8, <1>9

\* A line takes one, two or four DMA buffers.
LEMMA PerLine == ASSUME NEW c \in Configs PROVE DmaPerLine(c) \in {1, 2, 4}
<1>1. Width[c.framesize + 1] \in Widths
  BY SizeIs
<1>2. PICK k \in {4, 8} : LineSize(c) = Width[c.framesize + 1] * k
  <2>1. Width[c.framesize + 1] \in Nat
    BY <1>1 DEF Widths
  <2> QED BY <2>1 DEF LineSize, BytesPerSample
<1> QED BY <1>1, <1>2, LineHalved DEF DmaPerLine

-----------------------------------------------------------------------------
(* The invariant.                                                          *)

\* What s_state can point to.
Queues == {"dataReady", "fbIn", "fbOut", "frameReady"}
Pointers == {"i2sIntr", "dmaArray", "dmaDesc", "fb", "task"} \cup Queues

\* The places of a call, by what it has done: those after the interrupt handler
\* was added, after the task was created, and so on back to the probe.
AfterIsr == {"frame size", "pixformat", "tune", "status", "idle", "crash"}
AfterTask == AfterIsr \cup {"vsync"}
AfterExchange == AfterTask \cup {"task"}
AfterDataReady == AfterExchange \cup {"exchange"}
AfterFb == AfterDataReady \cup {"data ready"}
AfterDma == AfterFb \cup {"frame buffers"}
AfterDescs == AfterDma \cup {"dma buffers"}
AfterArray == AfterDescs \cup {"dma descriptors"}
AfterI2s == AfterArray \cup {"dma array"}
AfterFormat == AfterI2s \cup {"i2s"}
AfterXclk == AfterFormat \cup {"search", "software reset", "format"}
AfterAlloc == AfterXclk \cup {"reset"}

\* The data of s_state agrees with the configuration.
Geometry ==
  /\ Supported(config) /\ state.fbSize = FbSize(config)
  /\ state.dmaCount = 4 * DmaPerLine(config)
  /\ state.dmaSize = LineSize(config) \div DmaPerLine(config)

\* There is no s_state: nothing is held.
Nothing ==
  /\ state = NULL /\ call \in {"idle", "probe", "undo"}
  /\ call # "idle" => config \in Configs
  /\ live = {} /\ dmaBufs = 0 /\ fbs = 0 /\ ~ running

\* There is one, and a configuration it is for.
Held == state # NULL /\ IsState(state) /\ config \in Configs /\ state.has \subseteq Pointers

\* The probe failed: only s_state and the clock are to be given back.
Undoing ==
  /\ Held /\ call = "undo"
  /\ live \subseteq {"state", "xclk"} /\ ~ state.formed
  /\ dmaBufs = 0 /\ fbs = 0 /\ ~ running

\* init is on its way, or has ended well: s_state points to what the steps so
\* far acquire, and that is what is held.
Acquired ==
  /\ "i2sIntr" \in state.has <=> call \in AfterI2s
  /\ "dmaArray" \in state.has <=> call \in AfterArray
  /\ "dmaDesc" \in state.has <=> call \in AfterDescs
  /\ "fb" \in state.has <=> call \in AfterFb
  /\ "dataReady" \in state.has <=> call \in AfterDataReady
  /\ \A r \in {"frameReady", "fbIn", "fbOut"} :
       r \in state.has <=> call \in AfterExchange /\ r \in Exchange
  /\ "task" \in state.has <=> call \in AfterTask

Building ==
  /\ Held /\ call \in AfterAlloc /\ Acquired
  /\ live \subseteq {"state", "xclk", "i2s", "vsyncIsr"} \cup (state.has \ {"fb"})
  /\ state.has \ {"fb"} \subseteq live
  /\ "state" \in live
  /\ "xclk" \in live <=> call \in AfterXclk
  /\ "i2s" \in live <=> call \in AfterI2s
  /\ "vsyncIsr" \in live <=> call \in AfterIsr
  /\ state.formed <=> call \in AfterDma
  /\ call \in AfterFormat => Supported(config) /\ state.fbSize = FbSize(config)
  /\ call \in AfterI2s => Geometry
  /\ dmaBufs = IF call \in AfterDma THEN state.dmaCount ELSE 0
  /\ fbs = IF call \in AfterFb THEN config.fb_count ELSE 0
  /\ call \in AfterFb => config.fb_count > 0
  /\ running => call = "idle"

\* deinit is on its way: what s_state points to and is not freed yet is held,
\* and nothing else is but the clock, the bus and the handler, which deinit
\* gives back unconditionally.
FreeIsr == {"free dma", "free rest"}
FreeQueues == FreeIsr \cup {"remove isr"}
FreeTask == FreeQueues \cup {"delete queues"}
Freed ==
  (IF call \in FreeTask THEN {"task"} ELSE {})
  \cup (IF call \in FreeQueues THEN Queues ELSE {})
  \cup (IF call \in FreeIsr THEN {"i2sIntr"} ELSE {})
  \cup (IF call = "free rest" THEN {"dmaArray", "dmaDesc"} ELSE {})

Freeing ==
  /\ Held /\ call \in FreeTask \cup {"delete task"}
  /\ live \subseteq {"state", "xclk", "i2s", "vsyncIsr"} \cup (state.has \ (Freed \cup {"fb"}))
  /\ state.has \ (Freed \cup {"fb"}) \subseteq live
  /\ {"state", "xclk"} \subseteq live
  /\ call \in FreeIsr => "vsyncIsr" \notin live
  /\ state.formed <=> "dmaArray" \in state.has
  /\ state.formed => Geometry
  /\ dmaBufs = IF state.formed /\ call # "free rest" THEN state.dmaCount ELSE 0
  /\ fbs = IF "fb" \in state.has THEN config.fb_count ELSE 0
  /\ "task" \in state.has =>
       {"dmaArray", "dmaDesc", "fb", "dataReady"} \cup Exchange \subseteq state.has
  /\ ~ running

SetupInv == Nothing \/ Undoing \/ Building \/ Freeing

\* The places of a call are looked up by every step.
USE DEF AfterAlloc, AfterXclk, AfterFormat, AfterI2s, AfterArray, AfterDescs, AfterDma, AfterFb,
        AfterDataReady, AfterExchange, AfterTask, AfterIsr, FreeTask, FreeQueues, FreeIsr

-----------------------------------------------------------------------------
(* The record behind s_state.                                              *)

LEMMA StateUpdate ==
  ASSUME NEW s, IsState(s), NEW f \in Fields, NEW e
  PROVE  /\ IsState([s EXCEPT ![f] = e])
         /\ [s EXCEPT ![f] = e][f] = e
         /\ \A g \in Fields \ {f} : [s EXCEPT ![f] = e][g] = s[g]
<1>1. s = [x \in Fields |-> s[x]]
  BY DEF IsState
<1>2. DOMAIN s = Fields
  BY <1>1
<1>3. [s EXCEPT ![f] = e] = [x \in Fields |-> IF x = f THEN e ELSE s[x]]
  BY <1>2
<1> QED BY <1>3 DEF IsState

\* Only the fields F of s_state have changed.
Only(F) == IsState(state') /\ \A g \in Fields \ F : state'[g] = state[g]

LEMMA HasUpdate ==
  ASSUME NEW e, IsState(state), state' = [state EXCEPT !.has = e]
  PROVE  Only({"has"}) /\ state'.has = e
BY StateUpdate, "has" \in Fields DEF Fields, Only

LEMMA ModelUpdate ==
  ASSUME NEW e, IsState(state), state' = [state EXCEPT !.model = e]
  PROVE  Only({"model"})
BY StateUpdate, "model" \in Fields DEF Fields, Only

LEMMA FormedUpdate ==
  ASSUME NEW e, IsState(state), state' = [state EXCEPT !.formed = e]
  PROVE  Only({"formed"}) /\ state'.formed = e
BY StateUpdate, "formed" \in Fields DEF Fields, Only

LEMMA StatusUpdate ==
  ASSUME NEW e, IsState(state), state' = [state EXCEPT !.status = e]
  PROVE  Only({"status"})
BY StateUpdate, "status" \in Fields DEF Fields, Only

LEMMA SettingUpdate ==
  ASSUME NEW p, NEW e, IsState(state), state' = [state EXCEPT !.status[p] = e]
  PROVE  Only({"status"})
<1>1. state' = [state EXCEPT !.status = [state.status EXCEPT ![p] = e]]
  OBVIOUS
<1> QED BY <1>1, StatusUpdate

LEMMA SizeUpdate ==
  ASSUME NEW e, IsState(state), state' = [state EXCEPT !.framesize = e]
  PROVE  Only({"framesize"})
BY StateUpdate, "framesize" \in Fields DEF Fields, Only

LEMMA PictureUpdate ==
  ASSUME NEW e, NEW d, IsState(state),
         state' = [state EXCEPT !.framesize = e, !.pixformat = d]
  PROVE  Only({"framesize", "pixformat"})
<1> DEFINE s == [state EXCEPT !.framesize = e]
<1>1. IsState(s) /\ \A g \in Fields \ {"framesize"} : s[g] = state[g]
  BY StateUpdate, "framesize" \in Fields DEF Fields
<1>2. state' = [s EXCEPT !.pixformat = d]
  OBVIOUS
<1> HIDE DEF s
<1>3. IsState(state') /\ \A g \in Fields \ {"pixformat"} : state'[g] = s[g]
  <2>1. /\ IsState([s EXCEPT !.pixformat = d])
        /\ \A g \in Fields \ {"pixformat"} : [s EXCEPT !.pixformat = d][g] = s[g]
    BY <1>1, StateUpdate, "pixformat" \in Fields DEF Fields
  <2> QED BY <1>2, <2>1
<1> QED BY <1>1, <1>3 DEF Only

LEMMA FormatUpdate ==
  ASSUME NEW e, NEW d, IsState(state),
         state' = [state EXCEPT !.fbSize = e, !.status.quality = d]
  PROVE  Only({"fbSize", "status"}) /\ state'.fbSize = e
<1> DEFINE s == [state EXCEPT !.fbSize = e]
<1>1. IsState(s) /\ s.fbSize = e /\ \A g \in Fields \ {"fbSize"} : s[g] = state[g]
  BY StateUpdate, "fbSize" \in Fields DEF Fields
<1>2. state' = [s EXCEPT !.status = [s.status EXCEPT !.quality = d]]
  OBVIOUS
<1> HIDE DEF s
<1>3. IsState(state') /\ \A g \in Fields \ {"status"} : state'[g] = s[g]
  <2>1. /\ IsState([s EXCEPT !.status = [s.status EXCEPT !.quality = d]])
        /\ \A g \in Fields \ {"status"} : [s EXCEPT !.status = [s.status EXCEPT !.quality = d]][g] = s[g]
    BY <1>1, StateUpdate, "status" \in Fields DEF Fields
  <2> QED BY <1>2, <2>1
<1>4. "fbSize" \in Fields \ {"status"}
  BY DEF Fields
<1> QED BY <1>1, <1>3, <1>4 DEF Only

LEMMA BufferUpdate ==
  ASSUME NEW e, NEW d, NEW z, IsState(state),
         state' = [state EXCEPT !.has = e, !.dmaCount = d, !.dmaSize = z]
  PROVE  /\ Only({"has", "dmaCount", "dmaSize"})
         /\ state'.has = e /\ state'.dmaCount = d /\ state'.dmaSize = z
<1> DEFINE s == [state EXCEPT !.has = e]
           t == [s EXCEPT !.dmaCount = d]
<1>1. IsState(s) /\ s.has = e /\ \A g \in Fields \ {"has"} : s[g] = state[g]
  BY StateUpdate, "has" \in Fields DEF Fields
<1>2. state' = [t EXCEPT !.dmaSize = z]
  OBVIOUS
<1> HIDE DEF s
<1>3. IsState(t) /\ t.dmaCount = d /\ \A g \in Fields \ {"dmaCount"} : t[g] = s[g]
  BY <1>1, StateUpdate, "dmaCount" \in Fields DEF Fields
<1> HIDE DEF t
<1>4. IsState(state') /\ state'.dmaSize = z /\ \A g \in Fields \ {"dmaSize"} : state'[g] = t[g]
  <2>1. /\ IsState([t EXCEPT !.dmaSize = z]) /\ [t EXCEPT !.dmaSize = z].dmaSize = z
        /\ \A g \in Fields \ {"dmaSize"} : [t EXCEPT !.dmaSize = z][g] = t[g]
    BY <1>3, StateUpdate, "dmaSize" \in Fields DEF Fields
  <2> QED BY <1>2, <2>1
<1>5. {"has", "dmaCount"} \subseteq Fields
  BY DEF Fields
<1> QED BY <1>1, <1>3, <1>4, <1>5 DEF Only

LEMMA NewIsState ==
  /\ IsState(NewState) /\ NewState.has = {} /\ NewState.formed = FALSE
BY DEF NewState, IsState, Fields

-----------------------------------------------------------------------------
(* The bounds of the proofs.                                               *)

\* What the code survives, as in the run: of the allocations, those of the DMA
\* descriptors, of their buffers and of the interrupt do not fail; the driver is
\* not deinitialised while the bus runs, nor initialised twice.  The README
\* tells what happens otherwise.
Bounds ==
  /\ DeinitRunning = FALSE /\ InitTwice = FALSE
  /\ {"dmaDesc", "dmaBuf", "i2sIntr"} \cap MayFail = {}

\* The NULL pointer points to nothing.
NullIsNoState == \A s : IsState(s) => s # NULL

-----------------------------------------------------------------------------
(* The steps of init.                                                      *)

\* Where a call is says which part of the invariant holds.
LEMMA BuildingAt ==
  ASSUME SetupInv, call \in AfterAlloc, call # "idle" \/ state # NULL
  PROVE  Building
BY DEF SetupInv, Nothing, Undoing, Freeing

LEMMA FreeingAt ==
  ASSUME SetupInv, call \in FreeTask \cup {"delete task"}
  PROVE  Freeing
BY DEF SetupInv, Nothing, Undoing, Building

\* Deinit may begin wherever init gives up, but not between the array of the
\* DMA descriptors and the last of their buffers.
LEMMA GivesUp ==
  ASSUME Building, call \in AfterFormat \cup {"format"}, call \notin {"dma descriptors", "dma buffers"},
         ~ running,
         call' = "delete task", UNCHANGED <<config, live, dmaBufs, fbs, running>>,
         state' # NULL, Only({"fbSize", "status"}),
         call \in AfterI2s => state' = state
  PROVE  Freeing'
<1> USE DEF Queues, Pointers
<1>1. /\ state'.has = state.has /\ state'.formed = state.formed
      /\ state'.dmaCount = state.dmaCount /\ state'.dmaSize = state.dmaSize
      /\ IsState(state')
  BY DEF Only, Fields
<1>2. Held'
  BY <1>1 DEF Building, Held
<1>3. Freed' = {}
  BY DEF Freed
<1>4. /\ live' \subseteq {"state", "xclk", "i2s", "vsyncIsr"} \cup (state'.has \ (Freed' \cup {"fb"}))
      /\ state'.has \ (Freed' \cup {"fb"}) \subseteq live'
  BY <1>1, <1>3 DEF Building
<1>5. (state'.formed <=> "dmaArray" \in state'.has) /\ (state'.formed => call \in AfterDma)
  BY <1>1 DEF Building, Acquired
<1>6. state'.formed => Geometry'
  BY <1>5 DEF Building, Geometry
<1>7. /\ dmaBufs' = IF state'.formed THEN state'.dmaCount ELSE 0
      /\ fbs' = IF "fb" \in state'.has THEN config'.fb_count ELSE 0
  BY <1>1 DEF Building, Acquired
<1>8. "task" \in state'.has =>
        {"dmaArray", "dmaDesc", "fb", "dataReady"} \cup Exchange' \subseteq state'.has
  <2> SUFFICES ASSUME "task" \in state.has
               PROVE  {"dmaArray", "dmaDesc", "fb", "dataReady"} \cup Exchange' \subseteq state'.has
    BY <1>1
  <2>1. call \in AfterTask /\ Exchange' = Exchange
    BY DEF Building, Acquired, Exchange
  <2>2. {"dmaArray", "dmaDesc", "fb", "dataReady"} \subseteq state.has
    BY <2>1 DEF Building, Acquired
  <2>3. Exchange \subseteq state.has
    BY <2>1 DEF Building, Acquired, Exchange
  <2> QED BY <1>1, <2>1, <2>2, <2>3
<1>9. {"state", "xclk"} \subseteq live'
  BY DEF Building
<1> QED BY <1>2, <1>4, <1>5, <1>6, <1>7, <1>8, <1>9 DEF Freeing

LEMMA AcquireIs ==
  ASSUME IsState(state), NEW r, NEW next, Acquire(r, next)
  PROVE  \/ r \in MayFail /\ call' = "delete task" /\ UNCHANGED <<state, live>>
         \/ /\ call' = next /\ Only({"has"})
            /\ state'.has = state.has \cup {r} /\ live' = live \cup {r}
<1>1. PICK ok \in Outcomes(r) :
        /\ call' = IF ok THEN next ELSE "delete task"
        /\ state' = IF ok THEN [state EXCEPT !.has = state.has \cup {r}] ELSE state
        /\ live' = IF ok THEN live \cup {r} ELSE live
  BY DEF Acquire, Then
<1>2. ok \in BOOLEAN /\ (~ ok => r \in MayFail)
  BY DEF Outcomes
<1>3. CASE ok
  BY <1>1, <1>3, HasUpdate
<1>4. CASE ~ ok
  BY <1>1, <1>2, <1>4
<1> QED BY <1>2, <1>3, <1>4

\* s_state is unchanged, but for what only the sensor's driver keeps in it.
Kept == Only({"model", "pixformat", "framesize", "status"})

LEMMA KeptIs == IsState(state) /\ state' = state => Kept
BY DEF Kept, Only

\* A step within init that acquires nothing.
LEMMA GoesOn ==
  ASSUME Building, Kept, state' # NULL, UNCHANGED <<config, live, dmaBufs, fbs>>,
         \/ call \in {"search", "software reset", "format"}
            /\ call' \in {"search", "software reset", "format"}
         \/ call \in AfterIsr /\ call' \in AfterIsr,
         running' => call' = "idle"
  PROVE  Building'
<1>1. /\ state'.has = state.has /\ state'.formed = state.formed /\ state'.fbSize = state.fbSize
      /\ state'.dmaCount = state.dmaCount /\ state'.dmaSize = state.dmaSize
      /\ IsState(state')
  BY DEF Kept, Only, Fields
<1>2. Held'
  BY <1>1 DEF Building, Held
<1>3. Acquired'
  BY <1>1 DEF Building, Acquired, Exchange
<1>4. call' \in AfterI2s => Geometry'
  BY <1>1 DEF Building, Geometry
<1> QED BY <1>1, <1>2, <1>3, <1>4 DEF Building

LEMMA ProbeStep ==
  ASSUME SetupInv, NullIsNoState, Probe
  PROVE  SetupInv'
<1>1. CASE ProbeAlloc
  <2>1. Nothing
    BY <1>1 DEF ProbeAlloc, SetupInv, Undoing, Building, Freeing
  <2>2. CASE state' = NewState /\ live' = live \cup {"state"} /\ call' = "reset"
    <3>1. IsState(state') /\ state'.has = {} /\ state'.formed = FALSE /\ state' # NULL
      BY <2>2, NewIsState DEF NullIsNoState
    <3>2. /\ live' = {"state"} /\ dmaBufs' = 0 /\ fbs' = 0 /\ ~ running' /\ config' \in Configs
      BY <1>1, <2>1, <2>2 DEF ProbeAlloc, Nothing
    <3>3. Acquired'
      BY <2>2, <3>1 DEF Acquired
    <3> QED
      BY <2>2, <3>1, <3>2, <3>3 DEF SetupInv, Building, Held
  <2>3. CASE call' = "undo" /\ UNCHANGED <<state, live>>
    BY <1>1, <2>1, <2>3 DEF ProbeAlloc, SetupInv, Nothing
  <2> QED BY <1>1, <2>2, <2>3 DEF ProbeAlloc
<1>2. CASE ProbeReset
  <2>1. Building /\ call = "reset"
    BY <1>2, BuildingAt DEF ProbeReset
  <2>2. /\ call' = "search" /\ live' = live \cup {"xclk"}
        /\ UNCHANGED <<config, state, dmaBufs, fbs, running>>
    BY <1>2 DEF ProbeReset
  <2>3. Held' /\ Acquired'
    BY <2>1, <2>2 DEF Building, Held, Acquired, Exchange
  <2> QED
    BY <2>1, <2>2, <2>3 DEF SetupInv, Building
<1>3. CASE ProbeSearch
  <2>1. Building /\ call = "search"
    BY <1>3, BuildingAt DEF ProbeSearch
  <2>2. UNCHANGED <<config, dmaBufs, fbs, running>>
    BY <1>3 DEF ProbeSearch
  <2>3. PICK pid :
          \/ /\ call' = "software reset" /\ state' = [state EXCEPT !.model = pid]
             /\ live' = live
          \/ /\ call' = "undo" /\ state' = state /\ live' = live \ {"xclk"}
    BY <1>3 DEF ProbeSearch
  <2>4. CASE call' = "software reset" /\ state' = [state EXCEPT !.model = pid] /\ live' = live
    <3>1. Only({"model"})
      BY <2>1, <2>4, ModelUpdate DEF Building, Held
    <3>2. Kept /\ state' # NULL
      BY <3>1 DEF Kept, Only, NullIsNoState
    <3>3. ~ running'
      BY <2>1, <2>2 DEF Building
    <3> QED BY <2>1, <2>2, <2>4, <3>2, <3>3, GoesOn DEF SetupInv
  <2>5. CASE call' = "undo" /\ state' = state /\ live' = live \ {"xclk"}
    <3>1. Held' /\ ~ state'.formed /\ dmaBufs' = 0 /\ fbs' = 0 /\ ~ running'
      BY <2>1, <2>2, <2>5 DEF Building, Held
    <3>2. state.has \subseteq {}
      BY <2>1 DEF Building, Held, Acquired, Pointers, Queues
    <3>3. live' \subseteq {"state", "xclk"}
      BY <2>1, <2>5, <3>2 DEF Building
    <3> QED BY <2>5, <3>1, <3>3 DEF SetupInv, Undoing
  <2> QED BY <2>3, <2>4, <2>5
<1>4. CASE ProbeSoftwareReset
  <2>1. Building /\ call = "software reset"
    BY <1>4, BuildingAt DEF ProbeSoftwareReset
  <2>2. UNCHANGED <<config, state, live, dmaBufs, fbs, running>>
    BY <1>4 DEF ProbeSoftwareReset, memory
  <2>3. CASE call' = "format"
    <3>1. Kept /\ state' # NULL /\ ~ running'
      BY <2>1, <2>2, KeptIs DEF Building, Held
    <3> QED BY <2>1, <2>2, <2>3, <3>1, GoesOn DEF SetupInv
  <2>4. CASE call' = "undo"
    <3>1. Held' /\ ~ state'.formed /\ dmaBufs' = 0 /\ fbs' = 0 /\ ~ running'
      BY <2>1, <2>2, <2>4 DEF Building, Held
    <3>2. state.has \subseteq {}
      BY <2>1 DEF Building, Held, Acquired, Pointers, Queues
    <3>3. live' \subseteq {"state", "xclk"}
      BY <2>1, <2>2, <3>2 DEF Building
    <3> QED BY <2>4, <3>1, <3>3 DEF SetupInv, Undoing
  <2> QED BY <1>4, <2>3, <2>4 DEF ProbeSoftwareReset
<1>5. CASE Undo
  <2>1. /\ call = "undo" /\ live' = live \ {"state", "xclk"} /\ state' = NULL /\ call' = "idle"
        /\ UNCHANGED <<dmaBufs, fbs, running>>
    BY <1>5 DEF Undo
  <2>2. Nothing \/ Undoing
    BY <2>1 DEF SetupInv, Building, Freeing
  <2>3. live \subseteq {"state", "xclk"} /\ dmaBufs = 0 /\ fbs = 0 /\ ~ running
    BY <2>2 DEF Nothing, Undoing
  <2>4. Nothing'
    BY <2>1, <2>3 DEF Nothing
  <2> QED BY <2>4 DEF SetupInv
<1> QED BY <1>1, <1>2, <1>3, <1>4, <1>5 DEF Probe

\* A step of init that acquires r: the places before and after it differ in r.
LEMMA Acquires ==
  ASSUME Building, UNCHANGED <<config, dmaBufs, fbs, running>>,
         NEW r, state'.has = state.has \cup {r}, live' = live \cup {r},
         Only({"has"}), state' # NULL,
         \/ r = "dmaArray" /\ call = "dma array" /\ call' = "dma descriptors"
         \/ r = "dmaDesc" /\ call = "dma descriptors" /\ call' = "dma buffers"
         \/ r = "dataReady" /\ call = "data ready" /\ call' = "exchange"
         \/ r = "frameReady" /\ call = "exchange" /\ call' = "task" /\ config.fb_count = 1
         \/ r = "task" /\ call = "task" /\ call' = "vsync"
  PROVE  Building'
<1>1. /\ state'.formed = state.formed /\ state'.fbSize = state.fbSize
      /\ state'.dmaCount = state.dmaCount /\ state'.dmaSize = state.dmaSize
      /\ IsState(state')
  BY DEF Only, Fields
<1>2. Held'
  BY <1>1 DEF Building, Held, Pointers, Queues
<1>3. Acquired'
  BY DEF Building, Acquired, Exchange
<1>4. Geometry' <=> Geometry
  BY <1>1 DEF Geometry
<1>5. /\ live' \subseteq {"state", "xclk", "i2s", "vsyncIsr"} \cup (state'.has \ {"fb"})
      /\ state'.has \ {"fb"} \subseteq live'
      /\ "state" \in live' /\ "xclk" \in live' /\ "i2s" \in live' /\ "vsyncIsr" \notin live'
  BY DEF Building
<1> QED BY <1>1, <1>2, <1>3, <1>4, <1>5 DEF Building

LEMMA GivesUpThere ==
  ASSUME Building, call \in AfterFormat \cup {"format"}, call \notin {"dma descriptors", "dma buffers"},
         ~ running, call' = "delete task",
         UNCHANGED <<config, state, live, dmaBufs, fbs, running>>
  PROVE  Freeing'
<1>1. state' # NULL /\ Only({"fbSize", "status"})
  BY DEF Building, Held, Only
<1> QED BY <1>1, GivesUp

\* The allocations that are one resource each.
LEMMA AcquireStep ==
  ASSUME SetupInv, NullIsNoState, Bounds, UNCHANGED <<config, dmaBufs, fbs, running>>,
         NEW r, NEW next, Acquire(r, next), call # "idle",
         \/ r = "dmaArray" /\ call = "dma array" /\ next = "dma descriptors"
         \/ r = "dmaDesc" /\ call = "dma descriptors" /\ next = "dma buffers"
         \/ r = "dataReady" /\ call = "data ready" /\ next = "exchange"
         \/ r = "frameReady" /\ call = "exchange" /\ next = "task" /\ config.fb_count = 1
         \/ r = "task" /\ call = "task" /\ next = "vsync"
  PROVE  SetupInv'
<1>1. Building /\ ~ running
  BY BuildingAt DEF Building
<1>2. IsState(state)
  BY <1>1 DEF Building, Held
<1>3. CASE r \in MayFail /\ call' = "delete task" /\ UNCHANGED <<state, live>>
  <2>1. call # "dma descriptors"
    BY <1>3 DEF Bounds
  <2> QED BY <1>1, <1>3, <2>1, GivesUpThere DEF SetupInv
<1>4. CASE /\ call' = next /\ Only({"has"})
           /\ state'.has = state.has \cup {r} /\ live' = live \cup {r}
  <2>1. state' # NULL
    BY <1>4 DEF Only, NullIsNoState
  <2>2. Building'
    BY <1>1, <1>4, <2>1, Acquires
  <2> QED BY <2>2 DEF SetupInv
<1> QED BY <1>2, <1>3, <1>4, AcquireIs

LEMMA FormatStep ==
  ASSUME SetupInv, NullIsNoState, InitFormat
  PROVE  SetupInv'
<1>1. Building /\ call = "format" /\ ~ running
  BY BuildingAt DEF InitFormat, Building
<1>2. UNCHANGED <<config, live, dmaBufs, fbs, running>>
  BY DEF InitFormat
<1>3. PICK e, d : state' = [state EXCEPT !.fbSize = e, !.status.quality = d]
                  /\ (Supported(config) => e = FbSize(config))
  BY DEF InitFormat
<1>4. Only({"fbSize", "status"}) /\ state'.fbSize = e
  BY <1>1, <1>3, FormatUpdate DEF Building, Held
<1>5. state' # NULL
  BY <1>4 DEF Only, NullIsNoState
<1>6. CASE Supported(config) /\ call' = "i2s"
  <2>1. /\ state'.has = state.has /\ state'.formed = state.formed /\ IsState(state')
    BY <1>4 DEF Only, Fields
  <2>2. Held' /\ Acquired'
    BY <1>1, <1>2, <1>5, <1>6, <2>1 DEF Building, Held, Acquired, Exchange
  <2>3. Supported(config') /\ state'.fbSize = FbSize(config')
    BY <1>2, <1>3, <1>4, <1>6
  <2> QED BY <1>1, <1>2, <1>6, <2>1, <2>2, <2>3 DEF Building, SetupInv
<1>7. CASE call' = "delete task"
  BY <1>1, <1>2, <1>4, <1>5, <1>7, GivesUp DEF SetupInv
<1> QED BY <1>6, <1>7 DEF InitFormat, Then

LEMMA I2sStep ==
  ASSUME SetupInv, NullIsNoState, Bounds, I2sInit
  PROVE  SetupInv'
<1>1. Building /\ call = "i2s" /\ ~ running
  BY BuildingAt DEF I2sInit, Building
<1>2. call' = "dma array" /\ UNCHANGED <<config, dmaBufs, fbs, running>>
  BY DEF I2sInit
<1>3. /\ live' = live \cup {"i2s"} \cup {"i2sIntr"}
      /\ state' = [state EXCEPT !.has = state.has \cup {"i2sIntr"},
                     !.dmaCount = 4 * DmaPerLine(config),
                     !.dmaSize = LineSize(config) \div DmaPerLine(config)]
  <2>1. PICK ok \in Outcomes("i2sIntr") :
          /\ live' = live \cup {"i2s"} \cup (IF ok THEN {"i2sIntr"} ELSE {})
          /\ state' = [state EXCEPT !.has = IF ok THEN state.has \cup {"i2sIntr"} ELSE state.has,
                     !.dmaCount = 4 * DmaPerLine(config),
                     !.dmaSize = LineSize(config) \div DmaPerLine(config)]
    BY DEF I2sInit
  <2>2. ok = TRUE
    BY DEF Bounds, Outcomes
  <2> QED BY <2>1, <2>2
<1>4. /\ Only({"has", "dmaCount", "dmaSize"}) /\ state'.has = state.has \cup {"i2sIntr"}
      /\ state'.dmaCount = 4 * DmaPerLine(config)
      /\ state'.dmaSize = LineSize(config) \div DmaPerLine(config)
  BY <1>1, <1>3, BufferUpdate DEF Building, Held
<1>5. IsState(state') /\ state'.formed = state.formed /\ state'.fbSize = state.fbSize
  BY <1>4 DEF Only, Fields
<1>6. Held'
  BY <1>1, <1>2, <1>4, <1>5 DEF Building, Held, NullIsNoState, Pointers
<1>7. Acquired'
  BY <1>1, <1>2, <1>4 DEF Building, Acquired, Exchange
<1>8. Geometry'
  BY <1>1, <1>2, <1>4, <1>5 DEF Building, Geometry
<1>9. /\ live' \subseteq {"state", "xclk", "i2s", "vsyncIsr"} \cup (state'.has \ {"fb"})
      /\ state'.has \ {"fb"} \subseteq live'
      /\ "state" \in live' /\ "xclk" \in live' /\ "i2s" \in live' /\ "vsyncIsr" \notin live'
  BY <1>1, <1>3, <1>4 DEF Building
<1>10. Supported(config') /\ state'.fbSize = FbSize(config')
  BY <1>8 DEF Geometry
<1> QED BY <1>1, <1>2, <1>5, <1>6, <1>7, <1>8, <1>9, <1>10 DEF Building, SetupInv

\* The DMA buffers: all of them, since "dmaBuf" does not fail.
LEMMA BuffersStep ==
  ASSUME SetupInv, NullIsNoState, Bounds, MakeDmaBuffers
  PROVE  SetupInv'
<1>1. Building /\ call = "dma buffers" /\ ~ running
  BY BuildingAt DEF MakeDmaBuffers, Building
<1>2. UNCHANGED <<config, live, fbs, running>>
  BY DEF MakeDmaBuffers
<1>3. state.dmaCount \in Nat
  <2>1. config \in Configs /\ state.dmaCount = 4 * DmaPerLine(config)
    BY <1>1 DEF Building, Held, Geometry
  <2>2. DmaPerLine(config) \in {1, 2, 4}
    BY <2>1, PerLine
  <2> QED BY <2>1, <2>2
<1>4. /\ dmaBufs' = state.dmaCount /\ state' = [state EXCEPT !.formed = TRUE]
      /\ call' = "frame buffers"
  <2>1. PICK n \in 0 .. state.dmaCount :
          /\ n < state.dmaCount => "dmaBuf" \in MayFail
          /\ dmaBufs' = n
          /\ state' = [state EXCEPT !.formed = (n = state.dmaCount)]
          /\ call' = IF n = state.dmaCount THEN "frame buffers" ELSE "delete task"
    BY DEF MakeDmaBuffers, Then
  <2>2. ~ (n < state.dmaCount)
    <3>1. "dmaBuf" \notin MayFail
      BY DEF Bounds
    <3> QED BY <2>1, <3>1, Zenon
  <2>3. n = state.dmaCount
    BY <1>3, <2>2
  <2> QED BY <2>1, <2>3
<1>5. Only({"formed"}) /\ state'.formed = TRUE
  BY <1>1, <1>4, FormedUpdate DEF Building, Held
<1>6. /\ IsState(state') /\ state'.has = state.has /\ state'.fbSize = state.fbSize
      /\ state'.dmaCount = state.dmaCount /\ state'.dmaSize = state.dmaSize
  BY <1>5 DEF Only, Fields
<1>7. Held' /\ Acquired'
  BY <1>1, <1>2, <1>4, <1>6 DEF Building, Held, NullIsNoState, Acquired, Exchange
<1>8. Geometry'
  BY <1>1, <1>2, <1>6 DEF Building, Geometry
<1>9. Supported(config') /\ state'.fbSize = FbSize(config')
  BY <1>8 DEF Geometry
<1> QED BY <1>1, <1>2, <1>4, <1>5, <1>6, <1>7, <1>8, <1>9 DEF Building, SetupInv

LEMMA FbStep ==
  ASSUME SetupInv, NullIsNoState, FbInit
  PROVE  SetupInv'
<1>1. Building /\ call = "frame buffers" /\ ~ running
  BY BuildingAt DEF FbInit, Building
<1>2. UNCHANGED <<config, live, dmaBufs, running>>
  BY DEF FbInit
<1>3. PICK ok \in Outcomes("fb") :
        LET made == ok /\ config.fb_count > 0
        IN  /\ fbs' = IF made THEN config.fb_count ELSE 0
            /\ state' = IF made THEN [state EXCEPT !.has = state.has \cup {"fb"}] ELSE state
            /\ call' = IF made THEN "data ready" ELSE "delete task"
  BY DEF FbInit, Then
<1>4. fbs = 0
  BY <1>1 DEF Building
<1>5. CASE ok /\ config.fb_count > 0
  <2>1. /\ fbs' = config.fb_count /\ call' = "data ready"
        /\ state' = [state EXCEPT !.has = state.has \cup {"fb"}]
    BY <1>3, <1>5
  <2>2. Only({"has"}) /\ state'.has = state.has \cup {"fb"}
    BY <1>1, <2>1, HasUpdate DEF Building, Held
  <2>3. /\ IsState(state') /\ state'.formed = state.formed /\ state'.fbSize = state.fbSize
        /\ state'.dmaCount = state.dmaCount /\ state'.dmaSize = state.dmaSize
    BY <2>2 DEF Only, Fields
  <2>4. Held'
    BY <1>1, <1>2, <2>2, <2>3 DEF Building, Held, NullIsNoState, Pointers
  <2>5. Acquired'
    BY <1>1, <2>1, <2>2 DEF Building, Acquired, Exchange
  <2>6. Geometry'
    BY <1>1, <1>2, <2>3 DEF Building, Geometry
  <2>7. state'.has \ {"fb"} = state.has \ {"fb"}
    BY <2>2
  <2>8. Supported(config') /\ state'.fbSize = FbSize(config')
    BY <2>6 DEF Geometry
  <2> QED BY <1>1, <1>2, <1>5, <2>1, <2>3, <2>4, <2>5, <2>6, <2>7, <2>8 DEF Building, SetupInv
<1>6. CASE ~ (ok /\ config.fb_count > 0)
  <2>1. UNCHANGED <<state, fbs>> /\ call' = "delete task"
    BY <1>3, <1>4, <1>6
  <2> QED BY <1>1, <1>2, <2>1, GivesUpThere DEF SetupInv
<1> QED BY <1>5, <1>6

\* Both queues are created before either is looked at: deinit may find one.
LEMMA QueuesStep ==
  ASSUME SetupInv, NullIsNoState, MakeFbQueues
  PROVE  SetupInv'
<1>1. Building /\ call = "exchange" /\ ~ running /\ config.fb_count > 1
  BY BuildingAt DEF MakeFbQueues, Building
<1>2. UNCHANGED <<config, dmaBufs, fbs, running>>
  BY DEF MakeFbQueues
<1>3. PICK made \in SUBSET {"fbIn", "fbOut"} :
        /\ live' = live \cup made
        /\ state' = [state EXCEPT !.has = state.has \cup made]
        /\ call' = IF made = {"fbIn", "fbOut"} THEN "task" ELSE "delete task"
  BY DEF MakeFbQueues, Then
<1>4. Only({"has"}) /\ state'.has = state.has \cup made
  BY <1>1, <1>3, HasUpdate DEF Building, Held
<1>5. /\ IsState(state') /\ state'.formed = state.formed /\ state'.fbSize = state.fbSize
      /\ state'.dmaCount = state.dmaCount /\ state'.dmaSize = state.dmaSize
  BY <1>4 DEF Only, Fields
<1>6. Held'
  BY <1>1, <1>2, <1>4, <1>5 DEF Building, Held, NullIsNoState, Pointers, Queues
<1>7. Geometry'
  BY <1>1, <1>2, <1>5 DEF Building, Geometry
<1>8. /\ live' \subseteq {"state", "xclk", "i2s", "vsyncIsr"} \cup (state'.has \ {"fb"})
      /\ state'.has \ {"fb"} \subseteq live'
      /\ "state" \in live' /\ "xclk" \in live' /\ "i2s" \in live' /\ "vsyncIsr" \notin live'
  BY <1>1, <1>3, <1>4 DEF Building
<1>9. "task" \notin state'.has /\ "dmaArray" \in state'.has /\ "fb" \in state'.has
  BY <1>1, <1>4 DEF Building, Acquired
<1>10. CASE made = {"fbIn", "fbOut"}
  <2>1. call' = "task"
    BY <1>3, <1>10
  <2>2. Exchange' = made
    BY <1>1, <1>2, <1>10 DEF Exchange
  <2>3. Acquired'
    BY <1>1, <1>4, <1>10, <2>1, <2>2 DEF Building, Acquired
  <2>4. Supported(config') /\ state'.fbSize = FbSize(config')
    BY <1>7 DEF Geometry
  <2> QED BY <1>1, <1>2, <1>5, <1>6, <1>7, <1>8, <2>1, <2>3, <2>4 DEF Building, SetupInv
<1>11. CASE made # {"fbIn", "fbOut"}
  <2>1. call' = "delete task"
    BY <1>3, <1>11
  <2>2. Freed' = {}
    BY <2>1 DEF Freed
  <2>3. state'.formed /\ dmaBufs' = state'.dmaCount /\ fbs' = config'.fb_count
    BY <1>1, <1>2, <1>5 DEF Building
  <2> QED BY <1>1, <1>2, <1>6, <1>7, <1>8, <1>9, <2>1, <2>2, <2>3 DEF Freeing, SetupInv
<1> QED BY <1>10, <1>11

LEMMA IsrStep ==
  ASSUME SetupInv, NullIsNoState, AddVsyncIsr
  PROVE  SetupInv'
<1>1. Building /\ call = "vsync" /\ ~ running
  BY BuildingAt DEF AddVsyncIsr, Building
<1>2. UNCHANGED <<config, dmaBufs, fbs, running>>
  BY DEF AddVsyncIsr
<1>3. CASE /\ call' = "frame size" /\ live' = live \cup {"vsyncIsr"}
           /\ state' = [state EXCEPT !.framesize = config.framesize, !.pixformat = config.format]
  <2>1. Only({"framesize", "pixformat"})
    BY <1>1, <1>3, PictureUpdate DEF Building, Held
  <2>2. /\ state'.has = state.has /\ state'.formed = state.formed /\ state'.fbSize = state.fbSize
        /\ state'.dmaCount = state.dmaCount /\ state'.dmaSize = state.dmaSize
        /\ IsState(state')
    BY <2>1 DEF Only, Fields
  <2>3. Held' /\ Acquired'
    BY <1>1, <1>2, <1>3, <2>2 DEF Building, Held, NullIsNoState, Acquired, Exchange
  <2>4. Geometry'
    BY <1>1, <1>2, <2>2 DEF Building, Geometry
  <2>5. Supported(config') /\ state'.fbSize = FbSize(config')
    BY <2>4 DEF Geometry
  <2> QED BY <1>1, <1>2, <1>3, <2>2, <2>3, <2>4, <2>5 DEF Building, SetupInv
<1>4. CASE call' = "delete task" /\ UNCHANGED <<state, live>>
  BY <1>1, <1>2, <1>4, GivesUpThere DEF SetupInv
<1> QED BY <1>3, <1>4 DEF AddVsyncIsr, Then

LEMMA AcquisitionStep ==
  ASSUME SetupInv, NullIsNoState, Bounds, Acquisition
  PROVE  SetupInv'
<1>1. CASE MakeDmaArray
  BY <1>1, AcquireStep DEF MakeDmaArray
<1>2. CASE MakeDmaDescriptors
  BY <1>2, AcquireStep DEF MakeDmaDescriptors
<1>3. CASE MakeDataReady
  BY <1>3, AcquireStep DEF MakeDataReady
<1>4. CASE MakeFrameReady
  BY <1>4, AcquireStep DEF MakeFrameReady
<1>5. CASE MakeTask
  BY <1>5, AcquireStep DEF MakeTask
<1> QED
  BY <1>1, <1>2, <1>3, <1>4, <1>5, FormatStep, I2sStep, BuffersStep, FbStep, QueuesStep, IsrStep
  DEF Acquisition

\* Nothing is acquired while the sensor is configured.
LEMMA ConfigurationStep ==
  ASSUME SetupInv, NullIsNoState, Configuration
  PROVE  SetupInv'
<1>1. Building /\ call \in {"frame size", "pixformat", "tune", "status"} /\ ~ running
  BY BuildingAt DEF Configuration, InitFramesize, InitPixformat, InitTune, InitStatus, Building
<1>2. UNCHANGED <<config, live, dmaBufs, fbs, running>>
  BY DEF Configuration, InitFramesize, InitPixformat, InitTune, InitStatus, memory
<1>3. CASE state' = state
  <2>1. Kept /\ state' # NULL
    BY <1>1, <1>3, KeptIs DEF Building, Held
  <2>2. call' \in {"pixformat", "tune", "status", "crash", "idle", "delete task"}
    BY DEF Configuration, InitFramesize, InitPixformat, InitTune, InitStatus, Then
  <2>3. CASE call' = "delete task"
    BY <1>1, <1>2, <1>3, <2>3, GivesUpThere DEF SetupInv
  <2>4. CASE call' # "delete task"
    <3>1. call' \in AfterIsr /\ call \in AfterIsr
      BY <1>1, <2>2, <2>4
    <3> QED BY <1>1, <1>2, <2>1, <3>1, GoesOn DEF SetupInv
  <2> QED BY <2>3, <2>4
<1>4. CASE InitStatus /\ state' # state
  <2>1. PICK e : state' = [state EXCEPT !.status = e]
    BY <1>4 DEF InitStatus
  <2>2. call' = "idle"
    BY <1>4 DEF InitStatus
  <2>3. Only({"status"})
    BY <1>1, <2>1, StatusUpdate DEF Building, Held
  <2>4. Kept /\ state' # NULL
    BY <2>3 DEF Kept, Only, NullIsNoState
  <2> QED BY <1>1, <1>2, <2>2, <2>4, GoesOn DEF SetupInv
<1> QED BY <1>3, <1>4 DEF Configuration, InitFramesize, InitPixformat, InitTune, memory

LEMMA UseStep ==
  ASSUME SetupInv, NullIsNoState, Use
  PROVE  SetupInv'
<1>1. Building /\ call = "idle"
  BY BuildingAt DEF Use, FbGet, FrameDone, Tune, Resize, Ready
<1>2. UNCHANGED <<call, config, live, dmaBufs, fbs>>
  BY DEF Use, FbGet, FrameDone, Tune, Resize, memory
<1>3. Kept
  <2>1. IsState(state)
    BY <1>1 DEF Building, Held
  <2>2. CASE FbGet \/ FrameDone
    BY <2>1, <2>2, KeptIs DEF FbGet, FrameDone, memory
  <2>3. CASE Tune
    <3>1. PICK p, e : state' = [state EXCEPT !.status[p] = e]
      BY <2>3 DEF Tune
    <3> QED BY <2>1, <3>1, SettingUpdate DEF Kept, Only
  <2>4. CASE Resize
    <3>1. PICK e : state' = [state EXCEPT !.framesize = e]
      BY <2>4 DEF Resize
    <3> QED BY <2>1, <3>1, SizeUpdate DEF Kept, Only
  <2> QED BY <2>2, <2>3, <2>4 DEF Use
<1>4. state' # NULL
  BY <1>3 DEF Kept, Only, NullIsNoState
<1>5. call \in AfterIsr /\ call' \in AfterIsr /\ call' = "idle"
  BY <1>1, <1>2
<1> QED BY <1>1, <1>2, <1>3, <1>4, <1>5, GoesOn DEF SetupInv

-----------------------------------------------------------------------------
(* The steps of deinit, restarts, and the invariant.                       *)

\* Freeing what s_state points to and deinit has not freed yet frees what is
\* held: nothing is freed twice.
LEMMA Releases ==
  ASSUME Freeing, NEW rs, rs \subseteq Pointers \ {"fb"}, rs \cap Freed = {},
         Release(rs \cap state.has)
  PROVE  live' = live \ (rs \cap state.has)
<1>1. rs \cap state.has \subseteq live
  BY DEF Freeing
<1> QED BY <1>1 DEF Release

LEMMA DeinitStep ==
  ASSUME SetupInv, Bounds, NullIsNoState, Deinit
  PROVE  SetupInv'
<1>1. CASE EspCameraDeinit
  <2>1. Building /\ call = "idle" /\ ~ running
    BY <1>1, BuildingAt DEF EspCameraDeinit, Ready, Bounds
  <2>2. call' = "delete task" /\ UNCHANGED <<config, state, live, dmaBufs, fbs, running>>
    BY <1>1 DEF EspCameraDeinit, memory
  <2> QED BY <2>1, <2>2, GivesUpThere DEF SetupInv
<1>2. CASE DeleteTask
  <2>1. Freeing /\ call = "delete task"
    BY <1>2, FreeingAt DEF DeleteTask, FreeStep
  <2>2. call' = "delete queues" /\ UNCHANGED <<config, state, dmaBufs, fbs, running>>
    BY <1>2 DEF DeleteTask, FreeStep
  <2>3. Freed = {} /\ Freed' = {"task"}
    BY <2>1, <2>2 DEF Freed
  <2>4. live' = live \ ({"task"} \cap state.has)
    BY <1>2, <2>1, <2>3, Releases DEF DeleteTask, FreeStep, Pointers
  <2>5. Held' /\ Geometry' = Geometry /\ Exchange' = Exchange
    BY <2>1, <2>2 DEF Freeing, Held, Geometry, Exchange
  <2> QED BY <2>1, <2>2, <2>3, <2>4, <2>5 DEF Freeing, SetupInv
<1>3. CASE DeleteQueues
  <2>1. Freeing /\ call = "delete queues"
    BY <1>3, FreeingAt DEF DeleteQueues, FreeStep
  <2>2. call' = "remove isr" /\ UNCHANGED <<config, state, dmaBufs, fbs, running>>
    BY <1>3 DEF DeleteQueues, FreeStep
  <2>3. Freed = {"task"} /\ Freed' = {"task"} \cup Queues
    BY <2>1, <2>2 DEF Freed
  <2>4. live' = live \ (Queues \cap state.has)
    BY <1>3, <2>1, <2>3, Releases DEF DeleteQueues, FreeStep, Pointers, Queues
  <2>5. Held' /\ Geometry' = Geometry /\ Exchange' = Exchange
    BY <2>1, <2>2 DEF Freeing, Held, Geometry, Exchange
  <2> QED BY <2>1, <2>2, <2>3, <2>4, <2>5 DEF Freeing, SetupInv, Queues
<1>4. CASE RemoveIsrs
  <2>1. Freeing /\ call = "remove isr"
    BY <1>4, FreeingAt DEF RemoveIsrs
  <2>2. /\ call' = "free dma" /\ UNCHANGED <<config, state, dmaBufs, fbs>>
        /\ live' = live \ {"vsyncIsr", "i2sIntr"} /\ running' = FALSE
    BY <1>4 DEF RemoveIsrs
  <2>3. Freed = {"task"} \cup Queues /\ Freed' = Freed \cup {"i2sIntr"}
    BY <2>1, <2>2 DEF Freed
  <2>4. Held' /\ Geometry' = Geometry /\ Exchange' = Exchange
    BY <2>1, <2>2 DEF Freeing, Held, Geometry, Exchange
  <2>5. /\ live' \subseteq {"state", "xclk", "i2s", "vsyncIsr"} \cup (state.has \ (Freed' \cup {"fb"}))
        /\ state.has \ (Freed' \cup {"fb"}) \subseteq live'
        /\ {"state", "xclk"} \subseteq live' /\ "vsyncIsr" \notin live'
    BY <2>1, <2>2, <2>3 DEF Freeing, Held, Pointers
  <2>6. /\ state.formed <=> "dmaArray" \in state.has
        /\ state.formed => Geometry
        /\ dmaBufs = IF state.formed THEN state.dmaCount ELSE 0
        /\ fbs = IF "fb" \in state.has THEN config.fb_count ELSE 0
        /\ "task" \in state.has =>
             {"dmaArray", "dmaDesc", "fb", "dataReady"} \cup Exchange \subseteq state.has
    BY <2>1 DEF Freeing
  <2> QED BY <2>2, <2>4, <2>5, <2>6 DEF Freeing, SetupInv
<1>5. CASE FreeDma
  <2>1. Freeing /\ call = "free dma"
    BY <1>5, FreeingAt DEF FreeDma
  <2>2. /\ call' = "free rest" /\ UNCHANGED <<config, state, fbs, running>>
        /\ dmaBufs' = IF "dmaArray" \in state.has THEN 0 ELSE dmaBufs
    BY <1>5 DEF FreeDma
  <2>3. live' = live \ {"dmaArray", "dmaDesc"}
    BY <1>5, <2>1 DEF FreeDma, Freeing
  <2>4. Freed' = Freed \cup {"dmaArray", "dmaDesc"}
    BY <2>1, <2>2 DEF Freed
  <2>5. Held' /\ Geometry' = Geometry /\ Exchange' = Exchange
    BY <2>1, <2>2 DEF Freeing, Held, Geometry, Exchange
  <2>6. dmaBufs' = 0
    BY <2>1, <2>2 DEF Freeing
  <2> QED BY <2>1, <2>2, <2>3, <2>4, <2>5, <2>6 DEF Freeing, SetupInv
<1>6. CASE FreeRest
  <2>1. Freeing /\ call = "free rest"
    BY <1>6, FreeingAt DEF FreeRest
  <2>2. /\ call' = "idle" /\ state' = NULL /\ UNCHANGED <<dmaBufs, running>>
        /\ fbs' = IF "fb" \in state.has THEN 0 ELSE fbs
        /\ live' = live \ {"state", "xclk", "i2s"}
    BY <1>6 DEF FreeRest, FramesLeft
  <2>3. Pointers = Freed \cup {"fb"}
    BY <2>1 DEF Freed, Pointers, Queues
  <2>4. state.has \ (Freed \cup {"fb"}) = {}
    BY <2>1, <2>3 DEF Freeing, Held
  <2>5. live' = {}
    BY <2>1, <2>2, <2>4 DEF Freeing
  <2>6. dmaBufs' = 0 /\ fbs' = 0 /\ ~ running'
    BY <2>1, <2>2 DEF Freeing
  <2> QED BY <2>2, <2>5, <2>6 DEF Nothing, SetupInv
<1> QED BY <1>1, <1>2, <1>3, <1>4, <1>5, <1>6 DEF Deinit

LEMMA SetupStep ==
  ASSUME Bounds, NullIsNoState
  PROVE  SetupInv /\ [Next]_vars => SetupInv'
<1> SUFFICES ASSUME SetupInv, [Next]_vars PROVE SetupInv'
  OBVIOUS
<1>1. CASE EspCameraInit
  <2>1. /\ call = "idle" /\ state = NULL /\ config' \in Configs /\ call' = "probe"
        /\ UNCHANGED <<state, live, dmaBufs, fbs, running>>
    BY <1>1 DEF EspCameraInit, Bounds, memory
  <2>2. Nothing
    BY <2>1 DEF SetupInv, Undoing, Building, Freeing, Held
  <2> QED BY <2>1, <2>2 DEF Nothing, SetupInv
<1>2. CASE Reboot
  <2>1. Nothing'
    BY <1>2 DEF Reboot, Nothing
  <2> QED BY <2>1 DEF SetupInv
<1>3. CASE UNCHANGED vars
  <2>1. UNCHANGED <<call, config, state, live, dmaBufs, fbs, running>>
    BY <1>3 DEF vars, memory
  <2>2. CASE Nothing
    BY <2>1, <2>2 DEF Nothing, SetupInv
  <2>3. CASE Undoing
    BY <2>1, <2>3 DEF Undoing, Held, SetupInv
  <2>4. CASE Building
    <3>1. Held' /\ Acquired' /\ Geometry' = Geometry
      BY <2>1, <2>4 DEF Building, Held, Acquired, Exchange, Geometry
    <3> QED BY <2>1, <2>4, <3>1 DEF Building, SetupInv
  <2>5. CASE Freeing
    <3>1. Held' /\ Geometry' = Geometry /\ Exchange' = Exchange /\ Freed' = Freed
      BY <2>1, <2>5 DEF Freeing, Held, Exchange, Geometry, Freed
    <3> QED BY <2>1, <2>5, <3>1 DEF Freeing, SetupInv
  <2> QED BY <2>2, <2>3, <2>4, <2>5 DEF SetupInv
<1> QED
  BY <1>1, <1>2, <1>3, ProbeStep, AcquisitionStep, ConfigurationStep, UseStep, DeinitStep
  DEF Next

LEMMA SetupAlways ==
  ASSUME Bounds, NullIsNoState
  PROVE  Spec => []SetupInv
<1>1. Init => SetupInv
  BY DEF Init, SetupInv, Nothing
<1>2. SetupInv /\ [Next]_vars => SetupInv'
  BY SetupStep
<1> QED BY <1>1, <1>2, PTL DEF Spec

-----------------------------------------------------------------------------
(* What follows.                                                           *)

\* Whichever allocation or transfer fails and whenever the module restarts,
\* between two calls the driver has all that its configuration needs or holds
\* nothing (camera_init and its fail:, esp_camera_deinit).
THEOREM AllIsHeldOrNothing ==
  ASSUME Bounds, NullIsNoState
  PROVE  Spec => []AllOrNothing
<1>1. SetupInv => AllOrNothing
  <2> SUFFICES ASSUME SetupInv, call = "idle"
               PROVE  IF state = NULL
                      THEN live = {} /\ dmaBufs = 0 /\ fbs = 0 /\ ~ running
                      ELSE live = Complete /\ dmaBufs = state.dmaCount /\ fbs = config.fb_count
    BY DEF AllOrNothing
  <2>1. CASE state = NULL
    BY <2>1 DEF SetupInv, Nothing, Undoing, Building, Freeing, Held
  <2>2. CASE state # NULL
    <3>1. Building
      BY <2>2, BuildingAt
    <3>2. dmaBufs = state.dmaCount /\ fbs = config.fb_count
      BY <3>1 DEF Building
    <3>3. /\ state.has \subseteq Pointers /\ Acquired
          /\ live = {"state", "xclk", "i2s", "vsyncIsr"} \cup (state.has \ {"fb"})
      BY <3>1 DEF Building, Held
    <3>4. state.has = {"i2sIntr", "dmaArray", "dmaDesc", "fb", "dataReady", "task"} \cup Exchange
      BY <3>3 DEF Acquired, Pointers, Queues, Exchange
    <3>5. live = Complete
      BY <3>3, <3>4 DEF Complete, Exchange
    <3> QED BY <2>2, <3>2, <3>5
  <2> QED BY <2>1, <2>2
<1> QED BY <1>1, SetupAlways, PTL

\* The filter task and the interrupts never outlive, nor precede, the queues
\* and buffers they use (the order of camera_init and of esp_camera_deinit).
THEOREM NothingDangles ==
  ASSUME Bounds, NullIsNoState
  PROVE  Spec => []NoDangling
<1>1. SetupInv => NoDangling
  <2> SUFFICES ASSUME SetupInv PROVE NoDangling
    OBVIOUS
  <2>1. CASE Nothing \/ Undoing
    BY <2>1 DEF Nothing, Undoing, NoDangling
  <2>2. CASE Building
    <3>1. ASSUME "task" \in live
          PROVE  /\ {"state", "dataReady", "dmaArray", "dmaDesc"} \cup Exchange \subseteq live
                 /\ dmaBufs = state.dmaCount /\ fbs = config.fb_count
      BY <2>2, <3>1 DEF Building, Acquired, Exchange
    <3>2. ASSUME running
          PROVE  /\ {"state", "dataReady", "dmaDesc", "i2sIntr", "vsyncIsr"} \subseteq live
                 /\ dmaBufs = state.dmaCount
      BY <2>2, <3>2 DEF Building, Acquired
    <3> QED BY <3>1, <3>2 DEF NoDangling
  <2>3. CASE Freeing
    <3>1. ASSUME "task" \in live
          PROVE  /\ {"state", "dataReady", "dmaArray", "dmaDesc"} \cup Exchange \subseteq live
                 /\ dmaBufs = state.dmaCount /\ fbs = config.fb_count
      <4>1. "task" \in state.has /\ call = "delete task"
        BY <2>3, <3>1 DEF Freeing, Freed
      <4>2. Freed = {}
        BY <4>1 DEF Freed
      <4> QED BY <2>3, <4>1, <4>2 DEF Freeing, Exchange
    <3> QED BY <2>3, <3>1 DEF NoDangling, Freeing
  <2> QED BY <2>1, <2>2, <2>3 DEF SetupInv
<1> QED BY <1>1, SetupAlways, PTL

\* The DMA buffers of a line become a line of the frame, the lines fill the
\* frame buffer, and a descriptor holds the length of its buffer (camera_init,
\* dma_desc_init and the filters).
THEOREM FramesFit ==
  ASSUME Bounds, NullIsNoState
  PROVE  Spec => []DmaFits
<1>1. SetupInv => DmaFits
  <2> SUFFICES ASSUME SetupInv, state # NULL, state.formed PROVE DmaFits
    BY DEF DmaFits
  <2>1. config \in Configs /\ Geometry
    BY DEF SetupInv, Nothing, Undoing, Building, Freeing, Held
  <2> DEFINE w == Width[config.framesize + 1]
             h == Height[config.framesize + 1]
             n == DmaPerLine(config)
             len == state.dmaSize
             filtered == Filtered(config, len)
             b == FbBytesPerPixel(config)
  <2>2. w \in Widths /\ h \in Nat /\ w * h >= 15360
    BY <2>1, SizeIs
  <2>3. PICK k \in {4, 8} : LineSize(config) = w * k /\ w * k = w * 2 * BytesPerSample(config)
    <3>1. BytesPerSample(config) \in {2, 4} /\ LineSize(config) = w * 2 * BytesPerSample(config)
      BY DEF BytesPerSample, LineSize
    <3>2. w \in Nat
      BY <2>2 DEF Widths
    <3> QED BY <3>1, <3>2
  <2>4. n = Halved(w * k, 4096) /\ len = (w * k) \div n
    BY <2>1, <2>3 DEF DmaPerLine, Geometry
  <2>5. n \in {1, 2, 4} /\ len < 4096 /\ len % 32 = 0 /\ n * len = w * k
    BY <2>2, <2>4, LineHalved
  <2>6. len \in Nat /\ w \in Nat
    BY <2>2, <2>4, <2>5 DEF Widths
  <2>7. n * filtered = w * b /\ filtered \in Nat /\ (Jpeg(config) => filtered < 1024)
    BY <2>1, <2>2, <2>3, <2>5, <2>6, FilteredPart DEF Geometry
  <2>8. b \in {1, 2} /\ (Jpeg(config) => b = 2)
    BY DEF FbBytesPerPixel, Gray, Jpeg
  <2>9. state.fbSize = IF Jpeg(config) THEN (w * h * b) \div CompressionBound(config) ELSE w * h * b
    BY <2>1 DEF Geometry, FbSize
  <2>10. CompressionBound(config) \in {4, 10, 16}
    BY DEF CompressionBound
  <2> HIDE DEF w, h, n, len, filtered, b
  <2>11. CASE Jpeg(config)
    <3>1. state.fbSize = (w * h * 2) \div CompressionBound(config)
      BY <2>8, <2>9, <2>11
    <3>2. w * h * 2 \in Nat /\ w * h * 2 >= 30720
      BY <2>2, <2>6
    <3>3. state.fbSize \in Nat /\ state.fbSize >= 1920
      BY <2>10, <3>1, <3>2
    <3>4. state.fbSize >= filtered
      BY <2>7, <2>11, <3>3
    <3> QED BY <2>3, <2>5, <2>6, <2>7, <2>11, <3>4 DEF DmaFits, w, h, n, len, filtered, b
  <2>12. CASE ~ Jpeg(config)
    <3>1. w * h * b = h * (n * filtered)
      BY <2>2, <2>6, <2>7, <2>8
    <3> QED BY <2>3, <2>5, <2>6, <2>7, <2>9, <2>12, <3>1 DEF DmaFits, w, h, n, len, filtered, b
  <2> QED BY <2>11, <2>12
<1> QED BY <1>1, SetupAlways, PTL

-----------------------------------------------------------------------------
(* What camera_init sets, and what init_status reads.                       *)

\* The four settings of camera_init are four states, one after the other.
LEMMA TunedSteps ==
  ASSUME NEW d, NEW f
  PROVE  \E t : /\ t[0] = d /\ t[4] = TuneDefaults(d, f)
                /\ \A i \in 1..4 : t[i] = Set(t[i - 1], Defaults[i][1], Defaults[i][2], f - 3 * (i - 1))
<1> DEFINE Step(x, i) == Set(x, Defaults[i][1], Defaults[i][2], f - 3 * (i - 1))
           t1 == Step(d, 1)
           t2 == Step(t1, 2)
           t3 == Step(t2, 3)
           t4 == Step(t3, 4)
           g == [i \in 0..4 |-> IF i = 0 THEN d ELSE IF i = 1 THEN t1 ELSE IF i = 2 THEN t2 ELSE IF i = 3 THEN t3 ELSE t4]
           tuned[i \in 0..Len(Defaults)] == IF i = 0 THEN d ELSE Step(tuned[i - 1], i)
<1>1. TuneDefaults(d, f) = tuned[Len(Defaults)]
  BY DEF TuneDefaults
<1>2. Len(Defaults) = 4
  BY DEF Defaults
<1>0. t1 = Step(d, 1) /\ t2 = Step(t1, 2) /\ t3 = Step(t2, 3) /\ t4 = Step(t3, 4)
  OBVIOUS
<1> HIDE DEF Step, t1, t2, t3, t4
<1>3. \A i \in 0..4 : g[i] = IF i = 0 THEN d ELSE Step(g[i - 1], i)
  <2>1. g[0] = d /\ g[1] = t1 /\ g[2] = t2 /\ g[3] = t3 /\ g[4] = t4
    OBVIOUS
  <2> HIDE DEF g
  <2>2. ASSUME NEW i \in 0..4 PROVE g[i] = IF i = 0 THEN d ELSE Step(g[i - 1], i)
    <3>1. i = 0 \/ i = 1 \/ i = 2 \/ i = 3 \/ i = 4
      OBVIOUS
    <3>2. 1 - 1 = 0 /\ 2 - 1 = 1 /\ 3 - 1 = 2 /\ 4 - 1 = 3
      OBVIOUS
    <3> QED BY <1>0, <2>1, <3>1, <3>2
  <2> QED BY <2>2
<1>4. g = [i \in 0..4 |-> IF i = 0 THEN d ELSE Step(g[i - 1], i)]
  <2>1. g = [i \in 0..4 |-> g[i]]
    OBVIOUS
  <2> HIDE DEF g
  <2> QED BY <1>3, <2>1
<1> HIDE DEF g
<1>5. g = [i \in 0..Len(Defaults) |-> IF i = 0 THEN d ELSE Step(g[i - 1], i)]
  BY <1>2, <1>4
<1>6. tuned = [i \in 0..Len(Defaults) |-> IF i = 0 THEN d ELSE Step(tuned[i - 1], i)]
  BY <1>5, Zenon
<1> HIDE DEF tuned
<1>7. tuned[0] = d /\ \A i \in 1..4 : tuned[i] = Step(tuned[i - 1], i)
  BY <1>2, <1>6
<1> QED BY <1>1, <1>2, <1>7 DEF Step

LEMMA DefaultsAre ==
  /\ \A i \in 1..4 : Defaults[i][1] \in Settings \ {"aec2", "wb_mode"}
  /\ \A i \in 1..4 : Defaults[i][1] \notin PictureParts
<1>1. /\ Defaults[1][1] = "gainceiling" /\ Defaults[2][1] = "bpc" /\ Defaults[3][1] = "wpc"
      /\ Defaults[4][1] = "lenc"
  BY DEF Defaults
<1>2. {"gainceiling", "bpc", "wpc", "lenc"} \subseteq Settings
  BY DEF Settings, Parts, Place
<1>3. \A i \in 1..4 : Defaults[i][1] \in {"gainceiling", "bpc", "wpc", "lenc"}
  BY <1>1
<1> QED BY <1>2, <1>3 DEF PictureParts

LEMMA TuneKeeps ==
  ASSUME NEW d, IsDriver(d), NEW f \in Int, NEW e, e = TuneDefaults(d, f)
  PROVE  IsDriver(e)
<1>1. PICK t : /\ t[0] = d /\ t[4] = TuneDefaults(d, f)
               /\ \A i \in 1..4 : t[i] = Set(t[i - 1], Defaults[i][1], Defaults[i][2], f - 3 * (i - 1))
  BY TunedSteps
<1>2. ASSUME NEW i \in 1..4, IsDriver(t[i - 1]) PROVE IsDriver(t[i])
  <2>1. t[i] = Set(t[i - 1], Defaults[i][1], Defaults[i][2], f - 3 * (i - 1))
    BY <1>1
  <2>2. f - 3 * (i - 1) \in Int /\ Defaults[i][1] \in Settings
    BY DefaultsAre
  <2> QED BY <1>2, <2>1, <2>2, SetKeeps
<1>3. IsDriver(t[1])
  BY <1>1, <1>2
<1>4. IsDriver(t[2])
  BY <1>2, <1>3
<1>5. IsDriver(t[3])
  BY <1>2, <1>4
<1>6. IsDriver(t[4])
  BY <1>2, <1>5
<1> QED BY <1>1, <1>6

LEMMA TuneRun ==
  ASSUME NEW d, IsDriver(d), CacheOf(d) = BankOf(d), NEW f \in Int, f < 1, NEW e, e = TuneDefaults(d, f)
  PROVE  IsDriver(e) /\ CacheOf(e) = BankOf(e) /\ \A q \in PictureParts : RegsOf(e)[q] = RegsOf(d)[q]
<1> DEFINE P(x) == IsDriver(x) /\ CacheOf(x) = BankOf(x) /\ \A q \in PictureParts : RegsOf(x)[q] = RegsOf(d)[q]
<1>1. PICK t : /\ t[0] = d /\ t[4] = TuneDefaults(d, f)
               /\ \A i \in 1..4 : t[i] = Set(t[i - 1], Defaults[i][1], Defaults[i][2], f - 3 * (i - 1))
  BY TunedSteps
<1>2. ASSUME NEW i \in 1..4, P(t[i - 1]) PROVE P(t[i])
  <2> DEFINE p == Defaults[i][1]
             x == Defaults[i][2]
             k == f - 3 * (i - 1)
  <2>1. t[i] = Set(t[i - 1], p, x, k)
    BY <1>1
  <2>2. k \in Int /\ k < 1
    OBVIOUS
  <2>3. p \in Settings /\ p \notin PictureParts
    BY DefaultsAre
  <2> HIDE DEF p, x, k
  <2>4. /\ Agrees(t[i])
        /\ \A q \in Parts \ ({p} \cup Beside) : RegsOf(t[i])[q] = RegsOf(t[i - 1])[q]
    BY <1>2, <2>1, <2>2, <2>3, SetRun
  <2>5. PictureParts \subseteq Parts \ ({p} \cup Beside)
    BY <2>3 DEF PictureParts, Parts, Place, Beside
  <2> QED BY <1>2, <2>4, <2>5 DEF Agrees, Goes
<1>3. P(t[0])
  BY <1>1
<1> HIDE DEF P
<1>4. P(t[1])
  BY <1>2, <1>3
<1>5. P(t[2])
  BY <1>2, <1>4
<1>6. P(t[3])
  BY <1>2, <1>5
<1>7. P(t[4])
  BY <1>2, <1>6
<1> QED BY <1>1, <1>7 DEF P

-----------------------------------------------------------------------------
(* The sensor: the invariant.                                              *)

\* From sensor.reset on, init talks to a sensor it knows.
AfterReset == {"format", "i2s", "dma array", "dma descriptors", "dma buffers", "frame buffers",
               "data ready", "exchange", "task", "vsync", "frame size", "pixformat", "tune", "status"}
AfterSize == {"pixformat", "tune", "status"}

SensorIs == IsChip(chip) /\ reg_bank \in Banks \cup {"none"} /\ faulted \in BOOLEAN
ModelIs == call \in AfterReset \cup {"software reset"} => model \in {"ov2640", "ov7725"}
StatusIs == state # NULL => IsStatus(state.status)
SizeIsAsked ==
  call \in {"frame size", "pixformat"} =>
    state.framesize = config.framesize /\ state.pixformat = config.format

\* The driver knows the bank; the sensor sends the pictures it expects; each
\* setting that init_status reads is what its status says.
BankKnown == reg_bank = chip.bank
Sends == Pictured(chip.regs, state.framesize, state.pixformat)
Shows == \A p \in ToSet(StatusOrder) : chip.regs[p] = state.status[p]

BankInv == ~ faulted /\ model = "ov2640" /\ call \in AfterReset => BankKnown
SizeInv == ~ faulted /\ model = "ov2640" /\ call \in AfterSize => Sends
ReadyInv == ~ faulted /\ Ready => BankKnown /\ Sends /\ Shows

\* SensorAgrees speaks of what is left when init is over; before it the driver
\* learns the bank by the reset, and the size and format by the tables.
SensorInv ==
  /\ SensorIs /\ ModelIs /\ StatusIs /\ SizeIsAsked
  /\ BankInv /\ SizeInv /\ ReadyInv

\* There is a state to speak of, of a known form, whenever it is not NULL.
LEMMA StateIs == ASSUME SetupInv, state # NULL PROVE IsState(state)
BY DEF SetupInv, Nothing, Undoing, Building, Freeing, Held

LEMMA StateThere ==
  ASSUME SetupInv, call \in AfterReset \cup {"software reset", "search", "reset"}
  PROVE  IsState(state) /\ state # NULL
<1>1. Building
  BY BuildingAt DEF AfterReset
<1> QED BY <1>1 DEF Building, Held

\* What is not changed by a step that changes other fields of s_state.
LEMMA StatusLeft ==
  ASSUME NEW F, Only(F), "status" \notin F
  PROVE  state'.status = state.status
BY DEF Only, Fields

LEMMA SizeLeft ==
  ASSUME NEW F, Only(F), "framesize" \notin F, "pixformat" \notin F
  PROVE  state'.framesize = state.framesize /\ state'.pixformat = state.pixformat
BY DEF Only, Fields

-----------------------------------------------------------------------------
(* The sensor: what the driver sends.                                      *)

LEMMA DriverNow ==
  ASSUME SensorIs, NEW d, d = Driver
  PROVE  IsDriver(d) /\ CacheOf(d) = reg_bank /\ BankOf(d) = chip.bank /\ RegsOf(d) = chip.regs
<1>1. d = [chip |-> chip, cache |-> reg_bank, seen |-> d.seen, ok |-> d.ok] /\ d.ok \in BOOLEAN
  BY DEF Driver
<1>2. IsDriver(d) /\ ChipOf(d) = chip /\ CacheOf(d) = reg_bank /\ RegsOf(d) = chip.regs
  <2>1. IsChip(chip) /\ reg_bank \in Banks \cup {"none"}
    BY DEF SensorIs
  <2> QED BY <1>1, <2>1, Assembled
<1> QED BY <1>2 DEF ChipOf, BankOf

LEMMA SentNow ==
  ASSUME SensorIs, NEW d, IsDriver(d), NEW f \in Int, Sent(d, f)
  PROVE  /\ SensorIs' /\ chip'.bank = BankOf(d) /\ chip'.regs = RegsOf(d) /\ reg_bank' = CacheOf(d)
         /\ ~ faulted' => ~ faulted /\ f < 1
<1>1. chip' = d.chip /\ reg_bank' = d.cache /\ faulted' = (faulted \/ f > 0)
  BY DEF Sent
<1>2. IsChip(d.chip) /\ d.cache \in Banks \cup {"none"}
  BY DEF IsDriver
<1>3. faulted' \in BOOLEAN
  BY <1>1
<1>4. SensorIs'
  <2>1. IsChip(chip') /\ reg_bank' \in Banks \cup {"none"}
    BY <1>1, <1>2
  <2> QED BY ONLY <2>1, <1>3, Zenon DEF SensorIs
<1>5. ~ faulted' => ~ faulted /\ f < 1
  <2>1. f > 0 \/ f < 1
    OBVIOUS
  <2>2. faulted' = (faulted \/ f > 0)
    BY <1>1
  <2> QED BY ONLY <2>1, <2>2, Zenon
<1> QED BY <1>1, <1>4, <1>5 DEF BankOf, RegsOf, CacheOf

LEMMA FaultIs == ASSUME NEW n \in Int, NEW f \in Faults(n) PROVE f \in Int
BY DEF Faults

\* The number of transfers of each operation.
LEMMA Counts ==
  /\ Len(ResetOps) \in Int /\ Len(PixformatOps("JPEG")) \in Int
  /\ Len(FramesizeOps(0)) \in Int /\ Len(Defaults) \in Int /\ Len(StatusOrder) \in Int
  /\ \A p \in Settings : \A x : Len(SetOps(p, x)) \in Int
<1>1. Len(ResetOps) \in Int
  BY ResetOpsAre
<1>2. Len(PixformatOps("JPEG")) \in Int
  BY PixformatTransfers DEF Transfers
<1>3. Len(FramesizeOps(0)) \in Int
  BY FramesizeTransfers DEF Transfers
<1>4. Len(Defaults) \in Int
  BY DEF Defaults
<1>5. Len(StatusOrder) \in Int
  BY StatusPart
<1>6. ASSUME NEW p \in Settings, NEW x PROVE Len(SetOps(p, x)) \in Int
  BY SetTransfers DEF Transfers
<1> QED BY <1>1, <1>2, <1>3, <1>4, <1>5, <1>6

LEMMA OrderIs ==
  \A p \in ToSet(StatusOrder) : \E j \in 1..16 : p = StatusOrder[j]
<1>1. ToSet(StatusOrder) = {StatusOrder[j] : j \in DOMAIN StatusOrder}
  BY DEF ToSet
<1>2. DOMAIN StatusOrder = 1..16
  BY DEF StatusOrder
<1> QED BY <1>1, <1>2

LEMMA StatusParts ==
  ASSUME NEW p \in ToSet(StatusOrder)
  PROVE  /\ p \in Settings /\ p \in Parts /\ p \notin Beside /\ p # "wb_mode"
         /\ p \in PictureParts => p \in {"dcw", "colorbar"}
<1>1. p \in Settings /\ p \in Parts
  BY OrderIs, StatusPart
<1>2. p \notin Beside
  BY <1>1 DEF Settings, Beside
<1>3. p \in PictureParts => p \in {"dcw", "colorbar"}
  BY <1>1 DEF Settings, PictureParts
<1>4. p # "wb_mode"
  <2>1. PICK j \in 1..16 : p = StatusOrder[j]
    BY OrderIs
  <2>2. \A i \in 1..16 : StatusOrder[i] # "wb_mode"
    BY DEF StatusOrder
  <2> QED BY <2>1, <2>2
<1> QED BY <1>1, <1>2, <1>3, <1>4

-----------------------------------------------------------------------------
(* The sensor: the steps that leave it alone.                              *)

\* A step that asks nothing new of the sensor.
LEMMA Quiet ==
  ASSUME SensorInv, UNCHANGED <<model, chip, reg_bank, faulted>>, StatusIs', SizeIsAsked',
         call' \notin AfterSize \cup {"software reset"},
         call' \in AfterReset => call \in AfterReset,
         Ready' => Ready /\ state' = state
  PROVE  SensorInv'
<1>1. SensorIs'
  BY DEF SensorInv, SensorIs
<1>2. ModelIs'
  BY DEF SensorInv, ModelIs
<1>3. BankInv' /\ SizeInv'
  BY DEF SensorInv, BankInv, SizeInv, BankKnown
<1>4. ReadyInv'
  BY DEF SensorInv, ReadyInv, BankKnown, Sends, Shows
<1> QED BY <1>1, <1>2, <1>3, <1>4 DEF SensorInv

\* A step to where nothing is known of the sensor.
LEMMA Away ==
  ASSUME SensorIs', ModelIs', StatusIs', call' \notin AfterReset, ~ Ready'
  PROVE  SensorInv'
<1>1. SizeIsAsked' /\ BankInv' /\ SizeInv'
  BY DEF SizeIsAsked, BankInv, SizeInv, AfterReset, AfterSize
<1>2. ReadyInv'
  BY DEF ReadyInv
<1> QED BY <1>1, <1>2 DEF SensorInv

LEMMA ProbeSensor ==
  ASSUME SetupInv, SensorInv, NullIsNoState, Probe, ~ ProbeSoftwareReset
  PROVE  SensorInv'
<1>0. SensorIs /\ StatusIs
  BY DEF SensorInv
<1>1. CASE ProbeAlloc
  <2>1. UNCHANGED <<model, chip, reg_bank, faulted>> /\ call' \in {"reset", "undo"}
    BY <1>1 DEF ProbeAlloc, sensor
  <2>2. state' = NewState \/ state' = state
    BY <1>1 DEF ProbeAlloc
  <2>3. StatusIs'
    <3>1. IsStatus(NewState.status)
      BY DEF NewState, IsStatus
    <3> QED BY <1>0, <2>2, <3>1 DEF StatusIs
  <2>4. SizeIsAsked'
    BY <2>1 DEF SizeIsAsked
  <2> QED BY <2>1, <2>3, <2>4, Quiet DEF AfterReset, AfterSize, Ready
<1>2. CASE ProbeReset
  <2>1. PICK f \in 0..2 :
          /\ chip' = IF config.reset_pin THEN Reset(chip) ELSE SoftReset(f)
          /\ faulted' = (f > 0)
    BY <1>2 DEF ProbeReset
  <2>2. call' = "search" /\ UNCHANGED <<state, model, reg_bank>>
    BY <1>2 DEF ProbeReset
  <2>3. IsChip(chip')
    <3>1. IsChip(chip)
      BY <1>0 DEF SensorIs
    <3>2. IsChip(Reset(chip))
      BY <3>1, ResetIs
    <3>3. IsChip(SoftReset(f))
      <4> DEFINE selected == IF f = 1 THEN chip ELSE [chip EXCEPT !.bank = "sensor"]
      <4>1. IsChip([chip EXCEPT !.bank = "sensor"])
        BY <3>1 DEF IsChip, Banks
      <4>2. IsChip(selected)
        BY <3>1, <4>1
      <4>3. SoftReset(f) = IF f # 2 /\ selected.bank = "sensor" THEN Reset(selected) ELSE selected
        BY DEF SoftReset
      <4> HIDE DEF selected
      <4>4. IsChip(Reset(selected))
        BY <4>2, ResetIs
      <4> QED BY <4>2, <4>3, <4>4
    <3> QED BY <2>1, <3>2, <3>3
  <2>4. SensorIs'
    <3>1. reg_bank' \in Banks \cup {"none"}
      BY <1>0, <2>2 DEF SensorIs
    <3>2. faulted' \in BOOLEAN
      BY <2>1
    <3> QED BY ONLY <2>3, <3>1, <3>2, Zenon DEF SensorIs
  <2>5. StatusIs'
    BY <1>0, <2>2 DEF StatusIs
  <2>6. ModelIs' /\ ~ Ready'
    BY <2>2 DEF ModelIs, AfterReset, Ready
  <2> QED BY <2>2, <2>4, <2>5, <2>6, Away DEF AfterReset
<1>3. CASE ProbeSearch
  <2>1. PICK answers \in BOOLEAN, pid \in {model, "misread"} :
          LET known == answers /\ pid \in {"ov2640", "ov7725"}
              fault == ~ answers \/ pid = "misread"
          IN  /\ faulted' = (faulted \/ fault)
              /\ call' = IF known THEN "software reset" ELSE "undo"
              /\ state' = IF known THEN [state EXCEPT !.model = pid] ELSE state
    BY <1>3 DEF ProbeSearch
  <2>2. UNCHANGED <<model, chip, reg_bank>>
    BY <1>3 DEF ProbeSearch
  <2>3. call' \in {"software reset", "undo"} /\ (call' = "software reset" => model' \in {"ov2640", "ov7725"})
    BY <2>1, <2>2
  <2>4. state' = state \/ \E e : state' = [state EXCEPT !.model = e]
    BY <2>1
  <2>5. SensorIs'
    <3>1. faulted' = (faulted \/ (~ answers \/ pid = "misread"))
      BY <2>1
    <3>2. faulted' \in BOOLEAN
      BY ONLY <3>1, Zenon
    <3>3. IsChip(chip') /\ reg_bank' \in Banks \cup {"none"}
      BY <1>0, <2>2 DEF SensorIs
    <3> QED BY ONLY <3>2, <3>3, Zenon DEF SensorIs
  <2>6. StatusIs'
    <3>1. CASE state' = state
      BY <1>0, <3>1 DEF StatusIs
    <3>2. CASE \E e : state' = [state EXCEPT !.model = e]
      <4>1. PICK e : state' = [state EXCEPT !.model = e]
        BY <3>2
      <4>2. call = "search"
        BY <1>3 DEF ProbeSearch
      <4>3. IsState(state) /\ state # NULL
        BY <4>2, StateThere
      <4>4. state'.status = state.status
        BY <4>1, <4>3, ModelUpdate, StatusLeft
      <4> QED BY <1>0, <4>3, <4>4 DEF StatusIs
    <3> QED BY <2>4, <3>1, <3>2
  <2>7. ModelIs' /\ ~ Ready'
    BY <2>3 DEF ModelIs, AfterReset, Ready
  <2> QED BY <2>3, <2>5, <2>6, <2>7, Away DEF AfterReset
<1>4. CASE Undo
  <2>1. call' = "idle" /\ state' = NULL /\ UNCHANGED <<model, chip, reg_bank, faulted>>
    BY <1>4 DEF Undo, sensor
  <2>2. StatusIs' /\ SizeIsAsked' /\ ~ Ready'
    BY <2>1 DEF StatusIs, SizeIsAsked, Ready
  <2> QED BY <2>1, <2>2, Quiet DEF AfterReset, AfterSize
<1> QED BY <1>1, <1>2, <1>3, <1>4 DEF Probe

\* What is acquired has nothing to do with the sensor.
LEMMA AcquisitionSensor ==
  ASSUME SetupInv, SensorInv, Acquisition, ~ InitFormat, ~ AddVsyncIsr
  PROVE  SensorInv'
<1> USE DEF MakeDmaArray, MakeDmaDescriptors, MakeDataReady, MakeFrameReady, MakeTask
<1>0. StatusIs
  BY DEF SensorInv
<1>1. \/ MakeDmaArray \/ MakeDmaDescriptors \/ MakeDataReady \/ MakeFrameReady \/ MakeTask
      \/ I2sInit \/ MakeDmaBuffers \/ FbInit \/ MakeFbQueues
  BY DEF Acquisition
<1>2. call \in AfterReset
  BY <1>1 DEF AfterReset, I2sInit, MakeDmaBuffers, FbInit, MakeFbQueues
<1>3. UNCHANGED <<model, chip, reg_bank, faulted>>
  BY <1>1 DEF I2sInit, MakeDmaBuffers, FbInit, MakeFbQueues, sensor
<1>4. call' \in {"dma array", "dma descriptors", "dma buffers", "frame buffers", "data ready",
                 "exchange", "task", "vsync", "delete task"}
  BY <1>1 DEF I2sInit, MakeDmaBuffers, FbInit, MakeFbQueues, Acquire, Then
<1>5. IsState(state) /\ state # NULL
  BY <1>2, StateThere
<1>6. state'.status = state.status
  <2>1. CASE MakeDmaArray \/ MakeDmaDescriptors \/ MakeDataReady \/ MakeFrameReady \/ MakeTask
    <3>1. PICK r, next : Acquire(r, next)
      BY <2>1
    <3>2. state' = state \/ Only({"has"})
      BY <1>5, <3>1, AcquireIs
    <3> QED BY <3>2, StatusLeft
  <2>2. CASE I2sInit
    <3>1. PICK e, d, z : state' = [state EXCEPT !.has = e, !.dmaCount = d, !.dmaSize = z]
      BY <2>2 DEF I2sInit
    <3> QED BY <1>5, <3>1, BufferUpdate, StatusLeft
  <2>3. CASE MakeDmaBuffers
    <3>1. PICK e : state' = [state EXCEPT !.formed = e]
      BY <2>3 DEF MakeDmaBuffers
    <3> QED BY <1>5, <3>1, FormedUpdate, StatusLeft
  <2>4. CASE FbInit \/ MakeFbQueues
    <3>1. state' = state \/ \E e : state' = [state EXCEPT !.has = e]
      BY <2>4 DEF FbInit, MakeFbQueues
    <3>2. ASSUME NEW e, state' = [state EXCEPT !.has = e] PROVE state'.status = state.status
      BY <1>5, <3>2, HasUpdate, StatusLeft
    <3> QED BY <3>1, <3>2
  <2> QED BY <1>1, <2>1, <2>2, <2>3, <2>4
<1>7. StatusIs' /\ SizeIsAsked' /\ ~ Ready'
  BY <1>0, <1>4, <1>5, <1>6 DEF StatusIs, SizeIsAsked, Ready
<1> QED BY <1>2, <1>3, <1>4, <1>7, Quiet DEF AfterSize

\* With the handler, the size and the format that were asked for are noted.
LEMMA IsrSensor ==
  ASSUME SetupInv, SensorInv, AddVsyncIsr
  PROVE  SensorInv'
<1>0. StatusIs
  BY DEF SensorInv
<1>1. call = "vsync" /\ UNCHANGED <<config, model, chip, reg_bank, faulted>>
  BY DEF AddVsyncIsr, sensor
<1>2. IsState(state) /\ state # NULL
  BY <1>1, StateThere DEF AfterReset
<1>3. CASE call' = "delete task" /\ state' = state
  <2>1. StatusIs' /\ SizeIsAsked' /\ ~ Ready'
    BY <1>0, <1>3 DEF StatusIs, SizeIsAsked, Ready
  <2> QED BY <1>1, <1>3, <2>1, Quiet DEF AfterReset, AfterSize
<1>4. CASE /\ call' = "frame size"
           /\ state' = [state EXCEPT !.framesize = config.framesize, !.pixformat = config.format]
  <2>1. state'.framesize = config.framesize /\ state'.pixformat = config.format
    <3>1. DOMAIN state = Fields
      BY <1>2 DEF IsState
    <3> QED BY <1>4, <3>1 DEF Fields
  <2>2. state'.status = state.status
    BY <1>2, <1>4, PictureUpdate, StatusLeft
  <2>3. StatusIs' /\ ~ Ready'
    BY <1>0, <1>2, <1>4, <2>2 DEF StatusIs, Ready
  <2>4. SizeIsAsked'
    BY <1>1, <2>1 DEF SizeIsAsked
  <2> QED BY <1>1, <1>4, <2>3, <2>4, Quiet DEF AfterReset, AfterSize
<1> QED BY <1>3, <1>4 DEF AddVsyncIsr, Then

\* So do esp_camera_init, deinit, a picture and a restart.
LEMMA RestSensor ==
  ASSUME SetupInv, SensorInv, Bounds,
         EspCameraInit \/ FbGet \/ FrameDone \/ Deinit \/ Reboot \/ UNCHANGED vars
  PROVE  SensorInv'
<1>0. StatusIs /\ SensorIs
  BY DEF SensorInv
<1>1. CASE EspCameraInit
  <2>1. call' = "probe" /\ UNCHANGED <<state, model, chip, reg_bank, faulted>>
    BY <1>1 DEF EspCameraInit, memory, sensor
  <2>2. StatusIs' /\ SizeIsAsked' /\ ~ Ready'
    BY <1>0, <2>1 DEF StatusIs, SizeIsAsked, Ready
  <2> QED BY <2>1, <2>2, Quiet DEF AfterReset, AfterSize
<1>2. CASE FbGet \/ FrameDone
  <2>1. call = "idle" /\ UNCHANGED <<call, config, state, model, chip, reg_bank, faulted>>
    BY <1>2 DEF FbGet, FrameDone, Ready, memory, sensor
  <2>2. StatusIs' /\ SizeIsAsked' /\ (Ready' => Ready)
    BY <1>0, <2>1 DEF StatusIs, SizeIsAsked, Ready
  <2> QED BY <2>1, <2>2, Quiet DEF AfterReset, AfterSize
<1>3. CASE Deinit
  <2>1. UNCHANGED <<model, chip, reg_bank, faulted>>
    BY <1>3 DEF Deinit, EspCameraDeinit, DeleteTask, DeleteQueues, RemoveIsrs, FreeDma, FreeRest,
                memory, sensor
  <2>2. /\ call' \in {"delete task", "delete queues", "remove isr", "free dma", "free rest", "idle"}
        /\ state' = NULL \/ (state' = state /\ call' # "idle")
    BY <1>3 DEF Deinit, EspCameraDeinit, DeleteTask, DeleteQueues, RemoveIsrs, FreeDma, FreeRest,
                FreeStep, memory
  <2>3. StatusIs' /\ SizeIsAsked' /\ ~ Ready'
    BY <1>0, <2>2 DEF StatusIs, SizeIsAsked, Ready
  <2> QED BY <2>1, <2>2, <2>3, Quiet DEF AfterReset, AfterSize
<1>4. CASE Reboot
  <2>1. call' = "idle" /\ state' = NULL /\ chip' = chip /\ reg_bank' = "none" /\ faulted' = FALSE
    BY <1>4 DEF Reboot
  <2>2. SensorIs'
    <3>1. IsChip(chip') /\ reg_bank' \in Banks \cup {"none"}
      BY <1>0, <2>1 DEF SensorIs
    <3>2. faulted' \in BOOLEAN
      BY <2>1
    <3> QED BY ONLY <3>1, <3>2, Zenon DEF SensorIs
  <2>3. StatusIs' /\ ModelIs' /\ ~ Ready'
    BY <2>1 DEF StatusIs, ModelIs, Ready, AfterReset
  <2> QED BY <2>1, <2>2, <2>3, Away DEF AfterReset
<1>5. CASE UNCHANGED vars
  <2>1. UNCHANGED <<call, config, state, model, chip, reg_bank, faulted>>
    BY <1>5 DEF vars, memory, sensor
  <2>2. SensorIs' /\ ModelIs' /\ StatusIs' /\ SizeIsAsked'
    BY <2>1 DEF SensorInv, SensorIs, ModelIs, StatusIs, SizeIsAsked
  <2>3. BankInv' /\ SizeInv' /\ ReadyInv'
    BY <2>1 DEF SensorInv, BankInv, SizeInv, ReadyInv, Ready, BankKnown, Sends, Shows
  <2> QED BY <2>2, <2>3 DEF SensorInv
<1> QED BY <1>1, <1>2, <1>3, <1>4, <1>5

-----------------------------------------------------------------------------
(* The sensor: the steps that talk to it.                                  *)

\* sensor.reset: whatever the bank was taken for, it selects one, and the last
\* of its tables the other.
LEMMA SoftwareResetSensor ==
  ASSUME SensorInv, ProbeSoftwareReset
  PROVE  SensorInv'
<1>0. SensorIs /\ StatusIs /\ model \in {"ov2640", "ov7725"}
  BY DEF SensorInv, ModelIs, ProbeSoftwareReset
<1>1. call' \in {"undo", "format"} /\ UNCHANGED <<state, model>>
  BY DEF ProbeSoftwareReset, memory
<1>2. PICK f \in Faults(IF model = "ov2640" THEN Len(ResetOps) ELSE 0) :
        Sent(IF model = "ov2640" THEN Run(Driver, ResetOps, f) ELSE Driver, f)
  BY DEF ProbeSoftwareReset
<1>3. f \in Int
  BY Counts, FaultIs
<1>4. PICK d : d = IF model = "ov2640" THEN Run(Driver, ResetOps, f) ELSE Driver
  OBVIOUS
<1>5. IsDriver(Driver)
  BY <1>0, DriverNow
<1>6. IsDriver(d)
  BY <1>3, <1>4, <1>5, ResetKeeps
<1>7. Sent(d, f)
  BY <1>2, <1>4
<1>8. /\ SensorIs' /\ chip'.bank = BankOf(d) /\ reg_bank' = CacheOf(d)
      /\ ~ faulted' => ~ faulted /\ f < 1
  BY <1>0, <1>3, <1>6, <1>7, SentNow
<1>9. ~ faulted' /\ model = "ov2640" => reg_bank' = chip'.bank
  <2> SUFFICES ASSUME ~ faulted', model = "ov2640" PROVE reg_bank' = chip'.bank
    OBVIOUS
  <2>1. f < 1 /\ d = Run(Driver, ResetOps, f)
    BY <1>4, <1>8
  <2>2. Agrees(d)
    BY <1>3, <1>5, <2>1, ResetRun
  <2> QED BY <1>8, <2>2 DEF Agrees
<1>10. BankInv'
  BY <1>1, <1>9 DEF BankInv, BankKnown
<1>11. StatusIs' /\ ModelIs' /\ SizeIsAsked' /\ SizeInv' /\ ReadyInv'
  BY <1>0, <1>1 DEF StatusIs, ModelIs, SizeIsAsked, SizeInv, ReadyInv, Ready, AfterSize
<1> QED BY <1>8, <1>10, <1>11 DEF SensorInv

\* What a step that sends has to show once the driver of it, d, is known.
LEMMA SendsOn ==
  ASSUME SensorInv, call \in AfterReset, NEW d, IsDriver(d), NEW f \in Int, Sent(d, f),
         UNCHANGED model, StatusIs', SizeIsAsked', call' # "software reset",
         ~ faulted /\ f < 1 /\ model = "ov2640" =>
           /\ CacheOf(d) = BankOf(d)
           /\ call' \in AfterSize => Pictured(RegsOf(d), state'.framesize, state'.pixformat),
         ~ Ready'
  PROVE  SensorInv'
<1>1. SensorIs
  BY DEF SensorInv
<1>2. /\ SensorIs' /\ chip'.bank = BankOf(d) /\ chip'.regs = RegsOf(d) /\ reg_bank' = CacheOf(d)
      /\ ~ faulted' => ~ faulted /\ f < 1
  BY <1>1, SentNow
<1>3. ModelIs'
  BY DEF SensorInv, ModelIs
<1>4. BankInv'
  BY <1>2 DEF BankInv, BankKnown
<1>5. SizeInv'
  BY <1>2 DEF SizeInv, Sends
<1>6. ReadyInv'
  BY DEF ReadyInv
<1> QED BY <1>2, <1>3, <1>4, <1>5, <1>6 DEF SensorInv

\* Before a step of init that sends, the driver knows the bank if nothing failed.
LEMMA KnownBefore ==
  ASSUME SensorInv, call \in AfterReset, ~ faulted, model = "ov2640"
  PROVE  CacheOf(Driver) = BankOf(Driver)
<1>1. SensorIs /\ reg_bank = chip.bank
  BY DEF SensorInv, BankInv, BankKnown
<1> QED BY <1>1, DriverNow

LEMMA FormatSensor ==
  ASSUME SetupInv, SensorInv, InitFormat
  PROVE  SensorInv'
<1>0. SensorIs /\ StatusIs
  BY DEF SensorInv
<1>1. call = "format" /\ call' \in {"i2s", "delete task"} /\ model' = model
  BY DEF InitFormat, Then
<1>2. PICK f \in Faults(IF Jpeg(config) THEN 2 ELSE 0) :
        Sent(IF Jpeg(config) THEN Set(Driver, "quality", config.quality, f) ELSE Driver, f)
  BY DEF InitFormat
<1>3. f \in Int
  BY FaultIs
<1>4. PICK d : d = IF Jpeg(config) THEN Set(Driver, "quality", config.quality, f) ELSE Driver
  OBVIOUS
<1>5. IsDriver(Driver) /\ "quality" \in Settings
  BY <1>0, DriverNow DEF Settings, Parts, Place
<1>6. IsDriver(d)
  BY <1>3, <1>4, <1>5, SetKeeps
<1>7. Sent(d, f)
  BY <1>2, <1>4
<1>8. ASSUME ~ faulted, f < 1, model = "ov2640" PROVE CacheOf(d) = BankOf(d)
  <2>1. CacheOf(Driver) = BankOf(Driver)
    BY <1>1, <1>8, KnownBefore DEF AfterReset
  <2>2. CASE Jpeg(config)
    <3>1. d = Set(Driver, "quality", config.quality, f)
      BY <1>4, <2>2
    <3>2. Agrees(d)
      BY <1>3, <1>5, <1>8, <2>1, <3>1, SetRun
    <3> QED BY <3>2 DEF Agrees
  <2>3. CASE ~ Jpeg(config)
    BY <1>4, <2>1, <2>3
  <2> QED BY <2>2, <2>3
<1>9. IsState(state) /\ state # NULL
  BY <1>1, StateThere DEF AfterReset
<1>10. StatusIs'
  <2>1. PICK e, x : state' = [state EXCEPT !.fbSize = e, !.status.quality = x]
    BY DEF InitFormat
  <2>2. DOMAIN state = Fields
    BY <1>9 DEF IsState
  <2>3. state'.status = [state.status EXCEPT !.quality = x]
    BY <2>1, <2>2 DEF Fields
  <2>4. IsStatus(state.status)
    BY <1>0, <1>9 DEF StatusIs
  <2>5. IsStatus(state'.status)
    BY <2>3, <2>4 DEF IsStatus
  <2> QED BY <2>5 DEF StatusIs
<1>11. SizeIsAsked' /\ ~ Ready' /\ call' \notin AfterSize /\ call' # "software reset" /\ call \in AfterReset
  BY <1>1 DEF SizeIsAsked, Ready, AfterSize, AfterReset
<1> QED BY <1>1, <1>3, <1>6, <1>7, <1>8, <1>10, <1>11, SendsOn

LEMMA FramesizeSensor ==
  ASSUME SensorInv, InitFramesize
  PROVE  SensorInv'
<1>0. SensorIs /\ StatusIs /\ state.framesize = config.framesize /\ state.pixformat = config.format
      /\ model \in {"ov2640", "ov7725"}
  BY DEF SensorInv, SizeIsAsked, InitFramesize, ModelIs, AfterReset
<1>1. call = "frame size" /\ call' \in {"pixformat", "delete task"} /\ UNCHANGED <<config, state, model>>
  BY DEF InitFramesize, Then, memory
<1>2. StatusIs' /\ SizeIsAsked' /\ ~ Ready' /\ call' # "software reset" /\ call \in AfterReset
  BY <1>0, <1>1 DEF StatusIs, SizeIsAsked, Ready, AfterReset
<1>3. CASE model = "ov2640"
  <2>1. PICK f \in Faults(Len(FramesizeOps(0)) + Len(PixformatOps("JPEG"))) :
          Sent(SetFramesize(Driver, config.framesize, config.format, f), f)
    BY <1>3 DEF InitFramesize
  <2>2. f \in Int
    <3>1. Len(FramesizeOps(0)) + Len(PixformatOps("JPEG")) \in Int
      BY Counts
    <3> QED BY <3>1, FaultIs
  <2>3. PICK d : d = SetFramesize(Driver, config.framesize, config.format, f)
    OBVIOUS
  <2>4. IsDriver(Driver)
    BY <1>0, DriverNow
  <2>5. IsDriver(d) /\ Sent(d, f)
    BY <2>1, <2>2, <2>3, <2>4, SetFramesizeKeeps
  <2>6. ASSUME ~ faulted, f < 1
        PROVE  CacheOf(d) = BankOf(d) /\ Pictured(RegsOf(d), state'.framesize, state'.pixformat)
    <3>1. CacheOf(Driver) = BankOf(Driver)
      BY <1>2, <1>3, <2>6, KnownBefore
    <3>2. Agrees(d) /\ Pictured(RegsOf(d), config.framesize, config.format)
      BY <2>2, <2>3, <2>4, <2>6, <3>1, SetFramesizeRun
    <3> QED BY <1>0, <1>1, <3>2 DEF Agrees
  <2> QED BY <1>1, <1>2, <2>2, <2>5, <2>6, SendsOn
<1>4. CASE model = "ov7725"
  <2>1. PICK ok \in BOOLEAN : faulted' = (faulted \/ ~ ok) /\ chip' = chip /\ reg_bank' = reg_bank
    BY <1>4 DEF InitFramesize
  <2>2. SensorIs'
    <3>1. IsChip(chip') /\ reg_bank' \in Banks \cup {"none"}
      BY <1>0, <2>1 DEF SensorIs
    <3>2. faulted' \in BOOLEAN
      BY <2>1
    <3> QED BY ONLY <3>1, <3>2, Zenon DEF SensorIs
  <2>3. ModelIs' /\ BankInv' /\ SizeInv' /\ ReadyInv'
    BY <1>1, <1>2, <1>4 DEF ModelIs, BankInv, SizeInv, ReadyInv
  <2> QED BY <1>2, <2>2, <2>3 DEF SensorInv
<1> QED BY <1>0, <1>3, <1>4

LEMMA PixformatSensor ==
  ASSUME SensorInv, InitPixformat
  PROVE  SensorInv'
<1>0. SensorIs /\ StatusIs /\ state.framesize = config.framesize /\ state.pixformat = config.format
      /\ model \in {"ov2640", "ov7725"}
  BY DEF SensorInv, SizeIsAsked, InitPixformat, ModelIs, AfterReset
<1>1. call = "pixformat" /\ call' \in {"tune", "status"} /\ UNCHANGED <<config, state, model>>
  BY DEF InitPixformat, memory
<1>2. StatusIs' /\ SizeIsAsked' /\ ~ Ready' /\ call' # "software reset" /\ call \in AfterReset
  BY <1>0, <1>1 DEF StatusIs, SizeIsAsked, Ready, AfterReset
<1>3. CASE model = "ov2640"
  <2>1. PICK f \in Faults(Len(PixformatOps("JPEG"))) : Sent(Run(Driver, PixformatOps(config.format), f), f)
    BY <1>3 DEF InitPixformat
  <2>2. f \in Int
    BY Counts, FaultIs
  <2>3. PICK d : d = Run(Driver, PixformatOps(config.format), f)
    OBVIOUS
  <2>4. IsDriver(Driver) /\ RegsOf(Driver) = chip.regs
    BY <1>0, DriverNow
  <2>5. IsDriver(d) /\ Sent(d, f)
    BY <2>1, <2>2, <2>3, <2>4, TransfersKeep, PixformatTransfers
  <2>6. ASSUME ~ faulted, f < 1
        PROVE  CacheOf(d) = BankOf(d) /\ Pictured(RegsOf(d), state'.framesize, state'.pixformat)
    <3>1. CacheOf(Driver) = BankOf(Driver)
      BY <1>2, <1>3, <2>6, KnownBefore
    <3>2. /\ Agrees(d) /\ RegsOf(d)["held"] = 0 /\ RegsOf(d)["mode"] = Mode(config.format)
          /\ \A p \in Parts \ {"held", "mode"} : RegsOf(d)[p] = RegsOf(Driver)[p]
      BY <2>2, <2>3, <2>4, <2>6, <3>1, PixformatRun
    <3>3. {"bypass", "outsize", "window", "res", "dcw", "colorbar"} \subseteq Parts
      BY DEF Parts, Place
    <3>4. Pictured(chip.regs, state.framesize, state.pixformat)
      BY <1>1, <1>3, <2>6 DEF SensorInv, SizeInv, Sends, AfterSize
    <3>5. Pictured(RegsOf(d), state.framesize, state.pixformat)
      BY <1>0, <2>4, <3>2, <3>3, <3>4 DEF Pictured
    <3> QED BY <1>1, <3>2, <3>5 DEF Agrees
  <2> QED BY <1>1, <1>2, <2>2, <2>5, <2>6, SendsOn
<1>4. CASE model = "ov7725"
  <2>1. UNCHANGED <<chip, reg_bank, faulted>>
    BY <1>4 DEF InitPixformat, sensor
  <2>2. SensorIs'
    BY <1>0, <2>1 DEF SensorIs
  <2>3. ModelIs' /\ BankInv' /\ SizeInv' /\ ReadyInv'
    BY <1>1, <1>2, <1>4 DEF ModelIs, BankInv, SizeInv, ReadyInv
  <2> QED BY <1>2, <2>2, <2>3 DEF SensorInv
<1> QED BY <1>0, <1>3, <1>4

LEMMA PictureSame ==
  ASSUME NEW g, NEW h, NEW s, NEW format, \A q \in PictureParts : g[q] = h[q], Pictured(h, s, format)
  PROVE  Pictured(g, s, format)
BY DEF PictureParts, Pictured

LEMMA TuneSensor ==
  ASSUME SensorInv, InitTune
  PROVE  SensorInv'
<1>0. SensorIs /\ StatusIs
  BY DEF SensorInv
<1>1. call = "tune" /\ call' = "status" /\ UNCHANGED <<config, state, model>>
  BY DEF InitTune, memory
<1>2. StatusIs' /\ SizeIsAsked' /\ ~ Ready' /\ call' # "software reset" /\ call \in AfterReset
  BY <1>0, <1>1 DEF StatusIs, SizeIsAsked, Ready, AfterReset
<1>3. PICK f \in Faults(3 * Len(Defaults)) : Sent(TuneDefaults(Driver, f), f)
  BY DEF InitTune
<1>4. f \in Int
  <2>1. 3 * Len(Defaults) \in Int
    BY Counts
  <2> QED BY <2>1, FaultIs
<1>5. PICK d : d = TuneDefaults(Driver, f)
  OBVIOUS
<1>6. IsDriver(Driver) /\ RegsOf(Driver) = chip.regs
  BY <1>0, DriverNow
<1>7. IsDriver(d) /\ Sent(d, f)
  BY <1>3, <1>4, <1>5, <1>6, TuneKeeps
<1>8. ASSUME ~ faulted, f < 1, model = "ov2640"
      PROVE  CacheOf(d) = BankOf(d) /\ Pictured(RegsOf(d), state'.framesize, state'.pixformat)
  <2>1. CacheOf(Driver) = BankOf(Driver)
    BY <1>2, <1>8, KnownBefore
  <2>2. CacheOf(d) = BankOf(d) /\ \A q \in PictureParts : RegsOf(d)[q] = RegsOf(Driver)[q]
    BY <1>4, <1>5, <1>6, <1>8, <2>1, TuneRun
  <2>3. Pictured(RegsOf(Driver), state.framesize, state.pixformat)
    BY <1>1, <1>6, <1>8 DEF SensorInv, SizeInv, Sends, AfterSize
  <2>4. Pictured(RegsOf(d), state.framesize, state.pixformat)
    BY <2>2, <2>3, PictureSame
  <2> QED BY <1>1, <2>2, <2>4
<1> QED BY <1>1, <1>2, <1>4, <1>7, <1>8, SendsOn

\* What a step that leaves the driver ready has to show.
LEMMA ReadyAgain ==
  ASSUME SensorInv, NEW d, IsDriver(d), NEW f \in Int, Sent(d, f),
         UNCHANGED model, StatusIs', call' = "idle",
         ~ faulted /\ f < 1 =>
           /\ CacheOf(d) = BankOf(d) /\ Pictured(RegsOf(d), state'.framesize, state'.pixformat)
           /\ \A p \in ToSet(StatusOrder) : RegsOf(d)[p] = state'.status[p]
  PROVE  SensorInv'
<1>1. SensorIs
  BY DEF SensorInv
<1>2. /\ SensorIs' /\ chip'.bank = BankOf(d) /\ chip'.regs = RegsOf(d) /\ reg_bank' = CacheOf(d)
      /\ ~ faulted' => ~ faulted /\ f < 1
  BY <1>1, SentNow
<1>3. ModelIs' /\ SizeIsAsked' /\ BankInv' /\ SizeInv'
  BY DEF ModelIs, SizeIsAsked, BankInv, SizeInv, AfterReset, AfterSize
<1>4. ReadyInv'
  BY <1>2 DEF ReadyInv, BankKnown, Sends, Shows
<1> QED BY <1>2, <1>3, <1>4 DEF SensorInv

\* init_status ends init: it reads what the status is to say.
LEMMA StatusSensor ==
  ASSUME SetupInv, SensorInv, InitStatus
  PROVE  SensorInv'
<1>0. SensorIs /\ StatusIs
  BY DEF SensorInv
<1>1. call = "status" /\ UNCHANGED <<config, model>> /\ model \in {"ov2640", "ov7725"}
  BY DEF InitStatus, SensorInv, ModelIs, AfterReset
<1>2. CASE model = "ov7725"
  <2>1. call' = "crash" /\ UNCHANGED <<state, chip, reg_bank, faulted>>
    BY <1>2 DEF InitStatus, sensor
  <2>2. StatusIs' /\ SizeIsAsked' /\ ~ Ready'
    BY <1>0, <2>1 DEF StatusIs, SizeIsAsked, Ready
  <2> QED BY <1>1, <2>1, <2>2, Quiet DEF AfterReset, AfterSize
<1>3. CASE model = "ov2640"
  <2>1. PICK f \in Faults(2 + 2 * Len(StatusOrder)) :
          LET d == IF Jpeg(config) THEN Set(Driver, "quality", config.quality, f) ELSE Driver
              r == ReadStatus(d, f - 2)
          IN  /\ Sent(r.d, f)
              /\ state' = [state EXCEPT !.status = r.status]
              /\ call' = "idle"
    BY <1>3 DEF InitStatus
  <2>2. f \in Int
    <3>1. 2 + 2 * Len(StatusOrder) \in Int
      BY Counts
    <3> QED BY <3>1, FaultIs
  <2>3. PICK d : d = IF Jpeg(config) THEN Set(Driver, "quality", config.quality, f) ELSE Driver
    OBVIOUS
  <2>4. PICK r : r = ReadStatus(d, f - 2)
    OBVIOUS
  <2>5. /\ Sent(DriverOf(r), f) /\ state' = [state EXCEPT !.status = StatusOf(r)] /\ call' = "idle"
    BY <2>1, <2>3, <2>4 DEF DriverOf, StatusOf
  <2>6. IsDriver(Driver) /\ RegsOf(Driver) = chip.regs /\ "quality" \in Settings
    BY <1>0, DriverNow DEF Settings, Parts, Place
  <2>7. IsDriver(d)
    BY <2>2, <2>3, <2>6, SetKeeps
  <2>8. f - 2 \in Int
    BY <2>2
  <2>9. IsDriver(DriverOf(r)) /\ IsStatus(StatusOf(r))
    BY <2>4, <2>7, <2>8, StatusKeeps
  <2>10. IsState(state) /\ state # NULL
    BY <1>1, StateThere DEF AfterReset
  <2>11. state'.status = StatusOf(r) /\ state'.framesize = state.framesize /\ state'.pixformat = state.pixformat
    <3>1. DOMAIN state = Fields
      BY <2>10 DEF IsState
    <3> QED BY <2>5, <3>1 DEF Fields
  <2>12. StatusIs'
    BY <2>9, <2>11 DEF StatusIs
  <2>13. ASSUME ~ faulted, f < 1
         PROVE  /\ CacheOf(DriverOf(r)) = BankOf(DriverOf(r))
                /\ Pictured(RegsOf(DriverOf(r)), state'.framesize, state'.pixformat)
                /\ \A p \in ToSet(StatusOrder) : RegsOf(DriverOf(r))[p] = state'.status[p]
    <3>1. CacheOf(Driver) = BankOf(Driver)
      BY <1>1, <1>3, <2>13, KnownBefore DEF AfterReset
    <3>2. CacheOf(d) = BankOf(d) /\ \A q \in PictureParts : RegsOf(d)[q] = RegsOf(Driver)[q]
      <4>1. CASE Jpeg(config)
        <5>1. d = Set(Driver, "quality", config.quality, f)
          BY <2>3, <4>1
        <5>2. /\ Agrees(d)
              /\ \A q \in Parts \ ({"quality"} \cup Beside) : RegsOf(d)[q] = RegsOf(Driver)[q]
          BY <2>2, <2>6, <2>13, <3>1, <5>1, SetRun
        <5>3. PictureParts \subseteq Parts \ ({"quality"} \cup Beside)
          BY DEF PictureParts, Parts, Place, Beside
        <5> QED BY <5>2, <5>3 DEF Agrees
      <4>2. CASE ~ Jpeg(config)
        BY <2>3, <3>1, <4>2
      <4> QED BY <4>1, <4>2
    <3>3. f - 2 < 1
      BY <2>2, <2>13
    <3>4. /\ CacheOf(DriverOf(r)) = BankOf(DriverOf(r)) /\ RegsOf(DriverOf(r)) = RegsOf(d)
          /\ \A j \in 1..16 : StatusOf(r)[StatusOrder[j]] = RegsOf(d)[StatusOrder[j]]
      BY <2>4, <2>7, <2>8, <3>2, <3>3, StatusRun
    <3>5. Pictured(RegsOf(Driver), state.framesize, state.pixformat)
      BY <1>1, <1>3, <2>6, <2>13 DEF SensorInv, SizeInv, Sends, AfterSize
    <3>6. Pictured(RegsOf(d), state.framesize, state.pixformat)
      BY <3>2, <3>5, PictureSame
    <3>7. ASSUME NEW p \in ToSet(StatusOrder) PROVE RegsOf(DriverOf(r))[p] = state'.status[p]
      <4>1. PICK j \in 1..16 : p = StatusOrder[j]
        BY OrderIs
      <4> QED BY <2>11, <3>4, <4>1
    <3> QED BY <2>11, <3>4, <3>6, <3>7
  <2> QED BY <1>1, <2>2, <2>5, <2>9, <2>12, <2>13, ReadyAgain
<1> QED BY <1>1, <1>2, <1>3

\* The settings whose status is not the part of the register that init_status
\* reads (aec2 is written inverted), or that the size tables write.
TunesKept == DOMAIN Tuned \cap {"aec2", "dcw", "colorbar"} = {}

LEMMA ReadyNow ==
  ASSUME SensorInv, Ready, ~ faulted
  PROVE  /\ CacheOf(Driver) = BankOf(Driver) /\ RegsOf(Driver) = chip.regs
         /\ Pictured(RegsOf(Driver), state.framesize, state.pixformat)
         /\ \A p \in ToSet(StatusOrder) : RegsOf(Driver)[p] = state.status[p]
<1>1. SensorIs /\ BankKnown /\ Sends /\ Shows
  BY DEF SensorInv, ReadyInv
<1>2. CacheOf(Driver) = reg_bank /\ BankOf(Driver) = chip.bank /\ RegsOf(Driver) = chip.regs
  BY <1>1, DriverNow
<1> QED BY <1>1, <1>2 DEF BankKnown, Sends, Shows

\* A setter writes one setting, and what it writes beside it has no status.
LEMMA TunedSensor ==
  ASSUME SetupInv, SensorInv, TunesKept, Tune
  PROVE  SensorInv'
<1>0. SensorIs /\ StatusIs
  BY DEF SensorInv
<1>1. Ready /\ call = "idle" /\ state # NULL /\ UNCHANGED <<call, model>>
  BY DEF Tune, Ready
<1>2. PICK p, y : p \in DOMAIN Tuned /\ \E f \in Faults(Len(SetOps(p, y)) + (IF p = "vflip" THEN 3 ELSE 0)) :
         /\ Sent(Set(Driver, p, Clamp(p, y), f), f)
         /\ state' = [state EXCEPT !.status[p] = Clamp(p, y)]
  BY DEF Tune
<1>3. PICK f \in Faults(Len(SetOps(p, y)) + (IF p = "vflip" THEN 3 ELSE 0)) :
         /\ Sent(Set(Driver, p, Clamp(p, y), f), f)
         /\ state' = [state EXCEPT !.status[p] = Clamp(p, y)]
  BY <1>2
<1>4. p \in Settings /\ p \notin {"aec2", "dcw", "colorbar"}
  BY <1>2, SetupAssumption DEF TunesKept
<1>5. f \in Int
  <2>1. Len(SetOps(p, y)) \in Int
    BY <1>4, Counts
  <2>2. Len(SetOps(p, y)) + (IF p = "vflip" THEN 3 ELSE 0) \in Int
    BY <2>1
  <2> QED BY <2>2, FaultIs
<1>6. PICK x : x = Clamp(p, y)
  OBVIOUS
<1>7. PICK d : d = Set(Driver, p, x, f)
  OBVIOUS
<1>8. IsDriver(Driver)
  BY <1>0, DriverNow
<1>9. IsDriver(d) /\ Sent(d, f)
  BY <1>3, <1>4, <1>5, <1>6, <1>7, <1>8, SetKeeps
<1>10. IsState(state) /\ IsStatus(state.status)
  BY <1>0, <1>1, StateIs DEF StatusIs
<1>11. /\ state'.status = [state.status EXCEPT ![p] = x]
       /\ state'.framesize = state.framesize /\ state'.pixformat = state.pixformat
  <2>1. DOMAIN state = Fields
    BY <1>10 DEF IsState
  <2> QED BY <1>3, <1>6, <2>1 DEF Fields
<1>12. IsStatus(state'.status) /\ state'.status[p] = x /\ \A q \in Settings \ {p} : state'.status[q] = state.status[q]
  BY <1>4, <1>10, <1>11 DEF IsStatus
<1>13. StatusIs'
  BY <1>12 DEF StatusIs
<1>14. ASSUME ~ faulted, f < 1
       PROVE  /\ CacheOf(d) = BankOf(d) /\ Pictured(RegsOf(d), state'.framesize, state'.pixformat)
              /\ \A q \in ToSet(StatusOrder) : RegsOf(d)[q] = state'.status[q]
  <2>1. /\ CacheOf(Driver) = BankOf(Driver)
        /\ Pictured(RegsOf(Driver), state.framesize, state.pixformat)
        /\ \A q \in ToSet(StatusOrder) : RegsOf(Driver)[q] = state.status[q]
    BY <1>1, <1>14, ReadyNow
  <2>2. /\ Agrees(d)
        /\ \A q \in Parts \ ({p} \cup Beside) : RegsOf(d)[q] = RegsOf(Driver)[q]
        /\ p \notin {"wb_mode", "aec2"} => RegsOf(d)[p] = x
    BY <1>4, <1>5, <1>7, <1>8, <1>14, <2>1, SetRun
  <2>3. PictureParts \subseteq Parts \ ({p} \cup Beside)
    BY <1>4 DEF PictureParts, Parts, Place, Beside, Settings
  <2>4. Pictured(RegsOf(d), state'.framesize, state'.pixformat)
    BY <1>11, <2>1, <2>2, <2>3, PictureSame
  <2>5. ASSUME NEW q \in ToSet(StatusOrder) PROVE RegsOf(d)[q] = state'.status[q]
    <3>1. q \in Settings /\ q \in Parts /\ q \notin Beside /\ q # "wb_mode"
      BY StatusParts
    <3>2. CASE q = p
      BY <1>4, <1>12, <2>2, <3>1, <3>2
    <3>3. CASE q # p
      BY <1>12, <2>1, <2>2, <3>1, <3>3
    <3> QED BY <3>2, <3>3
  <2> QED BY <2>2, <2>4, <2>5 DEF Agrees
<1> QED BY <1>1, <1>5, <1>9, <1>13, <1>14, ReadyAgain

\* set_framesize rewrites the picture's parts; two of them are settings, and
\* the tables write what their status says.
LEMMA ResizedSensor ==
  ASSUME SetupInv, SensorInv, Resize
  PROVE  SensorInv'
<1>0. SensorIs /\ StatusIs
  BY DEF SensorInv
<1>1. Ready /\ call = "idle" /\ state # NULL /\ UNCHANGED <<call, model>>
  BY DEF Resize, Ready
<1>2. PICK s \in Resized, f \in Faults(Len(FramesizeOps(0)) + Len(PixformatOps("JPEG"))) :
        /\ Sent(SetFramesize(Driver, s, state.pixformat, f), f)
        /\ state' = [state EXCEPT !.framesize = s]
  BY DEF Resize
<1>3. f \in Int
  <2>1. Len(FramesizeOps(0)) + Len(PixformatOps("JPEG")) \in Int
    BY Counts
  <2> QED BY <2>1, FaultIs
<1>4. PICK d : d = SetFramesize(Driver, s, state.pixformat, f)
  OBVIOUS
<1>5. IsDriver(Driver)
  BY <1>0, DriverNow
<1>6. IsDriver(d) /\ Sent(d, f)
  BY <1>2, <1>3, <1>4, <1>5, SetFramesizeKeeps
<1>7. IsState(state) /\ IsStatus(state.status)
  BY <1>0, <1>1, StateIs DEF StatusIs
<1>8. state'.status = state.status /\ state'.framesize = s /\ state'.pixformat = state.pixformat
  <2>1. DOMAIN state = Fields
    BY <1>7 DEF IsState
  <2> QED BY <1>2, <2>1 DEF Fields
<1>9. StatusIs'
  BY <1>7, <1>8 DEF StatusIs
<1>10. ASSUME ~ faulted, f < 1
       PROVE  /\ CacheOf(d) = BankOf(d) /\ Pictured(RegsOf(d), state'.framesize, state'.pixformat)
              /\ \A q \in ToSet(StatusOrder) : RegsOf(d)[q] = state'.status[q]
  <2>1. /\ CacheOf(Driver) = BankOf(Driver)
        /\ Pictured(RegsOf(Driver), state.framesize, state.pixformat)
        /\ \A q \in ToSet(StatusOrder) : RegsOf(Driver)[q] = state.status[q]
    BY <1>1, <1>10, ReadyNow
  <2>2. /\ Agrees(d) /\ Pictured(RegsOf(d), s, state.pixformat)
        /\ \A q \in Parts \ PictureParts : RegsOf(d)[q] = RegsOf(Driver)[q]
    BY <1>3, <1>4, <1>5, <1>10, <2>1, SetFramesizeRun
  <2>3. \A q \in {"dcw", "colorbar"} : RegsOf(d)[q] = RegsOf(Driver)[q]
    BY <2>1, <2>2 DEF Pictured
  <2>4. ASSUME NEW q \in ToSet(StatusOrder) PROVE RegsOf(d)[q] = state'.status[q]
    <3>1. q \in Parts /\ (q \in PictureParts => q \in {"dcw", "colorbar"})
      BY StatusParts
    <3>2. RegsOf(d)[q] = RegsOf(Driver)[q]
      BY <2>2, <2>3, <3>1
    <3> QED BY <1>8, <2>1, <3>2
  <2> QED BY <1>8, <2>2, <2>4 DEF Agrees
<1> QED BY <1>1, <1>3, <1>6, <1>9, <1>10, ReadyAgain

LEMMA SensorStep ==
  ASSUME Bounds, NullIsNoState, TunesKept
  PROVE  SetupInv /\ SensorInv /\ [Next]_vars => SensorInv'
<1> SUFFICES ASSUME SetupInv, SensorInv, [Next]_vars PROVE SensorInv'
  OBVIOUS
<1>1. CASE Probe
  BY <1>1, ProbeSensor, SoftwareResetSensor
<1>2. CASE Acquisition
  BY <1>2, AcquisitionSensor, FormatSensor, IsrSensor
<1>3. CASE Configuration
  BY <1>3, FramesizeSensor, PixformatSensor, TuneSensor, StatusSensor DEF Configuration
<1>4. CASE Use
  BY <1>4, RestSensor, TunedSensor, ResizedSensor DEF Use
<1>5. CASE EspCameraInit \/ Deinit \/ Reboot \/ UNCHANGED vars
  BY <1>5, RestSensor
<1> QED BY <1>1, <1>2, <1>3, <1>4, <1>5 DEF Next

\* As long as no transfer fails, whatever the sensor's registers and the
\* driver's reg_bank held before, the two agree on the bank, the size, the
\* format and every setting init_status reads (camera_init, the setters and
\* set_framesize of ov2640.c), if the application leaves alone the three
\* settings for which the code breaks that.
THEOREM SensorAndDriverAgree ==
  ASSUME Bounds, NullIsNoState, TunesKept
  PROVE  Spec => []SensorAgrees
<1>1. Init => SensorInv
  <2> SUFFICES ASSUME Init PROVE SensorInv
    OBVIOUS
  <2>1. call = "idle" /\ state = NULL /\ reg_bank = "none" /\ faulted = FALSE
    BY DEF Init
  <2>2. IsChip(chip)
    <3>1. PICK home \in Banks, b \in Banks :
            chip = [bank |-> b, home |-> home, regs |-> [p \in Parts |-> Unknown]]
      BY DEF Init
    <3>2. PICK regs : regs = [p \in Parts |-> Unknown]
      OBVIOUS
    <3>3. regs = [p \in Parts |-> regs[p]]
      BY <3>2
    <3>4. chip = [bank |-> b, home |-> home, regs |-> regs]
      BY <3>1, <3>2
    <3> QED BY <3>3, <3>4 DEF IsChip
  <2>3. SensorIs
    <3>1. reg_bank \in Banks \cup {"none"} /\ faulted \in BOOLEAN
      BY <2>1
    <3> QED BY ONLY <2>2, <3>1, Zenon DEF SensorIs
  <2>4. ModelIs /\ StatusIs /\ SizeIsAsked /\ BankInv /\ SizeInv /\ ReadyInv
    BY <2>1 DEF ModelIs, StatusIs, SizeIsAsked, BankInv, SizeInv, ReadyInv, Ready, AfterReset, AfterSize
  <2> QED BY <2>3, <2>4 DEF SensorInv
<1>2. SetupInv /\ SensorInv /\ [Next]_vars => SensorInv'
  BY SensorStep
<1>3. SensorInv => SensorAgrees
  BY DEF SensorInv, ReadyInv, BankKnown, Sends, Shows, Pictured, SensorAgrees
<1> QED BY <1>1, <1>2, <1>3, SetupAlways, PTL DEF Spec
=============================================================================
