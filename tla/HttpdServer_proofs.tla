------------------------ MODULE HttpdServer_proofs ------------------------
(***************************************************************************)
(* The web server's thread, for every number of clients, slots, requests   *)
(* and datagrams, with and without the LRU purge: the session table and    *)
(* the open sockets agree; a round over the sessions misses none and never *)
(* reads an idle one; and, in a server that no other task queues work for, *)
(* the purge closes the session it chose and makes room.                   *)
(***************************************************************************)
EXTENDS HttpdServer, FiniteSetTheorems, SequenceTheorems, TLAPS

\* A connection that waits to be accepted does so once, and is not open yet.
WaitingApart ==
  /\ backlog \in Seq(Clients)
  /\ \A i \in DOMAIN backlog : backlog[i] \notin open
  /\ \A i, j \in DOMAIN backlog : backlog[i] = backlog[j] => i = j

\* What select reported is still there when the loop comes to it.
ReportsHold ==
  /\ pc = "ctrl" /\ readSet.ctrl => ctrl # <<>>
  /\ pc \in {"ctrl", "sessions", "accept"} /\ readSet.listen => backlog # <<>>

\* The inductive invariant.
TableInv ==
  /\ table \in [Slots -> Clients \cup {NoFd}]
  /\ ctrl \in Seq(Datagrams)
  /\ TableIsOpenSockets
  /\ WaitingApart
  /\ ReportsHold

\* The first datagram is one, and so are those after it.
LEMMA FirstDatagram ==
  ASSUME TableInv, ctrl # <<>>
  PROVE  Head(ctrl) \in Datagrams /\ Tail(ctrl) \in Seq(Datagrams)
BY HeadTailProperties DEF TableInv

\* A datagram that is sent or dropped leaves datagrams in the mailbox.
LEMMA PostedDatagrams ==
  ASSUME ctrl \in Seq(Datagrams), NEW m \in Datagrams
  PROVE  Posted(m) \in Seq(Datagrams) /\ (ctrl # <<>> => Posted(m) # <<>>)
BY AppendProperties DEF Posted

\* Work for a slot with a session is a datagram.
LEMMA CloseDatagram ==
  ASSUME TableInv, NEW s \in Slots, table[s] # NoFd
  PROVE  CloseWork(s) \in Datagrams
BY DEF TableInv, CloseWork, Datagrams

\* Without its head the backlog still waits apart, from the head too.
LEMMA NextWaiting ==
  ASSUME WaitingApart, backlog # <<>>
  PROVE  /\ Head(backlog) \in Clients \ open
         /\ Tail(backlog) \in Seq(Clients)
         /\ \A i \in DOMAIN Tail(backlog) :
              Tail(backlog)[i] \notin open \cup {Head(backlog)}
         /\ \A i, j \in DOMAIN Tail(backlog) :
              Tail(backlog)[i] = Tail(backlog)[j] => i = j
<1>1. /\ Head(backlog) \in Clients /\ Tail(backlog) \in Seq(Clients)
      /\ Len(backlog) \in Nat /\ Len(backlog) # 0
      /\ DOMAIN backlog = 1..Len(backlog)
      /\ Len(Tail(backlog)) = Len(backlog) - 1
      /\ Head(backlog) = backlog[1]
  BY HeadTailProperties, EmptySeq, LenProperties DEF WaitingApart
<1>2. DOMAIN Tail(backlog) = 1..(Len(backlog) - 1)
  BY <1>1, LenProperties
<1>3. \A i \in DOMAIN Tail(backlog) :
        Tail(backlog)[i] = backlog[i + 1] /\ i + 1 \in DOMAIN backlog
  BY <1>1, <1>2 DEF WaitingApart
<1>4. 1 \in DOMAIN backlog
  BY <1>1
<1> QED BY <1>1, <1>2, <1>3, <1>4 DEF WaitingApart

\* Closing a session frees its slot with its socket.
LEMMA CloseKeepsTable ==
  ASSUME TableInv, NEW s \in Slots, CloseSession(s)
  PROVE  /\ table' \in [Slots -> Clients \cup {NoFd}]
         /\ TableIsOpenSockets'
         /\ open' \subseteq open
<1>1. /\ table \in [Slots -> Clients \cup {NoFd}]
      /\ table' = [table EXCEPT ![s] = NoFd]
      /\ open' = open \ {table[s]}
  BY DEF TableInv, CloseSession
<1>2. \A t \in Slots : table'[t] = IF t = s THEN NoFd ELSE table[t]
  BY <1>1
<1>3. open' = Sessions'
  <2>1. ASSUME NEW c \in open' PROVE c \in Sessions'
    <3>1. c \in Sessions /\ c # table[s]
      BY <1>1, <2>1 DEF TableInv, TableIsOpenSockets
    <3>2. PICK t \in Slots : table[t] = c /\ c # NoFd
      BY <3>1 DEF Sessions
    <3> QED BY <1>2, <3>1, <3>2 DEF Sessions
  <2>2. ASSUME NEW c \in Sessions' PROVE c \in open'
    <3>1. PICK t \in Slots : table'[t] = c /\ c # NoFd
      BY <2>2 DEF Sessions
    <3>2. t # s /\ table[t] = c
      BY <1>2, <3>1
    <3>3. c # table[s] /\ c \in open
      BY <3>1, <3>2 DEF TableInv, TableIsOpenSockets, Sessions
    <3> QED BY <1>1, <3>3
  <2> QED BY <2>1, <2>2
<1>4. \A t, u \in Slots : table'[t] = table'[u] /\ t # u => table'[t] = NoFd
  BY <1>2 DEF TableInv, TableIsOpenSockets
<1> QED BY <1>1, <1>3, <1>4 DEF TableIsOpenSockets

\* The backlog keeps apart when it stays and sessions are only closed.
LEMMA StaysApart ==
  ASSUME WaitingApart, open' \subseteq open, backlog' = backlog
  PROVE  WaitingApart'
BY DEF WaitingApart

LEMMA InitTable == Init => TableInv
<1> SUFFICES ASSUME Init PROVE TableInv
  OBVIOUS
<1>1. Sessions = {}
  BY DEF Init, Sessions
<1>2. table \in [Slots -> Clients \cup {NoFd}]
  BY DEF Init
<1>3. <<>> \in Seq(Clients) /\ <<>> \in Seq(Datagrams) /\ DOMAIN <<>> = {}
  BY EmptySeq, LenProperties
<1>4. \A s \in Slots : table[s] = NoFd
  BY DEF Init
<1> QED
  BY <1>1, <1>2, <1>3, <1>4
  DEF Init, TableInv, TableIsOpenSockets, WaitingApart, ReportsHold

\* Accepting enters a connection that is in no slot yet.
LEMMA AcceptTable ==
  ASSUME TableInv, AcceptConn
  PROVE  TableInv'
<1>1. backlog # <<>>
  BY DEF AcceptConn, TableInv, ReportsHold
<1> DEFINE c == Head(backlog)
<1>2. PICK s \in Slots : table[s] = NoFd /\ table' = [table EXCEPT ![s] = c]
  BY DEF AcceptConn
<1>3. /\ c \in Clients /\ c \notin open /\ c # NoFd
      /\ backlog' = Tail(backlog) /\ open' = open \cup {c}
  BY <1>1, NextWaiting, HttpdAssumption DEF AcceptConn, TableInv
<1>4. WaitingApart'
  BY <1>1, <1>3, NextWaiting DEF TableInv, WaitingApart
<1> HIDE DEF c
<1>5. table' \in [Slots -> Clients \cup {NoFd}]
  BY <1>2, <1>3 DEF TableInv
<1>6. \A t \in Slots : table'[t] = IF t = s THEN c ELSE table[t]
  BY <1>2 DEF TableInv
<1>7. \A t \in Slots : table[t] # c
  BY <1>3 DEF TableInv, TableIsOpenSockets, Sessions
<1>8. open' = Sessions'
  <2>1. ASSUME NEW d \in open' PROVE d \in Sessions'
    <3>1. CASE d = c
      BY <1>3, <1>6, <3>1 DEF Sessions
    <3>2. CASE d \in open
      <4>1. PICK t \in Slots : table[t] = d /\ d # NoFd
        BY <3>2 DEF TableInv, TableIsOpenSockets, Sessions
      <4> QED BY <1>2, <1>6, <4>1 DEF Sessions
    <3> QED BY <1>3, <3>1, <3>2
  <2>2. ASSUME NEW d \in Sessions' PROVE d \in open'
    <3>1. PICK t \in Slots : table'[t] = d /\ d # NoFd
      BY <2>2 DEF Sessions
    <3>2. d = c \/ (table[t] = d /\ d # NoFd)
      BY <1>6, <3>1
    <3> QED BY <1>3, <3>2 DEF TableInv, TableIsOpenSockets, Sessions
  <2> QED BY <2>1, <2>2
<1>9. \A t, u \in Slots : table'[t] = table'[u] /\ t # u => table'[t] = NoFd
  BY <1>6, <1>7 DEF TableInv, TableIsOpenSockets
<1>10. ctrl' \in Seq(Datagrams) /\ ReportsHold'
  BY DEF AcceptConn, EndRound, TableInv, ReportsHold
<1> QED BY <1>4, <1>5, <1>8, <1>9, <1>10 DEF TableInv, TableIsOpenSockets

\* A client that connects is not in the backlog yet.
LEMMA ConnectTable ==
  ASSUME TableInv, NEW c \in Clients, Connect(c)
  PROVE  TableInv'
<1>1. /\ backlog' = Append(backlog, c) /\ backlog \in Seq(Clients)
      /\ c \notin open /\ \A i \in DOMAIN backlog : backlog[i] # c
  BY DEF Connect, Connected, TableInv, WaitingApart
<1>2. /\ backlog' \in Seq(Clients) /\ Len(backlog) \in Nat
      /\ DOMAIN backlog = 1..Len(backlog)
      /\ DOMAIN backlog' = 1..(Len(backlog) + 1)
      /\ \A i \in 1..Len(backlog) : backlog'[i] = backlog[i]
      /\ backlog'[Len(backlog) + 1] = c
      /\ backlog' # <<>>
  BY <1>1, AppendProperties, LenProperties
<1>3. \A i \in DOMAIN backlog' : i \in DOMAIN backlog \/ i = Len(backlog) + 1
  BY <1>2
<1>4. /\ \A i \in DOMAIN backlog' : backlog'[i] \notin open
      /\ \A i, j \in DOMAIN backlog' : backlog'[i] = backlog'[j] => i = j
  BY <1>1, <1>2, <1>3 DEF TableInv, WaitingApart
<1> QED
  BY <1>2, <1>4
  DEF Connect, TableInv, WaitingApart, TableIsOpenSockets, Sessions,
      ReportsHold, sessionVars, loopVars

LEMMA TableStep ==
  ASSUME TableInv, [Next]_vars
  PROVE  TableInv'
<1> USE DEF TableInv, TableIsOpenSockets, Sessions, WaitingApart, ReportsHold,
            sessionVars, clientVars, loopVars
<1>1. CASE UNCHANGED vars
  BY <1>1 DEF vars
<1>2. CASE Select
  BY <1>2 DEF Select
<1>3. CASE NoMessage
  BY <1>3 DEF NoMessage
<1>4. CASE ProcessWork
  BY <1>4, FirstDatagram DEF ProcessWork
<1>5. CASE ProcessClose
  <2>1. ctrl # <<>>
    BY <1>5 DEF ProcessClose
  <2>2. Head(ctrl).slot \in Slots /\ Tail(ctrl) \in Seq(Datagrams)
    BY <1>5, <2>1, FirstDatagram DEF ProcessClose, Datagrams, Work, Shutdown
  <2>3. /\ table' \in [Slots -> Clients \cup {NoFd}]
        /\ TableIsOpenSockets' /\ open' \subseteq open
    BY <1>5, <2>2, CloseKeepsTable DEF ProcessClose
  <2>4. WaitingApart'
    BY <1>5, <2>3, StaysApart DEF ProcessClose
  <2>5. ctrl' \in Seq(Datagrams) /\ ReportsHold'
    BY <1>5, <2>2 DEF ProcessClose
  <2> QED BY <2>3, <2>4, <2>5
<1>6. CASE ProcessShutdown
  BY <1>6, FirstDatagram DEF ProcessShutdown
<1>7. ASSUME NEW s \in Slots, SkipSession(s) PROVE TableInv'
  BY <1>7 DEF SkipSession
<1>8. ASSUME NEW s \in Slots, ServeRequest(s) PROVE TableInv'
  BY <1>8 DEF ServeRequest, Processed
<1>9. ASSUME NEW s \in Slots, RejectRequest(s) PROVE TableInv'
  BY <1>9 DEF RejectRequest, Processed
<1>10. ASSUME NEW s \in Slots, FailRequest(s) PROVE TableInv'
  <2>1. /\ table' \in [Slots -> Clients \cup {NoFd}]
        /\ TableIsOpenSockets' /\ open' \subseteq open
    BY <1>10, CloseKeepsTable DEF FailRequest
  <2>2. WaitingApart'
    BY <1>10, <2>1, StaysApart DEF FailRequest
  <2>3. ctrl' \in Seq(Datagrams) /\ ReportsHold'
    BY <1>10 DEF FailRequest
  <2> QED BY <2>1, <2>2, <2>3
<1>11. CASE SessionsDone
  BY <1>11 DEF SessionsDone
<1>12. CASE NoConnection
  BY <1>12 DEF NoConnection, EndRound
<1>13. CASE PurgeLru
  <2>1. PICK s \in Slots : ctrl' = Posted(CloseWork(s)) /\ table[s] # NoFd
    BY <1>13 DEF PurgeLru, Full
  <2>2. ctrl' \in Seq(Datagrams)
    BY <2>1, CloseDatagram, PostedDatagrams
  <2> QED BY <1>13, <2>2 DEF PurgeLru, EndRound
<1>14. CASE AcceptConn
  BY <1>14, AcceptTable
<1>15. CASE RefuseConn
  <2>1. backlog # <<>>
    BY <1>15 DEF RefuseConn
  <2> QED BY <1>15, <2>1, NextWaiting DEF RefuseConn, EndRound
<1>16. CASE ThreadExit
  <2>1. Sessions' = {} /\ open' = {}
    BY <1>16 DEF ThreadExit
  <2>2. <<>> \in Seq(Clients) /\ <<>> \in Seq(Datagrams) /\ DOMAIN <<>> = {}
    BY EmptySeq, LenProperties
  <2>3. /\ table' \in [Slots -> Clients \cup {NoFd}]
        /\ \A s \in Slots : table'[s] = NoFd
    BY <1>16 DEF ThreadExit
  <2> QED BY <1>16, <2>1, <2>2, <2>3 DEF ThreadExit
<1>17. ASSUME NEW c \in Clients, Connect(c) PROVE TableInv'
  BY <1>17, ConnectTable
<1>18. ASSUME NEW c \in Clients, Send(c) \/ Hangup(c) PROVE TableInv'
  BY <1>18 DEF Send, Hangup
<1>19. CASE QueueWork
  <2>1. Work \in Datagrams
    BY DEF Datagrams
  <2>2. ctrl' \in Seq(Datagrams) /\ (ctrl # <<>> => ctrl' # <<>>)
    BY <1>19, <2>1, PostedDatagrams DEF QueueWork
  <2> QED BY <1>19, <2>2 DEF QueueWork
<1>20. ASSUME NEW s \in Slots, TriggerSessClose(s) PROVE TableInv'
  <2>1. CloseWork(s) \in Datagrams
    BY <1>20, CloseDatagram DEF TriggerSessClose
  <2>2. ctrl' \in Seq(Datagrams) /\ (ctrl # <<>> => ctrl' # <<>>)
    BY <1>20, <2>1, PostedDatagrams DEF TriggerSessClose
  <2> QED BY <1>20, <2>2 DEF TriggerSessClose
<1>21. CASE Stop
  <2>1. Shutdown \in Datagrams
    BY DEF Datagrams
  <2>2. ctrl' \in Seq(Datagrams) /\ (ctrl # <<>> => ctrl' # <<>>)
    BY <1>21, <2>1, PostedDatagrams DEF Stop
  <2> QED BY <1>21, <2>2 DEF Stop
<1>22. CASE StopReturns
  BY <1>22 DEF StopReturns
<1>23. CASE Returned
  BY <1>1, <1>23 DEF Returned
<1> QED
  BY <1>1, <1>2, <1>3, <1>4, <1>5, <1>6, <1>7, <1>8, <1>9, <1>10, <1>11,
     <1>12, <1>13, <1>14, <1>15, <1>16, <1>17, <1>18, <1>19, <1>20, <1>21,
     <1>22, <1>23
  DEF Next, Server, Others

\* Whatever closes a session, a failed request, queued work, the purge or the
\* end of the thread (httpd_sess_delete and close in httpd_main.c and
\* httpd_sess.c), the table holds exactly the open sockets, each once.
THEOREM SocketsInTable == Spec => []TableIsOpenSockets
<1>1. Init => TableInv
  BY InitTable
<1>2. TableInv /\ [Next]_vars => TableInv'
  BY TableStep
<1>3. TableInv => TableIsOpenSockets
  BY DEF TableInv
<1> QED BY <1>1, <1>2, <1>3, PTL DEF Spec

----------------------------------------------------------------------------
\* The operators the steps are built from.

\* A set of natural numbers that is not empty has a minimum: the intervals
\* that end in its members are finite, and strict inclusion of finite sets is
\* well-founded.
LEMMA MinIs ==
  ASSUME NEW S, S \subseteq Nat, S # {}
  PROVE  Min(S) \in S /\ \A t \in S : Min(S) <= t
<1> DEFINE T == {1..n : n \in S}
<1>1. \A n \in Nat : IsFiniteSet(1..n)
  BY FS_Interval
<1>2. T \subseteq FiniteSubsetsOf(Nat) /\ T # {}
  <2>1. \A n \in S : 1..n \in FiniteSubsetsOf(Nat)
    BY <1>1 DEF FiniteSubsetsOf
  <2>2. \A n \in S : 1..n \in T
    OBVIOUS
  <2> QED BY <2>1, <2>2
<1>3. IsWellFoundedOn(StrictSubsetOrdering(Nat), FiniteSubsetsOf(Nat))
  BY FS_StrictSubsetOrderingWellFounded
<1>4. PICK U \in T : \A V \in T : <<V, U>> \notin StrictSubsetOrdering(Nat)
  <2> HIDE DEF T
  <2> QED BY <1>2, <1>3, WFMin
<1>5. PICK n \in S : U = 1..n
  OBVIOUS
<1>6. \A m \in S : n <= m
  <2> SUFFICES ASSUME NEW m \in S, m < n PROVE FALSE
    OBVIOUS
  <2>1. 1..m \in T /\ 1..m \subseteq 1..n /\ 1..m # 1..n
    OBVIOUS
  <2>2. <<1..m, 1..n>> \in StrictSubsetOrdering(Nat)
    BY <2>1 DEF StrictSubsetOrdering
  <2> QED BY <1>4, <1>5, <2>1, <2>2
<1> QED BY <1>6 DEF Min

\* A set of slots that is not empty has a maximum.
LEMMA MaxSlot ==
  ASSUME NEW S, S \subseteq Slots, S # {}
  PROVE  Max(S) \in S /\ \A t \in S : t <= Max(S)
<1> DEFINE T == {MaxSockets - s : s \in S}
<1>1. MaxSockets \in Nat /\ \A s \in S : s \in 1..MaxSockets
  BY HttpdAssumption DEF Slots
<1>2. T \subseteq Nat /\ T # {}
  <2>1. \A s \in S : MaxSockets - s \in Nat
    BY <1>1
  <2> QED BY <2>1
<1>3. Min(T) \in T /\ \A t \in T : Min(T) <= t
  <2> HIDE DEF T
  <2> QED BY <1>2, MinIs
<1>4. PICK m \in S : Min(T) = MaxSockets - m
  BY <1>3
<1>5. \A s \in S : MaxSockets - m <= MaxSockets - s
  BY <1>3, <1>4
<1>6. \A s \in S : s <= m
  BY <1>1, <1>5
<1> QED BY <1>6 DEF Max

\* Taking an element out of a sequence leaves a sequence.
LEMMA RemoveFirstSeq ==
  ASSUME NEW S, NEW seq \in Seq(S), NEW e
  PROVE  RemoveFirst(seq, e) \in Seq(S)
<1> DEFINE I == {i \in 1..Len(seq) : seq[i] = e}
<1>1. CASE I = {}
  BY <1>1 DEF RemoveFirst
<1>2. CASE I # {}
  <2>1. Len(seq) \in Nat /\ I \subseteq Nat
    BY LenProperties
  <2>2. Min(I) \in I
    <3> HIDE DEF I
    <3> QED BY <1>2, <2>1, MinIs
  <2>3. RemoveFirst(seq, e) = RemoveAt(seq, Min(I))
    BY <1>2 DEF RemoveFirst, SelectInSeq
  <2>4. PICK i \in 1..Len(seq) : i = Min(I)
    BY <2>2
  <2>5. \A j \in 1..Len(seq) : seq[j] \in S
    BY ElementOfSeq
  <2>6. /\ SubSeq(seq, 1, i - 1) \in Seq(S)
        /\ SubSeq(seq, i + 1, Len(seq)) \in Seq(S)
    BY <2>1, <2>5, SubSeqProperties
  <2>7. RemoveAt(seq, i) \in Seq(S)
    BY <2>6, ConcatProperties DEF RemoveAt
  <2> QED BY <2>3, <2>4, <2>7
<1> QED BY <1>1, <1>2

\* No two slots hold one session, so that SlotOf finds the one that does.
LEMMA SlotIs ==
  ASSUME TableInv, NEW s \in Slots, table[s] # NoFd
  PROVE  SlotOf(table[s]) = s
BY DEF TableInv, TableIsOpenSockets, SlotOf

LEMMA CursorSlot ==
  ASSUME cursor \in Sessions
  PROVE  SlotOf(cursor) \in Slots
BY DEF Sessions, SlotOf

\* The next session of the loop is the first of those that follow.
LEMMA NextIsFirst ==
  ASSUME NEW s \in Slots, NextSession(s)
  PROVE  /\ s \in Following /\ table[s] # NoFd
         /\ \A t \in Following : s <= t
<1>1. Following \subseteq Nat /\ Following # {} /\ s = Min(Following)
  BY DEF Following, NextSession, Slots
<1>2. s \in Following /\ \A t \in Following : s <= t
  BY <1>1, MinIs
<1> QED BY <1>2 DEF Following

\* What httpd_sess_delete returns is the session before or none.
LEMMA PrecedingIs ==
  ASSUME NEW s \in Slots
  PROVE  \/ /\ Preceding(s) = NoFd
            /\ \A t \in Slots : t < s => table[t] = NoFd
         \/ \E p \in Slots :
              /\ p < s /\ table[p] # NoFd /\ Preceding(s) = table[p]
              /\ \A t \in Slots : t < s /\ table[t] # NoFd => t <= p
<1> DEFINE before == {t \in Slots : t < s /\ table[t] # NoFd}
<1>1. CASE before = {}
  BY <1>1 DEF Preceding
<1>2. CASE before # {}
  <2>1. before \subseteq Slots
    OBVIOUS
  <2>2. Max(before) \in before /\ \A t \in before : t <= Max(before)
    <3> HIDE DEF before
    <3> QED BY <1>2, <2>1, MaxSlot
  <2>3. Preceding(s) = table[Max(before)]
    BY <1>2 DEF Preceding
  <2> QED BY <2>2, <2>3
<1> QED BY <1>1, <1>2

----------------------------------------------------------------------------
\* Type correctness.

\* The mailbox holds datagrams, as many as it has room for.
LEMMA PostedFits ==
  ASSUME ctrl \in Seq(Datagrams), Len(ctrl) <= Mailbox, NEW m \in Datagrams
  PROVE  Posted(m) \in Seq(Datagrams) /\ Len(Posted(m)) <= Mailbox
<1>1. Len(ctrl) \in Nat /\ Mailbox \in Nat
  BY LenProperties, HttpdAssumption
<1>2. CASE Len(ctrl) < Mailbox
  <2>1. /\ Append(ctrl, m) \in Seq(Datagrams)
        /\ Len(Append(ctrl, m)) = Len(ctrl) + 1
    BY AppendProperties
  <2> QED BY <1>1, <1>2, <2>1 DEF Posted
<1>3. CASE ~(Len(ctrl) < Mailbox)
  BY <1>3 DEF Posted
<1> QED BY <1>2, <1>3

LEMMA TailFits ==
  ASSUME NEW S, NEW n \in Nat, NEW seq \in Seq(S), seq # <<>>, Len(seq) <= n
  PROVE  Tail(seq) \in Seq(S) /\ Len(Tail(seq)) <= n
<1>1. /\ Tail(seq) \in Seq(S) /\ Len(Tail(seq)) = Len(seq) - 1
      /\ Len(seq) \in Nat
  BY HeadTailProperties, LenProperties
<1> QED BY <1>1

LEMMA ShorterCtrl ==
  ASSUME TypeOK, ctrl # <<>>
  PROVE  Tail(ctrl) \in Seq(Datagrams) /\ Len(Tail(ctrl)) <= Mailbox
<1>1. ctrl \in Seq(Datagrams) /\ Len(ctrl) <= Mailbox /\ Mailbox \in Nat
  BY HttpdAssumption DEF TypeOK
<1> QED BY <1>1, TailFits

LEMMA ShorterBacklog ==
  ASSUME TypeOK, backlog # <<>>
  PROVE  /\ Head(backlog) \in Clients
         /\ Tail(backlog) \in Seq(Clients) /\ Len(Tail(backlog)) <= Backlog
<1>1. backlog \in Seq(Clients) /\ Len(backlog) <= Backlog /\ Backlog \in Nat
  BY HttpdAssumption DEF TypeOK
<1>2. Head(backlog) \in Clients
  BY <1>1, HeadTailProperties
<1> QED BY <1>1, <1>2, TailFits

\* Closing a session leaves its variables of their types.
LEMMA CloseKeepsTypes ==
  ASSUME TypeOK, NEW s \in Slots, CloseSession(s)
  PROVE  /\ table' \in [Slots -> Clients \cup {NoFd}]
         /\ open' \subseteq Clients
         /\ used' \in Seq(Clients)
         /\ unread' \in [Clients -> 0..MaxUnread]
         /\ eof' \in [Clients -> BOOLEAN]
<1>1. used' \in Seq(Clients)
  BY RemoveFirstSeq DEF TypeOK, CloseSession
<1>2. table' \in [Slots -> Clients \cup {NoFd}] /\ open' \subseteq Clients
  BY DEF TypeOK, CloseSession
<1>3. unread' \in [Clients -> 0..MaxUnread]
  BY HttpdAssumption DEF TypeOK, CloseSession
<1>4. eof' \in [Clients -> BOOLEAN]
  <2>1. \A d \in Clients :
          (IF d = table[s] THEN FALSE ELSE eof[d]) \in BOOLEAN
    BY DEF TypeOK
  <2>2. eof' = [d \in Clients |-> IF d = table[s] THEN FALSE ELSE eof[d]]
    BY DEF CloseSession
  <2> QED BY <2>1, <2>2
<1> QED BY <1>1, <1>2, <1>3, <1>4

\* A block that is read leaves a bounded number of requests in the socket.
LEMMA BlockTypes ==
  ASSUME TypeOK, NEW s \in Slots, table[s] \in Clients,
         NEW left \in 0..MaxUnread, ReadBlock(s, left)
  PROVE  unread' \in [Clients -> 0..MaxUnread]
<1> DEFINE c == table[s]
<1>1. unread \in [Clients -> 0..MaxUnread] /\ MaxUnread \in Nat /\ c \in Clients
  BY HttpdAssumption DEF TypeOK
<1>2. CASE unread' = unread
  BY <1>1, <1>2
<1>3. CASE /\ left + 1 \in 1..unread[c]
           /\ unread' = [unread EXCEPT ![c] = @ - (left + 1)]
  <2> HIDE DEF c
  <2>1. unread[c] \in 0..MaxUnread
    BY <1>1
  <2>2. unread[c] - (left + 1) \in 0..MaxUnread
    BY <1>1, <1>3, <2>1
  <2> QED BY <1>1, <1>3, <2>2
<1> QED BY <1>2, <1>3 DEF ReadBlock

\* So does what is done of a session that stays open.
LEMMA ProcessedTypes ==
  ASSUME TypeOK, NEW s \in Slots, table[s] \in Clients, Processed(s),
         unread' \in [Clients -> 0..MaxUnread],
         pending' \in [Slots -> 0..MaxUnread]
  PROVE  TypeOK'
<1>1. used' \in Seq(Clients)
  BY RemoveFirstSeq, AppendProperties DEF TypeOK, Processed
<1> QED BY <1>1 DEF TypeOK, Processed

LEMMA InitTypes == Init => TypeOK
<1> SUFFICES ASSUME Init PROVE TypeOK
  OBVIOUS
<1>1. /\ <<>> \in Seq(Clients) /\ <<>> \in Seq(Datagrams) /\ Len(<<>>) = 0
      /\ 0 <= Mailbox /\ 0 <= Backlog /\ 0 \in 0..MaxUnread /\ 0 \in 0..MaxWork
  BY EmptySeq, HttpdAssumption
<1>2. eof \in [Clients -> BOOLEAN]
  BY DEF Init
<1>3. readSet \in [ctrl : BOOLEAN, listen : BOOLEAN, fds : SUBSET Clients]
  BY DEF Init, Unset
<1>4. /\ table \in [Slots -> Clients \cup {NoFd}]
      /\ pending \in [Slots -> 0..MaxUnread]
      /\ unread \in [Clients -> 0..MaxUnread]
  BY <1>1 DEF Init
<1> QED BY <1>1, <1>2, <1>3, <1>4 DEF Init, TypeOK

LEMMA TypeStep ==
  ASSUME TypeOK, TableInv, [Next]_vars
  PROVE  TypeOK'
<1> USE DEF sessionVars, clientVars, loopVars
<1>0. /\ Sessions \subseteq Clients /\ MaxUnread \in Nat
      /\ Unset \in [ctrl : BOOLEAN, listen : BOOLEAN, fds : SUBSET Clients]
  BY HttpdAssumption DEF TypeOK, Sessions, Unset
<1>1. CASE UNCHANGED vars
  BY <1>1 DEF vars, TypeOK
<1>2. CASE Select
  <2>1. PICK r \in SUBSET Sessions :
          /\ readSet' = [ctrl |-> ctrl # <<>>, listen |-> backlog # <<>>,
                         fds |-> r]
          /\ due' = r \cup {table[s] : s \in {t \in Slots : /\ table[t] # NoFd
                                                           /\ pending[t] > 0}}
    BY <1>2 DEF Select
  <2>2. due' \subseteq Clients
    BY <1>0, <2>1 DEF TypeOK
  <2>3. readSet' \in [ctrl : BOOLEAN, listen : BOOLEAN, fds : SUBSET Clients]
    <3>1. (ctrl # <<>>) \in BOOLEAN /\ (backlog # <<>>) \in BOOLEAN
      OBVIOUS
    <3>2. r \in SUBSET Clients
      BY <1>0
    <3> QED BY <2>1, <3>1, <3>2
  <2> QED BY <1>2, <2>2, <2>3 DEF Select, TypeOK
<1>3. CASE NoMessage
  BY <1>3 DEF NoMessage, TypeOK
<1>4. CASE ProcessWork
  <2>1. ctrl # <<>>
    BY <1>4 DEF ProcessWork, TableInv, ReportsHold
  <2>2. ctrl' \in Seq(Datagrams) /\ Len(ctrl') <= Mailbox
    BY <1>4, <2>1, ShorterCtrl DEF ProcessWork
  <2> QED BY <1>4, <2>2 DEF ProcessWork, TypeOK
<1>5. CASE ProcessClose
  <2>1. ctrl # <<>>
    BY <1>5 DEF ProcessClose, TableInv, ReportsHold
  <2>2. Head(ctrl).slot \in Slots
    BY <1>5, <2>1, FirstDatagram DEF ProcessClose, Datagrams, Work, Shutdown
  <2>3. ctrl' \in Seq(Datagrams) /\ Len(ctrl') <= Mailbox
    BY <1>5, <2>1, ShorterCtrl DEF ProcessClose
  <2>4. due' \subseteq Clients
    BY <1>5 DEF ProcessClose, TypeOK
  <2> QED BY <1>5, <2>2, <2>3, <2>4, CloseKeepsTypes DEF ProcessClose, TypeOK
<1>6. CASE ProcessShutdown
  <2>1. ctrl # <<>>
    BY <1>6 DEF ProcessShutdown, TableInv, ReportsHold
  <2>2. ctrl' \in Seq(Datagrams) /\ Len(ctrl') <= Mailbox
    BY <1>6, <2>1, ShorterCtrl DEF ProcessShutdown
  <2> QED BY <1>0, <1>6, <2>2 DEF ProcessShutdown, TypeOK
<1>7. ASSUME NEW s \in Slots, SkipSession(s) PROVE TypeOK'
  BY <1>7 DEF SkipSession, TypeOK
<1>8. ASSUME NEW s \in Slots, ServeRequest(s) PROVE TypeOK'
  <2>1. PICK left \in 0..MaxUnread :
          ReadBlock(s, left) /\ pending' = [pending EXCEPT ![s] = left]
    BY <1>8 DEF ServeRequest
  <2>2. table[s] \in Clients /\ Processed(s)
    BY <1>8, NextIsFirst DEF ServeRequest, TypeOK
  <2>3. unread' \in [Clients -> 0..MaxUnread]
    BY <2>1, <2>2, BlockTypes
  <2>4. pending' \in [Slots -> 0..MaxUnread]
    BY <2>1 DEF TypeOK
  <2> QED BY <2>2, <2>3, <2>4, ProcessedTypes
<1>9. ASSUME NEW s \in Slots, RejectRequest(s) PROVE TypeOK'
  <2>1. PICK left \in 0..MaxUnread : ReadBlock(s, left)
    BY <1>9 DEF RejectRequest
  <2>2. table[s] \in Clients /\ Processed(s)
    BY <1>9, NextIsFirst DEF RejectRequest, TypeOK
  <2>3. unread' \in [Clients -> 0..MaxUnread]
    BY <2>1, <2>2, BlockTypes
  <2>4. pending' \in [Slots -> 0..MaxUnread]
    BY <1>0, <1>9 DEF RejectRequest, TypeOK
  <2> QED BY <2>2, <2>3, <2>4, ProcessedTypes
<1>10. ASSUME NEW s \in Slots, FailRequest(s) PROVE TypeOK'
  <2>1. cursor' \in Clients \cup {NoFd}
    BY <1>10, PrecedingIs DEF FailRequest, TypeOK
  <2>2. due' \subseteq Clients
    BY <1>10 DEF FailRequest, TypeOK
  <2> QED BY <1>10, <2>1, <2>2, CloseKeepsTypes DEF FailRequest, TypeOK
<1>11. CASE SessionsDone
  BY <1>11 DEF SessionsDone, TypeOK
<1>12. CASE NoConnection
  BY <1>0, <1>12 DEF NoConnection, EndRound, TypeOK
<1>13. CASE PurgeLru
  <2>1. PICK s \in Slots : ctrl' = Posted(CloseWork(s)) /\ table[s] # NoFd
    BY <1>13 DEF PurgeLru, Full
  <2>2. ctrl' \in Seq(Datagrams) /\ Len(ctrl') <= Mailbox
    BY <2>1, CloseDatagram, PostedFits DEF TypeOK
  <2> QED BY <1>0, <1>13, <2>2 DEF PurgeLru, EndRound, TypeOK
<1>14. CASE AcceptConn
  <2>1. backlog # <<>>
    BY <1>14 DEF AcceptConn, TableInv, ReportsHold
  <2>2. /\ Head(backlog) \in Clients
        /\ backlog' \in Seq(Clients) /\ Len(backlog') <= Backlog
    BY <1>14, <2>1, ShorterBacklog DEF AcceptConn
  <2>3. PICK s \in Slots : /\ table' = [table EXCEPT ![s] = Head(backlog)]
                           /\ pending' = [pending EXCEPT ![s] = 0]
    BY <1>14 DEF AcceptConn
  <2>4. /\ table' \in [Slots -> Clients \cup {NoFd}]
        /\ pending' \in [Slots -> 0..MaxUnread]
    BY <1>0, <2>2, <2>3 DEF TypeOK
  <2>5. open' \subseteq Clients
    BY <1>14, <2>2 DEF AcceptConn, TypeOK
  <2> QED BY <1>0, <1>14, <2>2, <2>4, <2>5 DEF AcceptConn, EndRound, TypeOK
<1>15. CASE RefuseConn
  <2>1. backlog # <<>>
    BY <1>15 DEF RefuseConn, TableInv, ReportsHold
  <2>2. /\ Head(backlog) \in Clients
        /\ backlog' \in Seq(Clients) /\ Len(backlog') <= Backlog
    BY <1>15, <2>1, ShorterBacklog DEF RefuseConn
  <2>3. unread' \in [Clients -> 0..MaxUnread]
    <3>1. 0 \in 0..MaxUnread
      BY <1>0
    <3>2. /\ unread \in [Clients -> 0..MaxUnread]
          /\ unread' = [unread EXCEPT ![Head(backlog)] = 0]
      BY <1>15 DEF RefuseConn, TypeOK
    <3> QED BY <3>1, <3>2
  <2>4. eof' \in [Clients -> BOOLEAN]
    BY <1>15, Zenon DEF RefuseConn, TypeOK
  <2> QED BY <1>0, <1>15, <2>2, <2>3, <2>4 DEF RefuseConn, EndRound, TypeOK
<1>16. CASE ThreadExit
  <2>1. /\ <<>> \in Seq(Clients) /\ <<>> \in Seq(Datagrams) /\ Len(<<>>) = 0
        /\ 0 <= Mailbox /\ 0 <= Backlog
    BY EmptySeq, HttpdAssumption
  <2>2. eof' \in [Clients -> BOOLEAN]
    BY <1>16 DEF ThreadExit
  <2>3. unread' \in [Clients -> 0..MaxUnread] /\ open' \subseteq Clients
    BY <1>0, <1>16 DEF ThreadExit, TypeOK
  <2>4. table' \in [Slots -> Clients \cup {NoFd}]
    BY <1>16 DEF ThreadExit
  <2> QED BY <1>16, <2>1, <2>2, <2>3, <2>4 DEF ThreadExit, TypeOK
<1>17. ASSUME NEW c \in Clients, Connect(c) PROVE TypeOK'
  <2>1. /\ backlog' \in Seq(Clients) /\ Len(backlog') = Len(backlog) + 1
        /\ Len(backlog) \in Nat /\ Backlog \in Nat /\ Len(backlog) < Backlog
    BY <1>17, AppendProperties, LenProperties, HttpdAssumption
    DEF Connect, TypeOK
  <2>2. Len(backlog') <= Backlog
    BY <2>1
  <2> QED BY <1>17, <2>1, <2>2 DEF Connect, TypeOK
<1>18. ASSUME NEW c \in Clients, Send(c) PROVE TypeOK'
  <2>1. unread' \in [Clients -> 0..MaxUnread]
    BY <1>0, <1>18 DEF Send, TypeOK
  <2> QED BY <1>18, <2>1 DEF Send, TypeOK
<1>19. ASSUME NEW c \in Clients, Hangup(c) PROVE TypeOK'
  <2>1. eof' \in [Clients -> BOOLEAN]
    BY <1>19, Zenon DEF Hangup, TypeOK
  <2> QED BY <1>19, <2>1 DEF Hangup, TypeOK
<1>20. CASE QueueWork
  <2>1. Work \in Datagrams
    BY DEF Datagrams
  <2>2. ctrl' \in Seq(Datagrams) /\ Len(ctrl') <= Mailbox
    BY <1>20, <2>1, PostedFits DEF QueueWork, TypeOK
  <2>3. work' \in 0..MaxWork
    BY <1>20, HttpdAssumption DEF QueueWork, TypeOK
  <2> QED BY <1>20, <2>2, <2>3 DEF QueueWork, TypeOK
<1>21. ASSUME NEW s \in Slots, TriggerSessClose(s) PROVE TypeOK'
  <2>1. CloseWork(s) \in Datagrams
    BY <1>21, CloseDatagram DEF TriggerSessClose
  <2>2. ctrl' \in Seq(Datagrams) /\ Len(ctrl') <= Mailbox
    BY <1>21, <2>1, PostedFits DEF TriggerSessClose, TypeOK
  <2>3. work' \in 0..MaxWork
    BY <1>21, HttpdAssumption DEF TriggerSessClose, TypeOK
  <2> QED BY <1>21, <2>2, <2>3 DEF TriggerSessClose, TypeOK
<1>22. CASE Stop
  <2>1. Shutdown \in Datagrams
    BY DEF Datagrams
  <2>2. ctrl' \in Seq(Datagrams) /\ Len(ctrl') <= Mailbox
    BY <1>22, <2>1, PostedFits DEF Stop, TypeOK
  <2> QED BY <1>22, <2>2 DEF Stop, TypeOK
<1>23. CASE StopReturns
  BY <1>23 DEF StopReturns, TypeOK
<1>24. CASE Returned
  BY <1>1, <1>24 DEF Returned
<1> QED
  BY <1>1, <1>2, <1>3, <1>4, <1>5, <1>6, <1>7, <1>8, <1>9, <1>10, <1>11,
     <1>12, <1>13, <1>14, <1>15, <1>16, <1>17, <1>18, <1>19, <1>20, <1>21,
     <1>22, <1>23, <1>24
  DEF Next, Server, Others

\* The state of the web server keeps its types: the mailbox and the backlog
\* never hold more than they have room for, and the cursor of the loop is a
\* session or none (httpd_main.c and httpd_sess.c).
THEOREM ServerTyped == Spec => []TypeOK
<1>1. Init => TableInv /\ TypeOK
  BY InitTable, InitTypes
<1>2. TableInv /\ TypeOK /\ [Next]_vars => TableInv' /\ TypeOK'
  BY TableStep, TypeStep
<1> QED BY <1>1, <1>2, PTL DEF Spec

----------------------------------------------------------------------------
\* The round over the sessions.

InRound == pc \in {"ctrl", "sessions"}

\* The sessions still due are ahead of the cursor and will be processed.
DueAhead ==
  InRound => \A s \in Slots :
    table[s] # NoFd /\ table[s] \in due => s \in Following /\ ToProcess(s)

\* A session ahead of the cursor that select reported still has data: nobody
\* but the loop reads it.
ReadableAhead ==
  InRound => \A s \in Following :
    table[s] \in readSet.fds => unread[table[s]] > 0 \/ eof[table[s]]

\* The inductive invariant of the round, with TypeOK and TableInv.
RoundInv ==
  /\ pc = "ctrl" => cursor = NoFd
  /\ DueAhead
  /\ ReadableAhead
  /\ RoundCompletes

LEMMA RoundOver ==
  ASSUME pc' \in {"select", "stopping", "stopped"}
  PROVE  RoundInv'
BY DEF RoundInv, DueAhead, ReadableAhead, RoundCompletes, InRound

\* The round does not see what the clients and the other tasks do: they only
\* add data to a session's socket.
LEMMA RoundUntouched ==
  ASSUME RoundInv,
         UNCHANGED <<table, pending, pc, readSet, cursor, due>>,
         \A c \in Sessions : /\ unread[c] > 0 => unread'[c] > 0
                             /\ eof[c] => eof'[c]
  PROVE  RoundInv'
<1>1. /\ Following' = Following /\ Sessions' = Sessions
      /\ \A s \in Slots : ToProcess(s)' <=> ToProcess(s)
  BY DEF Following, Sessions, SlotOf, ToProcess
<1>2. \A s \in Following : s \in Slots /\ table[s] \in Sessions
  BY DEF Following, Sessions
<1>3. DueAhead' /\ RoundCompletes'
  BY <1>1 DEF RoundInv, DueAhead, RoundCompletes, InRound
<1>4. ReadableAhead'
  <2> SUFFICES ASSUME InRound', NEW s \in Following', table'[s] \in readSet'.fds
               PROVE  unread'[table'[s]] > 0 \/ eof'[table'[s]]
    BY DEF ReadableAhead
  <2>1. InRound /\ s \in Following /\ table[s] \in readSet.fds
    BY <1>1 DEF InRound
  <2>2. unread[table[s]] > 0 \/ eof[table[s]]
    BY <2>1 DEF RoundInv, ReadableAhead
  <2> QED BY <1>2, <2>1, <2>2
<1> QED BY <1>3, <1>4 DEF RoundInv

\* Past the session in slot s, the loop goes on with those after it.
LEMMA CursorMoves ==
  ASSUME TableInv, NEW s \in Slots, NextSession(s),
         table' = table, cursor' = table[s]
  PROVE  \A t \in Slots : t \in Following' <=> t \in Following /\ t > s
<1>1. s \in Following /\ table[s] # NoFd /\ MaxSockets \in Nat
  BY NextIsFirst, HttpdAssumption
<1>2. cursor' \in Sessions' /\ SlotOf(table[s]) = s
  BY <1>1, SlotIs DEF Sessions
<1>3. SlotOf(cursor)' = s
  BY <1>2 DEF SlotOf
<1>4. \A t \in Slots : t \in Following' <=> table[t] # NoFd /\ t > s
  BY <1>2, <1>3 DEF Following
<1>5. ASSUME NEW t \in Slots, table[t] # NoFd, t > s PROVE t \in Following
  <2>1. CASE cursor \in Sessions
    <3>1. SlotOf(cursor) \in Slots /\ s > SlotOf(cursor)
      BY <1>1, <2>1, CursorSlot DEF Following
    <3>2. t > SlotOf(cursor)
      BY <1>1, <1>5, <3>1 DEF Slots
    <3> QED BY <1>5, <3>2 DEF Following
  <2>2. CASE cursor \notin Sessions
    BY <1>5, <2>2 DEF Following
  <2> QED BY <2>1, <2>2
<1>6. \A t \in Following : table[t] # NoFd
  BY DEF Following
<1> QED BY <1>4, <1>5, <1>6

\* So it does when that session is deleted and the cursor falls back to the
\* one before it: none is left between the two.
LEMMA CursorFallsBack ==
  ASSUME TableInv, NEW s \in Slots, NextSession(s),
         CloseSession(s), cursor' = Preceding(s)
  PROVE  \A t \in Slots : t \in Following' <=> t \in Following /\ t > s
<1>1. s \in Following /\ table[s] # NoFd /\ MaxSockets \in Nat
  BY NextIsFirst, HttpdAssumption
<1>2. \A t \in Slots : table'[t] = IF t = s THEN NoFd ELSE table[t]
  BY DEF CloseSession, TableInv
<1>3. \A t \in Slots : t \in Following' <=> table'[t] # NoFd /\ t > s
  <2>1. CASE /\ Preceding(s) = NoFd
             /\ \A t \in Slots : t < s => table[t] = NoFd
    <3>1. cursor' \notin Sessions'
      BY <2>1 DEF Sessions
    <3>2. \A t \in Slots : t \in Following' <=> table'[t] # NoFd
      BY <3>1 DEF Following
    <3>3. \A t \in Slots : table'[t] # NoFd => t > s
      BY <1>1, <1>2, <2>1 DEF Slots
    <3> QED BY <3>2, <3>3
  <2>2. ASSUME NEW p \in Slots,
               p < s, table[p] # NoFd, Preceding(s) = table[p],
               \A t \in Slots : t < s /\ table[t] # NoFd => t <= p
        PROVE  \A t \in Slots : t \in Following' <=> table'[t] # NoFd /\ t > s
    <3>1. table'[p] = table[p] /\ cursor' = table'[p]
      BY <1>2, <2>2 DEF Slots
    <3>2. \A t \in Slots : table'[t] = table'[p] => t = p
      BY <1>1, <1>2, <2>2, <3>1 DEF TableInv, TableIsOpenSockets
    <3>3. SlotOf(cursor)' = p
      BY <3>1, <3>2 DEF SlotOf
    <3>4. cursor' \in Sessions'
      BY <2>2, <3>1 DEF Sessions
    <3>5. \A t \in Slots : t \in Following' <=> table'[t] # NoFd /\ t > p
      BY <3>3, <3>4 DEF Following
    <3>6. \A t \in Slots : table'[t] # NoFd => (t > p <=> t > s)
      BY <1>1, <1>2, <2>2 DEF Slots
    <3> QED BY <3>5, <3>6
  <2> QED BY <2>1, <2>2, PrecedingIs
<1>4. ASSUME NEW t \in Slots, table[t] # NoFd, t > s PROVE t \in Following
  <2>1. CASE cursor \in Sessions
    <3>1. SlotOf(cursor) \in Slots /\ s > SlotOf(cursor)
      BY <1>1, <2>1, CursorSlot DEF Following
    <3>2. t > SlotOf(cursor)
      BY <1>1, <1>4, <3>1 DEF Slots
    <3> QED BY <1>4, <3>2 DEF Following
  <2>2. CASE cursor \notin Sessions
    BY <1>4, <2>2 DEF Following
  <2> QED BY <2>1, <2>2
<1>5. \A t \in Slots : t > s => table'[t] = table[t]
  BY <1>1, <1>2 DEF Slots
<1>6. \A t \in Following : table[t] # NoFd
  BY DEF Following
<1> QED BY <1>3, <1>4, <1>5, <1>6

\* What a step of the loop past slot s has to keep: the other sessions with
\* their data.
LEMMA RoundAdvances ==
  ASSUME TableInv, RoundInv, NEW s \in Slots, NextSession(s), pc' = pc,
         readSet' = readSet, due' \subseteq due,
         \A t \in Slots : t \in Following' <=> t \in Following /\ t > s,
         \A t \in Slots : table'[t] # NoFd => table'[t] = table[t],
         \A t \in Slots : t # s => pending'[t] = pending[t],
         \A t \in Slots : table'[t] # NoFd /\ table'[t] \in due' => t # s,
         \A t \in Slots : t # s /\ table[t] # NoFd =>
           /\ unread'[table[t]] = unread[table[t]]
           /\ eof'[table[t]] = eof[table[t]]
  PROVE  RoundInv'
<1>1. pc = "sessions" /\ pc' = "sessions" /\ InRound
  BY DEF NextSession, InRound
<1>2. DueAhead'
  <2> SUFFICES ASSUME NEW t \in Slots, table'[t] # NoFd, table'[t] \in due'
               PROVE  t \in Following' /\ ToProcess(t)'
    BY DEF DueAhead
  <2>1. table'[t] = table[t] /\ t # s
    OBVIOUS
  <2>2. t \in Following /\ ToProcess(t)
    BY <1>1, <2>1 DEF RoundInv, DueAhead
  <2>3. t > s
    BY <2>1, <2>2, NextIsFirst, HttpdAssumption DEF Slots
  <2> QED BY <2>1, <2>2, <2>3 DEF ToProcess
<1>3. ReadableAhead'
  <2> SUFFICES ASSUME NEW t \in Following', table'[t] \in readSet'.fds
               PROVE  unread'[table'[t]] > 0 \/ eof'[table'[t]]
    BY DEF ReadableAhead
  <2>1. t \in Slots /\ table'[t] # NoFd
    BY DEF Following
  <2>2. t \in Following /\ t # s /\ table'[t] = table[t]
    BY <2>1 DEF Slots
  <2>3. unread[table[t]] > 0 \/ eof[table[t]]
    BY <1>1, <2>2 DEF RoundInv, ReadableAhead
  <2> QED BY <2>1, <2>2, <2>3
<1> QED BY <1>1, <1>2, <1>3 DEF RoundInv, RoundCompletes

\* A processed session that stays open.
LEMMA ProcessedRound ==
  ASSUME TypeOK, TableInv, RoundInv, NEW s \in Slots, NextSession(s),
         Processed(s), NEW left \in 0..MaxUnread, ReadBlock(s, left),
         \A t \in Slots : t # s => pending'[t] = pending[t]
  PROVE  RoundInv'
<1>1. table[s] # NoFd /\ table' = table /\ eof' = eof
  BY NextIsFirst DEF Processed
<1>2. \A t \in Slots : t \in Following' <=> t \in Following /\ t > s
  BY CursorMoves DEF Processed
<1>3. \A t \in Slots : t # s => table[t] # table[s]
  BY <1>1 DEF TableInv, TableIsOpenSockets
<1>4. \A t \in Slots : t # s /\ table[t] # NoFd =>
        unread'[table[t]] = unread[table[t]]
  BY <1>3 DEF ReadBlock, TypeOK
<1>5. \A t \in Slots : table'[t] # NoFd /\ table'[t] \in due' => t # s
  BY <1>1 DEF Processed
<1>6. due' \subseteq due /\ pc' = pc /\ readSet' = readSet
  BY DEF Processed
<1> QED BY <1>1, <1>2, <1>4, <1>5, <1>6, RoundAdvances

\* Closing a session does not touch the data of another.
LEMMA CloseKeepsOthers ==
  ASSUME TypeOK, TableInv, NEW s \in Slots, CloseSession(s)
  PROVE  /\ \A t \in Slots : table'[t] = IF t = s THEN NoFd ELSE table[t]
         /\ \A t \in Slots : t # s /\ table[t] # NoFd =>
              /\ table[t] # table[s]
              /\ unread'[table[t]] = unread[table[t]]
              /\ eof'[table[t]] = eof[table[t]]
<1>1. \A t \in Slots : table'[t] = IF t = s THEN NoFd ELSE table[t]
  BY DEF CloseSession, TypeOK
<1>2. \A t \in Slots : t # s /\ table[t] # NoFd =>
        table[t] # table[s] /\ table[t] \in Clients
  BY DEF TableInv, TableIsOpenSockets
<1>3. \A c \in Clients : c # table[s] =>
        unread'[c] = unread[c] /\ eof'[c] = eof[c]
  BY DEF CloseSession
<1> QED BY <1>1, <1>2, <1>3

LEMMA RoundStep ==
  ASSUME TypeOK, TableInv, RoundInv, [Next]_vars
  PROVE  RoundInv'
<1> USE DEF sessionVars, clientVars, loopVars
<1>0. Sessions \subseteq Clients
  BY DEF TypeOK, Sessions
<1>1. CASE UNCHANGED vars
  BY <1>1, RoundUntouched DEF vars
<1>2. CASE Select
  <2>1. /\ pc' = "ctrl" /\ cursor' = NoFd /\ table' = table
        /\ pending' = pending /\ unread' = unread /\ eof' = eof
    BY <1>2 DEF Select
  <2>2. \A t \in Slots : t \in Following' <=> table[t] # NoFd
    BY <2>1 DEF Following, Sessions
  <2>3. /\ readSet'.fds = {c \in Sessions : unread[c] > 0 \/ eof[c]}
        /\ due' = readSet'.fds
                  \cup {table[s] : s \in {t \in Slots : /\ table[t] # NoFd
                                                        /\ pending[t] > 0}}
    BY <1>2 DEF Select
  <2>4. ASSUME NEW s \in Slots, table[s] # NoFd, table[s] \in due'
        PROVE  table[s] \in readSet'.fds \/ pending[s] > 0
    BY <2>3, <2>4 DEF TableInv, TableIsOpenSockets
  <2>5. DueAhead'
    BY <2>1, <2>2, <2>4 DEF DueAhead, ToProcess
  <2>6. ReadableAhead'
    BY <2>1, <2>3 DEF ReadableAhead
  <2> QED BY <2>1, <2>5, <2>6 DEF RoundInv, RoundCompletes
<1>3. CASE NoMessage \/ ProcessWork
  <2>1. /\ pc = "ctrl" /\ pc' = "sessions"
        /\ UNCHANGED <<table, pending, readSet, cursor, due, unread, eof>>
    BY <1>3 DEF NoMessage, ProcessWork
  <2>2. /\ Following' = Following
        /\ \A s \in Slots : ToProcess(s)' <=> ToProcess(s)
    BY <2>1 DEF Following, Sessions, SlotOf, ToProcess
  <2> QED
    BY <2>1, <2>2
    DEF RoundInv, DueAhead, ReadableAhead, RoundCompletes, InRound
<1>4. CASE ProcessClose
  <2>1. ctrl # <<>>
    BY <1>4 DEF ProcessClose, TableInv, ReportsHold
  <2>2. PICK s \in Slots : CloseSession(s) /\ due' = due \ {table[s]}
    <3>1. Head(ctrl).slot \in Slots
      BY <1>4, <2>1, FirstDatagram DEF ProcessClose, Datagrams, Work, Shutdown
    <3> QED BY <1>4, <3>1 DEF ProcessClose
  <2>3. /\ pc = "ctrl" /\ pc' = "sessions" /\ cursor = NoFd
        /\ UNCHANGED <<pending, readSet, cursor>>
    BY <1>4 DEF ProcessClose, RoundInv
  <2>4. /\ \A t \in Slots : table'[t] = IF t = s THEN NoFd ELSE table[t]
        /\ \A t \in Slots : t # s /\ table[t] # NoFd =>
             /\ unread'[table[t]] = unread[table[t]]
             /\ eof'[table[t]] = eof[table[t]]
    BY <2>2, CloseKeepsOthers
  <2>5. /\ \A t \in Slots : t \in Following <=> table[t] # NoFd
        /\ \A t \in Slots : t \in Following' <=> table'[t] # NoFd
    BY <2>3 DEF Following, Sessions
  <2>6. DueAhead'
    BY <2>2, <2>3, <2>4, <2>5 DEF RoundInv, DueAhead, InRound, ToProcess
  <2>7. ReadableAhead'
    <3> SUFFICES ASSUME NEW t \in Following', table'[t] \in readSet'.fds
                 PROVE  unread'[table'[t]] > 0 \/ eof'[table'[t]]
      BY DEF ReadableAhead
    <3>1. t \in Slots /\ table'[t] # NoFd
      BY DEF Following
    <3>2. t # s /\ table'[t] = table[t] /\ t \in Following
      BY <2>4, <2>5, <3>1
    <3>3. unread[table[t]] > 0 \/ eof[table[t]]
      BY <2>3, <3>2 DEF RoundInv, ReadableAhead, InRound
    <3> QED BY <2>4, <3>1, <3>2, <3>3
  <2> QED BY <2>3, <2>6, <2>7 DEF RoundInv, RoundCompletes
<1>5. CASE ProcessShutdown
  BY <1>5, RoundOver DEF ProcessShutdown
<1>6. ASSUME NEW s \in Slots, SkipSession(s) PROVE RoundInv'
  <2>1. /\ NextSession(s) /\ ~ToProcess(s) /\ cursor' = table[s]
        /\ UNCHANGED <<table, pending, pc, readSet, due, unread, eof>>
    BY <1>6 DEF SkipSession
  <2>2. \A t \in Slots : t \in Following' <=> t \in Following /\ t > s
    BY <2>1, CursorMoves
  <2>3. \A t \in Slots : table'[t] # NoFd /\ table'[t] \in due' => t # s
    BY <2>1 DEF RoundInv, DueAhead, InRound, NextSession
  <2> QED BY <2>1, <2>2, <2>3, RoundAdvances
<1>7. ASSUME NEW s \in Slots, ServeRequest(s) PROVE RoundInv'
  <2>1. PICK left \in 0..MaxUnread :
          ReadBlock(s, left) /\ pending' = [pending EXCEPT ![s] = left]
    BY <1>7 DEF ServeRequest
  <2>2. \A t \in Slots : t # s => pending'[t] = pending[t]
    BY <2>1 DEF TypeOK
  <2> QED BY <1>7, <2>1, <2>2, ProcessedRound DEF ServeRequest
<1>8. ASSUME NEW s \in Slots, RejectRequest(s) PROVE RoundInv'
  <2>1. PICK left \in 0..MaxUnread : ReadBlock(s, left)
    BY <1>8 DEF RejectRequest
  <2>2. \A t \in Slots : t # s => pending'[t] = pending[t]
    BY <1>8 DEF RejectRequest, TypeOK
  <2> QED BY <1>8, <2>1, <2>2, ProcessedRound DEF RejectRequest
<1>9. ASSUME NEW s \in Slots, FailRequest(s) PROVE RoundInv'
  <2>1. /\ NextSession(s) /\ CloseSession(s) /\ cursor' = Preceding(s)
        /\ due' = due \ {table[s]}
        /\ UNCHANGED <<pending, pc, readSet>>
    BY <1>9 DEF FailRequest
  <2>2. /\ \A t \in Slots : table'[t] = IF t = s THEN NoFd ELSE table[t]
        /\ \A t \in Slots : t # s /\ table[t] # NoFd =>
             /\ unread'[table[t]] = unread[table[t]]
             /\ eof'[table[t]] = eof[table[t]]
    BY <2>1, CloseKeepsOthers
  <2>3. \A t \in Slots : t \in Following' <=> t \in Following /\ t > s
    BY <2>1, CursorFallsBack
  <2> QED BY <2>1, <2>2, <2>3, RoundAdvances
<1>10. CASE SessionsDone
  <2>1. /\ pc = "sessions" /\ pc' = "accept" /\ Following = {}
        /\ UNCHANGED <<table, due>>
    BY <1>10 DEF SessionsDone
  <2>2. due \cap Sessions = {}
    BY <2>1 DEF RoundInv, DueAhead, InRound, Sessions
  <2> QED
    BY <2>1, <2>2
    DEF RoundInv, DueAhead, ReadableAhead, RoundCompletes, InRound, Sessions
<1>11. CASE NoConnection \/ PurgeLru \/ AcceptConn \/ RefuseConn
  BY <1>11, RoundOver
  DEF NoConnection, PurgeLru, AcceptConn, RefuseConn, EndRound
<1>12. CASE ThreadExit
  BY <1>12, RoundOver DEF ThreadExit
<1>13. ASSUME NEW c \in Clients, Connect(c) PROVE RoundInv'
  BY <1>13, RoundUntouched DEF Connect
<1>14. ASSUME NEW c \in Clients, Send(c) PROVE RoundInv'
  <2>1. \A d \in Sessions : unread[d] > 0 => unread'[d] > 0
    BY <1>0, <1>14 DEF Send, TypeOK
  <2> QED BY <1>14, <2>1, RoundUntouched DEF Send
<1>15. ASSUME NEW c \in Clients, Hangup(c) PROVE RoundInv'
  <2>1. \A d \in Sessions : eof[d] => eof'[d]
    BY <1>0, <1>15 DEF Hangup, TypeOK
  <2> QED BY <1>15, <2>1, RoundUntouched DEF Hangup
<1>16. CASE QueueWork \/ Stop \/ StopReturns
  BY <1>16, RoundUntouched DEF QueueWork, Stop, StopReturns
<1>17. ASSUME NEW s \in Slots, TriggerSessClose(s) PROVE RoundInv'
  BY <1>17, RoundUntouched DEF TriggerSessClose
<1>18. CASE Returned
  BY <1>1, <1>18 DEF Returned
<1> QED
  BY <1>1, <1>2, <1>3, <1>4, <1>5, <1>6, <1>7, <1>8, <1>9, <1>10, <1>11,
     <1>12, <1>13, <1>14, <1>15, <1>16, <1>17, <1>18
  DEF Next, Server, Others

LEMMA RoundAlways == Spec => [](TypeOK /\ TableInv /\ RoundInv)
<1>1. Init => TypeOK /\ TableInv
  BY InitTable, InitTypes
<1>2. Init => RoundInv
  BY DEF Init, RoundInv, DueAhead, ReadableAhead, RoundCompletes, InRound
<1>3. TypeOK /\ TableInv /\ RoundInv /\ [Next]_vars
        => TypeOK' /\ TableInv' /\ RoundInv'
  BY TypeStep, TableStep, RoundStep
<1> QED BY <1>1, <1>2, <1>3, PTL DEF Spec

\* Every session that had data when the round began has been processed when
\* the round is over, or is gone: httpd_sess_iterate misses none, whatever is
\* deleted under it (httpd_server in httpd_main.c, httpd_sess_iterate and
\* httpd_sess_delete in httpd_sess.c).
THEOREM RoundsComplete == Spec => []RoundCompletes
<1>1. RoundInv => RoundCompletes
  BY DEF RoundInv
<1> QED BY <1>1, RoundAlways, PTL

\* The loop takes up a session only when a read of it cannot block
\* (httpd_sess_delete in httpd_sess.c, the note in esp_httpd_priv.h).
THEOREM NoIdleRead == Spec => NeverReadsIdle
<1>1. ASSUME RoundInv, NEW s \in Slots, FailRequest(s)
      PROVE  pending[s] > 0 \/ unread[table[s]] > 0 \/ eof[table[s]]
  <2>1. NextSession(s) /\ ToProcess(s) /\ InRound
    BY <1>1 DEF FailRequest, NextSession, InRound
  <2>2. s \in Following
    BY <2>1, NextIsFirst
  <2> QED BY <1>1, <2>1, <2>2 DEF RoundInv, ReadableAhead, ToProcess
<1>2. RoundInv =>
        [\A s \in Slots : FailRequest(s) =>
           pending[s] > 0 \/ unread[table[s]] > 0 \/ eof[table[s]]]_vars
  BY <1>1
<1> QED BY <1>2, RoundAlways, PTL DEF NeverReadsIdle

----------------------------------------------------------------------------
\* The purge, in a server that no other task queues work for (the camera
\* application does not).

Running == pc \notin {"stopping", "stopped"}

\* While a connection is put off, the close it waits for is ahead of it.
PurgeInv ==
  /\ \A i \in DOMAIN ctrl : ctrl[i] # Work
  /\ Running /\ purging =>
       /\ backlog # <<>>
       /\ pc = "select" => ctrl # <<>>
       /\ pc = "ctrl" => readSet.ctrl
       /\ pc \in {"ctrl", "sessions", "accept"} => readSet.listen
       /\ pc \in {"sessions", "accept"} => ~Full

\* A close is taken out of the mailbox before the thread looks at a session
\* or a connection, unless it comes too late, after the shutdown.
ClosesInv ==
  Running => \A i \in DOMAIN ctrl : ctrl[i].kind = "close" =>
    \/ ctrl[1] = Shutdown
    \/ /\ i = 1 /\ table[ctrl[i].slot] = ctrl[i].of
       /\ pc \in {"select", "ctrl"} /\ (pc = "ctrl" => readSet.ctrl)

LEMMA DatagramKinds ==
  /\ Work.kind = "work" /\ Shutdown.kind = "shutdown" /\ Work # Shutdown
  /\ \A s : /\ CloseWork(s).kind = "close" /\ CloseWork(s) # Work
            /\ CloseWork(s).slot = s /\ CloseWork(s).of = table[s]
  /\ \A m \in Datagrams : m = Work \/ m = Shutdown \/ m.kind = "close"
<1>1. Work.kind = "work" /\ Shutdown.kind = "shutdown"
  BY DEF Work, Shutdown
<1>2. \A s : /\ CloseWork(s).kind = "close"
             /\ CloseWork(s).slot = s /\ CloseWork(s).of = table[s]
  BY DEF CloseWork
<1>3. \A m \in Datagrams : m = Work \/ m = Shutdown \/ m.kind = "close"
  BY DEF Datagrams
<1> QED BY <1>1, <1>2, <1>3

\* The datagrams after one is sent: those before, and perhaps that one.
LEMMA PostedItems ==
  ASSUME ctrl \in Seq(Datagrams), NEW m \in Datagrams
  PROVE  /\ DOMAIN ctrl \subseteq DOMAIN Posted(m)
         /\ \A i \in DOMAIN ctrl : Posted(m)[i] = ctrl[i]
         /\ \A i \in DOMAIN Posted(m) :
              i \in DOMAIN ctrl \/ (i = Len(ctrl) + 1 /\ Posted(m)[i] = m)
         /\ Posted(m) # <<>>
         /\ ctrl # <<>> => 1 \in DOMAIN ctrl
         /\ ctrl = <<>> => Len(ctrl) + 1 = 1
<1>1. Len(ctrl) \in Nat /\ DOMAIN ctrl = 1..Len(ctrl) /\ Mailbox \in Nat \ {0}
  BY LenProperties, HttpdAssumption
<1>2. ctrl # <<>> => Len(ctrl) # 0
  BY EmptySeq
<1>3. ctrl = <<>> => Len(ctrl) = 0
  BY EmptySeq
<1>4. CASE Len(ctrl) < Mailbox
  <2>1. /\ Posted(m) \in Seq(Datagrams) /\ Posted(m) # <<>>
        /\ Len(Posted(m)) = Len(ctrl) + 1
        /\ \A i \in 1..Len(ctrl) : Posted(m)[i] = ctrl[i]
        /\ Posted(m)[Len(ctrl) + 1] = m
    BY <1>4, AppendProperties DEF Posted
  <2>2. DOMAIN Posted(m) = 1..(Len(ctrl) + 1)
    BY <2>1, LenProperties
  <2> QED BY <1>1, <1>2, <1>3, <2>1, <2>2
<1>5. CASE ~(Len(ctrl) < Mailbox)
  <2>1. Posted(m) = ctrl
    BY <1>5 DEF Posted
  <2>2. Len(ctrl) # 0
    BY <1>1, <1>5
  <2> QED BY <1>1, <1>2, <1>3, <2>1, <2>2
<1> QED BY <1>4, <1>5

\* The datagrams after the first is taken out.
LEMMA TailItems ==
  ASSUME ctrl \in Seq(Datagrams), ctrl # <<>>
  PROVE  /\ Head(ctrl) = ctrl[1] /\ 1 \in DOMAIN ctrl
         /\ \A i \in DOMAIN Tail(ctrl) :
              i + 1 \in DOMAIN ctrl /\ i + 1 # 1 /\ Tail(ctrl)[i] = ctrl[i + 1]
<1>1. /\ Len(ctrl) \in Nat /\ Len(ctrl) # 0 /\ DOMAIN ctrl = 1..Len(ctrl)
      /\ Head(ctrl) = ctrl[1]
  BY LenProperties, EmptySeq
<1>2. /\ Tail(ctrl) \in Seq(Datagrams) /\ Len(Tail(ctrl)) = Len(ctrl) - 1
      /\ \A i \in 1..Len(Tail(ctrl)) : Tail(ctrl)[i] = ctrl[i + 1]
  BY HeadTailProperties
<1>3. DOMAIN Tail(ctrl) = 1..(Len(ctrl) - 1)
  BY <1>2, LenProperties
<1> QED BY <1>1, <1>2, <1>3

\* What a purge or httpd_stop sends.
LEMMA PostedPurge ==
  ASSUME TypeOK, PurgeInv, NEW m \in Datagrams, m # Work
  PROVE  /\ \A i \in DOMAIN Posted(m) : Posted(m)[i] # Work
         /\ Posted(m) # <<>>
BY PostedItems DEF TypeOK, PurgeInv

\* Without other tasks no work is queued.
LEMMA NoWork ==
  ASSUME MaxWork = 0, TypeOK
  PROVE  ~QueueWork /\ \A s \in Slots : ~TriggerSessClose(s)
BY DEF TypeOK, QueueWork, TriggerSessClose

LEMMA PurgeStep ==
  ASSUME MaxWork = 0, TypeOK, TableInv, PurgeInv, [Next]_vars
  PROVE  PurgeInv'
<1> USE DEF PurgeInv, Running, Full, sessionVars, clientVars, loopVars
<1>1. CASE UNCHANGED vars
  BY <1>1 DEF vars
<1>2. CASE Select
  BY <1>2 DEF Select
<1>3. CASE NoMessage
  BY <1>3 DEF NoMessage
<1>4. CASE ProcessWork
  <2>1. ctrl # <<>>
    BY <1>4 DEF ProcessWork, TableInv, ReportsHold
  <2>2. ctrl[1] = Work /\ 1 \in DOMAIN ctrl
    BY <1>4, <2>1, TailItems DEF ProcessWork, TypeOK
  <2> QED BY <2>2
<1>5. CASE ProcessClose
  <2>1. ctrl # <<>>
    BY <1>5 DEF ProcessClose, TableInv, ReportsHold
  <2>2. Head(ctrl).slot \in Slots
    BY <1>5, <2>1, FirstDatagram DEF ProcessClose, Datagrams, Work, Shutdown
  <2>3. table'[Head(ctrl).slot] = NoFd
    BY <1>5, <2>2 DEF ProcessClose, CloseSession, TypeOK
  <2>4. \A i \in DOMAIN ctrl' : ctrl'[i] # Work
    BY <1>5, <2>1, TailItems DEF ProcessClose, TypeOK
  <2> QED BY <1>5, <2>2, <2>3, <2>4 DEF ProcessClose
<1>6. CASE ProcessShutdown
  <2>1. ctrl # <<>>
    BY <1>6 DEF ProcessShutdown, TableInv, ReportsHold
  <2>2. \A i \in DOMAIN ctrl' : ctrl'[i] # Work
    BY <1>6, <2>1, TailItems DEF ProcessShutdown, TypeOK
  <2> QED BY <1>6, <2>2 DEF ProcessShutdown
<1>7. ASSUME NEW s \in Slots, SkipSession(s) PROVE PurgeInv'
  BY <1>7 DEF SkipSession, NextSession
<1>8. ASSUME NEW s \in Slots, ServeRequest(s) \/ RejectRequest(s)
      PROVE  PurgeInv'
  BY <1>8 DEF ServeRequest, RejectRequest, Processed, NextSession
<1>9. ASSUME NEW s \in Slots, FailRequest(s) PROVE PurgeInv'
  <2>1. \A t \in Slots : table[t] = NoFd => table'[t] = NoFd
    BY <1>9 DEF FailRequest, CloseSession, TypeOK
  <2> QED BY <1>9, <2>1 DEF FailRequest, NextSession
<1>10. CASE SessionsDone
  BY <1>10 DEF SessionsDone
<1>11. CASE NoConnection
  BY <1>11 DEF NoConnection, EndRound
<1>12. CASE PurgeLru
  <2>1. PICK s \in Slots : ctrl' = Posted(CloseWork(s)) /\ table[s] # NoFd
    BY <1>12 DEF PurgeLru
  <2>2. (\A i \in DOMAIN ctrl' : ctrl'[i] # Work) /\ ctrl' # <<>>
    BY <2>1, CloseDatagram, DatagramKinds, PostedPurge
  <2>3. backlog # <<>>
    BY <1>12 DEF PurgeLru, TableInv, ReportsHold
  <2> QED BY <1>12, <2>2, <2>3 DEF PurgeLru, EndRound
<1>13. CASE AcceptConn
  BY <1>13 DEF AcceptConn, EndRound
<1>14. CASE RefuseConn
  BY <1>14 DEF RefuseConn, EndRound
<1>15. CASE ThreadExit
  <2>1. DOMAIN ctrl' = {}
    BY <1>15 DEF ThreadExit
  <2> QED BY <1>15, <2>1 DEF ThreadExit
<1>16. ASSUME NEW c \in Clients, Connect(c) PROVE PurgeInv'
  <2>1. backlog' # <<>>
    BY <1>16, AppendProperties DEF Connect, TypeOK
  <2> QED BY <1>16, <2>1 DEF Connect
<1>17. ASSUME NEW c \in Clients, Send(c) \/ Hangup(c) PROVE PurgeInv'
  BY <1>17 DEF Send, Hangup
<1>18. CASE Stop
  <2>1. Shutdown \in Datagrams
    BY DEF Datagrams
  <2>2. (\A i \in DOMAIN ctrl' : ctrl'[i] # Work) /\ ctrl' # <<>>
    BY <1>18, <2>1, DatagramKinds, PostedPurge DEF Stop
  <2> QED BY <1>18, <2>2 DEF Stop
<1>19. CASE StopReturns
  BY <1>19 DEF StopReturns
<1>20. CASE Returned
  BY <1>1, <1>20 DEF Returned
<1> QED
  BY <1>1, <1>2, <1>3, <1>4, <1>5, <1>6, <1>7, <1>8, <1>9, <1>10, <1>11,
     <1>12, <1>13, <1>14, <1>15, <1>16, <1>17, <1>18, <1>19, <1>20, NoWork
  DEF Next, Server, Others

\* A close does not outlive the step that takes it out.
LEMMA ClosesStep ==
  ASSUME MaxWork = 0, TypeOK, TableInv, PurgeInv, ClosesInv, [Next]_vars
  PROVE  ClosesInv'
<1> USE DEF ClosesInv, Running, sessionVars, clientVars, loopVars
<1>0. ctrl \in Seq(Datagrams)
  BY DEF TypeOK
<1>1. CASE UNCHANGED vars
  BY <1>1 DEF vars
<1>2. CASE Select
  <2>1. \A i \in DOMAIN ctrl : ctrl # <<>>
    BY <1>0, EmptySeq, LenProperties
  <2> QED BY <1>2, <2>1 DEF Select
<1>3. CASE NoMessage
  BY <1>3 DEF NoMessage
<1>4. CASE ProcessWork \/ ProcessClose \/ ProcessShutdown
  <2>1. ctrl # <<>>
    BY <1>4
    DEF ProcessWork, ProcessClose, ProcessShutdown, TableInv, ReportsHold
  <2>2. /\ Head(ctrl) = ctrl[1] /\ ctrl[1] # Work /\ ctrl' = Tail(ctrl)
        /\ \A i \in DOMAIN ctrl' :
             i + 1 \in DOMAIN ctrl /\ i + 1 # 1 /\ ctrl'[i] = ctrl[i + 1]
    BY <1>0, <1>4, <2>1, TailItems
    DEF ProcessWork, ProcessClose, ProcessShutdown, PurgeInv
  <2>3. CASE ProcessClose
    <3>1. ctrl[1] # Shutdown /\ pc = "ctrl"
      BY <2>2, <2>3, DatagramKinds DEF ProcessClose
    <3>2. \A i \in DOMAIN ctrl' : ctrl'[i].kind # "close"
      BY <2>2, <3>1
    <3> QED BY <3>2
  <2>4. CASE ProcessShutdown
    BY <2>4 DEF ProcessShutdown
  <2>5. ~ProcessWork
    BY <2>2 DEF ProcessWork
  <2> QED BY <1>4, <2>3, <2>4, <2>5
<1>5. ASSUME NEW s \in Slots,
             \/ SkipSession(s) \/ ServeRequest(s)
             \/ RejectRequest(s) \/ FailRequest(s)
      PROVE  ClosesInv'
  <2>1. pc = "sessions" /\ pc' = "sessions" /\ ctrl' = ctrl
    BY <1>5
    DEF SkipSession, ServeRequest, RejectRequest, FailRequest, Processed,
        NextSession
  <2> QED BY <2>1
<1>6. CASE SessionsDone
  BY <1>6 DEF SessionsDone
<1>7. CASE NoConnection
  BY <1>7 DEF NoConnection, EndRound
<1>8. CASE PurgeLru
  <2>1. PICK s \in Slots : ctrl' = Posted(CloseWork(s)) /\ table[s] # NoFd
    BY <1>8 DEF PurgeLru, Full
  <2> DEFINE m == CloseWork(s)
  <2>2. m \in Datagrams /\ m.slot = s /\ m.of = table[s]
    BY <2>1, CloseDatagram, DatagramKinds
  <2>3. /\ DOMAIN ctrl \subseteq DOMAIN ctrl'
        /\ \A i \in DOMAIN ctrl : ctrl'[i] = ctrl[i]
        /\ \A i \in DOMAIN ctrl' :
             i \in DOMAIN ctrl \/ (i = Len(ctrl) + 1 /\ ctrl'[i] = m)
        /\ ctrl # <<>> => 1 \in DOMAIN ctrl
        /\ ctrl = <<>> => Len(ctrl) + 1 = 1
    BY <1>0, <2>1, <2>2, PostedItems
  <2> HIDE DEF m
  <2>4. pc = "accept" /\ pc' = "select" /\ table' = table
    BY <1>8 DEF PurgeLru, EndRound
  <2>5. \A i \in DOMAIN ctrl : ctrl[i].kind = "close" => ctrl[1] = Shutdown
    BY <2>4
  <2>6. ctrl # <<>> => ctrl[1] = Shutdown
    <3>1. ctrl # <<>> => ctrl[1] \in Datagrams /\ ctrl[1] # Work
      BY <1>0, <2>3, ElementOfSeq, LenProperties DEF PurgeInv
    <3> QED BY <2>3, <2>5, <3>1, DatagramKinds
  <2>7. CASE ctrl # <<>>
    <3>1. ctrl'[1] = Shutdown
      BY <2>3, <2>6, <2>7
    <3> QED BY <3>1
  <2>8. CASE ctrl = <<>>
    <3>1. \A i \in DOMAIN ctrl' : i = 1 /\ ctrl'[i] = m
      BY <2>3, <2>8
    <3> QED BY <2>2, <2>4, <3>1
  <2> QED BY <2>7, <2>8
<1>9. CASE AcceptConn \/ RefuseConn
  <2>1. pc = "accept" /\ pc' = "select" /\ ctrl' = ctrl
    BY <1>9 DEF AcceptConn, RefuseConn, EndRound
  <2> QED BY <2>1
<1>10. CASE ThreadExit
  BY <1>10 DEF ThreadExit
<1>11. ASSUME NEW c \in Clients, Connect(c) \/ Send(c) \/ Hangup(c)
       PROVE  ClosesInv'
  BY <1>11 DEF Connect, Send, Hangup
<1>12. CASE Stop
  <2>1. Shutdown \in Datagrams /\ Shutdown.kind # "close"
    BY DatagramKinds DEF Datagrams
  <2>2. /\ \A i \in DOMAIN ctrl : ctrl'[i] = ctrl[i]
        /\ \A i \in DOMAIN ctrl' :
             i \in DOMAIN ctrl \/ (i = Len(ctrl) + 1 /\ ctrl'[i] = Shutdown)
    BY <1>0, <1>12, <2>1, PostedItems DEF Stop
  <2>3. \A i \in DOMAIN ctrl : 1 \in DOMAIN ctrl
    BY <1>0, LenProperties
  <2>4. pc' = pc /\ table' = table /\ readSet' = readSet
    BY <1>12 DEF Stop
  <2> QED BY <2>1, <2>2, <2>3, <2>4
<1>13. CASE StopReturns
  BY <1>13 DEF StopReturns
<1>14. CASE Returned
  BY <1>1, <1>14 DEF Returned
<1> QED
  BY <1>1, <1>2, <1>3, <1>4, <1>5, <1>6, <1>7, <1>8, <1>9, <1>10, <1>11,
     <1>12, <1>13, <1>14, NoWork
  DEF Next, Server, Others

LEMMA PurgeAlways ==
  ASSUME MaxWork = 0
  PROVE  Spec => [](TypeOK /\ TableInv /\ PurgeInv /\ ClosesInv)
<1>1. Init => TypeOK /\ TableInv
  BY InitTable, InitTypes
<1>2. Init => PurgeInv /\ ClosesInv
  <2> SUFFICES ASSUME Init PROVE PurgeInv /\ ClosesInv
    OBVIOUS
  <2>1. DOMAIN ctrl = {} /\ ~purging
    BY DEF Init
  <2> QED BY <2>1 DEF PurgeInv, ClosesInv
<1>3. TypeOK /\ TableInv /\ PurgeInv /\ ClosesInv /\ [Next]_vars
        => TypeOK' /\ TableInv' /\ PurgeInv' /\ ClosesInv'
  BY TypeStep, TableStep, PurgeStep, ClosesStep
<1> QED BY <1>1, <1>2, <1>3, PTL DEF Spec

\* A connection that was put off to purge a session finds a slot the next
\* time the thread looks at it (httpd_accept_conn in httpd_main.c).
THEOREM PurgeFindsRoom ==
  ASSUME MaxWork = 0
  PROVE  Spec => []PurgeMakesRoom
<1>1. PurgeInv => PurgeMakesRoom
  BY DEF PurgeInv, PurgeMakesRoom, Running
<1> QED BY <1>1, PurgeAlways, PTL

\* The close that a purge queues reaches the session it was meant for
\* (httpd_sess_close_lru and httpd_sess_close in httpd_sess.c).
THEOREM PurgeClosesItsSession ==
  ASSUME MaxWork = 0
  PROVE  Spec => ClosesItsSession
<1>1. ASSUME TypeOK, TableInv, ClosesInv, ProcessClose
      PROVE  table[Head(ctrl).slot] \in {Head(ctrl).of, NoFd}
  <2>1. ctrl # <<>> /\ Running /\ Head(ctrl).kind = "close"
    BY <1>1 DEF ProcessClose, TableInv, ReportsHold, Running
  <2>2. Head(ctrl) = ctrl[1] /\ 1 \in DOMAIN ctrl
    BY <1>1, <2>1, TailItems DEF TypeOK
  <2> QED BY <1>1, <2>1, <2>2, DatagramKinds DEF ClosesInv
<1>2. TypeOK /\ TableInv /\ ClosesInv =>
        [ProcessClose =>
           table[Head(ctrl).slot] \in {Head(ctrl).of, NoFd}]_vars
  BY <1>1
<1> QED BY <1>2, PurgeAlways, PTL DEF ClosesItsSession
========
