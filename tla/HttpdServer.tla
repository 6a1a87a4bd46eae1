---------------------------- MODULE HttpdServer ----------------------------
(***************************************************************************)
(* The thread of the web server (lib/esp_http_server): its select loop,    *)
(* the table of sessions, the control socket and httpd_stop.               *)
(*                                                                         *)
(* Other actors are the clients, the tasks that call httpd_queue_work and  *)
(* httpd_trigger_sess_close, and the task that calls httpd_stop.           *)
(*                                                                         *)
(* A socket descriptor is the client at its other end: a client that       *)
(* connects again gets the descriptor it had, as a closed one is reused.   *)
(* What a client sends is counted in whole requests.                       *)
(***************************************************************************)
EXTENDS Naturals, Sequences, SequencesExt

CONSTANTS
  Clients,      \* the remote ends of connections, and so the descriptors
  NoFd,         \* -1
  MaxSockets,   \* config.max_open_sockets
  Backlog,      \* config.backlog_conn
  LruPurge,     \* config.lru_purge_enable
  Mailbox,      \* datagrams the control socket holds before it drops them
  MaxUnread,    \* bound: requests a client has in its socket
  MaxWork       \* bound: calls of httpd_queue_work by other tasks

ASSUME HttpdAssumption ==
  /\ NoFd \notin Clients
  /\ {MaxSockets, Backlog, Mailbox, MaxUnread} \subseteq Nat \ {0}
  /\ MaxWork \in Nat
  /\ LruPurge \in BOOLEAN

VARIABLES
  table,     \* hd_sd[i].fd
  pending,   \* hd_sd[i].pending_len, in requests
  used,      \* the sessions with a timestamp, each once, least recently
             \* used first
  ctrl,      \* the datagrams in the control socket
  pc,        \* where the server's thread is
  readSet,   \* read_set: what select reported
  cursor,    \* fd: the last session the loop over the sessions came to
  backlog,   \* connections not accepted yet
  open,      \* accepted connections that the server has not closed
  unread,    \* requests in each connection's socket
  eof,       \* has the client closed its end?
  stop,      \* the call of httpd_stop
  work,      \* calls of httpd_queue_work so far
  due,       \* ghost: the sessions this round has to process
  purging    \* ghost: was accept put off until a session is closed?

sessionVars == <<table, pending, used, open>>
clientVars == <<backlog, unread, eof>>
loopVars == <<pc, readSet, cursor, due>>
vars == <<sessionVars, clientVars, loopVars, ctrl, stop, work, purging>>

Slots == 1..MaxSockets
Work == [kind |-> "work"]
Shutdown == [kind |-> "shutdown"]
\* httpd_sess_close is given the slot; "of" is a ghost, the session meant.
CloseWork(s) == [kind |-> "close", slot |-> s, of |-> table[s]]
Datagrams ==
  {Work, Shutdown} \cup [kind : {"close"}, slot : Slots, of : Clients]

\* read_set after FD_ZERO.
Unset == [ctrl |-> FALSE, listen |-> FALSE, fds |-> {}]

Sessions == {table[s] : s \in Slots} \ {NoFd}
SlotOf(c) == CHOOSE s \in Slots : table[s] = c
Full == \A s \in Slots : table[s] # NoFd

Init ==
  /\ table = [s \in Slots |-> NoFd]
  /\ pending = [s \in Slots |-> 0]
  /\ used = <<>>
  /\ ctrl = <<>>
  /\ pc = "select"
  /\ readSet = Unset
  /\ cursor = NoFd
  /\ backlog = <<>>
  /\ open = {}
  /\ unread = [c \in Clients |-> 0]
  /\ eof = [c \in Clients |-> FALSE]
  /\ stop = "none"
  /\ work = 0
  /\ due = {}
  /\ purging = FALSE

----------------------------------------------------------------------------
\* The operations the steps are built from.

\* Bugs: a datagram is sent again in case it was lost; it is never sent; the
\* mailbox takes any number of them.
PostedTwice(m) ==
  IF Len(ctrl) + 1 < Mailbox THEN Append(Append(ctrl, m), m) ELSE ctrl
PostedNever(m) == ctrl
PostedUnbounded(m) == Append(ctrl, m)

\* sendto succeeds even when the receiving mailbox has no room.
Posted(m) == IF Len(ctrl) < Mailbox THEN Append(ctrl, m) ELSE ctrl

\* Bug: the socket is closed, the slot is not freed.
CloseSocketOnly(s) ==
  /\ table' = table
  /\ open' = open \ {table[s]}
  /\ used' = used
  /\ UNCHANGED <<unread, eof>>

\* close and httpd_sess_delete of the session in slot s, if there is one.
CloseSession(s) ==
  LET c == table[s] IN
  /\ table' = [table EXCEPT ![s] = NoFd]
  /\ open' = open \ {c}
  /\ used' = RemoveFirst(used, c)
  /\ unread' = [d \in Clients |-> IF d = c THEN 0 ELSE unread[d]]
  /\ eof' = [d \in Clients |-> IF d = c THEN FALSE ELSE eof[d]]

\* Bug: httpd_sess_delete does not look for the session before.
PrecedingNone(s) == NoFd

\* What httpd_sess_delete returns: the session before the one in slot s.
Preceding(s) ==
  LET before == {t \in Slots : t < s /\ table[t] # NoFd} IN
  IF before = {} THEN NoFd ELSE table[Max(before)]

\* Bug: the iteration goes on two slots after the cursor.
FollowingSkips ==
  {s \in Slots : /\ table[s] # NoFd
                 /\ cursor \in Sessions => s > SlotOf(cursor) + 1}

\* httpd_sess_iterate: the slots from the cursor on that hold a session.
Following ==
  {s \in Slots : /\ table[s] # NoFd
                 /\ cursor \in Sessions => s > SlotOf(cursor)}

\* httpd_sess_close_lru finds the session in slot s: the first that was never
\* processed (timestamp 0), else the one processed longest ago.
LeastRecentlyUsed(s) ==
  LET fresh == {t \in Slots : \A i \in DOMAIN used : used[i] # table[t]} IN
  IF fresh # {} THEN s = Min(fresh) ELSE table[s] = Head(used)

\* httpd_server returns to httpd_thread, which calls it again.
EndRound ==
  /\ pc' = "select"
  /\ readSet' = Unset
  /\ cursor' = NoFd
  /\ due' = {}

\* A session is processed if select reported it or it has pending data.
ToProcess(s) == table[s] \in readSet.fds \/ pending[s] > 0

----------------------------------------------------------------------------
\* The server's thread.

\* select waits for a datagram, a connection or data in a socket.  It does
\* not see pending data, and it has no timeout.
Select ==
  LET readable == {c \in Sessions : unread[c] > 0 \/ eof[c]} IN
  /\ pc = "select"
  /\ ctrl # <<>> \/ backlog # <<>> \/ readable # {}
  /\ readSet' = [ctrl |-> ctrl # <<>>, listen |-> backlog # <<>>,
                 fds |-> readable]
  /\ pc' = "ctrl"
  /\ cursor' = NoFd
  /\ due' = readable \cup {table[s] : s \in {t \in Slots : /\ table[t] # NoFd
                                                          /\ pending[t] > 0}}
  /\ UNCHANGED <<sessionVars, clientVars, ctrl, stop, work, purging>>

NoMessage ==
  /\ pc = "ctrl"
  /\ ~readSet.ctrl
  /\ pc' = "sessions"
  /\ UNCHANGED <<sessionVars, clientVars, ctrl, readSet, cursor, due, stop,
                 work, purging>>

ProcessWork ==
  /\ pc = "ctrl"
  /\ readSet.ctrl
  /\ Head(ctrl) = Work
  /\ ctrl' = Tail(ctrl)
  /\ pc' = "sessions"
  /\ UNCHANGED <<sessionVars, clientVars, readSet, cursor, due, stop, work,
                 purging>>

\* httpd_sess_close: whatever the slot holds by now is closed.
ProcessClose ==
  /\ pc = "ctrl"
  /\ readSet.ctrl
  /\ Head(ctrl).kind = "close"
  /\ CloseSession(Head(ctrl).slot)
  /\ due' = due \ {table[Head(ctrl).slot]}
  /\ ctrl' = Tail(ctrl)
  /\ pc' = "sessions"
  /\ UNCHANGED <<pending, backlog, readSet, cursor, stop, work, purging>>

ProcessShutdown ==
  /\ pc = "ctrl"
  /\ readSet.ctrl
  /\ Head(ctrl) = Shutdown
  /\ ctrl' = Tail(ctrl)
  /\ pc' = "stopping"
  /\ readSet' = Unset
  /\ due' = {}
  /\ UNCHANGED <<sessionVars, clientVars, cursor, stop, work, purging>>

\* The next session of the loop, in slot s.
NextSession(s) == pc = "sessions" /\ Following # {} /\ s = Min(Following)

SkipSession(s) ==
  /\ NextSession(s)
  /\ ~ToProcess(s)
  /\ cursor' = table[s]
  /\ UNCHANGED <<sessionVars, clientVars, pc, readSet, due, ctrl, stop, work,
                 purging>>

\* read_block: pending data alone, else a block from the socket, which may
\* hold several requests.  "left" of them remain to be served after the first.
ReadBlock(s, left) ==
  LET c == table[s] IN
  \/ /\ pending[s] > 0
     /\ left = pending[s] - 1
     /\ UNCHANGED unread
  \/ /\ pending[s] = 0
     /\ left + 1 \in 1..unread[c]
     /\ unread' = [unread EXCEPT ![c] = @ - (left + 1)]

\* What httpd_sess_process does of a session that stays open.
Processed(s) ==
  /\ used' = Append(RemoveFirst(used, table[s]), table[s])
  /\ cursor' = table[s]
  /\ due' = due \ {table[s]}
  /\ UNCHANGED <<table, open, backlog, eof, pc, readSet, ctrl, stop, work,
                 purging>>

\* A request is served; what the block held beyond it becomes pending.
ServeRequest(s) ==
  /\ NextSession(s)
  /\ ToProcess(s)
  /\ \E left \in 0..MaxUnread :
       ReadBlock(s, left) /\ pending' = [pending EXCEPT ![s] = left]
  /\ Processed(s)

\* A request is not understood: an error is sent and the block is dropped.
RejectRequest(s) ==
  /\ NextSession(s)
  /\ ToProcess(s)
  /\ \E left \in 0..MaxUnread : ReadBlock(s, left)
  /\ pending' = [pending EXCEPT ![s] = 0]
  /\ Processed(s)

\* The client is gone, the time is out, or the handler or a send failed.
FailRequest(s) ==
  /\ NextSession(s)
  /\ ToProcess(s)
  /\ CloseSession(s)
  /\ cursor' = Preceding(s)
  /\ due' = due \ {table[s]}
  /\ UNCHANGED <<pending, backlog, pc, readSet, ctrl, stop, work, purging>>

SessionsDone ==
  /\ pc = "sessions"
  /\ Following = {}
  /\ pc' = "accept"
  /\ UNCHANGED <<sessionVars, clientVars, readSet, cursor, due, ctrl, stop,
                 work, purging>>

NoConnection ==
  /\ pc = "accept"
  /\ ~readSet.listen
  /\ EndRound
  /\ UNCHANGED <<sessionVars, clientVars, ctrl, stop, work, purging>>

\* The table is full: close the least recently used session first.
PurgeLru ==
  /\ pc = "accept"
  /\ readSet.listen
  /\ LruPurge /\ Full
  /\ \E s \in Slots : LeastRecentlyUsed(s) /\ ctrl' = Posted(CloseWork(s))
  /\ purging' = TRUE
  /\ EndRound
  /\ UNCHANGED <<sessionVars, clientVars, stop, work>>

\* The connection gets the first free slot.
AcceptConn ==
  /\ pc = "accept"
  /\ readSet.listen
  /\ backlog' = Tail(backlog)
  /\ \E s \in Slots :
       /\ table[s] = NoFd
       /\ \A t \in 1..(s - 1) : table[t] # NoFd
       /\ table' = [table EXCEPT ![s] = Head(backlog)]
       /\ pending' = [pending EXCEPT ![s] = 0]
  /\ open' = open \cup {Head(backlog)}
  /\ purging' = FALSE
  /\ EndRound
  /\ UNCHANGED <<used, unread, eof, ctrl, stop, work>>

\* Without the purge the connection is accepted, finds no slot and is closed.
RefuseConn ==
  /\ pc = "accept"
  /\ readSet.listen
  /\ ~LruPurge /\ Full
  /\ backlog' = Tail(backlog)
  /\ unread' = [unread EXCEPT ![Head(backlog)] = 0]
  /\ eof' = [eof EXCEPT ![Head(backlog)] = FALSE]
  /\ EndRound
  /\ UNCHANGED <<sessionVars, ctrl, stop, work, purging>>

\* The end of httpd_thread: all sockets are closed.
ThreadExit ==
  /\ pc = "stopping"
  /\ table' = [s \in Slots |-> NoFd]
  /\ open' = open \ Sessions
  /\ used' = <<>>
  /\ ctrl' = <<>>
  /\ backlog' = <<>>
  /\ unread' = [c \in Clients |-> 0]
  /\ eof' = [c \in Clients |-> FALSE]
  /\ pc' = "stopped"
  /\ UNCHANGED <<pending, readSet, cursor, due, stop, work, purging>>

Server ==
  \/ Select
  \/ NoMessage \/ ProcessWork \/ ProcessClose \/ ProcessShutdown
  \/ \E s \in Slots : \/ SkipSession(s) \/ ServeRequest(s)
                      \/ RejectRequest(s) \/ FailRequest(s)
  \/ SessionsDone
  \/ NoConnection \/ PurgeLru \/ AcceptConn \/ RefuseConn
  \/ ThreadExit

----------------------------------------------------------------------------
\* The clients.

Connected(c) == c \in open \/ \E i \in DOMAIN backlog : backlog[i] = c

Connect(c) ==
  /\ pc # "stopped"
  /\ ~Connected(c)
  /\ Len(backlog) < Backlog
  /\ backlog' = Append(backlog, c)
  /\ UNCHANGED <<sessionVars, unread, eof, loopVars, ctrl, stop, work, purging>>

Send(c) ==
  /\ Connected(c)
  /\ ~eof[c]
  /\ unread[c] < MaxUnread
  /\ unread' = [unread EXCEPT ![c] = @ + 1]
  /\ UNCHANGED <<sessionVars, backlog, eof, loopVars, ctrl, stop, work, purging>>

Hangup(c) ==
  /\ Connected(c)
  /\ ~eof[c]
  /\ eof' = [eof EXCEPT ![c] = TRUE]
  /\ UNCHANGED <<sessionVars, backlog, unread, loopVars, ctrl, stop, work,
                 purging>>

----------------------------------------------------------------------------
\* The other tasks.  Work is queued while the server runs.

QueueWork ==
  /\ pc \notin {"stopping", "stopped"}
  /\ work < MaxWork
  /\ ctrl' = Posted(Work)
  /\ work' = work + 1
  /\ UNCHANGED <<sessionVars, clientVars, loopVars, stop, purging>>

TriggerSessClose(s) ==
  /\ pc \notin {"stopping", "stopped"}
  /\ work < MaxWork
  /\ table[s] # NoFd
  /\ ctrl' = Posted(CloseWork(s))
  /\ work' = work + 1
  /\ UNCHANGED <<sessionVars, clientVars, loopVars, stop, purging>>

\* httpd_stop sends the shutdown once, then polls for THREAD_STOPPED.
Stop ==
  /\ stop = "none"
  /\ ctrl' = Posted(Shutdown)
  /\ stop' = "waiting"
  /\ UNCHANGED <<sessionVars, clientVars, loopVars, work, purging>>

StopReturns ==
  /\ stop = "waiting"
  /\ pc = "stopped"
  /\ stop' = "returned"
  /\ UNCHANGED <<sessionVars, clientVars, loopVars, ctrl, work, purging>>

\* Nothing is left to happen once httpd_stop has returned.
Returned == stop = "returned" /\ UNCHANGED vars

Others ==
  \/ \E c \in Clients : Connect(c) \/ Send(c) \/ Hangup(c)
  \/ QueueWork
  \/ \E s \in Slots : TriggerSessClose(s)
  \/ Stop

Next == Server \/ Others \/ StopReturns \/ Returned

Spec == Init /\ [][Next]_vars

\* The thread runs when it can, and httpd_stop polls every second.  Clients
\* and other tasks owe nothing.
FairSpec == Spec /\ WF_vars(Server) /\ WF_vars(StopReturns)

----------------------------------------------------------------------------
\* Properties.

TypeOK ==
  /\ table \in [Slots -> Clients \cup {NoFd}]
  /\ pending \in [Slots -> 0..MaxUnread]
  /\ used \in Seq(Clients)
  /\ ctrl \in Seq(Datagrams) /\ Len(ctrl) <= Mailbox
  /\ pc \in {"select", "ctrl", "sessions", "accept", "stopping", "stopped"}
  /\ readSet \in [ctrl : BOOLEAN, listen : BOOLEAN, fds : SUBSET Clients]
  /\ cursor \in Clients \cup {NoFd}
  /\ backlog \in Seq(Clients) /\ Len(backlog) <= Backlog
  /\ open \subseteq Clients
  /\ unread \in [Clients -> 0..MaxUnread]
  /\ eof \in [Clients -> BOOLEAN]
  /\ stop \in {"none", "waiting", "returned"}
  /\ work \in 0..MaxWork
  /\ due \subseteq Clients
  /\ purging \in BOOLEAN

\* The table holds exactly the connections the server has accepted and not
\* closed, each in one slot, whatever is closed by a failed request, by queued
\* work or by the exit of the thread: no socket leaks, and no closed
\* descriptor is given to select.
TableIsOpenSockets ==
  /\ open = Sessions
  /\ \A s, t \in Slots : table[s] = table[t] /\ s # t => table[s] = NoFd

\* A round processes every session that had data when it began and is still
\* there (the iteration survives the deletion of sessions under it).
RoundCompletes == pc = "accept" => due \cap Sessions = {}

\* A session is processed only when a read of it cannot block: the one thread
\* never waits in recv on a socket with nothing to read while others wait for
\* it (the note of httpd_sess_delete in esp_httpd_priv.h).
NeverReadsIdle ==
  [][\A s \in Slots :
       FailRequest(s) => pending[s] > 0 \/ unread[table[s]] > 0 \/ eof[table[s]]
    ]_vars

\* The work queued to close a session closes that session or nothing
\* (httpd_trigger_sess_close: "the socket descriptor of the session to be
\* closed").
ClosesItsSession ==
  [][ProcessClose => table[Head(ctrl).slot] \in {Head(ctrl).of, NoFd}]_vars

\* A connection put off to purge a session finds a slot the next time it is
\* looked at (the comment in httpd_accept_conn).
PurgeMakesRoom == pc = "accept" /\ purging => ~Full

\* A connection is accepted or refused, unless the server stops.
ConnectionAnswered ==
  \A c \in Clients :
    (\E i \in DOMAIN backlog : backlog[i] = c)
      ~> ~(\E i \in DOMAIN backlog : backlog[i] = c)

\* httpd_stop returns, however busy the clients keep the server.
StopEnds == stop = "waiting" ~> stop = "returned"

\* A request the server has read and put back is taken up by the thread
\* without another event (httpd_sess_pending in esp_httpd_priv.h).
PendingServed ==
  \A s \in Slots : pending[s] > 0 /\ table[s] # NoFd
                     ~> pending[s] = 0 \/ table[s] = NoFd

============================================================================
