------------------------------ MODULE Requests ------------------------------
(***************************************************************************)
(* One worker's event loop: the HTTP requests of its clients, the pool of  *)
(* database connections they share and the asynchronous query every        *)
(* request may run (base/kore/http.c, pgsql.c, connection.c; the states of *)
(* an asynchronous query are in sparc/detail/db.cpp).                      *)
(*                                                                         *)
(* A worker is one thread, so a callback is one step.  The freedom is in   *)
(* which events epoll reports in an iteration, in what the database and    *)
(* the clients do between them, and in the order the lists give to         *)
(* http_process.  A callback that calls others is the composition of their *)
(* effects on st, the worker's memory.                                     *)
(***************************************************************************)
EXTENDS Lists, FiniteSets

CONSTANTS Reqs,          \* every request the clients send
          Conns,         \* every client connection
          DBs,           \* the registered databases
          ConnMax,       \* pgsql_conn_max
          RequestLimit,  \* http_request_limit
          Replies,       \* what a query may be answered with
          MaxDrops,      \* bound: connections to clients that are closed
          MaxFails,      \* bound: failures of the database
          None

PConns == 1 .. ConnMax

Flags == {"complete", "delete", "sleeping", "queue"}

\* A reply is what PQgetResult returns for a query, the NULL at its end included.
Items == {"tuples", "command", "error", "copy", "null"}

ASSUME RequestsAssumption == /\ ConnMax \in Nat \ {0} /\ RequestLimit \in Nat \ {0}
                             /\ MaxDrops \in Nat /\ MaxFails \in Nat
                             /\ None \notin Reqs \cup Conns \cup DBs
                             /\ {"header", "dirty"} \cap Reqs = {} /\ Replies \subseteq Seq(Items)

VARIABLES st,      \* the worker's memory, see Init
          phase,   \* events, process (http_process), handle, fsm or prune
          cur, nxt, served,  \* http_process: req, next and count
          cut,     \* did http_process stop at its limit the last time
          seen,    \* database connections this epoll_wait has reported
          drops, fails       \* what is used up of the bounds

loop == <<phase, cur, nxt, served, cut, seen>>
vars == <<st, loop, drops, fails>>

Init ==
  /\ st = [awake |-> <<>>, asleep |-> <<>>,        \* http_requests, http_requests_sleeping
           life |-> [r \in Reqs |-> "unborn"],     \* unborn, live or freed
           flags |-> [r \in Reqs |-> {}],
           owner |-> [r \in Reqs |-> None],
           extra |-> {},                           \* requests with hdlr_extra set
           fsm |-> [r \in Reqs |-> "init"],        \* fsm_state
           answered |-> [r \in Reqs |-> 0],        \* responses sent
           reqdb |-> [r \in Reqs |-> None],        \* struct PgsqlAsync: db
           pstate |-> [r \in Reqs |-> "init"],     \*   pgsql.state
           pconn |-> [r \in Reqs |-> 0],           \*   pgsql.conn
           conn |-> [c \in Conns |-> "new"],       \* new, open, closing or gone
           closing |-> <<>>,                       \* the list disconnected
           olist |-> [c \in Conns |-> <<>>],       \* c->http_requests
           rx |-> [c \in Conns |-> "header"],      \* c->rnb: header, dirty or a body's request
           db |-> [k \in PConns |-> None],         \* struct pgsql_conn: name (None: no such)
           job |-> [k \in PConns |-> None],        \*   job->req
           inflight |-> [k \in PConns |-> <<>>],   \*   what the server has yet to send
           buf |-> [k \in PConns |-> <<>>],        \*   what libpq has and nobody fetched
           reg |-> {}, broken |-> {},              \*   in the epoll set; closed by the server
           pool |-> <<>>,                          \* pgsql_conn_free
           count |-> 0,                            \* pgsql_conn_count
           queue |-> <<>>,                         \* pgsql_wait_queue
           fatal |-> "no"]
  /\ phase = "events" /\ cur = None /\ nxt = None /\ served = 0 /\ cut = FALSE /\ seen = {}
  /\ drops = 0 /\ fails = 0

-----------------------------------------------------------------------------
(* http.c: the lists of requests                                           *)

\* Mutant: the request stays where it is.
SleepInPlace(s, r) == [s EXCEPT !.flags[r] = @ \cup {"sleeping"}]

http_request_sleep(s, r) ==
  IF "sleeping" \in s.flags[r] THEN s
  ELSE [s EXCEPT !.flags[r] = @ \cup {"sleeping"},
                 !.awake = Unlink(@, r), !.asleep = Append(@, r)]

http_request_wakeup(s, r) ==
  IF "sleeping" \notin s.flags[r] THEN s
  ELSE [s EXCEPT !.flags[r] = @ \ {"sleeping"},
                 !.asleep = Unlink(@, r), !.awake = Append(@, r)]

\* The last lines of http_request_new: new requests go to the head.
http_request_new(s, c, r, flags) ==
  [s EXCEPT !.life[r] = "live", !.flags[r] = flags, !.owner[r] = c,
            !.awake = <<r>> \o @, !.olist[c] = Append(@, r)]

kore_connection_disconnect(s, c) ==
  IF s.conn[c] # "open" THEN s
  ELSE [s EXCEPT !.conn[c] = "closing", !.closing = Append(@, c)]

-----------------------------------------------------------------------------
(* pgsql.c: the pool and its wait queue                                    *)

\* The first waiter that is not deleted is woken and leaves the queue.
pgsql_queue_wakeup(s) ==
  LET first == Search(s.queue, LAMBDA r : "delete" \notin s.flags[r])
  IN IF first = 0 THEN s
     ELSE LET r == s.queue[first]
          IN [http_request_wakeup(s, r) EXCEPT !.flags[r] = @ \ {"queue"},
                                               !.queue = Unlink(@, r)]

pgsql_queue_add(s, r) ==
  [http_request_sleep(s, r) EXCEPT !.flags[r] = @ \cup {"queue"}, !.queue = Append(@, r)]

\* Mutant: nobody is told that a connection is free.
ToPoolQuietly(s, k) ==
  [s EXCEPT !.job[k] = None, !.reg = @ \ {k}, !.inflight[k] = <<>>,
            !.buf[k] = <<>>, !.pool = Append(@, k)]

\* The end of pgsql_conn_release: drained, the connection goes back to the pool.
ToPool(s, k) ==
  pgsql_queue_wakeup([s EXCEPT !.job[k] = None, !.reg = @ \ {k}, !.inflight[k] = <<>>,
                               !.buf[k] = <<>>, !.pool = Append(@, k)])

\* pgsql_conn_release of an asynchronous query: kore_platform_disable_read is
\* fatal for a socket that is not in the epoll set.
pgsql_conn_release(s, r) ==
  LET k == s.pconn[r]
  IN IF k = 0 THEN s
     ELSE IF k \notin s.reg THEN [s EXCEPT !.fatal = "disable_read"]
     ELSE ToPool([s EXCEPT !.pconn[r] = 0, !.pstate[r] = "complete"], k)

kore_pgsql_cleanup(s, r) == pgsql_conn_release(s, r)

pgsql_set_error(s, r) == [s EXCEPT !.pstate[r] = "error"]

\* Mutant: pgsql_conn_count is not decremented.
CleanupKeepsCount(s, k) ==
  LET r == s.job[k]
      t == IF r = None THEN s
           ELSE pgsql_set_error([http_request_wakeup(s, r) EXCEPT !.pconn[r] = 0], r)
  IN [t EXCEPT !.job[k] = None, !.db[k] = None, !.inflight[k] = <<>>, !.buf[k] = <<>>,
               !.reg = @ \ {k}, !.broken = @ \ {k}, !.pool = Unlink(@, k)]

\* The connection and its job are gone; nobody in the wait queue is woken.
pgsql_conn_cleanup(s, k) ==
  LET r == s.job[k]
      t == IF r = None THEN s
           ELSE pgsql_set_error([http_request_wakeup(s, r) EXCEPT !.pconn[r] = 0], r)
  IN [t EXCEPT !.job[k] = None, !.db[k] = None, !.inflight[k] = <<>>, !.buf[k] = <<>>,
               !.reg = @ \ {k}, !.broken = @ \ {k}, !.pool = Unlink(@, k), !.count = @ - 1]

\* pgsql_conn_create, when PQconnectdb succeeds.
pgsql_conn_create(s, k, d) == [s EXCEPT !.count = @ + 1, !.db[k] = d]

\* What pgsql_conn_next may return: an idle connection of the database, none (0)
\* when the limit is reached, or a new one.
pgsql_conn_next(s, d) ==
  LET idle == Search(s.pool, LAMBDA k : s.db[k] = d)
      fresh == {k \in PConns : s.db[k] = None}
  IN IF idle # 0
     THEN {[s |-> [s EXCEPT !.pool = Unlink(@, s.pool[idle])], k |-> s.pool[idle]]}
     ELSE IF s.count >= ConnMax THEN {[s |-> s, k |-> 0]}
     ELSE {[s |-> pgsql_conn_create(s, k, d), k |-> k] : k \in fresh}

\* PQconnectdb failed: pgsql_conn_cleanup reads flags, job and name of a block
\* that was never initialised.  Either the block was zero or the worker dies.
Unconnected(s) == {s, [s EXCEPT !.fatal = "crash"]}

kore_pgsql_queue_remove(s, r) == [s EXCEPT !.queue = Unlink(@, r)]

\* kore_pgsql_query_init of an asynchronous query, once pgsql_conn_next gave the connection k.
kore_pgsql_query_init(s, r, k) ==
  [http_request_sleep(s, r) EXCEPT !.job[k] = r, !.pconn[r] = k]

pgsql_schedule(s, r, k) == [s EXCEPT !.reg = @ \cup {k}, !.pstate[r] = "wait"]

\* kore_pgsql_query: what may follow.  PQsendQuery fails on a connection the server has closed.
kore_pgsql_query(s, r) ==
  LET k == s.pconn[r]
  IN IF k \in s.broken THEN {pgsql_set_error(s, r)}
     ELSE {pgsql_schedule([s EXCEPT !.inflight[k] = reply], r, k) : reply \in Replies}

ResultState == [tuples |-> "result", command |-> "done", error |-> "error", null |-> "done"]

\* With n more items received: busy, at the end, or one more result.
pgsql_read_result(s, k, r, n) ==
  LET got == s.buf[k] \o SubSeq(s.inflight[k], 1, n)
      rest == SubSeq(s.inflight[k], n + 1, Len(s.inflight[k]))
      t == [s EXCEPT !.buf[k] = IF got = <<>> THEN <<>> ELSE Tail(got), !.inflight[k] = rest]
  IN IF got = <<>> THEN [t EXCEPT !.pstate[r] = IF rest = <<>> THEN "done" ELSE "wait"]
     ELSE IF Head(got) = "copy" THEN t
     ELSE [t EXCEPT !.pstate[r] = ResultState[Head(got)]]

\* Mutant: the request goes back to sleep whatever arrived.
SleepAlways(s, r) == http_request_sleep(s, r)

\* The last lines of kore_pgsql_handle.
SleepOrWake(s, r) == IF s.pstate[r] = "wait" THEN http_request_sleep(s, r)
                     ELSE http_request_wakeup(s, r)

\* kore_pgsql_handle(conn, 0): what PQconsumeInput finds is up to the network.
kore_pgsql_handle(s, k) ==
  LET r == s.job[k]
  IN {SleepOrWake(pgsql_read_result(s, k, r, n), r) : n \in 0 .. Len(s.inflight[k])}

\* The same when PQconsumeInput fails: the connection is kept.
HandleFailed(s, k) ==
  LET r == s.job[k]
  IN SleepOrWake(pgsql_set_error([s EXCEPT !.broken = @ \cup {k}], r), r)

-----------------------------------------------------------------------------
(* The end of a request and of a connection                                *)

\* free_hdlr_extra of a request that ends before its query.
pgsql_async_clean_up(s, r) ==
  [kore_pgsql_cleanup(s, r) EXCEPT !.extra = @ \ {r}, !.fsm[r] = "init", !.pstate[r] = "init",
                                   !.reqdb[r] = None]

\* The queries are cleaned up, the request leaves the wait queue and the lists, and
\* hdlr_extra is freed.
http_request_free(s, r) ==
  LET c == kore_pgsql_cleanup(s, r)
      t == IF "queue" \in c.flags[r] THEN kore_pgsql_queue_remove(c, r) ELSE c
  IN [pgsql_async_clean_up(t, r) EXCEPT !.awake = Unlink(@, r),
                                        !.olist[t.owner[r]] = Unlink(@, r),
                                        !.life[r] = "freed", !.flags[r] = {}]

\* Mutant: the requests of a removed connection live on.
RemoveKeepsRequests(s, c) ==
  [s EXCEPT !.conn[c] = "gone", !.olist[c] = <<>>, !.rx[c] = "header"]

\* The loop over c->http_requests: the requests are deleted, and woken for it.
DeleteRequests(s, q) ==
  LET deleted[i \in 0 .. Len(q)] ==
        IF i = 0 THEN s
        ELSE http_request_wakeup([deleted[i - 1] EXCEPT !.flags[q[i]] = @ \cup {"delete"}], q[i])
  IN deleted

kore_connection_remove(s, c) ==
  [DeleteRequests(s, s.olist[c])[Len(s.olist[c])]
     EXCEPT !.conn[c] = "gone", !.olist[c] = <<>>, !.rx[c] = "header"]

\* kore_connection_prune(KORE_CONNECTION_PRUNE_DISCONNECT): the list disconnected.
RemoveConnections(s) ==
  LET removed[i \in 0 .. Len(s.closing)] ==
        IF i = 0 THEN s ELSE kore_connection_remove(removed[i - 1], s.closing[i])
  IN removed

kore_connection_prune(s) == [RemoveConnections(s)[Len(s.closing)] EXCEPT !.closing = <<>>]

\* http_response: the answer is queued and the next header is awaited, whatever
\* the connection was receiving.
http_response(s, r) == [s EXCEPT !.answered[r] = @ + 1, !.rx[s.owner[r]] = "header"]

\* http_process_request after the page handler returned KORE_RESULT_OK; the
\* flush may fail or close a connection that is not kept alive.
Finished(s, r, close) ==
  [IF close THEN kore_connection_disconnect(s, s.owner[r]) ELSE s
     EXCEPT !.flags[r] = @ \cup {"delete"}]

-----------------------------------------------------------------------------
(* Events: kore_platform_event_wait                                        *)

Event == phase = "events" /\ st.fatal = "no"

Quiet == UNCHANGED <<loop, drops, fails>>

\* kore_connection_accept
Accept(c) == /\ Event /\ st.conn[c] = "new"
             /\ st' = [st EXCEPT !.conn[c] = "open"]
             /\ Quiet

\* http_header_recv of a request whose body, if it has one, came with the header.
Get(c, r) == /\ Event /\ st.conn[c] = "open" /\ st.rx[c] = "header" /\ st.life[r] = "unborn"
             /\ st' = [http_request_new(st, c, r, {"complete"}) EXCEPT !.rx[c] = "dirty"]
             /\ Quiet

\* http_header_recv of a request with a body: rejected, or the body is still to come.
PostRejected(c, r) ==
  /\ Event /\ st.conn[c] = "open" /\ st.rx[c] = "header" /\ st.life[r] = "unborn"
  /\ st' = http_request_new(st, c, r, {"delete"})
  /\ Quiet

Post(c, r) ==
  /\ Event /\ st.conn[c] = "open" /\ st.rx[c] = "header" /\ st.life[r] = "unborn"
  /\ st' = [http_request_sleep(http_request_new(st, c, r, {}), r) EXCEPT !.rx[c] = r]
  /\ Quiet

\* http_body_recv of the last bytes.
http_body_recv(c) ==
  /\ Event /\ st.conn[c] = "open" /\ st.rx[c] \in Reqs
  /\ LET r == st.rx[c]
     IN st' = [http_request_wakeup(st, r) EXCEPT !.flags[r] = @ \cup {"complete"},
                                                 !.rx[c] = "header"]
  /\ Quiet

\* Its error path: the body could not be stored.
BodyFailed(c) ==
  /\ Event /\ st.conn[c] = "open" /\ st.rx[c] \in Reqs /\ drops < MaxDrops
  /\ LET r == st.rx[c]
     IN st' = kore_connection_disconnect([st EXCEPT !.flags[r] = @ \cup {"delete"},
                                                    !.rx[c] = "header"], c)
  /\ drops' = drops + 1
  /\ UNCHANGED <<loop, fails>>

\* The netbuf still holds the header of the last request: what follows it is
\* answered with an error, and the netbuf is reset.
Misread(c) == /\ Event /\ st.conn[c] = "open" /\ st.rx[c] = "dirty"
              /\ st' = [st EXCEPT !.rx[c] = "header"]
              /\ Quiet

\* EPOLLERR, EPOLLHUP or a failing read.
ClientGone(c) == /\ Event /\ st.conn[c] = "open" /\ drops < MaxDrops
                 /\ st' = kore_connection_disconnect(st, c)
                 /\ drops' = drops + 1
                 /\ UNCHANGED <<loop, fails>>

Reported(k) == /\ Event /\ k \in st.reg /\ k \notin seen
               /\ seen' = seen \cup {k}

PgsqlReadable(k) == /\ Reported(k) /\ st.inflight[k] # <<>>
                    /\ st' \in kore_pgsql_handle(st, k)
                    /\ UNCHANGED <<phase, cur, nxt, served, cut, drops, fails>>

PgsqlBroken(k) == /\ Reported(k) /\ fails < MaxFails
                  /\ st' = HandleFailed(st, k)
                  /\ fails' = fails + 1
                  /\ UNCHANGED <<phase, cur, nxt, served, cut, drops>>

PgsqlError(k) == /\ Reported(k) /\ fails < MaxFails
                 /\ st' = pgsql_conn_cleanup(st, k)
                 /\ fails' = fails + 1
                 /\ UNCHANGED <<phase, cur, nxt, served, cut, drops>>

\* The server closes a connection that lies in the pool.  No event reports it.
IdleClosed(k) == /\ Event /\ k \in Range(st.pool) \ st.broken /\ fails < MaxFails
                 /\ st' = [st EXCEPT !.broken = @ \cup {k}]
                 /\ fails' = fails + 1
                 /\ UNCHANGED <<loop, drops>>

-----------------------------------------------------------------------------
(* http_process                                                            *)

First(q) == IF q = <<>> THEN None ELSE Head(q)

\* TAILQ_NEXT
After(q, r) == LET rest == {i \in 1 .. Len(q) - 1 : q[i] = r}
               IN IF rest = {} THEN None ELSE q[(CHOOSE i \in rest : TRUE) + 1]

ProcessBegin == /\ Event
                /\ phase' = "process" /\ nxt' = First(st.awake) /\ served' = 0 /\ seen' = {}
                /\ UNCHANGED <<st, cur, cut, drops, fails>>

ProcessEnd == /\ phase = "process" /\ st.fatal = "no"
              /\ nxt = None \/ served >= RequestLimit
              /\ cut' = (nxt # None)
              /\ phase' = "prune" /\ nxt' = None /\ served' = 0
              /\ UNCHANGED <<st, cur, seen, drops, fails>>

Visit(r) == /\ phase = "process" /\ st.fatal = "no"
            /\ nxt = r /\ served < RequestLimit
            /\ nxt' = After(st.awake, r)

VisitDeleted(r) == /\ Visit(r) /\ "delete" \in st.flags[r]
                   /\ st' = http_request_free(st, r)
                   /\ UNCHANGED <<phase, cur, served, cut, seen, drops, fails>>

\* A request that sleeps is a fatal error, one that is not complete is passed
\* over; for the others http_process_request calls the page handler, sparcxx.
VisitLive(r) ==
  /\ Visit(r) /\ "delete" \notin st.flags[r]
  /\ LET runs == st.flags[r] \cap {"sleeping", "complete"} = {"complete"}
     IN /\ st' = IF "sleeping" \in st.flags[r] THEN [st EXCEPT !.fatal = "sleeping"] ELSE st
        /\ served' = IF runs THEN served + 1 ELSE served
        /\ cur' = IF runs THEN r ELSE cur
        /\ phase' = IF ~runs THEN phase ELSE IF r \in st.extra THEN "fsm" ELSE "handle"
  /\ UNCHANGED <<cut, seen, drops, fails>>

\* The page handler is done with cur: t is the memory it leaves.
Return(t) == /\ \E close \in BOOLEAN : /\ close => drops < MaxDrops
                                       /\ drops' = IF close THEN drops + 1 ELSE drops
                                       /\ st' = Finished(t, cur, close)
             /\ phase' = "process" /\ cur' = None
             /\ UNCHANGED <<nxt, served, cut, seen>>

\* KORE_RESULT_RETRY
Retry(t) == /\ st' = t
            /\ phase' = "process" /\ cur' = None
            /\ UNCHANGED <<nxt, served, cut, seen, drops>>

Continue(t) == st' = t /\ UNCHANGED <<loop, drops>>

\* App::handle of a route that answers at once.
HandleSync == /\ phase = "handle" /\ st.fatal = "no"
              /\ Return(http_response(st, cur))
              /\ UNCHANGED fails

\* PgSqlContext::exec(Sql&): a synchronous query inside the route handler.  Its
\* connection goes back to the pool with the result; when the query fails it
\* does not.
HandleSyncQuery(d) ==
  /\ phase = "handle" /\ st.fatal = "no"
  /\ \E o \in pgsql_conn_next(st, d) :
       IF o.k = 0 THEN Return(http_response(o.s, cur)) /\ UNCHANGED fails
       ELSE \/ /\ o.k \notin o.s.broken
               /\ Return(http_response(ToPool(o.s, o.k), cur))
               /\ UNCHANGED fails
            \/ /\ o.k \in o.s.broken \/ fails < MaxFails
               /\ Return(http_response(o.s, cur))
               /\ fails' = IF o.k \in o.s.broken THEN fails ELSE fails + 1
            \/ /\ o.k \notin Range(st.pool) /\ fails < MaxFails
               /\ \E t \in Unconnected(st) : Return(http_response(t, cur))
               /\ fails' = fails + 1

\* PgSqlContext::exec(Sql&&, OnAsync), then http_state_run.
HandleAsync(d) == /\ phase = "handle" /\ st.fatal = "no"
                  /\ st' = [st EXCEPT !.extra = @ \cup {cur}, !.reqdb[cur] = d]
                  /\ phase' = "fsm"
                  /\ UNCHANGED <<cur, nxt, served, cut, seen, drops, fails>>

-----------------------------------------------------------------------------
(* http_state_run over the states of an asynchronous query                 *)

Running(f) == phase = "fsm" /\ st.fatal = "no" /\ st.fsm[cur] = f

\* pgsql_async_init: kore_pgsql_query_init, and a retry while it is queued.
pgsql_async_init ==
  /\ Running("init")
  /\ LET s == [st EXCEPT !.pstate[cur] = "init"]
     IN \/ \E o \in pgsql_conn_next(s, s.reqdb[cur]) :
             IF o.k = 0 THEN Retry(pgsql_queue_add(s, cur))
             ELSE Continue([kore_pgsql_query_init(o.s, cur, o.k) EXCEPT !.fsm[cur] = "query"])
  /\ UNCHANGED fails

\* Its error path: the database cannot be reached.
InitFailed ==
  /\ Running("init") /\ fails < MaxFails
  /\ \E o \in pgsql_conn_next(st, st.reqdb[cur]) : o.k # 0 /\ o.k \notin Range(st.pool)
  /\ \E t \in Unconnected(st) : Continue([pgsql_set_error(t, cur) EXCEPT !.fsm[cur] = "error"])
  /\ fails' = fails + 1

pgsql_async_query ==
  /\ Running("query")
  /\ \E t \in kore_pgsql_query([st EXCEPT !.fsm[cur] = "wait"], cur) :
       IF t.pstate[cur] = "error" THEN Continue(t) ELSE Retry(t)
  /\ UNCHANGED fails

\* What pgsql_async_wait does in every state but WAIT: the next state, or
\* kore_pgsql_continue, which in state DONE releases the connection.
AfterWait(s, r) ==
  CASE s.pstate[r] = "complete" -> [s EXCEPT !.fsm[r] = "done"]
    [] s.pstate[r] = "error" -> [s EXCEPT !.fsm[r] = "error"]
    [] s.pstate[r] = "result" -> [s EXCEPT !.fsm[r] = "read"]
    [] s.pstate[r] = "done" -> pgsql_conn_release(http_request_wakeup(s, r), r)
    [] OTHER -> s

pgsql_async_wait ==
  /\ Running("wait")
  /\ IF st.pstate[cur] = "wait" THEN Retry(st) ELSE Continue(AfterWait(st, cur))
  /\ UNCHANGED fails

\* pgsql_async_read: the handler's status decides whether the query goes on.
pgsql_async_read ==
  /\ Running("read")
  /\ LET s == [st EXCEPT !.fsm[cur] = "wait"]
     IN \/ Continue([st EXCEPT !.fsm[cur] = "done"]) /\ UNCHANGED fails
        \/ \E t \in kore_pgsql_handle(s, st.pconn[cur]) : Continue(t) /\ UNCHANGED fails
        \/ fails < MaxFails /\ Continue(HandleFailed(s, st.pconn[cur])) /\ fails' = fails + 1

\* pgsql_async_error and pgsql_async_done: clean up, answer, complete.
pgsql_async_done ==
  /\ phase = "fsm" /\ st.fatal = "no" /\ st.fsm[cur] \in {"error", "done"}
  /\ LET t == kore_pgsql_cleanup([st EXCEPT !.extra = @ \ {cur}], cur)
     IN IF t.fatal # "no" THEN Continue(t)
        ELSE Return([http_response(t, cur) EXCEPT !.fsm[cur] = "init"])
  /\ UNCHANGED fails

-----------------------------------------------------------------------------
(* The end of an iteration                                                 *)

Prune == /\ phase = "prune" /\ st.fatal = "no"
         /\ st' = kore_connection_prune(st)
         /\ phase' = "events"
         /\ UNCHANGED <<cur, nxt, served, cut, seen, drops, fails>>

\* kore_connection_check_timeout before it: the scan ends with the first
\* connection it closes, which is no longer on the list it walks.
IdleTimeout(c) == /\ phase = "prune" /\ st.fatal = "no" /\ drops < MaxDrops
                  /\ st.conn[c] = "open"
                  /\ st' = kore_connection_prune(kore_connection_disconnect(st, c))
                  /\ phase' = "events" /\ drops' = drops + 1
                  /\ UNCHANGED <<cur, nxt, served, cut, seen, fails>>

ClientNext == \E c \in Conns : \/ Accept(c) \/ Misread(c) \/ ClientGone(c) \/ BodyFailed(c)
                               \/ \E r \in Reqs : Get(c, r) \/ Post(c, r) \/ PostRejected(c, r)

DatabaseFails == \E k \in PConns : PgsqlBroken(k) \/ PgsqlError(k) \/ IdleClosed(k)

HandlerNext == \/ HandleSync \/ \E d \in DBs : HandleSyncQuery(d) \/ HandleAsync(d)

LoopNext == \/ ProcessBegin \/ ProcessEnd \/ Prune
            \/ \E r \in Reqs : VisitDeleted(r) \/ VisitLive(r)
            \/ HandlerNext
            \/ pgsql_async_init \/ pgsql_async_query \/ pgsql_async_wait \/ pgsql_async_read
            \/ pgsql_async_done

Next == \/ LoopNext \/ ClientNext \/ DatabaseFails \/ InitFailed
        \/ \E c \in Conns : http_body_recv(c) \/ IdleTimeout(c)
        \/ \E k \in PConns : PgsqlReadable(k)

Spec == Init /\ [][Next]_vars

\* The loop never stops, epoll reports a socket until it is read, and the
\* database answers every query to its end.
Answers(k) == PgsqlReadable(k) /\ Len(st'.inflight[k]) < Len(st.inflight[k])

Fairness == WF_vars(LoopNext) /\ \A k \in PConns : SF_vars(Answers(k))

FairSpec == Spec /\ Fairness

-----------------------------------------------------------------------------
(* Properties                                                              *)

\* The types of the state.  A request is answered at most once, and
\* pgsql_conn_count never passes pgsql_conn_max, the limit pgsql_conn_next checks.
TypeOK ==
  /\ st.awake \in Seq(Reqs) /\ st.asleep \in Seq(Reqs) /\ st.queue \in Seq(Reqs)
  /\ st.life \in [Reqs -> {"unborn", "live", "freed"}]
  /\ st.flags \in [Reqs -> SUBSET Flags] /\ st.owner \in [Reqs -> Conns \cup {None}]
  /\ st.extra \subseteq Reqs /\ st.answered \in [Reqs -> 0 .. 1]
  /\ st.fsm \in [Reqs -> {"init", "query", "wait", "read", "error", "done"}]
  /\ st.reqdb \in [Reqs -> DBs \cup {None}]
  /\ st.pstate \in [Reqs -> {"init", "wait", "result", "error", "done", "complete"}]
  /\ st.pconn \in [Reqs -> PConns \cup {0}]
  /\ st.conn \in [Conns -> {"new", "open", "closing", "gone"}] /\ st.closing \in Seq(Conns)
  /\ st.olist \in [Conns -> Seq(Reqs)] /\ st.rx \in [Conns -> {"header", "dirty"} \cup Reqs]
  /\ st.db \in [PConns -> DBs \cup {None}] /\ st.job \in [PConns -> Reqs \cup {None}]
  /\ st.inflight \in [PConns -> Seq(Items)] /\ st.buf \in [PConns -> Seq(Items)]
  /\ st.reg \subseteq PConns /\ st.broken \subseteq PConns /\ st.pool \in Seq(PConns)
  /\ st.count \in 0 .. ConnMax
  /\ st.fatal \in {"no", "sleeping", "disable_read", "crash"}
  /\ phase \in {"events", "process", "handle", "fsm", "prune"}
  /\ cur \in Reqs \cup {None} /\ nxt \in Reqs \cup {None} /\ served \in 0 .. RequestLimit
  /\ cut \in BOOLEAN /\ seen \subseteq PConns
  /\ drops \in 0 .. MaxDrops /\ fails \in 0 .. MaxFails

Once(q) == \A i, j \in DOMAIN q : q[i] = q[j] => i = j

\* A live request is on exactly one of the two lists, once, and its SLEEPING
\* flag says on which; a freed one is on no list, in no queue and the subject of
\* no job and no body that is still being received.  And http_process visits a
\* request that is on its list, also after the callbacks of the one before moved
\* themselves and others from list to list: its fatal() for a sleeping request
\* never fires.
ListsAgree ==
  /\ TypeOK
  /\ Once(st.awake) /\ Once(st.asleep) /\ Once(st.queue)
  /\ Range(st.awake) \cup Range(st.asleep) = {r \in Reqs : st.life[r] = "live"}
  /\ Range(st.asleep) = {r \in Reqs : "sleeping" \in st.flags[r]}
  /\ Range(st.awake) \cap Range(st.asleep) = {}
  /\ Range(st.queue) = {r \in Reqs : "queue" \in st.flags[r]}
  /\ \A k \in PConns : st.job[k] # None => st.life[st.job[k]] = "live"
  /\ \A c \in Conns : st.rx[c] \in Reqs => st.life[st.rx[c]] = "live"
  /\ nxt # None => nxt \in Range(st.awake)
  /\ st.fatal # "sleeping"

\* The pool: a connection is idle in the free list, works for one request that
\* knows it, or is held by nobody because a synchronous query failed on it; the
\* count is that of the connections, and no idle one is in the epoll set.  Only a
\* query that the database's end refused is released without having been scheduled,
\* which is fatal (kore_platform_disable_read).
PoolConsistent ==
  /\ st.fatal = "disable_read" => fails > 0
  /\ st.fatal = "no" =>
       /\ st.count = Cardinality({k \in PConns : st.db[k] # None})
       /\ Once(st.pool)
       /\ \A k \in Range(st.pool) : st.db[k] # None /\ st.job[k] = None /\ k \notin st.reg
       /\ \A k \in PConns : st.job[k] # None => st.pconn[st.job[k]] = k /\ st.db[k] # None
       /\ \A r \in Reqs : st.pconn[r] # 0 => st.job[st.pconn[r]] = r /\ r \in st.extra
       /\ Cardinality({k \in PConns : st.db[k] # None /\ st.job[k] = None} \ Range(st.pool)) <= fails

\* A page handler, and every state of an asynchronous query, runs for a request
\* whose client connection has not been removed and whose answer is not out.
HandlerHasClient ==
  phase \in {"handle", "fsm"} /\ st.fatal = "no" =>
    /\ st.life[cur] = "live" /\ "delete" \notin st.flags[cur] /\ st.answered[cur] = 0
    /\ st.conn[st.owner[cur]] \in {"open", "closing"}
    /\ cur \in Range(st.olist[st.owner[cur]])

\* Rows that arrived are handed to the query's handler before the connection is
\* read again: only a http_process that stops at its limit leaves a result where
\* the next one overwrites it.
RowsAreRead ==
  phase = "events" /\ ~cut /\ st.fatal = "no" =>
    \A k \in st.reg \ seen : st.pstate[st.job[k]] = "wait"

Waiters == {r \in Reqs : "queue" \in st.flags[r] /\ "delete" \notin st.flags[r]}

\* Somebody is going to release a connection, or to try for one again.
Covered == \/ Waiters = {}
           \/ \E k \in PConns : st.job[k] # None
           \/ \E r \in st.extra \ Waiters : st.fsm[r] = "init" /\ "delete" \notin st.flags[r]
           \/ st.fatal # "no"

\* The steps that forget the waiters: the client of one that has just been woken
\* goes away, the database fails, or one queues though no connection is at work
\* (all are idle for another database, or were lost by a synchronous query).
ForgetStep == \/ \E r \in Reqs : /\ r \in st.extra /\ st.fsm[r] = "init"
                                 /\ "delete" \notin st.flags[r] /\ "delete" \in st'.flags[r]
              \/ fails' > fails
              \/ \E r \in Reqs : r \in Waiters' \ Waiters /\ \A k \in PConns : st.job[k] = None

\* No other step leaves a request in the wait queue with nobody to wake it.
WaitersForgottenOnlyBy == [][Covered => Covered' \/ ForgetStep]_vars

\* A request marked for deletion is freed, also when its query is still running
\* and puts it back to sleep; and one that got a database connection is answered,
\* or ends with its client's connection.
QueriesEnd == \A r \in Reqs :
  /\ "delete" \in st.flags[r] ~> st.life[r] = "freed" \/ st.fatal # "no"
  /\ st.pconn[r] # 0 ~> st.answered[r] = 1 \/ st.life[r] = "freed" \/ st.fatal # "no"

\* As long as no client goes away, the database does not fail and there is one
\* database, every complete request is answered, those that had to queue included.
EveryRequestAnswered == \A r \in Reqs :
  "complete" \in st.flags[r] ~> st.answered[r] = 1 \/ drops > 0 \/ fails > 0

\* "if we are still initializing, try again later" (sparc/detail/db.cpp, in
\* pgsql_async_init): a request in the wait queue is run again.  The idle timer,
\* which would end the wait by closing the connection of the client, is no retry.
RetriedLater == \A r \in Reqs : "queue" \in st.flags[r] ~> phase = "fsm" /\ cur = r
=============================================================================
