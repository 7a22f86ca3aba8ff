----------------------------- MODULE Databases -----------------------------
(***************************************************************************)
(* The databases an application names and the results its handlers hold:   *)
(* DbManager, PgSqlContext, Sql and PgSqlResult (sparc/detail/db.cpp) over *)
(* the registry of pgsql.c.  Contexts are added before the workers start;  *)
(* every worker registers them when it is loaded, a restarted one again,   *)
(* from the memory of the parent, where none is registered.                *)
(*                                                                         *)
(* The wait queue and the states of an asynchronous query are in Requests. *)
(* Here a Sql that went to one keeps its last result until the query ends. *)
(***************************************************************************)
EXTENDS Lists

CONSTANTS Contexts,
          DbNames,
          NDatabases,   \* ndatabses_
          PoolMax,      \* pgsql_conn_max
          Sqls,
          MaxRows,      \* bound: rows of a result
          MaxLost       \* bound: queries that fail

VARIABLES name,         \* name_ of each context
          databases,    \* databases_, NoContext for nullptr
          loaded,       \* has the worker run kore_onload
          registered,   \* pgsql_db_conn_strings: the names, the last one first
          handle,       \* db_ of each context: a name that is registered, or NoDb
          free,         \* pgsql_conn_free: the database each idle connection is of
          count,        \* pgsql_conn_count
          sql,          \* each Sql: see NoSql
          jsons,        \* Json objects that results made and did not delete
          lost          \* connections nobody has, by failed queries

dvars == <<name, databases, loaded, registered, handle, free, count, sql, jsons, lost>>
places == <<name, databases, loaded, registered, handle>>
conns == <<free, count, lost>>

NoContext == "nullptr"
NoDb == "NULL"

ASSUME DatabasesAssumption == /\ NoContext \notin Contexts /\ NoDb \notin DbNames
                              /\ IsFiniteSet(Sqls) /\ NDatabases \in Nat /\ PoolMax \in Nat

\* mode: where the Sql lives, in no handler, in one, or in a struct PgsqlAsync; result: the
\* database of the connection that result_ holds; rows and json: nrows_ and is there a json_;
\* query: the database an asynchronous query is for, running: does it have a connection.
NoSql == [mode |-> "none", result |-> NoDb, rows |-> 0, json |-> FALSE,
          query |-> NoDb, running |-> FALSE]

\* What kore_pgsql_init leaves, and the parent's memory.
kore_pgsql_init == /\ free' = <<>> /\ count' = 0 /\ lost' = 0
                   /\ sql' = [q \in Sqls |-> NoSql] /\ jsons' = 0

InitDatabases == /\ name \in [Contexts -> DbNames]
                 /\ databases = [i \in 1 .. NDatabases |-> NoContext]
                 /\ loaded = FALSE
                 /\ registered = <<>> /\ handle = [c \in Contexts |-> NoDb]
                 /\ free = <<>> /\ count = 0 /\ lost = 0
                 /\ sql = [q \in Sqls |-> NoSql] /\ jsons = 0

\* DbManager::add, by config::db: the index of the context plus one, 0 when there is no room.
add(c) ==
  LET at == {i \in 1 .. NDatabases : databases[i] = c}
      empty == {i \in 1 .. NDatabases : databases[i] = NoContext}
  IN /\ ~loaded /\ at = {} /\ empty # {}
     /\ databases' = [databases EXCEPT ![CHOOSE i \in empty : \A j \in empty : i <= j] = c]
     /\ UNCHANGED <<name, loaded, registered, handle, free, count, sql, jsons, lost>>

\* kore_pgsql_register: NULL for a name that is taken.
kore_pgsql_register(l, n) ==
  IF n \in Range(l.registered) THEN [l EXCEPT !.db = NoDb]
  ELSE [l EXCEPT !.registered = <<n>> \o @, !.db = n]

\* PgSqlContext::init: db_ becomes what the registry gives, and 0 is returned for NULL.
InitContext(l, c) ==
  LET m == kore_pgsql_register(l, name[c])
  IN [m EXCEPT !.handle[c] = m.db, !.ok = m.db # NoDb]

\* DbManager::init: slot by slot, up to the first that fails.
NoneYet == [ok |-> TRUE, db |-> NoDb, registered |-> <<>>, handle |-> [c \in Contexts |-> NoDb]]

InitSlot(l, c) == IF l.ok /\ c # NoContext THEN InitContext(l, c) ELSE l

InitSlots ==
  LET slots[i \in 0 .. NDatabases] == IF i = 0 THEN NoneYet ELSE InitSlot(slots[i - 1], databases[i])
  IN slots

\* A worker starts, the first time or in the place of one that died: its lists are made
\* anew and kore_onload runs DbManager::init, whose failure nobody looks at.
WorkerEntry ==
  /\ loaded' = TRUE
  /\ registered' = InitSlots[NDatabases].registered /\ handle' = InitSlots[NDatabases].handle
  /\ kore_pgsql_init
  /\ UNCHANGED <<name, databases>>

-----------------------------------------------------------------------------

\* DbManager::get: the index is unsigned, so 0 is out of range like a large one.
get(id) == IF id \in 1 .. NDatabases THEN databases[id] ELSE NoContext

\* pgsql_conn_next for the database d: an idle connection of it, or a new one.
CanConnect(d) == d \in Range(free) \/ count < PoolMax

Connected(d) == [free |-> IF d \in Range(free) THEN Unlink(free, d) ELSE free,
                 count |-> IF d \in Range(free) THEN count ELSE count + 1]

\* Mutant: the old result's connection is forgotten.
GivenForgotten(f, s) == f

\* ~PgSqlResult: the connection goes back to the idle ones.
Given(f, s) == IF s.result = NoDb THEN f ELSE Append(f, s.result)

JsonsLess(s) == IF s.json THEN jsons - 1 ELSE jsons

\* A handler makes a Sql.
MakeSql(q) == /\ loaded /\ sql[q].mode = "none"
            /\ sql' = [sql EXCEPT ![q].mode = "handler"]
            /\ UNCHANGED <<places, conns, jsons>>

\* A PgSqlResult that owns its connection, of the database d, with n rows.
PgSqlResult(d, n) == [NoSql EXCEPT !.mode = "handler", !.result = d, !.rows = n]

NoResult == [NoSql EXCEPT !.mode = "handler"]

\* Sql::setResult, after query: the old result is deleted when the new one is there.
setResult(q, f, new) ==
  /\ sql' = [sql EXCEPT ![q] = new]
  /\ free' = Given(f, sql[q])
  /\ jsons' = JsonsLess(sql[q])

\* db::query(dbid, sql) with the context's exec: a result, or nullptr because the context has
\* no database, there is no connection to be had, or the query fails, which loses the
\* connection.  An id without a context leaves the Sql as it was.
query(q, id) ==
  LET c == get(id)
      d == handle[c]
  IN /\ sql[q].mode = "handler"
     /\ c # NoContext
     /\ \/ /\ d # NoDb /\ CanConnect(d)
           /\ \/ /\ \E n \in 0 .. MaxRows : setResult(q, Connected(d).free, PgSqlResult(d, n))
                 /\ UNCHANGED lost
              \/ /\ lost < MaxLost /\ setResult(q, Connected(d).free, NoResult)
                 /\ lost' = lost + 1
           /\ count' = Connected(d).count
        \/ /\ d = NoDb \/ ~CanConnect(d)
           /\ setResult(q, free, NoResult)
           /\ UNCHANGED <<count, lost>>
     /\ UNCHANGED places

\* PgSqlResult::toJson keeps what it made.
toJson(q) == /\ sql[q].result # NoDb /\ ~sql[q].json
             /\ sql' = [sql EXCEPT ![q].json = TRUE]
             /\ jsons' = jsons + 1
             /\ UNCHANGED <<places, conns>>

\* The Sql moves, with its result, into a PgsqlAsync for the database d.
PgsqlAsync(s, d) == [s EXCEPT !.mode = "async", !.query = d]

\* db::query(dbid, sql, onAsync)
queryAsync(q, id) ==
  /\ sql[q].mode = "handler"
  /\ get(id) # NoContext
  /\ sql' = [sql EXCEPT ![q] = PgsqlAsync(@, handle[get(id)])]
  /\ UNCHANGED <<places, conns, jsons>>

\* pgsql_async_init got a connection.
AsyncRuns(q) ==
  LET d == sql[q].query
  IN /\ sql[q].mode = "async" /\ d # NoDb /\ ~sql[q].running /\ CanConnect(d)
     /\ sql' = [sql EXCEPT ![q].running = TRUE]
     /\ free' = Connected(d).free /\ count' = Connected(d).count
     /\ UNCHANGED <<places, jsons, lost>>

\* ~Sql: the handler returns, or the asynchronous query ends; it does when it has run, when
\* it has no database and when its client goes away (pgsql_async_clean_up).
Discard(q) ==
  LET s == sql[q]
  IN /\ s.mode # "none"
     /\ sql' = [sql EXCEPT ![q] = NoSql]
     /\ free' = Given(IF s.running THEN Append(free, s.query) ELSE free, s)
     /\ jsons' = JsonsLess(s)
     /\ UNCHANGED <<places, count, lost>>

NextDatabases == \/ WorkerEntry
                 \/ \E c \in Contexts : add(c)
                 \/ \E q \in Sqls : \/ MakeSql(q) \/ toJson(q) \/ AsyncRuns(q) \/ Discard(q)
                                    \/ \E id \in 0 .. NDatabases + 1 : query(q, id) \/ queryAsync(q, id)

-----------------------------------------------------------------------------
\* Connections that a result owns, and those of queries that run.
Held == Cardinality({q \in Sqls : sql[q].result # NoDb}) + Cardinality({q \in Sqls : sql[q].running})

\* Once a worker is loaded, the id that config::db gave for a context reaches the database of
\* that context, and it does not exactly when the context or one before it has the name of
\* an earlier one: the first name that repeats ends the registration of all that follow, in
\* the first worker and in every restarted one alike.  No connection is counted twice or
\* forgotten: each is idle, held by the one result or query that will give it back, or lost
\* by a query that failed; and a Json lives as long as the result it was made from.
DatabasesServe ==
  loaded =>
    /\ \A id \in 1 .. NDatabases : databases[id] # NoContext =>
         LET repeats == \E j \in 1 .. id : \E i \in 1 .. j - 1 : name[databases[i]] = name[databases[j]]
         IN handle[databases[id]] = IF repeats THEN NoDb ELSE name[databases[id]]
    /\ count = Len(free) + Held + lost /\ count <= PoolMax
    /\ Range(free) \cup {sql[q].result : q \in Sqls} \subseteq Range(registered) \cup {NoDb}
    /\ jsons = Cardinality({q \in Sqls : sql[q].json})
=============================================================================
