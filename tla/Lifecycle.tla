----------------------------- MODULE Lifecycle -----------------------------
(***************************************************************************)
(* The hub's process from main to its end: open and migrate the store,     *)
(* start the history collector of HistoryRing and the HTTP server, wait    *)
(* for a signal or an error of the server, shut the server down with a     *)
(* deadline, and run the deferred calls: stop the collector, close the     *)
(* store.  os.Exit and an early signal skip the deferred calls.            *)
(*                                                                         *)
(* The database outlives the process: a process that dies during the       *)
(* migration leaves its schema to the next one.  A websocket is hijacked,  *)
(* so Shutdown does not wait for its handler.                              *)
(***************************************************************************)
EXTENDS HistoryRing, FiniteSets

CONSTANTS
  Backend,  \* "memory" or "pg"
  Sockets   \* websocket handlers

ASSUME LifecycleAssumption == Backend \in {"memory", "pg"}

VARIABLES
  main,      \* where main is
  schema,    \* the tables and indexes in the database
  stmt,      \* the next statement of Migrate
  store,     \* "none", "open", "closed"
  listener,  \* ListenAndServe: "off", "starting", "open", "closed"
  errCh,     \* it holds the error of ListenAndServe
  sig,       \* a signal has been caught
  http,      \* each request: "outside", "active", "done"
  ws         \* each websocket: "outside", "idle", "query"

life == <<main, schema, stmt, store, listener, errCh, sig, http, ws>>
hubVars == <<vars, life>>

Alive == main \notin {"exited", "failed", "killed"}
Active == {r \in Requests : http[r] = "active"}

(* 0001_init.sql: the statements in order; each creates one object and refers
   to others. *)
Table(t, refs) == [makes |-> t, needs |-> refs]
Schema ==
  LET tenants == {"tenants"} IN
    <<Table("tenants", {}), Table("users", tenants),
      Table("agents", tenants), Table("idx_agents", {"agents"}),
      Table("mcp_servers", tenants), Table("idx_mcp_servers", {"mcp_servers"}),
      Table("flows", tenants), Table("idx_flows", {"flows"}),
      Table("runs", {"tenants", "flows"}),
      Table("idx_runs_tenant", {"runs"}), Table("idx_runs_flow", {"runs"}),
      Table("tasks", tenants), Table("idx_tasks", {"tasks"})>>
Objects == {Schema[i].makes : i \in DOMAIN Schema}

HubInit ==
  /\ Init
  /\ main = "connect"
  /\ schema = {}
  /\ stmt = 1
  /\ store = "none"
  /\ listener = "off"
  /\ errCh = FALSE
  /\ sig = FALSE
  /\ http = [r \in Requests |-> "outside"]
  /\ ws = [s \in Sockets |-> "outside"]

-----------------------------------------------------------------------------
(* main, up to the select *)

(* buildStore: the pool is opened and pinged. *)
Connect ==
  /\ main = "connect"
  /\ store' = "open"
  /\ main' = IF Backend = "pg" THEN "migrate" ELSE "start"
  /\ stmt' = 1
  /\ UNCHANGED <<vars, schema, listener, errCh, sig, http, ws>>

(* A configuration that does not validate, or a database that is not there. *)
ConnectFails ==
  /\ main = "connect"
  /\ main' = "failed"
  /\ UNCHANGED <<vars, schema, stmt, store, listener, errCh, sig, http, ws>>

MutPlainCreate(s) == s.needs \subseteq schema /\ s.makes \notin schema

(* CREATE ... IF NOT EXISTS *)
Executes(s) == s.needs \subseteq schema

(* Migrate: one statement after the other, without a transaction. *)
Migrate ==
  /\ main = "migrate"
  /\ IF stmt > Len(Schema)
       THEN main' = "start" /\ UNCHANGED <<schema, stmt>>
       ELSE /\ Executes(Schema[stmt])
            /\ schema' = schema \cup {Schema[stmt].makes}
            /\ stmt' = stmt + 1
            /\ UNCHANGED main
  /\ UNCHANGED <<vars, store, listener, errCh, sig, http, ws>>

(* A statement is refused, or the database fails: the pool is closed. *)
MigrateFails ==
  /\ main = "migrate"
  /\ stmt <= Len(Schema)
  /\ store' = "closed"
  /\ main' = "failed"
  /\ UNCHANGED <<vars, schema, stmt, listener, errCh, sig, http, ws>>

(* History.Start, and the goroutine of ListenAndServe. *)
StartServices ==
  /\ main = "start"
  /\ Start
  /\ listener' = "starting"
  /\ main' = "notify"
  /\ UNCHANGED <<schema, stmt, store, errCh, sig, http, ws>>

Notify ==
  /\ main = "notify"
  /\ main' = "select"
  /\ UNCHANGED <<vars, schema, stmt, store, listener, errCh, sig, http, ws>>

(* SIGINT or SIGTERM: before signal.Notify it ends the process. *)
Signal ==
  /\ Alive
  /\ IF main \in {"connect", "migrate", "start", "notify"}
       THEN main' = "killed" /\ UNCHANGED sig
       ELSE sig' = TRUE /\ UNCHANGED main
  /\ UNCHANGED <<vars, schema, stmt, store, listener, errCh, http, ws>>

(* The next process, after one that did not get to the collector. *)
Restart ==
  /\ main \in {"failed", "killed"}
  /\ run = "off"
  /\ main' = "connect"
  /\ store' = "none"
  /\ UNCHANGED <<vars, schema, stmt, listener, errCh, sig, http, ws>>

-----------------------------------------------------------------------------
(* The goroutine of ListenAndServe, and what it serves *)

Listen ==
  /\ Alive
  /\ listener = "starting"
  /\ listener' = "open"
  /\ UNCHANGED <<vars, main, schema, stmt, store, errCh, sig, http, ws>>

(* The port is taken, or Accept fails: errCh has room for the error. *)
ListenFails ==
  /\ Alive
  /\ listener \in {"starting", "open"}
  /\ listener' = "closed"
  /\ errCh' = TRUE
  /\ UNCHANGED <<vars, main, schema, stmt, store, sig, http, ws>>

RequestArrives(r) ==
  /\ Alive
  /\ listener = "open"
  /\ http[r] = "outside"
  /\ http' = [http EXCEPT ![r] = "active"]
  /\ UNCHANGED <<vars, main, schema, stmt, store, listener, errCh, sig, ws>>

RequestEnds(r) ==
  /\ Alive
  /\ http[r] = "active"
  /\ req[r] = "answered"
  /\ http' = [http EXCEPT ![r] = "done"]
  /\ UNCHANGED <<vars, main, schema, stmt, store, listener, errCh, sig, ws>>

SocketOpens(s) ==
  /\ Alive
  /\ listener = "open"
  /\ ws[s] = "outside"
  /\ ws' = [ws EXCEPT ![s] = "idle"]
  /\ UNCHANGED <<vars, main, schema, stmt, store, listener, errCh, sig, http>>

(* A chat turn reads the store; a closed pool refuses at once. *)
SocketQueries(s) ==
  /\ Alive
  /\ store = "open"
  /\ ws[s] = "idle"
  /\ ws' = [ws EXCEPT ![s] = "query"]
  /\ UNCHANGED <<vars, main, schema, stmt, store, listener, errCh, sig, http>>

QueryEnds(s) ==
  /\ Alive
  /\ ws[s] = "query"
  /\ ws' = [ws EXCEPT ![s] = "idle"]
  /\ UNCHANGED <<vars, main, schema, stmt, store, listener, errCh, sig, http>>

-----------------------------------------------------------------------------
(* main, from the select on *)

(* Shutdown begins by closing the listener. *)
Select ==
  /\ main = "select"
  /\ sig \/ errCh
  /\ main' = "shutdown"
  /\ listener' = "closed"
  /\ UNCHANGED <<vars, schema, stmt, store, errCh, sig, http, ws>>

MutDoesNotWait ==
  /\ main = "shutdown"
  /\ main' = "stop"
  /\ UNCHANGED <<vars, schema, stmt, store, listener, errCh, sig, http, ws>>

ShutdownReturns ==
  /\ main = "shutdown"
  /\ Active = {}
  /\ main' = "stop"
  /\ UNCHANGED <<vars, schema, stmt, store, listener, errCh, sig, http, ws>>

MutNoDeadline == FALSE /\ UNCHANGED hubVars

(* The 15 seconds are over: os.Exit(1). *)
DeadlinePasses ==
  /\ main = "shutdown"
  /\ main' = "failed"
  /\ UNCHANGED <<vars, schema, stmt, store, listener, errCh, sig, http, ws>>

(* The deferred calls, last one first: History.Stop, which waits, *)
StopHistory ==
  /\ main = "stop"
  /\ Stop
  /\ UNCHANGED life

(* and st.Close, which waits for the connections in use. *)
CloseStore ==
  /\ main = "stop"
  /\ stopper = "returned"
  /\ store' = "closed"
  /\ main' = "close"
  /\ UNCHANGED <<vars, schema, stmt, listener, errCh, sig, http, ws>>

Exit ==
  /\ main = "close"
  /\ Backend = "pg" => \A s \in Sockets : ws[s] # "query"
  /\ main' = "exited"
  /\ UNCHANGED <<vars, schema, stmt, store, listener, errCh, sig, http, ws>>

Over == ~Alive /\ UNCHANGED hubVars

-----------------------------------------------------------------------------
MainStep ==
  \/ Connect \/ ConnectFails \/ Migrate \/ MigrateFails \/ StartServices
  \/ Notify \/ Select \/ ShutdownReturns \/ DeadlinePasses \/ StopHistory
  \/ CloseStore \/ Exit

Handler(r) ==
  /\ r \in Active
  /\ ReadLatest(r) \/ RequestReads(r) \/ RequestWrites(r)

HubNext ==
  \/ MainStep \/ Signal \/ Restart \/ Listen \/ ListenFails \/ Over
  \/ Alive /\ (Tick \/ Collector \/ \E r \in Requests : Handler(r)) /\ UNCHANGED life
  \/ \E r \in Requests : RequestArrives(r) \/ RequestEnds(r)
  \/ \E s \in Sockets : SocketOpens(s) \/ SocketQueries(s) \/ QueryEnds(s)

HubSpec == HubInit /\ [][HubNext]_hubVars

(* main and the collector's goroutine run, the deadline of Shutdown passes,
   the database answers a query; a request may hang for ever. *)
HubFairSpec ==
  /\ HubSpec
  /\ WF_hubVars(MainStep)
  /\ WF_hubVars(Alive /\ (TickerReads \/ TickerWrites) /\ UNCHANGED life)
  /\ SF_hubVars(Alive /\ RunReturns /\ UNCHANGED life)
  /\ WF_hubVars(Alive /\ StopReturns /\ UNCHANGED life)
  /\ \A s \in Sockets : WF_hubVars(QueryEnds(s))

-----------------------------------------------------------------------------
(* A caught signal ends the process, though requests hang, the collector is
   busy and sockets are open: through the deadline or the deferred calls. *)
ExitsAfterSignal == sig ~> ~Alive

(* The store is closed after what Shutdown and Stop wait for: the collector has
   returned and every request that was let in has been answered.  It says
   nothing of the handlers of websockets, which Shutdown does not know: one
   may still be in a query when the store is closed, for which pool.Close
   waits, and a later query of it is refused. *)
StoreClosedLast ==
  store = "closed" => Active = {} /\ run \in {"off", "closed"}

(* No request meets a schema that is not complete, and a process that died
   between two statements of the migration does not block the next one. *)
SchemaComplete ==
  /\ Backend = "pg" /\ Active # {} => schema = Objects
  /\ main = "migrate" /\ stmt <= Len(Schema) => Executes(Schema[stmt])
=============================================================================
