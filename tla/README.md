# agent-hub-core: TLA+ models, checks and proofs

This directory models the hub's own concurrent logic in TLA+, checks it with
TLC on small instances and proves most of its safety properties with TLAPS for
all instances.
`PROJECT.json` lists components, runs, the lines every definition models,
findings, hazards and theorems; this file explains them.

## 1. The system

agent-hub-core is one Go process. HTTP handlers (`internal/api`) run one
goroutine per request and share, through `Server`, a store (in memory or
PostgreSQL), a task orchestrator, a flow engine with one side-effect store, a
websocket hub, a metrics history and an MCP client that talks to tool servers.

| Component | State it keeps | Operations | Interacts with | What is hard |
|---|---|---|---|---|
| Task distribution (`orchestrator/`) | the task under way: shared `Subtasks` array, results, semaphore, WaitGroup; the stored row | `Distribute`, `execute`, `runSubtask`, `finalize` | store, MCP client, request context, hub | workers write and marshal one array unlocked; errors of the store are dropped; deadline against late tool |
| Flow execution (`flow/engine.go`, `nodes.go`, `api/flows.go`) | per run: queue, visited, outputs, rollback log; the run row | `runFlow`, `Execute`, node types, `updateFlow`, `deleteFlow` | store, side-effect store, MCP client | flow edited or deleted while it runs; failure half-way; run not recorded |
| Rollback (`flow/rollback.go`) | one key/value store for all runs | `Apply`, `Undo` | flow runs | interleaving of runs on one key; nil against absent |
| Flow graphs (`flow/graph.go`) | none (a pure function with loops) | `buildGraph` | flow handlers, `Execute` | parallel edges, self-loops, malformed input |
| Expressions (`flow/expr.go`) | parser position | `evalExpression` | condition nodes | running off the token list |
| Dashboard history (`api/dashboard_history.go`) | ring buffer, stop/done channels | `Capture`, `Latest`, `Snapshot`, `Start`, `Stop` | dashboard handlers, hub | index arithmetic, clock read outside the lock, shutdown |
| WebSocket hub (`ws/hub.go`) | clients, rooms, send channels | `Register`, deregister, `Broadcast`, `ClientCount` | connections, createTask, runFlow | closing a channel others send on; full channels; lock held during the walk |
| Connections and chat (`api/ws.go`, `chat.go`) | handler and write-pump goroutines, the socket | `handleWS`, chat turns | hub, store, MCP client | pump dies while the client is registered; slow or hung peers |
| Accounts (`api/auth.go`) | users and tenant tables | login with `ensureSeed`, user create/read/update/delete | store, tokens | check-then-act across store calls |
| Tokens, RBAC (`auth/`) | none; a token holds the role of its login | `Issue`, `Verify`, `RequiredRole`, two middlewares | every request | the role in a token outlives a change of the account |
| MCP client (`mcp/client_go.go`) | per call: transport, reader goroutine | `CallTool`, `ListTools`, ... | tool servers, contexts | give up without leaking the reader; messages nobody asked for |
| MCP client (`mcp/client_cgo.go`, build tag mcpengine) | one mutex; per call: an engine of a C library | the same | libmcpengine | freeing on every error path; one mutex, no context |
| Store (`store/`) | tables | CRUD per table | all handlers | aliasing of slices in memory; partial failure, constraints and cascades on PostgreSQL |
| Agents, servers, flows (`api/agents.go`, `mcp_servers.go`, `flows.go`) | rows of several tenants | list, get, create, update, delete, `testMcpServer` | store, MCP client | whole records written back after a long call |
| Lifecycle (`cmd/hub/main.go`, `store/migrations.go`) | process, schema of the database | start, migrate, signal, shutdown | all | death between two statements; order and deadline of shutdown |

What makes each part correct: a task ends with a stored record that says
exactly what happened; a flow run is all or nothing and is recorded as it
ended; accepted graphs are acyclic and well formed; the history is the last
samples; the hub never blocks, never panics and forgets those who leave; an
account exists once and stays deleted, and its rights end with the tokens of
its role; tenants do not see each other's records; an expression means what its
grammar says; a tool call ends with its context and leaves nothing behind; the
process starts on a complete schema and ends when told to.

## 2. Modules

| Module | Models | Runs |
|---|---|---|
| `TaskDistribution` | createTask and `Distribute` on both stores | task_memory, task_pg, task_persisted |
| `FlowTransactions` | abstract: runs as transactions on the keys they have for themselves | |
| `FlowRun`, `MCFlowRun` | runFlow, `Execute`, side-effect store, flow edits; implements `FlowTransactions` | flow_run, flow_isolation |
| `FlowGraph` | `buildGraph` | flow_definition |
| `Expr` | `evalExpression` and its skip functions, and a reference meaning | flow_definition |
| `FlowDefinition`, `MCFlowDefinition` | what a flow is made of: a graph or an expression under examination | flow_definition |
| `SampleLog` | abstract: a log of the last samples | |
| `HistoryRing` | the ring buffer; implements `SampleLog` | lifecycle, history_order |
| `Lifecycle` | main, migrations and shutdown, composed with `HistoryRing` | lifecycle, history_order |
| `WsHub`, `MCWsHub` | hub, connections, chat turns | ws_hub |
| `Accounts`, `MCAccounts` | logins, seeding, tokens, middlewares, user requests | accounts_pg |
| `Resources`, `MCResources` | handlers of agents, MCP servers and flows over both stores | resources |
| `McpCall` | one call of the Go MCP client | mcp_call |
| `McpEngine` | the cgo client, and the choice between the two builds | mcp_call |
| `TaskDistributionProofs`, `FlowRunProofs`, `FlowGraphProofs`, `LifecycleProofs`, `WsHubProofs`, `AccountsProofs`, `ResourcesProofs`, `McpEngineProofs` | theorems about the module of that name (`LifecycleProofs`: also `HistoryRing`; `McpEngineProofs`: also `McpCall`) | section 4 |

Operators named `Mut...` are plausible slips of the code (a dropped guard, a
missing wait). They are not part of any specification; each one put in place
of the definition that follows it makes the property it belongs to fail, which
shows that the property depends on the code.

### TaskDistribution

`pc` walks through `Distribute` ("list", "create", "setrunning", the loop of
`execute`, `finalize`, "replied"); `wpc[i]` walks through `runSubtask` of
subtask i. `sem` and `wg` are the semaphore and the WaitGroup. A worker's
`markStatus` is three steps: write the array element (`MarkWrite`), on
PostgreSQL read the whole array one element at a time (`MarshalEntry`), and
store the row (`MarkStore`). Reading an element that another goroutine is
writing is a data race: it yields the old value, the new one or "torn".

The memory store keeps the slice header, so its row *is* the live array;
PostgreSQL keeps what was marshalled. A PostgreSQL statement fails on a
cancelled context and may fail at any time, with or without having been
committed. `zero` says that the failed UpdateTask of line 103 has replaced the
task by the zero Task, as the code does. The two reads of `ctx.Err()` in
`finalize` are two steps.

Left out: texts, tool outputs, timestamps; `Decompose` is any list it can
return (`SpecLists`).

### FlowRun

Several requests, each with its own `Execute` state, over shared `flows`,
`rows` (runs) and `data` (the side-effect store). A node is executed when the
first edge into it is taken; the node types are separate actions, and a
failure leads to one `UndoLast` step per record. Values in `data` say who wrote
them, or nil. The flows come from `MCFlowRun`: "branch" (a condition, a join
reached two ways, two writers of a key) and "chain" (a null output that a tool
overwrites, and a key that "branch" writes too). An expression is its truth value, an error, or the parser's panic
(which ones panic is the subject of `Expr`).
`cur` and `edges` are the node whose edges `Execute` looks at and the declared
edges still ahead; `SkipEdge` passes over those of the other handle, which
`OutgoingEdges` filters out, and those to visited nodes.
`base`, `alone` and `order` are history variables for the properties: what the
store held when `Execute` began, and the keys of a run that no other run could
write since.

`FlowTransactions` says what a run promises of the store. A run that begins
takes for itself the keys no active run may write, and an active run that had
one of the new run's keys loses it. Writes to one's own keys show when the run
commits; a run that is rolled back shows nothing there; a run that panics ends
with what it has written. Writes to shared keys show at once: there the code
isolates nothing. The mapping: a key that an executing run has alone has the
value from `base`, every other key the one in `data`, both up to nil.

### FlowGraph

Both loops, the collection of the start nodes and Kahn's algorithm, an
iteration per step. Init ranges over all
node lists up to the bound; the edge list is chosen when the edge loop starts.
`FlowDefinition` puts it beside `Expr`: the two are independent, and a behaviour
examines one of them.

### Expr

`lex` produces tokens one by one (`Lex`), or fails; `Evaluate` is the whole of
`evalExpression` on them. The parse functions are recursive operators that
return a value with the position after it, an error, or a panic (an index past
the token list). The skip functions return only a position, as in the code.
The reference (`IsExpr`, `Meaning`) has another shape on purpose: it cuts the
token list at its operators of parenthesis depth 0, and never walks. Values
carry their Go type, since `truthy`, `toFloat` and `deepEqual` depend on it.

### HistoryRing, SampleLog and Lifecycle

A sample is its timestamp. `Capture` is two steps, because the clock is read
before the lock. `Snapshot`, as a state function, is the refinement mapping to
`SampleLog`'s log; `ImplementsLog` states the refinement, in the order of the
writes. That this is also the order of the timestamps (`Chronological`) does not
hold. The clock never goes back; that the wall clock may be set is not modelled.

`Lifecycle` extends `HistoryRing` with the process around it: `main` says where
main is, `schema` and `stmt` how far the migration has got, `listener`, `http`
and `ws` what the server serves. The schema survives the process: after a
signal or an error during the migration, `Restart` begins a new process on what
is there. Main's deferred calls run in reverse order (`StopHistory`,
`CloseStore`), and not at all after os.Exit. `http.Server.Shutdown` waits for
requests but not for hijacked connections, so websocket handlers may query the
store until it is closed; closing a pool waits for the queries under way.

### WsHub

The RWMutex: `rlock` is the set of broadcasts inside the read lock; a critical
section under the write lock is one step that needs `rlock = {}`. A broadcast
delivers to one client per step. `send` is the channel, `held` the message the
pump is writing, `got` what the peer received. A socket is open, broken (the
peer has gone, the handler may not know) or closed.

### Accounts

A login is the store calls of `ensureSeed` and `handleLogin` and then
`Manager.Issue`; an update is a read and a write; anything may happen in
between. Hashing a password fails when it is too long for bcrypt (`Hashable`):
the user requests then answer 500, while `ensureSeed` gives up without a word and
the login goes on. PostgreSQL enforces the foreign key and the unique name, the memory
store neither. A request carries one of the tokens issued so far and passes
`Gate` (Authenticator, then Authorizer) before its handler runs. `lost` is a
history variable: when an account last ceased to have a role.

### Resources

Agents, MCP servers and flows differ in what their handlers validate (`Valid`,
`AcceptsUpdate`) and keep (`Merged`), not in their steps, and are one table
here. Each store call is a step. `verified` is a history field: the transport
that the test which set the status has tried.

### McpCall and McpEngine

Stdio and websocket transports of the Go client have the same steps: connect,
encode, write, reader goroutine, select, close; they differ in the write
(`transport`). `room` says whether the peer or the buffers below can take the
request: a full pipe of a child process breaks when the context kills the child
(`ContextKills`), but nothing ends a write to a websocket whose server does not
read. A binary has one client: `build` is chosen in Init. The six methods of the cgo client are one sequence of steps
(`Method`) with all their early returns; `engines` and `strings` are what the
library has allocated.

## 3. Runs

Bounds are in the .cfg files.

- **task_memory**: up to 3 subtasks of up to 2 skills on a pool of 2, so that
  the dispatcher blocks on the semaphore. Pool bound, nobody waits for
  a slot or a worker that will not come, the answer is the stored task, progress
  never goes back.
- **task_pg**: 2 subtasks, pool of 2: the smallest instance in which two
  workers race on array and row. Terminal rows are exact and final although
  rows before them may be torn or stale; and whatever the tools do, the request
  is answered.
- **task_persisted** (violated): the answer 200 with an unstored result.
- **flow_run**: two runs that share one key and have others to themselves, on
  PostgreSQL, while the first one's flow is edited and deleted, clients leave and
  statements fail. Which nodes a run executes, effects all or nothing (up to nil)
  on every key for as long as no other run may write it, the refinement of
  `FlowTransactions` (the run that begins second takes the shared key from the
  first), answers that agree with the stored run, permissions.
- **flow_isolation**: the same flow run twice at once (violated): r2 records the
  uncommitted value of r1 as the prior one, and restores it after r1 has undone
  it, so that the value of a rolled-back run stays.
- **flow_definition**: graphs of 3 ids, up to 3 nodes and 3 edges, which contain
  duplicates, every simple cycle length up to 3, parallel edges and self-loops;
  and every expression of up to four tokens, and of up to seven after
  `true ||` and `0 &&`; with them the skipped operand has up to five tokens,
  enough for nested parentheses, a comparison of two of them, a field path, and
  each of these cut off. Operators that the code treats alike are represented
  by one of them (`==`, `>`).
- **lifecycle**: a database whose migration may be cut off at any of its 13
  statements and started again, two dashboard requests, one websocket, a ring of
  capacity 2 with three clock values, so that it wraps.
- **history_order**: the same instance without fairness (violated): a snapshot
  that is not chronological.
- **ws_hub**: two connections of two tenants, two chat turns of the first and a
  post to everybody. A channel capacity of 2 stands for 64: two messages of one
  sender can wait in a channel, so that their order matters, and a third finds
  it full.
- **accounts_pg**: two first logins with the default credentials and two
  requests, up to three accounts, a clock of four values and tokens that live
  for two, and a password that bcrypt refuses among those of the requests. The
  seed password is one it accepts: with one it refuses `SeedLoginWorks` asks
  nothing. Logins are interchangeable, and so are requests; the model treats
  the members of each set alike, so the run uses their symmetry. It has no
  liveness property, for which symmetry would be unsound.
- **mcp_call**: a server that may or may not read its input, and may send up to
  two notifications beside its answer, or nothing; or three callers of the cgo client who call for ever.
- **resources**: two requests of one tenant and one of another, each tenant
  with a record at the start, up to three records, valid and invalid bodies.

Deadlock is checked everywhere; finished systems have an explicit stuttering
step whose guard says what finished means.

### Fairness

- Goroutines that can take a step do (weak fairness per goroutine): the Go
  scheduler is preemptive.
- `TimeoutFires` is fair: timers fire. That a tool answers is *not* assumed.
- A tool call whose context is done ends (`ToolAborts`). `McpCall` shows this of
  the default client, with one exception: a websocket server that does not read
  can hold the write of the request for ever, since WriteJSON has neither a
  deadline nor an eye on the context. `ContextEndsCall` says that this is the
  only one, assuming that a dial ends and that a killed child process takes its
  pipe with it (`ContextKills`); that the server reads is *not* assumed. So
  `EventuallyReplied` is about tool servers on stdio and websocket servers that
  read. The cgo client ignores the context; `EventuallyReplied`
  does not hold of that build either, where `OnlyLibraryBlocks` is the most that can be
  said: a call waits only behind one that the library keeps.
- A waiter gets the cgo client's mutex if it is released again and again (strong
  fairness): a sync.Mutex that has let a waiter starve for a millisecond is
  handed to it. The library owes nothing.
- `RunReturns` is strongly fair: Go's select picks at random among ready
  cases, so a closed stop channel is not passed over for ever.
- In `Lifecycle` main and the collector run, the deadline of Shutdown passes
  (`ShutdownReturns` and `DeadlinePasses` share one fairness condition, so
  requests may hang), and the database answers a query it has been given.
- Peers of websockets owe nothing; a write to a socket that is not open ends.
  chatAgent ends by its 120 s deadline.

## 4. Proofs

All invariants and action properties that the passing runs check are also
theorems, except those of `Expr`; liveness is not. A theorem holds for every
value of the constants that satisfies the module's ASSUMEs: any number of
requests, workers, connections, records, any graph, pool, capacity. Every
inductive invariant below was also checked by TLC on the instance of the run.
Some definitions are proved and in no run, because a property of a
run says more (`NoStrayWorker`, whose failure the terminal rows would show) or
they are plain (`TypeOK` of the modules, `StoredFlowsValid`).

**Assumptions.** They say what kind of value a constant is, and what the code
has made sure of: `GraphAssumption` what `buildGraph` checks of a flow that is
stored (a trigger, edges between nodes) and that writing nodes name a key;
`ValuesAssumption` that what was in the side-effect store before is not a value
of the runs to come; `RequestsAssumption` that the collector's own name is no
request's; `ResourcesAssumption` that the ids suffice for the records of Init.
`MemoryReturnsPersisted` has a hypothesis of its own, the store it is about. The empty string is always named (`Empty`,
`Everybody`, `NoId`), since the SMT translation does not accept the literal.

**TaskDistribution.** `TypeCorrect` (semaphore and WaitGroup never negative; Go
panics on a negative WaitGroup counter), `PoolBounded`, `NoStrayWorkers` rest on
`Inv1`:
- `Counts`: `sem` is the number of workers between `go` and the release, `wg`
  the number of those not yet done plus one while the dispatcher waits for a
  slot, and `sem <= Pool`. Without it `Release` could make `sem` negative, and
  `wg = 0` would say nothing of the workers;
- `Position`: the loop index and which workers may have been started;
- `Marshalling`: a worker that marshals has read fewer elements than there are.

`TerminalRowsExact`, `TerminalRowsStable`, `SuccessEarned`,
`SubtasksOnlyAdvance` and `MemoryReturnsPersisted` need a second layer, `Inv2`:
per worker, how far the array element, the argument of markStatus, the tool
calls, the deadline flag and the result are at each position; and what row and
answer are once `finalize` has run. The key is that after `wg.Wait` no worker
has a marshalled copy left to store. `WaitingIsFounded`, the safety half of
`EventuallyReplied`, takes the counts from `Inv1` and from `Inv2` that no worker
has called more tools than it has skills: so for every pool and every number of
subtasks there is somebody who can end each wait of the dispatcher.

**FlowRun.** `FlowInv` has six parts. `Typed` includes the stages of the
handler (`Handled`), which give `AnswersAreRecorded`. `Bounded` follows a value
of a forbidden output through the store *and* the prior values in all rollback
logs, since an undo writes those back: `PermissionsHold`. `Walking` says of the
breadth-first walk that every visited node is queued, or is the one whose edges
are under way (a suffix of the declared ones, with the earlier ones followed),
or leads only to visited nodes; and that nothing is visited that a set closed
under the emitted handles could do without. When queue and edges are empty the
visited set is the least closed one: `RunsExecuteExactly`, for graphs of any
shape, cycles included. `LogKept` (the first record of each key holds the value
from before the run; a key without a record is unchanged) and `EffectsKept` (the
last writer's value is in place) speak of the keys a run has alone. `Apart`, that
no executing run may write a key another has alone, is what carries them over
the steps of the other runs, however many begin and end meanwhile. They give
`EffectsAreAtomic`. `FlowTypeCorrect` is the type invariant.

`RunsAreTransactions` is the refinement, one lemma per kind of step: by `Apart` a
key has at most one run that has it alone, so its mapped value is well defined;
applying and undoing effects change only shared keys of the abstract store;
at the end of a rollback the log is empty, and `LogKept` says that what now shows
is what showed before.

**FlowGraph.** `GraphInv` says that the in-degree of a node counts its *open*
edges, the positions in adjacency lists that Kahn's loop has not taken yet, so
that parallel edges count separately; that exactly the known nodes of degree
zero are queued or listed, once; and that edges into a listed node come from
nodes listed before. `OrdersAreTopological` and `GraphTypeCorrect` follow.
`CyclesAreFound`, one way: if all nodes are listed, the member of a cyclic set
that is listed first has no predecessor in it; the other way: the nodes never
listed have open edges from one another.

**HistoryRing and Lifecycle.** `RingTypeCorrect`, `RingImplementsLog` (the ring
buffer implements `SampleLog` for every capacity: Capture appends to the log the
mapping reads off the ring, everything else leaves it) and, since `Lifecycle`'s
steps are steps of the ring or leave it alone, `HubImplementsLog`.
`StoreIsClosedLast` and `SchemaIsComplete` from `HubInv`: in which stages of
main the collector runs and requests are let in, and which statements of the
schema are done at each position of the migration, also when it starts on what
an earlier process left.

**WsHub.** `WsInv`: a broadcast walks over clients that were registered when it
took the read lock, and while it walks nobody deregisters, so their channels are
open (`SendsAreOpen`); the goroutines around a socket (`SocketHasOneWriter`);
and `Streams`: what a client has received, holds and has queued is, per sender,
in order and not ahead of the sender (`SendersStayInOrder`,
`RoomsStaySeparate`).

**Accounts.** `AccInv`: ids are handed out once, a token is a copy of an account
as it was when it was issued (`Copies`), and the seed account exists once a login
has passed `ensureSeed`, if bcrypt accepts the configured password (`Seeded`).
`SeedCredentialsWork`, `DeletedAccountsStay`, `RightsAreBounded`.

**Resources.** `ResInv`: what a request has loaded is a record of its tenant with
the kind and, for flows, the validated body it had; ids are handed out once.
`OwnTenantOnly`, `StatusIsOfTransport`, `FlowsAreValid`, `DeletedRecordsStay`.

**McpCall and McpEngine.** `EnginesUnderLock` for any number of callers;
`ReaderNeverBlocks`, the safety half of `ReaderEnds`: there is room in the
channel whenever the reader sends, and a call that has returned has closed its
transport.

Only model-checked:
- liveness, which is outside the prover's reach: `EventuallyReplied`,
  `ContextEndsCall`, `ReaderEnds`, `OnlyLibraryBlocks`, `ExitsAfterSignal`,
  `BroadcastReturns`, `DisconnectCleansUp`;
- `Expr`, whose operators are RECURSIVE: what they compute for every input
  would need induction over data;
- the three refuted properties (section 5). What does hold in their place is
  proved: `MemoryReturnsPersisted`, `RunsAreTransactions`, `HubImplementsLog`.

## 5. Findings

Three places where the code does not do what a comment says have a run: the
returned task is not always persisted (task_persisted), rolled-back values
can survive in the shared side-effect store (flow_isolation), and a snapshot of
the history need not be chronological (history_order): `Capture` reads the clock
before it takes the lock, and a dashboard request that finds the buffer empty
can overlap with the collector's first capture. Details in `PROJECT.json`.

Further observations, which follow from the models and have no run:

- A run whose last UpdateRun fails, because its client has gone or the database
  errs, stays stored as running for ever. The answer is then 500, so
  `AnswerRecorded` holds.
- `decodeResponse` does not compare ids: a notification that arrives before the
  response is taken for it and gives an empty result without an error.
- `skipPrimary` consumes the EOF token when a skipped parenthesis is not
  closed, and a dot at the end makes it step over EOF as well: the next peek
  indexes past the list, and the panic leaves the run running with its effects
  in place. The comments at expr.go:253-254 and 263-264 say that the skip stops
  at EOF. `PanicsOnlyAtOpenEnd` says that these are the only cases.
- An operand that is skipped is not parsed: some malformed expressions are
  accepted when a short circuit passes over the mistake.
- `.length` is an int, which `truthy` does not know: a length of 0 is true where
  the number 0 is false.
- `Undo` deletes a key that held nil instead of restoring it, so
  `EffectsAtomic` is stated up to nil.
- On the memory store, which has no unique constraint, two concurrent first
  logins create two owners of one name. On both stores a login that saw an empty
  table may seed after another has seeded and its owner has renamed the account
  (auth.go:63-64 speaks of an empty table): a second owner account with the
  default credentials.
- A configured password that bcrypt refuses (over 72 bytes) seeds nothing
  (auth.go:73-76): every login is answered 401, with no error from the store and
  nothing in the log. `SeedLoginWorks` names this case.
- A websocket tool server that stops reading holds a call beyond its context
  (client_go.go:273), and with it the worker's slot and the request for a task.
- updateUser, the update handlers and testMcpServer write back whole records:
  of two concurrent updates of different fields the earlier is lost, though
  both are acknowledged. A transport that is changed while testMcpServer runs is
  put back in this way.
- A run keeps the permissions of the flow it loaded; one revoked meanwhile still
  counts for it.
- An update may clear the name of an agent, a server or a flow, which its
  creation refuses.
- The documents disagree on who may read users. The README's access table
  (README.md:121-123) lets a viewer read; openapi/openapi.yaml:419 ("List users (owner)"),
  openapi/openapi.yaml:452 ("Get a user (owner)") and router.go:114 ("owner only via RBAC")
  say owner. The code does what the table says, and so does `Documented`;
  `RightsFollowRole` is about the staleness of the role, not about which of the
  documents is right.
- When ListenAndServe fails, main shuts down and exits with code 0.
- Shutdown does not wait for websocket handlers: a chat turn under way meets a
  closed store.

## 6. Not modelled

Configuration, logging and metrics (no state of their own); the mock; request
ids and the recording middleware; the readings of single runs and tasks; the
text level everywhere: characters of expressions, SQL, JSON, keyword matching.
chatAgent's calls are one step that ends by its deadline. The C library is
external. Crashes while requests are served: nothing resumes work after a
restart, a task or run that was under way stays "running"; there is no recovery
to model beyond the migrations.

## 7. Plan

Done: the modules of section 2, first task distribution, flow runs, graphs,
history, hub, accounts and the Go MCP client; then expressions, tokens and RBAC,
resources, lifecycle and migrations, the cgo client.

Then the proofs of section 4.

Left: the safety halves of the other liveness properties (what a closing
connection or a caller of the cgo client waits for), for any number of them.

Possible models: hub and task distribution composed (what a room hears of a
task); the cgo client under the orchestrator's deadlines.
