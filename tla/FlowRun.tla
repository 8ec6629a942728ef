------------------------------ MODULE FlowRun ------------------------------
(***************************************************************************)
(* POST /flows/{id}/run: the runFlow handler and Engine.Execute.           *)
(*                                                                         *)
(* Several requests run at the same time.  Each walks its flow's graph     *)
(* breadth first, executing a node when the first edge into it is taken,   *)
(* and undoes its side effects when a node fails.  All of them share one   *)
(* SideEffectStore, the flow and run tables, and nothing else.  Meanwhile  *)
(* flows are updated and deleted and clients go away.                      *)
(*                                                                         *)
(* A flow is data: a graph of typed nodes.  Node outputs are reduced to    *)
(* what decides the walk (a condition's truth value) and what is written   *)
(* to the side-effect store (who wrote it, or nil).                        *)
(***************************************************************************)
EXTENDS Naturals, Sequences, Functions

CONSTANTS
  Backend,   \* "memory" or "pg"
  Runs,      \* requests
  FlowOf,    \* FlowOf[r]: the flow id of the request's URL
  Graph,     \* Graph[f]: node id -> [type, out, key, bounded, null]
  Initially, \* Initially[k]: what earlier runs left under key k
  Editable   \* bound: the flows that other requests update and delete

(* A node's `out` lists its outgoing edges in declaration order; `key` is
   the kind+target an mcp_tool or output node writes, `bounded` that its kind
   is subject to the flow's permissions, `null` that its value is JSON null. *)
NodeTypes == {"trigger", "agent", "mcp_tool", "condition", "output"}
Flows == DOMAIN Graph
Keys == DOMAIN Initially

ASSUME RunsAssumption == FlowOf \in [Runs -> Flows] /\ Editable \subseteq Flows
ASSUME BackendIs == Backend \in {"memory", "pg"}

(* What buildGraph has checked: the types, a trigger, and where edges lead. *)
ASSUME GraphAssumption ==
  \A f \in Flows :
    /\ \E n \in DOMAIN Graph[f] : Graph[f][n].type = "trigger"
    /\ \A n \in DOMAIN Graph[f] :
         /\ Graph[f][n].type \in NodeTypes
         /\ Graph[f][n].type \in {"mcp_tool", "output"} => Graph[f][n].key \in Keys
         /\ Graph[f][n].out \in Seq(Range(Graph[f][n].out))
         /\ \A e \in Range(Graph[f][n].out) : e.to \in DOMAIN Graph[f]

VARIABLES
  flows,    \* the flow table: [exists, enabled, permits]
  rows,     \* the run table: the status of each request's run, or "none"
  data,     \* MemorySideEffectStore.data
  ctxErr,   \* the request's context is cancelled
  pc,       \* where the request is
  snap,     \* the flow record the handler loaded
  queue,    \* Execute's queue of node ids
  cur,      \* the node whose edges are taken
  edges,    \* edges of that node still to be looked at
  visited,  \* Execute's visited set
  order,    \* nodes executed after the trigger, in order
  truth,    \* ec.outputs: the truth value of each executed condition
  records,  \* rollbackLog.records: [key, prior]
  result,   \* ExecutionResult.Status
  reply,    \* HTTP status of the answer, 0 before
  base,     \* history: the side-effect store when Execute began
  alone     \* history: the run's keys that no other run could write since

history == <<base, alone>>
exec == <<queue, cur, edges, visited, order, truth, records, history>>
vars == <<flows, rows, data, ctxErr, pc, snap, exec, result, reply>>

Empty == ""                     \* the handle of an ordinary edge
Absent == <<"absent", Empty>>   \* no such key
Nil == <<"nil", Empty>>         \* a key that holds a nil value

(* What there was before is of none of these runs. *)
ASSUME ValuesAssumption ==
  /\ Initially \in [Keys -> {Initially[k] : k \in Keys}]
  /\ {"absent", "nil"} \cap Runs = {}
  /\ \A k \in Keys, r \in Runs : \A n \in DOMAIN Graph[FlowOf[r]] :
       Initially[k] # <<r, n>>

Node(r, n) == Graph[FlowOf[r]][n]
Trigger(r) == CHOOSE n \in DOMAIN Graph[FlowOf[r]] : Node(r, n).type = "trigger"

(* The keys a run may write. *)
KeysOf(r) == {Node(r, n).key : n \in {m \in DOMAIN Graph[FlowOf[r]] :
                                        Node(r, m).type \in {"mcp_tool", "output"}}}

-----------------------------------------------------------------------------
Init ==
  /\ flows = [f \in Flows |-> [exists |-> TRUE, enabled |-> TRUE, permits |-> TRUE]]
  /\ rows = [r \in Runs |-> "none"]
  /\ data = Initially
  /\ ctxErr = [r \in Runs |-> FALSE]
  /\ pc = [r \in Runs |-> "get"]
  /\ snap = [r \in Runs |-> [exists |-> FALSE, enabled |-> FALSE, permits |-> FALSE]]
  /\ queue = [r \in Runs |-> <<>>]
  /\ cur = [r \in Runs |-> Trigger(r)]
  /\ edges = [r \in Runs |-> <<>>]
  /\ visited = [r \in Runs |-> {}]
  /\ order = [r \in Runs |-> <<>>]
  /\ truth = [r \in Runs |-> [n \in DOMAIN Graph[FlowOf[r]] |-> FALSE]]
  /\ records = [r \in Runs |-> <<>>]
  /\ result = [r \in Runs |-> "none"]
  /\ reply = [r \in Runs |-> 0]
  /\ base = [r \in Runs |-> Initially]
  /\ alone = [r \in Runs |-> {}]

-----------------------------------------------------------------------------
(* Other requests: updateFlow switches a flow or its permissions, deleteFlow
   removes it; PostgreSQL removes its runs with it (ON DELETE CASCADE). *)
UpdateFlow(f) ==
  /\ flows[f].exists
  /\ \E e, p \in BOOLEAN :
       flows' = [flows EXCEPT ![f].enabled = e, ![f].permits = p]
  /\ UNCHANGED <<rows, data, ctxErr, pc, snap, exec, result, reply>>

DeleteFlow(f) ==
  /\ flows[f].exists
  /\ flows' = [flows EXCEPT ![f].exists = FALSE]
  /\ rows' = IF Backend = "pg"
               THEN [r \in Runs |-> IF FlowOf[r] = f THEN "none" ELSE rows[r]]
               ELSE rows
  /\ UNCHANGED <<data, ctxErr, pc, snap, exec, result, reply>>

(* The client goes away.  Only PostgreSQL looks at the context; a tool call
   that is aborted is one that fails. *)
Cancel(r) ==
  /\ Backend = "pg"
  /\ reply[r] = 0
  /\ ~ctxErr[r]
  /\ ctxErr' = [ctxErr EXCEPT ![r] = TRUE]
  /\ UNCHANGED <<flows, rows, data, pc, snap, exec, result, reply>>

-----------------------------------------------------------------------------
(* runFlow *)

Answer(r, code) ==
  /\ reply' = [reply EXCEPT ![r] = code]
  /\ pc' = [pc EXCEPT ![r] = "done"]

(* PostgreSQL refuses a cancelled context and may fail at any time. *)
DbWorks(r) == Backend = "pg" => ~ctxErr[r]
DbFails == Backend = "pg"

GetFlow(r) ==
  /\ pc[r] = "get"
  /\ LET f == flows[FlowOf[r]] IN
       \/ /\ DbFails
          /\ Answer(r, 500)
          /\ UNCHANGED snap
       \/ /\ DbWorks(r) /\ ~f.exists
          /\ Answer(r, 404)
          /\ UNCHANGED snap
       \/ /\ DbWorks(r) /\ f.exists /\ ~f.enabled
          /\ Answer(r, 400)
          /\ UNCHANGED snap
       \/ /\ DbWorks(r) /\ f.exists /\ f.enabled
          /\ snap' = [snap EXCEPT ![r] = f]
          /\ pc' = [pc EXCEPT ![r] = "create"]
          /\ UNCHANGED reply
  /\ UNCHANGED <<flows, rows, data, ctxErr, exec, result>>

(* CreateRun fails, perhaps after the commit.  PostgreSQL's foreign key
   rejects a flow that was deleted meanwhile. *)
CreateRunFails(r) ==
  /\ pc[r] = "create"
  /\ DbFails
  /\ \/ UNCHANGED rows
     \/ /\ DbWorks(r) /\ flows[FlowOf[r]].exists
        /\ rows' = [rows EXCEPT ![r] = "running"]
  /\ Answer(r, 500)
  /\ UNCHANGED <<flows, data, ctxErr, snap, exec, result>>

Executing == {r \in Runs : pc[r] \in {"walk", "rollback"}}

(* The run is stored as running; Execute sets up its state and executes the
   trigger, which has no effect.  Its early returns for a document that does
   not validate or has no trigger are never taken: only validated flows are
   stored. *)
CreateRun(r) ==
  /\ pc[r] = "create"
  /\ DbWorks(r)
  /\ Backend = "pg" => flows[FlowOf[r]].exists
  /\ rows' = [rows EXCEPT ![r] = "running"]
  /\ pc' = [pc EXCEPT ![r] = "walk"]
  /\ queue' = [queue EXCEPT ![r] = <<Trigger(r)>>]
  /\ visited' = [visited EXCEPT ![r] = {Trigger(r)}]
  /\ base' = [base EXCEPT ![r] = data]
  /\ alone' = [q \in Runs |->
                 IF q = r THEN KeysOf(r) \ UNION {KeysOf(p) : p \in Executing}
                          ELSE alone[q] \ KeysOf(r)]
  /\ UNCHANGED <<flows, data, ctxErr, snap, cur, edges, order, truth, records,
                 result, reply>>

-----------------------------------------------------------------------------
(* Engine.Execute *)

(* The handle a node emits: a condition's truth value, otherwise Empty. *)
EmittedHandle(r, n) ==
  IF Node(r, n).type # "condition" THEN Empty
  ELSE IF truth[r][n] THEN "true" ELSE "false"

(* An edge of OutgoingEdges, which keeps the declared edges of one handle. *)
Outgoing(r, e) == e.handle = EmittedHandle(r, cur[r])

Dequeue(r) ==
  /\ pc[r] = "walk"
  /\ edges[r] = <<>>
  /\ queue[r] # <<>>
  /\ cur' = [cur EXCEPT ![r] = Head(queue[r])]
  /\ edges' = [edges EXCEPT ![r] = Node(r, Head(queue[r])).out]
  /\ queue' = [queue EXCEPT ![r] = Tail(@)]
  /\ UNCHANGED <<flows, rows, data, ctxErr, pc, snap, visited, order, truth,
                 records, history, result, reply>>

(* The edge is of the other handle, or its target was executed already. *)
SkipEdge(r) ==
  /\ pc[r] = "walk"
  /\ edges[r] # <<>>
  /\ Outgoing(r, Head(edges[r])) => Head(edges[r]).to \in visited[r]
  /\ edges' = [edges EXCEPT ![r] = Tail(@)]
  /\ UNCHANGED <<flows, rows, data, ctxErr, pc, snap, queue, cur, visited,
                 order, truth, records, history, result, reply>>

MutRevisit(r) == pc[r] = "walk" /\ edges[r] # <<>> /\ Outgoing(r, Head(edges[r]))

(* The next edge leads to a node that has not been executed. *)
AtNewNode(r) ==
  /\ pc[r] = "walk"
  /\ edges[r] # <<>>
  /\ Outgoing(r, Head(edges[r]))
  /\ Head(edges[r]).to \notin visited[r]

Visit(r, n) ==
  /\ visited' = [visited EXCEPT ![r] = @ \cup {n}]
  /\ order' = [order EXCEPT ![r] = Append(@, n)]
  /\ queue' = [queue EXCEPT ![r] = Append(@, n)]
  /\ edges' = [edges EXCEPT ![r] = Tail(@)]

(* An agent whose tools all answered. *)
RunAgent(r) ==
  /\ AtNewNode(r)
  /\ LET n == Head(edges[r]).to IN
       /\ Node(r, n).type = "agent"
       /\ DbWorks(r)
       /\ Visit(r, n)
  /\ UNCHANGED <<flows, rows, data, ctxErr, pc, snap, cur, truth, records,
                 history, result, reply>>

RunCondition(r) ==
  /\ AtNewNode(r)
  /\ LET n == Head(edges[r]).to IN
       /\ Node(r, n).type = "condition"
       /\ \E b \in BOOLEAN : truth' = [truth EXCEPT ![r][n] = b]
       /\ Visit(r, n)
  /\ UNCHANGED <<flows, rows, data, ctxErr, pc, snap, cur, records, history,
                 result, reply>>

Value(r, n) == IF Node(r, n).null THEN Nil ELSE <<r, n>>

(* rollbackLog.apply: one critical section of the store, then the record is
   appended to the run's own log. *)
Apply(r, n) ==
  /\ records' = [records EXCEPT ![r] =
                   Append(@, [key |-> Node(r, n).key,
                              prior |-> data[Node(r, n).key]])]
  /\ data' = [data EXCEPT ![Node(r, n).key] = Value(r, n)]

MutPermitted(r, n) == TRUE

(* checkOutputPermission, on the flow record loaded at the start; http
   outputs are not bounded. *)
Permitted(r, n) == Node(r, n).bounded => snap[r].permits

(* The tool answered, or the output is permitted: the effect is applied. *)
RunEffect(r) ==
  /\ AtNewNode(r)
  /\ LET n == Head(edges[r]).to IN
       /\ \/ Node(r, n).type = "mcp_tool" /\ DbWorks(r)
          \/ Node(r, n).type = "output" /\ Permitted(r, n)
       /\ Apply(r, n)
       /\ Visit(r, n)
  /\ UNCHANGED <<flows, rows, ctxErr, pc, snap, cur, truth, history, result, reply>>

(* A node fails: an agent, server or tool that is missing or reports an
   error, an expression that does not evaluate, an output that is not
   permitted.  Output nodes and the trigger cannot fail otherwise. *)
NodeFails(r) ==
  /\ AtNewNode(r)
  /\ LET n == Head(edges[r]).to IN
       /\ Node(r, n).type = "output" => ~Permitted(r, n)
       /\ visited' = [visited EXCEPT ![r] = @ \cup {n}]
  /\ pc' = [pc EXCEPT ![r] = "rollback"]
  /\ UNCHANGED <<flows, rows, data, ctxErr, snap, queue, cur, edges, order,
                 truth, records, history, result, reply>>

(* The expression parser can run off its token list; the panic leaves
   Execute and runFlow, and the router's Recoverer answers. *)
NodePanics(r) ==
  /\ AtNewNode(r)
  /\ Node(r, Head(edges[r]).to).type = "condition"
  /\ Answer(r, 500)
  /\ UNCHANGED <<flows, rows, data, ctxErr, snap, exec, result>>

ExecuteSucceeds(r) ==
  /\ pc[r] = "walk"
  /\ edges[r] = <<>>
  /\ queue[r] = <<>>
  /\ result' = [result EXCEPT ![r] = "success"]
  /\ pc' = [pc EXCEPT ![r] = "update"]
  /\ UNCHANGED <<flows, rows, data, ctxErr, snap, exec, reply>>

-----------------------------------------------------------------------------
(* rollbackLog.rollback: one critical section per record. *)

MutUndoOldest(r) ==
  /\ pc[r] = "rollback"
  /\ records[r] # <<>>
  /\ LET rec == Head(records[r]) IN
       data' = [data EXCEPT ![rec.key] =
                  IF rec.prior \in {Absent, Nil} THEN Absent ELSE rec.prior]
  /\ records' = [records EXCEPT ![r] = Tail(@)]
  /\ UNCHANGED <<flows, rows, ctxErr, pc, snap, queue, cur, edges, visited,
                 order, truth, history, result, reply>>

MutUndoOtherKey(r) ==
  /\ pc[r] = "rollback"
  /\ records[r] # <<>>
  /\ LET rec == records[r][Len(records[r])] IN
       \E k \in Keys \ {rec.key} : data' = [data EXCEPT ![k] = rec.prior]
  /\ records' = [records EXCEPT ![r] = SubSeq(@, 1, Len(@) - 1)]
  /\ UNCHANGED <<flows, rows, ctxErr, pc, snap, queue, cur, edges, visited,
                 order, truth, history, result, reply>>

(* Undo deletes the key if the prior value reads as nil. *)
UndoLast(r) ==
  /\ pc[r] = "rollback"
  /\ records[r] # <<>>
  /\ LET rec == records[r][Len(records[r])] IN
       data' = [data EXCEPT ![rec.key] =
                  IF rec.prior \in {Absent, Nil} THEN Absent ELSE rec.prior]
  /\ records' = [records EXCEPT ![r] = SubSeq(@, 1, Len(@) - 1)]
  /\ UNCHANGED <<flows, rows, ctxErr, pc, snap, queue, cur, edges, visited,
                 order, truth, history, result, reply>>

RolledBack(r) ==
  /\ pc[r] = "rollback"
  /\ records[r] = <<>>
  /\ result' = [result EXCEPT ![r] = "rolled_back"]
  /\ pc' = [pc EXCEPT ![r] = "update"]
  /\ UNCHANGED <<flows, rows, data, ctxErr, snap, exec, reply>>

-----------------------------------------------------------------------------
(* The end of runFlow *)

(* UpdateRun(ctx) fails, perhaps after the commit: the answer is 500 and
   nothing else happens. *)
UpdateRunFails(r) ==
  /\ pc[r] = "update"
  /\ DbFails
  /\ \/ UNCHANGED rows
     \/ /\ DbWorks(r) /\ rows[r] # "none"
        /\ rows' = [rows EXCEPT ![r] = result[r]]
  /\ Answer(r, 500)
  /\ UNCHANGED <<flows, data, ctxErr, snap, exec, result>>

MutUpdateRunLost(r) ==
  /\ pc[r] = "update"
  /\ Answer(r, 200)
  /\ UNCHANGED <<flows, rows, data, ctxErr, snap, exec, result>>

UpdateRun(r) ==
  /\ pc[r] = "update"
  /\ DbWorks(r)
  /\ rows[r] # "none"
  /\ rows' = [rows EXCEPT ![r] = result[r]]
  /\ Answer(r, 200)
  /\ UNCHANGED <<flows, data, ctxErr, snap, exec, result>>

AllAnswered ==
  /\ \A r \in Runs : pc[r] = "done"
  /\ UNCHANGED vars

-----------------------------------------------------------------------------
Step(r) ==
  \/ GetFlow(r) \/ CreateRunFails(r) \/ CreateRun(r)
  \/ Dequeue(r) \/ SkipEdge(r) \/ RunAgent(r) \/ RunCondition(r) \/ RunEffect(r)
  \/ NodeFails(r) \/ NodePanics(r) \/ ExecuteSucceeds(r)
  \/ UndoLast(r) \/ RolledBack(r) \/ UpdateRunFails(r) \/ UpdateRun(r)

Next ==
  \/ \E r \in Runs : Step(r) \/ Cancel(r)
  \/ \E f \in Editable : UpdateFlow(f) \/ DeleteFlow(f)
  \/ AllAnswered

Spec == Init /\ [][Next]_vars

-----------------------------------------------------------------------------
Values == {Absent, Nil} \cup {Initially[k] : k \in Keys} \cup
          {<<r, n>> : r \in Runs, n \in UNION {DOMAIN Graph[f] : f \in Flows}}

(* Every variable has its type. *)
TypeOK ==
  /\ flows \in [Flows -> [exists : BOOLEAN, enabled : BOOLEAN, permits : BOOLEAN]]
  /\ rows \in [Runs -> {"none", "running", "success", "rolled_back"}]
  /\ data \in [Keys -> Values]
  /\ ctxErr \in [Runs -> BOOLEAN]
  /\ pc \in [Runs -> {"get", "create", "walk", "rollback", "update", "done"}]
  /\ result \in [Runs -> {"none", "success", "rolled_back"}]
  /\ reply \in [Runs -> {0, 200, 400, 404, 500}]
  /\ \A r \in Runs :
       /\ visited[r] \subseteq DOMAIN Graph[FlowOf[r]]
       /\ \A i \in DOMAIN records[r] :
            records[r][i].key \in Keys /\ records[r][i].prior \in Values

(* The nodes a run has to execute: the least set that holds the trigger and,
   with a node, the targets of the edges of the handle it emitted. *)
Closed(r, S) ==
  \A n \in S : \A i \in DOMAIN Node(r, n).out :
    Node(r, n).out[i].handle = EmittedHandle(r, n) => Node(r, n).out[i].to \in S

Required(r) ==
  {n \in DOMAIN Graph[FlowOf[r]] :
     \A S \in SUBSET DOMAIN Graph[FlowOf[r]] :
       Trigger(r) \in S /\ Closed(r, S) => n \in S}

(* Execute's comment: a successful run has followed the edges from the
   trigger, executing each node it had to execute, no other, and each one
   once ("executing each node at most once"). *)
ExecutesExactly ==
  \A r \in Runs :
    result[r] = "success" =>
      /\ visited[r] = Required(r)
      /\ IsInjective(order[r])
      /\ Range(order[r]) = visited[r] \ {Trigger(r)}

(* nil and absent are one value to Undo. *)
Norm(v) == IF v = Nil THEN Absent ELSE v

(* The places in a run's order of the nodes that write key k. *)
Writers(r, k) ==
  {i \in DOMAIN order[r] : /\ Node(r, order[r][i]).type \in {"mcp_tool", "output"}
                           /\ Node(r, order[r][i]).key = k}

(* On the keys that it does not share with a run at the same time, a run is
   all or nothing: rolled back, the key is as it was when Execute began (up to
   nil); a success leaves the value of the last node that wrote it.  It stays
   so until another run that may write the key begins. *)
EffectsAtomic ==
  \A r \in Runs : \A k \in alone[r] :
    /\ result[r] = "rolled_back" => Norm(data[k]) = Norm(base[r][k])
    /\ result[r] = "success" =>
         \/ Writers(r, k) = {} /\ data[k] = base[r][k]
         \/ \E last \in Writers(r, k) :
              /\ \A i \in Writers(r, k) : i <= last
              /\ data[k] = Value(r, order[r][last])

(* Engine's comment: executions share no mutable state.  If that were so, no
   value of a run that was rolled back could be left once all is over. *)
NothingLeftBehind ==
  (\A r \in Runs : pc[r] = "done") =>
    \A r \in Runs : result[r] = "rolled_back" =>
      \A k \in Keys : data[k][1] # r

(* An answer of 200 is a promise: from then on the stored run says how
   Execute ended, unless it was deleted with its flow.  And no run is ever
   stored as ended with another status than Execute's, or with effects that
   are still to be undone. *)
AnswerRecorded ==
  \A r \in Runs :
    /\ reply[r] = 200 =>
         \/ rows[r] = result[r] /\ rows[r] \in {"success", "rolled_back"}
         \/ rows[r] = "none" /\ ~flows[FlowOf[r]].exists
    /\ rows[r] \in {"success", "rolled_back"} =>
         /\ rows[r] = result[r]
         /\ rows[r] = "rolled_back" => records[r] = <<>>

(* The permission boundary: no key ever holds the value of a bounded output
   of a run whose flow, as it was loaded, did not permit it; neither a later
   change of the flow nor a rollback makes a difference. *)
PermissionBoundary ==
  \A r \in Runs : ~snap[r].permits =>
    \A n \in DOMAIN Graph[FlowOf[r]] :
      Node(r, n).type = "output" /\ Node(r, n).bounded =>
        \A k \in Keys : data[k] # <<r, n>>

(* The value of a key without what is written by the run that has it alone. *)
Committed(k) ==
  LET users == {r \in Executing : k \in alone[r]} IN
    IF users = {} THEN Norm(data[k]) ELSE Norm(base[CHOOSE r \in users : TRUE][k])

Phase(r) ==
  CASE result[r] = "success" -> "committed"
    [] result[r] = "rolled_back" -> "aborted"
    [] r \in Executing -> "active"
    [] pc[r] \in {"get", "create"} -> "idle"
    [] OTHER -> IF visited[r] = {} THEN "refused" ELSE "abandoned"

Transactions ==
  INSTANCE FlowTransactions WITH
    Writes <- [r \in Runs |-> KeysOf(r)],
    store <- [k \in Keys |-> Committed(k)],
    phase <- [r \in Runs |-> Phase(r)],
    own <- alone

(* Runs are transactions on the keys they have for themselves, through every
   interleaving with other runs, failures and panics: what a run writes there
   takes effect together with its success, and has none after a rollback. *)
ImplementsTransactions == Transactions!Spec
=============================================================================
