--------------------------- MODULE FlowRunProofs ---------------------------
(***************************************************************************)
(* Theorems about flow runs, for every set of flows, whatever their        *)
(* graphs, and any number of concurrent requests.                          *)
(***************************************************************************)
EXTENDS FlowRun, SequenceTheorems, TLAPS

-----------------------------------------------------------------------------
(* The inductive invariant. *)

Nodes(r) == DOMAIN Graph[FlowOf[r]]
Edges(r) == UNION {Range(Node(r, n).out) : n \in Nodes(r)}
Ended == {"success", "rolled_back"}
Writes(r, n) == Node(r, n).type \in {"mcp_tool", "output"}

(* The tables and the functions over the requests. *)
Shapes ==
  /\ flows \in [Flows -> [exists : BOOLEAN, enabled : BOOLEAN, permits : BOOLEAN]]
  /\ DOMAIN data = Keys
  /\ rows \in [Runs -> {"none", "running", "success", "rolled_back"}]
  /\ ctxErr \in [Runs -> BOOLEAN]
  /\ pc \in [Runs -> {"get", "create", "walk", "rollback", "update", "done"}]
  /\ result \in [Runs -> {"none", "success", "rolled_back"}]
  /\ reply \in [Runs -> {0, 200, 400, 404, 500}]
  /\ DOMAIN snap = Runs
  /\ DOMAIN queue = Runs /\ DOMAIN cur = Runs /\ DOMAIN edges = Runs
  /\ DOMAIN visited = Runs /\ DOMAIN order = Runs /\ DOMAIN truth = Runs
  /\ DOMAIN records = Runs /\ DOMAIN base = Runs

(* What the handler of a request has done so far and what it has left. *)
Handled(r) ==
  /\ pc[r] \in {"get", "create"} =>
       /\ rows[r] = "none" /\ visited[r] = {}
       /\ edges[r] = <<>> /\ order[r] = <<>> /\ records[r] = <<>>
  /\ reply[r] # 0 => pc[r] = "done"
  /\ pc[r] = "update" => result[r] \in Ended
  /\ result[r] # "none" => pc[r] \in {"update", "done"}
  /\ result[r] = "rolled_back" => records[r] = <<>>
  /\ rows[r] \in Ended => pc[r] = "done" /\ rows[r] = result[r]
  /\ reply[r] = 200 =>
       /\ result[r] \in Ended
       /\ rows[r] # result[r] => rows[r] = "none" /\ ~flows[FlowOf[r]].exists

(* The types of Execute's variables. *)
Local(r) ==
  /\ queue[r] \in Seq(Nodes(r)) /\ cur[r] \in Nodes(r) /\ edges[r] \in Seq(Edges(r))
  /\ visited[r] \subseteq Nodes(r) /\ order[r] \in Seq(Nodes(r))
  /\ truth[r] \in [Nodes(r) -> BOOLEAN]
  /\ records[r] \in Seq([key : KeysOf(r), prior : Values])
  /\ DOMAIN base[r] = Keys

(* v is the value of a bounded output of r. *)
Foul(v, r) ==
  \E n \in Nodes(r) : Node(r, n).type = "output" /\ Node(r, n).bounded /\ v = <<r, n>>

Bounded(r) ==
  /\ pc[r] = "get" => ~snap[r].permits
  /\ ~snap[r].permits =>
       /\ \A k \in Keys : ~Foul(data[k], r)
       /\ \A q \in Runs : \A i \in DOMAIN records[q] : ~Foul(records[q][i].prior, r)

(* The walk.  Its edges are the last ones declared for the current node. *)
Leads(r, n, S) ==
  \A i \in DOMAIN Node(r, n).out :
    Node(r, n).out[i].handle = EmittedHandle(r, n) => Node(r, n).out[i].to \in S

Looked(r) == Len(Node(r, cur[r]).out) - Len(edges[r])

Suffix(r) ==
  edges[r] # <<>> =>
    /\ Len(edges[r]) <= Len(Node(r, cur[r]).out)
    /\ \A i \in DOMAIN edges[r] : edges[r][i] = Node(r, cur[r]).out[Looked(r) + i]
    /\ \A i \in 1..Looked(r) :
         Node(r, cur[r]).out[i].handle = EmittedHandle(r, cur[r]) =>
           Node(r, cur[r]).out[i].to \in visited[r]
    /\ cur[r] \in visited[r]

Following(r) ==
  /\ Trigger(r) \in visited[r]
  /\ Range(queue[r]) \subseteq visited[r]
  /\ \A n \in visited[r] :
       \/ n \in Range(queue[r])
       \/ n = cur[r] /\ edges[r] # <<>>
       \/ Leads(r, n, visited[r])
  /\ Suffix(r)

(* Nothing is visited that need not be: a set that holds the trigger and what
   its visited members lead to holds all that was visited. *)
Needed(r) ==
  \A S \in SUBSET Nodes(r) :
    Trigger(r) \in S /\ (\A n \in S \cap visited[r] : Leads(r, n, S)) =>
      visited[r] \subseteq S

Once(r) == IsInjective(order[r]) /\ Range(order[r]) = visited[r] \ {Trigger(r)}

Walking(r) ==
  pc[r] = "walk" \/ result[r] = "success" => Following(r) /\ Needed(r) /\ Once(r)
Finished(r) == result[r] = "success" => queue[r] = <<>> /\ edges[r] = <<>>

(* The log.  The first record of a key has the value from before the run. *)
Logged(r, k) == \E i \in DOMAIN records[r] : records[r][i].key = k
First(r, i) == \A j \in 1..(i - 1) : records[r][j].key # records[r][i].key
LastWrite(r, k) ==
  \/ Writers(r, k) = {} /\ data[k] = base[r][k]
  \/ \E last \in Writers(r, k) :
       /\ \A i \in Writers(r, k) : i <= last
       /\ data[k] = Value(r, order[r][last])

Restorable(r) ==
  /\ \A k \in alone[r] : Logged(r, k) \/ Norm(data[k]) = Norm(base[r][k])
  /\ \A i \in DOMAIN records[r] : First(r, i) /\ records[r][i].key \in alone[r] =>
       Norm(records[r][i].prior) = Norm(base[r][records[r][i].key])
Written(r) == \A k \in alone[r] : LastWrite(r, k)

LogKept(r) == pc[r] \in {"walk", "rollback"} \/ result[r] = "rolled_back" => Restorable(r)
EffectsKept(r) == pc[r] = "walk" \/ result[r] = "success" => Written(r)

(* What a run has alone no executing run may write. *)
Apart ==
  /\ DOMAIN alone = Runs
  /\ \A r \in Runs : alone[r] \subseteq KeysOf(r)
  /\ \A q \in Runs : \A r \in Executing : q # r => alone[q] \cap KeysOf(r) = {}

Typed ==
  /\ Shapes
  /\ data \in [Keys -> Values]
  /\ \A r \in Runs : Handled(r) /\ Local(r)

FlowInv ==
  /\ Typed
  /\ \A r \in Runs : Bounded(r) /\ Walking(r) /\ Finished(r)
  /\ Apart
  /\ \A r \in Runs : LogKept(r) /\ EffectsKept(r)
-----------------------------------------------------------------------------
(* Graphs. *)

LEMMA FlowOfType == \A r \in Runs : FlowOf[r] \in Flows
  BY RunsAssumption

LEMMA TriggerType ==
  ASSUME NEW r \in Runs
  PROVE  Trigger(r) \in Nodes(r) /\ Node(r, Trigger(r)).type = "trigger"
<1>1. \E n \in DOMAIN Graph[FlowOf[r]] : Graph[FlowOf[r]][n].type = "trigger"
  BY FlowOfType, GraphAssumption
<1>2. QED
  BY <1>1 DEF Trigger, Nodes, Node

LEMMA EdgeTarget ==
  ASSUME NEW r \in Runs, NEW e \in Edges(r)
  PROVE  e.to \in Nodes(r)
<1>1. PICK n \in Nodes(r) : e \in Range(Node(r, n).out)
  BY DEF Edges
<1>2. QED
  BY <1>1, FlowOfType, GraphAssumption DEF Nodes, Node

LEMMA OutType ==
  ASSUME NEW r \in Runs, NEW n \in Nodes(r)
  PROVE  Node(r, n).out \in Seq(Edges(r))
<1>1. Node(r, n).out \in Seq(Range(Node(r, n).out))
  BY FlowOfType, GraphAssumption DEF Nodes, Node
<1>2. Range(Node(r, n).out) \subseteq Edges(r)
  BY DEF Edges
<1>3. QED
  BY <1>1, <1>2

LEMMA KeyType ==
  ASSUME NEW r \in Runs, NEW n \in Nodes(r), Writes(r, n)
  PROVE  Node(r, n).key \in KeysOf(r) /\ Node(r, n).key \in Keys
<1>1. Node(r, n).key \in Keys
  BY FlowOfType, GraphAssumption DEF Nodes, Node, Writes
<1>2. Node(r, n).key \in KeysOf(r)
  BY DEF KeysOf, Writes, Nodes
<1>3. QED
  BY <1>1, <1>2

LEMMA KeysOfType == \A r \in Runs : KeysOf(r) \subseteq Keys
  BY KeyType DEF KeysOf, Writes, Nodes

LEMMA ValueType ==
  ASSUME NEW r \in Runs, NEW n \in Nodes(r)
  PROVE  Value(r, n) \in Values
  BY FlowOfType DEF Value, Values, Nodes

-----------------------------------------------------------------------------
(* A request's step leaves what the others have alone. *)

Others(r) ==
  \A q \in Runs \ {r} :
    /\ rows'[q] = rows[q] /\ pc'[q] = pc[q] /\ snap'[q] = snap[q]
    /\ result'[q] = result[q] /\ reply'[q] = reply[q]
    /\ queue'[q] = queue[q] /\ cur'[q] = cur[q] /\ edges'[q] = edges[q]
    /\ visited'[q] = visited[q] /\ order'[q] = order[q] /\ truth'[q] = truth[q]
    /\ records'[q] = records[q] /\ base'[q] = base[q]

LEMMA StepOthers ==
  ASSUME Shapes, NEW r \in Runs, Step(r)
  PROVE  Others(r) /\ flows' = flows
<1>1. CASE GetFlow(r)
  BY <1>1 DEF Shapes, Others, exec, history, GetFlow, Answer
<1>2. CASE CreateRunFails(r)
  BY <1>2 DEF Shapes, Others, exec, history, CreateRunFails, Answer
<1>3. CASE CreateRun(r)
  BY <1>3 DEF Shapes, Others, exec, history, CreateRun
<1>4. CASE Dequeue(r)
  BY <1>4 DEF Shapes, Others, exec, history, Dequeue
<1>5. CASE SkipEdge(r)
  BY <1>5 DEF Shapes, Others, exec, history, SkipEdge
<1>6. CASE RunAgent(r)
  BY <1>6 DEF Shapes, Others, exec, history, RunAgent, Visit
<1>7. CASE RunCondition(r)
  BY <1>7 DEF Shapes, Others, exec, history, RunCondition, Visit
<1>8. CASE RunEffect(r)
  BY <1>8 DEF Shapes, Others, exec, history, RunEffect, Visit, Apply
<1>9. CASE NodeFails(r)
  BY <1>9 DEF Shapes, Others, exec, history, NodeFails
<1>10. CASE NodePanics(r)
  BY <1>10 DEF Shapes, Others, exec, history, NodePanics, Answer
<1>11. CASE ExecuteSucceeds(r)
  BY <1>11 DEF Shapes, Others, exec, history, ExecuteSucceeds
<1>12. CASE UndoLast(r)
  BY <1>12 DEF Shapes, Others, exec, history, UndoLast
<1>13. CASE RolledBack(r)
  BY <1>13 DEF Shapes, Others, exec, history, RolledBack
<1>14. CASE UpdateRunFails(r)
  BY <1>14 DEF Shapes, Others, exec, history, UpdateRunFails, Answer
<1>15. CASE UpdateRun(r)
  BY <1>15 DEF Shapes, Others, exec, history, UpdateRun, Answer
<1> QED
  BY <1>1, <1>2, <1>3, <1>4, <1>5, <1>6, <1>7, <1>8, <1>9, <1>10, <1>11, <1>12, <1>13, <1>14,
     <1>15 DEF Step

-----------------------------------------------------------------------------
(* Types, and the stages of a handler. *)

Own(r) == Shapes' /\ data' \in [Keys -> Values] /\ Handled(r)' /\ Local(r)'

(* The node at hand. *)
LEMMA AtNode ==
  ASSUME NEW r \in Runs, Local(r), edges[r] # <<>>
  PROVE  /\ Head(edges[r]) \in Edges(r) /\ Head(edges[r]).to \in Nodes(r)
         /\ Tail(edges[r]) \in Seq(Edges(r))
<1>1. Head(edges[r]) \in Edges(r) /\ Tail(edges[r]) \in Seq(Edges(r))
  BY DEF Local
<1>2. QED
  BY <1>1, EdgeTarget

LEMMA LogEnd ==
  ASSUME NEW S, NEW log \in Seq(S), log # <<>>
  PROVE  /\ Len(log) \in Nat \ {0}
         /\ log[Len(log)] \in S
         /\ SubSeq(log, 1, Len(log) - 1) \in Seq(S)
         /\ Len(SubSeq(log, 1, Len(log) - 1)) = Len(log) - 1
         /\ \A i \in 1..(Len(log) - 1) : SubSeq(log, 1, Len(log) - 1)[i] = log[i]
<1>1. Len(log) \in Nat /\ Len(log) # 0
  BY EmptySeq, LenProperties
<1>2. log[Len(log)] \in S
  BY <1>1, ElementOfSeq
<1>3. /\ SubSeq(log, 1, Len(log) - 1) \in Seq(S)
      /\ Len(SubSeq(log, 1, Len(log) - 1)) = Len(log) - 1
      /\ \A i \in 1..(Len(log) - 1) : SubSeq(log, 1, Len(log) - 1)[i] = log[i]
  <2>1. 1 \in Int /\ Len(log) - 1 \in Int /\ \A i \in 1..(Len(log) - 1) : log[i] \in S
    BY <1>1, ElementOfSeq
  <2>2. /\ SubSeq(log, 1, Len(log) - 1) \in Seq(S)
        /\ Len(SubSeq(log, 1, Len(log) - 1)) =
             IF 1 <= Len(log) - 1 THEN (Len(log) - 1) - 1 + 1 ELSE 0
        /\ \A i \in 1..((Len(log) - 1) - 1 + 1) :
             SubSeq(log, 1, Len(log) - 1)[i] = log[1 + i - 1]
    BY <2>1, SubSeqProperties
  <2>3. (Len(log) - 1) - 1 + 1 = Len(log) - 1 /\ \A i \in 1..(Len(log) - 1) : 1 + i - 1 = i
    BY <1>1
  <2>4. \A i \in 1..(Len(log) - 1) : SubSeq(log, 1, Len(log) - 1)[i] = log[i]
    BY <2>2, <2>3
  <2>5. Len(SubSeq(log, 1, Len(log) - 1)) = Len(log) - 1
    <3> DEFINE m == Len(log)
               l == Len(SubSeq(log, 1, Len(log) - 1))
    <3>1. m \in Nat /\ m # 0 /\ l = IF 1 <= m - 1 THEN (m - 1) - 1 + 1 ELSE 0
      BY <1>1, <2>2
    <3> HIDE DEF m, l
    <3>2. l = m - 1
      BY <3>1
    <3>3. QED
      BY <3>2 DEF m, l
  <2>6. QED
    BY <2>2, <2>4, <2>5
<1>4. QED
  BY <1>1, <1>2, <1>3

LEMMA VisitLocal ==
  ASSUME NEW r \in Runs, Shapes, Local(r), edges[r] # <<>>, NEW n \in Nodes(r), Visit(r, n)
  PROVE  /\ queue'[r] \in Seq(Nodes(r)) /\ edges'[r] \in Seq(Edges(r))
         /\ visited'[r] \subseteq Nodes(r) /\ order'[r] \in Seq(Nodes(r))
  BY AtNode DEF Shapes, Local, Visit

LEMMA GetFlowOwn ==
  ASSUME Typed, NEW r \in Runs, GetFlow(r)
  PROVE  Own(r)
<1>0. Shapes /\ Handled(r) /\ Local(r) /\ data \in [Keys -> Values]
  BY DEF Typed
<1>1. Shapes'
  BY <1>0 DEF Shapes, exec, history, GetFlow, Answer
<1>2. data' \in [Keys -> Values]
  BY <1>0 DEF GetFlow
<1>3. Handled(r)'
  BY <1>0 DEF Shapes, Handled, Ended, exec, history, GetFlow, Answer
<1>4. Local(r)'
  BY <1>0 DEF Shapes, Local, exec, history, GetFlow, Answer
<1>5. QED
  BY <1>1, <1>2, <1>3, <1>4 DEF Own

LEMMA CreateRunFailsOwn ==
  ASSUME Typed, NEW r \in Runs, CreateRunFails(r)
  PROVE  Own(r)
<1>0. Shapes /\ Handled(r) /\ Local(r) /\ data \in [Keys -> Values]
  BY DEF Typed
<1>1. Shapes'
  BY <1>0 DEF Shapes, exec, history, CreateRunFails, Answer
<1>2. data' \in [Keys -> Values]
  BY <1>0 DEF CreateRunFails
<1>3. Handled(r)'
  BY <1>0 DEF Shapes, Handled, Ended, exec, history, CreateRunFails, Answer
<1>4. Local(r)'
  BY <1>0 DEF Shapes, Local, exec, history, CreateRunFails, Answer
<1>5. QED
  BY <1>1, <1>2, <1>3, <1>4 DEF Own

LEMMA CreateRunOwn ==
  ASSUME Typed, NEW r \in Runs, CreateRun(r)
  PROVE  Own(r)
<1>0. Shapes /\ Handled(r) /\ Local(r) /\ data \in [Keys -> Values]
  BY DEF Typed
<1>1. Shapes'
  BY <1>0 DEF Shapes, exec, history, CreateRun
<1>2. data' \in [Keys -> Values]
  BY <1>0 DEF CreateRun
<1>3. Handled(r)'
  BY <1>0 DEF Shapes, Handled, Ended, exec, history, CreateRun
<1>4. Local(r)'
  <2>1. Trigger(r) \in Nodes(r)
    BY TriggerType
  <2>2. QED
    BY <1>0, <2>1 DEF Shapes, Local, CreateRun
<1>5. QED
  BY <1>1, <1>2, <1>3, <1>4 DEF Own

LEMMA DequeueOwn ==
  ASSUME Typed, NEW r \in Runs, Dequeue(r)
  PROVE  Own(r)
<1>0. Shapes /\ Handled(r) /\ Local(r) /\ data \in [Keys -> Values]
  BY DEF Typed
<1>1. Shapes'
  BY <1>0 DEF Shapes, exec, history, Dequeue
<1>2. data' \in [Keys -> Values]
  BY <1>0 DEF Dequeue
<1>3. Handled(r)'
  BY <1>0 DEF Shapes, Handled, Ended, exec, history, Dequeue
<1>4. Local(r)'
  <2>1. Head(queue[r]) \in Nodes(r) /\ Tail(queue[r]) \in Seq(Nodes(r))
    BY <1>0 DEF Local, Dequeue
  <2>2. Node(r, Head(queue[r])).out \in Seq(Edges(r))
    BY <2>1, OutType
  <2>3. QED
    BY <1>0, <2>1, <2>2 DEF Shapes, Local, Dequeue, history
<1>5. QED
  BY <1>1, <1>2, <1>3, <1>4 DEF Own

LEMMA SkipEdgeOwn ==
  ASSUME Typed, NEW r \in Runs, SkipEdge(r)
  PROVE  Own(r)
<1>0. Shapes /\ Handled(r) /\ Local(r) /\ data \in [Keys -> Values]
  BY DEF Typed
<1>1. Shapes'
  BY <1>0 DEF Shapes, exec, history, SkipEdge
<1>2. data' \in [Keys -> Values]
  BY <1>0 DEF SkipEdge
<1>3. Handled(r)'
  BY <1>0 DEF Shapes, Handled, Ended, exec, history, SkipEdge
<1>4. Local(r)'
  <2>1. Tail(edges[r]) \in Seq(Edges(r))
    BY <1>0, AtNode DEF SkipEdge
  <2>2. QED
    BY <1>0, <2>1 DEF Shapes, Local, SkipEdge, history
<1>5. QED
  BY <1>1, <1>2, <1>3, <1>4 DEF Own

LEMMA RunAgentOwn ==
  ASSUME Typed, NEW r \in Runs, RunAgent(r)
  PROVE  Own(r)
<1>0. Shapes /\ Handled(r) /\ Local(r) /\ data \in [Keys -> Values]
  BY DEF Typed
<1>1. Shapes'
  BY <1>0 DEF Shapes, exec, history, RunAgent, Visit, AtNewNode
<1>2. data' \in [Keys -> Values]
  BY <1>0 DEF RunAgent
<1>3. Handled(r)'
  BY <1>0 DEF Shapes, Handled, Ended, exec, history, RunAgent, Visit, AtNewNode
<1>4. Local(r)'
  <2>1. Head(edges[r]).to \in Nodes(r) /\ edges[r] # <<>>
    BY <1>0, AtNode DEF RunAgent, AtNewNode
  <2>2. /\ queue'[r] \in Seq(Nodes(r)) /\ edges'[r] \in Seq(Edges(r))
        /\ visited'[r] \subseteq Nodes(r) /\ order'[r] \in Seq(Nodes(r))
    BY <1>0, <2>1, VisitLocal DEF RunAgent
  <2>9. QED
    BY <1>0, <2>1, <2>2 DEF Shapes, Local, RunAgent, history
<1>5. QED
  BY <1>1, <1>2, <1>3, <1>4 DEF Own

LEMMA RunConditionOwn ==
  ASSUME Typed, NEW r \in Runs, RunCondition(r)
  PROVE  Own(r)
<1>0. Shapes /\ Handled(r) /\ Local(r) /\ data \in [Keys -> Values]
  BY DEF Typed
<1>1. Shapes'
  BY <1>0 DEF Shapes, exec, history, RunCondition, Visit, AtNewNode
<1>2. data' \in [Keys -> Values]
  BY <1>0 DEF RunCondition
<1>3. Handled(r)'
  BY <1>0 DEF Shapes, Handled, Ended, exec, history, RunCondition, Visit, AtNewNode
<1>4. Local(r)'
  <2>1. Head(edges[r]).to \in Nodes(r) /\ edges[r] # <<>>
    BY <1>0, AtNode DEF RunCondition, AtNewNode
  <2>2. /\ queue'[r] \in Seq(Nodes(r)) /\ edges'[r] \in Seq(Edges(r))
        /\ visited'[r] \subseteq Nodes(r) /\ order'[r] \in Seq(Nodes(r))
    BY <1>0, <2>1, VisitLocal DEF RunCondition
  <2>3. truth'[r] \in [Nodes(r) -> BOOLEAN]
    <3>1. PICK b \in BOOLEAN : truth' = [truth EXCEPT ![r][Head(edges[r]).to] = b]
      BY DEF RunCondition
    <3>2. truth'[r] = [truth[r] EXCEPT ![Head(edges[r]).to] = b]
      BY <1>0, <3>1 DEF Shapes
    <3>3. QED
      BY <1>0, <3>2 DEF Local
  <2>9. QED
    BY <1>0, <2>1, <2>2, <2>3 DEF Shapes, Local, RunCondition, history
<1>5. QED
  BY <1>1, <1>2, <1>3, <1>4 DEF Own

LEMMA RunEffectOwn ==
  ASSUME Typed, NEW r \in Runs, RunEffect(r)
  PROVE  Own(r)
<1>0. Shapes /\ Handled(r) /\ Local(r) /\ data \in [Keys -> Values]
  BY DEF Typed
<1>1. Shapes'
  BY <1>0 DEF Shapes, exec, history, RunEffect, Visit, Apply, AtNewNode
<1>2. data' \in [Keys -> Values]
  <2>1. Head(edges[r]).to \in Nodes(r)
    BY <1>0, AtNode DEF RunEffect, AtNewNode
  <2>2. Value(r, Head(edges[r]).to) \in Values
    BY <2>1, ValueType
  <2>3. QED
    BY <1>0, <2>2 DEF RunEffect, Apply
<1>3. Handled(r)'
  BY <1>0 DEF Shapes, Handled, Ended, exec, history, RunEffect, Visit, Apply, AtNewNode
<1>4. Local(r)'
  <2>1. Head(edges[r]).to \in Nodes(r) /\ edges[r] # <<>>
    BY <1>0, AtNode DEF RunEffect, AtNewNode
  <2>2. /\ queue'[r] \in Seq(Nodes(r)) /\ edges'[r] \in Seq(Edges(r))
        /\ visited'[r] \subseteq Nodes(r) /\ order'[r] \in Seq(Nodes(r))
    BY <1>0, <2>1, VisitLocal DEF RunEffect
  <2>3. records'[r] \in Seq([key : KeysOf(r), prior : Values])
    <3>1. Writes(r, Head(edges[r]).to)
      BY DEF RunEffect, Writes
    <3>2. Node(r, Head(edges[r]).to).key \in KeysOf(r) /\ Node(r, Head(edges[r]).to).key \in Keys
      BY <2>1, <3>1, KeyType
    <3>3. [key |-> Node(r, Head(edges[r]).to).key,
           prior |-> data[Node(r, Head(edges[r]).to).key]] \in [key : KeysOf(r), prior : Values]
      BY <1>0, <3>2
    <3>4. QED
      BY <1>0, <3>3 DEF Shapes, Local, RunEffect, Apply
  <2>9. QED
    BY <1>0, <2>1, <2>2, <2>3 DEF Shapes, Local, RunEffect, history
<1>5. QED
  BY <1>1, <1>2, <1>3, <1>4 DEF Own

LEMMA NodeFailsOwn ==
  ASSUME Typed, NEW r \in Runs, NodeFails(r)
  PROVE  Own(r)
<1>0. Shapes /\ Handled(r) /\ Local(r) /\ data \in [Keys -> Values]
  BY DEF Typed
<1>1. Shapes'
  BY <1>0 DEF Shapes, exec, history, NodeFails, AtNewNode
<1>2. data' \in [Keys -> Values]
  BY <1>0 DEF NodeFails
<1>3. Handled(r)'
  BY <1>0 DEF Shapes, Handled, Ended, exec, history, NodeFails, AtNewNode
<1>4. Local(r)'
  <2>1. Head(edges[r]).to \in Nodes(r)
    BY <1>0, AtNode DEF NodeFails, AtNewNode
  <2>2. QED
    BY <1>0, <2>1 DEF Shapes, Local, NodeFails, history
<1>5. QED
  BY <1>1, <1>2, <1>3, <1>4 DEF Own

LEMMA NodePanicsOwn ==
  ASSUME Typed, NEW r \in Runs, NodePanics(r)
  PROVE  Own(r)
<1>0. Shapes /\ Handled(r) /\ Local(r) /\ data \in [Keys -> Values]
  BY DEF Typed
<1>1. Shapes'
  BY <1>0 DEF Shapes, exec, history, NodePanics, Answer
<1>2. data' \in [Keys -> Values]
  BY <1>0 DEF NodePanics
<1>3. Handled(r)'
  BY <1>0 DEF Shapes, Handled, Ended, exec, history, NodePanics, Answer
<1>4. Local(r)'
  BY <1>0 DEF Shapes, Local, exec, history, NodePanics, Answer
<1>5. QED
  BY <1>1, <1>2, <1>3, <1>4 DEF Own

LEMMA ExecuteSucceedsOwn ==
  ASSUME Typed, NEW r \in Runs, ExecuteSucceeds(r)
  PROVE  Own(r)
<1>0. Shapes /\ Handled(r) /\ Local(r) /\ data \in [Keys -> Values]
  BY DEF Typed
<1>1. Shapes'
  BY <1>0 DEF Shapes, exec, history, ExecuteSucceeds
<1>2. data' \in [Keys -> Values]
  BY <1>0 DEF ExecuteSucceeds
<1>3. Handled(r)'
  BY <1>0 DEF Shapes, Handled, Ended, exec, history, ExecuteSucceeds
<1>4. Local(r)'
  BY <1>0 DEF Shapes, Local, exec, history, ExecuteSucceeds
<1>5. QED
  BY <1>1, <1>2, <1>3, <1>4 DEF Own

LEMMA UndoLastOwn ==
  ASSUME Typed, NEW r \in Runs, UndoLast(r)
  PROVE  Own(r)
<1>0. Shapes /\ Handled(r) /\ Local(r) /\ data \in [Keys -> Values]
  BY DEF Typed
<1>1. Shapes'
  BY <1>0 DEF Shapes, exec, history, UndoLast
<1>2. data' \in [Keys -> Values]
  <2>1. /\ records[r][Len(records[r])] \in [key : KeysOf(r), prior : Values]
        /\ SubSeq(records[r], 1, Len(records[r]) - 1) \in Seq([key : KeysOf(r), prior : Values])
    BY <1>0, LogEnd DEF Local, UndoLast
  <2> DEFINE prior == records[r][Len(records[r])].prior
             v == IF prior \in {Absent, Nil} THEN Absent ELSE prior
  <2>2. v \in Values /\ data' = [data EXCEPT ![records[r][Len(records[r])].key] = v]
    BY <2>1 DEF UndoLast, Values
  <2> HIDE DEF v
  <2>3. QED
    BY <1>0, <2>2
<1>3. Handled(r)'
  BY <1>0 DEF Shapes, Handled, Ended, exec, history, UndoLast
<1>4. Local(r)'
  <2>1. /\ records[r][Len(records[r])] \in [key : KeysOf(r), prior : Values]
        /\ SubSeq(records[r], 1, Len(records[r]) - 1) \in Seq([key : KeysOf(r), prior : Values])
    BY <1>0, LogEnd DEF Local, UndoLast
  <2>2. QED
    BY <1>0, <2>1 DEF Shapes, Local, UndoLast, history
<1>5. QED
  BY <1>1, <1>2, <1>3, <1>4 DEF Own

LEMMA RolledBackOwn ==
  ASSUME Typed, NEW r \in Runs, RolledBack(r)
  PROVE  Own(r)
<1>0. Shapes /\ Handled(r) /\ Local(r) /\ data \in [Keys -> Values]
  BY DEF Typed
<1>1. Shapes'
  BY <1>0 DEF Shapes, exec, history, RolledBack
<1>2. data' \in [Keys -> Values]
  BY <1>0 DEF RolledBack
<1>3. Handled(r)'
  BY <1>0 DEF Shapes, Handled, Ended, exec, history, RolledBack
<1>4. Local(r)'
  BY <1>0 DEF Shapes, Local, exec, history, RolledBack
<1>5. QED
  BY <1>1, <1>2, <1>3, <1>4 DEF Own

LEMMA UpdateRunFailsOwn ==
  ASSUME Typed, NEW r \in Runs, UpdateRunFails(r)
  PROVE  Own(r)
<1>0. Shapes /\ Handled(r) /\ Local(r) /\ data \in [Keys -> Values]
  BY DEF Typed
<1>1. Shapes'
  BY <1>0 DEF Shapes, exec, history, UpdateRunFails, Answer
<1>2. data' \in [Keys -> Values]
  BY <1>0 DEF UpdateRunFails
<1>3. Handled(r)'
  BY <1>0 DEF Shapes, Handled, Ended, exec, history, UpdateRunFails, Answer
<1>4. Local(r)'
  BY <1>0 DEF Shapes, Local, exec, history, UpdateRunFails, Answer
<1>5. QED
  BY <1>1, <1>2, <1>3, <1>4 DEF Own

LEMMA UpdateRunOwn ==
  ASSUME Typed, NEW r \in Runs, UpdateRun(r)
  PROVE  Own(r)
<1>0. Shapes /\ Handled(r) /\ Local(r) /\ data \in [Keys -> Values]
  BY DEF Typed
<1>1. Shapes'
  BY <1>0 DEF Shapes, exec, history, UpdateRun, Answer
<1>2. data' \in [Keys -> Values]
  BY <1>0 DEF UpdateRun
<1>3. Handled(r)'
  BY <1>0 DEF Shapes, Handled, Ended, exec, history, UpdateRun, Answer
<1>4. Local(r)'
  BY <1>0 DEF Shapes, Local, exec, history, UpdateRun, Answer
<1>5. QED
  BY <1>1, <1>2, <1>3, <1>4 DEF Own

LEMMA StepTyped ==
  ASSUME Typed, NEW r \in Runs, Step(r)
  PROVE  Typed'
<1>1. Own(r)
  BY GetFlowOwn, CreateRunFailsOwn, CreateRunOwn, DequeueOwn, SkipEdgeOwn, RunAgentOwn,
     RunConditionOwn,
     RunEffectOwn, NodeFailsOwn, NodePanicsOwn, ExecuteSucceedsOwn, UndoLastOwn, RolledBackOwn, UpdateRunFailsOwn, UpdateRunOwn DEF Step
<1>2. Others(r) /\ flows' = flows
  BY StepOthers DEF Typed
<1>3. ASSUME NEW q \in Runs, q # r PROVE Handled(q)' /\ Local(q)'
  <2>1. Handled(q) /\ Local(q)
    BY DEF Typed
  <2>2. Handled(q)'
    BY <1>2, <1>3, <2>1 DEF Others, Handled
  <2>3. Local(q)'
    BY <1>2, <1>3, <2>1 DEF Others, Local
  <2>4. QED
    BY <2>2, <2>3
<1>4. QED
  BY <1>1, <1>3 DEF Own, Typed

(* Steps that only touch contexts or the tables leave Execute alone. *)
Aside == UNCHANGED <<data, pc, snap, exec, result, reply>>

LEMMA AsideLocal ==
  ASSUME Typed, Aside, NEW r \in Runs
  PROVE  Local(r)'
  BY DEF Typed, Local, Aside, exec, history

LEMMA AsideTyped ==
  ASSUME Typed, \/ \E r \in Runs : Cancel(r)
                \/ \E f \in Editable : UpdateFlow(f) \/ DeleteFlow(f)
                \/ UNCHANGED vars
  PROVE  Typed' /\ Aside
<1>1. Aside
  BY DEF Aside, Cancel, UpdateFlow, DeleteFlow, vars
<1>2. data' \in [Keys -> Values] /\ \A r \in Runs : Local(r)'
  BY <1>1, AsideLocal DEF Typed, Aside
<1>3. CASE UNCHANGED vars \/ \E r \in Runs : Cancel(r)
  <2>1. rows' = rows /\ flows' = flows
    BY <1>3 DEF Cancel, vars
  <2>5. ctxErr' \in [Runs -> BOOLEAN]
    <3>1. ctxErr \in [Runs -> BOOLEAN]
      BY DEF Typed, Shapes
    <3>2. ctxErr' = ctxErr \/ \E r \in Runs : ctxErr' = [ctxErr EXCEPT ![r] = TRUE]
      BY <1>3 DEF Cancel, vars
    <3>3. QED
      BY <3>1, <3>2
  <2>2. Shapes'
    BY <1>1, <2>1, <2>5 DEF Typed, Shapes, Aside, exec, history
  <2>3. \A r \in Runs : Handled(r)'
    BY <1>1, <2>1 DEF Typed, Handled, Aside, exec, history
  <2>4. QED
    BY <1>1, <1>2, <2>2, <2>3 DEF Typed
<1>4. ASSUME NEW f \in Editable, UpdateFlow(f) PROVE Typed'
  <2>1. f \in Flows
    BY RunsAssumption
  <2>2. PICK e \in BOOLEAN, p \in BOOLEAN :
          flows' = [flows EXCEPT ![f].enabled = e, ![f].permits = p]
    BY <1>4 DEF UpdateFlow
  <2>3. /\ flows' \in [Flows -> [exists : BOOLEAN, enabled : BOOLEAN, permits : BOOLEAN]]
        /\ \A g \in Flows : flows'[g].exists = flows[g].exists
    <3> DEFINE Row == [exists : BOOLEAN, enabled : BOOLEAN, permits : BOOLEAN]
               new == [flows[f] EXCEPT !.enabled = e, !.permits = p]
    <3>1. flows \in [Flows -> Row]
      BY DEF Typed, Shapes
    <3>2. new \in Row /\ new.exists = flows[f].exists
      BY <2>1, <3>1
    <3>3. flows' = [flows EXCEPT ![f] = new]
      BY <2>1, <2>2, <3>1
    <3> HIDE DEF Row, new
    <3>4. flows' \in [Flows -> Row] /\ \A g \in Flows : flows'[g].exists = flows[g].exists
      BY <2>1, <3>1, <3>2, <3>3
    <3>5. QED
      BY <3>4 DEF Row
  <2>4. Shapes'
    BY <1>1, <1>4, <2>3 DEF Typed, Shapes, Aside, exec, history, UpdateFlow
  <2>5. \A r \in Runs : Handled(r)'
    BY <1>1, <1>4, <2>3, FlowOfType DEF Typed, Handled, Aside, exec, history, UpdateFlow
  <2>6. QED
    BY <1>2, <2>4, <2>5 DEF Typed
<1>5. ASSUME NEW f \in Editable, DeleteFlow(f) PROVE Typed'
  <2>1. f \in Flows
    BY RunsAssumption
  <2>2. /\ flows' \in [Flows -> [exists : BOOLEAN, enabled : BOOLEAN, permits : BOOLEAN]]
        /\ \A g \in Flows : flows'[g].exists => flows[g].exists /\ g # f
    <3> DEFINE Row == [exists : BOOLEAN, enabled : BOOLEAN, permits : BOOLEAN]
               new == [flows[f] EXCEPT !.exists = FALSE]
    <3>1. flows \in [Flows -> Row]
      BY DEF Typed, Shapes
    <3>2. new \in Row /\ ~new.exists
      BY <2>1, <3>1
    <3>3. flows' = [flows EXCEPT ![f] = new]
      BY <1>5, <2>1, <3>1 DEF DeleteFlow
    <3> HIDE DEF Row, new
    <3>4. /\ flows' \in [Flows -> Row]
          /\ \A g \in Flows : flows'[g].exists => flows[g].exists /\ g # f
      BY <2>1, <3>1, <3>2, <3>3
    <3>5. QED
      BY <3>4 DEF Row
  <2>3. \A r \in Runs : \/ rows'[r] = rows[r]
                        \/ rows'[r] = "none" /\ FlowOf[r] = f
    BY <1>5 DEF DeleteFlow
  <2>4. Shapes'
    BY <1>1, <1>5, <2>2 DEF Typed, Shapes, Aside, exec, history, DeleteFlow
  <2>5. ASSUME NEW r \in Runs PROVE Handled(r)'
    <3>1. Handled(r) /\ FlowOf[r] \in Flows
      BY FlowOfType DEF Typed
    <3>2. CASE rows'[r] = rows[r]
      BY <1>1, <2>2, <3>1, <3>2 DEF Handled, Aside, exec, history
    <3>3. CASE rows'[r] = "none" /\ FlowOf[r] = f
      BY <1>1, <2>2, <3>1, <3>3 DEF Handled, Ended, Aside, exec, history
    <3>4. QED
      BY <2>3, <3>2, <3>3
  <2>6. QED
    BY <1>2, <2>4, <2>5 DEF Typed
<1>6. QED
  BY <1>1, <1>3, <1>4, <1>5

-----------------------------------------------------------------------------
(* The permission boundary. *)

LEMMA ForeignValue ==
  ASSUME NEW r \in Runs, NEW q \in Runs, NEW n, Foul(Value(q, n), r)
  PROVE  q = r /\ Node(r, n).type = "output" /\ Node(r, n).bounded
  BY ValuesAssumption DEF Foul, Value, Nil

LEMMA NothingFoul == \A r \in Runs : ~Foul(Absent, r) /\ \A k \in Keys : ~Foul(Initially[k], r)
  BY ValuesAssumption DEF Foul, Absent, Nodes

LEMMA StepBounded ==
  ASSUME Typed, \A r \in Runs : Bounded(r), NEW q \in Runs, Step(q)
  PROVE  \A r \in Runs : Bounded(r)'
<1>0. Shapes /\ Local(q) /\ Others(q)
  BY StepOthers DEF Typed
<1>1. CASE GetFlow(q)
  BY <1>0, <1>1 DEF Bounded, GetFlow, Answer, Shapes, Others, exec, history
<1>2. CASE RunEffect(q)
  <2>1. DEFINE n == Head(edges[q]).to
               k == Node(q, n).key
  <2>2. /\ data' = [data EXCEPT ![k] = Value(q, n)] /\ snap' = snap /\ pc' = pc
        /\ records' = [records EXCEPT ![q] = Append(records[q], [key |-> k, prior |-> data[k]])]
        /\ Node(q, n).type = "output" => Permitted(q, n)
        /\ Node(q, n).type \in {"mcp_tool", "output"}
    BY <1>2 DEF RunEffect, Apply
  <2>3. n \in Nodes(q)
    BY <1>0, <1>2, AtNode DEF RunEffect, AtNewNode
  <2>4. k \in Keys
    BY <2>2, <2>3, KeyType DEF Writes
  <2> HIDE DEF k, n
  <2>5. ASSUME NEW r \in Runs, ~snap[r].permits PROVE ~Foul(Value(q, n), r)
    BY <2>2, <2>5, ForeignValue DEF Permitted
  <2>6. ASSUME NEW r \in Runs, ~snap[r].permits, NEW p \in Runs, NEW i \in DOMAIN records'[p]
        PROVE  ~Foul(records'[p][i].prior, r)
    <3>1. records[q] \in Seq([key : KeysOf(q), prior : Values])
      BY <1>0 DEF Local
    <3>2. CASE p = q
      <4>1. records'[q] = Append(records[q], [key |-> k, prior |-> data[k]])
        BY <1>0, <2>2 DEF Shapes
      <4>2. \/ i \in DOMAIN records[q] /\ records'[q][i] = records[q][i]
            \/ records'[q][i].prior = data[k]
        BY <2>6, <3>1, <3>2, <4>1
      <4>3. QED
        BY <2>4, <2>6, <3>2, <4>2 DEF Bounded
    <3>3. CASE p # q
      BY <1>0, <2>2, <2>6, <3>3 DEF Shapes, Bounded
    <3>4. QED
      BY <3>2, <3>3
  <2>7. QED
    BY <1>0, <2>2, <2>4, <2>5, <2>6 DEF Bounded, Shapes
<1>3. CASE UndoLast(q)
  <2> DEFINE log == records[q]
             rec == log[Len(log)]
  <2>1. log \in Seq([key : KeysOf(q), prior : Values]) /\ log # <<>>
    BY <1>0, <1>3 DEF Local, UndoLast
  <2>2. /\ Len(log) \in Nat \ {0} /\ DOMAIN log = 1..Len(log)
        /\ Len(SubSeq(log, 1, Len(log) - 1)) = Len(log) - 1
        /\ DOMAIN SubSeq(log, 1, Len(log) - 1) = 1..(Len(log) - 1)
        /\ \A i \in 1..(Len(log) - 1) : SubSeq(log, 1, Len(log) - 1)[i] = log[i]
    <3> HIDE DEF log
    <3> QED
      BY <2>1, LogEnd, LenProperties
  <2>3. /\ data' = [data EXCEPT ![rec.key] =
                      IF rec.prior \in {Absent, Nil} THEN Absent ELSE rec.prior]
        /\ snap' = snap /\ pc' = pc
        /\ records' = [records EXCEPT ![q] = SubSeq(log, 1, Len(log) - 1)]
    BY <1>3 DEF UndoLast
  <2>4. ASSUME NEW r \in Runs, ~snap[r].permits
        PROVE  \A p \in Runs : \A i \in DOMAIN records'[p] : ~Foul(records'[p][i].prior, r)
    <3>1. \A p \in Runs \ {q} : records'[p] = records[p]
      BY <1>0, <2>3 DEF Shapes
    <3>2. records'[q] = SubSeq(log, 1, Len(log) - 1)
      BY <1>0, <2>3 DEF Shapes
    <3>3. \A i \in DOMAIN records'[q] : i \in DOMAIN log /\ records'[q][i] = log[i]
      BY <2>2, <3>2
    <3>4. QED
      BY <2>4, <3>1, <3>3 DEF Bounded
  <2>5. ASSUME NEW r \in Runs, ~snap[r].permits PROVE ~Foul(rec.prior, r) /\ ~Foul(Absent, r)
    <3>1. Len(log) \in DOMAIN log
      BY <2>2
    <3>2. QED
      BY <2>5, <3>1, NothingFoul DEF Bounded
  <2>6. QED
    BY <1>0, <2>3, <2>4, <2>5 DEF Bounded, Shapes
<1>4. ASSUME UNCHANGED <<data, records, snap>>, Step(q) PROVE \A r \in Runs : Bounded(r)'
  <2>1. \A r \in Runs : pc'[r] = "get" => pc[r] = "get"
    BY <1>0, <1>4 DEF Step, Others, Shapes, GetFlow, CreateRunFails, CreateRun, Dequeue,
       SkipEdge,
       RunAgent, RunCondition, RunEffect, NodeFails, NodePanics, ExecuteSucceeds, UndoLast,
       RolledBack, UpdateRunFails, UpdateRun, Answer
  <2>2. QED
    BY <1>4, <2>1 DEF Bounded
<1>5. QED
  BY <1>1, <1>2, <1>3, <1>4 DEF Step, CreateRunFails, CreateRun, Dequeue, SkipEdge,
     RunAgent, RunCondition, NodeFails, NodePanics, ExecuteSucceeds,
     RolledBack, UpdateRunFails, UpdateRun, exec, history

-----------------------------------------------------------------------------
(* The walk. *)

LEMMA WalkBegins ==
  ASSUME Typed, NEW r \in Runs, CreateRun(r)
  PROVE  Following(r)' /\ Needed(r)' /\ Once(r)'
<1>1. /\ queue'[r] = <<Trigger(r)>> /\ visited'[r] = {Trigger(r)}
      /\ edges'[r] = <<>> /\ order'[r] = <<>>
  BY DEF Typed, Shapes, Handled, CreateRun
<1>2. Range(<<Trigger(r)>>) = {Trigger(r)} /\ Range(<<>>) = {} /\ IsInjective(<<>>)
  BY DEF Range, IsInjective
<1>3. Following(r)'
  BY <1>1, <1>2 DEF Following, Suffix
<1>4. Needed(r)'
  BY <1>1 DEF Needed
<1>5. Once(r)'
  BY <1>1, <1>2 DEF Once
<1>6. QED
  BY <1>3, <1>4, <1>5

(* Taking a node off the queue. *)
LEMMA RangeHeadTail ==
  ASSUME NEW S, NEW q \in Seq(S), q # <<>>
  PROVE  Range(q) = {Head(q)} \cup Range(Tail(q))
<1>1. /\ Len(q) \in Nat \ {0} /\ DOMAIN q = 1..Len(q) /\ Len(Tail(q)) = Len(q) - 1
      /\ DOMAIN Tail(q) = 1..(Len(q) - 1) /\ Head(q) = q[1]
      /\ \A i \in 1..(Len(q) - 1) : Tail(q)[i] = q[i + 1]
  BY EmptySeq, LenProperties
<1>2. \A i \in 1..Len(q) : i = 1 \/ (i - 1 \in 1..(Len(q) - 1) /\ (i - 1) + 1 = i)
  BY <1>1
<1>3. \A i \in 1..(Len(q) - 1) : i + 1 \in 1..Len(q)
  BY <1>1
<1>4. 1 \in 1..Len(q)
  BY <1>1
<1>5. ASSUME NEW x \in Range(q), x # Head(q) PROVE x \in Range(Tail(q))
  <2>1. PICK i \in 1..Len(q) : x = q[i]
    BY <1>1 DEF Range
  <2>2. i - 1 \in 1..(Len(q) - 1) /\ (i - 1) + 1 = i
    BY <1>1, <1>2, <1>5, <2>1
  <2>3. Tail(q)[i - 1] = x
    BY <1>1, <2>1, <2>2
  <2>4. QED
    BY <1>1, <2>2, <2>3 DEF Range
<1>6. Head(q) \in Range(q) /\ \A x \in Range(Tail(q)) : x \in Range(q)
  BY <1>1, <1>3, <1>4 DEF Range
<1>7. QED
  BY <1>5, <1>6

LEMMA RangeAppend ==
  ASSUME NEW S, NEW q \in Seq(S), NEW x \in S
  PROVE  Range(Append(q, x)) = Range(q) \cup {x}
<1>1. /\ Len(q) \in Nat /\ DOMAIN q = 1..Len(q) /\ Len(Append(q, x)) = Len(q) + 1
      /\ DOMAIN Append(q, x) = 1..(Len(q) + 1) /\ Append(q, x)[Len(q) + 1] = x
      /\ \A i \in 1..Len(q) : Append(q, x)[i] = q[i]
  BY LenProperties, AppendProperties
<1>2. \A i \in 1..(Len(q) + 1) : i = Len(q) + 1 \/ i \in 1..Len(q)
  BY <1>1
<1>3. Len(q) + 1 \in 1..(Len(q) + 1) /\ \A i \in 1..Len(q) : i \in 1..(Len(q) + 1)
  BY <1>1
<1>4. QED
  BY <1>1, <1>2, <1>3 DEF Range

LEMMA InjectiveAppend ==
  ASSUME NEW S, NEW q \in Seq(S), NEW x \in S, IsInjective(q), x \notin Range(q)
  PROVE  IsInjective(Append(q, x))
<1>1. /\ Len(q) \in Nat /\ DOMAIN q = 1..Len(q) /\ Len(Append(q, x)) = Len(q) + 1
      /\ DOMAIN Append(q, x) = 1..(Len(q) + 1) /\ Append(q, x)[Len(q) + 1] = x
      /\ \A i \in 1..Len(q) : Append(q, x)[i] = q[i]
  BY LenProperties, AppendProperties
<1>2. \A i \in 1..(Len(q) + 1) : i = Len(q) + 1 \/ i \in 1..Len(q)
  BY <1>1
<1>3. \A i \in 1..Len(q) : q[i] # x
  BY <1>1 DEF Range
<1>4. QED
  BY <1>1, <1>2, <1>3 DEF IsInjective

LEMMA DequeueFollows ==
  ASSUME Typed, NEW r \in Runs, Dequeue(r), Following(r)
  PROVE  Following(r)'
<1>0. Shapes /\ Local(r)
  BY DEF Typed
<1> DEFINE q == queue[r]
           n == Head(q)
           out == Node(r, n).out
<1>1. /\ q \in Seq(Nodes(r)) /\ q # <<>> /\ edges[r] = <<>>
      /\ queue'[r] = Tail(q) /\ cur'[r] = n /\ edges'[r] = out
      /\ visited'[r] = visited[r] /\ truth'[r] = truth[r]
  BY <1>0 DEF Shapes, Local, Dequeue
<1>2. Range(q) = {n} \cup Range(Tail(q))
  <2> HIDE DEF q
  <2> QED
    BY <1>1, RangeHeadTail DEF q
<1>3. n \in Nodes(r) /\ out \in Seq(Edges(r))
  BY <1>1, OutType
<1>4. Len(out) \in Nat /\ DOMAIN out = 1..Len(out)
  BY <1>3, LenProperties
<1>5. n \in visited[r] /\ Range(Tail(q)) \subseteq visited[r]
  BY <1>2 DEF Following
<1>6. Suffix(r)'
  <2>1. Looked(r)' = 0
    BY <1>1, <1>4 DEF Looked
  <2>2. QED
    BY <1>1, <1>4, <1>5, <2>1 DEF Suffix
<1>7. ASSUME NEW m \in visited[r]
      PROVE  \/ m \in Range(Tail(q))
             \/ m = n /\ out # <<>>
             \/ Leads(r, m, visited[r])
  <2>1. CASE m = n /\ out = <<>>
    <3>1. DOMAIN out = {}
      BY <2>1, <1>4
    <3>2. QED
      BY <2>1, <3>1 DEF Leads
  <2>2. QED
    BY <1>1, <1>2, <2>1 DEF Following
<1>8. QED
  BY <1>1, <1>5, <1>6, <1>7 DEF Following, Leads, EmittedHandle

(* The edge at hand is the next one declared. *)
LEMMA NextEdge ==
  ASSUME Typed, NEW r \in Runs, edges[r] # <<>>, Suffix(r),
         edges'[r] = Tail(edges[r]), cur'[r] = cur[r]
  PROVE  LET out == Node(r, cur[r]).out IN
         /\ Len(out) \in Nat /\ Len(edges[r]) \in Nat /\ DOMAIN out = 1..Len(out)
         /\ Looked(r) \in Nat /\ Looked(r)' = Looked(r) + 1
         /\ Looked(r) + 1 \in DOMAIN out /\ Head(edges[r]) = out[Looked(r) + 1]
         /\ Len(edges'[r]) = Len(edges[r]) - 1 /\ DOMAIN edges'[r] = 1..(Len(edges[r]) - 1)
         /\ \A i \in DOMAIN edges'[r] : edges'[r][i] = out[Looked(r)' + i]
<1> DEFINE out == Node(r, cur[r]).out
           e == edges[r]
<1>0. Local(r)
  BY DEF Typed
<1>1. out \in Seq(Edges(r)) /\ e \in Seq(Edges(r)) /\ e # <<>>
  BY <1>0, OutType DEF Local
<1>2. Len(out) \in Nat /\ DOMAIN out = 1..Len(out)
  BY <1>1, LenProperties
<1>3. /\ Len(e) \in Nat \ {0} /\ DOMAIN e = 1..Len(e)
      /\ Head(e) = e[1] /\ Len(Tail(e)) = Len(e) - 1 /\ DOMAIN Tail(e) = 1..(Len(e) - 1)
      /\ \A i \in 1..(Len(e) - 1) : Tail(e)[i] = e[i + 1]
  <2> HIDE DEF e
  <2> QED
    BY <1>1, EmptySeq, LenProperties
<1>4. /\ Len(e) <= Len(out) /\ \A i \in DOMAIN e : e[i] = out[Looked(r) + i]
  BY DEF Suffix
<1>5. Looked(r) = Len(out) - Len(e)
  BY DEF Looked
<1>6. Looked(r)' = Len(out) - Len(Tail(e))
  BY DEF Looked
<1>7. Looked(r) \in Nat /\ Looked(r)' = Looked(r) + 1 /\ Looked(r) + 1 \in DOMAIN out
  <2> DEFINE lo == Len(out)
             le == Len(e)
             lt == Len(Tail(e))
             k == Looked(r)
             k2 == Looked(r)'
  <2>1. /\ lo \in Nat /\ le \in Nat \ {0} /\ le <= lo /\ k = lo - le /\ k2 = lo - lt
        /\ lt = le - 1 /\ DOMAIN out = 1..lo
    BY <1>2, <1>3, <1>4, <1>5, <1>6
  <2> HIDE DEF lo, le, lt, k, k2
  <2>2. k \in Nat /\ k2 = k + 1 /\ k + 1 \in 1..lo
    BY <2>1
  <2>3. QED
    BY <2>1, <2>2 DEF k, k2
<1>8. Head(e) = out[Looked(r) + 1]
  BY <1>3, <1>4
<1>9. ASSUME NEW i \in 1..(Len(e) - 1) PROVE Tail(e)[i] = out[Looked(r)' + i]
  <2>1. i + 1 \in DOMAIN e /\ Looked(r) + (i + 1) = Looked(r)' + i
    <3> DEFINE le == Len(e)
               k == Looked(r)
               k2 == Looked(r)'
    <3>1. le \in Nat \ {0} /\ k \in Nat /\ k2 = k + 1 /\ DOMAIN e = 1..le /\ i \in 1..(le - 1)
      BY <1>3, <1>7
    <3> HIDE DEF le, k, k2
    <3>2. i + 1 \in 1..le /\ k + (i + 1) = k2 + i
      BY <3>1
    <3>3. QED
      BY <3>1, <3>2 DEF k, k2
  <2>2. QED
    BY <1>3, <1>4, <2>1
<1>10. QED
  BY <1>2, <1>3, <1>7, <1>8, <1>9

LEMMA SkipFollows ==
  ASSUME Typed, NEW r \in Runs, SkipEdge(r), Following(r)
  PROVE  Following(r)'
<1>0. Shapes /\ Local(r)
  BY DEF Typed
<1> DEFINE out == Node(r, cur[r]).out
           h == EmittedHandle(r, cur[r])
           e == Head(edges[r])
<1>1. /\ edges[r] # <<>> /\ edges'[r] = Tail(edges[r])
      /\ queue'[r] = queue[r] /\ cur'[r] = cur[r]
      /\ visited'[r] = visited[r] /\ truth'[r] = truth[r]
      /\ e.handle = h => e.to \in visited[r]
  BY <1>0 DEF Shapes, SkipEdge, Outgoing
<1>2. Suffix(r) /\ cur[r] \in visited[r]
  BY <1>1 DEF Following, Suffix
<1>3. /\ Len(out) \in Nat /\ Len(edges[r]) \in Nat /\ DOMAIN out = 1..Len(out)
      /\ Looked(r) \in Nat /\ Looked(r)' = Looked(r) + 1
      /\ Looked(r) + 1 \in DOMAIN out /\ e = out[Looked(r) + 1]
      /\ Len(edges'[r]) = Len(edges[r]) - 1 /\ DOMAIN edges'[r] = 1..(Len(edges[r]) - 1)
      /\ \A i \in DOMAIN edges'[r] : edges'[r][i] = out[Looked(r)' + i]
  BY <1>1, <1>2, NextEdge
<1>4. \A i \in 1..(Looked(r) + 1) : out[i].handle = h => out[i].to \in visited[r]
  <2>1. \A i \in 1..Looked(r) : out[i].handle = h => out[i].to \in visited[r]
    BY <1>1, <1>2 DEF Suffix
  <2>2. \A i \in 1..(Looked(r) + 1) : i \in 1..Looked(r) \/ i = Looked(r) + 1
    BY <1>3
  <2>3. QED
    BY <1>1, <1>3, <2>1, <2>2
<1>5. Suffix(r)'
  <2>1. Len(edges[r]) - 1 <= Len(out)
    BY <1>1, <1>2, <1>3 DEF Suffix
  <2>2. h = EmittedHandle(r, cur[r])'
    BY <1>1 DEF EmittedHandle
  <2>3. QED
    BY <1>1, <1>2, <1>3, <1>4, <2>1, <2>2 DEF Suffix
<1>6. edges'[r] = <<>> => Leads(r, cur[r], visited[r])
  <2>1. edges'[r] = <<>> => Looked(r) + 1 = Len(out)
    <3>1. Looked(r) = Len(out) - Len(edges[r]) /\ (edges'[r] = <<>> => Len(edges'[r]) = 0)
      BY DEF Looked
    <3> DEFINE lo == Len(out)
               le == Len(edges[r])
               k == Looked(r)
    <3>2. /\ lo \in Nat /\ le \in Nat /\ k = lo - le
          /\ edges'[r] = <<>> => le - 1 = 0
      BY <1>3, <3>1
    <3> HIDE DEF lo, le, k
    <3>3. edges'[r] = <<>> => k + 1 = lo
      BY <3>2
    <3>4. QED
      BY <3>3 DEF k, lo
  <2>2. QED
    BY <1>3, <1>4, <2>1 DEF Leads
<1>7. \A n \in visited[r] : \/ n \in Range(queue[r])
                            \/ n = cur[r] /\ edges'[r] # <<>>
                            \/ Leads(r, n, visited[r])
  BY <1>6 DEF Following
<1>8. QED
  BY <1>1, <1>5, <1>7 DEF Following, Leads, EmittedHandle

(* The node at hand is executed; only its own truth value may be set. *)
LEMMA VisitWalks ==
  ASSUME Typed, NEW r \in Runs, AtNewNode(r), Visit(r, Head(edges[r]).to), cur' = cur,
         \A m \in Nodes(r) \ {Head(edges[r]).to} : truth'[r][m] = truth[r][m],
         Following(r), Needed(r), Once(r)
  PROVE  Following(r)' /\ Needed(r)' /\ Once(r)'
<1>0. Shapes /\ Local(r)
  BY DEF Typed
<1> DEFINE out == Node(r, cur[r]).out
           h == EmittedHandle(r, cur[r])
           e == Head(edges[r])
           n == e.to
           V == visited[r]
<1>1. /\ edges[r] # <<>> /\ edges'[r] = Tail(edges[r]) /\ cur'[r] = cur[r]
      /\ queue'[r] = Append(queue[r], n) /\ order'[r] = Append(order[r], n)
      /\ visited'[r] = V \cup {n} /\ e.handle = h /\ n \notin V /\ n \in Nodes(r)
  BY <1>0, AtNode DEF Shapes, AtNewNode, Visit, Outgoing
<1>2. Suffix(r) /\ cur[r] \in V /\ V \subseteq Nodes(r)
  BY <1>0, <1>1 DEF Following, Suffix, Local
<1>3. /\ Len(out) \in Nat /\ Len(edges[r]) \in Nat /\ DOMAIN out = 1..Len(out)
      /\ Looked(r) \in Nat /\ Looked(r)' = Looked(r) + 1
      /\ Looked(r) + 1 \in DOMAIN out /\ e = out[Looked(r) + 1]
      /\ Len(edges'[r]) = Len(edges[r]) - 1 /\ DOMAIN edges'[r] = 1..(Len(edges[r]) - 1)
      /\ \A i \in DOMAIN edges'[r] : edges'[r][i] = out[Looked(r)' + i]
  BY <1>1, <1>2, NextEdge
<1>4. \A m \in V : EmittedHandle(r, m)' = EmittedHandle(r, m)
  BY <1>1, <1>2 DEF EmittedHandle
<1>5. EmittedHandle(r, cur[r])' = h
  BY <1>1, <1>2 DEF EmittedHandle
<1>6. \A i \in 1..(Looked(r) + 1) : out[i].handle = h => out[i].to \in V \cup {n}
  <2>1. \A i \in 1..Looked(r) : out[i].handle = h => out[i].to \in V
    BY <1>1, <1>2 DEF Suffix
  <2>2. \A i \in 1..(Looked(r) + 1) : i \in 1..Looked(r) \/ i = Looked(r) + 1
    BY <1>3
  <2>3. QED
    BY <1>1, <1>3, <2>1, <2>2
<1>7. Suffix(r)'
  <2>1. Len(edges[r]) - 1 <= Len(out)
    BY <1>1, <1>2, <1>3 DEF Suffix
  <2>2. QED
    BY <1>1, <1>2, <1>3, <1>5, <1>6, <2>1 DEF Suffix
<1>8. Range(queue'[r]) = Range(queue[r]) \cup {n}
  <2>1. queue[r] \in Seq(Nodes(r))
    BY <1>0 DEF Local
  <2> DEFINE q == queue[r]
  <2> HIDE DEF q
  <2>2. Range(Append(q, n)) = Range(q) \cup {n}
    BY <1>1, <2>1, RangeAppend DEF q
  <2>3. QED
    BY <1>1, <2>2 DEF q
<1>9. Following(r)'
  <2>1. ASSUME NEW m \in V \cup {n}
        PROVE  \/ m \in Range(queue'[r])
               \/ m = cur[r] /\ edges'[r] # <<>>
               \/ Leads(r, m, V \cup {n})
    <3>1. CASE m = n
      BY <1>8, <3>1
    <3>2. CASE m = cur[r] /\ edges'[r] = <<>>
      <4>1. Looked(r) + 1 = Len(out)
        <5>1. Looked(r) = Len(out) - Len(edges[r]) /\ Len(edges'[r]) = 0
          BY <3>2 DEF Looked
        <5> DEFINE lo == Len(out)
                   le == Len(edges[r])
                   k == Looked(r)
        <5>2. lo \in Nat /\ le \in Nat /\ k = lo - le /\ le - 1 = 0
          BY <1>3, <5>1
        <5> HIDE DEF lo, le, k
        <5>3. k + 1 = lo
          BY <5>2
        <5>4. QED
          BY <5>3 DEF k, lo
      <4>2. QED
        BY <1>3, <1>6, <3>2, <4>1 DEF Leads
    <3>3. CASE m \in V /\ ~(m = cur[r])
      BY <1>8, <3>3 DEF Following, Leads
    <3>4. QED
      BY <2>1, <3>1, <3>2, <3>3
  <2>2. ASSUME NEW m \in visited'[r]
        PROVE  \/ m \in Range(queue'[r])
               \/ m = cur'[r] /\ edges'[r] # <<>>
               \/ Leads(r, m, visited[r])'
    <3>1. CASE m = n
      BY <1>8, <3>1
    <3>2. CASE m \in V
      BY <1>1, <1>4, <2>1, <3>2 DEF Leads
    <3>3. QED
      BY <1>1, <3>1, <3>2
  <2>3. Trigger(r) \in visited'[r] /\ Range(queue'[r]) \subseteq visited'[r]
    BY <1>1, <1>8 DEF Following
  <2>4. QED
    BY <1>7, <2>2, <2>3 DEF Following
<1>10. Needed(r)'
  <2>1. SUFFICES ASSUME NEW S \in SUBSET Nodes(r), Trigger(r) \in S,
                        \A m \in S \cap visited'[r] : Leads(r, m, S)'
                 PROVE  visited'[r] \subseteq S
    BY DEF Needed
  <2>2. ASSUME NEW m \in S \cap V PROVE Leads(r, m, S)
    <3>1. Leads(r, m, S)' /\ EmittedHandle(r, m)' = EmittedHandle(r, m)
      BY <1>1, <1>4, <2>1, <2>2
    <3>2. QED
      BY <3>1 DEF Leads
  <2>3. V \subseteq S
    BY <2>1, <2>2 DEF Needed
  <2>4. Leads(r, cur[r], S)
    BY <1>2, <2>2, <2>3
  <2>5. n \in S
    BY <1>1, <1>3, <2>4 DEF Leads
  <2>6. QED
    BY <1>1, <2>3, <2>5
<1>11. Once(r)'
  <2> DEFINE o == order[r]
  <2>1. o \in Seq(Nodes(r)) /\ IsInjective(o) /\ Range(o) = V \ {Trigger(r)}
    BY <1>0 DEF Local, Once
  <2>2. Trigger(r) \in V
    BY DEF Following
  <2> HIDE DEF o
  <2>3. IsInjective(Append(o, n)) /\ Range(Append(o, n)) = Range(o) \cup {n}
    BY <1>1, <2>1, InjectiveAppend, RangeAppend
  <2>4. order'[r] = Append(o, n)
    BY <1>1 DEF o
  <2>5. QED
    BY <1>1, <2>1, <2>2, <2>3, <2>4 DEF Once
<1>12. QED
  BY <1>9, <1>10, <1>11

(* What the walk's properties depend on. *)
LEMMA UnvisitedWalks ==
  ASSUME NEW r \in Runs, visited'[r] = visited[r], order'[r] = order[r], truth'[r] = truth[r],
         Needed(r), Once(r)
  PROVE  Needed(r)' /\ Once(r)'
<1>1. Needed(r)'
  BY DEF Needed, Leads, EmittedHandle
<1>2. Once(r)'
  BY DEF Once
<1>3. QED
  BY <1>1, <1>2

LEMMA UntouchedWalks ==
  ASSUME NEW r \in Runs, queue'[r] = queue[r], cur'[r] = cur[r], edges'[r] = edges[r],
         visited'[r] = visited[r], order'[r] = order[r], truth'[r] = truth[r],
         Following(r), Needed(r), Once(r)
  PROVE  Following(r)' /\ Needed(r)' /\ Once(r)'
<1>1. Suffix(r)'
  BY DEF Following, Suffix, Looked, EmittedHandle
<1>2. Following(r)'
  BY <1>1 DEF Following, Leads, EmittedHandle
<1>3. QED
  BY <1>2, UnvisitedWalks

LEMMA StepWalks ==
  ASSUME Typed, NEW r \in Runs, Step(r), \A q \in Runs : Walking(q) /\ Finished(q)
  PROVE  \A q \in Runs : Walking(q)' /\ Finished(q)'
<1>0. Shapes /\ Handled(r) /\ Local(r) /\ Others(r)
  BY StepOthers DEF Typed
<1>1. ASSUME NEW q \in Runs, q # r PROVE Walking(q)' /\ Finished(q)'
  BY <1>0, <1>1, UntouchedWalks DEF Others, Walking, Finished
<1>2. Walking(r) /\ Finished(r) /\ (pc[r] # "update" /\ pc[r] # "done" => result[r] = "none")
  BY <1>0 DEF Handled
<1>3. CASE CreateRun(r)
  <2>1. Following(r)' /\ Needed(r)' /\ Once(r)'
    BY <1>3, WalkBegins
  <2>2. result'[r] = "none"
    BY <1>2, <1>3 DEF CreateRun
  <2>3. QED
    BY <1>1, <2>1, <2>2 DEF Walking, Finished
<1>4. CASE Dequeue(r) \/ SkipEdge(r)
  <2>1. /\ pc[r] = "walk" /\ result'[r] = "none"
        /\ visited'[r] = visited[r] /\ order'[r] = order[r] /\ truth'[r] = truth[r]
    BY <1>2, <1>4 DEF Dequeue, SkipEdge
  <2>2. Following(r)'
    BY <1>2, <1>4, <2>1, DequeueFollows, SkipFollows DEF Walking
  <2>3. Needed(r)' /\ Once(r)'
    BY <1>2, <2>1, UnvisitedWalks DEF Walking
  <2>4. QED
    BY <1>1, <2>1, <2>2, <2>3 DEF Walking, Finished
<1>5. CASE RunAgent(r) \/ RunCondition(r) \/ RunEffect(r)
  <2>1. AtNewNode(r) /\ Visit(r, Head(edges[r]).to) /\ cur' = cur /\ result'[r] = "none"
    BY <1>2, <1>5 DEF RunAgent, RunCondition, RunEffect, AtNewNode
  <2>2. \A m \in Nodes(r) \ {Head(edges[r]).to} : truth'[r][m] = truth[r][m]
    BY <1>0, <1>5 DEF Shapes, Local, RunAgent, RunCondition, RunEffect
  <2>3. Following(r) /\ Needed(r) /\ Once(r)
    BY <1>2, <2>1 DEF Walking, AtNewNode
  <2>4. Following(r)' /\ Needed(r)' /\ Once(r)'
    BY <2>1, <2>2, <2>3, VisitWalks
  <2>5. QED
    BY <1>1, <2>1, <2>4 DEF Walking, Finished
<1>6. CASE ExecuteSucceeds(r)
  <2>1. /\ pc[r] = "walk" /\ queue'[r] = <<>> /\ edges'[r] = <<>>
        /\ queue'[r] = queue[r] /\ cur'[r] = cur[r] /\ edges'[r] = edges[r]
        /\ visited'[r] = visited[r] /\ order'[r] = order[r] /\ truth'[r] = truth[r]
    BY <1>6 DEF ExecuteSucceeds, exec, history
  <2>2. QED
    BY <1>1, <1>2, <2>1, UntouchedWalks DEF Walking, Finished
<1>7. CASE UpdateRunFails(r) \/ UpdateRun(r)
  <2>1. /\ pc'[r] = "done" /\ result'[r] = result[r]
        /\ queue'[r] = queue[r] /\ cur'[r] = cur[r] /\ edges'[r] = edges[r]
        /\ visited'[r] = visited[r] /\ order'[r] = order[r] /\ truth'[r] = truth[r]
    BY <1>0, <1>7 DEF Shapes, UpdateRunFails, UpdateRun, Answer, exec, history
  <2>2. QED
    BY <1>1, <1>2, <2>1, UntouchedWalks DEF Walking, Finished
<1>8. CASE \/ GetFlow(r) \/ CreateRunFails(r) \/ NodeFails(r) \/ NodePanics(r)
           \/ UndoLast(r) \/ RolledBack(r)
  <2>1. pc'[r] # "walk" /\ result'[r] # "success"
    BY <1>0, <1>2, <1>8 DEF Shapes, GetFlow, CreateRunFails, NodeFails, NodePanics, UndoLast,
       RolledBack, AtNewNode, Answer
  <2>2. QED
    BY <1>1, <2>1 DEF Walking, Finished
<1>9. QED
  BY <1>3, <1>4, <1>5, <1>6, <1>7, <1>8 DEF Step

LEMMA AsideKept ==
  ASSUME Aside, NEW r \in Runs, Bounded(r), Walking(r), Finished(r)
  PROVE  Bounded(r)' /\ Walking(r)' /\ Finished(r)'
<1>1. Bounded(r)'
  BY DEF Aside, exec, history, Bounded
<1>2. Walking(r)' /\ Finished(r)'
  BY UntouchedWalks DEF Aside, exec, history, Walking, Finished
<1>3. QED
  BY <1>1, <1>2

-----------------------------------------------------------------------------
(* Effects. *)

LEMMA NormTwice == \A v : Norm(Norm(v)) = Norm(v)
  BY DEF Norm

(* Only the keys of the flow at hand are written. *)
LEMMA StepWrites ==
  ASSUME Typed, NEW r \in Runs, Step(r), NEW k \in Keys \ KeysOf(r)
  PROVE  data'[k] = data[k]
<1>0. Shapes /\ Local(r)
  BY DEF Typed
<1>1. CASE RunEffect(r)
  <2> DEFINE n == Head(edges[r]).to
  <2>1. n \in Nodes(r) /\ Writes(r, n)
    BY <1>0, <1>1, AtNode DEF RunEffect, AtNewNode, Writes
  <2>2. Node(r, n).key \in KeysOf(r)
    BY <2>1, KeyType
  <2>3. data' = [data EXCEPT ![Node(r, n).key] = Value(r, n)]
    BY <1>1 DEF RunEffect, Apply
  <2> HIDE DEF n
  <2>4. QED
    BY <1>0, <2>2, <2>3 DEF Shapes
<1>2. CASE UndoLast(r)
  <2> DEFINE log == records[r]
             rec == log[Len(log)]
  <2>1. log \in Seq([key : KeysOf(r), prior : Values]) /\ log # <<>>
    BY <1>0, <1>2 DEF Local, UndoLast
  <2>2. rec.key \in KeysOf(r)
    <3>1. rec \in [key : KeysOf(r), prior : Values]
      <4> HIDE DEF log
      <4> QED
        BY <2>1, LogEnd
    <3>2. QED
      BY <3>1
  <2>3. data' = [data EXCEPT ![rec.key] =
                   IF rec.prior \in {Absent, Nil} THEN Absent ELSE rec.prior]
    BY <1>2 DEF UndoLast
  <2> HIDE DEF log, rec
  <2>4. QED
    BY <1>0, <2>2, <2>3 DEF Shapes
<1>3. QED
  BY <1>1, <1>2 DEF Step, GetFlow, CreateRunFails, CreateRun, Dequeue, SkipEdge, RunAgent,
     RunCondition, NodeFails, NodePanics, ExecuteSucceeds, RolledBack, UpdateRunFails, UpdateRun

(* Only CreateRun makes runs share keys. *)
LEMMA StepShares ==
  ASSUME Typed, NEW r \in Runs, Step(r)
  PROVE  \/ CreateRun(r)
         \/ alone' = alone /\ (r \in Executing' => r \in Executing)
<1>0. Shapes
  BY DEF Typed
<1>1. CASE GetFlow(r) \/ CreateRunFails(r)
  BY <1>0, <1>1 DEF Shapes, GetFlow, CreateRunFails, Answer, Executing, exec, history
<1>2. CASE Dequeue(r) \/ SkipEdge(r) \/ RunAgent(r) \/ RunCondition(r) \/ RunEffect(r)
  BY <1>2 DEF Dequeue, SkipEdge, RunAgent, RunCondition, RunEffect, AtNewNode, Executing, history
<1>3. CASE NodeFails(r) \/ NodePanics(r) \/ ExecuteSucceeds(r) \/ UndoLast(r)
  BY <1>3 DEF NodeFails, NodePanics, ExecuteSucceeds, UndoLast, AtNewNode, Executing, exec, history
<1>4. CASE RolledBack(r) \/ UpdateRunFails(r) \/ UpdateRun(r)
  BY <1>0, <1>4 DEF Shapes, RolledBack, UpdateRunFails, UpdateRun, Answer, Executing, exec, history
<1>5. QED
  BY <1>1, <1>2, <1>3, <1>4 DEF Step

LEMMA StepApart ==
  ASSUME Typed, Apart, NEW r \in Runs, Step(r)
  PROVE  Apart'
<1>0. Shapes /\ Others(r)
  BY StepOthers DEF Typed
<1>1. \A q \in Runs : q # r /\ q \in Executing' => q \in Executing
  BY <1>0 DEF Others, Executing
<1>2. CASE CreateRun(r)
  <2>1. /\ DOMAIN alone' = Runs
        /\ alone'[r] = KeysOf(r) \ UNION {KeysOf(p) : p \in Executing}
        /\ \A q \in Runs : q # r => alone'[q] = alone[q] \ KeysOf(r)
    BY <1>2 DEF CreateRun
  <2>2. ASSUME NEW q \in Runs, NEW p \in Executing', q # p
        PROVE  alone'[q] \cap KeysOf(p) = {}
    <3>1. p \in Runs
      BY DEF Executing
    <3>2. CASE q = r
      BY <1>1, <2>1, <2>2, <3>1, <3>2
    <3>3. CASE q # r /\ p = r
      BY <2>1, <3>3
    <3>4. CASE q # r /\ p # r
      BY <1>1, <2>1, <2>2, <3>1, <3>4 DEF Apart
    <3>5. QED
      BY <3>2, <3>3, <3>4
  <2>3. QED
    BY <2>1, <2>2 DEF Apart
<1>3. CASE alone' = alone /\ (r \in Executing' => r \in Executing)
  <2>1. \A q \in Executing' : q \in Executing
    BY <1>1, <1>3 DEF Executing
  <2>2. QED
    BY <1>3, <2>1 DEF Apart
<1>4. QED
  BY <1>2, <1>3, StepShares

(* A step of one run leaves what another has alone. *)
LEMMA StepSpares ==
  ASSUME Typed, Apart, NEW r \in Runs, Step(r), NEW q \in Runs \ {r}
  PROVE  alone'[q] \subseteq alone[q] /\ \A k \in alone[q] : data'[k] = data[k]
<1>1. alone'[q] \subseteq alone[q]
  BY StepShares DEF CreateRun
<1>2. CASE r \in Executing
  BY <1>1, <1>2, StepWrites, KeysOfType DEF Apart
<1>3. CASE r \notin Executing
  <2>1. data' = data
    BY <1>3 DEF Executing, Step, GetFlow, CreateRunFails, CreateRun, Dequeue, SkipEdge, RunAgent,
       RunCondition, RunEffect, NodeFails, NodePanics, ExecuteSucceeds, UndoLast, RolledBack,
       UpdateRunFails, UpdateRun, AtNewNode
  <2>2. QED
    BY <1>1, <2>1
<1>4. QED
  BY <1>2, <1>3

LEMMA LogFrame ==
  ASSUME NEW r \in Runs, records'[r] = records[r], base'[r] = base[r],
         alone'[r] \subseteq alone[r],
         \A k \in alone[r] : data'[k] = data[k], Restorable(r)
  PROVE  Restorable(r)'
  BY DEF Restorable, Logged, First

LEMMA WrittenFrame ==
  ASSUME NEW r \in Runs, order'[r] = order[r], base'[r] = base[r],
         alone'[r] \subseteq alone[r],
         \A k \in alone[r] : data'[k] = data[k], Written(r)
  PROVE  Written(r)'
<1>1. ASSUME NEW k \in alone'[r] PROVE LastWrite(r, k)'
  <2>1. LastWrite(r, k) /\ data'[k] = data[k]
    BY DEF Written
  <2>2. Writers(r, k)' = Writers(r, k)
    BY DEF Writers
  <2>3. QED
    BY <2>1, <2>2 DEF LastWrite
<1>2. QED
  BY <1>1 DEF Written

(* Executing a node adds its place to the writers of its key. *)
LEMMA WritersAppend ==
  ASSUME NEW r \in Runs, NEW n \in Nodes(r), order[r] \in Seq(Nodes(r)),
         order'[r] = Append(order[r], n), NEW k
  PROVE  /\ Len(order[r]) \in Nat
         /\ \A i \in Writers(r, k) : i \in 1..Len(order[r]) /\ order'[r][i] = order[r][i]
         /\ Writers(r, k)' = IF Writes(r, n) /\ Node(r, n).key = k
                               THEN Writers(r, k) \cup {Len(order[r]) + 1}
                               ELSE Writers(r, k)
         /\ order'[r][Len(order[r]) + 1] = n
<1> DEFINE o == order[r]
           o2 == Append(o, n)
<1>1. o \in Seq(Nodes(r)) /\ order'[r] = o2
  OBVIOUS
<1>2. /\ Len(o) \in Nat /\ DOMAIN o = 1..Len(o) /\ DOMAIN o2 = 1..(Len(o) + 1)
      /\ o2[Len(o) + 1] = n /\ \A i \in 1..Len(o) : o2[i] = o[i]
  <2> HIDE DEF o
  <2> QED
    BY <1>1, LenProperties, AppendProperties
<1>3. \A i \in 1..(Len(o) + 1) : i \in 1..Len(o) \/ i = Len(o) + 1
  BY <1>2
<1>4. Len(o) + 1 \in 1..(Len(o) + 1) /\ \A i \in 1..Len(o) : i \in 1..(Len(o) + 1)
  BY <1>2
<1>5. Len(o) + 1 \notin 1..Len(o)
  BY <1>2
<1>6. Writers(r, k) = {i \in 1..Len(o) : Writes(r, o[i]) /\ Node(r, o[i]).key = k}
  BY <1>2 DEF Writers, Writes
<1>7. Writers(r, k)' = {i \in 1..(Len(o) + 1) : Writes(r, o2[i]) /\ Node(r, o2[i]).key = k}
  BY <1>1, <1>2 DEF Writers, Writes
<1> DEFINE W == Writers(r, k)
           W2 == Writers(r, k)'
           l == Len(o)
<1>8. ASSUME NEW i PROVE i \in W2 <=> \/ i \in W
                                      \/ i = l + 1 /\ Writes(r, n) /\ Node(r, n).key = k
  BY <1>2, <1>3, <1>4, <1>5, <1>6, <1>7
<1>9. W2 = IF Writes(r, n) /\ Node(r, n).key = k THEN W \cup {l + 1} ELSE W
  <2> HIDE DEF W, W2, l
  <2> QED
    BY <1>8
<1>10. QED
  BY <1>1, <1>2, <1>6, <1>9

LEMMA PlainWritten ==
  ASSUME Typed, NEW r \in Runs, NEW n \in Nodes(r), ~Writes(r, n),
         order'[r] = Append(order[r], n), base'[r] = base[r], alone'[r] = alone[r],
         \A k \in alone[r] : data'[k] = data[k], Written(r)
  PROVE  Written(r)'
<1>1. order[r] \in Seq(Nodes(r))
  BY DEF Typed, Local
<1>2. ASSUME NEW k \in alone[r] PROVE LastWrite(r, k)'
  <2>1. LastWrite(r, k) /\ data'[k] = data[k]
    BY DEF Written
  <2>2. /\ Writers(r, k)' = Writers(r, k)
        /\ \A i \in Writers(r, k) : order'[r][i] = order[r][i]
    BY <1>1, WritersAppend
  <2>3. QED
    BY <2>1, <2>2 DEF LastWrite
<1>3. QED
  BY <1>2 DEF Written

LEMMA EffectWritten ==
  ASSUME Typed, Apart, NEW r \in Runs, RunEffect(r), Written(r)
  PROVE  Written(r)'
<1> DEFINE n == Head(edges[r]).to
<1>0. Shapes /\ Local(r) /\ order[r] \in Seq(Nodes(r))
  BY DEF Typed, Local
<1>1. /\ n \in Nodes(r) /\ Writes(r, n) /\ order'[r] = Append(order[r], n)
      /\ base'[r] = base[r] /\ alone'[r] = alone[r]
      /\ data' = [data EXCEPT ![Node(r, n).key] = Value(r, n)]
  BY <1>0, AtNode DEF Shapes, RunEffect, AtNewNode, Writes, Apply, history, Visit
<1> HIDE DEF n
<1>2. ASSUME NEW k \in alone[r] PROVE LastWrite(r, k)'
  <2>1. LastWrite(r, k) /\ k \in Keys
    BY KeysOfType DEF Written, Apart
  <2>2. CASE Node(r, n).key = k
    <3> DEFINE l == Len(order[r])
    <3>1. /\ l \in Nat /\ Writers(r, k)' = Writers(r, k) \cup {l + 1}
          /\ \A i \in Writers(r, k) : i \in 1..l
          /\ order'[r][l + 1] = n
      BY <1>0, <1>1, <2>2, WritersAppend
    <3>2. data'[k] = Value(r, n)
      BY <1>0, <1>1, <2>1, <2>2 DEF Shapes
    <3> HIDE DEF l
    <3>3. \A i \in Writers(r, k)' : i <= l + 1
      BY <3>1
    <3>4. l + 1 \in Writers(r, k)' /\ data'[k] = Value(r, order'[r][l + 1])
      BY <3>1, <3>2
    <3>5. QED
      BY <3>3, <3>4 DEF LastWrite, Value
  <2>3. CASE Node(r, n).key # k
    <3>1. /\ Writers(r, k)' = Writers(r, k)
          /\ \A i \in Writers(r, k) : order'[r][i] = order[r][i]
      BY <1>0, <1>1, <2>3, WritersAppend
    <3>2. data'[k] = data[k]
      BY <1>0, <1>1, <2>1, <2>3 DEF Shapes
    <3>3. QED
      BY <1>1, <2>1, <3>1, <3>2 DEF LastWrite
  <2>4. QED
    BY <2>2, <2>3
<1>3. QED
  BY <1>1, <1>2 DEF Written

(* The first record of a key is made while the key is as it was. *)
LEMMA EffectLogged ==
  ASSUME Typed, Apart, NEW r \in Runs, RunEffect(r), Restorable(r)
  PROVE  Restorable(r)'
<1> DEFINE n == Head(edges[r]).to
           c == Node(r, n).key
           rec == [key |-> c, prior |-> data[c]]
           log == records[r]
           l == Len(log)
           log2 == Append(log, rec)
<1>0. Shapes /\ Local(r) /\ log \in Seq([key : KeysOf(r), prior : Values])
  BY DEF Typed, Local
<1>1. /\ n \in Nodes(r) /\ Writes(r, n) /\ records'[r] = log2
      /\ base'[r] = base[r] /\ alone'[r] = alone[r]
      /\ data' = [data EXCEPT ![c] = Value(r, n)]
  BY <1>0, AtNode DEF Shapes, RunEffect, AtNewNode, Writes, Apply, history
<1>2. c \in KeysOf(r) /\ c \in Keys
  BY <1>1, KeyType
<1>3. rec \in [key : KeysOf(r), prior : Values] /\ rec.key = c /\ rec.prior = data[c]
  BY <1>2 DEF Typed
<1> HIDE DEF rec, c, n
<1>4. /\ l \in Nat /\ DOMAIN log = 1..l /\ DOMAIN log2 = 1..(l + 1)
      /\ log2[l + 1] = rec /\ \A i \in 1..l : log2[i] = log[i]
  <2> HIDE DEF log
  <2> QED
    BY <1>0, <1>3, LenProperties, AppendProperties
<1>5. ASSUME NEW k \in alone[r] PROVE Logged(r, k)' \/ Norm(data'[k]) = Norm(base'[r][k])
  <2>1. CASE k = c
    <3>1. l + 1 \in DOMAIN records'[r] /\ records'[r][l + 1].key = k
      BY <1>1, <1>3, <1>4, <2>1
    <3>2. QED
      BY <3>1 DEF Logged
  <2>2. CASE k # c
    <3>1. data'[k] = data[k]
      BY <1>0, <1>1, <2>2, KeysOfType DEF Shapes, Apart
    <3>2. Logged(r, k) => Logged(r, k)'
      <4>1. ASSUME NEW i \in 1..l PROVE i \in 1..(l + 1)
        <5> HIDE DEF l
        <5> QED
          BY <1>4
      <4>2. QED
        BY <1>1, <1>4, <4>1 DEF Logged
    <3>3. QED
      BY <1>1, <3>1, <3>2 DEF Restorable
  <2>3. QED
    BY <2>1, <2>2
<1>6. ASSUME NEW i \in DOMAIN log2, log2[i].key \in alone[r],
             \A j \in 1..(i - 1) : log2[j].key # log2[i].key
      PROVE  Norm(log2[i].prior) = Norm(base[r][log2[i].key])
  <2>1. i \in 1..l \/ i = l + 1
    <3>1. i \in 1..(l + 1)
      BY <1>4
    <3> HIDE DEF l
    <3>2. QED
      BY <1>4, <3>1
  <2>2. CASE i \in 1..l
    <3>1. \A j \in 1..(i - 1) : j \in 1..l
      <4> HIDE DEF l
      <4> QED
        BY <1>4, <2>2
    <3>2. First(r, i) /\ log2[i] = log[i] /\ i \in DOMAIN log
      BY <1>4, <1>6, <2>2, <3>1 DEF First
    <3>3. QED
      BY <1>6, <3>2 DEF Restorable
  <2>3. CASE i = l + 1
    <3>1. (l + 1) - 1 = l
      <4> HIDE DEF l
      <4> QED
        BY <1>4
    <3>2. \A j \in 1..l : log[j].key # c
      BY <1>3, <1>4, <1>6, <2>3, <3>1
    <3>3. ~Logged(r, c)
      BY <1>4, <3>2 DEF Logged
    <3>4. QED
      BY <1>2, <1>3, <1>4, <1>6, <2>3, <3>3 DEF Restorable
  <2>4. QED
    BY <2>1, <2>2, <2>3
<1>7. QED
  BY <1>1, <1>5, <1>6 DEF Restorable, First

(* Undoing the last record of a key that has no other restores it. *)
LEMMA UndoRestores ==
  ASSUME Typed, Apart, NEW r \in Runs, UndoLast(r), Restorable(r)
  PROVE  Restorable(r)'
<1> DEFINE log == records[r]
           l == Len(log)
           rec == log[l]
           log2 == SubSeq(log, 1, l - 1)
<1>0. /\ Shapes /\ Local(r) /\ log \in Seq([key : KeysOf(r), prior : Values]) /\ log # <<>>
  BY DEF Typed, Local, UndoLast
<1>1. /\ records'[r] = log2 /\ base'[r] = base[r] /\ alone'[r] = alone[r]
      /\ data' = [data EXCEPT ![rec.key] =
                    IF rec.prior \in {Absent, Nil} THEN Absent ELSE rec.prior]
  BY <1>0 DEF Shapes, UndoLast, history
<1>2. /\ l \in Nat \ {0} /\ DOMAIN log = 1..l /\ DOMAIN log2 = 1..(l - 1)
      /\ rec \in [key : KeysOf(r), prior : Values]
      /\ \A i \in 1..(l - 1) : log2[i] = log[i]
  <2> HIDE DEF log
  <2> QED
    BY <1>0, LogEnd, LenProperties
<1>3. rec.key \in KeysOf(r) /\ rec.key \in Keys
  BY <1>2, KeysOfType
<1>4. /\ l \in 1..l /\ \A i \in 1..l : i = l \/ i \in 1..(l - 1)
      /\ \A i \in 1..(l - 1) : i \in 1..l /\ \A j \in 1..(i - 1) : j \in 1..(l - 1)
  <2> HIDE DEF l
  <2> QED
    BY <1>2
<1>5. ASSUME NEW k \in alone[r] PROVE Logged(r, k)' \/ Norm(data'[k]) = Norm(base'[r][k])
  <2>1. CASE k = rec.key
    <3>1. data'[k] = IF rec.prior \in {Absent, Nil} THEN Absent ELSE rec.prior
      BY <1>0, <1>1, <1>3, <2>1 DEF Shapes
    <3>2. Norm(data'[k]) = Norm(rec.prior)
      <4> HIDE DEF rec
      <4> QED
        BY <3>1 DEF Norm
    <3>3. ASSUME ~Logged(r, k)' PROVE First(r, l)
      <4>1. \A i \in 1..(l - 1) : log[i].key # k
        BY <1>1, <1>2, <3>3 DEF Logged
      <4>2. QED
        BY <2>1, <4>1 DEF First
    <3>4. First(r, l) => Norm(rec.prior) = Norm(base[r][rec.key])
      BY <1>2, <1>4, <1>5, <2>1 DEF Restorable
    <3>5. QED
      BY <1>1, <2>1, <3>2, <3>3, <3>4
  <2>2. CASE k # rec.key
    <3>1. data'[k] = data[k]
      BY <1>0, <1>1, <2>2, KeysOfType DEF Shapes, Apart
    <3>2. ASSUME Logged(r, k) PROVE Logged(r, k)'
      <4>1. PICK i \in 1..l : log[i].key = k
        BY <1>2, <3>2 DEF Logged
      <4>2. i \in 1..(l - 1)
        BY <1>4, <2>2, <4>1
      <4>3. QED
        BY <1>1, <1>2, <4>1, <4>2 DEF Logged
    <3>3. QED
      BY <1>1, <3>1, <3>2 DEF Restorable
  <2>3. QED
    BY <2>1, <2>2
<1>6. ASSUME NEW i \in DOMAIN log2, log2[i].key \in alone[r],
             \A j \in 1..(i - 1) : log2[j].key # log2[i].key
      PROVE  Norm(log2[i].prior) = Norm(base[r][log2[i].key])
  <2>1. First(r, i) /\ log2[i] = log[i] /\ i \in DOMAIN log
    BY <1>2, <1>4, <1>6 DEF First
  <2>2. QED
    BY <1>6, <2>1 DEF Restorable
<1>7. QED
  BY <1>1, <1>5, <1>6 DEF Restorable, First

LEMMA StepEffects ==
  ASSUME Typed, NEW r \in Runs, Step(r), Apart,
         \A q \in Runs : LogKept(q) /\ EffectsKept(q)
  PROVE  \A q \in Runs : LogKept(q)' /\ EffectsKept(q)'
<1>0. Shapes /\ Handled(r) /\ Local(r) /\ Others(r)
  BY StepOthers DEF Typed
<1>1. ASSUME NEW q \in Runs, q # r PROVE LogKept(q)' /\ EffectsKept(q)'
  <2>1. /\ pc'[q] = pc[q] /\ result'[q] = result[q] /\ records'[q] = records[q]
        /\ order'[q] = order[q] /\ base'[q] = base[q]
    BY <1>0, <1>1 DEF Others
  <2>2. alone'[q] \subseteq alone[q] /\ \A k \in alone[q] : data'[k] = data[k]
    BY <1>1, StepSpares
  <2>3. QED
    BY <2>1, <2>2, LogFrame, WrittenFrame DEF LogKept, EffectsKept
<1>2. LogKept(r) /\ EffectsKept(r) /\ (pc[r] # "update" /\ pc[r] # "done" => result[r] = "none")
  BY <1>0 DEF Handled
<1>3. CASE CreateRun(r)
  <2>1. /\ pc'[r] = "walk" /\ result'[r] = "none" /\ records'[r] = <<>> /\ order'[r] = <<>>
        /\ base'[r] = data /\ data' = data
    BY <1>0, <1>2, <1>3 DEF Shapes, Handled, CreateRun
  <2>2. Restorable(r)'
    BY <2>1 DEF Restorable
  <2>3. Written(r)'
    BY <2>1 DEF Written, LastWrite, Writers
  <2>4. QED
    BY <1>1, <2>2, <2>3 DEF LogKept, EffectsKept
<1>4. CASE RunAgent(r) \/ RunCondition(r)
  <2> DEFINE n == Head(edges[r]).to
  <2>1. /\ pc'[r] = "walk" /\ pc[r] = "walk" /\ records'[r] = records[r] /\ base'[r] = base[r]
        /\ alone'[r] = alone[r]
        /\ data' = data /\ n \in Nodes(r) /\ ~Writes(r, n) /\ order'[r] = Append(order[r], n)
    BY <1>0, <1>4, AtNode DEF Shapes, RunAgent, RunCondition, AtNewNode, Visit, Writes, history
  <2> HIDE DEF n
  <2>2. Restorable(r)'
    BY <1>2, <2>1, LogFrame DEF LogKept
  <2>3. Written(r)'
    BY <1>2, <2>1, PlainWritten DEF EffectsKept
  <2>4. QED
    BY <1>1, <2>2, <2>3 DEF LogKept, EffectsKept
<1>5. CASE RunEffect(r)
  <2>1. pc[r] = "walk"
    BY <1>5 DEF RunEffect, AtNewNode
  <2>2. Restorable(r)' /\ Written(r)'
    BY <1>2, <1>5, <2>1, EffectLogged, EffectWritten DEF LogKept, EffectsKept
  <2>3. QED
    BY <1>1, <2>2 DEF LogKept, EffectsKept
<1>6. CASE UndoLast(r)
  <2>1. pc[r] = "rollback" /\ pc'[r] = "rollback" /\ result'[r] = "none"
    BY <1>2, <1>6 DEF UndoLast
  <2>2. Restorable(r)'
    BY <1>2, <1>6, <2>1, UndoRestores DEF LogKept
  <2>3. QED
    BY <1>1, <2>1, <2>2 DEF LogKept, EffectsKept
<1>7. CASE \/ Dequeue(r) \/ SkipEdge(r) \/ ExecuteSucceeds(r) \/ NodeFails(r)
           \/ RolledBack(r) \/ UpdateRunFails(r) \/ UpdateRun(r)
  <2>1. /\ records'[r] = records[r] /\ order'[r] = order[r] /\ base'[r] = base[r] /\ data' = data
        /\ alone'[r] = alone[r]
        /\ pc'[r] \in {"walk", "rollback"} \/ result'[r] = "rolled_back" =>
             pc[r] \in {"walk", "rollback"} \/ result[r] = "rolled_back"
        /\ pc'[r] = "walk" \/ result'[r] = "success" => pc[r] = "walk" \/ result[r] = "success"
    BY <1>0, <1>2, <1>7 DEF Shapes, Dequeue, SkipEdge, ExecuteSucceeds, NodeFails, AtNewNode,
       RolledBack, UpdateRunFails, UpdateRun, Answer, exec, history
  <2>2. QED
    BY <1>1, <1>2, <2>1, LogFrame, WrittenFrame DEF LogKept, EffectsKept
<1>8. CASE GetFlow(r) \/ CreateRunFails(r) \/ NodePanics(r)
  <2>1. pc'[r] \in {"create", "done"} /\ result'[r] = "none"
    BY <1>0, <1>2, <1>8 DEF Shapes, GetFlow, CreateRunFails, NodePanics, AtNewNode, Answer
  <2>2. QED
    BY <1>1, <2>1 DEF LogKept, EffectsKept
<1>9. QED
  BY <1>3, <1>4, <1>5, <1>6, <1>7, <1>8 DEF Step

-----------------------------------------------------------------------------
(* The invariant. *)

LEMMA InitInv == Init => FlowInv
<1>1. SUFFICES ASSUME Init PROVE FlowInv
  OBVIOUS
<1>2. Shapes
  <2> DEFINE Row == [exists : BOOLEAN, enabled : BOOLEAN, permits : BOOLEAN]
             row == [exists |-> TRUE, enabled |-> TRUE, permits |-> TRUE]
  <2>1. row \in Row
    OBVIOUS
  <2>2. flows = [f \in Flows |-> row]
    BY <1>1 DEF Init
  <2> HIDE DEF Row, row
  <2>3. flows \in [Flows -> Row]
    BY <2>1, <2>2
  <2>4. ctxErr = [r \in Runs |-> FALSE]
    BY <1>1 DEF Init
  <2>5. ctxErr \in [Runs -> BOOLEAN]
    BY <2>4
  <2>6. DOMAIN data = Keys
    BY <1>1 DEF Init, Keys
  <2>7. QED
    BY <1>1, <2>3, <2>5, <2>6 DEF Init, Shapes, Row
<1>3. data \in [Keys -> Values]
  <2>1. data = Initially /\ \A k \in Keys : Initially[k] \in Values
    BY <1>1 DEF Init, Values
  <2>2. QED
    BY <2>1, ValuesAssumption
<1>4. ASSUME NEW r \in Runs PROVE Handled(r) /\ Local(r) /\ Bounded(r) /\ Walking(r) /\ Finished(r)
  <2>1. /\ rows[r] = "none" /\ data = Initially /\ pc[r] = "get" /\ ~snap[r].permits
        /\ queue[r] = <<>> /\ cur[r] = Trigger(r) /\ edges[r] = <<>> /\ visited[r] = {}
        /\ order[r] = <<>> /\ result[r] = "none" /\ reply[r] = 0 /\ base[r] = Initially
        /\ \A q \in Runs : records[q] = <<>>
    BY <1>1 DEF Init
  <2>2. truth[r] \in [Nodes(r) -> BOOLEAN]
    BY <1>1 DEF Init, Nodes
  <2>3. Handled(r)
    BY <2>1 DEF Handled, Ended
  <2>4. Local(r)
    <3>1. DOMAIN base[r] = Keys
      BY <2>1 DEF Keys
    <3>2. cur[r] \in Nodes(r)
      BY <2>1, TriggerType
    <3>3. visited[r] \subseteq Nodes(r) /\ <<>> \in Seq(Nodes(r)) /\ <<>> \in Seq(Edges(r))
          /\ <<>> \in Seq([key : KeysOf(r), prior : Values])
      BY <2>1
    <3>4. QED
      BY <2>1, <2>2, <3>1, <3>2, <3>3 DEF Local
  <2>5. Bounded(r)
    BY <2>1, NothingFoul DEF Bounded
  <2>6. QED
    BY <2>1, <2>3, <2>4, <2>5 DEF Walking, Finished
<1>5. ASSUME NEW r \in Runs PROVE LogKept(r) /\ EffectsKept(r)
  BY <1>1 DEF Init, LogKept, EffectsKept
<1>6. Apart
  BY <1>1 DEF Init, Apart, Executing
<1>7. QED
  BY <1>2, <1>3, <1>4, <1>5, <1>6 DEF FlowInv, Typed

LEMMA NextInv == FlowInv /\ [Next]_vars => FlowInv'
<1>1. SUFFICES ASSUME FlowInv, [Next]_vars PROVE FlowInv'
  OBVIOUS
<1>2. ASSUME NEW r \in Runs, Step(r) PROVE FlowInv'
  <2>1. Typed' /\ \A q \in Runs : Bounded(q)' /\ Walking(q)' /\ Finished(q)'
    BY <1>1, <1>2, StepTyped, StepBounded, StepWalks DEF FlowInv
  <2>2. Apart' /\ \A q \in Runs : LogKept(q)' /\ EffectsKept(q)'
    BY <1>1, <1>2, StepApart, StepEffects DEF FlowInv
  <2>3. QED
    BY <2>1, <2>2 DEF FlowInv
<1>3. CASE \/ \E r \in Runs : Cancel(r)
           \/ \E f \in Editable : UpdateFlow(f) \/ DeleteFlow(f)
           \/ UNCHANGED vars
  <2>1. Typed' /\ Aside
    BY <1>1, <1>3, AsideTyped DEF FlowInv
  <2>2. ASSUME NEW r \in Runs PROVE Bounded(r)' /\ Walking(r)' /\ Finished(r)'
    BY <1>1, <2>1, AsideKept DEF FlowInv
  <2>3. ASSUME NEW r \in Runs PROVE LogKept(r)' /\ EffectsKept(r)'
    <3>1. /\ records'[r] = records[r] /\ order'[r] = order[r] /\ base'[r] = base[r]
          /\ data' = data /\ pc'[r] = pc[r] /\ result'[r] = result[r] /\ alone'[r] = alone[r]
          /\ LogKept(r) /\ EffectsKept(r)
      BY <1>1, <2>1, <2>3 DEF FlowInv, Aside, exec, history
    <3>2. QED
      BY <3>1, LogFrame, WrittenFrame DEF LogKept, EffectsKept
  <2>4. Apart'
    BY <1>1, <2>1 DEF FlowInv, Apart, Executing, Aside, exec, history
  <2>5. QED
    BY <2>1, <2>2, <2>3, <2>4 DEF FlowInv
<1>4. QED
  BY <1>1, <1>2, <1>3 DEF Next, AllAnswered

LEMMA AlwaysInv == Spec => []FlowInv
  BY InitInv, NextInv, PTL DEF Spec

-----------------------------------------------------------------------------
(* runFlow: an answer of 200 is a promise about the stored run, kept against
   every update and delete of flows, every database failure and every other
   run; and no run is stored as ended other than as Execute ended. *)
THEOREM AnswersAreRecorded == Spec => []AnswerRecorded
<1>1. FlowInv => AnswerRecorded
  BY DEF FlowInv, Typed, Handled, Ended, AnswerRecorded
<1>2. QED
  BY <1>1, AlwaysInv, PTL

(* checkOutputPermission: the side-effect store never holds the value of a
   bounded output of a run whose flow, as loaded, did not permit it. *)
THEOREM PermissionsHold == Spec => []PermissionBoundary
<1>1. FlowInv => PermissionBoundary
  BY DEF FlowInv, Bounded, Foul, Nodes, PermissionBoundary
<1>2. QED
  BY <1>1, AlwaysInv, PTL

(* Engine.Execute: whatever the graph and whatever its conditions evaluate
   to, a successful run executed the nodes it had to, no other, each once. *)
THEOREM RunsExecuteExactly == Spec => []ExecutesExactly
<1>1. ASSUME FlowInv, NEW r \in Runs, result[r] = "success"
      PROVE  /\ visited[r] = Required(r)
             /\ IsInjective(order[r])
             /\ Range(order[r]) = visited[r] \ {Trigger(r)}
  <2>1. Following(r) /\ Needed(r) /\ Once(r) /\ queue[r] = <<>> /\ edges[r] = <<>>
    BY <1>1 DEF FlowInv, Walking, Finished
  <2>2. visited[r] \subseteq Nodes(r)
    BY <1>1 DEF FlowInv, Typed, Local
  <2>3. Range(queue[r]) = {}
    BY <2>1 DEF Range
  <2>4. Trigger(r) \in visited[r] /\ Closed(r, visited[r])
    BY <2>1, <2>3 DEF Following, Leads, Closed
  <2>5. Required(r) \subseteq visited[r]
    BY <2>2, <2>4 DEF Required, Nodes
  <2>6. ASSUME NEW S \in SUBSET Nodes(r), Trigger(r) \in S, Closed(r, S)
        PROVE  visited[r] \subseteq S
    <3>1. \A n \in S \cap visited[r] : Leads(r, n, S)
      BY <2>6 DEF Closed, Leads
    <3>2. QED
      BY <2>1, <2>6, <3>1 DEF Needed
  <2>7. visited[r] \subseteq Required(r)
    BY <2>2, <2>6 DEF Required, Nodes
  <2>8. QED
    BY <2>1, <2>5, <2>7 DEF Once
<1>2. FlowInv => ExecutesExactly
  BY <1>1 DEF ExecutesExactly
<1>3. QED
  BY <1>2, AlwaysInv, PTL

(* rollbackLog: on a key that no other run could write since it began, a run
   that is rolled back leaves what Execute found and one that succeeds leaves
   the value of the last node that wrote it, whatever it shares with others. *)
THEOREM EffectsAreAtomic == Spec => []EffectsAtomic
<1>1. ASSUME FlowInv, NEW r \in Runs, NEW k \in alone[r]
      PROVE  /\ result[r] = "rolled_back" => Norm(data[k]) = Norm(base[r][k])
             /\ result[r] = "success" => LastWrite(r, k)
  <2>1. LogKept(r) /\ EffectsKept(r) /\ (result[r] = "rolled_back" => records[r] = <<>>)
    BY <1>1 DEF FlowInv, Typed, Handled
  <2>2. result[r] = "rolled_back" => ~Logged(r, k)
    BY <2>1 DEF Logged
  <2>3. QED
    BY <2>1, <2>2 DEF LogKept, EffectsKept, Restorable, Written
<1>2. FlowInv => EffectsAtomic
  BY <1>1 DEF EffectsAtomic, LastWrite
<1>3. QED
  BY <1>2, AlwaysInv, PTL

-----------------------------------------------------------------------------
(* The refinement.  Each key has at most one run that has it alone. *)

LEMMA CommittedKey ==
  ASSUME Apart, NEW k \in Keys
  PROVE  /\ \A r \in Executing : k \in alone[r] => Committed(k) = Norm(base[r][k])
         /\ (\A r \in Executing : k \notin alone[r]) => Committed(k) = Norm(data[k])
<1> DEFINE users == {r \in Executing : k \in alone[r]}
<1>1. Committed(k) = IF users = {} THEN Norm(data[k])
                     ELSE Norm(base[CHOOSE r \in users : TRUE][k])
  BY DEF Committed
<1>2. ASSUME NEW r \in Executing, k \in alone[r], NEW q \in users PROVE q = r
  BY <1>2 DEF Apart, Executing
<1>3. ASSUME NEW r \in Executing, k \in alone[r] PROVE (CHOOSE q \in users : TRUE) = r
  <2>1. r \in users /\ \A q \in users : q = r
    BY <1>2, <1>3
  <2> HIDE DEF users
  <2>2. (CHOOSE q \in users : TRUE) \in users
    BY <2>1
  <2>3. QED
    BY <2>1, <2>2
<1>4. ASSUME NEW r \in Executing, k \in alone[r] PROVE Committed(k) = Norm(base[r][k])
  <2>1. users # {}
    BY <1>4
  <2>2. QED
    BY <1>1, <1>3, <1>4, <2>1
<1>5. ASSUME \A r \in Executing : k \notin alone[r] PROVE Committed(k) = Norm(data[k])
  <2>1. users = {}
    BY <1>5
  <2>2. QED
    BY <1>1, <2>1
<1>6. QED
  BY <1>4, <1>5

LEMMA CommittedKeyNext ==
  ASSUME Apart', NEW k \in Keys
  PROVE  /\ \A r \in Executing' : k \in alone'[r] => Committed(k)' = Norm(base'[r][k])
         /\ (\A r \in Executing' : k \notin alone'[r]) => Committed(k)' = Norm(data'[k])
<1> DEFINE users == {r \in Executing' : k \in alone'[r]}
<1>1. Committed(k)' = IF users = {} THEN Norm(data'[k])
                     ELSE Norm(base'[CHOOSE r \in users : TRUE][k])
  BY DEF Committed
<1>2. ASSUME NEW r \in Executing', k \in alone'[r], NEW q \in users PROVE q = r
  BY <1>2 DEF Apart, Executing
<1>3. ASSUME NEW r \in Executing', k \in alone'[r] PROVE (CHOOSE q \in users : TRUE) = r
  <2>1. r \in users /\ \A q \in users : q = r
    BY <1>2, <1>3
  <2> HIDE DEF users
  <2>2. (CHOOSE q \in users : TRUE) \in users
    BY <2>1
  <2>3. QED
    BY <2>1, <2>2
<1>4. ASSUME NEW r \in Executing', k \in alone'[r] PROVE Committed(k)' = Norm(base'[r][k])
  <2>1. users # {}
    BY <1>4
  <2>2. QED
    BY <1>1, <1>3, <1>4, <2>1
<1>5. ASSUME \A r \in Executing' : k \notin alone'[r] PROVE Committed(k)' = Norm(data'[k])
  <2>1. users = {}
    BY <1>5
  <2>2. QED
    BY <1>1, <2>1
<1>6. QED
  BY <1>4, <1>5

(* Keys whose run, and what it found, stay the same show no difference. *)
LEMMA SameKey ==
  ASSUME Apart, Apart', NEW k \in Keys,
         \A q \in Runs : (q \in Executing' /\ k \in alone'[q]) <=> (q \in Executing /\ k \in alone[q]),
         \A q \in Executing : k \in alone[q] => base'[q] = base[q],
         (\A q \in Executing : k \notin alone[q]) => data'[k] = data[k]
  PROVE  Committed(k)' = Committed(k)
<1>0. \A q \in Executing \cup Executing' : q \in Runs
  BY DEF Executing
<1>1. CASE \E q \in Executing : k \in alone[q]
  <2>1. PICK q \in Executing : k \in alone[q]
    BY <1>1
  <2>2. q \in Executing' /\ k \in alone'[q] /\ base'[q] = base[q]
    BY <1>0, <2>1
  <2>3. Committed(k) = Norm(base[q][k])
    BY <2>1, CommittedKey
  <2>4. Committed(k)' = Norm(base'[q][k])
    BY <2>2, CommittedKeyNext
  <2>5. QED
    BY <2>2, <2>3, <2>4
<1>2. CASE \A q \in Executing : k \notin alone[q]
  <2>1. \A q \in Executing' : k \notin alone'[q]
    BY <1>0, <1>2
  <2>2. Committed(k) = Norm(data[k]) /\ Committed(k)' = Norm(data'[k]) /\ data'[k] = data[k]
    BY <1>2, <2>1, CommittedKey, CommittedKeyNext
  <2>3. QED
    BY <2>2
<1>3. QED
  BY <1>1, <1>2

LEMMA ExecutingNext ==
  ASSUME NEW r \in Runs, Others(r)
  PROVE  \A q \in Runs : q # r => /\ q \in Executing' <=> q \in Executing
                                  /\ Phase(q)' = Phase(q)
                                  /\ base'[q] = base[q]
  BY DEF Others, Executing, Phase

(* The phases of the run at hand. *)
LEMMA PhaseOf ==
  ASSUME Typed, NEW r \in Runs
  PROVE  /\ Phase(r) = "active" <=> r \in Executing
         /\ pc[r] \in {"get", "create"} => Phase(r) = "idle" /\ visited[r] = {}
<1>1. Handled(r)
  BY DEF Typed
<1>2. QED
  BY <1>1 DEF Handled, Phase, Executing

(* A run ends, and leaves the store as it is: what shows is what it alone had. *)
LEMMA KeysShow ==
  ASSUME Apart, Apart', NEW r \in Executing, Others(r), data' = data, base' = base,
         alone' = alone, r \notin Executing', NEW k \in Keys, k \notin alone[r]
  PROVE  Committed(k)' = Committed(k)
<1>1. r \in Runs
  BY DEF Executing
<1>2. QED
  BY <1>1, ExecutingNext, SameKey

LEMMA CreateBegins ==
  ASSUME Typed, Typed', Apart, Apart', NEW r \in Runs, CreateRun(r), Others(r)
  PROVE  Transactions!Begin(r)
<1>0. Shapes /\ Shapes'
  BY DEF Typed
<1>1. /\ pc[r] = "create" /\ pc'[r] = "walk" /\ data' = data /\ base'[r] = data
  BY <1>0 DEF Shapes, CreateRun
<1>2. /\ alone' = [q \in Runs |-> IF q = r THEN KeysOf(r) \ UNION {KeysOf(p) : p \in Executing}
                                            ELSE alone[q] \ KeysOf(r)]
  BY DEF CreateRun
<1>3. Phase(r) = "idle" /\ Phase(r)' = "active" /\ r \notin Executing /\ r \in Executing'
  <2>1. r \in Executing' /\ result'[r] = result[r] /\ Handled(r)
    BY <1>1 DEF Executing, CreateRun, Typed
  <2>2. result[r] = "none"
    BY <1>1, <2>1 DEF Handled
  <2>3. QED
    BY <1>1, <2>1, <2>2, PhaseOf DEF Executing, Phase
<1>4. [q \in Runs |-> Phase(q)'] = [[q \in Runs |-> Phase(q)] EXCEPT ![r] = "active"]
  BY <1>3, ExecutingNext
<1>5. {q \in Runs : [p \in Runs |-> Phase(p)][q] = "active"} = Executing
  <2>1. \A q \in Runs : Phase(q) = "active" <=> q \in Executing
    BY PhaseOf
  <2>2. QED
    BY <2>1 DEF Executing
<1>6. {[q \in Runs |-> KeysOf(q)][p] : p \in Executing} = {KeysOf(p) : p \in Executing}
  BY DEF Executing
<1>7. {alone[q] \cap [p \in Runs |-> KeysOf(p)][r] : q \in Executing}
        = {alone[q] \cap KeysOf(r) : q \in Executing}
  OBVIOUS
<1>8. ASSUME NEW k \in Keys \ UNION {alone[q] \cap KeysOf(r) : q \in Executing}
      PROVE  Committed(k)' = Committed(k)
  <2>1. CASE \E q \in Executing : k \in alone[q]
    <3>1. PICK q \in Executing : k \in alone[q]
      BY <2>1
    <3>2. q \in Runs /\ q # r /\ k \notin KeysOf(r)
      BY <1>3, <1>8, <3>1 DEF Executing
    <3>3. q \in Executing' /\ k \in alone'[q] /\ base'[q] = base[q]
      BY <1>2, <3>1, <3>2, ExecutingNext
    <3>4. Committed(k) = Norm(base[q][k])
      BY <3>1, CommittedKey
    <3>5. Committed(k)' = Norm(base'[q][k])
      BY <3>3, CommittedKeyNext
    <3>6. QED
      BY <3>3, <3>4, <3>5
  <2>2. CASE \A q \in Executing : k \notin alone[q]
    <3>1. Committed(k) = Norm(data[k])
      BY <2>2, CommittedKey
    <3>2. CASE k \in alone'[r]
      <4>1. Committed(k)' = Norm(base'[r][k])
        BY <1>3, <3>2, CommittedKeyNext
      <4>2. QED
        BY <1>1, <3>1, <4>1
    <3>3. CASE k \notin alone'[r]
      <4>1. ASSUME NEW q \in Executing' PROVE k \notin alone'[q]
        <5>1. q \in Runs
          BY DEF Executing
        <5>2. QED
          BY <1>2, <2>2, <3>3, <5>1, ExecutingNext
      <4>2. Committed(k)' = Norm(data'[k])
        BY <4>1, CommittedKeyNext
      <4>3. QED
        BY <1>1, <3>1, <4>2
    <3>4. QED
      BY <3>2, <3>3
  <2>3. QED
    BY <2>1, <2>2
<1>9. QED
  BY <1>2, <1>3, <1>4, <1>5, <1>6, <1>7, <1>8
     DEF Transactions!Begin, Transactions!Active, Transactions!Shows

(* A step that shows nothing. *)
Still ==
  /\ alone' = alone
  /\ \A k \in Keys : Committed(k)' = Committed(k)
  /\ \A q \in Runs : Phase(q)' = Phase(q)

LEMMA StillStutters ==
  ASSUME Still
  PROVE  UNCHANGED <<[k \in Keys |-> Committed(k)], [q \in Runs |-> Phase(q)], alone>>
  BY DEF Still

LEMMA QuietStill ==
  ASSUME Apart, Apart', NEW r \in Runs, Others(r), data' = data, base' = base, alone' = alone,
         r \in Executing' <=> r \in Executing, Phase(r)' = Phase(r)
  PROVE  Still
<1>1. \A q \in Runs : q \in Executing' <=> q \in Executing
  BY ExecutingNext
<1>2. ASSUME NEW k \in Keys PROVE Committed(k)' = Committed(k)
  BY <1>1, SameKey
<1>3. \A q \in Runs : Phase(q)' = Phase(q)
  BY ExecutingNext
<1>4. QED
  BY <1>2, <1>3 DEF Still

(* Before Execute the request is refused or goes on. *)
LEMMA BeforeRun ==
  ASSUME Typed, Typed', Apart, Apart', NEW r \in Runs, Others(r),
         GetFlow(r) \/ CreateRunFails(r)
  PROVE  Still \/ Transactions!Refuse(r)
<1>0. Shapes /\ Handled(r)
  BY DEF Typed
<1>1. /\ pc[r] \in {"get", "create"} /\ pc'[r] \in {"create", "done"}
      /\ data' = data /\ base' = base /\ alone' = alone /\ visited' = visited
      /\ result' = result
  BY <1>0 DEF Shapes, GetFlow, CreateRunFails, Answer, exec, history
<1>2. Phase(r) = "idle" /\ visited[r] = {} /\ result[r] = "none"
  BY <1>0, <1>1, PhaseOf DEF Handled
<1>3. r \notin Executing /\ r \notin Executing'
  BY <1>1 DEF Executing
<1>4. CASE pc'[r] = "create"
  <2>1. Phase(r)' = "idle"
    BY <1>4, PhaseOf DEF Phase, Typed, Handled, Executing
  <2>2. QED
    BY <1>1, <1>2, <1>3, <2>1, QuietStill
<1>5. CASE pc'[r] = "done"
  <2>1. Phase(r)' = "refused"
    BY <1>1, <1>2, <1>3, <1>5 DEF Phase
  <2>2. [q \in Runs |-> Phase(q)'] = [[q \in Runs |-> Phase(q)] EXCEPT ![r] = "refused"]
    BY <2>1, ExecutingNext
  <2>3. \A q \in Runs : q \in Executing' <=> q \in Executing
    BY <1>3, ExecutingNext
  <2>4. ASSUME NEW k \in Keys PROVE Committed(k)' = Committed(k)
    BY <1>1, <2>3, SameKey
  <2>5. QED
    BY <1>1, <1>2, <2>2, <2>4 DEF Transactions!Refuse, Transactions!End, Transactions!Shows
<1>6. QED
  BY <1>1, <1>4, <1>5

(* The walk itself shows nothing, nor does the end of the request. *)
LEMMA WalkStill ==
  ASSUME Typed, Typed', Apart, Apart', NEW r \in Runs, Others(r),
         \/ Dequeue(r) \/ SkipEdge(r) \/ RunAgent(r) \/ RunCondition(r) \/ NodeFails(r)
         \/ UpdateRunFails(r) \/ UpdateRun(r)
  PROVE  Still
<1>0. Shapes /\ Handled(r)
  BY DEF Typed
<1>1. CASE Dequeue(r) \/ SkipEdge(r) \/ RunAgent(r) \/ RunCondition(r) \/ NodeFails(r)
  <2>1. /\ r \in Executing /\ r \in Executing'
        /\ data' = data /\ base' = base /\ alone' = alone
    BY <1>0, <1>1 DEF Shapes, Executing, Dequeue, SkipEdge, RunAgent, RunCondition, NodeFails,
       AtNewNode, history
  <2>2. Phase(r) = "active"
    BY <2>1, PhaseOf
  <2>3. Phase(r)' = "active"
    BY <2>1 DEF Typed, Handled, Phase, Executing
  <2>4. QED
    BY <2>1, <2>2, <2>3, QuietStill
<1>2. CASE UpdateRunFails(r) \/ UpdateRun(r)
  <2>1. /\ r \notin Executing /\ r \notin Executing' /\ result[r] \in Ended /\ result' = result
        /\ pc[r] = "update" /\ pc'[r] = "done" /\ data' = data /\ base' = base /\ alone' = alone
    BY <1>0, <1>2 DEF Shapes, Handled, Executing, UpdateRunFails, UpdateRun, Answer, exec, history
  <2>2. Phase(r)' = Phase(r)
    BY <2>1 DEF Phase, Ended
  <2>3. QED
    BY <2>1, <2>2, QuietStill
<1>3. QED
  BY <1>1, <1>2

(* An effect, or its undoing, is a write. *)
LEMMA EffectWrites ==
  ASSUME Typed, Typed', Apart, Apart', NEW r \in Runs, Others(r), Step(r),
         RunEffect(r) \/ UndoLast(r)
  PROVE  Transactions!Write(r)
<1>1. r \in Executing /\ r \in Executing' /\ base' = base /\ alone' = alone
  BY DEF Executing, RunEffect, UndoLast, AtNewNode, history
<1>2. Phase(r) = "active" /\ Phase(r)' = "active"
  BY <1>1, PhaseOf DEF Typed, Handled, Phase, Executing
<1>3. \A q \in Runs : (q \in Executing' <=> q \in Executing) /\ Phase(q)' = Phase(q)
  BY <1>1, <1>2, ExecutingNext
<1>4. ASSUME NEW k \in Keys \ (KeysOf(r) \ alone[r]) PROVE Committed(k)' = Committed(k)
  <2>1. (\A q \in Executing : k \notin alone[q]) => data'[k] = data[k]
    BY <1>1, <1>4, StepWrites
  <2>2. QED
    BY <1>1, <1>3, <2>1, SameKey
<1>5. QED
  BY <1>1, <1>2, <1>3, <1>4 DEF Transactions!Write, Transactions!Shows

LEMMA SuccessCommits ==
  ASSUME Typed, Typed', Apart, Apart', NEW r \in Runs, Others(r), ExecuteSucceeds(r)
  PROVE  Transactions!Commit(r)
<1>0. Shapes
  BY DEF Typed
<1>1. /\ r \in Executing /\ r \notin Executing' /\ result'[r] = "success"
      /\ pc'[r] = "update" /\ data' = data /\ base' = base /\ alone' = alone
  BY <1>0 DEF Shapes, Executing, ExecuteSucceeds, exec, history
<1>2. Phase(r) = "active" /\ Phase(r)' = "committed"
  BY <1>1, PhaseOf DEF Phase
<1>3. [q \in Runs |-> Phase(q)'] = [[q \in Runs |-> Phase(q)] EXCEPT ![r] = "committed"]
  BY <1>2, ExecutingNext
<1>4. ASSUME NEW k \in Keys \ alone[r] PROVE Committed(k)' = Committed(k)
  BY <1>1, KeysShow
<1>5. QED
  BY <1>1, <1>2, <1>3, <1>4 DEF Transactions!Commit, Transactions!End, Transactions!Shows

LEMMA PanicAbandons ==
  ASSUME Typed, Typed', Apart, Apart', NEW r \in Runs, Others(r), Walking(r), NodePanics(r)
  PROVE  Transactions!Abandon(r)
<1>0. Shapes /\ Handled(r)
  BY DEF Typed
<1>1. /\ pc[r] = "walk" /\ pc'[r] = "done" /\ r \in Executing /\ r \notin Executing'
      /\ data' = data /\ base' = base /\ alone' = alone
      /\ visited' = visited /\ result' = result
  BY <1>0 DEF Shapes, Executing, NodePanics, AtNewNode, Answer, exec, history
<1>2. visited[r] # {} /\ result[r] = "none"
  BY <1>0, <1>1 DEF Walking, Following, Handled, Shapes
<1>3. Phase(r) = "active" /\ Phase(r)' = "abandoned"
  BY <1>1, <1>2, PhaseOf DEF Phase
<1>4. [q \in Runs |-> Phase(q)'] = [[q \in Runs |-> Phase(q)] EXCEPT ![r] = "abandoned"]
  BY <1>3, ExecutingNext
<1>5. ASSUME NEW k \in Keys \ alone[r] PROVE Committed(k)' = Committed(k)
  BY <1>1, KeysShow
<1>6. QED
  BY <1>1, <1>3, <1>4, <1>5 DEF Transactions!Abandon, Transactions!End, Transactions!Shows

(* With an empty log the store is, where the run was alone, as it began. *)
LEMMA RollbackAborts ==
  ASSUME Typed, Typed', Apart, Apart', NEW r \in Runs, Others(r), LogKept(r), RolledBack(r)
  PROVE  Transactions!Abort(r)
<1>0. Shapes
  BY DEF Typed
<1>1. /\ r \in Executing /\ r \notin Executing' /\ result'[r] = "rolled_back"
      /\ pc[r] = "rollback" /\ pc'[r] = "update" /\ records[r] = <<>>
      /\ data' = data /\ base' = base /\ alone' = alone
  BY <1>0 DEF Shapes, Executing, RolledBack, exec, history
<1>2. Phase(r) = "active" /\ Phase(r)' = "aborted"
  BY <1>1, PhaseOf DEF Phase
<1>3. [q \in Runs |-> Phase(q)'] = [[q \in Runs |-> Phase(q)] EXCEPT ![r] = "aborted"]
  BY <1>2, ExecutingNext
<1>4. ASSUME NEW k \in Keys PROVE Committed(k)' = Committed(k)
  <2>1. CASE k \notin alone[r]
    BY <1>1, <2>1, KeysShow
  <2>2. CASE k \in alone[r]
    <3>1. Committed(k) = Norm(base[r][k])
      BY <1>1, <2>2, CommittedKey
    <3>2. ASSUME NEW q \in Executing' PROVE k \notin alone'[q]
      <4>1. q \in Runs /\ q # r
        BY <1>1 DEF Executing
      <4>2. QED
        BY <1>1, <2>2, <4>1 DEF Apart
    <3>3. Committed(k)' = Norm(data[k])
      BY <1>1, <3>2, CommittedKeyNext
    <3>4. ~Logged(r, k)
      BY <1>1 DEF Logged
    <3>5. Norm(data[k]) = Norm(base[r][k])
      BY <1>1, <2>2, <3>4 DEF LogKept, Restorable
    <3>6. QED
      BY <3>1, <3>3, <3>5
  <2>3. QED
    BY <2>1, <2>2
<1>5. QED
  BY <1>1, <1>2, <1>3, <1>4 DEF Transactions!Abort, Transactions!End, Transactions!Shows

(* Engine.Execute and rollbackLog: a run is a transaction on the keys it has
   for itself.  Its effects show together when it succeeds and not at all when
   it is rolled back, whatever runs at the same time. *)
THEOREM RunsAreTransactions == Spec => ImplementsTransactions
<1>1. Init => Transactions!Init
  <2>1. SUFFICES ASSUME Init PROVE Transactions!Init
    OBVIOUS
  <2>2. \A r \in Runs : Phase(r) = "idle"
    BY <2>1 DEF Init, Phase, Executing
  <2>3. alone = [r \in Runs |-> {}]
    BY <2>1 DEF Init
  <2>4. QED
    BY <2>2, <2>3 DEF Transactions!Init
<1>2. ASSUME FlowInv, FlowInv', [Next]_vars PROVE [Transactions!Next]_(Transactions!vars)
  <2>1. ASSUME NEW r \in Runs, Step(r) PROVE Still \/ Transactions!Next
    <3>1. /\ Typed /\ Typed' /\ Apart /\ Apart' /\ Walking(r) /\ LogKept(r) /\ Others(r)
      BY <1>2, <2>1, StepOthers DEF FlowInv, Typed
    <3>2. CASE GetFlow(r) \/ CreateRunFails(r)
      BY <3>1, <3>2, BeforeRun DEF Transactions!Next
    <3>3. CASE CreateRun(r)
      BY <3>1, <3>3, CreateBegins DEF Transactions!Next
    <3>4. CASE \/ Dequeue(r) \/ SkipEdge(r) \/ RunAgent(r) \/ RunCondition(r) \/ NodeFails(r)
               \/ UpdateRunFails(r) \/ UpdateRun(r)
      BY <3>1, <3>4, WalkStill
    <3>5. CASE RunEffect(r) \/ UndoLast(r)
      BY <2>1, <3>1, <3>5, EffectWrites DEF Transactions!Next
    <3>6. CASE ExecuteSucceeds(r)
      BY <3>1, <3>6, SuccessCommits DEF Transactions!Next
    <3>7. CASE NodePanics(r)
      BY <3>1, <3>7, PanicAbandons DEF Transactions!Next
    <3>8. CASE RolledBack(r)
      BY <3>1, <3>8, RollbackAborts DEF Transactions!Next
    <3>9. QED
      BY <2>1, <3>2, <3>3, <3>4, <3>5, <3>6, <3>7, <3>8 DEF Step
  <2>2. ASSUME \/ \E r \in Runs : Cancel(r)
               \/ \E f \in Editable : UpdateFlow(f) \/ DeleteFlow(f)
               \/ UNCHANGED vars
        PROVE  Still
    <3>1. Aside /\ Apart /\ Apart'
      BY <1>2, <2>2, AsideTyped DEF FlowInv
    <3>2. data' = data /\ base' = base /\ alone' = alone /\ Executing' = Executing
      BY <3>1 DEF Aside, exec, history, Executing
    <3>3. \A q \in Runs : Phase(q)' = Phase(q)
      BY <3>1, <3>2 DEF Aside, exec, Phase
    <3>4. ASSUME NEW k \in Keys PROVE Committed(k)' = Committed(k)
      BY <3>1, <3>2, SameKey
    <3>5. QED
      BY <3>2, <3>3, <3>4 DEF Still
  <2>3. Still \/ Transactions!Next
    BY <1>2, <2>1, <2>2 DEF Next, AllAnswered
  <2>4. QED
    BY <2>3, StillStutters DEF Transactions!vars
<1>3. QED
  BY <1>1, <1>2, AlwaysInv, PTL DEF Spec, ImplementsTransactions, Transactions!Spec

(* The type invariant. *)
THEOREM FlowTypeCorrect == Spec => []TypeOK
<1>1. ASSUME FlowInv PROVE TypeOK
  <2>1. Typed /\ Shapes
    BY <1>1 DEF FlowInv, Typed
  <2>2. data \in [Keys -> Values] /\ \A r \in Runs : visited[r] \subseteq Nodes(r)
    BY <2>1 DEF Typed, Local
  <2>3. ASSUME NEW r \in Runs, NEW i \in DOMAIN records[r]
        PROVE  records[r][i].key \in Keys /\ records[r][i].prior \in Values
    <3> DEFINE log == records[r]
    <3>1. log \in Seq([key : KeysOf(r), prior : Values])
      BY <2>1 DEF Typed, Local
    <3>2. log[i] \in [key : KeysOf(r), prior : Values]
      <4> HIDE DEF log
      <4>1. \A S : \A l \in Seq(S) : \A j \in DOMAIN l : l[j] \in S
        BY ElementOfSeq, LenProperties
      <4>2. QED
        BY <2>3, <3>1, <4>1 DEF log
    <3>3. QED
      BY <3>2, KeysOfType
  <2>4. QED
    BY <2>1, <2>2, <2>3 DEF TypeOK, Shapes, Nodes
<1>2. QED
  BY <1>1, AlwaysInv, PTL

=============================================================================
