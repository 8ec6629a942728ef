----------------------------- MODULE FlowGraph -----------------------------
(***************************************************************************)
(* buildGraph: the validation of a flow_json document.  It reads the node  *)
(* list, then the edge list, and runs Kahn's algorithm; the first problem  *)
(* it meets is the verdict.  Every flow that is stored or executed has     *)
(* passed through it.                                                      *)
(*                                                                         *)
(* validateNode is reduced to its verdict: a node is a trigger, another    *)
(* valid node, or "invalid".                                               *)
(***************************************************************************)
EXTENDS Integers, Sequences, FiniteSets

CONSTANTS
  Ids,       \* node ids (non-empty strings)
  Unknown,   \* an id no node has
  MaxNodes,  \* bound: length of the node list
  MaxEdges   \* bound: length of the edge list

NoId == ""   \* the id of a node that has none
Kinds == {"trigger", "other", "invalid"}
Edge == [source : Ids \cup {Unknown}, target : Ids \cup {Unknown}]

ASSUME IdsAssumption == Unknown \notin Ids /\ NoId \notin Ids /\ Unknown # NoId
ASSUME BoundsAssumption == MaxNodes \in Nat /\ MaxEdges \in Nat

VARIABLES
  nodes,     \* def.Nodes: [id, kind]
  edges,     \* def.Edges
  pc,
  i,         \* loop index: nodes, edges, nodes again, then the edges of `cur`
  known,     \* keys of g.Nodes
  triggers,
  adj,       \* g.adj: targets of a node's edges, in declaration order
  inDegree,
  queue,
  order,
  remaining,
  cur,       \* the node Kahn's loop has taken off the queue
  verdict    \* "none" before the function returns

vars == <<nodes, edges, pc, i, known, triggers, adj, inDegree, queue, order,
          remaining, cur, verdict>>

SeqUpTo(S, n) == UNION {[1..m -> S] : m \in 0..n}

Init ==
  /\ nodes \in SeqUpTo([id : Ids \cup {NoId}, kind : Kinds], MaxNodes)
  /\ edges = <<>>
  /\ pc = "nodes"
  /\ i = 1
  /\ known = {}
  /\ triggers = 0
  /\ adj = [n \in Ids |-> <<>>]
  /\ inDegree = [n \in Ids |-> 0]
  /\ queue = <<>>
  /\ order = <<>>
  /\ remaining = 0
  /\ cur = NoId
  /\ verdict = "none"

Return(v) ==
  /\ verdict' = v
  /\ pc' = "done"

(* One iteration of the loop over def.Nodes. *)
CheckNode ==
  /\ pc = "nodes"
  /\ i <= Len(nodes)
  /\ LET n == nodes[i] IN
       \/ /\ n.id = NoId
          /\ Return("empty id")
          /\ UNCHANGED <<i, known, triggers>>
       \/ /\ n.id # NoId /\ n.id \in known
          /\ Return("duplicate")
          /\ UNCHANGED <<i, known, triggers>>
       \/ /\ n.id # NoId /\ n.id \notin known /\ n.kind = "invalid"
          /\ Return("invalid node")
          /\ UNCHANGED <<i, known, triggers>>
       \/ /\ n.id # NoId /\ n.id \notin known /\ n.kind # "invalid"
          /\ known' = known \cup {n.id}
          /\ triggers' = triggers + (IF n.kind = "trigger" THEN 1 ELSE 0)
          /\ i' = i + 1
          /\ UNCHANGED <<pc, verdict>>
  /\ UNCHANGED <<nodes, edges, adj, inDegree, queue, order, remaining, cur>>

(* An empty node list and a wrong number of triggers are refused.  The edge
   list is as much input as the node list; it is chosen here because nothing
   before depends on it. *)
CheckTriggers ==
  /\ pc = "nodes"
  /\ i > Len(nodes)
  /\ \/ /\ Len(nodes) = 0
        /\ Return("no nodes")
        /\ UNCHANGED <<edges, i>>
     \/ /\ Len(nodes) # 0 /\ triggers # 1
        /\ Return("triggers")
        /\ UNCHANGED <<edges, i>>
     \/ /\ Len(nodes) # 0 /\ triggers = 1
        /\ edges' \in SeqUpTo(Edge, MaxEdges)
        /\ i' = 1
        /\ pc' = "edges"
        /\ UNCHANGED verdict
  /\ UNCHANGED <<nodes, known, triggers, adj, inDegree, queue, order, remaining,
                 cur>>

(* One iteration of the loop over def.Edges. *)
CheckEdge ==
  /\ pc = "edges"
  /\ i <= Len(edges)
  /\ LET e == edges[i] IN
       \/ /\ e.source \notin known
          /\ Return("unknown source")
          /\ UNCHANGED <<i, adj, inDegree>>
       \/ /\ e.source \in known /\ e.target \notin known
          /\ Return("unknown target")
          /\ UNCHANGED <<i, adj, inDegree>>
       \/ /\ e.source \in known /\ e.target \in known
          /\ adj' = [adj EXCEPT ![e.source] = Append(@, e.target)]
          /\ inDegree' = [inDegree EXCEPT ![e.target] = @ + 1]
          /\ i' = i + 1
          /\ UNCHANGED <<pc, verdict>>
  /\ UNCHANGED <<nodes, edges, known, triggers, queue, order, remaining, cur>>

EdgesChecked ==
  /\ pc = "edges"
  /\ i > Len(edges)
  /\ i' = 1
  /\ pc' = "start"
  /\ UNCHANGED <<nodes, edges, known, triggers, adj, inDegree, queue, order,
                 remaining, cur, verdict>>

(* The queue starts with the nodes no edge enters, in declaration order. *)
EnqueueSource ==
  /\ pc = "start"
  /\ i <= Len(nodes)
  /\ queue' = IF inDegree[nodes[i].id] = 0 THEN Append(queue, nodes[i].id) ELSE queue
  /\ i' = i + 1
  /\ UNCHANGED <<nodes, edges, pc, known, triggers, adj, inDegree, order,
                 remaining, cur, verdict>>

StartKahn ==
  /\ pc = "start"
  /\ i > Len(nodes)
  /\ remaining' = Len(nodes)
  /\ pc' = "kahn"
  /\ UNCHANGED <<nodes, edges, i, known, triggers, adj, inDegree, queue, order,
                 cur, verdict>>

TakeNode ==
  /\ pc = "kahn"
  /\ queue # <<>>
  /\ cur' = Head(queue)
  /\ queue' = Tail(queue)
  /\ order' = Append(order, Head(queue))
  /\ remaining' = remaining - 1
  /\ i' = 1
  /\ pc' = "relax"
  /\ UNCHANGED <<nodes, edges, known, triggers, adj, inDegree, verdict>>

MutQueueEarly ==
  /\ pc = "relax"
  /\ i <= Len(adj[cur])
  /\ LET t == adj[cur][i] IN
       /\ inDegree' = [inDegree EXCEPT ![t] = @ - 1]
       /\ queue' = IF t \notin {queue[k] : k \in DOMAIN queue} \cup
                              {order[k] : k \in DOMAIN order}
                     THEN Append(queue, t) ELSE queue
  /\ i' = i + 1
  /\ UNCHANGED <<nodes, edges, pc, known, triggers, adj, order, remaining, cur,
                 verdict>>

(* One edge of `cur`; a target is queued when its last edge is taken. *)
RelaxEdge ==
  /\ pc = "relax"
  /\ i <= Len(adj[cur])
  /\ LET t == adj[cur][i] IN
       /\ inDegree' = [inDegree EXCEPT ![t] = @ - 1]
       /\ queue' = IF inDegree[t] = 1 THEN Append(queue, t) ELSE queue
  /\ i' = i + 1
  /\ UNCHANGED <<nodes, edges, pc, known, triggers, adj, order, remaining, cur,
                 verdict>>

RelaxDone ==
  /\ pc = "relax"
  /\ i > Len(adj[cur])
  /\ pc' = "kahn"
  /\ UNCHANGED <<nodes, edges, i, known, triggers, adj, inDegree, queue, order,
                 remaining, cur, verdict>>

MutNoCycleCheck ==
  /\ pc = "kahn"
  /\ queue = <<>>
  /\ Return("ok")
  /\ UNCHANGED <<nodes, edges, i, known, triggers, adj, inDegree, queue, order,
                 remaining, cur>>

Finish ==
  /\ pc = "kahn"
  /\ queue = <<>>
  /\ Return(IF remaining # 0 THEN "cycle" ELSE "ok")
  /\ UNCHANGED <<nodes, edges, i, known, triggers, adj, inDegree, queue, order,
                 remaining, cur>>

Done ==
  /\ pc = "done"
  /\ UNCHANGED vars

Next ==
  \/ CheckNode \/ CheckTriggers \/ CheckEdge \/ EdgesChecked
  \/ EnqueueSource \/ StartKahn \/ TakeNode \/ RelaxEdge \/ RelaxDone
  \/ Finish \/ Done

Spec == Init /\ [][Next]_vars

-----------------------------------------------------------------------------
(* Every variable has its type; in particular no degree and not the number
   of remaining nodes goes below zero. *)
TypeOK ==
  /\ pc \in {"nodes", "edges", "start", "kahn", "relax", "done"}
  /\ i \in Nat \ {0}
  /\ known \subseteq Ids
  /\ triggers \in Nat
  /\ adj \in [Ids -> Seq(Ids)]
  /\ inDegree \in [Ids -> Nat]
  /\ queue \in Seq(Ids)
  /\ order \in Seq(Ids)
  /\ remaining \in Nat
  /\ cur \in Ids \cup {NoId}
  /\ verdict \in {"none", "empty id", "duplicate", "invalid node", "no nodes",
                  "triggers", "unknown source", "unknown target", "cycle", "ok"}

NodeSet == {nodes[k].id : k \in DOMAIN nodes}
EdgeSet == {<<edges[k].source, edges[k].target>> : k \in DOMAIN edges}

(* A set of nodes each of which has a predecessor in the set. *)
Cyclic ==
  \E S \in (SUBSET NodeSet) \ {{}} :
    \A n \in S : \E m \in S : <<m, n>> \in EdgeSet

(* Kahn's loop tells exactly the acyclic graphs from the others, parallel
   edges and self-loops included. *)
CycleVerdict ==
  /\ verdict = "ok" => ~Cyclic
  /\ verdict = "cycle" => Cyclic

(* TopologicalOrder: the order of an accepted flow lists every node once and
   every edge goes forward in it.  On the way, a node is only taken when all
   its predecessors have been. *)
OrderIsTopological ==
  /\ \A j, k \in DOMAIN order : order[j] = order[k] => j = k
  /\ verdict = "ok" => {order[k] : k \in DOMAIN order} = NodeSet
  /\ \A k \in DOMAIN order : \A e \in EdgeSet :
       e[2] = order[k] => \E j \in 1..(k - 1) : order[j] = e[1]
=============================================================================
