-------------------------- MODULE FlowGraphProofs --------------------------
(***************************************************************************)
(* Theorems about buildGraph, for every node list and every edge list.     *)
(***************************************************************************)
EXTENDS FlowGraph, SequenceTheorems, FiniteSetTheorems, WellFoundedInduction, TLAPS

-----------------------------------------------------------------------------
(* The inductive invariant. *)

Row == [id : Ids \cup {NoId}, kind : Kinds]
Stages == {"nodes", "edges", "start", "kahn", "relax", "done"}
Sorted == {"ok", "cycle"}
Refusals == {"empty id", "duplicate", "invalid node", "no nodes", "triggers",
             "unknown source", "unknown target"}

Types ==
  /\ nodes \in Seq(Row) /\ edges \in Seq(Edge)
  /\ pc \in Stages /\ i \in Nat \ {0} /\ triggers \in Nat
  /\ known \subseteq Ids
  /\ adj \in [Ids -> Seq(Ids)] /\ inDegree \in [Ids -> Nat]
  /\ queue \in Seq(Ids) /\ order \in Seq(Ids)
  /\ remaining \in Int /\ cur \in Ids \cup {NoId}
  /\ verdict \in {"none"} \cup Refusals \cup Sorted

(* How far buildGraph has got. *)
Past == pc \in {"edges", "start", "kahn", "relax"} \/ verdict \in Sorted
Linked == pc \in {"start", "kahn", "relax"} \/ verdict \in Sorted
Sorting == pc \in {"kahn", "relax"} \/ verdict \in Sorted

Verdicts ==
  /\ verdict # "none" => pc = "done"
  /\ pc \in {"nodes", "edges"} => queue = <<>>
  /\ ~Sorting => order = <<>> /\ remaining = 0
  /\ verdict \in Sorted => queue = <<>> /\ (verdict = "ok" <=> remaining = 0)
  /\ pc = "relax" => cur \in Range(order)

(* The nodes read so far have different ids, and are the known ones. *)
Distinct(m) == \A j, k \in 1..m : nodes[j].id = nodes[k].id => j = k
Ranged(m) == {nodes[k].id : k \in 1..m}
NodesRead ==
  /\ pc = "nodes" => i <= Len(nodes) + 1 /\ known = Ranged(i - 1) /\ Distinct(i - 1)
  /\ Past => known = NodeSet /\ Distinct(Len(nodes))

(* A slot <<s, j>> is the j-th edge of s; each is one of the edges read. *)
Slots(t) == {p \in Ids \X Nat : p[2] \in DOMAIN adj[p[1]] /\ adj[p[1]][p[2]] = t}
Joins(k, s, t) == edges[k].source = s /\ edges[k].target = t
EdgesRead ==
  /\ pc = "nodes" => \A s \in Ids : adj[s] = <<>>
  /\ pc = "edges" =>
       /\ i <= Len(edges) + 1
       /\ \A k \in 1..(i - 1) : edges[k].source \in known
       /\ \A s, t \in Ids : (\E p \in Slots(t) : p[1] = s) <=> \E k \in 1..(i - 1) : Joins(k, s, t)
  /\ Linked =>
       /\ \A k \in DOMAIN edges : edges[k].source \in known
       /\ \A s, t \in Ids : (\E p \in Slots(t) : p[1] = s) <=> <<s, t>> \in EdgeSet
  /\ Past => \A t \in Ids : \A p \in Slots(t) : p[1] \in known /\ t \in known

(* The edges that Kahn's loop has not taken yet; the degrees count them. *)
Taken(p) == p[1] \in Range(order) /\ (pc = "relax" /\ p[1] = cur => p[2] < i)
Open(t) == {p \in Slots(t) : ~Taken(p)}
Degrees == \A t \in Ids : IsFiniteSet(Open(t)) /\ inDegree[t] = Cardinality(Open(t))

(* A node is queued or listed, once, when its degree is zero. *)
Queued ==
  /\ IsInjective(queue) /\ IsInjective(order) /\ Range(queue) \cap Range(order) = {}
  /\ Range(queue) \subseteq known /\ Range(order) \subseteq known
  /\ \A n \in Range(queue) \cup Range(order) : inDegree[n] = 0
  /\ pc = "start" =>
       /\ i <= Len(nodes) + 1
       /\ \A n \in Range(queue) : n \in Ranged(i - 1)
       /\ \A k \in 1..(i - 1) : inDegree[nodes[k].id] = 0 => nodes[k].id \in Range(queue)
  /\ Sorting =>
       /\ \A n \in known : inDegree[n] = 0 => n \in Range(queue) \cup Range(order)
       /\ remaining = Len(nodes) - Len(order)

(* Edges into a listed node come from nodes listed before it. *)
Forward ==
  \A k \in DOMAIN order : \A p \in Slots(order[k]) : \E j \in 1..(k - 1) : order[j] = p[1]

GraphInv == Types /\ Verdicts /\ NodesRead /\ EdgesRead /\ Degrees /\ Queued /\ Forward

-----------------------------------------------------------------------------
(* Sequences. *)

LEMMA EmptyFacts == Range(<<>>) = {} /\ IsInjective(<<>>) /\ DOMAIN <<>> = {} /\ Len(<<>>) = 0
  BY DEF Range, IsInjective

LEMMA SeqUpToType ==
  ASSUME NEW S, NEW m \in Nat, NEW s \in SeqUpTo(S, m)
  PROVE  s \in Seq(S)
<1>1. PICK l \in 0..m : s \in [1..l -> S]
  BY DEF SeqUpTo
<1>2. l \in Nat
  BY <1>1
<1>3. QED
  BY <1>1, <1>2

LEMMA AppendFacts ==
  ASSUME NEW S, NEW q \in Seq(S), NEW x \in S
  PROVE  /\ Append(q, x) \in Seq(S) /\ Len(q) \in Nat /\ DOMAIN q = 1..Len(q)
         /\ Len(Append(q, x)) = Len(q) + 1 /\ DOMAIN Append(q, x) = 1..(Len(q) + 1)
         /\ Append(q, x)[Len(q) + 1] = x /\ \A k \in 1..Len(q) : Append(q, x)[k] = q[k]
         /\ Range(Append(q, x)) = Range(q) \cup {x}
         /\ IsInjective(q) /\ x \notin Range(q) => IsInjective(Append(q, x))
<1>1. /\ Append(q, x) \in Seq(S) /\ Len(q) \in Nat /\ DOMAIN q = 1..Len(q)
      /\ Len(Append(q, x)) = Len(q) + 1 /\ DOMAIN Append(q, x) = 1..(Len(q) + 1)
      /\ Append(q, x)[Len(q) + 1] = x /\ \A k \in 1..Len(q) : Append(q, x)[k] = q[k]
  BY LenProperties, AppendProperties
<1>2. \A k \in 1..(Len(q) + 1) : k = Len(q) + 1 \/ k \in 1..Len(q)
  BY <1>1
<1>3. Len(q) + 1 \in 1..(Len(q) + 1) /\ \A k \in 1..Len(q) : k \in 1..(Len(q) + 1)
  BY <1>1
<1>4. Range(Append(q, x)) = Range(q) \cup {x}
  BY <1>1, <1>2, <1>3 DEF Range
<1>5. ASSUME IsInjective(q), x \notin Range(q) PROVE IsInjective(Append(q, x))
  <2>1. \A k \in 1..Len(q) : q[k] # x
    BY <1>1, <1>5 DEF Range
  <2>2. QED
    BY <1>1, <1>2, <1>5, <2>1 DEF IsInjective
<1>6. QED
  BY <1>1, <1>4, <1>5

LEMMA TailFacts ==
  ASSUME NEW S, NEW q \in Seq(S), q # <<>>
  PROVE  /\ Head(q) \in S /\ Tail(q) \in Seq(S) /\ Range(q) = {Head(q)} \cup Range(Tail(q))
         /\ IsInjective(q) => IsInjective(Tail(q)) /\ Head(q) \notin Range(Tail(q))
<1>1. /\ Len(q) \in Nat \ {0} /\ DOMAIN q = 1..Len(q) /\ Len(Tail(q)) = Len(q) - 1
      /\ DOMAIN Tail(q) = 1..(Len(q) - 1) /\ Head(q) = q[1]
      /\ \A k \in 1..(Len(q) - 1) : Tail(q)[k] = q[k + 1]
      /\ Head(q) \in S /\ Tail(q) \in Seq(S)
  BY EmptySeq, LenProperties
<1>2. \A k \in 1..Len(q) : k = 1 \/ (k - 1 \in 1..(Len(q) - 1) /\ (k - 1) + 1 = k)
  BY <1>1
<1>3. \A k \in 1..(Len(q) - 1) : k + 1 \in 1..Len(q) /\ k + 1 # 1
  BY <1>1
<1>4. 1 \in 1..Len(q)
  BY <1>1
<1>5. ASSUME NEW x \in Range(q), x # Head(q) PROVE x \in Range(Tail(q))
  <2>1. PICK k \in 1..Len(q) : x = q[k]
    BY <1>1 DEF Range
  <2>2. k - 1 \in 1..(Len(q) - 1) /\ (k - 1) + 1 = k
    BY <1>1, <1>2, <1>5, <2>1
  <2>3. Tail(q)[k - 1] = x
    BY <1>1, <2>1, <2>2
  <2>4. QED
    BY <1>1, <2>2, <2>3 DEF Range
<1>6. Head(q) \in Range(q) /\ \A x \in Range(Tail(q)) : x \in Range(q)
  BY <1>1, <1>3, <1>4 DEF Range
<1>7. ASSUME IsInjective(q) PROVE IsInjective(Tail(q)) /\ Head(q) \notin Range(Tail(q))
  <2>1. ASSUME NEW j \in 1..(Len(q) - 1), NEW k \in 1..(Len(q) - 1), Tail(q)[j] = Tail(q)[k]
        PROVE  j = k
    <3>1. q[j + 1] = q[k + 1] /\ j + 1 \in DOMAIN q /\ k + 1 \in DOMAIN q
      BY <1>1, <1>3, <2>1
    <3>2. j + 1 = k + 1
      BY <1>7, <3>1 DEF IsInjective
    <3>3. QED
      BY <3>2
  <2>2. IsInjective(Tail(q))
    BY <1>1, <2>1 DEF IsInjective
  <2>3. \A k \in 1..(Len(q) - 1) : Tail(q)[k] # Head(q)
    BY <1>1, <1>3, <1>4, <1>7 DEF IsInjective
  <2>4. QED
    BY <1>1, <2>2, <2>3 DEF Range
<1>8. QED
  BY <1>1, <1>5, <1>6, <1>7

(* A sequence without repetition is as long as its range is large. *)
LEMMA InjectiveLength ==
  ASSUME NEW S, NEW q \in Seq(S), IsInjective(q)
  PROVE  IsFiniteSet(Range(q)) /\ Cardinality(Range(q)) = Len(q)
<1> DEFINE l == Len(q)
<1>1. l \in Nat /\ DOMAIN q = 1..l /\ q \in [1..l -> Range(q)]
  BY LenProperties DEF Range
<1>2. q \in Surjection(1..l, Range(q)) /\ q \in Injection(1..l, Range(q))
  BY <1>1 DEF Surjection, Injection, IsInjective, Range
<1> HIDE DEF l
<1>3. IsFiniteSet(1..l) /\ Cardinality(1..l) = l
  BY <1>1, FS_Interval
<1>4. QED
  BY <1>2, <1>3, FS_Surjection DEF l

-----------------------------------------------------------------------------
(* Stages, slots and open edges. *)

LEMMA StageFacts ==
  ASSUME Verdicts, pc # "done"
  PROVE  /\ verdict = "none" /\ verdict \notin Sorted
         /\ Past <=> pc \in {"edges", "start", "kahn", "relax"}
         /\ Linked <=> pc \in {"start", "kahn", "relax"}
         /\ Sorting <=> pc \in {"kahn", "relax"}
  BY DEF Verdicts, Past, Linked, Sorting, Sorted

LEMMA SlotFacts ==
  ASSUME NEW t
  PROVE  /\ \A p \in Slots(t) : /\ p = <<p[1], p[2]>> /\ p[1] \in Ids /\ p[2] \in Nat
                                /\ p[2] \in DOMAIN adj[p[1]] /\ adj[p[1]][p[2]] = t
         /\ \A s \in Ids, j \in Nat :
              <<s, j>> \in Slots(t) <=> j \in DOMAIN adj[s] /\ adj[s][j] = t
  BY DEF Slots

LEMMA SlotsSame ==
  ASSUME adj' = adj, NEW t
  PROVE  Slots(t)' = Slots(t)
  BY DEF Slots

LEMMA OpenSame ==
  ASSUME adj' = adj, order' = order, pc # "relax", pc' # "relax", NEW t
  PROVE  Open(t)' = Open(t)
  BY SlotsSame DEF Open, Taken

LEMMA NoneTaken ==
  ASSUME order = <<>>, NEW t
  PROVE  Open(t) = Slots(t)
  BY EmptyFacts DEF Open, Taken

LEMMA DegreeZero ==
  ASSUME Degrees, NEW t \in Ids
  PROVE  inDegree[t] = 0 <=> Open(t) = {}
  BY FS_EmptySet DEF Degrees

-----------------------------------------------------------------------------
(* The checks. *)

(* A check fails: buildGraph returns and leaves all else as it is. *)
Refused ==
  /\ \E v \in Refusals : Return(v)
  /\ UNCHANGED <<nodes, edges, i, known, triggers, adj, inDegree, queue, order, remaining, cur>>

LEMMA RefusedInv ==
  ASSUME GraphInv, pc \in {"nodes", "edges"}, Refused
  PROVE  GraphInv'
<1>0. PICK v \in Refusals : Return(v)
  BY DEF Refused
<1>1. Types /\ Verdicts /\ Degrees
  BY DEF GraphInv
<1>2. queue = <<>> /\ order = <<>> /\ remaining = 0
  BY <1>1, StageFacts DEF Verdicts
<1>3. pc' = "done" /\ verdict' = v /\ v \notin Sorted /\ v # "none"
  BY <1>0 DEF Return, Refusals, Sorted
<1>4. ~Past' /\ ~Linked' /\ ~Sorting'
  BY <1>3 DEF Past, Linked, Sorting
<1>5. Types'
  BY <1>1, <1>3 DEF Types, Stages, Refused
<1>6. Verdicts'
  BY <1>2, <1>3, <1>4 DEF Verdicts, Refused
<1>7. NodesRead' /\ EdgesRead'
  BY <1>3, <1>4 DEF NodesRead, EdgesRead
<1>8. Degrees'
  BY <1>1, <1>3, OpenSame DEF Degrees, Refused
<1>9. Queued' /\ Forward'
  BY <1>2, <1>3, <1>4, EmptyFacts DEF Queued, Forward, Refused
<1>10. QED
  BY <1>5, <1>6, <1>7, <1>8, <1>9 DEF GraphInv

LEMMA CheckNodeInv ==
  ASSUME GraphInv, CheckNode
  PROVE  GraphInv'
<1> DEFINE n == nodes[i]
<1>1. /\ Types /\ Verdicts /\ NodesRead /\ EdgesRead /\ Degrees
      /\ pc = "nodes" /\ i <= Len(nodes) /\ Len(nodes) \in Nat /\ DOMAIN nodes = 1..Len(nodes)
  BY LenProperties DEF GraphInv, Types, CheckNode
<1>2. n \in Row /\ i \in 1..Len(nodes)
  <2>1. i \in 1..Len(nodes)
    BY <1>1 DEF Types
  <2>2. QED
    BY <1>1, <2>1, ElementOfSeq DEF Types
<1>3. \/ Refused
      \/ /\ n.id # NoId /\ n.id \notin known /\ known' = known \cup {n.id} /\ i' = i + 1
         /\ triggers' = triggers + (IF n.kind = "trigger" THEN 1 ELSE 0)
         /\ UNCHANGED <<pc, verdict, nodes, edges, adj, inDegree, queue, order, remaining, cur>>
  BY DEF CheckNode, Refused, Refusals
<1>4. CASE Refused
  BY <1>1, <1>4, RefusedInv
<1>5. CASE /\ n.id # NoId /\ n.id \notin known /\ known' = known \cup {n.id} /\ i' = i + 1
           /\ triggers' = triggers + (IF n.kind = "trigger" THEN 1 ELSE 0)
           /\ UNCHANGED <<pc, verdict, nodes, edges, adj, inDegree, queue, order, remaining, cur>>
  <2>1. queue = <<>> /\ order = <<>> /\ ~Past /\ ~Past' /\ ~Linked' /\ ~Sorting'
    BY <1>1, <1>5, StageFacts DEF Verdicts, Past, Linked, Sorting
  <2>2. Types'
    <3>1. n.id \in Ids
      BY <1>2, <1>5 DEF Row
    <3>2. triggers' \in Nat
      BY <1>1, <1>5 DEF Types
    <3>3. QED
      BY <1>1, <1>5, <3>1, <3>2 DEF Types
  <2>3. Verdicts'
    BY <1>1, <1>5 DEF Verdicts, Sorting
  <2>4. NodesRead'
    <3>1. known = Ranged(i - 1) /\ Distinct(i - 1)
      BY <1>1 DEF NodesRead
    <3>2. i' - 1 = i /\ i' <= Len(nodes) + 1 /\ \A k \in 1..i : k \in 1..(i - 1) \/ k = i
      BY <1>1, <1>2, <1>5
    <3>3. i \in 1..i /\ \A k \in 1..(i - 1) : k \in 1..i
      BY <1>2
    <3>4. known' = Ranged(i)
      BY <1>5, <3>1, <3>2, <3>3 DEF Ranged
    <3>5. Distinct(i)
      BY <1>5, <3>1, <3>2 DEF Distinct, Ranged
    <3>6. QED
      BY <1>5, <2>1, <3>2, <3>4, <3>5 DEF NodesRead, Ranged, Distinct
  <2>5. EdgesRead'
    BY <1>1, <1>5, <2>1 DEF EdgesRead
  <2>6. Degrees'
    BY <1>1, <1>5, OpenSame DEF Degrees
  <2>7. Queued' /\ Forward'
    BY <1>1, <1>5, <2>1, EmptyFacts DEF Queued, Forward
  <2>8. QED
    BY <2>2, <2>3, <2>4, <2>5, <2>6, <2>7 DEF GraphInv
<1>6. QED
  BY <1>3, <1>4, <1>5

LEMMA CheckTriggersInv ==
  ASSUME GraphInv, CheckTriggers
  PROVE  GraphInv'
<1>1. /\ Types /\ Verdicts /\ NodesRead /\ EdgesRead /\ Degrees
      /\ pc = "nodes" /\ i > Len(nodes) /\ Len(nodes) \in Nat /\ DOMAIN nodes = 1..Len(nodes)
  BY LenProperties DEF GraphInv, Types, CheckTriggers
<1>2. \/ Refused
      \/ /\ edges' \in SeqUpTo(Edge, MaxEdges) /\ i' = 1 /\ pc' = "edges"
         /\ UNCHANGED <<verdict, nodes, known, triggers, adj, inDegree, queue, order, remaining, cur>>
  BY DEF CheckTriggers, Refused, Refusals
<1>3. CASE Refused
  BY <1>1, <1>3, RefusedInv
<1>4. CASE /\ edges' \in SeqUpTo(Edge, MaxEdges) /\ i' = 1 /\ pc' = "edges"
           /\ UNCHANGED <<verdict, nodes, known, triggers, adj, inDegree, queue, order, remaining, cur>>
  <2>1. queue = <<>> /\ order = <<>> /\ verdict' = "none" /\ ~Linked' /\ ~Sorting' /\ ~Sorting
    BY <1>1, <1>4, StageFacts DEF Verdicts, Linked, Sorting, Sorted
  <2>2. Types'
    <3>1. edges' \in Seq(Edge)
      BY <1>4, SeqUpToType, BoundsAssumption
    <3>2. QED
      BY <1>1, <1>4, <3>1 DEF Types, Stages
  <2>3. Verdicts'
    BY <1>1, <1>4, <2>1 DEF Verdicts, Sorted
  <2>4. NodesRead'
    <3>1. known = Ranged(i - 1) /\ Distinct(i - 1) /\ i <= Len(nodes) + 1
      BY <1>1 DEF NodesRead
    <3>2. i - 1 = Len(nodes)
      BY <1>1, <3>1 DEF Types
    <3>3. known = NodeSet /\ Distinct(Len(nodes))
      BY <1>1, <3>1, <3>2 DEF Ranged, NodeSet
    <3>4. QED
      BY <1>4, <3>3 DEF NodesRead, NodeSet, Distinct
  <2>5. EdgesRead'
    <3>1. \A s \in Ids : adj[s] = <<>>
      BY <1>1 DEF EdgesRead
    <3>2. ASSUME NEW t PROVE Slots(t)' = {}
      <4>1. Slots(t) = {}
        BY <3>1, SlotFacts, EmptyFacts
      <4>2. QED
        BY <1>4, <4>1, SlotsSame
    <3>3. i' <= Len(edges') + 1 /\ 1..(i' - 1) = {}
      <4>1. edges' \in Seq(Edge)
        BY <2>2 DEF Types
      <4>2. Len(edges') \in Nat
        BY <4>1, LenProperties
      <4>3. QED
        BY <1>4, <4>2
    <3>4. QED
      BY <1>4, <2>1, <3>2, <3>3 DEF EdgesRead
  <2>6. Degrees'
    BY <1>1, <1>4, OpenSame DEF Degrees
  <2>7. Queued' /\ Forward'
    BY <1>4, <2>1, EmptyFacts DEF Queued, Forward
  <2>8. QED
    BY <2>2, <2>3, <2>4, <2>5, <2>6, <2>7 DEF GraphInv
<1>5. QED
  BY <1>2, <1>3, <1>4

LEMMA CheckEdgeInv ==
  ASSUME GraphInv, CheckEdge
  PROVE  GraphInv'
<1> DEFINE s == edges[i].source
           t == edges[i].target
           a == adj[s]
           new == <<s, Len(a) + 1>>
<1>1. /\ Types /\ Verdicts /\ NodesRead /\ EdgesRead /\ Degrees
      /\ pc = "edges" /\ i <= Len(edges) /\ Len(edges) \in Nat /\ DOMAIN edges = 1..Len(edges)
  BY LenProperties DEF GraphInv, Types, CheckEdge
<1>2. \/ Refused
      \/ /\ s \in known /\ t \in known /\ i' = i + 1
         /\ adj' = [adj EXCEPT ![s] = Append(a, t)]
         /\ inDegree' = [inDegree EXCEPT ![t] = inDegree[t] + 1]
         /\ UNCHANGED <<pc, verdict, nodes, edges, known, triggers, queue, order, remaining, cur>>
  BY DEF CheckEdge, Refused, Refusals
<1>3. CASE Refused
  BY <1>1, <1>3, RefusedInv
<1>4. CASE /\ s \in known /\ t \in known /\ i' = i + 1
           /\ adj' = [adj EXCEPT ![s] = Append(a, t)]
           /\ inDegree' = [inDegree EXCEPT ![t] = inDegree[t] + 1]
           /\ UNCHANGED <<pc, verdict, nodes, edges, known, triggers, queue, order, remaining, cur>>
  <2>1. /\ queue = <<>> /\ order = <<>> /\ order' = <<>> /\ verdict = "none"
        /\ Past /\ ~Linked' /\ ~Sorting' /\ ~Sorting
    BY <1>1, <1>4, StageFacts DEF Verdicts, Linked, Sorting, Past
  <2>2. s \in Ids /\ t \in Ids /\ a \in Seq(Ids) /\ DOMAIN adj = Ids /\ known \subseteq Ids
    BY <1>1, <1>4 DEF Types
  <2>3. /\ Len(a) \in Nat /\ DOMAIN a = 1..Len(a) /\ Append(a, t) \in Seq(Ids)
        /\ DOMAIN Append(a, t) = 1..(Len(a) + 1) /\ Append(a, t)[Len(a) + 1] = t
        /\ \A k \in 1..Len(a) : Append(a, t)[k] = a[k]
    <3> HIDE DEF a, s, t
    <3> QED
      BY <2>2, AppendFacts
  <2>4. /\ adj'[s] = Append(a, t) /\ \A u \in Ids : u # s => adj'[u] = adj[u]
        /\ adj' \in [Ids -> Seq(Ids)]
    BY <1>1, <1>4, <2>2, <2>3 DEF Types
  <2>5. \A j \in 1..(Len(a) + 1) : j \in 1..Len(a) \/ j = Len(a) + 1
    BY <2>3
  <2>6. /\ Len(a) + 1 \in 1..(Len(a) + 1) /\ Len(a) + 1 \notin 1..Len(a)
        /\ Len(a) + 1 \in Nat /\ \A j \in 1..Len(a) : j \in 1..(Len(a) + 1)
    BY <2>3
  <2>7. ASSUME NEW b \in Ids, NEW c \in Ids, NEW j \in Nat
        PROVE  <<b, j>> \in Slots(c)' <=>
                 \/ <<b, j>> \in Slots(c)
                 \/ c = t /\ b = s /\ j = Len(a) + 1
    <3>1. <<b, j>> \in Slots(c)' <=> j \in DOMAIN adj'[b] /\ adj'[b][j] = c
      BY DEF Slots
    <3>2. <<b, j>> \in Slots(c) <=> j \in DOMAIN adj[b] /\ adj[b][j] = c
      BY DEF Slots
    <3>3. CASE b # s
      BY <2>4, <3>1, <3>2, <3>3
    <3>4. CASE b = s
      <4> HIDE DEF s, t
      <4>1. <<b, j>> \in Slots(c)' <=> j \in 1..(Len(a) + 1) /\ Append(a, t)[j] = c
        BY <2>3, <2>4, <3>1, <3>4
      <4>2. <<b, j>> \in Slots(c) <=> j \in 1..Len(a) /\ a[j] = c
        BY <2>3, <3>2, <3>4
      <4> HIDE DEF a
      <4>3. QED
        BY <2>3, <2>5, <2>6, <3>4, <4>1, <4>2
    <3>5. QED
      BY <3>3, <3>4
  <2>8. \A c \in Ids : \A p \in Slots(c)' : p = <<p[1], p[2]>> /\ p[1] \in Ids /\ p[2] \in Nat
    BY DEF Slots
  <2>9. new \notin Slots(t)
    <3>1. new \in Slots(t) <=> Len(a) + 1 \in DOMAIN adj[s] /\ adj[s][Len(a) + 1] = t
      BY <2>2, <2>6, SlotFacts
    <3>2. QED
      BY <2>3, <2>6, <3>1
  <2>10. \A c \in Ids : Slots(c)' = IF c = t THEN Slots(c) \cup {new} ELSE Slots(c)
    <3>1. ASSUME NEW c \in Ids, NEW p
          PROVE  p \in Slots(c)' <=> p \in Slots(c) \/ (c = t /\ p = new)
      <4>1. p \in Slots(c) => p = <<p[1], p[2]>> /\ p[1] \in Ids /\ p[2] \in Nat
        BY SlotFacts
      <4>2. p = new => p = <<p[1], p[2]>> /\ p[1] = s /\ p[2] = Len(a) + 1
        OBVIOUS
      <4>3. p = <<p[1], p[2]>> /\ p[1] \in Ids /\ p[2] \in Nat =>
              (p \in Slots(c)' <=> p \in Slots(c) \/ (c = t /\ p[1] = s /\ p[2] = Len(a) + 1))
        BY <2>7
      <4>4. QED
        BY <2>2, <2>6, <2>8, <4>1, <4>2, <4>3
    <3> HIDE DEF new, t
    <3>2. QED
      BY <3>1
  <2>11. Types'
    <3>1. inDegree' \in [Ids -> Nat]
      BY <1>1, <1>4, <2>2 DEF Types
    <3>2. i' \in Nat \ {0}
      BY <1>1, <1>4 DEF Types
    <3>3. QED
      BY <1>1, <1>4, <2>4, <3>1, <3>2 DEF Types
  <2>12. Verdicts'
    BY <1>1, <1>4, <2>1 DEF Verdicts, Sorting
  <2>13. NodesRead'
    BY <1>1, <1>4, <2>1 DEF NodesRead, Past, NodeSet, Distinct
  <2>14. EdgesRead'
    <3>1. i' <= Len(edges) + 1 /\ i' - 1 = i
      BY <1>1, <1>4 DEF Types
    <3>2. (\A k \in 1..i : k \in 1..(i - 1) \/ k = i) /\ i \in 1..i /\ \A k \in 1..(i - 1) : k \in 1..i
      BY <1>1 DEF Types
    <3>3. ASSUME NEW b \in Ids, NEW c \in Ids
          PROVE  (\E p \in Slots(c)' : p[1] = b) <=> \E k \in 1..i : Joins(k, b, c)
      <4>1. (\E p \in Slots(c) : p[1] = b) <=> \E k \in 1..(i - 1) : Joins(k, b, c)
        BY <1>1 DEF EdgesRead
      <4>2. Joins(i, b, c) <=> s = b /\ t = c
        BY DEF Joins
      <4>3. new[1] = s
        OBVIOUS
      <4>4. (\E p \in Slots(c)' : p[1] = b) <=> (\E p \in Slots(c) : p[1] = b) \/ (s = b /\ t = c)
        <5> HIDE DEF new, s, t
        <5> QED
          BY <2>10, <4>3
      <4> HIDE DEF s, t, new
      <4>5. QED
        BY <3>2, <4>1, <4>2, <4>4
    <3>4. ASSUME NEW c \in Ids, NEW p \in Slots(c)' PROVE p[1] \in known /\ c \in known
      <4>1. new[1] = s
        OBVIOUS
      <4>2. QED
        BY <1>1, <1>4, <2>1, <2>10, <3>4, <4>1 DEF EdgesRead
    <3>5. ASSUME NEW b \in Ids, NEW c \in Ids
          PROVE  (\E p \in Slots(c)' : p[1] = b) <=> \E k \in 1..(i' - 1) : Joins(k, b, c)'
      <4>1. \A k : Joins(k, b, c)' <=> Joins(k, b, c)
        BY <1>4 DEF Joins
      <4>2. QED
        BY <3>1, <3>3, <4>1
    <3>6. pc' = "edges" /\ edges' = edges /\ known' = known
      BY <1>1, <1>4
    <3>7. \A k \in 1..i : edges[k].source \in known
      BY <1>1, <1>4, <3>2 DEF EdgesRead
    <3>8. QED
      BY <2>1, <3>1, <3>4, <3>5, <3>6, <3>7 DEF EdgesRead
  <2>15. Degrees'
    <3>1. ASSUME NEW c \in Ids PROVE IsFiniteSet(Open(c)') /\ inDegree'[c] = Cardinality(Open(c)')
      <4>1. Open(c)' = Slots(c)' /\ Open(c) = Slots(c)
        BY <2>1, NoneTaken, EmptyFacts DEF Open, Taken
      <4>2. IsFiniteSet(Slots(c)) /\ inDegree[c] = Cardinality(Slots(c)) /\ inDegree[c] \in Nat
        BY <1>1, <4>1 DEF Degrees, Types
      <4>3. CASE c = t
        <5>1. Slots(c)' = Slots(c) \cup {new} /\ new \notin Slots(c)
          BY <2>9, <2>10, <4>3
        <5>2. inDegree'[c] = inDegree[c] + 1
          BY <1>1, <1>4, <2>2, <4>3 DEF Types
        <5> HIDE DEF new
        <5>3. IsFiniteSet(Slots(c) \cup {new}) /\ Cardinality(Slots(c) \cup {new}) = Cardinality(Slots(c)) + 1
          BY <4>2, <5>1, FS_AddElement
        <5>4. QED
          BY <4>1, <4>2, <5>1, <5>2, <5>3
      <4>4. CASE c # t
        <5>1. inDegree'[c] = inDegree[c]
          BY <1>1, <1>4, <2>2, <4>4 DEF Types
        <5>2. QED
          BY <2>10, <4>1, <4>2, <4>4, <5>1
      <4>5. QED
        BY <4>3, <4>4
    <3>2. QED
      BY <3>1 DEF Degrees
  <2>16. Queued' /\ Forward'
    BY <1>1, <1>4, <2>1, EmptyFacts DEF Queued, Forward
  <2>17. QED
    BY <2>11, <2>12, <2>13, <2>14, <2>15, <2>16 DEF GraphInv
<1>5. QED
  BY <1>2, <1>3, <1>4

LEMMA EdgesCheckedInv ==
  ASSUME GraphInv, EdgesChecked
  PROVE  GraphInv'
<1>1. /\ Types /\ Verdicts /\ NodesRead /\ EdgesRead /\ Degrees
      /\ pc = "edges" /\ i > Len(edges) /\ Len(edges) \in Nat /\ DOMAIN edges = 1..Len(edges)
      /\ Len(nodes) \in Nat
  BY LenProperties DEF GraphInv, Types, EdgesChecked
<1>2. /\ i' = 1 /\ pc' = "start"
      /\ UNCHANGED <<nodes, edges, known, triggers, adj, inDegree, queue, order, remaining, cur, verdict>>
  BY DEF EdgesChecked
<1>3. /\ queue = <<>> /\ order = <<>> /\ remaining = 0 /\ verdict = "none"
      /\ Past /\ Past' /\ ~Sorting' /\ ~Sorting
  BY <1>1, <1>2, StageFacts DEF Verdicts, Sorting, Past
<1>4. Types'
  BY <1>1, <1>2 DEF Types, Stages
<1>5. Verdicts'
  BY <1>2, <1>3 DEF Verdicts, Sorted
<1>6. NodesRead'
  BY <1>1, <1>2, <1>3 DEF NodesRead, NodeSet, Distinct
<1>7. EdgesRead'
  <2>1. i - 1 = Len(edges)
    BY <1>1 DEF EdgesRead, Types
  <2>2. ASSUME NEW b \in Ids, NEW c \in Ids
        PROVE  (\E p \in Slots(c) : p[1] = b) <=> <<b, c>> \in EdgeSet
    <3>1. (\E p \in Slots(c) : p[1] = b) <=> \E k \in 1..Len(edges) : Joins(k, b, c)
      BY <1>1, <2>1 DEF EdgesRead
    <3>2. <<b, c>> \in EdgeSet <=> \E k \in 1..Len(edges) : Joins(k, b, c)
      BY <1>1 DEF EdgeSet, Joins
    <3>3. QED
      BY <3>1, <3>2
  <2>3. EdgeSet' = EdgeSet /\ \A c : Slots(c)' = Slots(c)
    BY <1>2, SlotsSame DEF EdgeSet
  <2>4. \A c \in Ids : \A p \in Slots(c) : p[1] \in known /\ c \in known
    BY <1>1, <1>3 DEF EdgesRead
  <2>5. \A k \in DOMAIN edges : edges[k].source \in known
    BY <1>1, <2>1 DEF EdgesRead
  <2>6. QED
    BY <1>2, <2>2, <2>3, <2>4, <2>5 DEF EdgesRead
<1>8. Degrees'
  BY <1>1, <1>2, OpenSame DEF Degrees
<1>9. Queued' /\ Forward'
  <2>1. 1..(i' - 1) = {} /\ i' <= Len(nodes) + 1
    BY <1>1, <1>2
  <2>2. QED
    BY <1>2, <1>3, <2>1, EmptyFacts DEF Queued, Forward
<1>10. QED
  BY <1>4, <1>5, <1>6, <1>7, <1>8, <1>9 DEF GraphInv

-----------------------------------------------------------------------------
(* Kahn's algorithm.  What was read stays as it is. *)

LEMMA ReadSame ==
  ASSUME NodesRead, EdgesRead, Linked, pc' \notin {"nodes", "edges"},
         UNCHANGED <<nodes, edges, known, adj>>
  PROVE  NodesRead' /\ EdgesRead'
<1>1. Past
  BY DEF Linked, Past
<1>2. NodesRead'
  BY <1>1 DEF NodesRead, NodeSet, Distinct
<1>3. EdgeSet' = EdgeSet /\ \A c : Slots(c)' = Slots(c)
  BY SlotsSame DEF EdgeSet
<1>4. EdgesRead'
  BY <1>1, <1>3 DEF EdgesRead
<1>5. QED
  BY <1>2, <1>4

LEMMA EnqueueSourceInv ==
  ASSUME GraphInv, EnqueueSource
  PROVE  GraphInv'
<1> DEFINE n == nodes[i].id
<1>1. /\ Types /\ Verdicts /\ NodesRead /\ EdgesRead /\ Degrees /\ Queued
      /\ pc = "start" /\ i <= Len(nodes) /\ Len(nodes) \in Nat /\ DOMAIN nodes = 1..Len(nodes)
  BY LenProperties DEF GraphInv, Types, EnqueueSource
<1>2. /\ i' = i + 1 /\ queue' = IF inDegree[n] = 0 THEN Append(queue, n) ELSE queue
      /\ UNCHANGED <<nodes, edges, pc, known, triggers, adj, inDegree, order, remaining, cur, verdict>>
  BY DEF EnqueueSource
<1>3. /\ order = <<>> /\ remaining = 0 /\ verdict = "none" /\ Past /\ Linked /\ ~Sorting /\ ~Sorting'
  BY <1>1, <1>2, StageFacts DEF Verdicts, Sorting, Past, Linked
<1>4. /\ i \in 1..Len(nodes) /\ i' - 1 = i /\ i' \in Nat \ {0} /\ i' <= Len(nodes) + 1
      /\ \A k \in 1..i : k \in 1..(i - 1) \/ k = i
      /\ i \in 1..i /\ i \notin 1..(i - 1) /\ \A k \in 1..(i - 1) : k \in 1..i /\ k \in 1..Len(nodes)
  BY <1>1, <1>2 DEF Types
<1>5. n \in known /\ n \in Ids
  BY <1>1, <1>3, <1>4 DEF NodesRead, NodeSet, Types
<1>6. n \notin Range(queue)
  <2>1. n \notin Ranged(i - 1)
    BY <1>1, <1>3, <1>4 DEF NodesRead, Distinct, Ranged
  <2>2. QED
    BY <1>1, <2>1 DEF Queued
<1>7. /\ queue' \in Seq(Ids) /\ IsInjective(queue')
      /\ Range(queue') = IF inDegree[n] = 0 THEN Range(queue) \cup {n} ELSE Range(queue)
  <2>1. queue \in Seq(Ids) /\ IsInjective(queue)
    BY <1>1 DEF Types, Queued
  <2> HIDE DEF n
  <2>2. /\ Append(queue, n) \in Seq(Ids) /\ IsInjective(Append(queue, n))
        /\ Range(Append(queue, n)) = Range(queue) \cup {n}
    BY <1>5, <1>6, <2>1, AppendFacts
  <2>3. QED
    BY <1>2, <2>1, <2>2
<1> HIDE DEF n
<1>8. Types'
  BY <1>1, <1>2, <1>4, <1>7 DEF Types
<1>9. Verdicts'
  BY <1>1, <1>2, <1>3 DEF Verdicts, Sorted
<1>10. NodesRead' /\ EdgesRead'
  BY <1>1, <1>2, <1>3, ReadSame
<1>11. Degrees'
  BY <1>1, <1>2, OpenSame DEF Degrees
<1>12. Queued'
  <2>1. ASSUME NEW m \in Range(queue') PROVE m \in Ranged(i) /\ m \in known /\ inDegree[m] = 0
    <3>1. CASE m = n /\ inDegree[n] = 0
      BY <1>4, <1>5, <3>1 DEF Ranged, n
    <3>2. CASE m \in Range(queue)
      <4>1. m \in Ranged(i - 1) /\ m \in known /\ inDegree[m] = 0
        BY <1>1, <3>2 DEF Queued
      <4>2. QED
        BY <1>4, <4>1 DEF Ranged
    <3>3. QED
      BY <1>7, <2>1, <3>1, <3>2
  <2>2. ASSUME NEW k \in 1..i, inDegree[nodes[k].id] = 0 PROVE nodes[k].id \in Range(queue')
    <3>1. CASE k = i
      BY <1>7, <2>2, <3>1 DEF n
    <3>2. CASE k \in 1..(i - 1)
      BY <1>1, <1>7, <2>2, <3>2 DEF Queued
    <3>3. QED
      BY <1>4, <3>1, <3>2
  <2>3. QED
    BY <1>2, <1>3, <1>4, <1>7, <2>1, <2>2, EmptyFacts DEF Queued, Ranged
<1>13. Forward'
  BY <1>2, <1>3, EmptyFacts DEF Forward
<1>14. QED
  BY <1>8, <1>9, <1>10, <1>11, <1>12, <1>13 DEF GraphInv

LEMMA StartKahnInv ==
  ASSUME GraphInv, StartKahn
  PROVE  GraphInv'
<1>1. /\ Types /\ Verdicts /\ NodesRead /\ EdgesRead /\ Degrees /\ Queued
      /\ pc = "start" /\ i > Len(nodes) /\ Len(nodes) \in Nat /\ DOMAIN nodes = 1..Len(nodes)
  BY LenProperties DEF GraphInv, Types, StartKahn
<1>2. /\ remaining' = Len(nodes) /\ pc' = "kahn"
      /\ UNCHANGED <<nodes, edges, i, known, triggers, adj, inDegree, queue, order, cur, verdict>>
  BY DEF StartKahn
<1>3. /\ order = <<>> /\ verdict = "none" /\ Past /\ Linked /\ Sorting'
  BY <1>1, <1>2, StageFacts DEF Verdicts, Sorting, Past, Linked
<1>4. i - 1 = Len(nodes)
  <2>1. i <= Len(nodes) + 1 /\ i \in Nat
    BY <1>1 DEF Queued, Types
  <2> DEFINE l == Len(nodes)
  <2>2. l \in Nat /\ i <= l + 1 /\ i > l
    BY <1>1, <2>1
  <2> HIDE DEF l
  <2>3. i - 1 = l
    BY <2>1, <2>2
  <2>4. QED
    BY <2>3 DEF l
<1>5. Types'
  BY <1>1, <1>2 DEF Types, Stages
<1>6. Verdicts'
  BY <1>1, <1>2, <1>3 DEF Verdicts, Sorted
<1>7. NodesRead' /\ EdgesRead'
  BY <1>1, <1>2, <1>3, ReadSame
<1>8. Degrees'
  BY <1>1, <1>2, OpenSame DEF Degrees
<1>9. Queued'
  <2>1. \A n \in known : inDegree[n] = 0 => n \in Range(queue)
    <3>1. \A k \in 1..Len(nodes) : inDegree[nodes[k].id] = 0 => nodes[k].id \in Range(queue)
      BY <1>1, <1>4 DEF Queued
    <3>2. \A n \in known : \E k \in 1..Len(nodes) : n = nodes[k].id
      BY <1>1, <1>3 DEF NodesRead, NodeSet
    <3>3. QED
      BY <3>1, <3>2
  <2>2. remaining' = Len(nodes) - Len(order)
    BY <1>1, <1>2, <1>3, EmptyFacts
  <2>3. QED
    BY <1>1, <1>2, <2>1, <2>2 DEF Queued
<1>10. Forward'
  BY <1>2, <1>3, EmptyFacts DEF Forward
<1>11. QED
  BY <1>5, <1>6, <1>7, <1>8, <1>9, <1>10 DEF GraphInv

(* The head of the queue has no open edge: all that enter it come from nodes
   that are listed. *)
LEMMA TakeNodeInv ==
  ASSUME GraphInv, TakeNode
  PROVE  GraphInv'
<1> DEFINE n == Head(queue)
           l == Len(order)
<1>1. /\ Types /\ Verdicts /\ NodesRead /\ EdgesRead /\ Degrees /\ Queued /\ Forward
      /\ pc = "kahn" /\ queue # <<>> /\ queue \in Seq(Ids) /\ order \in Seq(Ids)
  BY DEF GraphInv, Types, TakeNode
<1>2. /\ cur' = n /\ queue' = Tail(queue) /\ order' = Append(order, n)
      /\ remaining' = remaining - 1 /\ i' = 1 /\ pc' = "relax"
      /\ UNCHANGED <<nodes, edges, known, triggers, adj, inDegree, verdict>>
  BY DEF TakeNode
<1>3. verdict = "none" /\ Past /\ Linked /\ Sorting /\ Sorting'
  BY <1>1, <1>2, StageFacts DEF Verdicts, Sorting, Past, Linked
<1>4. /\ n \in Ids /\ Tail(queue) \in Seq(Ids) /\ Range(queue) = {n} \cup Range(Tail(queue))
      /\ IsInjective(Tail(queue)) /\ n \notin Range(Tail(queue))
  BY <1>1, TailFacts DEF Queued
<1>5. n \notin Range(order) /\ n \in known /\ inDegree[n] = 0
  BY <1>1, <1>4 DEF Queued
<1>6. /\ order' \in Seq(Ids) /\ l \in Nat /\ DOMAIN order = 1..l /\ Len(order') = l + 1
      /\ DOMAIN order' = 1..(l + 1) /\ order'[l + 1] = n /\ \A k \in 1..l : order'[k] = order[k]
      /\ Range(order') = Range(order) \cup {n} /\ IsInjective(order')
  <2> HIDE DEF n
  <2> QED
    BY <1>1, <1>2, <1>4, <1>5, AppendFacts DEF Queued
<1>7. Types'
  BY <1>1, <1>2, <1>4, <1>6 DEF Types, Stages
<1>8. Verdicts'
  BY <1>2, <1>3, <1>6 DEF Verdicts, Sorted
<1>9. NodesRead' /\ EdgesRead'
  BY <1>1, <1>2, <1>3, ReadSame
<1>10. ASSUME NEW t PROVE Open(t)' = Open(t)
  <2>1. Slots(t)' = Slots(t)
    BY <1>2, SlotsSame
  <2>2. ASSUME NEW p \in Slots(t) PROVE Taken(p)' <=> Taken(p)
    <3>1. ~(p[2] < i')
      <4>1. p[1] \in Ids /\ p[2] \in DOMAIN adj[p[1]] /\ p[2] \in Nat
        BY SlotFacts
      <4>2. adj[p[1]] \in Seq(Ids)
        BY <1>1, <4>1 DEF Types
      <4>3. p[2] \in 1..Len(adj[p[1]]) /\ Len(adj[p[1]]) \in Nat
        BY <4>1, <4>2, LenProperties
      <4>4. p[2] >= 1
        BY <4>1, <4>3
      <4>5. QED
        BY <1>2, <4>1, <4>4
    <3>2. Taken(p)' <=> p[1] \in Range(order) \cup {n} /\ p[1] # n
      BY <1>2, <1>6, <3>1 DEF Taken
    <3>3. Taken(p) <=> p[1] \in Range(order)
      BY <1>1 DEF Taken
    <3>4. QED
      BY <1>5, <3>2, <3>3
  <2>3. QED
    BY <2>1, <2>2 DEF Open
<1>11. Degrees'
  BY <1>1, <1>2, <1>10 DEF Degrees
<1>12. Queued'
  <2>1. remaining' = Len(nodes) - Len(order')
    <3>1. remaining = Len(nodes) - l /\ Len(nodes) \in Nat
      BY <1>1, <1>3, LenProperties DEF Queued, Types
    <3> DEFINE ln == Len(nodes)
    <3> HIDE DEF l, ln
    <3>2. remaining - 1 = ln - (l + 1)
      BY <1>6, <3>1 DEF ln
    <3>3. QED
      BY <1>2, <1>6, <3>2 DEF ln
  <2>2. \A m \in known : inDegree[m] = 0 => m \in Range(Tail(queue)) \cup Range(order')
    BY <1>1, <1>3, <1>4, <1>6 DEF Queued
  <2>3. /\ Range(Tail(queue)) \cap Range(order') = {}
        /\ Range(Tail(queue)) \subseteq known /\ Range(order') \subseteq known
        /\ \A m \in Range(Tail(queue)) \cup Range(order') : inDegree[m] = 0
    BY <1>1, <1>4, <1>5, <1>6 DEF Queued
  <2>4. QED
    BY <1>2, <1>4, <1>6, <2>1, <2>2, <2>3 DEF Queued
<1>13. Forward'
  <2>1. ASSUME NEW k \in 1..(l + 1), NEW p \in Slots(order'[k])
        PROVE  \E j \in 1..(k - 1) : order'[j] = p[1]
    <3>1. k = l + 1 \/ k \in 1..l
      BY <1>6
    <3>2. CASE k = l + 1
      <4>1. Open(n) = {} /\ order'[k] = n
        BY <1>1, <1>4, <1>5, <1>6, <3>2, DegreeZero
      <4>2. p[1] \in Range(order)
        BY <2>1, <4>1 DEF Open, Taken
      <4>3. PICK j \in 1..l : order[j] = p[1]
        BY <1>6, <4>2 DEF Range
      <4>4. j \in 1..(k - 1)
        BY <1>6, <3>2
      <4>5. QED
        BY <1>6, <4>3, <4>4
    <3>3. CASE k \in 1..l
      <4>1. PICK j \in 1..(k - 1) : order[j] = p[1]
        BY <1>1, <1>6, <2>1, <3>3 DEF Forward
      <4>2. j \in 1..l
        BY <1>6, <3>3
      <4>3. QED
        BY <1>6, <4>1, <4>2
    <3>4. QED
      BY <3>1, <3>2, <3>3
  <2>2. QED
    BY <1>2, <1>6, <2>1, SlotsSame DEF Forward
<1>14. QED
  BY <1>7, <1>8, <1>9, <1>11, <1>12, <1>13 DEF GraphInv

LEMMA RelaxEdgeInv ==
  ASSUME GraphInv, RelaxEdge
  PROVE  GraphInv'
<1> DEFINE t == adj[cur][i]
           slot == <<cur, i>>
<1>1. /\ Types /\ Verdicts /\ NodesRead /\ EdgesRead /\ Degrees /\ Queued /\ Forward
      /\ pc = "relax" /\ i <= Len(adj[cur]) /\ i \in Nat \ {0}
  BY DEF GraphInv, Types, RelaxEdge
<1>2. /\ i' = i + 1 /\ inDegree' = [inDegree EXCEPT ![t] = inDegree[t] - 1]
      /\ queue' = IF inDegree[t] = 1 THEN Append(queue, t) ELSE queue
      /\ UNCHANGED <<nodes, edges, pc, known, triggers, adj, order, remaining, cur, verdict>>
  BY DEF RelaxEdge
<1>3. /\ verdict = "none" /\ Past /\ Linked /\ Sorting /\ Sorting' /\ cur \in Range(order)
      /\ cur \in Ids
  BY <1>1, <1>2, StageFacts DEF Verdicts, Sorting, Past, Linked, Queued, Types
<1>4. i \in DOMAIN adj[cur] /\ t \in Ids /\ DOMAIN adj[cur] = 1..Len(adj[cur])
  <2>1. adj[cur] \in Seq(Ids)
    BY <1>1, <1>3 DEF Types
  <2>2. Len(adj[cur]) \in Nat /\ DOMAIN adj[cur] = 1..Len(adj[cur])
    BY <2>1, LenProperties
  <2>3. i \in 1..Len(adj[cur])
    BY <1>1, <2>2
  <2>4. QED
    BY <2>1, <2>2, <2>3, ElementOfSeq
<1>5. slot \in Slots(t) /\ ~Taken(slot)
  <2>1. slot \in Slots(t)
    BY <1>1, <1>3, <1>4, SlotFacts
  <2>2. slot[1] = cur /\ slot[2] = i
    OBVIOUS
  <2>3. ~(i < i)
    BY <1>1
  <2>4. QED
    BY <1>1, <2>1, <2>2, <2>3 DEF Taken
<1>6. slot \in Open(t) /\ t \in known
  BY <1>1, <1>3, <1>4, <1>5 DEF Open, EdgesRead
<1>7. inDegree[t] # 0 /\ inDegree[t] \in Nat
  <2>1. Open(t) # {}
    BY <1>6
  <2>2. QED
    BY <1>1, <1>4, <2>1, DegreeZero DEF Types
<1>8. t \notin Range(queue) /\ t \notin Range(order)
  BY <1>1, <1>7 DEF Queued
<1>9. ASSUME NEW c PROVE Open(c)' = Open(c) \ {slot}
  <2>1. Slots(c)' = Slots(c)
    BY <1>2, SlotsSame
  <2>2. ASSUME NEW p \in Slots(c) PROVE Taken(p)' <=> Taken(p) \/ p = slot
    <3>1. p = <<p[1], p[2]>> /\ p[2] \in Nat
      BY SlotFacts
    <3>2. p = slot <=> p[1] = cur /\ p[2] = i
      BY <3>1
    <3>3. p[2] < i + 1 <=> p[2] < i \/ p[2] = i
      <4> DEFINE x == p[2]
      <4>1. x \in Nat /\ i \in Nat
        BY <1>1, <3>1
      <4> HIDE DEF x
      <4>2. x < i + 1 <=> x < i \/ x = i
        BY <4>1
      <4>3. QED
        BY <4>2 DEF x
    <3>4. Taken(p)' <=> p[1] \in Range(order) /\ (p[1] = cur => p[2] < i + 1)
      BY <1>1, <1>2 DEF Taken
    <3>5. Taken(p) <=> p[1] \in Range(order) /\ (p[1] = cur => p[2] < i)
      BY <1>1 DEF Taken
    <3> HIDE DEF slot
    <3>6. QED
      BY <1>3, <3>2, <3>3, <3>4, <3>5
  <2> HIDE DEF slot
  <2>3. QED
    BY <2>1, <2>2 DEF Open
<1>10. /\ inDegree'[t] = inDegree[t] - 1 /\ inDegree' \in [Ids -> Nat]
       /\ \A c \in Ids : c # t => inDegree'[c] = inDegree[c]
  <2> DEFINE d == inDegree[t]
  <2>1. inDegree \in [Ids -> Nat] /\ d \in Nat /\ d # 0
    BY <1>1, <1>7 DEF Types
  <2> HIDE DEF d
  <2>2. d - 1 \in Nat
    BY <2>1
  <2> HIDE DEF t
  <2>3. inDegree' = [inDegree EXCEPT ![t] = d - 1]
    BY <1>2 DEF d
  <2>4. inDegree'[t] = d - 1 /\ inDegree' \in [Ids -> Nat]
    BY <1>4, <2>1, <2>2, <2>3
  <2>5. QED
    BY <1>4, <2>1, <2>3, <2>4 DEF d
<1>11. /\ queue' \in Seq(Ids) /\ IsInjective(queue')
       /\ Range(queue') = IF inDegree[t] = 1 THEN Range(queue) \cup {t} ELSE Range(queue)
  <2>1. queue \in Seq(Ids) /\ IsInjective(queue)
    BY <1>1 DEF Types, Queued
  <2> HIDE DEF t
  <2>2. /\ Append(queue, t) \in Seq(Ids) /\ IsInjective(Append(queue, t))
        /\ Range(Append(queue, t)) = Range(queue) \cup {t}
    BY <1>4, <1>8, <2>1, AppendFacts
  <2>3. QED
    BY <1>2, <2>1, <2>2
<1>12. Types'
  <2>1. i' \in Nat \ {0}
    BY <1>1, <1>2
  <2>2. QED
    BY <1>1, <1>2, <1>10, <1>11, <2>1 DEF Types
<1>13. Verdicts'
  BY <1>1, <1>2, <1>3 DEF Verdicts, Sorted
<1>14. NodesRead' /\ EdgesRead'
  BY <1>1, <1>2, <1>3, ReadSame
<1>15. Degrees'
  <2>1. ASSUME NEW c \in Ids PROVE IsFiniteSet(Open(c)') /\ inDegree'[c] = Cardinality(Open(c)')
    <3>1. IsFiniteSet(Open(c)) /\ inDegree[c] = Cardinality(Open(c))
      BY <1>1 DEF Degrees
    <3>2. CASE c = t
      <4> HIDE DEF slot
      <4>1. IsFiniteSet(Open(c) \ {slot}) /\ Cardinality(Open(c) \ {slot}) = Cardinality(Open(c)) - 1
        BY <1>6, <3>1, <3>2, FS_RemoveElement
      <4>2. QED
        BY <1>9, <1>10, <3>1, <3>2, <4>1
    <3>3. CASE c # t
      <4>1. slot \notin Open(c)
        <5>1. slot \in Slots(c) => adj[slot[1]][slot[2]] = c
          BY SlotFacts
        <5>2. slot[1] = cur /\ slot[2] = i
          OBVIOUS
        <5>3. QED
          BY <3>3, <5>1, <5>2 DEF Open
      <4> HIDE DEF slot
      <4>2. Open(c)' = Open(c)
        BY <1>9, <4>1
      <4>3. QED
        BY <1>10, <3>1, <3>3, <4>2
    <3>4. QED
      BY <3>2, <3>3
  <2>2. QED
    BY <2>1 DEF Degrees
<1> HIDE DEF t, slot
<1>16. Queued'
  <2>1. ASSUME NEW m \in known, inDegree'[m] = 0 PROVE m \in Range(queue') \cup Range(order)
    <3>1. CASE m = t
      <4>1. inDegree[t] = 1
        BY <1>7, <1>10, <2>1, <3>1
      <4>2. QED
        BY <1>11, <3>1, <4>1
    <3>2. CASE m # t
      <4>1. inDegree[m] = 0
        BY <1>1, <1>10, <2>1, <3>2 DEF Types
      <4>2. QED
        BY <1>1, <1>3, <1>11, <4>1 DEF Queued
    <3>3. QED
      BY <3>1, <3>2
  <2>2. ASSUME NEW m \in Range(queue') \cup Range(order) PROVE inDegree'[m] = 0
    <3>1. CASE m = t
      <4>1. inDegree[t] = 1
        BY <1>8, <1>11, <2>2, <3>1
      <4>2. QED
        BY <1>10, <3>1, <4>1
    <3>2. CASE m # t
      <4>1. m \in Range(queue) \cup Range(order)
        BY <1>11, <2>2, <3>2
      <4>2. inDegree[m] = 0 /\ m \in Ids
        BY <1>1, <4>1 DEF Queued, Types
      <4>3. QED
        BY <1>10, <3>2, <4>2
    <3>3. QED
      BY <3>1, <3>2
  <2>3. /\ Range(queue') \cap Range(order) = {} /\ Range(queue') \subseteq known
        /\ Range(order) \subseteq known /\ IsInjective(order)
        /\ remaining = Len(nodes) - Len(order)
    BY <1>1, <1>3, <1>6, <1>8, <1>11 DEF Queued
  <2>4. QED
    BY <1>1, <1>2, <1>11, <2>1, <2>2, <2>3 DEF Queued
<1>17. Forward'
  BY <1>1, <1>2, SlotsSame DEF Forward
<1>18. QED
  BY <1>12, <1>13, <1>14, <1>15, <1>16, <1>17 DEF GraphInv

LEMMA RelaxDoneInv ==
  ASSUME GraphInv, RelaxDone
  PROVE  GraphInv'
<1>1. /\ Types /\ Verdicts /\ NodesRead /\ EdgesRead /\ Degrees /\ Queued /\ Forward
      /\ pc = "relax" /\ i > Len(adj[cur]) /\ i \in Nat
  BY DEF GraphInv, Types, RelaxDone
<1>2. /\ pc' = "kahn"
      /\ UNCHANGED <<nodes, edges, i, known, triggers, adj, inDegree, queue, order, remaining, cur, verdict>>
  BY DEF RelaxDone
<1>3. /\ verdict = "none" /\ Past /\ Linked /\ Sorting /\ Sorting' /\ cur \in Ids
  BY <1>1, <1>2, StageFacts DEF Verdicts, Sorting, Past, Linked, Queued, Types
<1>4. Types'
  BY <1>1, <1>2 DEF Types, Stages
<1>5. Verdicts'
  BY <1>1, <1>2, <1>3 DEF Verdicts, Sorted
<1>6. NodesRead' /\ EdgesRead'
  BY <1>1, <1>2, <1>3, ReadSame
<1>7. ASSUME NEW t PROVE Open(t)' = Open(t)
  <2>1. Slots(t)' = Slots(t)
    BY <1>2, SlotsSame
  <2>2. ASSUME NEW p \in Slots(t) PROVE Taken(p)' <=> Taken(p)
    <3>1. p[1] = cur => p[2] < i
      <4>1. p[1] \in Ids /\ p[2] \in DOMAIN adj[p[1]] /\ p[2] \in Nat
        BY SlotFacts
      <4>2. adj[cur] \in Seq(Ids)
        BY <1>1, <1>3 DEF Types
      <4>3. Len(adj[cur]) \in Nat /\ DOMAIN adj[cur] = 1..Len(adj[cur])
        BY <4>2, LenProperties
      <4> DEFINE x == p[2]
                 l == Len(adj[cur])
      <4>4. l \in Nat /\ i > l /\ x \in Nat /\ (p[1] = cur => x \in 1..l)
        BY <1>1, <4>1, <4>3
      <4> HIDE DEF x, l
      <4>5. p[1] = cur => x < i
        BY <1>1, <4>4
      <4>6. QED
        BY <4>5 DEF x
    <3>2. QED
      BY <1>1, <1>2, <3>1 DEF Taken
  <2>3. QED
    BY <2>1, <2>2 DEF Open
<1>8. Degrees'
  BY <1>1, <1>2, <1>7 DEF Degrees
<1>9. Queued'
  BY <1>1, <1>2, <1>3 DEF Queued
<1>10. Forward'
  BY <1>1, <1>2, SlotsSame DEF Forward
<1>11. QED
  BY <1>4, <1>5, <1>6, <1>8, <1>9, <1>10 DEF GraphInv

LEMMA FinishInv ==
  ASSUME GraphInv, Finish
  PROVE  GraphInv'
<1>1. /\ Types /\ Verdicts /\ NodesRead /\ EdgesRead /\ Degrees /\ Queued /\ Forward
      /\ pc = "kahn" /\ queue = <<>>
  BY DEF GraphInv, Finish
<1>2. /\ pc' = "done" /\ verdict' = IF remaining # 0 THEN "cycle" ELSE "ok"
      /\ UNCHANGED <<nodes, edges, i, known, triggers, adj, inDegree, queue, order, remaining, cur>>
  BY DEF Finish, Return
<1>3. Linked /\ Sorting /\ Sorting' /\ verdict' \in Sorted
  BY <1>1, <1>2, StageFacts DEF Sorting, Linked, Sorted
<1>4. Types'
  BY <1>1, <1>2, <1>3 DEF Types, Stages
<1>5. Verdicts'
  BY <1>1, <1>2, <1>3 DEF Verdicts
<1>6. NodesRead' /\ EdgesRead'
  BY <1>1, <1>2, <1>3, ReadSame
<1>7. Degrees'
  BY <1>1, <1>2, OpenSame DEF Degrees
<1>8. Queued'
  BY <1>1, <1>2, <1>3 DEF Queued
<1>9. Forward'
  BY <1>1, <1>2, SlotsSame DEF Forward
<1>10. QED
  BY <1>4, <1>5, <1>6, <1>7, <1>8, <1>9 DEF GraphInv

-----------------------------------------------------------------------------
(* The invariant. *)

LEMMA InitInv == Init => GraphInv
<1>1. SUFFICES ASSUME Init PROVE GraphInv
  OBVIOUS
<1>2. /\ nodes \in SeqUpTo(Row, MaxNodes) /\ edges = <<>> /\ pc = "nodes" /\ i = 1 /\ known = {}
      /\ triggers = 0 /\ adj = [n \in Ids |-> <<>>] /\ inDegree = [n \in Ids |-> 0]
      /\ queue = <<>> /\ order = <<>> /\ remaining = 0 /\ cur = NoId /\ verdict = "none"
  BY <1>1 DEF Init, Row
<1>3. nodes \in Seq(Row) /\ Len(nodes) \in Nat
  <2>1. nodes \in Seq(Row)
    BY <1>2, SeqUpToType, BoundsAssumption
  <2>2. QED
    BY <2>1, LenProperties
<1>4. ~Past /\ ~Linked /\ ~Sorting
  BY <1>2 DEF Past, Linked, Sorting, Sorted
<1>5. Types
  <2>1. adj \in [Ids -> Seq(Ids)] /\ inDegree \in [Ids -> Nat]
    BY <1>2
  <2>2. QED
    BY <1>2, <1>3, <2>1 DEF Types, Stages
<1>6. Verdicts
  BY <1>2 DEF Verdicts, Sorted
<1>7. NodesRead
  <2>1. 1..(i - 1) = {} /\ i <= Len(nodes) + 1
    BY <1>2, <1>3
  <2>2. QED
    BY <1>2, <1>4, <2>1 DEF NodesRead, Ranged, Distinct
<1>8. EdgesRead
  BY <1>2, <1>4 DEF EdgesRead
<1>9. Degrees
  <2>1. ASSUME NEW t \in Ids PROVE Open(t) = {}
    BY <1>2, SlotFacts, EmptyFacts DEF Open
  <2>2. QED
    BY <1>2, <2>1, FS_EmptySet DEF Degrees
<1>10. Queued /\ Forward
  BY <1>2, <1>4, EmptyFacts DEF Queued, Forward
<1>11. QED
  BY <1>5, <1>6, <1>7, <1>8, <1>9, <1>10 DEF GraphInv

LEMMA StutterInv ==
  ASSUME GraphInv, UNCHANGED vars
  PROVE  GraphInv'
<1>1. UNCHANGED <<nodes, edges, pc, i, known, triggers, adj, inDegree, queue, order, remaining, cur, verdict>>
  BY DEF vars
<1>2. Types' /\ Verdicts' /\ NodesRead'
  BY <1>1 DEF GraphInv, Types, Verdicts, NodesRead, Ranged, Distinct, NodeSet, Past, Sorting
<1>3. \A t : Slots(t)' = Slots(t) /\ Open(t)' = Open(t)
  BY <1>1 DEF Slots, Open, Taken
<1>4. EdgesRead' /\ Degrees' /\ Forward'
  BY <1>1, <1>3 DEF GraphInv, EdgesRead, Degrees, Forward, Joins, EdgeSet, Past, Linked
<1>5. Queued'
  BY <1>1 DEF GraphInv, Queued, Ranged, Sorting
<1>6. QED
  BY <1>2, <1>4, <1>5 DEF GraphInv

LEMMA NextInv == GraphInv /\ [Next]_vars => GraphInv'
  BY CheckNodeInv, CheckTriggersInv, CheckEdgeInv, EdgesCheckedInv, EnqueueSourceInv,
     StartKahnInv, TakeNodeInv, RelaxEdgeInv, RelaxDoneInv, FinishInv, StutterInv DEF Next, Done

LEMMA AlwaysInv == Spec => []GraphInv
  BY InitInv, NextInv, PTL DEF Spec

-----------------------------------------------------------------------------
(* What the end of Kahn's loop says. *)

(* As many nodes are listed as there are only if all are. *)
LEMMA AllListed ==
  ASSUME GraphInv, Sorting
  PROVE  /\ remaining \in Nat
         /\ remaining = 0 <=> Range(order) = NodeSet
         /\ Range(order) \subseteq NodeSet
<1> DEFINE ids == [k \in 1..Len(nodes) |-> nodes[k].id]
           ln == Len(nodes)
           lo == Len(order)
<1>1. /\ Types /\ known = NodeSet /\ Distinct(Len(nodes)) /\ Queued
  BY DEF GraphInv, NodesRead, Sorting, Past
<1>2. ln \in Nat /\ DOMAIN nodes = 1..ln /\ lo \in Nat
  BY <1>1, LenProperties DEF Types
<1>3. ids \in Seq(NodeSet) /\ Range(ids) = NodeSet /\ IsInjective(ids) /\ Len(ids) = ln
  <2>1. ids \in [1..ln -> NodeSet] /\ DOMAIN ids = 1..ln
    BY <1>2 DEF NodeSet
  <2>2. ids \in Seq(NodeSet) /\ Len(ids) = ln
    <3> HIDE DEF ids, ln
    <3>1. ids \in Seq(NodeSet)
      BY <1>2, <2>1
    <3>2. QED
      BY <1>2, <2>1, <3>1, LenProperties
  <2>3. Range(ids) = NodeSet
    BY <1>2, <2>1 DEF Range, NodeSet
  <2>4. IsInjective(ids)
    BY <1>1, <2>1 DEF IsInjective, Distinct
  <2>5. QED
    BY <2>2, <2>3, <2>4
<1>4. IsFiniteSet(NodeSet) /\ Cardinality(NodeSet) = ln
  <2> HIDE DEF ids
  <2> QED
    BY <1>3, InjectiveLength
<1>5. IsFiniteSet(Range(order)) /\ Cardinality(Range(order)) = lo
  BY <1>1, InjectiveLength DEF Queued, Types
<1>6. Range(order) \in SUBSET NodeSet
  BY <1>1 DEF Queued
<1>7. lo <= ln /\ (ln = lo => NodeSet = Range(order)) /\ (NodeSet = Range(order) => ln = lo)
  <2>1. /\ Cardinality(Range(order)) <= Cardinality(NodeSet)
        /\ Cardinality(NodeSet) = Cardinality(Range(order)) => NodeSet = Range(order)
    BY <1>4, <1>6, FS_Subset
  <2>2. QED
    BY <1>4, <1>5, <2>1
<1>8. remaining = ln - lo
  BY <1>1 DEF Queued
<1> HIDE DEF ln, lo
<1>9. remaining \in Nat /\ (remaining = 0 <=> ln = lo)
  BY <1>2, <1>7, <1>8
<1>10. QED
  BY <1>6, <1>7, <1>9

LEMMA LeastPlace ==
  ASSUME NEW T \in SUBSET Nat, T # {}
  PROVE  \E k \in T : \A j \in T : k <= j
<1>1. PICK k \in T : \A j \in T : ~(<<j, k>> \in OpToRel(<, Nat))
  BY NatLessThanWellFounded, WFMin
<1>2. ASSUME NEW j \in T PROVE k <= j
  <2>1. ~(j < k)
    BY <1>1 DEF OpToRel
  <2>2. QED
    BY <2>1
<1>3. QED
  BY <1>2

(* TopologicalOrder: whatever nodes and edges a document lists, the order
   holds no node twice, all nodes of an accepted flow, and each node only
   after all its predecessors. *)
THEOREM OrdersAreTopological == Spec => []OrderIsTopological
<1>1. ASSUME GraphInv PROVE OrderIsTopological
  <2>1. IsInjective(order) /\ Types /\ Verdicts /\ EdgesRead /\ Forward
    BY <1>1 DEF GraphInv, Queued
  <2>2. \A j, k \in DOMAIN order : order[j] = order[k] => j = k
    BY <2>1 DEF IsInjective
  <2>3. verdict = "ok" => {order[k] : k \in DOMAIN order} = NodeSet
    BY <1>1, <2>1, AllListed DEF Verdicts, Sorting, Sorted, Range
  <2>4. ASSUME NEW k \in DOMAIN order, NEW e \in EdgeSet, e[2] = order[k]
        PROVE  \E j \in 1..(k - 1) : order[j] = e[1]
    <3>1. Sorting /\ Linked
      BY <2>1, <2>4, EmptyFacts DEF Verdicts, Sorting, Linked
    <3>2. PICK m \in DOMAIN edges : e = <<edges[m].source, edges[m].target>>
      BY DEF EdgeSet
    <3>3. order[k] \in Ids
      BY <2>1, <2>4, ElementOfSeq, LenProperties DEF Types
    <3>4. e = <<e[1], e[2]>>
      BY <3>2
    <3>5. e[1] \in Ids
      BY <2>1, <3>1, <3>2 DEF EdgesRead, Types
    <3>6. PICK p \in Slots(order[k]) : p[1] = e[1]
      BY <2>1, <2>4, <3>1, <3>3, <3>4, <3>5 DEF EdgesRead
    <3>7. QED
      BY <2>1, <3>6 DEF Forward
  <2>5. QED
    BY <2>2, <2>3, <2>4 DEF OrderIsTopological
<1>2. QED
  BY <1>1, AlwaysInv, PTL

(* buildGraph: whatever nodes and edges a document lists, it is refused for a
   cycle exactly if it has one. *)
THEOREM CyclesAreFound == Spec => []CycleVerdict
<1>1. ASSUME GraphInv, verdict = "ok", Cyclic PROVE FALSE
  <2>1. PICK S \in (SUBSET NodeSet) \ {{}} : \A n \in S : \E m \in S : <<m, n>> \in EdgeSet
    BY <1>1 DEF Cyclic
  <2>2. /\ Types /\ Verdicts /\ EdgesRead /\ Forward /\ Sorting /\ Linked /\ known = NodeSet
    BY <1>1 DEF GraphInv, NodesRead, Sorting, Linked, Past, Sorted
  <2>3. Range(order) = NodeSet /\ NodeSet \subseteq Ids
    BY <1>1, <2>2, AllListed DEF Verdicts, Sorted, Types
  <2> DEFINE T == {k \in DOMAIN order : order[k] \in S}
  <2>4. DOMAIN order \subseteq Nat
    <3>1. Len(order) \in Nat /\ DOMAIN order = 1..Len(order)
      BY <2>2, LenProperties DEF Types
    <3>2. QED
      BY <3>1
  <2>5. T \in SUBSET Nat /\ T # {}
    BY <2>1, <2>3, <2>4 DEF Range
  <2>6. PICK k \in T : \A j \in T : k <= j
    <3> HIDE DEF T
    <3> QED
      BY <2>5, LeastPlace
  <2>7. PICK m \in S : <<m, order[k]>> \in EdgeSet
    BY <2>1, <2>6
  <2>8. PICK p \in Slots(order[k]) : p[1] = m
    BY <2>1, <2>2, <2>3, <2>6, <2>7 DEF EdgesRead
  <2>9. PICK j \in 1..(k - 1) : order[j] = m
    BY <2>2, <2>6, <2>8 DEF Forward
  <2>10. j \in DOMAIN order /\ j < k
    <3>1. Len(order) \in Nat /\ DOMAIN order = 1..Len(order)
      BY <2>2, LenProperties DEF Types
    <3>2. k \in 1..Len(order)
      BY <2>6, <3>1
    <3>3. QED
      BY <2>9, <3>1, <3>2
  <2>11. j \in T
    BY <2>7, <2>9, <2>10
  <2>12. QED
    BY <2>4, <2>6, <2>10, <2>11
<1>2. ASSUME GraphInv, verdict = "cycle" PROVE Cyclic
  <2> DEFINE S == NodeSet \ Range(order)
  <2>1. /\ Types /\ Verdicts /\ EdgesRead /\ Degrees /\ Queued /\ Sorting /\ Linked /\ Past
        /\ known = NodeSet /\ queue = <<>> /\ remaining # 0 /\ pc # "relax"
    BY <1>2 DEF GraphInv, NodesRead, Verdicts, Sorting, Linked, Past, Sorted
  <2>2. S # {}
    BY <1>2, <2>1, AllListed
  <2>3. ASSUME NEW n \in S PROVE \E m \in S : <<m, n>> \in EdgeSet
    <3>1. n \in Ids /\ inDegree[n] # 0
      BY <2>1, <2>3, EmptyFacts DEF Types, Queued
    <3>2. PICK p \in Open(n) : TRUE
      BY <2>1, <3>1, DegreeZero
    <3>3. p \in Slots(n) /\ p[1] \notin Range(order)
      BY <2>1, <3>2 DEF Open, Taken
    <3>4. p[1] \in NodeSet /\ p[1] \in Ids
      BY <2>1, <3>1, <3>3, SlotFacts DEF EdgesRead
    <3>5. <<p[1], n>> \in EdgeSet
      BY <2>1, <3>1, <3>3, <3>4 DEF EdgesRead
    <3>6. QED
      BY <3>3, <3>4, <3>5
  <2>4. QED
    BY <2>2, <2>3 DEF Cyclic
<1>3. GraphInv => CycleVerdict
  BY <1>1, <1>2 DEF CycleVerdict
<1>4. QED
  BY <1>3, AlwaysInv, PTL

(* The type invariant: neither a degree nor the number of remaining nodes
   goes below zero. *)
THEOREM GraphTypeCorrect == Spec => []TypeOK
<1>1. ASSUME GraphInv PROVE TypeOK
  <2>1. remaining \in Nat
    BY <1>1, AllListed DEF GraphInv, Verdicts
  <2>2. QED
    BY <1>1, <2>1 DEF GraphInv, Types, TypeOK, Stages, Refusals, Sorted
<1>2. QED
  BY <1>1, AlwaysInv, PTL

=============================================================================
