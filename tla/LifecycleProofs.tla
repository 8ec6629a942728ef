-------------------------- MODULE LifecycleProofs --------------------------
(***************************************************************************)
(* Theorems about the history ring and about the process that runs it, for *)
(* every capacity, set of requests, set of sockets and backend.            *)
(***************************************************************************)
EXTENDS Lifecycle, SequenceTheorems, TLAPS

USE CapacityAssumption, MaxTimeAssumption, RequestsAssumption,
    LifecycleAssumption

-----------------------------------------------------------------------------
(* Where the elements of the buffer are. *)

LEMMA CapacityType == Capacity \in Nat /\ Capacity >= 1
  BY DEF Capacity

(* The remainders that occur: the index expression of the source computes, for
   every offset it is used with, the slot one turn around at most. *)
LEMMA SmallRemainder ==
  ASSUME NEW b \in Nat, b >= 1, NEW a \in 0..(b - 1)
  PROVE  a % b = a /\ (a + b) % b = a
  OBVIOUS

LEMMA IndexIs ==
  ASSUME NEW o \in Int, -Capacity <= o, o < Capacity
  PROVE  Index(o) = IF o >= 0 THEN o ELSE o + Capacity
<1>0. Capacity \in Nat /\ Capacity >= 1
  BY CapacityType
<1>1. CASE o >= 0
  <2>1. GoRem(o, Capacity) = o
    BY <1>0, <1>1, SmallRemainder DEF GoRem
  <2>2. GoRem(o + Capacity, Capacity) = o
    BY <1>0, <1>1, SmallRemainder DEF GoRem
  <2>3. QED
    BY <1>1, <2>1, <2>2 DEF Index
<1>2. CASE o = -Capacity
  <2>1. Capacity % Capacity = 0
    BY <1>0, SmallRemainder
  <2>2. GoRem(o, Capacity) = 0
    BY <1>0, <1>2, <2>1 DEF GoRem
  <2>3. GoRem(0 + Capacity, Capacity) = 0
    BY <1>0, <2>1 DEF GoRem
  <2>4. QED
    BY <1>0, <1>2, <2>2, <2>3 DEF Index
<1>3. CASE o < 0 /\ o > -Capacity
  <2>1. (-o) % Capacity = -o
    BY <1>0, <1>3, SmallRemainder
  <2>2. GoRem(o, Capacity) = o
    BY <1>0, <1>3, <2>1 DEF GoRem
  <2>3. (o + Capacity) % Capacity = o + Capacity
    BY <1>0, <1>3, SmallRemainder
  <2>4. GoRem(o + Capacity, Capacity) = o + Capacity
    BY <1>0, <1>3, <2>3 DEF GoRem
  <2>5. QED
    BY <1>3, <2>2, <2>4 DEF Index
<1>4. QED
  BY <1>0, <1>1, <1>2, <1>3

-----------------------------------------------------------------------------
(* Types of the ring. *)

LEMMA InitType == Init => TypeOK
<1> SUFFICES ASSUME Init PROVE TypeOK
  OBVIOUS
<1>1. clock \in 1..MaxTime /\ head \in Slots /\ count \in 0..Capacity
  BY CapacityType DEF Init, Slots
<1>2. samples \in [Slots -> 0..MaxTime]
  BY DEF Init
<1>3. taken \in [Actors -> 0..MaxTime] /\ answer \in [Requests -> 0..MaxTime]
  BY DEF Init
<1>4. stopped \in BOOLEAN
  BY Zenon DEF Init
<1>5. /\ run \in {"off", "seed", "select", "closed"}
      /\ stopper \in {"idle", "waiting", "returned"}
      /\ req \in [Requests -> {"latest", "capture", "answered"}]
  BY DEF Init
<1>6. QED
  BY <1>1, <1>2, <1>3, <1>4, <1>5 DEF TypeOK

LEMMA WriteType ==
  ASSUME TypeOK, NEW s \in 0..MaxTime, Write(s)
  PROVE  /\ samples' \in [Slots -> 0..MaxTime] /\ head' \in Slots /\ count' \in 0..Capacity
<1>0. Capacity \in Nat /\ Capacity >= 1
  BY CapacityType
<1>1. head \in 0..(Capacity - 1) /\ count \in 0..Capacity
  BY DEF TypeOK, Slots
<1>2. head' \in Slots
  BY <1>0, <1>1 DEF Write, Slots
<1>3. samples' \in [Slots -> 0..MaxTime] /\ count' \in 0..Capacity
  BY <1>0, <1>1 DEF Write, TypeOK
<1>4. QED
  BY <1>2, <1>3

LEMMA NextType == TypeOK /\ [Next]_vars => TypeOK'
<1> SUFFICES ASSUME TypeOK, [Next]_vars PROVE TypeOK'
  OBVIOUS
<1>a. "ticker" \in Actors /\ \A r \in Requests : r \in Actors
  BY DEF Actors
<1>b. \A a \in Actors : taken[a] \in 0..MaxTime
  BY DEF TypeOK
<1>1. CASE Tick
  BY <1>1 DEF Tick, TypeOK
<1>2. CASE Start \/ Stop \/ RunReturns \/ StopReturns
  BY <1>2 DEF Start, Stop, RunReturns, StopReturns, TypeOK
<1>3. CASE TickerReads
  BY <1>3, <1>a DEF TickerReads, Read, TypeOK
<1>4. CASE TickerWrites
  <2>1. /\ samples' \in [Slots -> 0..MaxTime] /\ head' \in Slots /\ count' \in 0..Capacity
    BY <1>4, <1>a, <1>b, WriteType DEF TickerWrites
  <2>2. taken' \in [Actors -> 0..MaxTime]
    BY <1>4, <1>a DEF TickerWrites, TypeOK
  <2>3. run' = "select" /\ UNCHANGED <<clock, stopped, stopper, req, answer>>
    BY <1>4 DEF TickerWrites
  <2>4. QED
    BY <2>1, <2>2, <2>3 DEF TypeOK
<1>5. ASSUME NEW r \in Requests, ReadLatest(r) PROVE TypeOK'
  <2>1. Latest # 0 => Latest \in 0..MaxTime
    <3> SUFFICES ASSUME Latest # 0 PROVE Latest \in 0..MaxTime
      OBVIOUS
    <3>1. Capacity \in Nat /\ Capacity >= 1 /\ head \in 0..(Capacity - 1)
      BY CapacityType DEF TypeOK, Slots
    <3>2. Index(head - 1) \in Slots
      BY <3>1, IndexIs DEF Slots
    <3>3. QED
      BY <3>2 DEF Latest, TypeOK
  <2>2. QED
    BY <1>5, <2>1 DEF ReadLatest, TypeOK
<1>6. ASSUME NEW r \in Requests, RequestReads(r) PROVE TypeOK'
  BY <1>6, <1>a DEF RequestReads, Read, TypeOK
<1>7. ASSUME NEW r \in Requests, RequestWrites(r) PROVE TypeOK'
  <2>1. /\ samples' \in [Slots -> 0..MaxTime] /\ head' \in Slots /\ count' \in 0..Capacity
    BY <1>7, <1>a, <1>b, WriteType DEF RequestWrites
  <2>2. QED
    BY <1>7, <1>a, <1>b, <2>1 DEF RequestWrites, TypeOK
<1>8. CASE UNCHANGED vars
  BY <1>8 DEF vars, TypeOK
<1>9. QED
  BY <1>1, <1>2, <1>3, <1>4, <1>5, <1>6, <1>7, <1>8 DEF Next, Collector, Idle

(* head stays inside the buffer and count within the capacity, whatever the
   capacity asked for and whoever captures. *)
THEOREM RingTypeCorrect == Spec => []TypeOK
  BY InitType, NextType, PTL DEF Spec

-----------------------------------------------------------------------------
(* The ring implements the log. *)

(* Element i of a ring with head h that holds n samples. *)
Slot(h, n, i) == IF h - n + (i - 1) >= 0 THEN h - n + (i - 1)
                                         ELSE h - n + (i - 1) + Capacity

SnapshotForm ==
  /\ Snapshot = [i \in 1..count |-> samples[Slot(head, count, i)]]
  /\ Snapshot \in Seq(0..MaxTime)
  /\ Len(Snapshot) = count

LEMMA SnapshotIs == TypeOK => SnapshotForm
<1> SUFFICES ASSUME TypeOK PROVE SnapshotForm
  OBVIOUS
<1>0. /\ Capacity \in Nat /\ Capacity >= 1 /\ head \in 0..(Capacity - 1)
      /\ count \in 0..Capacity
  BY CapacityType DEF TypeOK, Slots
<1>1. \A i \in 1..count : Index(head - count + (i - 1)) = Slot(head, count, i)
  BY <1>0, IndexIs DEF Slot
<1>2. \A i \in 1..count : Slot(head, count, i) \in Slots
  BY <1>0 DEF Slot, Slots
<1>3. Snapshot = [i \in 1..count |-> samples[Slot(head, count, i)]]
  BY <1>1 DEF Snapshot
<1>4. Snapshot \in [1..count -> 0..MaxTime]
  BY <1>2, <1>3 DEF TypeOK
<1>5. Snapshot \in Seq(0..MaxTime)
  BY <1>0, <1>4, SeqDef
<1>6. Len(Snapshot) = count
  BY <1>0, <1>4, <1>5, LenProperties
<1>7. QED
  BY <1>3, <1>5, <1>6 DEF SnapshotForm

LEMMA InitLog == Init => Log!Init
<1> SUFFICES ASSUME Init PROVE Snapshot = <<>>
  BY DEF Log!Init
<1>1. TypeOK /\ count = 0
  BY InitType DEF Init
<1>2. Snapshot \in Seq(0..MaxTime) /\ Len(Snapshot) = 0
  BY <1>1, SnapshotIs DEF SnapshotForm
<1>3. QED
  BY <1>2, EmptySeq

(* write(s) appends s to the log and drops the oldest sample of a full one. *)
LEMMA WriteCaptures ==
  ASSUME TypeOK, TypeOK', NEW s \in 1..MaxTime, Write(s)
  PROVE  Log!Capture(s)
<1> DEFINE old == IF Len(Snapshot) = Capacity THEN Tail(Snapshot) ELSE Snapshot
<1>0. /\ Capacity \in Nat /\ Capacity >= 1 /\ head \in 0..(Capacity - 1)
      /\ count \in 0..Capacity /\ s \in 0..MaxTime
  BY CapacityType DEF TypeOK, Slots
<1>1. SnapshotForm
  BY SnapshotIs
<1>2. SnapshotForm'
  <2>1. TypeOK' => SnapshotForm'
    BY SnapshotIs, PTL
  <2>2. QED
    BY <2>1
<1>3. head' = IF head + 1 = Capacity THEN 0 ELSE head + 1
  <2>1. head' = (head + 1) % Capacity
    BY DEF Write
  <2>2. QED
    BY <1>0, <2>1, SmallRemainder
<1>4. samples'[head] = s /\ \A k \in Slots \ {head} : samples'[k] = samples[k]
  BY <1>0 DEF Write, TypeOK, Slots
<1>5. CASE count < Capacity
  <2>1. count' = count + 1 /\ old = Snapshot
    BY <1>0, <1>1, <1>5 DEF Write, SnapshotForm
  <2>2. /\ Append(old, s) \in Seq(0..MaxTime)
        /\ Len(Append(old, s)) = count + 1
        /\ \A i \in 1..count : Append(old, s)[i] = Snapshot[i]
        /\ Append(old, s)[count + 1] = s
    BY <1>0, <1>1, <2>1, AppendProperties DEF SnapshotForm
  <2>3. \A i \in 1..count : /\ Slot(head', count + 1, i) = Slot(head, count, i)
                            /\ Slot(head, count, i) \in Slots \ {head}
    BY <1>0, <1>3, <1>5 DEF Slot, Slots
  <2>4. Slot(head', count + 1, count + 1) = head
    BY <1>0, <1>3, <1>5 DEF Slot
  <2>5. \A i \in 1..(count + 1) : Snapshot'[i] = samples'[Slot(head', count + 1, i)]
    BY <1>2, <2>1 DEF SnapshotForm
  <2>6. \A i \in 1..count : Snapshot[i] = samples[Slot(head, count, i)]
    BY <1>1 DEF SnapshotForm
  <2>7. \A i \in 1..(count + 1) : Snapshot'[i] = Append(old, s)[i]
    BY <1>0, <1>4, <2>2, <2>3, <2>4, <2>5, <2>6
  <2>8. Snapshot' \in Seq(0..MaxTime) /\ Len(Snapshot') = count + 1
    BY <1>2, <2>1 DEF SnapshotForm
  <2>9. Snapshot' = Append(old, s)
    BY <2>2, <2>7, <2>8, SeqEqual
  <2>10. QED
    BY <2>9 DEF Log!Capture
<1>6. CASE count = Capacity
  <2>1. count' = count /\ old = Tail(Snapshot) /\ Snapshot # <<>>
    BY <1>0, <1>1, <1>6 DEF Write, SnapshotForm
  <2>2. /\ old \in Seq(0..MaxTime)
        /\ Len(old) = count - 1
        /\ \A i \in 1..(count - 1) : old[i] = Snapshot[i + 1]
    BY <1>0, <1>1, <2>1, HeadTailProperties DEF SnapshotForm
  <2>3. /\ Append(old, s) \in Seq(0..MaxTime)
        /\ Len(Append(old, s)) = count
        /\ \A i \in 1..(count - 1) : Append(old, s)[i] = Snapshot[i + 1]
        /\ Append(old, s)[count] = s
    BY <1>0, <2>2, AppendProperties
  <2>4. \A i \in 1..(count - 1) : /\ Slot(head', count, i) = Slot(head, count, i + 1)
                                  /\ Slot(head, count, i + 1) \in Slots \ {head}
    BY <1>0, <1>3, <1>6 DEF Slot, Slots
  <2>5. Slot(head', count, count) = head
    BY <1>0, <1>3, <1>6 DEF Slot
  <2>6. \A i \in 1..count : Snapshot'[i] = samples'[Slot(head', count, i)]
    BY <1>2, <2>1 DEF SnapshotForm
  <2>7. \A i \in 1..count : Snapshot[i] = samples[Slot(head, count, i)]
    BY <1>1 DEF SnapshotForm
  <2>8. ASSUME NEW i \in 1..(count - 1) PROVE Snapshot'[i] = Append(old, s)[i]
    <3>1. i \in 1..count /\ i + 1 \in 1..count
      BY <1>0, <2>8
    <3>2. Snapshot'[i] = samples'[Slot(head, count, i + 1)]
      BY <2>4, <2>6, <3>1
    <3>3. samples'[Slot(head, count, i + 1)] = samples[Slot(head, count, i + 1)]
      BY <1>4, <2>4
    <3>4. Append(old, s)[i] = samples[Slot(head, count, i + 1)]
      BY <2>3, <2>7, <3>1
    <3>5. QED
      BY <3>2, <3>3, <3>4
  <2>9. Snapshot'[count] = Append(old, s)[count]
    BY <1>0, <1>4, <1>6, <2>3, <2>5, <2>6
  <2>10. ASSUME NEW i \in 1..count PROVE Snapshot'[i] = Append(old, s)[i]
    <3>1. i = count \/ i \in 1..(count - 1)
      BY <1>0, <2>10
    <3>2. QED
      BY <2>8, <2>9, <3>1
  <2>11. Snapshot' \in Seq(0..MaxTime) /\ Len(Snapshot') = count
    BY <1>2, <2>1 DEF SnapshotForm
  <2>12. Snapshot' = Append(old, s)
    BY <2>3, <2>10, <2>11, SeqEqual
  <2>13. QED
    BY <2>12 DEF Log!Capture
<1>7. QED
  BY <1>0, <1>5, <1>6

(* A step that does not write leaves the log. *)
LEMMA NoWriteNoCapture ==
  ASSUME UNCHANGED <<samples, head, count>>
  PROVE  Snapshot' = Snapshot
  BY DEF Snapshot

LEMMA NextLog == TypeOK /\ TypeOK' /\ [Next]_vars => [Log!Next]_Snapshot
<1> SUFFICES ASSUME TypeOK, TypeOK', [Next]_vars
             PROVE  Snapshot' = Snapshot \/ \E s \in 1..MaxTime : Log!Capture(s)
  BY DEF Log!Next
<1>1. CASE TickerWrites
  <2>1. taken["ticker"] \in 1..MaxTime
    BY <1>1 DEF TickerWrites, TypeOK, Actors
  <2>2. QED
    BY <1>1, <2>1, WriteCaptures DEF TickerWrites, Actors
<1>2. ASSUME NEW r \in Requests, RequestWrites(r)
      PROVE  \E s \in 1..MaxTime : Log!Capture(s)
  <2>1. taken[r] \in 1..MaxTime
    BY <1>2 DEF RequestWrites, TypeOK, Actors
  <2>2. QED
    BY <1>2, <2>1, WriteCaptures DEF RequestWrites, Actors
<1>3. CASE UNCHANGED <<samples, head, count>>
  BY <1>3, NoWriteNoCapture
<1>4. QED
  BY <1>1, <1>2, <1>3 DEF Next, vars, Tick, Start, Stop, Collector, TickerReads,
       Read, RunReturns, StopReturns, ReadLatest, RequestReads, Idle

(* The ring buffer, with its wrap-around indices and its lock, implements the
   log of the last Capacity samples for every capacity. *)
THEOREM RingImplementsLog == Spec => ImplementsLog
  BY InitLog, NextLog, RingTypeCorrect, PTL DEF Spec, ImplementsLog, Log!Spec

-----------------------------------------------------------------------------
(* The process. *)

(* Every step of the hub's process is a step of the collector or leaves it
   alone. *)
LEMMA HubStepsRing == [HubNext]_hubVars => [Next]_vars
<1> SUFFICES ASSUME [HubNext]_hubVars PROVE [Next]_vars
  OBVIOUS
<1>1. CASE MainStep
  BY <1>1 DEF MainStep, Connect, ConnectFails, Migrate, MigrateFails, StartServices,
       Notify, Select, ShutdownReturns, DeadlinePasses, StopHistory, CloseStore, Exit,
       Next
<1>2. CASE Signal \/ Restart \/ Listen \/ ListenFails \/ Over
  BY <1>2 DEF Signal, Restart, Listen, ListenFails, Over, hubVars
<1>3. CASE Tick \/ Collector \/ \E r \in Requests : Handler(r)
  BY <1>3 DEF Next, Handler
<1>4. CASE \E r \in Requests : RequestArrives(r) \/ RequestEnds(r)
  BY <1>4 DEF RequestArrives, RequestEnds
<1>5. CASE \E s \in Sockets : SocketOpens(s) \/ SocketQueries(s) \/ QueryEnds(s)
  BY <1>5 DEF SocketOpens, SocketQueries, QueryEnds
<1>6. CASE UNCHANGED hubVars
  BY <1>6 DEF hubVars
<1>7. QED
  BY <1>1, <1>2, <1>3, <1>4, <1>5, <1>6 DEF HubNext

LEMMA HubRunsRing == HubSpec => Spec
<1>1. HubInit => Init
  BY DEF HubInit
<1>2. QED
  BY <1>1, HubStepsRing, PTL DEF HubSpec, Spec

(* The history of the running hub is that log too, start, shutdown and
   restarts of the process included. *)
THEOREM HubImplementsLog == HubSpec => ImplementsLog
  BY HubRunsRing, RingImplementsLog, PTL

-----------------------------------------------------------------------------
(* The inductive invariant of the process. *)

HubTypes ==
  /\ schema \subseteq Objects
  /\ stmt \in Nat
  /\ http \in [Requests -> {"outside", "active", "done"}]

(* Where the collector, the listener and the requests are at each place of
   main, and from where a store can have been closed. *)
Phases ==
  /\ main \in {"connect", "migrate", "start"} => run = "off"
  /\ main \in {"notify", "select"} => run # "off"
  /\ run = "off" => listener = "off"
  /\ listener = "off" => Active = {}
  /\ main \in {"shutdown", "stop", "close", "exited"} => listener = "closed"
  /\ main \in {"stop", "close", "exited"} => Active = {}
  /\ store = "closed" =>
       \/ main \in {"close", "exited"}
       \/ main = "failed" /\ run = "off"

(* Stop returns only when the collector's goroutine cannot write any more. *)
Stopping ==
  /\ run \in {"off", "closed"} => taken["ticker"] = 0
  /\ stopper # "idle" => main \in {"stop", "close", "exited"}
  /\ stopper = "returned" => run \in {"off", "closed"}
  /\ main \in {"close", "exited"} => stopper = "returned"

(* How far the migration is, and what main has when it leaves it. *)
Migrated ==
  /\ main = "migrate" =>
       /\ stmt \in 1..(Len(Schema) + 1)
       /\ \A k \in 1..Len(Schema) : k < stmt => Schema[k].makes \in schema
  /\ Backend = "pg" /\ (main = "start" \/ run # "off") => schema = Objects

HubInv == TypeOK /\ HubTypes /\ Phases /\ Stopping /\ Migrated

(* The statements of 0001_init.sql are in an order in which each one refers
   only to objects made before it. *)
LEMMA SchemaLength == Len(Schema) = 13 /\ DOMAIN Schema = 1..13
  BY DEF Schema, Table

LEMMA SchemaOrdered ==
  \A k \in 1..13 : \A x \in Schema[k].needs :
     \E j \in 1..13 : j < k /\ Schema[j].makes = x
<1> USE DEF Schema, Table
<1>1. /\ Schema[1].makes = "tenants" /\ Schema[3].makes = "agents"
      /\ Schema[5].makes = "mcp_servers" /\ Schema[7].makes = "flows"
      /\ Schema[9].makes = "runs" /\ Schema[12].makes = "tasks"
  OBVIOUS
<1>2. /\ Schema[1].needs = {}
      /\ \A k \in {2, 3, 5, 7, 12} : Schema[k].needs = {"tenants"}
      /\ Schema[4].needs = {"agents"} /\ Schema[6].needs = {"mcp_servers"}
      /\ Schema[8].needs = {"flows"} /\ Schema[9].needs = {"tenants", "flows"}
      /\ Schema[10].needs = {"runs"} /\ Schema[11].needs = {"runs"}
      /\ Schema[13].needs = {"tasks"}
  OBVIOUS
<1> HIDE DEF Schema, Table
<1>3. QED
  BY <1>1, <1>2

LEMMA InitHub == HubInit => HubInv
<1> SUFFICES ASSUME HubInit PROVE HubInv
  OBVIOUS
<1>1. TypeOK
  BY InitType DEF HubInit
<1>2. HubTypes
  BY DEF HubInit, HubTypes
<1>3. Phases
  BY DEF HubInit, Init, Phases, Active
<1>4. Stopping
  BY DEF HubInit, Init, Stopping, Actors
<1>5. Migrated
  BY DEF HubInit, Init, Migrated
<1>6. QED
  BY <1>1, <1>2, <1>3, <1>4, <1>5 DEF HubInv

LEMMA NextHub == HubInv /\ [HubNext]_hubVars => HubInv'
<1> SUFFICES ASSUME HubInv, [HubNext]_hubVars PROVE HubInv'
  OBVIOUS
<1>0. TypeOK'
  BY NextType, HubStepsRing DEF HubInv
<1>t. "ticker" \in Actors
  BY DEF Actors
<1> USE DEF HubInv
<1>1. CASE Connect \/ ConnectFails \/ Notify \/ Select \/ ShutdownReturns
           \/ DeadlinePasses \/ CloseStore \/ Exit \/ MigrateFails
  <2> USE DEF Connect, ConnectFails, Notify, Select, ShutdownReturns, DeadlinePasses,
              CloseStore, Exit, MigrateFails
  <2>1. HubTypes'
    BY <1>1 DEF HubTypes
  <2>2. Phases'
    <3>1. CASE Connect \/ ConnectFails \/ MigrateFails
      BY <3>1 DEF Phases, Active, vars
    <3>2. CASE Notify \/ Select
      BY <3>2 DEF Phases, Active, vars
    <3>3. CASE ShutdownReturns \/ DeadlinePasses
      BY <3>3 DEF Phases, Active, vars
    <3>4. CASE CloseStore \/ Exit
      BY <3>4 DEF Phases, Active, vars
    <3>5. QED
      BY <1>1, <3>1, <3>2, <3>3, <3>4
  <2>3. Stopping'
    BY <1>1 DEF Stopping, vars
  <2>4. Migrated'
    BY <1>1, SchemaLength DEF Migrated, Phases, vars
  <2>5. QED
    BY <1>0, <2>1, <2>2, <2>3, <2>4
<1>2. CASE Migrate
  <2>1. UNCHANGED <<vars, store, listener, errCh, sig, http, ws>> /\ main = "migrate"
    BY <1>2 DEF Migrate
  <2>2. CASE stmt > Len(Schema)
    <3>1. main' = "start" /\ UNCHANGED <<schema, stmt>>
      BY <1>2, <2>2 DEF Migrate
    <3>2. schema = Objects
      BY <2>1, <2>2, SchemaLength DEF Migrated, HubTypes, Objects
    <3>3. QED
      BY <1>0, <2>1, <3>1, <3>2 DEF HubTypes, Phases, Active, Stopping, Migrated, vars
  <2>3. CASE stmt <= Len(Schema)
    <3>1. /\ schema' = schema \cup {Schema[stmt].makes}
          /\ stmt' = stmt + 1 /\ main' = main
      BY <1>2, <2>3, SchemaLength DEF Migrate, HubTypes
    <3>2. stmt \in 1..13
      BY <2>1, <2>3, SchemaLength DEF Migrated
    <3>3. HubTypes'
      BY <2>1, <3>1, <3>2, SchemaLength DEF HubTypes, Objects
    <3>4. Phases' /\ Stopping'
      BY <2>1, <3>1 DEF Phases, Active, Stopping, vars
    <3>5. Migrated'
      BY <2>1, <3>1, <3>2, SchemaLength DEF Migrated, Phases, vars
    <3>6. QED
      BY <1>0, <3>3, <3>4, <3>5
  <2>4. QED
    BY <2>2, <2>3, SchemaLength DEF HubTypes
<1>3. CASE StartServices
  <2> USE DEF StartServices, Start
  <2>1. HubTypes'
    BY <1>3 DEF HubTypes
  <2>2. Phases'
    BY <1>3 DEF Phases, Active
  <2>3. Stopping'
    BY <1>3 DEF Stopping
  <2>4. Migrated'
    BY <1>3 DEF Migrated
  <2>5. QED
    BY <1>0, <2>1, <2>2, <2>3, <2>4
<1>4. CASE StopHistory
  <2> USE DEF StopHistory, Stop, life
  <2>1. HubTypes'
    BY <1>4 DEF HubTypes
  <2>2. Phases'
    BY <1>4 DEF Phases, Active
  <2>3. Stopping'
    BY <1>4 DEF Stopping
  <2>4. Migrated'
    BY <1>4 DEF Migrated
  <2>5. QED
    BY <1>0, <2>1, <2>2, <2>3, <2>4
<1>5. CASE Signal \/ Restart \/ Listen \/ ListenFails
  <2> USE DEF Signal, Restart, Listen, ListenFails, Alive
  <2>1. HubTypes'
    BY <1>5 DEF HubTypes
  <2>2. Phases'
    BY <1>5 DEF Phases, Active, vars
  <2>3. Stopping'
    BY <1>5 DEF Stopping, vars
  <2>4. Migrated'
    BY <1>5 DEF Migrated, vars
  <2>5. QED
    BY <1>0, <2>1, <2>2, <2>3, <2>4
<1>6. CASE (Tick \/ Collector \/ \E r \in Requests : Handler(r)) /\ UNCHANGED life
  <2>1. UNCHANGED <<main, schema, stmt, store, listener, http>>
    BY <1>6 DEF life
  <2>2. /\ stopper' \in {stopper, "returned"} /\ (stopper = "idle" => stopper' = "idle")
        /\ run = "off" => run' = "off"
        /\ run' = "off" => run = "off"
    BY <1>6 DEF Tick, Collector, TickerReads, Read, TickerWrites, RunReturns, StopReturns,
         Handler, ReadLatest, RequestReads, RequestWrites, Stopping
  <2>3. Stopping'
    <3>1. CASE Tick \/ StopReturns \/ RunReturns
      BY <2>1, <3>1 DEF Tick, StopReturns, RunReturns, Stopping
    <3>2. CASE TickerReads \/ TickerWrites
      BY <2>1, <3>2, <1>t DEF TickerReads, Read, TickerWrites, Stopping, TypeOK
    <3>3. CASE \E r \in Requests : Handler(r)
      BY <2>1, <3>3, <1>t DEF Handler, ReadLatest, RequestReads, Read, RequestWrites,
           Stopping, TypeOK
    <3>4. QED
      BY <1>6, <3>1, <3>2, <3>3 DEF Collector
  <2>4. HubTypes'
    BY <2>1 DEF HubTypes
  <2>5. Phases'
    BY <2>1, <2>2 DEF Phases, Active
  <2>6. Migrated'
    BY <2>1, <2>2 DEF Migrated
  <2>7. QED
    BY <1>0, <2>3, <2>4, <2>5, <2>6
<1>7. CASE \E r \in Requests : RequestArrives(r) \/ RequestEnds(r)
  <2>1. PICK r \in Requests : RequestArrives(r) \/ RequestEnds(r)
    BY <1>7
  <2>2. UNCHANGED <<vars, main, schema, stmt, store, listener>>
    BY <2>1 DEF RequestArrives, RequestEnds
  <2>3. HubTypes'
    BY <2>1, <2>2 DEF HubTypes, RequestArrives, RequestEnds
  <2>4. Phases'
    BY <2>1, <2>2 DEF HubTypes, Phases, Active, RequestArrives, RequestEnds, vars
  <2>5. Stopping' /\ Migrated'
    BY <2>2 DEF Stopping, Migrated, vars
  <2>6. QED
    BY <1>0, <2>3, <2>4, <2>5
<1>8. CASE \/ UNCHANGED hubVars
           \/ \E s \in Sockets : SocketOpens(s) \/ SocketQueries(s) \/ QueryEnds(s)
  <2>1. UNCHANGED <<vars, main, schema, stmt, store, listener, http>>
    BY <1>8 DEF hubVars, life, SocketOpens, SocketQueries, QueryEnds
  <2>2. QED
    BY <1>0, <2>1 DEF HubTypes, Phases, Active, Stopping, Migrated, vars
<1>9. QED
  BY <1>1, <1>2, <1>3, <1>4, <1>5, <1>6, <1>7, <1>8 DEF HubNext, MainStep, Over

LEMMA HubInvHolds == HubSpec => []HubInv
  BY InitHub, NextHub, PTL DEF HubSpec

(* main closes the store after the collector has returned and every request
   that was let in has been answered. *)
THEOREM StoreIsClosedLast == HubSpec => []StoreClosedLast
<1>1. HubInv => StoreClosedLast
  BY DEF HubInv, Phases, Stopping, StoreClosedLast
<1>2. QED
  BY HubInvHolds, <1>1, PTL

(* No request meets an incomplete schema, and a process that died between two
   statements of the migration does not block the next one. *)
THEOREM SchemaIsComplete == HubSpec => []SchemaComplete
<1>1. HubInv => SchemaComplete
  <2> SUFFICES ASSUME HubInv PROVE SchemaComplete
    OBVIOUS
  <2>1. Backend = "pg" /\ Active # {} => schema = Objects
    BY DEF HubInv, Phases, Migrated
  <2>2. ASSUME main = "migrate", stmt <= Len(Schema)
        PROVE  Schema[stmt].needs \subseteq schema
    BY <2>2, SchemaLength, SchemaOrdered DEF HubInv, Migrated
  <2>3. QED
    BY <2>1, <2>2 DEF SchemaComplete, Executes
<1>2. QED
  BY HubInvHolds, <1>1, PTL
=============================================================================
