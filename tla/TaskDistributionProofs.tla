----------------------- MODULE TaskDistributionProofs -----------------------
(***************************************************************************)
(* Theorems about TaskDistribution, for every backend, pool size, number   *)
(* of subtasks and number of skills.                                       *)
(***************************************************************************)
EXTENDS TaskDistribution, FiniteSetTheorems, SequenceTheorems, TLAPS

USE BackendAssumption, WorkersAssumption, TimeoutAssumption, BoundsAssumption

-----------------------------------------------------------------------------
(* The inductive invariant. *)

(* Goroutines the WaitGroup still counts. *)
Live == {i \in Subs : wpc[i] \notin {"none", "end"}}

(* The semaphore counts the workers that hold a slot and never exceeds the
   pool; the WaitGroup counts the live workers and the one about to start. *)
Counts ==
  /\ sem = Cardinality(Holding)
  /\ sem <= Pool
  /\ wg = Cardinality(Live) + (IF pc = "acquire" THEN 1 ELSE 0)

(* Where the loop of execute is, and which goroutines it has started. *)
Position ==
  /\ pc = "list" => specs = <<>>
  /\ pc \in {"list", "create", "setrunning"} => next = 1
  /\ pc = "acquire" => next \in Subs
  /\ pc \in {"context", "save"} => final.status \in Terminal
  /\ \A i \in Subs : i >= next => wpc[i] = "none"

(* A worker that is marshalling has an element left to read, and a snapshot
   is begun anew by each call of markStatus. *)
Marshalling ==
  \A i \in Subs :
    /\ wpc[i] = "marshal" => Len(snap[i]) + 1 \in Subs
    /\ wpc[i] \notin {"marshal", "store"} => snap[i] = <<>>

Inv1 == TypeOK /\ Counts /\ Position /\ Marshalling /\ NoStrayWorker

-----------------------------------------------------------------------------
(* Facts about sequences and arrays. *)

(* The array's index set is finite, an interval, and empty before Decompose. *)
LEMMA SubsInterval ==
  ASSUME specs \in {<<>>} \cup SpecLists
  PROVE  /\ Len(specs) \in Nat
         /\ Subs = 1..Len(specs)
         /\ specs \in Seq(Nat)
         /\ IsFiniteSet(Subs)
<1>1. specs \in Seq(Nat)
  <2>1. CASE specs = <<>>
    BY <2>1
  <2>2. CASE specs = <<0>>
    BY <2>2
  <2>3. CASE \E n \in MaxSubs : specs \in [1..n -> 1..MaxSkills]
    <3>1. PICK n \in MaxSubs : specs \in [1..n -> 1..MaxSkills]
      BY <2>3
    <3>2. n \in Nat /\ specs \in [1..n -> Nat]
      BY <3>1 DEF MaxSubs
    <3>3. QED
      BY <3>2, SeqDef
  <2>4. QED
    BY <2>1, <2>2, <2>3 DEF SpecLists
<1>2. Len(specs) \in Nat /\ DOMAIN specs = 1..Len(specs)
  BY <1>1
<1>3. IsFiniteSet(1..Len(specs))
  BY <1>2, FS_Interval
<1>4. QED
  BY <1>1, <1>2, <1>3 DEF Subs

(* An array over the subtasks is a sequence, as the store keeps it. *)
LEMMA ArrayIsSeq ==
  ASSUME specs \in {<<>>} \cup SpecLists, NEW S, NEW f \in [Subs -> S]
  PROVE  f \in Seq(S)
<1>1. Len(specs) \in Nat /\ Subs = 1..Len(specs)
  BY SubsInterval
<1>2. QED
  BY <1>1, SeqDef

(* The empty sequence is the empty array. *)
LEMMA EmptyArray ==
  ASSUME NEW S
  PROVE  <<>> \in [{} -> S]
<1>1. PICK n \in Nat : <<>> \in [1..n -> S]
  BY SeqDef, EmptySeq
<1>2. 1..n = {}
  BY <1>1
<1>3. QED
  BY <1>1, <1>2

(* Initially everything is empty. *)
LEMMA InitInv1 == Init => Inv1
<1> SUFFICES ASSUME Init PROVE Inv1
  OBVIOUS
<1>1. Subs = {}
  BY DEF Init, Subs
<1>2. TypeOK
  <2>1. ArrayTypes /\ FlagTypes
    BY <1>1, EmptyArray, Zenon DEF Init, ArrayTypes, FlagTypes
  <2>2. RecordTypes
    BY DEF Init, RecordTypes, NoRow, NoFinal, NoAnswer
  <2>3. specs \in {<<>>} \cup SpecLists
    BY DEF Init
  <2>4. ctxErr \in BOOLEAN /\ zero \in BOOLEAN /\ pc = "list"
    BY Zenon DEF Init
  <2>5. next \in Nat \ {0} /\ sem \in Nat /\ wg \in Nat
    BY DEF Init
  <2>6. QED
    BY <2>1, <2>2, <2>3, <2>4, <2>5, Zenon DEF TypeOK, RequestTypes
<1>3. Holding = {} /\ Live = {}
  BY <1>1 DEF Holding, Live
<1>4. Counts
  BY <1>3, FS_EmptySet DEF Init, Counts, Pool
<1>5. Position /\ Marshalling /\ NoStrayWorker
  BY <1>1 DEF Init, Position, Marshalling, NoStrayWorker
<1>6. QED
  BY <1>2, <1>4, <1>5 DEF Inv1

-----------------------------------------------------------------------------
(* Steps of a worker between taking and releasing its slot. *)

Busy == Workers \ {"none", "wgdone", "end"}

LocalStep(i) ==
  /\ i \in Subs
  /\ wpc[i] \in Busy
  /\ wpc' \in [Subs -> Workers]
  /\ wpc'[i] \in Busy
  /\ \A j \in Subs \ {i} : wpc'[j] = wpc[j]
  /\ UNCHANGED <<specs, ctxErr, pc, next, zero, final, sem, wg, answer>>

(* All the steps of runSubtask proper are such steps. *)
LEMMA LocalSteps ==
  ASSUME TypeOK, NEW i \in MaxSubs,
         \/ LoadAgent(i) \/ MarkWrite(i) \/ MarshalEntry(i) \/ MarkStore(i)
         \/ TimeoutFires(i) \/ NextSkill(i) \/ ToolReturns(i) \/ ToolAborts(i)
         \/ AfterLoop(i) \/ ReturnOutcome(i)
  PROVE  LocalStep(i)
<1> USE DEF LocalStep, Busy, Workers, WorkerFrame, dispatch
<1>0. wpc \in [Subs -> Workers]
  BY DEF TypeOK, ArrayTypes
<1>1. CASE LoadAgent(i)
  BY <1>0, <1>1 DEF LoadAgent, Marking
<1>2. CASE MarkWrite(i)
  BY <1>0, <1>2 DEF MarkWrite, AfterMark
<1>3. CASE MarshalEntry(i)
  BY <1>0, <1>3 DEF MarshalEntry
<1>4. CASE MarkStore(i)
  BY <1>0, <1>4 DEF MarkStore, AfterMark
<1>5. CASE TimeoutFires(i)
  BY <1>0, <1>5 DEF TimeoutFires
<1>6. CASE NextSkill(i)
  BY <1>0, <1>6 DEF NextSkill
<1>7. CASE ToolReturns(i) \/ ToolAborts(i)
  BY <1>0, <1>7 DEF ToolReturns, ToolAborts
<1>8. CASE AfterLoop(i)
  BY <1>0, <1>8 DEF AfterLoop, Marking
<1>9. CASE ReturnOutcome(i)
  BY <1>0, <1>9 DEF ReturnOutcome
<1>10. QED
  BY <1>1, <1>2, <1>3, <1>4, <1>5, <1>6, <1>7, <1>8, <1>9

(* They move no counter, and a worker that steps is one wg.Wait() waits for. *)
LEMMA LocalStepFrame ==
  ASSUME Inv1, NEW i, LocalStep(i)
  PROVE  RequestTypes' /\ Counts' /\ Position' /\ NoStrayWorker'
<1> USE DEF LocalStep
<1>1. Subs' = Subs
  BY DEF Subs
<1>2. RequestTypes'
  BY DEF Inv1, TypeOK, RequestTypes
<1>3. Counts'
  <2>1. Holding' = Holding /\ Live' = Live
    BY <1>1 DEF Holding, Live, Busy
  <2>2. QED
    BY <2>1 DEF Inv1, Counts
<1>4. Position'
  BY <1>1 DEF Inv1, Position, Busy
<1>5. NoStrayWorker'
  BY <1>1 DEF Inv1, NoStrayWorker, Busy
<1>6. QED
  BY <1>2, <1>3, <1>4, <1>5

-----------------------------------------------------------------------------
(* Types of what is stored. *)

RowType == [status : TaskStatus \cup {"none"}, subtasks : Seq(Entry),
            failed : Nat, context : BOOLEAN]

LEMMA RowOfType ==
  ASSUME NEW st \in TaskStatus, NEW sn \in Seq(Entry), NEW f \in Nat,
         NEW c \in BOOLEAN
  PROVE  RowOf(st, sn, f, c) \in RowType
  BY DEF RowOf, RowType

LEMMA UpdateTaskType ==
  ASSUME row \in RowType, NEW r \in RowType, NEW ok, UpdateTask(r, ok) \/ Store(r, ok)
  PROVE  row' \in RowType
  BY Zenon DEF UpdateTask, Store

LEMMA RecordFrame ==
  ASSUME RecordTypes, UNCHANGED <<final, row, answer>>
  PROVE  RecordTypes'
  BY DEF RecordTypes

(* A read of the shared array yields a status or a torn value. *)
LEMMA ReadableType ==
  ASSUME ArrayTypes, NEW j \in Subs
  PROVE  Readable(j) \subseteq Entry
  BY DEF ArrayTypes, Readable, Entry

(* The steps of a worker preserve the types of the arrays and of the row. *)
LEMMA WorkerTypes ==
  ASSUME Inv1, NEW i \in MaxSubs,
         WorkerStep(i) \/ TimeoutFires(i) \/ ToolReturns(i)
  PROVE  ArrayTypes' /\ FlagTypes' /\ RecordTypes' /\ Marshalling'
<1> USE DEF WorkerFrame, Workers, dispatch, worker
<1>0. TypeOK /\ RequestTypes /\ ArrayTypes /\ FlagTypes /\ RecordTypes /\ Marshalling
  BY DEF Inv1, TypeOK
<1>s. specs' = specs /\ Subs' = Subs
  BY DEF Subs, WorkerStep, TimeoutFires, ToolReturns, LoadAgent, MarkWrite,
         MarshalEntry, MarkStore, NextSkill, ToolAborts, AfterLoop,
         ReturnOutcome, Release, WgDone
<1>n. Len(specs) \in Nat /\ Subs = 1..Len(specs)
  BY <1>0, SubsInterval DEF RequestTypes
<1>1. CASE LoadAgent(i)
  <2>1. ArrayTypes'
    BY <1>0, <1>1, <1>s DEF ArrayTypes, LoadAgent, Marking, SubtaskStatus
  <2>2. FlagTypes'
    BY <1>0, <1>1, <1>s DEF FlagTypes, LoadAgent, Marking
  <2>3. RecordTypes'
    BY <1>0, <1>1, <1>s, RecordFrame DEF LoadAgent, Marking
  <2>4. Marshalling'
    BY <1>0, <1>1, <1>s DEF Marshalling, ArrayTypes, LoadAgent, Marking
  <2>5. QED
    BY <2>1, <2>2, <2>3, <2>4
<1>2. CASE MarkWrite(i)
  <2>1. ArrayTypes'
    BY <1>0, <1>2, <1>s DEF ArrayTypes, MarkWrite, AfterMark
  <2>2. FlagTypes'
    BY <1>0, <1>2, <1>s DEF FlagTypes, MarkWrite
  <2>3. RecordTypes'
    BY <1>0, <1>2, <1>s, RecordFrame DEF MarkWrite
  <2>4. Marshalling'
    BY <1>0, <1>2, <1>s, <1>n DEF Marshalling, ArrayTypes, FlagTypes, MarkWrite, AfterMark
  <2>5. QED
    BY <2>1, <2>2, <2>3, <2>4
<1>3. CASE MarshalEntry(i)
  <2>1. ArrayTypes'
    BY <1>0, <1>3, <1>s DEF ArrayTypes, MarshalEntry
  <2>2. FlagTypes'
    BY <1>0, <1>3, <1>s, ReadableType DEF FlagTypes, Marshalling, MarshalEntry
  <2>3. RecordTypes'
    BY <1>0, <1>3, <1>s, RecordFrame DEF MarshalEntry
  <2>4. Marshalling'
    BY <1>0, <1>3, <1>s, <1>n, ReadableType DEF Marshalling, ArrayTypes, FlagTypes,
       MarshalEntry
  <2>5. QED
    BY <2>1, <2>2, <2>3, <2>4
<1>4. CASE MarkStore(i)
  <2>1. ArrayTypes'
    BY <1>0, <1>4, <1>s DEF ArrayTypes, MarkStore, AfterMark
  <2>2. FlagTypes'
    BY <1>0, <1>4, <1>s DEF FlagTypes, MarkStore
  <2>3. RecordTypes'
    BY <1>0, <1>4, <1>s, RowOfType, UpdateTaskType DEF RecordTypes, RowType, FlagTypes,
       MarkStore, TaskStatus
  <2>4. Marshalling'
    BY <1>0, <1>4, <1>s DEF Marshalling, ArrayTypes, FlagTypes, MarkStore, AfterMark
  <2>5. QED
    BY <2>1, <2>2, <2>3, <2>4
<1>5. CASE TimeoutFires(i)
  <2>1. ArrayTypes'
    BY <1>0, <1>5, <1>s DEF ArrayTypes, TimeoutFires
  <2>2. FlagTypes'
    BY <1>0, <1>5, <1>s DEF FlagTypes, TimeoutFires
  <2>3. RecordTypes'
    BY <1>0, <1>5, <1>s, RecordFrame DEF TimeoutFires
  <2>4. Marshalling'
    BY <1>0, <1>5, <1>s DEF Marshalling, TimeoutFires
  <2>5. QED
    BY <2>1, <2>2, <2>3, <2>4
<1>6. CASE NextSkill(i)
  <2>1. ArrayTypes'
    BY <1>0, <1>6, <1>s DEF ArrayTypes, NextSkill
  <2>2. FlagTypes'
    BY <1>0, <1>6, <1>s DEF FlagTypes, NextSkill
  <2>3. RecordTypes'
    BY <1>0, <1>6, <1>s, RecordFrame DEF NextSkill
  <2>4. Marshalling'
    BY <1>0, <1>6, <1>s DEF Marshalling, ArrayTypes, NextSkill
  <2>5. QED
    BY <2>1, <2>2, <2>3, <2>4
<1>7. CASE ToolReturns(i) \/ ToolAborts(i)
  <2>1. ArrayTypes'
    <3>1. wpc' \in [Subs' -> Workers] /\ calls' \in [Subs' -> Nat]
      BY <1>0, <1>7, <1>s DEF ArrayTypes, ToolReturns, ToolAborts
    <3>2. UNCHANGED <<subtasks, results, mark>>
      BY <1>7 DEF ToolReturns, ToolAborts
    <3>3. QED
      BY <1>0, <1>s, <3>1, <3>2 DEF ArrayTypes
  <2>2. FlagTypes'
    BY <1>0, <1>7, <1>s DEF FlagTypes, ToolReturns, ToolAborts
  <2>3. RecordTypes'
    BY <1>0, <1>7, <1>s, RecordFrame DEF ToolReturns, ToolAborts
  <2>4. Marshalling'
    BY <1>0, <1>7, <1>s DEF Marshalling, ArrayTypes, ToolReturns, ToolAborts
  <2>5. QED
    BY <2>1, <2>2, <2>3, <2>4
<1>8. CASE AfterLoop(i)
  <2>1. ArrayTypes'
    BY <1>0, <1>8, <1>s DEF ArrayTypes, AfterLoop, Marking, SubtaskStatus
  <2>2. FlagTypes'
    BY <1>0, <1>8, <1>s DEF FlagTypes, AfterLoop, Marking
  <2>3. RecordTypes'
    BY <1>0, <1>8, <1>s, RecordFrame DEF AfterLoop, Marking
  <2>4. Marshalling'
    BY <1>0, <1>8, <1>s DEF Marshalling, ArrayTypes, AfterLoop, Marking
  <2>5. QED
    BY <2>1, <2>2, <2>3, <2>4
<1>9. CASE ReturnOutcome(i)
  <2>1. ArrayTypes'
    BY <1>0, <1>9, <1>s DEF ArrayTypes, FlagTypes, ReturnOutcome
  <2>2. FlagTypes'
    BY <1>0, <1>9, <1>s DEF FlagTypes, ReturnOutcome
  <2>3. RecordTypes'
    BY <1>0, <1>9, <1>s, RecordFrame DEF ReturnOutcome
  <2>4. Marshalling'
    BY <1>0, <1>9, <1>s DEF Marshalling, ArrayTypes, ReturnOutcome
  <2>5. QED
    BY <2>1, <2>2, <2>3, <2>4
<1>10. CASE Release(i) \/ WgDone(i)
  <2>1. ArrayTypes'
    BY <1>0, <1>10, <1>s DEF ArrayTypes, Release, WgDone
  <2>2. FlagTypes'
    BY <1>0, <1>10, <1>s DEF FlagTypes, Release, WgDone
  <2>3. RecordTypes'
    BY <1>0, <1>10, <1>s, RecordFrame DEF Release, WgDone
  <2>4. Marshalling'
    BY <1>0, <1>10, <1>s DEF Marshalling, ArrayTypes, Release, WgDone
  <2>5. QED
    BY <2>1, <2>2, <2>3, <2>4
<1>11. QED
  BY <1>1, <1>2, <1>3, <1>4, <1>5, <1>6, <1>7, <1>8, <1>9, <1>10 DEF WorkerStep

-----------------------------------------------------------------------------
(* The counters. *)

LEMMA FiniteWorkers ==
  ASSUME RequestTypes
  PROVE  /\ IsFiniteSet(Holding) /\ Cardinality(Holding) \in Nat
         /\ IsFiniteSet(Live) /\ Cardinality(Live) \in Nat
<1>1. IsFiniteSet(Subs)
  BY SubsInterval DEF RequestTypes
<1>2. Holding \subseteq Subs /\ Live \subseteq Subs
  BY DEF Holding, Live
<1>3. QED
  BY <1>1, <1>2, FS_Subset, FS_CardinalityType

(* <-sem gives back the slot of one worker. *)
LEMMA ReleaseCounts ==
  ASSUME Inv1, NEW i \in MaxSubs, Release(i)
  PROVE  RequestTypes' /\ Counts' /\ Position' /\ NoStrayWorker'
<1> USE DEF Release, WorkerFrame, dispatch
<1>0. RequestTypes /\ ArrayTypes /\ Counts
  BY DEF Inv1, TypeOK
<1>1. Subs' = Subs
  BY DEF Subs
<1>2. Holding' = Holding \ {i} /\ i \in Holding /\ Live' = Live
  BY <1>0, <1>1 DEF Holding, Live, ArrayTypes
<1>3. Cardinality(Holding') = Cardinality(Holding) - 1
  BY <1>0, <1>2, FiniteWorkers, FS_RemoveElement
<1>4. Cardinality(Holding') \in Nat
  BY <1>0, <1>2, FiniteWorkers, FS_RemoveElement, FS_CardinalityType
<1>5. Counts'
  BY <1>0, <1>2, <1>3 DEF Counts, RequestTypes, Pool
<1>6. RequestTypes'
  BY <1>0, <1>3, <1>4 DEF RequestTypes, Counts
<1>7. Position'
  BY <1>0, <1>1 DEF Inv1, Position, ArrayTypes
<1>8. NoStrayWorker'
  BY <1>0, <1>1 DEF Inv1, NoStrayWorker
<1>9. QED
  BY <1>5, <1>6, <1>7, <1>8

(* wg.Done() takes one live worker off the counter. *)
LEMMA WgDoneCounts ==
  ASSUME Inv1, NEW i \in MaxSubs, WgDone(i)
  PROVE  RequestTypes' /\ Counts' /\ Position' /\ NoStrayWorker'
<1> USE DEF WgDone, WorkerFrame, dispatch
<1>0. RequestTypes /\ ArrayTypes /\ Counts
  BY DEF Inv1, TypeOK
<1>1. Subs' = Subs
  BY DEF Subs
<1>2. Live' = Live \ {i} /\ i \in Live /\ Holding' = Holding
  BY <1>0, <1>1 DEF Holding, Live, ArrayTypes
<1>3. Cardinality(Live') = Cardinality(Live) - 1
  BY <1>0, <1>2, FiniteWorkers, FS_RemoveElement
<1>4. Cardinality(Live') \in Nat
  BY <1>0, <1>2, FiniteWorkers, FS_RemoveElement, FS_CardinalityType
<1>5. Counts'
  BY <1>0, <1>2, <1>3, FiniteWorkers DEF Counts, RequestTypes
<1>6. RequestTypes'
  BY <1>0, <1>3, <1>4, FiniteWorkers DEF RequestTypes, Counts
<1>7. Position'
  BY <1>0, <1>1 DEF Inv1, Position, ArrayTypes
<1>8. NoStrayWorker'
  BY <1>0, <1>1 DEF Inv1, NoStrayWorker
<1>9. QED
  BY <1>5, <1>6, <1>7, <1>8

(* A step that moves no worker and no counter. *)
LEMMA CountsFrame ==
  ASSUME Counts, UNCHANGED <<specs, wpc, sem, wg>>,
         pc # "acquire", pc' # "acquire"
  PROVE  Counts'
<1>1. Holding' = Holding /\ Live' = Live
  BY DEF Holding, Live, Subs
<1>2. QED
  BY <1>1 DEF Counts

LEMMA ArrayFrame ==
  ASSUME ArrayTypes, FlagTypes, Marshalling,
         UNCHANGED <<specs, subtasks, results, wpc, mark, calls, outErr, late, snap>>
  PROVE  ArrayTypes' /\ FlagTypes' /\ Marshalling'
<1>1. Subs' = Subs
  BY DEF Subs
<1>2. ArrayTypes'
  BY <1>1 DEF ArrayTypes
<1>3. FlagTypes'
  BY <1>1 DEF FlagTypes
<1>4. Marshalling'
  BY <1>1 DEF Marshalling
<1>5. QED
  BY <1>2, <1>3, <1>4

LEMMA FailuresType ==
  ASSUME RequestTypes
  PROVE  Failures \in Nat
<1>1. IsFiniteSet(Subs)
  BY SubsInterval DEF RequestTypes
<1>2. IsFiniteSet({i \in Subs : results[i].err})
  BY <1>1, FS_Subset
<1>3. QED
  BY <1>2, FS_CardinalityType DEF Failures

(* The dispatcher's steps preserve the first invariant. *)
LEMMA DispatcherInv1 ==
  ASSUME Inv1, Dispatcher \/ Cancel
  PROVE  Inv1'
<1> USE DEF dispatch, worker
<1>0. /\ RequestTypes /\ ArrayTypes /\ FlagTypes /\ RecordTypes
      /\ Counts /\ Position /\ Marshalling /\ NoStrayWorker
  BY DEF Inv1, TypeOK
<1>n. Len(specs) \in Nat /\ Subs = 1..Len(specs)
  BY <1>0, SubsInterval DEF RequestTypes
<1> USE DEF TypeOK, Inv1
<1>1. CASE Cancel
  <2>1. RequestTypes'
    BY <1>0, <1>1 DEF Cancel, RequestTypes
  <2>2. ArrayTypes' /\ FlagTypes' /\ Marshalling'
    BY <1>0, <1>1, ArrayFrame DEF Cancel
  <2>3. RecordTypes'
    BY <1>0, <1>1, RecordFrame DEF Cancel
  <2>4. Counts'
    <3>1. Holding' = Holding /\ Live' = Live
      BY <1>1 DEF Cancel, Holding, Live, Subs
    <3>2. QED
      BY <1>0, <1>1, <3>1 DEF Cancel, Counts
  <2>5. Position' /\ NoStrayWorker'
    BY <1>0, <1>1 DEF Cancel, Position, NoStrayWorker, Subs
  <2>6. QED
    BY <2>1, <2>2, <2>3, <2>4, <2>5
<1>2. CASE ListAgentsFails
  <2>1. RequestTypes'
    BY <1>0, <1>2 DEF ListAgentsFails, RequestTypes
  <2>2. ArrayTypes' /\ FlagTypes' /\ Marshalling'
    BY <1>0, <1>2, ArrayFrame DEF ListAgentsFails
  <2>3. RecordTypes'
    BY <1>0, <1>2 DEF ListAgentsFails, RecordTypes, ReplyError
  <2>4. Counts'
    BY <1>0, <1>2, CountsFrame DEF ListAgentsFails
  <2>5. Position' /\ NoStrayWorker'
    BY <1>0, <1>2 DEF ListAgentsFails, Position, NoStrayWorker, Subs
  <2>6. QED
    BY <2>1, <2>2, <2>3, <2>4, <2>5
<1>3. CASE Decompose
  <2>1. RequestTypes'
    BY <1>0, <1>3 DEF Decompose, RequestTypes
  <2>2. ArrayTypes' /\ FlagTypes' /\ Marshalling'
    <3>1. \A x \in Subs' : snap'[x] = <<>> /\ wpc'[x] = "none"
      BY <1>3 DEF Decompose, Subs
    <3>2. Marshalling'
      BY <3>1 DEF Marshalling
    <3>3. ArrayTypes'
      BY <1>3 DEF Decompose, ArrayTypes, Subs, Workers, SubtaskStatus
    <3>4. FlagTypes'
      BY <1>3 DEF Decompose, FlagTypes, Subs
    <3>5. QED
      BY <3>2, <3>3, <3>4
  <2>3. RecordTypes'
    BY <1>0, <1>3, RecordFrame DEF Decompose
  <2>4. Counts'
    <3>1. Holding' = {} /\ Live' = {}
      BY <1>3 DEF Decompose, Holding, Live, Subs
    <3>2. Subs = {}
      BY <1>0, <1>3 DEF Decompose, Position, Subs
    <3>3. Holding = {} /\ Live = {}
      BY <3>2 DEF Holding, Live
    <3>4. QED
      BY <1>0, <1>3, <3>1, <3>3 DEF Decompose, Counts
  <2>5. Position' /\ NoStrayWorker'
    BY <1>0, <1>3 DEF Decompose, Position, NoStrayWorker, Subs, RequestTypes
  <2>6. QED
    BY <2>1, <2>2, <2>3, <2>4, <2>5
<1>4. CASE CreateTask
  <2>1. RequestTypes'
    BY <1>0, <1>4 DEF CreateTask, RequestTypes
  <2>2. ArrayTypes' /\ FlagTypes' /\ Marshalling'
    BY <1>0, <1>4, ArrayFrame DEF CreateTask
  <2>3. RecordTypes'
    <3>1. subtasks \in Seq(Entry)
      BY <1>0, ArrayIsSeq DEF ArrayTypes, RequestTypes, Entry
    <3>2. RowOf("pending", subtasks, 0, FALSE) \in RowType
      BY <3>1, RowOfType DEF TaskStatus
    <3>3. row' \in RowType
      BY <1>0, <1>4, <3>2, UpdateTaskType DEF CreateTask, RecordTypes, RowType
    <3>4. QED
      <4>1. answer' = answer \/ ReplyError
        BY <1>4 DEF CreateTask
      <4>2. final' = final
        BY <1>4 DEF CreateTask
      <4>3. CASE answer' = answer
        BY <1>0, <3>3, <4>2, <4>3 DEF RecordTypes, RowType
      <4>4. CASE ReplyError
        BY <1>0, <3>3, <4>2, <4>4 DEF RecordTypes, RowType, ReplyError
      <4>5. QED
        BY <4>1, <4>3, <4>4
  <2>4. Counts'
    BY <1>0, <1>4, CountsFrame DEF CreateTask
  <2>5. Position' /\ NoStrayWorker'
    BY <1>0, <1>4, <1>n DEF CreateTask, Position, NoStrayWorker, Subs
  <2>6. QED
    BY <2>1, <2>2, <2>3, <2>4, <2>5
<1>5. CASE SetRunning
  <2>1. RequestTypes'
    BY <1>0, <1>5 DEF SetRunning, RequestTypes
  <2>2. ArrayTypes' /\ FlagTypes' /\ Marshalling'
    BY <1>0, <1>5, ArrayFrame DEF SetRunning
  <2>3. RecordTypes'
    <3>1. subtasks \in Seq(Entry)
      BY <1>0, ArrayIsSeq DEF ArrayTypes, RequestTypes, Entry
    <3>2. RowOf("running", subtasks, 0, FALSE) \in RowType
      BY <3>1, RowOfType DEF TaskStatus
    <3>3. row' \in RowType
      BY <1>0, <1>5, <3>2, UpdateTaskType DEF SetRunning, RecordTypes, RowType
    <3>4. QED
      BY <1>0, <1>5, <3>3 DEF SetRunning, RecordTypes, RowType, ReplyError
  <2>4. Counts'
    BY <1>0, <1>5, CountsFrame DEF SetRunning
  <2>5. Position' /\ NoStrayWorker'
    BY <1>0, <1>5 DEF SetRunning, Position, NoStrayWorker, Subs
  <2>6. QED
    BY <2>1, <2>2, <2>3, <2>4, <2>5
<1>6. CASE SkipSubtask
  <2>1. RequestTypes'
    BY <1>0, <1>6 DEF SkipSubtask, RequestTypes
  <2>2. ArrayTypes' /\ FlagTypes' /\ Marshalling'
    <3>1. ArrayTypes'
      BY <1>0, <1>6 DEF SkipSubtask, ArrayTypes, Subs
    <3>2. FlagTypes'
      BY <1>0, <1>6 DEF SkipSubtask, FlagTypes, Subs
    <3>3. Marshalling'
      BY <1>0, <1>6 DEF SkipSubtask, Marshalling, Subs
    <3>4. QED
      BY <3>1, <3>2, <3>3
  <2>3. RecordTypes'
    BY <1>0, <1>6, RecordFrame DEF SkipSubtask
  <2>4. Counts'
    BY <1>0, <1>6, CountsFrame DEF SkipSubtask
  <2>5. Position' /\ NoStrayWorker'
    BY <1>0, <1>6, <1>n DEF SkipSubtask, Position, NoStrayWorker, Subs, RequestTypes
  <2>6. QED
    BY <2>1, <2>2, <2>3, <2>4, <2>5
<1>7. CASE WgAdd
  <2>1. RequestTypes'
    BY <1>0, <1>7 DEF WgAdd, RequestTypes
  <2>2. ArrayTypes' /\ FlagTypes' /\ Marshalling'
    BY <1>0, <1>7, ArrayFrame DEF WgAdd
  <2>3. RecordTypes'
    BY <1>0, <1>7, RecordFrame DEF WgAdd
  <2>4. Counts'
    <3>1. Holding' = Holding /\ Live' = Live
      BY <1>7 DEF WgAdd, Holding, Live, Subs
    <3>2. QED
      BY <1>0, <1>7, <3>1, FiniteWorkers DEF WgAdd, Counts
  <2>5. Position' /\ NoStrayWorker'
    BY <1>0, <1>7 DEF WgAdd, Position, NoStrayWorker, Subs
  <2>6. QED
    BY <2>1, <2>2, <2>3, <2>4, <2>5
<1>8. CASE AcquireAndGo
  <2>1. RequestTypes'
    BY <1>0, <1>8 DEF AcquireAndGo, RequestTypes
  <2>2. ArrayTypes' /\ FlagTypes' /\ Marshalling'
    <3>1. ArrayTypes'
      BY <1>0, <1>8 DEF AcquireAndGo, ArrayTypes, Subs, Workers
    <3>2. FlagTypes'
      BY <1>0, <1>8 DEF AcquireAndGo, FlagTypes, Subs
    <3>3. Marshalling'
      <4>1. Subs' = Subs /\ snap' = snap
        BY <1>8 DEF AcquireAndGo, Subs
      <4>2. next \in Subs /\ wpc[next] = "none"
        BY <1>0, <1>8, <1>n DEF AcquireAndGo, Position
      <4>3. \A j \in Subs : j # next => wpc'[j] = wpc[j]
        BY <1>0, <1>8 DEF AcquireAndGo, ArrayTypes
      <4>4. wpc'[next] = "enter"
        BY <1>0, <1>8, <4>2 DEF AcquireAndGo, ArrayTypes
      <4>5. QED
        BY <1>0, <4>1, <4>2, <4>3, <4>4 DEF Marshalling
    <3>4. QED
      BY <3>1, <3>2, <3>3
  <2>3. RecordTypes'
    BY <1>0, <1>8, RecordFrame DEF AcquireAndGo
  <2>4. Counts'
    <3>1. next \in Subs /\ next \notin Holding /\ next \notin Live
      BY <1>0, <1>n, <1>8 DEF AcquireAndGo, Position, Holding, Live
    <3>2. Holding' = Holding \cup {next} /\ Live' = Live \cup {next}
      BY <1>0, <1>8, <3>1 DEF AcquireAndGo, Holding, Live, Subs, ArrayTypes
    <3>3. /\ Cardinality(Holding') = Cardinality(Holding) + 1
          /\ Cardinality(Live') = Cardinality(Live) + 1
      BY <1>0, <3>1, <3>2, FiniteWorkers, FS_AddElement
    <3>4. sem' <= Pool
      BY <1>0, <1>8 DEF AcquireAndGo, RequestTypes, Pool
    <3>5. QED
      BY <1>0, <1>8, <3>3, <3>4, FiniteWorkers DEF AcquireAndGo, Counts
  <2>5. Position' /\ NoStrayWorker'
    BY <1>0, <1>n, <1>8 DEF AcquireAndGo, Position, NoStrayWorker, Subs, RequestTypes,
       ArrayTypes
  <2>6. QED
    BY <2>1, <2>2, <2>3, <2>4, <2>5
<1>9. CASE WgWait
  <2>1. RequestTypes'
    BY <1>0, <1>9 DEF WgWait, RequestTypes
  <2>2. ArrayTypes' /\ FlagTypes' /\ Marshalling'
    BY <1>0, <1>9, ArrayFrame DEF WgWait
  <2>3. RecordTypes'
    BY <1>0, <1>9, RecordFrame DEF WgWait
  <2>4. Counts'
    BY <1>0, <1>9, CountsFrame DEF WgWait
  <2>5. Position' /\ NoStrayWorker'
    <3>1. Live = {}
      BY <1>0, <1>9, FiniteWorkers, FS_EmptySet DEF WgWait, Counts
    <3>2. \A i \in Subs : wpc[i] \in {"none", "end"}
      BY <3>1 DEF Live
    <3>3. QED
      BY <1>0, <1>9, <3>2 DEF WgWait, Position, NoStrayWorker, Subs
  <2>6. QED
    BY <2>1, <2>2, <2>3, <2>4, <2>5
<1>10. CASE Finalize
  <2>1. RequestTypes'
    BY <1>0, <1>10 DEF Finalize, RequestTypes
  <2>2. ArrayTypes' /\ FlagTypes' /\ Marshalling'
    BY <1>0, <1>10, ArrayFrame DEF Finalize
  <2>3. RecordTypes'
    <3>1. Failures \in Nat
      BY <1>0, FailuresType
    <3>2. QED
      BY <1>0, <1>10, <3>1 DEF Finalize, RecordTypes
  <2>4. Counts'
    BY <1>0, <1>10, CountsFrame DEF Finalize
  <2>5. Position' /\ NoStrayWorker'
    BY <1>0, <1>10 DEF Finalize, Position, NoStrayWorker, Subs, Terminal
  <2>6. QED
    BY <2>1, <2>2, <2>3, <2>4, <2>5
<1>11. CASE AggregateContext
  <2>1. RequestTypes'
    BY <1>0, <1>11 DEF AggregateContext, RequestTypes
  <2>2. ArrayTypes' /\ FlagTypes' /\ Marshalling'
    BY <1>0, <1>11, ArrayFrame DEF AggregateContext
  <2>3. RecordTypes'
    BY <1>0, <1>11 DEF AggregateContext, RecordTypes, RequestTypes
  <2>4. Counts'
    BY <1>0, <1>11, CountsFrame DEF AggregateContext
  <2>5. Position' /\ NoStrayWorker'
    BY <1>0, <1>11 DEF AggregateContext, Position, NoStrayWorker, Subs
  <2>6. QED
    BY <2>1, <2>2, <2>3, <2>4, <2>5
<1>12. CASE FinalSave
  <2>1. RequestTypes'
    BY <1>0, <1>12 DEF FinalSave, RequestTypes
  <2>2. ArrayTypes' /\ FlagTypes' /\ Marshalling'
    BY <1>0, <1>12, ArrayFrame DEF FinalSave
  <2>3. RecordTypes'
    <3>1. PICK sn \in Snapshots, ok \in BOOLEAN :
            UpdateTask(RowOf(final.status, sn, final.failed, final.context), ok)
      BY <1>12 DEF FinalSave
    <3>2. sn \in Seq(Entry)
      BY <1>0, ArrayIsSeq DEF Snapshots, RequestTypes
    <3>3. final.status \in TaskStatus
      BY <1>0, <1>12 DEF FinalSave, Position, TaskStatus, Terminal
    <3>4. final.failed \in Nat /\ final.context \in BOOLEAN /\ row \in RowType
      BY <1>0 DEF RecordTypes, RowType
    <3>5. RowOf(final.status, sn, final.failed, final.context) \in RowType
      BY <3>2, <3>3, <3>4, RowOfType
    <3>6. row' \in RowType
      BY <3>1, <3>4, <3>5, UpdateTaskType
    <3>7. QED
      BY <1>0, <1>12, <3>6 DEF FinalSave, RecordTypes, RowType
  <2>4. Counts'
    BY <1>0, <1>12, CountsFrame DEF FinalSave
  <2>5. Position' /\ NoStrayWorker'
    BY <1>0, <1>12 DEF FinalSave, Position, NoStrayWorker, Subs
  <2>6. QED
    BY <2>1, <2>2, <2>3, <2>4, <2>5
<1>13. QED
  BY <1>1, <1>2, <1>3, <1>4, <1>5, <1>6, <1>7, <1>8, <1>9, <1>10, <1>11, <1>12
     DEF Dispatcher

-----------------------------------------------------------------------------
(* The first invariant holds in every reachable state. *)
LEMMA NextInv1 == Inv1 /\ [Next]_vars => Inv1'
<1> SUFFICES ASSUME Inv1, [Next]_vars PROVE Inv1'
  OBVIOUS
<1>1. CASE Cancel \/ Dispatcher
  BY <1>1, DispatcherInv1
<1>2. ASSUME NEW i \in MaxSubs, WorkerStep(i) \/ TimeoutFires(i) \/ ToolReturns(i)
      PROVE  Inv1'
  <2>1. ArrayTypes' /\ FlagTypes' /\ RecordTypes' /\ Marshalling'
    BY <1>2, WorkerTypes
  <2>2. RequestTypes' /\ Counts' /\ Position' /\ NoStrayWorker'
    <3>1. CASE Release(i)
      BY <3>1, ReleaseCounts
    <3>2. CASE WgDone(i)
      BY <3>2, WgDoneCounts
    <3>3. CASE ~Release(i) /\ ~WgDone(i)
      BY <1>2, <3>3, LocalSteps, LocalStepFrame DEF WorkerStep, Inv1
    <3>4. QED
      BY <3>1, <3>2, <3>3
  <2>3. QED
    BY <2>1, <2>2 DEF Inv1, TypeOK
<1>3. CASE UNCHANGED vars
  <2>1. UNCHANGED <<specs, subtasks, results, wpc, mark, calls, outErr, late, snap>>
    BY <1>3 DEF vars, worker
  <2>2. UNCHANGED <<final, row, answer>>
    BY <1>3 DEF vars, dispatch
  <2>3. UNCHANGED <<ctxErr, pc, next, zero, sem, wg>>
    BY <1>3 DEF vars, dispatch
  <2>4. Subs' = Subs
    BY <2>1 DEF Subs
  <2>5. ArrayTypes' /\ FlagTypes' /\ Marshalling'
    BY <2>1, ArrayFrame DEF Inv1, TypeOK
  <2>6. RecordTypes'
    BY <2>2, RecordFrame DEF Inv1, TypeOK
  <2>7. RequestTypes'
    BY <2>1, <2>3 DEF Inv1, TypeOK, RequestTypes
  <2>8. Holding' = Holding /\ Live' = Live
    BY <2>1, <2>4 DEF Holding, Live
  <2>9. Counts'
    BY <2>3, <2>8 DEF Inv1, Counts
  <2>10. Position' /\ NoStrayWorker'
    BY <2>1, <2>2, <2>3, <2>4 DEF Inv1, Position, NoStrayWorker
  <2>11. QED
    BY <2>5, <2>6, <2>7, <2>9, <2>10 DEF Inv1, TypeOK
<1>4. QED
  BY <1>1, <1>2, <1>3 DEF Next, Done

LEMMA Inv1Holds == Spec => []Inv1
  BY InitInv1, NextInv1, PTL DEF Spec

(* Type correctness of the whole model; among other things neither the
   semaphore nor the WaitGroup of execute ever goes negative. *)
THEOREM TypeCorrect == Spec => []TypeOK
<1>1. Inv1 => TypeOK
  BY DEF Inv1
<1>2. QED
  BY Inv1Holds, <1>1, PTL

(* execute never runs more than WithWorkers(n) subtasks at a time. *)
THEOREM PoolBounded == Spec => []PoolBound
<1>1. Inv1 => PoolBound
  BY DEF Inv1, Counts, PoolBound
<1>2. QED
  BY Inv1Holds, <1>1, PTL

(* When execute returns, every goroutine it started has ended. *)
THEOREM NoStrayWorkers == Spec => []NoStrayWorker
<1>1. Inv1 => NoStrayWorker
  BY DEF Inv1
<1>2. QED
  BY Inv1Holds, <1>1, PTL

-----------------------------------------------------------------------------
(* What the task row and the answer say: a second inductive invariant on top
   of Inv1, which ties each worker's position to the element, the flags and
   the result it owns, and the row and the answer to what finalize computed. *)

(* The steps a subtask's stored status may take. *)
Advances ==
  {<<"pending", "running">>, <<"pending", "failed">>,
   <<"running", "success">>, <<"running", "failed">>}

(* Before markStatus is called for the first time. *)
BeforeMark(i) ==
  /\ wpc[i] \in {"none", "enter"} =>
       /\ subtasks[i] = "pending" /\ mark[i] = "pending"
       /\ calls[i] = 0 /\ ~late[i]
  /\ wpc[i] = "none" /\ i < next => results[i].err
  /\ wpc[i] \notin {"none", "enter"} => mark[i] # "pending"

(* The element lags behind markStatus's argument until MarkWrite; for the
   zero Task it is never written. *)
MarkTrails(i) ==
  ~zero => /\ wpc[i] = "write" => <<subtasks[i], mark[i]>> \in Advances
           /\ wpc[i] \notin {"none", "enter", "write"} => subtasks[i] = mark[i]

(* The loop over the skills: what a worker in it has done so far. *)
InLoop(i) ==
  /\ wpc[i] \in {"loop", "call", "after"} => mark[i] = "running"
  /\ mark[i] = "running" =>
       /\ ~zero /\ calls[i] <= specs[i]
       /\ wpc[i] # "after" => ~outErr[i]
       /\ wpc[i] \notin {"loop", "call", "after"} => ~late[i]
  /\ wpc[i] = "call" => calls[i] < specs[i]
  /\ wpc[i] = "after" => outErr[i] \/ SubCtxErr(i) \/ calls[i] = specs[i]

(* What a worker that is to end has concluded. *)
Concluded(i) ==
  /\ mark[i] = "success" => /\ ~outErr[i] /\ ~late[i] /\ ~zero
                            /\ calls[i] = specs[i]
  /\ mark[i] = "failed" => outErr[i]
  /\ wpc[i] \in {"return", "release", "wgdone", "end"} => mark[i] \in Terminal
  /\ wpc[i] \in {"release", "wgdone", "end"} =>
       results[i] = [done |-> TRUE, err |-> outErr[i]]

WorkerInv(i) == BeforeMark(i) /\ MarkTrails(i) /\ InLoop(i) /\ Concluded(i)

(* finalize has counted the results of a loop that was run to its end. *)
Summed ==
  /\ final.status \in Terminal
  /\ final.failed = Failures
  /\ final.status = "success" => Failures = 0
  /\ \A i \in Subs : i < next

Outcome ==
  /\ pc = "finalize" => \A i \in Subs : i < next
  /\ pc \notin {"context", "save", "replied"} => final.status = "none"
  /\ pc \in {"context", "save"} => Summed
  /\ pc = "replied" => final.status = "none" \/ Summed
  /\ pc # "replied" => answer = NoAnswer
  /\ answer.status # "none" => answer.status = final.status
  /\ row.status \in Terminal =>
       /\ pc = "replied"
       /\ row.status = final.status
       /\ row.failed = final.failed
       /\ RowSubtasks = subtasks
       /\ ~zero

(* The memory store cannot fail, so nothing becomes the zero Task. *)
MemoryKeeps ==
  Backend = "memory" =>
    /\ ~zero
    /\ answer.code = 200 => answer.task = "task" /\ row.status = answer.status

Inv2 == Inv1 /\ (\A i \in Subs : WorkerInv(i)) /\ Outcome /\ MemoryKeeps

-----------------------------------------------------------------------------
(* The steps of a worker. *)

RunStep(i) == WorkerStep(i) \/ TimeoutFires(i) \/ ToolReturns(i)

(* The part of the state a worker's step cannot touch: the dispatcher's, and
   what belongs to another worker. *)
Untouched(i) ==
  /\ UNCHANGED <<specs, ctxErr, pc, next, zero, final, answer>>
  /\ \A j \in Subs \ {i} :
       /\ wpc'[j] = wpc[j] /\ subtasks'[j] = subtasks[j] /\ mark'[j] = mark[j]
       /\ calls'[j] = calls[j] /\ outErr'[j] = outErr[j] /\ late'[j] = late[j]
       /\ results'[j] = results[j]

LEMMA RunStepFrame ==
  ASSUME TypeOK, NEW i \in MaxSubs, RunStep(i)
  PROVE  Untouched(i)
<1> USE DEF Untouched, WorkerFrame, dispatch, worker
<1>0. ArrayTypes /\ FlagTypes
  BY DEF TypeOK
<1>1. CASE LoadAgent(i)
  BY <1>0, <1>1 DEF ArrayTypes, FlagTypes, LoadAgent, Marking
<1>2. CASE MarkWrite(i)
  BY <1>0, <1>2 DEF ArrayTypes, FlagTypes, MarkWrite
<1>3. CASE MarshalEntry(i)
  BY <1>0, <1>3 DEF ArrayTypes, FlagTypes, MarshalEntry
<1>4. CASE MarkStore(i)
  BY <1>0, <1>4 DEF ArrayTypes, FlagTypes, MarkStore
<1>5. CASE TimeoutFires(i)
  BY <1>0, <1>5 DEF ArrayTypes, FlagTypes, TimeoutFires
<1>6. CASE NextSkill(i)
  BY <1>0, <1>6 DEF ArrayTypes, FlagTypes, NextSkill
<1>7. CASE ToolReturns(i) \/ ToolAborts(i)
  BY <1>0, <1>7 DEF ArrayTypes, FlagTypes, ToolReturns, ToolAborts
<1>8. CASE AfterLoop(i)
  BY <1>0, <1>8 DEF ArrayTypes, FlagTypes, AfterLoop, Marking
<1>9. CASE ReturnOutcome(i)
  BY <1>0, <1>9 DEF ArrayTypes, FlagTypes, ReturnOutcome
<1>10. CASE Release(i) \/ WgDone(i)
  BY <1>0, <1>10 DEF ArrayTypes, FlagTypes, Release, WgDone
<1>11. QED
  BY <1>1, <1>2, <1>3, <1>4, <1>5, <1>6, <1>7, <1>8, <1>9, <1>10
     DEF RunStep, WorkerStep

(* Another worker's facts stay true. *)
LEMMA OtherWorker ==
  ASSUME NEW i, Untouched(i), NEW j \in Subs \ {i}, WorkerInv(j)
  PROVE  WorkerInv(j)'
  BY DEF Untouched, WorkerInv, BeforeMark, MarkTrails, InLoop, Concluded,
         SubCtxErr, Terminal

(* A worker's own step preserves its facts. *)
LEMMA OwnWorker ==
  ASSUME Inv1, NEW i \in MaxSubs, RunStep(i), i \in Subs, WorkerInv(i)
  PROVE  WorkerInv(i)'
<1> USE DEF WorkerFrame, dispatch, worker
<1>0. ArrayTypes /\ FlagTypes /\ zero \in BOOLEAN /\ ctxErr \in BOOLEAN
  BY DEF Inv1, TypeOK, RequestTypes
<1>n. specs \in Seq(Nat) /\ specs[i] \in Nat
  BY SubsInterval DEF Inv1, TypeOK, RequestTypes, Subs
<1> USE DEF WorkerInv, BeforeMark, MarkTrails, InLoop, Concluded, SubCtxErr,
            Terminal, Advances
<1>1. CASE LoadAgent(i)
  BY <1>0, <1>1, <1>n DEF ArrayTypes, FlagTypes, LoadAgent, Marking
<1>2. CASE MarkWrite(i)
  <2>1. /\ wpc[i] = "write"
        /\ UNCHANGED <<specs, ctxErr, next, zero, mark, calls, outErr, late, results>>
    BY <1>2 DEF MarkWrite
  <2>2. subtasks'[i] = IF zero THEN subtasks[i] ELSE mark[i]
    BY <1>0, <1>2 DEF ArrayTypes, MarkWrite
  <2>3. wpc'[i] \in {"loop", "return", "marshal", "store"}
    BY <1>0, <1>2 DEF ArrayTypes, MarkWrite, AfterMark
  <2>4. /\ wpc'[i] = "loop" => mark[i] = "running"
        /\ wpc'[i] = "return" => mark[i] # "running"
    BY <1>0, <1>2 DEF ArrayTypes, MarkWrite, AfterMark
  <2>5. mark[i] \in SubtaskStatus
    BY <1>0 DEF ArrayTypes
  <2>6. QED
    BY <2>1, <2>2, <2>3, <2>4, <2>5 DEF SubtaskStatus
<1>3. CASE MarshalEntry(i)
  BY <1>0, <1>3, <1>n DEF ArrayTypes, FlagTypes, MarshalEntry
<1>4. CASE MarkStore(i)
  <2>1. /\ wpc[i] = "store"
        /\ UNCHANGED <<specs, ctxErr, next, zero, subtasks, mark, calls, outErr,
                       late, results>>
    BY <1>4 DEF MarkStore
  <2>2. wpc'[i] = IF mark[i] = "running" THEN "loop" ELSE "return"
    BY <1>0, <1>4 DEF ArrayTypes, MarkStore, AfterMark
  <2>3. mark[i] \in SubtaskStatus
    BY <1>0 DEF ArrayTypes
  <2>4. QED
    BY <2>1, <2>2, <2>3 DEF SubtaskStatus
<1>5. CASE TimeoutFires(i)
  BY <1>0, <1>5, <1>n DEF ArrayTypes, FlagTypes, TimeoutFires
<1>6. CASE NextSkill(i)
  BY <1>0, <1>6, <1>n DEF ArrayTypes, FlagTypes, NextSkill
<1>7. CASE ToolReturns(i) \/ ToolAborts(i)
  BY <1>0, <1>7, <1>n DEF ArrayTypes, FlagTypes, ToolReturns, ToolAborts
<1>8. CASE AfterLoop(i)
  BY <1>0, <1>8, <1>n DEF ArrayTypes, FlagTypes, AfterLoop, Marking
<1>9. CASE ReturnOutcome(i)
  BY <1>0, <1>9, <1>n DEF ArrayTypes, FlagTypes, ReturnOutcome
<1>10. CASE Release(i) \/ WgDone(i)
  <2>1. /\ wpc[i] \in {"release", "wgdone"}
        /\ wpc'[i] \in {"wgdone", "end"}
        /\ UNCHANGED <<specs, ctxErr, next, zero, subtasks, mark, calls, outErr,
                       late, results>>
    BY <1>0, <1>10 DEF ArrayTypes, Release, WgDone
  <2>2. QED
    BY <2>1
<1>11. QED
  BY <1>1, <1>2, <1>3, <1>4, <1>5, <1>6, <1>7, <1>8, <1>9, <1>10
     DEF RunStep, WorkerStep

(* A statement either leaves the row or writes the one it was given, and the
   memory store always writes. *)
LEMMA StoreWrites ==
  ASSUME NEW r, NEW ok, UpdateTask(r, ok) \/ Store(r, ok)
  PROVE  row' \in {row, r}
  BY Zenon DEF UpdateTask, Store

LEMMA MemoryWrites ==
  ASSUME Backend = "memory", NEW r, NEW ok \in BOOLEAN, ~zero,
         UpdateTask(r, ok) \/ Store(r, ok)
  PROVE  row' = r /\ ok
  BY Zenon DEF UpdateTask, Store

(* A worker's step happens before finalize, and stores no terminal row. *)
LEMMA RunStepOutcome ==
  ASSUME Inv2, NEW i \in MaxSubs, RunStep(i)
  PROVE  Outcome' /\ MemoryKeeps'
<1>0. Inv1 /\ Outcome /\ MemoryKeeps /\ Untouched(i)
  BY RunStepFrame DEF Inv2, Inv1
<1>1. Subs' = Subs
  BY <1>0 DEF Untouched, Subs
<1>2. pc \notin {"finalize", "context", "save", "replied"}
  BY <1>0 DEF Inv1, NoStrayWorker, RunStep, WorkerStep, LoadAgent, MarkWrite,
       MarshalEntry, MarkStore, TimeoutFires, NextSkill, ToolReturns, ToolAborts,
       AfterLoop, ReturnOutcome, Release, WgDone
<1>3. row.status \notin Terminal /\ answer = NoAnswer
  BY <1>0, <1>2 DEF Outcome
<1>4. row'.status \notin Terminal
  <2>1. CASE MarkStore(i)
    <3>1. PICK ok \in BOOLEAN : UpdateTask(RowOf("running", snap[i], 0, FALSE), ok)
      BY <2>1 DEF MarkStore
    <3>2. row' \in {row, RowOf("running", snap[i], 0, FALSE)}
      BY <3>1, StoreWrites
    <3>3. QED
      BY <1>3, <3>2 DEF RowOf, Terminal
  <2>2. CASE ~MarkStore(i)
    <3>1. row' = row
      BY <2>2 DEF RunStep, WorkerStep, LoadAgent, MarkWrite, MarshalEntry,
           TimeoutFires, NextSkill, ToolReturns, ToolAborts, AfterLoop,
           ReturnOutcome, Release, WgDone
    <3>2. QED
      BY <1>3, <3>1
  <2>3. QED
    BY <2>1, <2>2
<1>5. Outcome'
  BY <1>0, <1>2, <1>3, <1>4 DEF Outcome, Untouched, NoAnswer
<1>6. MemoryKeeps'
  BY <1>0, <1>3 DEF MemoryKeeps, Untouched, NoAnswer
<1>7. QED
  BY <1>5, <1>6

-----------------------------------------------------------------------------
(* The steps of the dispatcher. *)

LEMMA InitInv2 == Init => Inv2
<1> SUFFICES ASSUME Init PROVE Inv2
  OBVIOUS
<1>1. Subs = {}
  BY DEF Init, Subs
<1>2. Outcome /\ MemoryKeeps
  BY DEF Init, Outcome, MemoryKeeps, NoRow, NoAnswer, NoFinal, Terminal
<1>3. QED
  BY <1>1, <1>2, InitInv1 DEF Inv2

(* A step that leaves the workers' state alone, and the loop index. *)
LEMMA WorkerInvFrame ==
  ASSUME \A i \in Subs : WorkerInv(i), ctxErr => ctxErr',
         UNCHANGED <<specs, next, zero, subtasks, results, wpc, mark, calls,
                     outErr, late>>
  PROVE  \A i \in Subs' : WorkerInv(i)'
<1>1. Subs' = Subs
  BY DEF Subs
<1>2. QED
  BY <1>1 DEF WorkerInv, BeforeMark, MarkTrails, InLoop, Concluded, SubCtxErr

(* Before the loop ends there is nothing final. *)
LEMMA NothingFinal ==
  ASSUME Inv2, pc \notin {"finalize", "context", "save", "replied"}
  PROVE  row.status \notin Terminal /\ answer = NoAnswer /\ final.status = "none"
  BY DEF Inv2, Outcome

LEMMA StillNothingFinal ==
  ASSUME row'.status \notin Terminal, answer' = NoAnswer, final'.status = "none",
         pc' \notin {"finalize", "context", "save", "replied"},
         Backend = "memory" => ~zero'
  PROVE  Outcome' /\ MemoryKeeps'
  BY DEF Outcome, MemoryKeeps, NoAnswer

LEMMA DispatcherInv2 ==
  ASSUME Inv2, Inv1', Dispatcher \/ Cancel
  PROVE  Inv2'
<1> USE DEF dispatch, worker
<1>0. /\ Inv1 /\ Outcome /\ MemoryKeeps /\ TypeOK
      /\ \A i \in Subs : WorkerInv(i)
  BY DEF Inv2, Inv1
<1>n. Len(specs) \in Nat /\ Subs = 1..Len(specs)
  BY <1>0, SubsInterval DEF TypeOK, RequestTypes
<1>t. next \in Nat /\ ctxErr \in BOOLEAN /\ zero \in BOOLEAN
  BY <1>0 DEF TypeOK, RequestTypes
<1> USE DEF Inv2
<1>1. CASE Cancel
  <2>1. \A i \in Subs' : WorkerInv(i)'
    BY <1>0, <1>1, WorkerInvFrame DEF Cancel
  <2>2. Outcome' /\ MemoryKeeps'
    BY <1>0, <1>1 DEF Cancel, Outcome, MemoryKeeps, Summed, Failures, RowSubtasks, Subs
  <2>3. QED
    BY <2>1, <2>2
<1>2. CASE ListAgentsFails
  <2>1. \A i \in Subs' : WorkerInv(i)'
    BY <1>0, <1>2, WorkerInvFrame DEF ListAgentsFails
  <2>2. row.status \notin Terminal /\ final.status = "none"
    BY <1>2, NothingFinal DEF ListAgentsFails
  <2>4. Outcome' /\ MemoryKeeps'
    BY <1>0, <1>2, <2>2 DEF ListAgentsFails, ReplyError, Outcome, MemoryKeeps
  <2>5. QED
    BY <2>1, <2>4
<1>3. CASE Decompose
  <2>1. \A i \in Subs' : WorkerInv(i)'
    <3>1. next' = 1 /\ zero' = zero
      BY <1>0, <1>3 DEF Decompose, Inv1, Position
    <3>2. \A i \in Subs' : ~(i < 1)
      <4>1. PICK n \in Nat : DOMAIN specs' = 1..n
        BY <1>3 DEF Decompose, SpecLists, MaxSubs
      <4>2. QED
        BY <4>1 DEF Subs
    <3>3. \A i \in Subs' : /\ wpc'[i] = "none" /\ subtasks'[i] = "pending"
                           /\ mark'[i] = "pending" /\ calls'[i] = 0 /\ late'[i] = FALSE
                           /\ ~(i < next')
      BY <1>3, <3>1, <3>2 DEF Decompose, Subs
    <3>4. QED
      BY <3>3 DEF WorkerInv, BeforeMark, MarkTrails, InLoop, Concluded
  <2>2. Outcome' /\ MemoryKeeps'
    BY <1>0, <1>3, NothingFinal, StillNothingFinal DEF Decompose, MemoryKeeps
  <2>3. QED
    BY <2>1, <2>2
<1>4. CASE CreateTask
  <2>1. \A i \in Subs' : WorkerInv(i)'
    BY <1>0, <1>4, WorkerInvFrame DEF CreateTask
  <2>2. row.status \notin Terminal /\ final.status = "none" /\ answer = NoAnswer
    BY <1>4, NothingFinal DEF CreateTask
  <2>3. PICK ok \in BOOLEAN :
          /\ Store(RowOf("pending", subtasks, 0, FALSE), ok)
          /\ pc' = IF ok THEN "setrunning" ELSE "replied"
          /\ IF ok THEN UNCHANGED answer ELSE ReplyError
    BY <1>4 DEF CreateTask
  <2>4. row'.status \notin Terminal
    BY <2>2, <2>3, StoreWrites DEF RowOf, Terminal
  <2>5. UNCHANGED <<zero, final>>
    BY <1>4 DEF CreateTask
  <2>6. Outcome' /\ MemoryKeeps'
    <3>1. CASE ok
      BY <1>0, <2>2, <2>3, <2>4, <2>5, <3>1, StillNothingFinal DEF MemoryKeeps
    <3>2. CASE ~ok
      BY <1>0, <2>2, <2>3, <2>4, <2>5, <3>2 DEF MemoryKeeps, Outcome, ReplyError
    <3>3. QED
      BY <3>1, <3>2
  <2>7. QED
    BY <2>1, <2>6
<1>5. CASE SetRunning
  <2>1. \A i \in Subs' : WorkerInv(i)'
    <3>1. \A i \in Subs : wpc[i] = "none" /\ i >= next
      BY <1>0, <1>n, <1>5 DEF SetRunning, Inv1, Position
    <3>2. UNCHANGED <<specs, next, subtasks, wpc, mark, calls, late>>
      BY <1>5 DEF SetRunning
    <3>3. \A i \in Subs : /\ subtasks[i] = "pending" /\ mark[i] = "pending"
                          /\ calls[i] = 0 /\ ~late[i]
      BY <1>0, <3>1 DEF WorkerInv, BeforeMark
    <3>4. \A i \in Subs' : /\ wpc'[i] = "none" /\ subtasks'[i] = "pending"
                           /\ mark'[i] = "pending" /\ calls'[i] = 0 /\ ~late'[i]
                           /\ ~(i < next')
      BY <1>n, <1>t, <3>1, <3>2, <3>3 DEF Subs
    <3>5. QED
      BY <3>4 DEF WorkerInv, BeforeMark, MarkTrails, InLoop, Concluded
  <2>2. row.status \notin Terminal /\ final.status = "none" /\ answer = NoAnswer
    BY <1>5, NothingFinal DEF SetRunning
  <2>3. PICK ok \in BOOLEAN :
          /\ UpdateTask(RowOf("running", subtasks, 0, FALSE), ok)
          /\ zero' = ~ok
    BY <1>5 DEF SetRunning
  <2>4. row'.status \notin Terminal
    BY <2>2, <2>3, StoreWrites DEF RowOf, Terminal
  <2>5. Backend = "memory" => ~zero'
    BY <1>0, <2>3, MemoryWrites DEF MemoryKeeps
  <2>6. Outcome' /\ MemoryKeeps'
    BY <1>5, <2>2, <2>4, <2>5, StillNothingFinal DEF SetRunning
  <2>7. QED
    BY <2>1, <2>6
<1>6. CASE SkipSubtask
  <2>1. \A i \in Subs' : WorkerInv(i)'
    <3>1. /\ UNCHANGED <<specs, ctxErr, zero, subtasks, wpc, mark, calls, outErr, late>>
          /\ next \in Subs /\ next' = next + 1
      BY <1>6 DEF SkipSubtask
    <3>2. wpc[next] = "none"
      BY <1>0, <1>t, <3>1 DEF Inv1, Position
    <3>3. /\ results'[next].err
          /\ \A i \in Subs \ {next} : results'[i] = results[i]
      BY <1>0, <1>6, <3>1 DEF SkipSubtask, TypeOK, ArrayTypes
    <3>4. \A i \in Subs : i < next' => i < next \/ i = next
      BY <1>n, <1>t, <3>1
    <3>5. \A i \in Subs : BeforeMark(i)'
      BY <1>0, <3>1, <3>3, <3>4 DEF WorkerInv, BeforeMark
    <3>6. \A i \in Subs : MarkTrails(i)' /\ InLoop(i)'
      BY <1>0, <3>1 DEF WorkerInv, MarkTrails, InLoop, SubCtxErr
    <3>7. \A i \in Subs : Concluded(i)'
      BY <1>0, <3>1, <3>2, <3>3 DEF WorkerInv, Concluded
    <3>8. QED
      BY <3>1, <3>5, <3>6, <3>7 DEF WorkerInv, Subs
  <2>2. Outcome' /\ MemoryKeeps'
    BY <1>0, <1>6, NothingFinal, StillNothingFinal DEF SkipSubtask, MemoryKeeps
  <2>3. QED
    BY <2>1, <2>2
<1>7. CASE WgAdd
  <2>1. \A i \in Subs' : WorkerInv(i)'
    BY <1>0, <1>7, WorkerInvFrame DEF WgAdd
  <2>2. Outcome' /\ MemoryKeeps'
    BY <1>0, <1>7, NothingFinal, StillNothingFinal DEF WgAdd, MemoryKeeps
  <2>3. QED
    BY <2>1, <2>2
<1>8. CASE AcquireAndGo
  <2>1. \A i \in Subs' : WorkerInv(i)'
    <3>1. /\ UNCHANGED <<specs, ctxErr, zero, subtasks, results, mark, calls, outErr, late>>
          /\ next' = next + 1
      BY <1>8 DEF AcquireAndGo
    <3>2. next \in Subs /\ wpc[next] = "none"
      BY <1>0, <1>t, <1>8 DEF AcquireAndGo, Inv1, Position
    <3>3. wpc'[next] = "enter" /\ \A i \in Subs \ {next} : wpc'[i] = wpc[i]
      BY <1>0, <1>8, <3>2 DEF AcquireAndGo, TypeOK, ArrayTypes
    <3>4. \A i \in Subs : i < next' => i < next \/ i = next
      BY <1>n, <1>t, <3>1
    <3>5. \A i \in Subs \ {next} : WorkerInv(i)'
      BY <1>0, <3>1, <3>3, <3>4 DEF WorkerInv, BeforeMark, MarkTrails, InLoop,
           Concluded, SubCtxErr
    <3>6. WorkerInv(next) /\ mark[next] = "pending"
      BY <1>0, <3>2 DEF WorkerInv, BeforeMark
    <3>7. \A i \in Subs : i = next => WorkerInv(i)'
      BY <1>0, <3>1, <3>2, <3>3, <3>6 DEF WorkerInv, BeforeMark, MarkTrails,
           InLoop, Concluded, SubCtxErr
    <3>8. QED
      BY <3>1, <3>5, <3>7 DEF Subs
  <2>2. Outcome' /\ MemoryKeeps'
    BY <1>0, <1>8, NothingFinal, StillNothingFinal DEF AcquireAndGo, MemoryKeeps
  <2>3. QED
    BY <2>1, <2>2
<1>9. CASE WgWait
  <2>1. \A i \in Subs' : WorkerInv(i)'
    BY <1>0, <1>9, WorkerInvFrame DEF WgWait
  <2>2. row.status \notin Terminal /\ final.status = "none" /\ answer = NoAnswer
    BY <1>9, NothingFinal DEF WgWait
  <2>3. \A i \in Subs : i < next
    <3>1. next \notin Subs /\ next >= 1
      BY <1>0, <1>9 DEF WgWait, TypeOK, RequestTypes
    <3>2. QED
      BY <1>n, <1>t, <3>1
  <2>4. Outcome' /\ MemoryKeeps'
    BY <1>0, <1>9, <2>2, <2>3 DEF WgWait, Outcome, MemoryKeeps, NoAnswer, Subs
  <2>5. QED
    BY <2>1, <2>4
<1>10. CASE Finalize
  <2>1. \A i \in Subs' : WorkerInv(i)'
    BY <1>0, <1>10, WorkerInvFrame DEF Finalize
  <2>2. row.status \notin Terminal /\ answer = NoAnswer
    BY <1>0, <1>10 DEF Finalize, Outcome
  <2>3. Failures' = Failures /\ Failures \in Nat
    BY <1>0, <1>10, FailuresType DEF Finalize, Failures, Subs, TypeOK
  <2>4. /\ final'.status \in Terminal
        /\ final'.failed = Failures
        /\ final'.status = "success" => ~(Failures > 0)
    BY <1>10 DEF Finalize, Terminal
  <2>5. Summed'
    BY <1>0, <1>10, <2>3, <2>4 DEF Finalize, Outcome, Summed, Subs
  <2>6. Outcome' /\ MemoryKeeps'
    BY <1>0, <1>10, <2>2, <2>5 DEF Finalize, Outcome, MemoryKeeps, NoAnswer
  <2>7. QED
    BY <2>1, <2>6
<1>11. CASE AggregateContext
  <2>1. \A i \in Subs' : WorkerInv(i)'
    BY <1>0, <1>11, WorkerInvFrame DEF AggregateContext
  <2>2. row.status \notin Terminal /\ answer = NoAnswer /\ Summed
    BY <1>0, <1>11 DEF AggregateContext, Outcome
  <2>3. final'.status = final.status /\ final'.failed = final.failed
    BY <1>0, <1>11 DEF AggregateContext, TypeOK, RecordTypes
  <2>4. Summed'
    BY <1>11, <2>2, <2>3 DEF AggregateContext, Summed, Failures, Subs
  <2>5. Outcome' /\ MemoryKeeps'
    BY <1>0, <1>11, <2>2, <2>4 DEF AggregateContext, Outcome, MemoryKeeps, NoAnswer
  <2>6. QED
    BY <2>1, <2>5
<1>12. CASE FinalSave
  <2>1. \A i \in Subs' : WorkerInv(i)'
    BY <1>0, <1>12, WorkerInvFrame DEF FinalSave
  <2>2. row.status \notin Terminal /\ answer = NoAnswer /\ Summed
    BY <1>0, <1>12 DEF FinalSave, Outcome
  <2>3. PICK ok \in BOOLEAN, sn \in Snapshots :
          UpdateTask(RowOf(final.status, sn, final.failed, final.context), ok)
    BY <1>12 DEF FinalSave
  <2>4. sn = subtasks
    <3>1. \A j \in Subs : wpc[j] # "write"
      BY <1>0, <1>12 DEF FinalSave, Inv1, NoStrayWorker
    <3>2. sn \in [Subs -> Entry] /\ \A j \in Subs : sn[j] = subtasks[j]
      BY <3>1 DEF Snapshots, Readable
    <3>3. subtasks \in [Subs -> SubtaskStatus]
      BY <1>0 DEF TypeOK, ArrayTypes
    <3>4. QED
      BY <3>2, <3>3
  <2>5. Summed'
    BY <1>12, <2>2 DEF FinalSave, Summed, Failures, Subs
  <2>6. zero => row' = row
    BY <2>3, Zenon DEF UpdateTask
  <2>7. row' \in {row, RowOf(final.status, subtasks, final.failed, final.context)}
    BY <2>3, <2>4, StoreWrites
  <2>8. row'.status \in Terminal =>
          /\ row'.status = final.status /\ row'.failed = final.failed
          /\ RowSubtasks' = subtasks /\ ~zero
    <3>1. CASE row' = row
      BY <2>2, <3>1
    <3>2. CASE ~zero /\ row' = RowOf(final.status, subtasks, final.failed, final.context)
      <4>1. row'.status = final.status /\ row'.failed = final.failed
        BY <3>2 DEF RowOf
      <4>2. subtasks' = subtasks
        BY <1>12 DEF FinalSave
      <4>3. RowSubtasks' = subtasks
        BY <3>2, <4>2 DEF RowOf, RowSubtasks
      <4>4. QED
        BY <3>2, <4>1, <4>3
    <3>3. QED
      BY <1>t, <2>6, <2>7, <3>1, <3>2
  <2>9. Outcome'
    BY <1>12, <2>5, <2>8 DEF FinalSave, Outcome
  <2>10. MemoryKeeps'
    <3> SUFFICES ASSUME Backend = "memory" PROVE MemoryKeeps'
      BY DEF MemoryKeeps
    <3>1. ~zero
      BY <1>0 DEF MemoryKeeps
    <3>2. row' = RowOf(final.status, sn, final.failed, final.context)
      BY <2>3, <3>1, MemoryWrites
    <3>3. QED
      BY <1>12, <3>1, <3>2 DEF FinalSave, MemoryKeeps, RowOf
  <2>11. QED
    BY <2>1, <2>9, <2>10
<1>13. QED
  BY <1>1, <1>2, <1>3, <1>4, <1>5, <1>6, <1>7, <1>8, <1>9, <1>10, <1>11, <1>12
     DEF Dispatcher

-----------------------------------------------------------------------------
(* Both invariants hold in every reachable state. *)

LEMMA NextInv2 == Inv2 /\ [Next]_vars => Inv2'
<1> SUFFICES ASSUME Inv2, [Next]_vars PROVE Inv2'
  OBVIOUS
<1>0. Inv1'
  BY NextInv1 DEF Inv2
<1>1. CASE Cancel \/ Dispatcher
  BY <1>0, <1>1, DispatcherInv2
<1>2. ASSUME NEW i \in MaxSubs, RunStep(i)
      PROVE  Inv2'
  <2>1. Untouched(i) /\ i \in Subs
    BY <1>2, RunStepFrame DEF Inv2, Inv1, RunStep, WorkerStep, LoadAgent, MarkWrite,
         MarshalEntry, MarkStore, TimeoutFires, NextSkill, ToolReturns, ToolAborts,
         AfterLoop, ReturnOutcome, Release, WgDone
  <2>2. Subs' = Subs
    BY <2>1 DEF Untouched, Subs
  <2>3. WorkerInv(i)'
    BY <1>2, <2>1, OwnWorker DEF Inv2
  <2>4. \A j \in Subs \ {i} : WorkerInv(j)'
    BY <2>1, OtherWorker DEF Inv2
  <2>5. Outcome' /\ MemoryKeeps'
    BY <1>2, RunStepOutcome
  <2>6. \A j \in Subs : WorkerInv(j)'
    BY <2>3, <2>4
  <2>7. QED
    BY <1>0, <2>2, <2>5, <2>6 DEF Inv2
<1>3. CASE UNCHANGED vars
  <2>1. /\ UNCHANGED <<specs, next, zero, subtasks, results, wpc, mark, calls,
                       outErr, late>>
        /\ UNCHANGED <<ctxErr, pc, final, row, answer>>
    BY <1>3 DEF vars, dispatch, worker
  <2>2. \A i \in Subs' : WorkerInv(i)'
    BY <2>1, WorkerInvFrame DEF Inv2
  <2>3. Outcome' /\ MemoryKeeps'
    BY <2>1 DEF Inv2, Outcome, MemoryKeeps, Summed, Failures, RowSubtasks, Subs
  <2>4. QED
    BY <1>0, <2>2, <2>3 DEF Inv2
<1>4. QED
  BY <1>1, <1>2, <1>3 DEF Next, Done, RunStep

LEMMA Inv2Holds == Spec => []Inv2
  BY InitInv2, NextInv2, PTL DEF Spec

-----------------------------------------------------------------------------
(* A row that finalize stored as success or failed shows each subtask as it
   ended, counts exactly those that did not succeed, and says success only
   if there is none. *)
THEOREM TerminalRowsExact == Spec => []TerminalRowExact
<1>1. Inv2 => TerminalRowExact
  <2> SUFFICES ASSUME Inv2, row.status \in Terminal
               PROVE  /\ \A i \in Subs :
                           RowSubtasks[i] = IF ~results[i].err THEN "success"
                                            ELSE IF wpc[i] = "none" THEN "pending"
                                            ELSE "failed"
                      /\ row.failed = Cardinality({i \in Subs : RowSubtasks[i] # "success"})
                      /\ row.status = "success" => row.failed = 0
    BY DEF TerminalRowExact
  <2>1. /\ pc = "replied" /\ RowSubtasks = subtasks /\ ~zero /\ Summed
        /\ row.status = final.status /\ row.failed = final.failed
    BY DEF Inv2, Outcome, Terminal
  <2>2. ASSUME NEW i \in Subs
        PROVE  /\ RowSubtasks[i] = IF ~results[i].err THEN "success"
                                   ELSE IF wpc[i] = "none" THEN "pending"
                                   ELSE "failed"
               /\ results[i].err <=> RowSubtasks[i] # "success"
    <3>1. wpc[i] \in {"none", "end"} /\ i < next /\ WorkerInv(i)
      BY <2>1, <2>2 DEF Inv2, Inv1, NoStrayWorker, Summed
    <3>2. CASE wpc[i] = "none"
      BY <2>1, <3>1, <3>2 DEF WorkerInv, BeforeMark
    <3>3. CASE wpc[i] = "end"
      <4>1. /\ subtasks[i] = mark[i] /\ mark[i] \in Terminal
            /\ results[i].err = outErr[i]
        BY <2>1, <3>1, <3>3 DEF WorkerInv, MarkTrails, Concluded
      <4>2. CASE mark[i] = "success"
        BY <2>1, <3>1, <3>3, <4>1, <4>2 DEF WorkerInv, Concluded
      <4>3. CASE mark[i] = "failed"
        BY <2>1, <3>1, <3>3, <4>1, <4>3 DEF WorkerInv, Concluded
      <4>4. QED
        BY <4>1, <4>2, <4>3 DEF Terminal
    <3>4. QED
      BY <3>1, <3>2, <3>3
  <2>3. {i \in Subs : results[i].err} = {i \in Subs : RowSubtasks[i] # "success"}
    BY <2>2
  <2>4. row.failed = Cardinality({i \in Subs : RowSubtasks[i] # "success"})
    BY <2>1, <2>3 DEF Summed, Failures
  <2>5. QED
    BY <2>1, <2>2, <2>4 DEF Summed
<1>2. QED
  BY Inv2Holds, <1>1, PTL

(* No late worker and no second save writes over a stored terminal task. *)
THEOREM TerminalRowsStable == Spec => TerminalRowStable
<1>1. Inv2 /\ [Next]_vars => [row.status \in Terminal => UNCHANGED <<row, subtasks>>]_vars
  <2> SUFFICES ASSUME Inv2, [Next]_vars, row.status \in Terminal
               PROVE  UNCHANGED <<row, subtasks>>
    OBVIOUS
  <2>1. pc = "replied"
    BY DEF Inv2, Outcome
  <2>2. \A i \in Subs : wpc[i] \in {"none", "end"}
    BY <2>1 DEF Inv2, Inv1, NoStrayWorker
  <2>3. CASE Cancel \/ Dispatcher
    BY <2>1, <2>3 DEF Cancel, Dispatcher, ListAgentsFails, Decompose, CreateTask,
         SetRunning, SkipSubtask, WgAdd, AcquireAndGo, WgWait, Finalize,
         AggregateContext, FinalSave
  <2>4. ASSUME NEW i \in MaxSubs, RunStep(i) PROVE FALSE
    BY <2>2, <2>4 DEF RunStep, WorkerStep, LoadAgent, MarkWrite,
         MarshalEntry, MarkStore, TimeoutFires, NextSkill, ToolReturns, ToolAborts,
         AfterLoop, ReturnOutcome, Release, WgDone
  <2>5. CASE UNCHANGED vars
    BY <2>5 DEF vars
  <2>6. QED
    BY <2>3, <2>4, <2>5 DEF Next, Done, RunStep
<1>2. QED
  BY Inv2Holds, <1>1, PTL DEF Spec, TerminalRowStable

(* The client is told success only if every subtask called all its tools
   within its deadline. *)
THEOREM SuccessEarned == Spec => []SuccessIsEarned
<1>1. Inv2 => SuccessIsEarned
  <2> SUFFICES ASSUME Inv2, answer.status = "success", NEW i \in Subs
               PROVE  /\ results[i] = [done |-> TRUE, err |-> FALSE]
                      /\ calls[i] = specs[i]
                      /\ ~late[i]
    BY DEF SuccessIsEarned
  <2>1. pc = "replied" /\ Summed /\ final.status = "success"
    BY DEF Inv2, Outcome, NoAnswer
  <2>2. {j \in Subs : results[j].err} = {}
    <3>1. IsFiniteSet({j \in Subs : results[j].err})
      BY SubsInterval, FS_Subset DEF Inv2, Inv1, TypeOK, RequestTypes
    <3>2. QED
      BY <2>1, <3>1, FS_EmptySet DEF Summed, Failures
  <2>3. ~results[i].err /\ i < next /\ wpc[i] \in {"none", "end"} /\ WorkerInv(i)
    BY <2>1, <2>2 DEF Inv2, Inv1, NoStrayWorker, Summed
  <2>4. wpc[i] = "end" /\ ~outErr[i] /\ results[i] = [done |-> TRUE, err |-> outErr[i]]
    BY <2>3 DEF WorkerInv, BeforeMark, Concluded
  <2>5. mark[i] = "success"
    BY <2>3, <2>4 DEF WorkerInv, Concluded, Terminal
  <2>6. outErr[i] = FALSE
    BY <2>4 DEF Inv2, Inv1, TypeOK, FlagTypes
  <2>7. QED
    BY <2>3, <2>4, <2>5, <2>6 DEF WorkerInv, Concluded
<1>2. QED
  BY Inv2Holds, <1>1, PTL

(* execute and runSubtask, for any pool and any number of subtasks: no slot and
   no WaitGroup count is lost, so whatever the dispatcher waits for is still to
   come, and no worker is stuck outside of a tool call. *)
THEOREM WaitingIsFounded == Spec => []WaitsAreFounded
<1>1. Inv2 => WaitsAreFounded
  <2> SUFFICES ASSUME Inv2 PROVE WaitsAreFounded
    OBVIOUS
  <2>1. /\ sem = Cardinality(Holding) /\ sem <= Pool /\ Pool \in Int /\ sem \in Nat
        /\ wg = Cardinality(Live) + (IF pc = "acquire" THEN 1 ELSE 0)
    BY DEF Inv2, Inv1, Counts, Pool, TypeOK, RequestTypes
  <2>2. ASSUME pc = "dispatch", wg # 0 PROVE \E i \in Subs : wpc[i] \notin {"none", "end"}
    <3>1. Cardinality(Live) # 0
      <4>1. IsFiniteSet(Live)
        BY SubsInterval, FS_Subset DEF Live, Inv2, Inv1, TypeOK, RequestTypes
      <4>2. Cardinality(Live) \in Nat
        BY <4>1, FS_CardinalityType
      <4>3. QED
        BY <2>1, <2>2, <4>2
    <3>2. Live # {}
      BY <3>1, FS_EmptySet
    <3>3. QED
      BY <3>2 DEF Live
  <2>3. ASSUME NEW i \in Subs PROVE wpc[i] = "marshal" => Len(snap[i]) < Len(specs)
    <3>1. Len(specs) \in Nat /\ Subs = 1..Len(specs)
      BY SubsInterval DEF Inv2, Inv1, TypeOK, RequestTypes
    <3>2. Len(snap[i]) \in Nat
      BY <2>3, LenProperties DEF Inv2, Inv1, TypeOK, FlagTypes
    <3>3. QED
      BY <2>3, <3>1, <3>2 DEF Inv2, Inv1, Marshalling
  <2>4. ASSUME NEW i \in Subs PROVE wpc[i] = "loop" => calls[i] <= specs[i]
    BY <2>4 DEF Inv2, WorkerInv, InLoop
  <2>5. QED
    BY <2>1, <2>2, <2>3, <2>4 DEF WaitsAreFounded
<1>2. QED
  BY Inv2Holds, <1>1, PTL

(* An element of the shared array never goes back: each worker writes its
   own, pending to running to success or failed. *)
THEOREM SubtasksOnlyAdvance == Spec => SubtasksAdvance
<1>1. Inv2 /\ [Next]_vars =>
        [\A i \in Subs : subtasks'[i] # subtasks[i] =>
            <<subtasks[i], subtasks'[i]>> \in Advances]_vars
  <2> SUFFICES ASSUME Inv2, [Next]_vars, NEW i \in Subs, subtasks'[i] # subtasks[i]
               PROVE  <<subtasks[i], subtasks'[i]>> \in Advances
    OBVIOUS
  <2>1. CASE Cancel \/ Dispatcher
    <3>1. CASE Decompose
      BY <3>1 DEF Decompose, Inv2, Inv1, Position, Subs
    <3>2. CASE ~Decompose
      BY <2>1, <3>2 DEF Cancel, Dispatcher, ListAgentsFails, CreateTask,
           SetRunning, SkipSubtask, WgAdd, AcquireAndGo, WgWait, Finalize,
           AggregateContext, FinalSave
    <3>3. QED
      BY <3>1, <3>2
  <2>2. ASSUME NEW j \in MaxSubs, RunStep(j)
        PROVE  <<subtasks[i], subtasks'[i]>> \in Advances
    <3>1. j = i
      BY <2>2, RunStepFrame DEF Untouched, Inv2, Inv1
    <3>2. MarkWrite(i)
      BY <2>2, <3>1 DEF RunStep, WorkerStep, LoadAgent, MarshalEntry, MarkStore,
           TimeoutFires, NextSkill, ToolReturns, ToolAborts, AfterLoop,
           ReturnOutcome, Release, WgDone
    <3>3. ~zero /\ wpc[i] = "write" /\ subtasks'[i] = mark[i]
      BY <3>2 DEF MarkWrite, Inv2, Inv1, TypeOK, ArrayTypes
    <3>4. QED
      BY <3>3 DEF Inv2, WorkerInv, MarkTrails
  <2>3. CASE UNCHANGED vars
    BY <2>3 DEF vars
  <2>4. QED
    BY <2>1, <2>2, <2>3 DEF Next, Done, RunStep, vars
<1>2. QED
  BY Inv2Holds, <1>1, PTL DEF Spec, SubtasksAdvance, Advances

(* On the memory store, what Distribute returns is what it has stored, as its
   comment promises.  (On PostgreSQL it need not be: that is a finding.) *)
THEOREM MemoryReturnsPersisted == Backend = "memory" => (Spec => []ReturnedIsPersisted)
<1> SUFFICES ASSUME Backend = "memory" PROVE Spec => []ReturnedIsPersisted
  OBVIOUS
<1>1. Inv2 => ReturnedIsPersisted
  BY DEF Inv2, MemoryKeeps, ReturnedIsPersisted
<1>2. QED
  BY Inv2Holds, <1>1, PTL
=============================================================================
