-------------------------- MODULE TaskDistribution --------------------------
(***************************************************************************)
(* One POST /tasks request: the createTask handler calls                   *)
(* Orchestrator.Distribute, which stores a task, fans its subtasks out to  *)
(* a bounded pool of goroutines and stores the final task.  The model      *)
(* keeps every goroutine step that another goroutine, the client or the    *)
(* database can interleave with:                                           *)
(*                                                                         *)
(*   - the dispatcher (Distribute, execute, finalize), the semaphore and   *)
(*     the WaitGroup;                                                      *)
(*   - one worker per subtask (runSubtask), its per-subtask deadline, and  *)
(*     the Subtasks array that all of them write and marshal unlocked;     *)
(*   - the request's context, which the client may cancel at any moment;   *)
(*   - the task's row in the store: the in-memory store keeps a reference  *)
(*     to the live array, PostgreSQL the JSON a goroutine read from it.    *)
(*                                                                         *)
(* Descriptions, tool outputs and the text of errors are left out: an      *)
(* outcome is "error" or "no error".                                       *)
(***************************************************************************)
EXTENDS Integers, FiniteSets, Sequences

CONSTANTS
  Backend,        \* "memory" or "pg": which store.Store the hub was built on
  WorkersOption,  \* WithWorkers(n), any integer the configuration yields
  HasTimeout,     \* WithTimeout(d): d > 0
  MaxSubtasks,    \* bound: subtasks of a task, i.e. matching agents
  MaxSkills       \* bound: matching skills of one agent

ASSUME BackendAssumption == Backend \in {"memory", "pg"}
ASSUME WorkersAssumption == WorkersOption \in Int
ASSUME TimeoutAssumption == HasTimeout \in BOOLEAN
ASSUME BoundsAssumption  == MaxSubtasks \in Nat \ {0} /\ MaxSkills \in Nat \ {0}

VARIABLES
  specs,    \* matched skills per subtask; 0 is the spec without an agent
  ctxErr,   \* ctx.Err() # nil for the request's context
  pc,       \* where Distribute is
  next,     \* loop index of execute
  zero,     \* the dispatcher's `task` is the zero Task
  final,    \* the status and counts finalize has computed
  sem,      \* filled slots of the semaphore channel
  wg,       \* the WaitGroup's counter
  subtasks, \* status of each element of the shared task.Subtasks array
  results,  \* the results slice: has it been written, with an error?
  wpc,      \* where each runSubtask goroutine is
  mark,     \* the status a worker is storing in markStatus
  calls,    \* tools a worker has called successfully
  outErr,   \* out.err # nil of a worker
  late,     \* the worker's own deadline has passed
  snap,     \* what a worker's subtasksJSON has read so far (PostgreSQL)
  row,      \* the stored task
  answer    \* what createTask answered and broadcast

dispatch == <<pc, next, zero, final>>
worker == <<mark, calls, outErr, late, snap>>
vars == <<specs, ctxErr, dispatch, sem, wg, subtasks, results, wpc, worker,
          row, answer>>

Subs == DOMAIN specs
MaxSubs == 1..MaxSubtasks

(* "torn" is what a reader gets from an element while another goroutine is
   copying a struct into it: some mixture of the two values. *)
SubtaskStatus == {"pending", "running", "success", "failed"}
Entry == SubtaskStatus \cup {"torn"}
TaskStatus == {"pending", "running", "success", "failed"}

(* What Decompose may return: one spec without an agent, or one spec per
   matching agent, those with more matching skills first. *)
SpecLists ==
  {<<0>>} \cup
  {s \in UNION {[1..n -> 1..MaxSkills] : n \in MaxSubs} :
     \A i, j \in DOMAIN s : i < j => s[i] >= s[j]}

NoRow == [status |-> "none", subtasks |-> <<>>, failed |-> 0, context |-> FALSE]
NoAnswer == [code |-> 0, task |-> "none", status |-> "none"]
NoFinal == [status |-> "none", failed |-> 0, context |-> FALSE]

-----------------------------------------------------------------------------
(* The store.  A row of the memory store has no subtasks of its own: it
   holds the slice header, hence the live array. *)
RowOf(st, sn, f, c) ==
  [status |-> st, subtasks |-> IF Backend = "memory" THEN <<>> ELSE sn,
   failed |-> f, context |-> c]

RowSubtasks == IF Backend = "memory" THEN subtasks ELSE row.subtasks

(* A statement that writes row r and reports success or not.  The memory
   store ignores the context and cannot fail here.  PostgreSQL refuses a
   cancelled context, and an error may be reported for a statement that was
   committed. *)
Store(r, ok) ==
  \/ /\ ok
     /\ Backend = "pg" => ~ctxErr
     /\ row' = r
  \/ /\ ~ok
     /\ Backend = "pg"
     /\ row' \in {row} \cup (IF ctxErr THEN {} ELSE {r})

(* The zero Task has no id: UpdateTask finds no row for it. *)
UpdateTask(r, ok) ==
  IF zero THEN ~ok /\ row' = row ELSE Store(r, ok)

(* What reading element j can return: task.Subtasks[j] = sub copies several
   words without a lock. *)
Readable(j) ==
  IF wpc[j] = "write" /\ ~zero THEN {subtasks[j], mark[j], "torn"}
                               ELSE {subtasks[j]}

Snapshots == {f \in [Subs -> Entry] : \A j \in Subs : f[j] \in Readable(j)}

-----------------------------------------------------------------------------
Init ==
  /\ specs = <<>>
  /\ ctxErr = FALSE
  /\ pc = "list"
  /\ next = 1
  /\ zero = FALSE
  /\ final = NoFinal
  /\ sem = 0
  /\ wg = 0
  /\ subtasks = <<>>
  /\ results = <<>>
  /\ wpc = <<>>
  /\ mark = <<>>
  /\ calls = <<>>
  /\ outErr = <<>>
  /\ late = <<>>
  /\ snap = <<>>
  /\ row = NoRow
  /\ answer = NoAnswer

(* The client goes away: net/http cancels the request's context. *)
Cancel ==
  /\ pc # "replied"
  /\ ~ctxErr
  /\ ctxErr' = TRUE
  /\ UNCHANGED <<specs, dispatch, sem, wg, subtasks, results, wpc, worker, row,
                 answer>>

(* createTask's answer to an error of Distribute. *)
ReplyError == answer' = [code |-> 500, task |-> "none", status |-> "none"]

ListAgentsFails ==
  /\ pc = "list"
  /\ Backend = "pg"
  /\ pc' = "replied"
  /\ ReplyError
  /\ UNCHANGED <<specs, ctxErr, next, zero, final, sem, wg, subtasks, results,
                 wpc, worker, row>>

(* ListAgents, Decompose and the construction of the pending task. *)
Decompose ==
  /\ pc = "list"
  /\ Backend = "pg" => ~ctxErr
  /\ \E s \in SpecLists :
       /\ specs' = s
       /\ subtasks' = [i \in DOMAIN s |-> "pending"]
       /\ results' = [i \in DOMAIN s |-> [done |-> FALSE, err |-> FALSE]]
       /\ wpc' = [i \in DOMAIN s |-> "none"]
       /\ mark' = [i \in DOMAIN s |-> "pending"]
       /\ calls' = [i \in DOMAIN s |-> 0]
       /\ outErr' = [i \in DOMAIN s |-> FALSE]
       /\ late' = [i \in DOMAIN s |-> FALSE]
       /\ snap' = [i \in DOMAIN s |-> <<>>]
  /\ pc' = "create"
  /\ UNCHANGED <<ctxErr, next, zero, final, sem, wg, row, answer>>

CreateTask ==
  /\ pc = "create"
  /\ \E ok \in BOOLEAN :
       /\ Store(RowOf("pending", subtasks, 0, FALSE), ok)
       /\ pc' = IF ok THEN "setrunning" ELSE "replied"
       /\ IF ok THEN UNCHANGED answer ELSE ReplyError
  /\ UNCHANGED <<specs, ctxErr, next, zero, final, sem, wg, subtasks, results,
                 wpc, worker>>

(* task, _ = UpdateTask(ctx, task): on an error the returned zero Task
   replaces the task. *)
SetRunning ==
  /\ pc = "setrunning"
  /\ \E ok \in BOOLEAN :
       /\ UpdateTask(RowOf("running", subtasks, 0, FALSE), ok)
       /\ zero' = ~ok
  /\ pc' = "dispatch"
  /\ UNCHANGED <<specs, ctxErr, next, final, sem, wg, subtasks, results, wpc,
                 worker, answer>>

-----------------------------------------------------------------------------
(* execute *)

MutSkipSilently ==
  /\ pc = "dispatch"
  /\ next \in Subs
  /\ ctxErr
  /\ next' = next + 1
  /\ UNCHANGED <<specs, ctxErr, pc, zero, final, sem, wg, subtasks, results, wpc,
                 worker, row, answer>>

(* A cancelled context: the subtask gets an error and no goroutine. *)
SkipSubtask ==
  /\ pc = "dispatch"
  /\ next \in Subs
  /\ ctxErr
  /\ results' = [results EXCEPT ![next] = [done |-> TRUE, err |-> TRUE]]
  /\ next' = next + 1
  /\ UNCHANGED <<specs, ctxErr, pc, zero, final, sem, wg, subtasks, wpc, worker,
                 row, answer>>

WgAdd ==
  /\ pc = "dispatch"
  /\ next \in Subs
  /\ ~ctxErr
  /\ wg' = wg + 1
  /\ pc' = "acquire"
  /\ UNCHANGED <<specs, ctxErr, next, zero, final, sem, subtasks, results, wpc,
                 worker, row, answer>>

Pool == IF WorkersOption < 1 THEN 1 ELSE WorkersOption

MutUnboundedSemaphore ==
  /\ pc = "acquire"
  /\ sem' = sem + 1
  /\ wpc' = [wpc EXCEPT ![next] = "enter"]
  /\ next' = next + 1
  /\ pc' = "dispatch"
  /\ UNCHANGED <<specs, ctxErr, zero, final, wg, subtasks, results, worker, row,
                 answer>>

(* sem <- struct{}{} blocks the dispatcher while the pool is full; then the
   goroutine starts. *)
AcquireAndGo ==
  /\ pc = "acquire"
  /\ sem < Pool
  /\ sem' = sem + 1
  /\ wpc' = [wpc EXCEPT ![next] = "enter"]
  /\ next' = next + 1
  /\ pc' = "dispatch"
  /\ UNCHANGED <<specs, ctxErr, zero, final, wg, subtasks, results, worker, row,
                 answer>>

MutNoWait ==
  /\ pc = "dispatch"
  /\ next \notin Subs
  /\ pc' = "finalize"
  /\ UNCHANGED <<specs, ctxErr, next, zero, final, sem, wg, subtasks, results,
                 wpc, worker, row, answer>>

(* The loop is over and wg.Wait() returns. *)
WgWait ==
  /\ pc = "dispatch"
  /\ next \notin Subs
  /\ wg = 0
  /\ pc' = "finalize"
  /\ UNCHANGED <<specs, ctxErr, next, zero, final, sem, wg, subtasks, results,
                 wpc, worker, row, answer>>

-----------------------------------------------------------------------------
(* runSubtask *)

WorkerFrame ==
  UNCHANGED <<specs, ctxErr, dispatch, answer>>

(* The worker goes on to markStatus(st); `out.err` is e. *)
Marking(i, st, e) ==
  /\ mark' = [mark EXCEPT ![i] = st]
  /\ outErr' = [outErr EXCEPT ![i] = e]
  /\ wpc' = [wpc EXCEPT ![i] = "write"]

(* No agent, or GetAgent fails: the agent may have been deleted since it was
   listed, the context may be cancelled, and the zero Task has no tenant. *)
LoadAgent(i) ==
  /\ i \in Subs
  /\ wpc[i] = "enter"
  /\ \/ Marking(i, "failed", TRUE)
     \/ /\ specs[i] > 0
        /\ ~zero
        /\ Backend = "pg" => ~ctxErr
        /\ Marking(i, "running", FALSE)
  /\ UNCHANGED <<sem, wg, subtasks, results, calls, late, snap, row>>
  /\ WorkerFrame

MutAfterMark(i) == "loop"

(* After a call of markStatus the worker either enters the tool loop or
   returns its outcome. *)
AfterMark(i) == IF mark[i] = "running" THEN "loop" ELSE "return"

(* markStatus returns at once for the zero Task, and otherwise writes the
   element; the memory store then takes its lock, PostgreSQL's client
   marshals the whole array first. *)
MarkWrite(i) ==
  /\ i \in Subs
  /\ wpc[i] = "write"
  /\ subtasks' = IF zero THEN subtasks ELSE [subtasks EXCEPT ![i] = mark[i]]
  /\ wpc' = [wpc EXCEPT ![i] =
               IF zero THEN AfterMark(i)
               ELSE IF Backend = "pg" THEN "marshal" ELSE "store"]
  /\ UNCHANGED <<sem, wg, results, worker, row>>
  /\ WorkerFrame

(* subtasksJSON reads the elements one after the other. *)
MarshalEntry(i) ==
  /\ i \in Subs
  /\ wpc[i] = "marshal"
  /\ \E e \in Readable(Len(snap[i]) + 1) :
       snap' = [snap EXCEPT ![i] = Append(@, e)]
  /\ wpc' = [wpc EXCEPT ![i] =
               IF Len(snap[i]) + 1 = Len(specs) THEN "store" ELSE @]
  /\ UNCHANGED <<sem, wg, subtasks, results, mark, calls, outErr, late, row>>
  /\ WorkerFrame

(* The worker's UpdateTask.  Its copy of the task says "running"; an error
   is ignored. *)
MarkStore(i) ==
  /\ i \in Subs
  /\ wpc[i] = "store"
  /\ \E ok \in BOOLEAN : UpdateTask(RowOf("running", snap[i], 0, FALSE), ok)
  /\ snap' = [snap EXCEPT ![i] = <<>>]
  /\ wpc' = [wpc EXCEPT ![i] = AfterMark(i)]
  /\ UNCHANGED <<sem, wg, subtasks, results, mark, calls, outErr, late>>
  /\ WorkerFrame

SubCtxErr(i) == ctxErr \/ late[i]

(* subCtx's deadline passes. *)
TimeoutFires(i) ==
  /\ i \in Subs
  /\ HasTimeout
  /\ wpc[i] \in {"loop", "call", "after"}
  /\ ~late[i]
  /\ late' = [late EXCEPT ![i] = TRUE]
  /\ UNCHANGED <<sem, wg, subtasks, results, wpc, mark, calls, outErr, snap, row>>
  /\ WorkerFrame

(* The head of the loop over skills: leave it when subCtx is done or no
   skill is left; an unknown server or a bad transport ends it with an
   error; otherwise the tool is called. *)
NextSkill(i) ==
  /\ i \in Subs
  /\ wpc[i] = "loop"
  /\ \/ /\ SubCtxErr(i) \/ calls[i] = specs[i]
        /\ wpc' = [wpc EXCEPT ![i] = "after"]
        /\ UNCHANGED outErr
     \/ /\ ~SubCtxErr(i) /\ calls[i] < specs[i]
        /\ wpc' = [wpc EXCEPT ![i] = "after"]
        /\ outErr' = [outErr EXCEPT ![i] = TRUE]
     \/ /\ ~SubCtxErr(i) /\ calls[i] < specs[i]
        /\ wpc' = [wpc EXCEPT ![i] = "call"]
        /\ UNCHANGED outErr
  /\ UNCHANGED <<sem, wg, subtasks, results, mark, calls, late, snap, row>>
  /\ WorkerFrame

(* CallTool answers, with a result or an error. *)
ToolReturns(i) ==
  /\ i \in Subs
  /\ wpc[i] = "call"
  /\ \/ /\ calls' = [calls EXCEPT ![i] = @ + 1]
        /\ wpc' = [wpc EXCEPT ![i] = "loop"]
        /\ UNCHANGED outErr
     \/ /\ outErr' = [outErr EXCEPT ![i] = TRUE]
        /\ wpc' = [wpc EXCEPT ![i] = "after"]
        /\ UNCHANGED calls
  /\ UNCHANGED <<sem, wg, subtasks, results, mark, late, snap, row>>
  /\ WorkerFrame

MutCallWithCtx(i) ==
  /\ i \in Subs
  /\ wpc[i] = "call"
  /\ ctxErr
  /\ outErr' = [outErr EXCEPT ![i] = TRUE]
  /\ wpc' = [wpc EXCEPT ![i] = "after"]
  /\ UNCHANGED <<sem, wg, subtasks, results, mark, calls, late, snap, row>>
  /\ WorkerFrame

(* CallTool gives up because subCtx is done.  McpCall's ContextEndsCall says
   which calls of the Go client do. *)
ToolAborts(i) ==
  /\ i \in Subs
  /\ wpc[i] = "call"
  /\ SubCtxErr(i)
  /\ outErr' = [outErr EXCEPT ![i] = TRUE]
  /\ wpc' = [wpc EXCEPT ![i] = "after"]
  /\ UNCHANGED <<sem, wg, subtasks, results, mark, calls, late, snap, row>>
  /\ WorkerFrame

MutLateIsSuccess(i) ==
  /\ i \in Subs
  /\ wpc[i] = "after"
  /\ Marking(i, IF outErr[i] THEN "failed" ELSE "success", outErr[i])
  /\ UNCHANGED <<sem, wg, subtasks, results, calls, late, snap, row>>
  /\ WorkerFrame

(* After the loop: a deadline that passed counts as an error. *)
AfterLoop(i) ==
  /\ i \in Subs
  /\ wpc[i] = "after"
  /\ LET e == outErr[i] \/ SubCtxErr(i)
     IN  Marking(i, IF e THEN "failed" ELSE "success", e)
  /\ UNCHANGED <<sem, wg, subtasks, results, calls, late, snap, row>>
  /\ WorkerFrame

(* results[i] = runSubtask(...) *)
ReturnOutcome(i) ==
  /\ i \in Subs
  /\ wpc[i] = "return"
  /\ results' = [results EXCEPT ![i] = [done |-> TRUE, err |-> outErr[i]]]
  /\ wpc' = [wpc EXCEPT ![i] = "release"]
  /\ UNCHANGED <<sem, wg, subtasks, worker, row>>
  /\ WorkerFrame

MutKeepSlot(i) ==
  /\ i \in Subs
  /\ wpc[i] = "release"
  /\ wpc' = [wpc EXCEPT ![i] = "wgdone"]
  /\ UNCHANGED <<sem, wg, subtasks, results, worker, row>>
  /\ WorkerFrame

(* The deferred calls, last in first out: <-sem, then wg.Done(). *)
Release(i) ==
  /\ i \in Subs
  /\ wpc[i] = "release"
  /\ sem' = sem - 1
  /\ wpc' = [wpc EXCEPT ![i] = "wgdone"]
  /\ UNCHANGED <<wg, subtasks, results, worker, row>>
  /\ WorkerFrame

WgDone(i) ==
  /\ i \in Subs
  /\ wpc[i] = "wgdone"
  /\ wg' = wg - 1
  /\ wpc' = [wpc EXCEPT ![i] = "end"]
  /\ UNCHANGED <<sem, subtasks, results, worker, row>>
  /\ WorkerFrame

-----------------------------------------------------------------------------
(* finalize and the answer of createTask *)

Failures == Cardinality({i \in Subs : results[i].err})

(* Count the failures and choose the status; ctx.Err() is read here. *)
Finalize ==
  /\ pc = "finalize"
  /\ final' = [status |-> IF Failures > 0 \/ ctxErr THEN "failed" ELSE "success",
               failed |-> Failures, context |-> FALSE]
  /\ pc' = "context"
  /\ UNCHANGED <<specs, ctxErr, next, zero, sem, wg, subtasks, results, wpc,
                 worker, row, answer>>

(* ctx.Err() is read a second time: the aggregate ends with "context: ..."
   even if the client left after the status was chosen. *)
AggregateContext ==
  /\ pc = "context"
  /\ final' = [final EXCEPT !.context = ctxErr]
  /\ pc' = "save"
  /\ UNCHANGED <<specs, ctxErr, next, zero, sem, wg, subtasks, results, wpc,
                 worker, row, answer>>

MutNoFinalSave ==
  /\ pc = "save"
  /\ answer' = [code |-> 200, task |-> IF zero THEN "" ELSE "task",
                status |-> final.status]
  /\ pc' = "replied"
  /\ UNCHANGED <<specs, ctxErr, next, zero, final, sem, wg, subtasks, results,
                 wpc, worker, row>>

(* The last UpdateTask.  Whatever it reports, the handler answers 200 with
   the id of the task it has, which is empty for the zero Task. *)
FinalSave ==
  /\ pc = "save"
  /\ \E ok \in BOOLEAN, sn \in Snapshots :
       UpdateTask(RowOf(final.status, sn, final.failed, final.context), ok)
  /\ answer' = [code |-> 200, task |-> IF zero THEN "" ELSE "task",
                status |-> final.status]
  /\ pc' = "replied"
  /\ UNCHANGED <<specs, ctxErr, next, zero, final, sem, wg, subtasks, results,
                 wpc, worker>>

Done ==
  /\ pc = "replied"
  /\ \A i \in Subs : wpc[i] \in {"none", "end"}
  /\ UNCHANGED vars

-----------------------------------------------------------------------------
Dispatcher ==
  \/ ListAgentsFails \/ Decompose \/ CreateTask \/ SetRunning
  \/ SkipSubtask \/ WgAdd \/ AcquireAndGo \/ WgWait \/ Finalize
  \/ AggregateContext \/ FinalSave

(* The steps of a worker that the Go scheduler, or a context that is done,
   is bound to let happen.  A tool that answers is not among them. *)
WorkerStep(i) ==
  \/ LoadAgent(i) \/ MarkWrite(i) \/ MarshalEntry(i) \/ MarkStore(i)
  \/ NextSkill(i) \/ ToolAborts(i) \/ AfterLoop(i) \/ ReturnOutcome(i)
  \/ Release(i) \/ WgDone(i)

Next ==
  \/ Cancel
  \/ Dispatcher
  \/ \E i \in MaxSubs : WorkerStep(i) \/ TimeoutFires(i) \/ ToolReturns(i)
  \/ Done

Spec == Init /\ [][Next]_vars

(* Goroutines run and timers fire.  A tool need not answer, but CallTool gives
   up with its context: so it does in the Go client, but for a websocket
   server that stays connected and never reads the request, and not in the
   cgo client. *)
Fairness ==
  /\ WF_vars(Dispatcher)
  /\ \A i \in MaxSubs : WF_vars(WorkerStep(i)) /\ WF_vars(TimeoutFires(i))

FairSpec == Spec /\ Fairness

-----------------------------------------------------------------------------
Workers == {"none", "enter", "write", "marshal", "store", "loop", "call",
            "after", "return", "release", "wgdone", "end"}

RequestTypes ==
  /\ specs \in {<<>>} \cup SpecLists
  /\ ctxErr \in BOOLEAN
  /\ pc \in {"list", "create", "setrunning", "dispatch", "acquire",
             "finalize", "context", "save", "replied"}
  /\ next \in Nat \ {0}
  /\ zero \in BOOLEAN
  /\ sem \in Nat
  /\ wg \in Nat

ArrayTypes ==
  /\ subtasks \in [Subs -> SubtaskStatus]
  /\ results \in [Subs -> [done : BOOLEAN, err : BOOLEAN]]
  /\ wpc \in [Subs -> Workers]
  /\ mark \in [Subs -> SubtaskStatus]
  /\ calls \in [Subs -> Nat]

FlagTypes ==
  /\ outErr \in [Subs -> BOOLEAN]
  /\ late \in [Subs -> BOOLEAN]
  /\ snap \in [Subs -> Seq(Entry)]

RecordTypes ==
  /\ final \in [status : {"none", "success", "failed"}, failed : Nat,
               context : BOOLEAN]
  /\ row \in [status : TaskStatus \cup {"none"}, subtasks : Seq(Entry),
              failed : Nat, context : BOOLEAN]
  /\ answer \in [code : {0, 200, 500}, task : {"none", "", "task"},
                 status : {"none", "success", "failed"}]

(* Every variable has its type; in particular the semaphore and the
   WaitGroup never go negative (Go panics on a negative WaitGroup). *)
TypeOK == RequestTypes /\ ArrayTypes /\ FlagTypes /\ RecordTypes

(* A worker between `go` and the release of its semaphore slot. *)
Holding == {i \in Subs : wpc[i] \notin {"none", "wgdone", "end"}}

(* At most WithWorkers(n) subtasks (one, if n < 1) are executed at a time:
   the semaphore of execute bounds the goroutines. *)
PoolBound == Cardinality(Holding) <= Pool

(* Once execute has returned no goroutine of this task is left to write the
   array, the results or the row: wg.Wait() waits for all of them. *)
NoStrayWorker ==
  pc \in {"finalize", "context", "save", "replied"} =>
    \A i \in Subs : wpc[i] \in {"none", "end"}

(* The dispatcher never waits in vain: it blocks on the semaphore only while
   the pool is really in use, every slot by a worker, and in wg.Wait only
   while some worker has not ended; and a worker can always go on, unless it
   waits for its tool: there is an element left to marshal, and it has not
   run past its skills. *)
WaitsAreFounded ==
  /\ pc = "acquire" /\ sem >= Pool => Cardinality(Holding) = Pool
  /\ pc = "dispatch" /\ next \notin Subs /\ wg # 0 =>
       \E i \in Subs : wpc[i] \notin {"none", "end"}
  /\ \A i \in Subs : /\ wpc[i] = "marshal" => Len(snap[i]) < Len(specs)
                     /\ wpc[i] = "loop" => calls[i] <= specs[i]

Terminal == {"success", "failed"}

(* A stored task that says success or failed is exact: an error-free subtask
   is "success", one that ran with an error is "failed", only one that was
   never started is "pending", none is "running" or a torn mixture, the
   count of failures is that of the subtasks that did not succeed, and
   success means all of them succeeded.  Intermediate rows may be stale or
   torn; the last write of finalize repairs them. *)
TerminalRowExact ==
  row.status \in Terminal =>
    /\ \A i \in Subs :
         RowSubtasks[i] = IF ~results[i].err THEN "success"
                          ELSE IF wpc[i] = "none" THEN "pending"
                          ELSE "failed"
    /\ row.failed = Cardinality({i \in Subs : RowSubtasks[i] # "success"})
    /\ row.status = "success" => row.failed = 0

(* A stored terminal task is never written again: no late worker can put
   its "running" copy over it. *)
TerminalRowStable ==
  [][row.status \in Terminal => UNCHANGED <<row, subtasks>>]_vars

(* createTask tells the client (and every websocket) "success" only if each
   subtask called every one of its tools and stayed within its deadline. *)
SuccessIsEarned ==
  answer.status = "success" =>
    \A i \in Subs : /\ results[i] = [done |-> TRUE, err |-> FALSE]
                    /\ calls[i] = specs[i]
                    /\ ~late[i]

(* Distribute's comment: the returned Task reflects the final state and "is
   persisted via the Store". *)
ReturnedIsPersisted ==
  answer.code = 200 =>
    /\ answer.task = "task"
    /\ row.status = answer.status

(* A worker stores its subtask's progress in the order pending, running,
   success or failed; no element of the array ever goes back. *)
SubtasksAdvance ==
  [][\A i \in Subs :
       subtasks'[i] # subtasks[i] =>
         <<subtasks[i], subtasks'[i]>> \in
           {<<"pending", "running">>, <<"pending", "failed">>,
            <<"running", "success">>, <<"running", "failed">>}]_vars

(* The request is answered though tools may never answer: a hung call is ended
   by the subtask's deadline, as long as CallTool heeds its context (Fairness
   says when it does), and the pool always has a slot in the end. *)
EventuallyReplied == <>(pc = "replied")
=============================================================================
