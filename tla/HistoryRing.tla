---------------------------- MODULE HistoryRing ----------------------------
(***************************************************************************)
(* HistoryCollector: a ring buffer of runtime samples, filled by a ticker  *)
(* goroutine and, while it is empty, by the requests for the dashboard.    *)
(* Capture reads the clock before it takes the lock.                       *)
(*                                                                         *)
(* A sample is reduced to its Time; 0 is the zero Sample.                  *)
(***************************************************************************)
EXTENDS Integers, Sequences

CONSTANTS
  CapacityOption, \* the capacity asked for, any integer
  Requests,       \* GET /dashboard requests
  MaxTime         \* bound: the clock stops here

ASSUME CapacityAssumption == CapacityOption \in Int
ASSUME MaxTimeAssumption == MaxTime \in Nat \ {0}
ASSUME RequestsAssumption == "ticker" \notin Requests

VARIABLES
  clock,    \* time.Now, in milliseconds; it need not move between two reads
  samples,  \* the buffer
  head,
  count,
  run,      \* the run goroutine: "off", "seed", "select", "closed"
  stopped,  \* the stop channel is closed
  stopper,  \* the caller of Stop: "idle", "waiting", "returned"
  req,      \* each request: "latest", "capture", "answered"
  taken,    \* the Time a capture has read and not yet written, 0 if none
  answer    \* the sample a request has answered with

vars == <<clock, samples, head, count, run, stopped, stopper, req, taken, answer>>

(* NewHistoryCollector *)
Capacity == IF CapacityOption < 1 THEN 1 ELSE CapacityOption
Slots == 0..(Capacity - 1)
Actors == Requests \cup {"ticker"}

(* Go's %: the remainder has the sign of the dividend. *)
GoRem(a, b) == IF a >= 0 THEN a % b ELSE -((-a) % b)

Index(offset) == GoRem(GoRem(offset, Capacity) + Capacity, Capacity)

Latest == IF count = 0 THEN 0 ELSE samples[Index(head - 1)]

Snapshot == [i \in 1..count |-> samples[Index(head - count + (i - 1))]]

Init ==
  /\ clock = 1
  /\ samples = [i \in Slots |-> 0]
  /\ head = 0
  /\ count = 0
  /\ run = "off"
  /\ stopped = FALSE
  /\ stopper = "idle"
  /\ req = [r \in Requests |-> "latest"]
  /\ taken = [a \in Actors |-> 0]
  /\ answer = [r \in Requests |-> 0]

Tick ==
  /\ clock < MaxTime
  /\ clock' = clock + 1
  /\ UNCHANGED <<samples, head, count, run, stopped, stopper, req, taken, answer>>

-----------------------------------------------------------------------------
(* The first half of Capture: read the clock and the counters. *)
Read(a) ==
  /\ taken[a] = 0
  /\ taken' = [taken EXCEPT ![a] = clock]
  /\ UNCHANGED <<clock, samples, head, count, stopped, stopper, answer>>

MutWrite(s) ==
  /\ samples' = [samples EXCEPT ![head] = s]
  /\ head' = (head + 1) % Capacity
  /\ count' = count + 1

(* The second half: write(s), under the lock. *)
Write(s) ==
  /\ samples' = [samples EXCEPT ![head] = s]
  /\ head' = (head + 1) % Capacity
  /\ count' = IF count < Capacity THEN count + 1 ELSE count

-----------------------------------------------------------------------------
(* The run goroutine *)

Start ==
  /\ run = "off"
  /\ run' = "seed"
  /\ UNCHANGED <<clock, samples, head, count, stopped, stopper, req, taken, answer>>

(* The sample that seeds the buffer, or the one for a tick of the ticker. *)
TickerReads ==
  /\ run \in {"seed", "select"}
  /\ Read("ticker")
  /\ UNCHANGED <<run, req>>

TickerWrites ==
  /\ taken["ticker"] # 0
  /\ Write(taken["ticker"])
  /\ taken' = [taken EXCEPT !["ticker"] = 0]
  /\ run' = "select"
  /\ UNCHANGED <<clock, stopped, stopper, req, answer>>

(* case <-c.stop: return, closing done. *)
RunReturns ==
  /\ run = "select"
  /\ taken["ticker"] = 0
  /\ stopped
  /\ run' = "closed"
  /\ UNCHANGED <<clock, samples, head, count, stopped, stopper, req, taken, answer>>

(* Stop: close(c.stop); if the collector was started wait for done. *)
Stop ==
  /\ stopper = "idle"
  /\ stopped' = TRUE
  /\ stopper' = IF run = "off" THEN "returned" ELSE "waiting"
  /\ UNCHANGED <<clock, samples, head, count, run, req, taken, answer>>

StopReturns ==
  /\ stopper = "waiting"
  /\ run = "closed"
  /\ stopper' = "returned"
  /\ UNCHANGED <<clock, samples, head, count, run, stopped, req, taken, answer>>

-----------------------------------------------------------------------------
(* handleDashboard *)

ReadLatest(r) ==
  /\ req[r] = "latest"
  /\ IF Latest = 0
       THEN /\ req' = [req EXCEPT ![r] = "capture"]
            /\ UNCHANGED answer
       ELSE /\ req' = [req EXCEPT ![r] = "answered"]
            /\ answer' = [answer EXCEPT ![r] = Latest]
  /\ UNCHANGED <<clock, samples, head, count, run, stopped, stopper, taken>>

RequestReads(r) ==
  /\ req[r] = "capture"
  /\ Read(r)
  /\ UNCHANGED <<run, req>>

RequestWrites(r) ==
  /\ req[r] = "capture"
  /\ taken[r] # 0
  /\ Write(taken[r])
  /\ answer' = [answer EXCEPT ![r] = taken[r]]
  /\ taken' = [taken EXCEPT ![r] = 0]
  /\ req' = [req EXCEPT ![r] = "answered"]
  /\ UNCHANGED <<clock, run, stopped, stopper>>

Idle ==
  /\ clock = MaxTime
  /\ stopper = "returned"
  /\ UNCHANGED vars

-----------------------------------------------------------------------------
Collector == TickerReads \/ TickerWrites \/ RunReturns \/ StopReturns

Next ==
  \/ Tick \/ Start \/ Stop \/ Collector
  \/ \E r \in Requests : ReadLatest(r) \/ RequestReads(r) \/ RequestWrites(r)
  \/ Idle

Spec == Init /\ [][Next]_vars

-----------------------------------------------------------------------------
(* Every variable has its type: head stays inside the buffer, count within
   the capacity. *)
TypeOK ==
  /\ clock \in 1..MaxTime
  /\ samples \in [Slots -> 0..MaxTime]
  /\ head \in Slots
  /\ count \in 0..Capacity
  /\ run \in {"off", "seed", "select", "closed"}
  /\ stopped \in BOOLEAN
  /\ stopper \in {"idle", "waiting", "returned"}
  /\ req \in [Requests -> {"latest", "capture", "answered"}]
  /\ taken \in [Actors -> 0..MaxTime]
  /\ answer \in [Requests -> 0..MaxTime]

(* "Snapshot returns a copy of the buffered samples in chronological order
   (oldest first)" (dashboard_history.go:107-108). *)
Chronological == \A i, j \in 1..count : i < j => Snapshot[i] <= Snapshot[j]

(* The ring buffer is the abstract log of the last Capacity samples. *)
Log == INSTANCE SampleLog WITH Sample <- 1..MaxTime, log <- Snapshot
ImplementsLog == Log!Spec
=============================================================================
