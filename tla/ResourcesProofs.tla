-------------------------- MODULE ResourcesProofs --------------------------
(***************************************************************************)
(* Theorems about the tenants' resources, for every backend and every set  *)
(* of requests, tenants and bodies.                                        *)
(***************************************************************************)
EXTENDS Resources, TLAPS

USE ResourcesAssumption

-----------------------------------------------------------------------------
(* The inductive invariant. *)

(* A stored record: a tested status is about its transport, and a flow has
   been validated. *)
Sound(rec) ==
  /\ rec.verified # Empty => rec.body = rec.verified
  /\ rec.kind = "flow" => rec.body \in Bodies

(* The copy a request holds between its read and its write. *)
CopySound(r) ==
  pc[r] \in {"update", "probe", "status"} =>
    /\ loaded[r].id \in Ids
    /\ loaded[r].rec \in Record
    /\ loaded[r].rec.tenant = TenantOf[r]
    /\ loaded[r].rec.kind = "flow" => loaded[r].rec.body \in Bodies
    /\ pc[r] = "status" => /\ loaded[r].rec.body \notin BadBodies
                           /\ probe[r] \in {"connected", "error"}

ResInv ==
  /\ TypeOK
  /\ ReadsOwnTenant
  /\ \A i \in Live : Sound(records[i])
  /\ \A r \in Requests : CopySound(r)

-----------------------------------------------------------------------------
(* Records. *)

LEMMA NoRecordIsNone == NoRecord \notin Record
<1>1. \A rec \in Record : rec.kind \in RecordKinds
  BY DEF Record
<1>2. NoRecord.kind = "none" /\ "none" \notin RecordKinds
  BY DEF NoRecord, RecordKinds
<1>3. QED
  BY <1>1, <1>2

LEMMA TenantOfType == \A r \in Requests : TenantOf[r] \in Tenants
  BY DEF Tenants

LEMMA NewRecord ==
  ASSUME NEW k \in RecordKinds, NEW t \in Tenants, NEW name \in Names,
         NEW body \in Bodies \cup BadBodies \cup {Empty},
         k = "flow" => body \in Bodies
  PROVE  New(k, t, name, body) \in Record /\ Sound(New(k, t, name, body))
  BY DEF New, Record, Sound, Statuses

(* What an update stores. *)
LEMMA MergedRecord ==
  ASSUME NEW rec \in Record, rec.kind = "flow" => rec.body \in Bodies,
         NEW name \in Names, NEW body \in Bodies \cup BadBodies \cup {Empty},
         NEW status \in Statuses, AcceptsUpdate(rec.kind, body)
  PROVE  LET m == Merged(rec, name, body, status)
         IN  /\ m \in Record /\ Sound(m)
             /\ m.tenant = rec.tenant /\ m.kind = rec.kind
<1> DEFINE m == Merged(rec, name, body, status)
<1>1. /\ m.kind = rec.kind /\ m.tenant = rec.tenant /\ m.name = name
      /\ m.body = IF body = Empty /\ rec.kind # "agent" THEN rec.body ELSE body
      /\ m.status = IF rec.kind = "server" THEN status ELSE Empty
      /\ m.verified = Empty
  BY DEF Merged, Record
<1>2. m \in Record
  BY DEF Merged, Record, Statuses
<1>3. Sound(m)
  BY <1>1 DEF Sound, AcceptsUpdate
<1>4. QED
  BY <1>1, <1>2, <1>3

(* What a test stores. *)
LEMMA TestedRecord ==
  ASSUME NEW rec \in Record, rec.kind = "flow" => rec.body \in Bodies,
         rec.body \notin BadBodies, NEW s \in {"connected", "error"}
  PROVE  LET m == [rec EXCEPT !.status = s, !.verified = rec.body]
         IN  /\ m \in Record /\ Sound(m)
             /\ m.tenant = rec.tenant /\ m.kind = rec.kind
  BY DEF Record, Sound, Statuses

-----------------------------------------------------------------------------
(* What a handler's step may do to the table: nothing, or put a sound record
   or none in one place. *)
TableStep ==
  \/ records' = records
  \/ \E i \in Ids, rec \in Record \cup {NoRecord} :
       /\ records' = [records EXCEPT ![i] = rec]
       /\ rec # NoRecord => Sound(rec)

LEMMA TableStepSound ==
  ASSUME records \in [Ids -> Record \cup {NoRecord}],
         \A i \in Live : Sound(records[i]), TableStep
  PROVE  /\ records' \in [Ids -> Record \cup {NoRecord}]
         /\ \A i \in Live' : Sound(records'[i])
  BY DEF TableStep, Live

(* The step of one request leaves the others where they are. *)
Others(r) ==
  \A q \in Requests \ {r} :
    /\ pc'[q] = pc[q] /\ loaded'[q] = loaded[q]
    /\ probe'[q] = probe[q] /\ seen'[q] = seen[q]

(* What is left to show of the request that steps. *)
Own(r) ==
  /\ \A rec \in seen'[r] : rec.tenant = TenantOf[r]
  /\ loaded'[r] # NoCopy => loaded'[r].rec.tenant = TenantOf[r]
  /\ CopySound(r)'

LEMMA RequestStep ==
  ASSUME ResInv, NEW r \in Requests, TableStep, Others(r), Own(r),
         /\ lastId' \in 0..MaxId
         /\ pc' \in [Requests -> {"start", "update", "probe", "status", "done"}]
         /\ loaded' \in [Requests -> [id : 0..MaxId, rec : Record \cup {NoRecord}]]
         /\ probe' \in [Requests -> {Empty, "connected", "error"}]
         /\ seen' \in [Requests -> SUBSET Record]
         /\ reply' \in [Requests -> {0, 200, 201, 204, 400, 404, 500}]
  PROVE  ResInv'
<1>1. /\ records' \in [Ids -> Record \cup {NoRecord}]
      /\ \A i \in Live' : Sound(records'[i])
  BY TableStepSound DEF ResInv, TypeOK
<1>2. TypeOK'
  BY <1>1 DEF TypeOK
<1>3. \A q \in Requests : CopySound(q)'
  BY DEF ResInv, CopySound, Others, Own
<1>4. ReadsOwnTenant'
  BY DEF ResInv, ReadsOwnTenant, Others, Own
<1>5. QED
  BY <1>1, <1>2, <1>3, <1>4 DEF ResInv

LEMMA HandlerInv ==
  ASSUME ResInv, NEW r \in Requests, Handler(r)
  PROVE  ResInv'
<1>0. TypeOK /\ ReadsOwnTenant /\ CopySound(r)
  BY DEF ResInv
<1>t. TenantOf[r] \in Tenants
  BY TenantOfType
<1>l. \A i \in Live : records[i] \in Record /\ Sound(records[i])
  BY DEF ResInv, TypeOK, Live
<1>1. CASE Create(r)
  <2>1. PICK k \in RecordKinds, name \in Names, body \in Bodies \cup BadBodies \cup {Empty} :
          \/ ~Valid(k, name, body) /\ Answer(r, 400) /\ UNCHANGED <<records, lastId>>
          \/ /\ Valid(k, name, body)
             /\ Insert(New(k, TenantOf[r], name, body))
             /\ \E code \in Codes(201) : Answer(r, code)
          \/ Valid(k, name, body) /\ Answer(r, 500) /\ UNCHANGED <<records, lastId>>
    BY <1>1 DEF Create
  <2>2. TableStep /\ lastId' \in 0..MaxId
    <3>1. CASE UNCHANGED <<records, lastId>>
      BY <1>0, <3>1 DEF TableStep, TypeOK
    <3>2. CASE Valid(k, name, body) /\ Insert(New(k, TenantOf[r], name, body))
      <4>1. /\ New(k, TenantOf[r], name, body) \in Record
            /\ Sound(New(k, TenantOf[r], name, body))
        BY <1>t, <3>2, NewRecord DEF Valid
      <4>2. lastId + 1 \in Ids /\ lastId' = lastId + 1
        BY <1>0, <3>2 DEF Insert, TypeOK, Ids
      <4>3. TableStep
        BY <3>2, <4>1, <4>2, NoRecordIsNone DEF Insert, TableStep
      <4>4. QED
        BY <4>2, <4>3 DEF Ids
    <3>3. QED
      BY <2>1, <3>1, <3>2
  <2>3. \E code \in {201, 400, 500} : Answer(r, code)
    BY <2>1 DEF Codes
  <2>4. UNCHANGED <<loaded, probe, seen>>
    BY <1>1 DEF Create
  <2>5. Others(r) /\ Own(r)
    BY <1>0, <2>3, <2>4 DEF Others, Own, TypeOK, Answer, Goto, ReadsOwnTenant, CopySound
  <2>6. QED
    BY <1>0, <2>2, <2>3, <2>4, <2>5, RequestStep DEF TypeOK, Answer, Goto
<1>2. CASE List(r) \/ Get(r)
  <2>1. UNCHANGED <<records, lastId, loaded, probe>>
    BY <1>2 DEF List, Get
  <2>2. \E code \in {200, 404, 500} : Answer(r, code)
    BY <1>2 DEF List, Get
  <2>3. \/ seen' = seen
        \/ \E S \in SUBSET Record : /\ seen' = [seen EXCEPT ![r] = S]
                                    /\ \A rec \in S : rec.tenant = TenantOf[r]
    <3>1. ASSUME NEW k \in RecordKinds
          PROVE  /\ Rows(TenantOf[r], k) \in SUBSET Record
                 /\ \A rec \in Rows(TenantOf[r], k) : rec.tenant = TenantOf[r]
      BY <1>l DEF Rows, Exists
    <3>2. ASSUME NEW k \in RecordKinds, NEW i \in Ids, Exists(TenantOf[r], k, i)
          PROVE  {records[i]} \in SUBSET Record /\ records[i].tenant = TenantOf[r]
      BY <1>l, <3>2 DEF Exists
    <3>3. QED
      BY <1>2, <3>1, <3>2 DEF List, Get
  <2>4. seen' \in [Requests -> SUBSET Record]
    BY <1>0, <2>3 DEF TypeOK
  <2>5. Others(r) /\ Own(r)
    BY <1>0, <2>1, <2>2, <2>3 DEF Others, Own, TypeOK, Answer, Goto, ReadsOwnTenant,
         CopySound
  <2>6. TableStep
    BY <2>1 DEF TableStep
  <2>7. /\ pc' \in [Requests -> {"start", "update", "probe", "status", "done"}]
        /\ reply' \in [Requests -> {0, 200, 201, 204, 400, 404, 500}]
    BY <1>0, <2>2 DEF TypeOK, Answer, Goto
  <2>8. QED
    BY <1>0, <2>1, <2>4, <2>5, <2>6, <2>7, RequestStep DEF TypeOK
<1>3. CASE Delete(r)
  <2>1. UNCHANGED <<lastId, loaded, probe, seen>>
    BY <1>3 DEF Delete
  <2>2. \E code \in {204, 404, 500} : Answer(r, code)
    BY <1>3 DEF Delete, Codes
  <2>3. TableStep
    BY <1>3 DEF Delete, Remove, TableStep
  <2>4. Others(r) /\ Own(r)
    BY <1>0, <2>1, <2>2 DEF Others, Own, TypeOK, Answer, Goto, ReadsOwnTenant, CopySound
  <2>5. QED
    BY <1>0, <2>1, <2>2, <2>3, <2>4, RequestStep DEF TypeOK, Answer, Goto
<1>4. CASE Load(r)
  <2>1. UNCHANGED <<records, lastId, probe, seen>> /\ TableStep
    BY <1>4 DEF Load, TableStep
  <2>2. CASE loaded' = loaded /\ \E code \in {404, 500} : Answer(r, code)
    <3>1. Others(r) /\ Own(r)
      BY <1>0, <2>1, <2>2 DEF Others, Own, TypeOK, Answer, Goto, ReadsOwnTenant, CopySound
    <3>2. QED
      BY <1>0, <2>1, <2>2, <3>1, RequestStep DEF TypeOK, Answer, Goto
  <2>3. ASSUME NEW k \in RecordKinds, NEW i \in Ids, Exists(TenantOf[r], k, i),
               loaded' = [loaded EXCEPT ![r] = [id |-> i, rec |-> records[i]]],
               Goto(r, "update") \/ Goto(r, "probe"), reply' = reply
        PROVE  ResInv'
    <3>1. /\ records[i] \in Record /\ records[i].tenant = TenantOf[r]
          /\ records[i].kind = "flow" => records[i].body \in Bodies
      BY <1>l, <2>3 DEF Exists, Sound
    <3>2. loaded'[r] = [id |-> i, rec |-> records[i]]
      BY <1>0, <2>3 DEF TypeOK
    <3>3. loaded' \in [Requests -> [id : 0..MaxId, rec : Record \cup {NoRecord}]]
      BY <1>0, <2>3, <3>1 DEF TypeOK, Ids
    <3>4. /\ pc' \in [Requests -> {"start", "update", "probe", "status", "done"}]
          /\ pc'[r] \in {"update", "probe"}
          /\ \A q \in Requests \ {r} : pc'[q] = pc[q]
      BY <1>0, <2>3 DEF TypeOK, Goto
    <3>5. Others(r)
      BY <1>0, <2>1, <2>3, <3>4 DEF Others, TypeOK
    <3>6. Own(r)
      BY <1>0, <2>1, <3>1, <3>2, <3>4 DEF Own, ReadsOwnTenant, CopySound
    <3>7. QED
      BY <1>0, <2>1, <2>3, <3>3, <3>4, <3>5, <3>6, RequestStep DEF TypeOK
  <2>4. QED
    BY <1>4, <2>2, <2>3 DEF Load
<1>5. CASE Update(r)
  <2>1. /\ UNCHANGED <<lastId, loaded, probe, seen>> /\ pc[r] = "update"
        /\ \E code \in {200, 400, 404, 500} : Answer(r, code)
    BY <1>5 DEF Update, Codes
  <2>2. /\ loaded[r].id \in Ids /\ loaded[r].rec \in Record
        /\ loaded[r].rec.kind = "flow" => loaded[r].rec.body \in Bodies
    BY <1>0, <2>1 DEF CopySound
  <2>3. TableStep
    <3>1. PICK name \in Names, body \in Bodies \cup BadBodies \cup {Empty},
               status \in {Empty, "connected"} :
            \/ UNCHANGED records
            \/ /\ AcceptsUpdate(loaded[r].rec.kind, body)
               /\ Replace(loaded[r].id, Merged(loaded[r].rec, name, body, status))
      BY <1>5 DEF Update
    <3>2. CASE UNCHANGED records
      BY <3>2 DEF TableStep
    <3>3. CASE /\ AcceptsUpdate(loaded[r].rec.kind, body)
               /\ Replace(loaded[r].id, Merged(loaded[r].rec, name, body, status))
      <4>1. status \in Statuses
        BY DEF Statuses
      <4>2. /\ Merged(loaded[r].rec, name, body, status) \in Record
            /\ Sound(Merged(loaded[r].rec, name, body, status))
        BY <2>2, <3>3, <4>1, MergedRecord
      <4>3. QED
        BY <2>2, <3>3, <4>2 DEF Replace, TableStep
    <3>4. QED
      BY <3>1, <3>2, <3>3
  <2>4. Others(r) /\ Own(r)
    BY <1>0, <2>1 DEF Others, Own, TypeOK, Answer, Goto, ReadsOwnTenant, CopySound
  <2>5. QED
    BY <1>0, <2>1, <2>3, <2>4, RequestStep DEF TypeOK, Answer, Goto
<1>6. CASE Probe(r)
  <2>1. UNCHANGED <<records, lastId, loaded, seen>> /\ TableStep /\ pc[r] = "probe"
    BY <1>6 DEF Probe, TableStep
  <2>2. CASE loaded[r].rec.body \in BadBodies
    <3>1. Answer(r, 400) /\ UNCHANGED probe
      BY <1>6, <2>2 DEF Probe
    <3>2. Others(r) /\ Own(r)
      BY <1>0, <2>1, <3>1 DEF Others, Own, TypeOK, Answer, Goto, ReadsOwnTenant, CopySound
    <3>3. QED
      BY <1>0, <2>1, <3>1, <3>2, RequestStep DEF TypeOK, Answer, Goto
  <2>3. CASE loaded[r].rec.body \notin BadBodies
    <3>1. /\ \E s \in {"connected", "error"} : probe' = [probe EXCEPT ![r] = s]
          /\ Goto(r, "status") /\ reply' = reply
      BY <1>6, <2>3 DEF Probe
    <3>2. /\ probe' \in [Requests -> {Empty, "connected", "error"}]
          /\ probe'[r] \in {"connected", "error"}
          /\ \A q \in Requests \ {r} : probe'[q] = probe[q]
      BY <1>0, <3>1 DEF TypeOK
    <3>3. Others(r) /\ Own(r)
      BY <1>0, <2>1, <2>3, <3>1, <3>2 DEF Others, Own, TypeOK, Goto, ReadsOwnTenant, CopySound
    <3>4. QED
      BY <1>0, <2>1, <3>1, <3>2, <3>3, RequestStep DEF TypeOK, Goto
  <2>4. QED
    BY <2>2, <2>3
<1>7. CASE WriteStatus(r)
  <2>1. /\ UNCHANGED <<lastId, loaded, probe, seen>> /\ pc[r] = "status"
        /\ Answer(r, 200)
    BY <1>7 DEF WriteStatus
  <2>2. TableStep
    <3> DEFINE m == [loaded[r].rec EXCEPT !.status = probe[r],
                                          !.verified = loaded[r].rec.body]
    <3>1. CASE UNCHANGED records
      BY <3>1 DEF TableStep
    <3>2. CASE Replace(loaded[r].id, m)
      <4>1. m \in Record /\ Sound(m)
        BY <1>0, <2>1, TestedRecord DEF CopySound
      <4>2. loaded[r].id \in Ids
        BY <1>0, <2>1 DEF CopySound
      <4> HIDE DEF m
      <4>3. QED
        BY <3>2, <4>1, <4>2 DEF Replace, TableStep
    <3>3. QED
      BY <1>7, <3>1, <3>2 DEF WriteStatus
  <2>3. Others(r) /\ Own(r)
    BY <1>0, <2>1 DEF Others, Own, TypeOK, Answer, Goto, ReadsOwnTenant, CopySound
  <2>4. QED
    BY <1>0, <2>1, <2>2, <2>3, RequestStep DEF TypeOK, Answer, Goto
<1>8. QED
  BY <1>1, <1>2, <1>3, <1>4, <1>5, <1>6, <1>7 DEF Handler

-----------------------------------------------------------------------------
(* Initially every tenant has a record of some kind. *)
LEMMA InitInv == Init => ResInv
<1> SUFFICES ASSUME Init PROVE ResInv
  OBVIOUS
<1>1. PICK owner \in [1..Cardinality(Tenants) -> Tenants], k \in RecordKinds, b \in Bodies :
        records = [i \in Ids |->
          IF i \in DOMAIN owner THEN New(k, owner[i], "n", b) ELSE NoRecord]
  BY DEF Init
<1>2. \A t \in Tenants : New(k, t, "n", b) \in Record /\ Sound(New(k, t, "n", b))
  BY NewRecord DEF Names
<1>3. \A i \in DOMAIN owner : owner[i] \in Tenants
  BY <1>1
<1>4. /\ records \in [Ids -> Record \cup {NoRecord}]
      /\ \A i \in Live : Sound(records[i])
  BY <1>1, <1>2, <1>3 DEF Live
<1>5. lastId \in 0..MaxId
  BY DEF Init
<1>6. /\ pc = [r \in Requests |-> "start"]
      /\ loaded = [r \in Requests |-> NoCopy]
      /\ probe = [r \in Requests |-> Empty]
      /\ seen = [r \in Requests |-> {}]
      /\ reply = [r \in Requests |-> 0]
  BY DEF Init
<1>7. NoCopy \in [id : 0..MaxId, rec : Record \cup {NoRecord}]
  BY DEF NoCopy
<1>8. TypeOK
  BY <1>4, <1>5, <1>6, <1>7 DEF TypeOK
<1>9. ReadsOwnTenant /\ \A r \in Requests : CopySound(r)
  BY <1>6 DEF ReadsOwnTenant, CopySound
<1>10. QED
  BY <1>4, <1>8, <1>9 DEF ResInv

LEMMA NextInv == ResInv /\ [Next]_vars => ResInv'
<1> SUFFICES ASSUME ResInv, [Next]_vars PROVE ResInv'
  OBVIOUS
<1>1. ASSUME NEW r \in Requests, Handler(r) PROVE ResInv'
  BY <1>1, HandlerInv
<1>2. CASE UNCHANGED vars
  BY <1>2 DEF vars, ResInv, TypeOK, ReadsOwnTenant, CopySound, Live
<1>3. QED
  BY <1>1, <1>2 DEF Next, AllAnswered

LEMMA ResInvHolds == Spec => []ResInv
  BY InitInv, NextInv, PTL DEF Spec

(* No request sees, or works on a copy of, a record of another tenant. *)
THEOREM OwnTenantOnly == Spec => []ReadsOwnTenant
<1>1. ResInv => ReadsOwnTenant
  BY DEF ResInv
<1>2. QED
  BY ResInvHolds, <1>1, PTL

(* The status a test has given a server is about the transport it has, though
   an update may have come between the test's read and its write. *)
THEOREM StatusIsOfTransport == Spec => []StatusMatchesTransport
<1>1. ResInv => StatusMatchesTransport
  BY DEF ResInv, Sound, StatusMatchesTransport
<1>2. QED
  BY ResInvHolds, <1>1, PTL

(* runFlow only ever loads flows that have been validated. *)
THEOREM FlowsAreValid == Spec => []StoredFlowsValid
<1>1. ResInv => StoredFlowsValid
  BY DEF ResInv, Sound, StoredFlowsValid
<1>2. QED
  BY ResInvHolds, <1>1, PTL

(* No late write brings a deleted record back, and none moves a record to
   another tenant or kind. *)
THEOREM DeletedRecordsStay == Spec => DeletedStaysDeleted
<1> DEFINE Stays == \A i \in 1..lastId : records'[i] # NoRecord =>
                       /\ records[i] # NoRecord
                       /\ records'[i].tenant = records[i].tenant
                       /\ records'[i].kind = records[i].kind
<1>1. ResInv /\ [Next]_vars => [Stays]_vars
  <2> SUFFICES ASSUME ResInv, Next PROVE Stays
    OBVIOUS
  <2>0. TypeOK /\ 1..lastId \subseteq Ids
    BY DEF ResInv, TypeOK, Ids
  <2>1. ASSUME records' = records PROVE Stays
    BY <2>1
  <2>2. ASSUME NEW i \in Ids, Remove(i) PROVE Stays
    BY <2>0, <2>2 DEF Remove, TypeOK
  <2>3. ASSUME NEW rec, Insert(rec) PROVE Stays
    BY <2>0, <2>3 DEF Insert, TypeOK
  <2>4. ASSUME NEW i \in Ids, NEW rec, Replace(i, rec) PROVE Stays
    BY <2>0, <2>4 DEF Replace, Exists, Live, TypeOK
  <2>5. ASSUME NEW r \in Requests, Update(r) PROVE Stays
    <3>1. loaded[r].id \in Ids
      BY <2>5 DEF Update, ResInv, CopySound
    <3>2. QED
      BY <2>1, <2>4, <2>5, <3>1 DEF Update
  <2>6. ASSUME NEW r \in Requests, WriteStatus(r) PROVE Stays
    <3>1. loaded[r].id \in Ids
      BY <2>6 DEF WriteStatus, ResInv, CopySound
    <3>2. QED
      BY <2>1, <2>4, <2>6, <3>1 DEF WriteStatus
  <2>7. ASSUME NEW r \in Requests, Create(r) \/ Delete(r) PROVE Stays
    BY <2>1, <2>2, <2>3, <2>7 DEF Create, Delete
  <2>8. ASSUME NEW r \in Requests, List(r) \/ Get(r) \/ Load(r) \/ Probe(r) PROVE Stays
    BY <2>1, <2>8 DEF List, Get, Load, Probe
  <2>9. CASE AllAnswered
    BY <2>1, <2>9 DEF AllAnswered, vars
  <2>10. QED
    BY <2>5, <2>6, <2>7, <2>8, <2>9 DEF Next, Handler
<1>2. QED
  BY ResInvHolds, <1>1, PTL DEF Spec, DeletedStaysDeleted
=============================================================================
