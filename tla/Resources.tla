----------------------------- MODULE Resources -----------------------------
(***************************************************************************)
(* The resources of the tenants: agents, MCP servers and flows, and the    *)
(* handlers that list, get, create, update, delete and test them.  Update  *)
(* and test read a record, and later write the whole of it back; a test    *)
(* calls the server in between.                                            *)
(*                                                                         *)
(* A record has a name, a body (the transport of a server, the flow_json   *)
(* of a flow, the profile and skills of an agent) and, for a server, the   *)
(* status.  A request whose JSON does not decode is answered 400 after the *)
(* same reads and changes nothing; it is left out.  The tenant of a        *)
(* request comes from its token.                                           *)
(***************************************************************************)
EXTENDS Naturals, FiniteSets

CONSTANTS
  Backend,   \* "memory" or "pg"
  Requests,
  TenantOf,  \* TenantOf[r]: the tenant a request acts for
  Bodies,    \* bodies that parse and validate
  BadBodies, \* bodies that do not
  MaxId      \* bound: records ever created

Empty == ""  \* a field that was not sent, or not set

Tenants == {TenantOf[r] : r \in Requests}
RecordKinds == {"agent", "server", "flow"}
Names == {Empty, "n"}
Statuses == {Empty, "unknown", "connected", "error"}
Ids == 1..MaxId

ASSUME ResourcesAssumption ==
  /\ Backend \in {"memory", "pg"}
  /\ MaxId \in Nat \ {0}
  /\ Bodies \cap BadBodies = {} /\ Empty \notin Bodies \cup BadBodies
  /\ Cardinality(Tenants) \in 0..MaxId

VARIABLES
  records,  \* records[id]: a record, or NoRecord
  lastId,   \* ids given out (uuid.NewString never repeats one)
  pc,
  loaded,   \* the copy an update or a test has read: [id, rec]
  probe,    \* what ListTools has said to a test
  seen,     \* the records a request has been answered with
  reply     \* HTTP status, 0 before

vars == <<records, lastId, pc, loaded, probe, seen, reply>>

(* verified is no field of the program: the body a test of the server has
   last judged, Empty when the status is the client's word. *)
Record ==
  [kind : RecordKinds, tenant : Tenants, name : Names,
   body : Bodies \cup BadBodies \cup {Empty}, status : Statuses,
   verified : Bodies \cup {Empty}]
NoRecord == [kind |-> "none"]
NoCopy == [id |-> 0, rec |-> NoRecord]
Live == {i \in Ids : records[i] # NoRecord}

-----------------------------------------------------------------------------
(* What the create handlers accept, and the record they make of it. *)
Valid(k, name, body) ==
  /\ name # Empty
  /\ k = "server" => body # Empty
  /\ k = "flow" => body \in Bodies

New(k, t, name, body) ==
  [kind |-> k, tenant |-> t, name |-> name, body |-> body,
   status |-> IF k = "server" THEN "unknown" ELSE Empty, verified |-> Empty]

(* Each tenant has created a record already. *)
Init ==
  /\ \E owner \in [1..Cardinality(Tenants) -> Tenants], k \in RecordKinds, b \in Bodies :
       /\ \A t \in Tenants : \E i \in DOMAIN owner : owner[i] = t
       /\ records = [i \in Ids |->
            IF i \in DOMAIN owner THEN New(k, owner[i], "n", b) ELSE NoRecord]
  /\ lastId = Cardinality(Tenants)
  /\ pc = [r \in Requests |-> "start"]
  /\ loaded = [r \in Requests |-> NoCopy]
  /\ probe = [r \in Requests |-> Empty]
  /\ seen = [r \in Requests |-> {}]
  /\ reply = [r \in Requests |-> 0]

-----------------------------------------------------------------------------
(* The store: every statement names the tenant.  PostgreSQL may fail at any
   time, also after it has done what was asked. *)
MayFail == Backend = "pg"
Codes(code) == {code} \cup (IF MayFail THEN {500} ELSE {})

MutAnyTenant(t, k, i) == i \in Live /\ records[i].kind = k

(* WHERE tenant_id AND id, in the table of the kind. *)
Exists(t, k, i) == i \in Live /\ records[i].kind = k /\ records[i].tenant = t

Rows(t, k) == {records[i] : i \in {j \in Ids : Exists(t, k, j)}}

Insert(rec) ==
  /\ lastId < MaxId
  /\ records' = [records EXCEPT ![lastId + 1] = rec]
  /\ lastId' = lastId + 1

Remove(i) == records' = [records EXCEPT ![i] = NoRecord]

MutUpsert(i, rec) == records' = [records EXCEPT ![i] = rec]

(* Update: the record is replaced if it is there, else ErrNotFound. *)
Replace(i, rec) ==
  records' = IF Exists(rec.tenant, rec.kind, i)
               THEN [records EXCEPT ![i] = rec] ELSE records

Goto(r, l) == pc' = [pc EXCEPT ![r] = l]
Answer(r, code) ==
  /\ reply' = [reply EXCEPT ![r] = code]
  /\ Goto(r, "done")

-----------------------------------------------------------------------------
Create(r) ==
  /\ pc[r] = "start"
  /\ \E k \in RecordKinds, name \in Names, body \in Bodies \cup BadBodies \cup {Empty} :
       \/ /\ ~Valid(k, name, body)
          /\ Answer(r, 400)
          /\ UNCHANGED <<records, lastId>>
       \/ /\ Valid(k, name, body)
          /\ Insert(New(k, TenantOf[r], name, body))
          /\ \E code \in Codes(201) : Answer(r, code)
       \/ /\ Valid(k, name, body) /\ MayFail
          /\ Answer(r, 500)
          /\ UNCHANGED <<records, lastId>>
  /\ UNCHANGED <<loaded, probe, seen>>

List(r) ==
  /\ pc[r] = "start"
  /\ \E k \in RecordKinds :
       \/ /\ seen' = [seen EXCEPT ![r] = Rows(TenantOf[r], k)]
          /\ Answer(r, 200)
       \/ /\ MayFail
          /\ Answer(r, 500)
          /\ UNCHANGED seen
  /\ UNCHANGED <<records, lastId, loaded, probe>>

Get(r) ==
  /\ pc[r] = "start"
  /\ \E k \in RecordKinds, i \in Ids :
       \/ /\ Exists(TenantOf[r], k, i)
          /\ seen' = [seen EXCEPT ![r] = {records[i]}]
          /\ Answer(r, 200)
       \/ /\ ~Exists(TenantOf[r], k, i)
          /\ Answer(r, 404)
          /\ UNCHANGED seen
       \/ /\ MayFail
          /\ Answer(r, 500)
          /\ UNCHANGED seen
  /\ UNCHANGED <<records, lastId, loaded, probe>>

Delete(r) ==
  /\ pc[r] = "start"
  /\ \E k \in RecordKinds, i \in Ids :
       \/ /\ Exists(TenantOf[r], k, i)
          /\ Remove(i)
          /\ \E code \in Codes(204) : Answer(r, code)
       \/ /\ ~Exists(TenantOf[r], k, i)
          /\ Answer(r, 404)
          /\ UNCHANGED records
       \/ /\ MayFail
          /\ Answer(r, 500)
          /\ UNCHANGED records
  /\ UNCHANGED <<lastId, loaded, probe, seen>>

(* The read of an update, or of a test of a server. *)
Load(r) ==
  /\ pc[r] = "start"
  /\ \E k \in RecordKinds, i \in Ids :
       \/ /\ Exists(TenantOf[r], k, i)
          /\ loaded' = [loaded EXCEPT ![r] = [id |-> i, rec |-> records[i]]]
          /\ \/ Goto(r, "update")
             \/ k = "server" /\ Goto(r, "probe")
          /\ UNCHANGED reply
       \/ /\ ~Exists(TenantOf[r], k, i)
          /\ Answer(r, 404)
          /\ UNCHANGED loaded
       \/ /\ MayFail
          /\ Answer(r, 500)
          /\ UNCHANGED loaded
  /\ UNCHANGED <<records, lastId, probe, seen>>

(* The copy with what the request sends: an empty transport or flow_json
   keeps the one read, the status of a server is the client's. *)
Merged(rec, name, body, status) ==
  [rec EXCEPT !.name = name,
              !.body = IF body = Empty /\ rec.kind # "agent" THEN rec.body ELSE body,
              !.status = IF rec.kind = "server" THEN status ELSE Empty,
              !.verified = Empty]

(* updateFlow validates a new flow_json. *)
AcceptsUpdate(k, body) == k = "flow" => body \in Bodies \cup {Empty}

Update(r) ==
  /\ pc[r] = "update"
  /\ LET i == loaded[r].id
         rec == loaded[r].rec
     IN \E name \in Names, body \in Bodies \cup BadBodies \cup {Empty},
          status \in {Empty, "connected"} :
          \/ /\ ~AcceptsUpdate(rec.kind, body)
             /\ Answer(r, 400)
             /\ UNCHANGED records
          \/ /\ AcceptsUpdate(rec.kind, body)
             /\ Replace(i, Merged(rec, name, body, status))
             /\ \E code \in Codes(IF i \in Live THEN 200 ELSE 404) : Answer(r, code)
          \/ /\ AcceptsUpdate(rec.kind, body) /\ MayFail
             /\ Answer(r, 500)
             /\ UNCHANGED records
  /\ UNCHANGED <<lastId, loaded, probe, seen>>

(* testMcpServer: a transport that does not parse is refused; otherwise
   ListTools takes its time and succeeds or fails. *)
Probe(r) ==
  /\ pc[r] = "probe"
  /\ IF loaded[r].rec.body \in BadBodies
       THEN Answer(r, 400) /\ UNCHANGED probe
       ELSE /\ \E s \in {"connected", "error"} : probe' = [probe EXCEPT ![r] = s]
            /\ Goto(r, "status")
            /\ UNCHANGED reply
  /\ UNCHANGED <<records, lastId, loaded, seen>>

MutStatusOnly(r) ==
  /\ pc[r] = "status"
  /\ LET i == loaded[r].id IN
       records' = IF i \in Live
         THEN [records EXCEPT ![i].status = probe[r],
                              ![i].verified = loaded[r].rec.body]
         ELSE records
  /\ Answer(r, 200)
  /\ UNCHANGED <<lastId, loaded, probe, seen>>

(* The whole record is written back with the new status; the store's error
   is dropped. *)
WriteStatus(r) ==
  /\ pc[r] = "status"
  /\ \/ Replace(loaded[r].id, [loaded[r].rec EXCEPT !.status = probe[r],
                                                    !.verified = loaded[r].rec.body])
     \/ MayFail /\ UNCHANGED records
  /\ Answer(r, 200)
  /\ UNCHANGED <<lastId, loaded, probe, seen>>

AllAnswered ==
  /\ \A r \in Requests : pc[r] = "done"
  /\ UNCHANGED vars

-----------------------------------------------------------------------------
Handler(r) ==
  \/ Create(r) \/ List(r) \/ Get(r) \/ Delete(r) \/ Load(r)
  \/ Update(r) \/ Probe(r) \/ WriteStatus(r)

Next == (\E r \in Requests : Handler(r)) \/ AllAnswered

Spec == Init /\ [][Next]_vars

-----------------------------------------------------------------------------
(* Every variable has its type. *)
TypeOK ==
  /\ records \in [Ids -> Record \cup {NoRecord}]
  /\ lastId \in 0..MaxId
  /\ pc \in [Requests -> {"start", "update", "probe", "status", "done"}]
  /\ loaded \in [Requests -> [id : 0..MaxId, rec : Record \cup {NoRecord}]]
  /\ probe \in [Requests -> {Empty, "connected", "error"}]
  /\ seen \in [Requests -> SUBSET Record]
  /\ reply \in [Requests -> {0, 200, 201, 204, 400, 404, 500}]

(* No request sees a record of another tenant, or works on a copy of one,
   whatever id it asks for. *)
ReadsOwnTenant ==
  \A r \in Requests :
    /\ \A rec \in seen[r] : rec.tenant = TenantOf[r]
    /\ loaded[r] # NoCopy => loaded[r].rec.tenant = TenantOf[r]

(* A deleted record stays deleted, though a test or an update that has read
   it writes it back later, and no record changes its tenant or its kind. *)
DeletedStaysDeleted ==
  [][\A i \in 1..lastId : records'[i] # NoRecord =>
       /\ records[i] # NoRecord
       /\ records'[i].tenant = records[i].tenant
       /\ records'[i].kind = records[i].kind]_vars

(* A status that a test has given a server is about the transport the record
   has: an update of the transport during the test does not inherit it. *)
StatusMatchesTransport ==
  \A i \in Live : records[i].verified # Empty => records[i].body = records[i].verified

(* Every stored flow has been validated, since runFlow executes what it
   loads: a flow_json is only replaced by one that validates. *)
StoredFlowsValid ==
  \A i \in Live : records[i].kind = "flow" => records[i].body \in Bodies
=============================================================================
