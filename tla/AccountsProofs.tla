--------------------------- MODULE AccountsProofs ---------------------------
(***************************************************************************)
(* Theorems about accounts, logins and rights, for every backend and every *)
(* set of requests, names and passwords.                                   *)
(***************************************************************************)
EXTENDS Accounts, TLAPS

USE AccountsAssumption

-----------------------------------------------------------------------------
(* The inductive invariant. *)

(* A request that holds a copy holds a user; one at the gate has no token. *)
Copies ==
  /\ \A r \in Requests : pc[r] \in {"issue", "update"} =>
       loaded[r].id \in Ids /\ loaded[r].user \in User
  /\ \A e \in Edits : pc[e] = "gate" => acting[e] = "none"

(* Until an edit, every account is the seeded owner, and a login that met no
   error finds the tenant when it seeds and, if the seed password can be
   hashed, an account when it looks up. *)
Seeded ==
  /\ ~edited => \A u \in Live : users[u] = Owner
  /\ \A l \in Logins \ erred :
       /\ pc[l] = "seed" => tenant
       /\ pc[l] = "lookup" => edited \/ Live # {} \/ ~Hashable(Seed.pass)

(* A token of account u for a role lives at most Expiry from now, and from
   the time the account ceased to have the role. *)
Bounded(t, u, role) ==
  t # NoToken /\ t.id = u /\ t.role = role =>
    /\ t.exp <= clock + Expiry
    /\ role \in Held(u) \/ t.exp <= lost[u][role] + Expiry
Fresh ==
  \A l \in Logins, u \in Ids, role \in Roles : Bounded(token[l], u, role)

AccInv ==
  /\ TypeOK
  /\ Copies
  /\ Seeded
  /\ SeedLoginWorks
  /\ Fresh

-----------------------------------------------------------------------------
(* Users and tokens. *)

LEMMA EmptyIsNoRole == Empty \notin Roles
  BY Zenon DEF Empty, Roles

LEMMA NoUserIsNone == NoUser \notin User
<1>1. \A user \in User : user.role \in Roles
  BY DEF User
<1>2. NoUser.role = Empty
  BY DEF NoUser
<1>3. QED
  BY <1>1, <1>2, EmptyIsNoRole

LEMMA OwnerIsUser == Owner \in User
  BY DEF Owner, User, Roles

(* What an update stores is a user. *)
LEMMA MergedUser ==
  ASSUME NEW user \in User,
         NEW new \in [name : Names \cup {Empty}, pass : Passwords \cup {Empty},
                      role : Roles \cup {Empty}]
  PROVE  Merge(user, new) \in User
  BY DEF Merge, User

-----------------------------------------------------------------------------
(* What a step may do to the accounts: nothing, or store a user under an id
   that it keeps or has just been given, or delete one. *)
Store(u, user) ==
  /\ user \in User
  /\ users' = [users EXCEPT ![u] = user]
  /\ \/ u \in Live /\ lastId' = lastId
     \/ u = lastId + 1 /\ lastId' = lastId + 1

TableStep ==
  \/ users' = users /\ lastId' = lastId
  \/ \E u \in Ids, user \in User : Store(u, user)
  \/ \E u \in Live : users' = [users EXCEPT ![u] = NoUser] /\ lastId' = lastId

LEMMA TableStepTypes ==
  ASSUME TypeOK, TableStep
  PROVE  /\ users' \in [Ids -> User \cup {NoUser}]
         /\ lastId' \in 0..MaxUsers
         /\ \A u \in Live' : u <= lastId'
  BY NoUserIsNone DEF TypeOK, TableStep, Store, Live, Ids

(* A deleted id is not given out again and nothing is stored under it. *)
LEMMA TableStepDeleted ==
  ASSUME TypeOK, TableStep
  PROVE  \A u \in 1..lastId : users[u] = NoUser => users'[u] = NoUser
  BY DEF TypeOK, TableStep, Store, Live, Ids

(* Losses are recorded when they happen, so a token that was bounded at a
   step, or given out in it, stays bounded. *)
LEMMA FreshStep ==
  ASSUME TypeOK, TypeOK', RecordLosses, clock <= clock',
         \A l \in Logins, u \in Ids, role \in Roles : Bounded(token'[l], u, role)
  PROVE  Fresh'
<1> SUFFICES ASSUME NEW l \in Logins, NEW u \in Ids, NEW role \in Roles,
                    token'[l] # NoToken, token'[l].id = u, token'[l].role = role
             PROVE  /\ token'[l].exp <= clock' + Expiry
                    /\ role \in Held(u)' \/ token'[l].exp <= lost'[u][role] + Expiry
  BY DEF Fresh, Bounded, NoToken
<1>1. /\ token'[l].exp <= clock + Expiry
      /\ role \in Held(u) \/ token'[l].exp <= lost[u][role] + Expiry
  BY DEF Bounded
<1>2. lost'[u][role] = IF role \in Held(u) /\ role \notin Held(u)' THEN clock
                       ELSE lost[u][role]
  BY DEF RecordLosses
<1>3. /\ clock \in Int /\ clock' \in Int /\ token'[l].exp \in Int
      /\ lost[u][role] \in Int
  BY DEF TypeOK, Claims
<1>4. QED
  BY <1>1, <1>2, <1>3
-----------------------------------------------------------------------------
(* The steps. *)

LEMMA LostType ==
  ASSUME TypeOK, RecordLosses
  PROVE  lost' \in [Ids -> [Roles -> Int]]
  BY DEF TypeOK, RecordLosses

Pcs == {"list", "tenant", "mktenant", "seed", "lookup", "issue", "gate", "read",
        "me", "create", "load", "update", "delete", "done"}
Statuses == {0, 200, 201, 204, 401, 403, 404, 500}
Progress == pc' \in [Requests -> Pcs] /\ reply' \in [Requests -> Statuses]

LEMMA GotoTypes ==
  ASSUME TypeOK, NEW r \in Requests, NEW to \in Pcs, Goto(r, to), UNCHANGED reply
  PROVE  Progress
  BY DEF TypeOK, Goto, Progress, Pcs, Statuses

LEMMA AnswerTypes ==
  ASSUME TypeOK, NEW r \in Requests, NEW code \in Statuses, Answer(r, code)
  PROVE  Progress
  BY DEF TypeOK, Goto, Answer, Progress, Pcs, Statuses

(* The variables a request has to itself. *)
OwnTypes ==
  /\ tenant' \in BOOLEAN /\ clock' \in 0..MaxTime
  /\ Progress
  /\ loaded' \in [Requests -> [id : 0..MaxUsers, user : User \cup {NoUser}]]
  /\ token' \in [Logins -> Claims \cup {NoToken}]
  /\ acting' \in [Edits -> Logins \cup {"none"}]
  /\ edited' \in BOOLEAN /\ erred' \subseteq Logins

(* What has to be shown of a step. *)
Good ==
  /\ OwnTypes
  /\ TableStep
  /\ clock <= clock'
  /\ Copies'
  /\ Seeded'
  /\ SeedLoginWorks'
  /\ \A l \in Logins, u \in Ids, role \in Roles : Bounded(token'[l], u, role)

LEMMA GoodStep ==
  ASSUME AccInv, RecordLosses, Good
  PROVE  AccInv'
<1>1. TypeOK'
  BY TableStepTypes, LostType DEF AccInv, Good, OwnTypes, Progress, Pcs, Statuses, TypeOK
<1>2. Fresh'
  BY <1>1, FreshStep DEF AccInv, Good
<1>3. QED
  BY <1>1, <1>2 DEF AccInv, Good

LEMMA TickGood ==
  ASSUME AccInv, Tick
  PROVE  Good
<1>0. TypeOK
  BY DEF AccInv
<1>1. OwnTypes
  BY <1>0 DEF TypeOK, OwnTypes, Requests, table, Progress, Pcs, Statuses, Tick, table, history
<1>2. TableStep
  BY DEF TableStep, Tick, table, history
<1>3. Copies'
  BY <1>0 DEF AccInv, Copies, TypeOK, Requests, Tick, table, history
<1>4. Seeded'
  BY <1>0 DEF AccInv, Seeded, TypeOK, Requests, Live, table, history, Tick
<1>5. SeedLoginWorks'
  BY <1>0 DEF AccInv, SeedLoginWorks, TypeOK, Requests, table, history, Tick
<1>6. \A k \in Logins, u \in Ids, role \in Roles : Bounded(token'[k], u, role)
  BY DEF AccInv, Fresh, Tick, table, history
<1>7. clock <= clock'
  BY <1>0 DEF TypeOK, Tick, table, history
<1>8. QED
  BY <1>1, <1>2, <1>3, <1>4, <1>5, <1>6, <1>7 DEF Good

LEMMA ListUsersGood ==
  ASSUME AccInv, NEW l \in Logins, ListUsers(l)
  PROVE  Good
<1>0. TypeOK
  BY DEF AccInv
<1>1. OwnTypes
  BY <1>0 DEF TypeOK, OwnTypes, Requests, table, Progress, Pcs, Statuses, ListUsers,
     StoreError, Goto
<1>2. TableStep
  BY DEF TableStep, table, ListUsers, StoreError, Goto
<1>3. Copies'
  BY <1>0 DEF AccInv, Copies, TypeOK, Requests, table, ListUsers, StoreError, Goto
<1>4. Seeded'
  BY <1>0 DEF AccInv, Seeded, TypeOK, Requests, Live, table, history, ListUsers, StoreError,
     Goto
<1>5. SeedLoginWorks'
  BY <1>0 DEF AccInv, SeedLoginWorks, TypeOK, Requests, table, history, ListUsers, StoreError,
     Goto
<1>6. \A k \in Logins, u \in Ids, role \in Roles : Bounded(token'[k], u, role)
  BY DEF AccInv, Fresh, ListUsers, StoreError, Goto
<1>7. clock <= clock'
  BY <1>0 DEF TypeOK, ListUsers, StoreError, Goto
<1>8. QED
  BY <1>1, <1>2, <1>3, <1>4, <1>5, <1>6, <1>7 DEF Good

LEMMA GetTenantGood ==
  ASSUME AccInv, NEW l \in Logins, GetTenant(l)
  PROVE  Good
<1>0. TypeOK
  BY DEF AccInv
<1>1. OwnTypes
  BY <1>0 DEF TypeOK, OwnTypes, Requests, table, Progress, Pcs, Statuses, GetTenant,
     StoreError, Goto
<1>2. TableStep
  BY DEF TableStep, table, GetTenant, StoreError, Goto
<1>3. Copies'
  BY <1>0 DEF AccInv, Copies, TypeOK, Requests, table, GetTenant, StoreError, Goto
<1>4. Seeded'
  BY <1>0 DEF AccInv, Seeded, TypeOK, Requests, Live, table, history, GetTenant, StoreError,
     Goto
<1>5. SeedLoginWorks'
  BY <1>0 DEF AccInv, SeedLoginWorks, TypeOK, Requests, table, history, GetTenant, StoreError,
     Goto
<1>6. \A k \in Logins, u \in Ids, role \in Roles : Bounded(token'[k], u, role)
  BY DEF AccInv, Fresh, GetTenant, StoreError, Goto
<1>7. clock <= clock'
  BY <1>0 DEF TypeOK, GetTenant, StoreError, Goto
<1>8. QED
  BY <1>1, <1>2, <1>3, <1>4, <1>5, <1>6, <1>7 DEF Good

LEMMA CreateTenantGood ==
  ASSUME AccInv, NEW l \in Logins, CreateTenant(l)
  PROVE  Good
<1>0. TypeOK
  BY DEF AccInv
<1>b. tenant' \in BOOLEAN
  BY <1>0, Zenon DEF TypeOK, CreateTenant
<1>1. OwnTypes
  BY <1>b, <1>0 DEF TypeOK, OwnTypes, Requests, table, Progress, Pcs, Statuses, CreateTenant,
     StoreError, Goto
<1>2. TableStep
  BY DEF TableStep, table, CreateTenant, StoreError, Goto
<1>3. Copies'
  BY <1>0 DEF AccInv, Copies, TypeOK, Requests, table, CreateTenant, StoreError, Goto
<1>4. Seeded'
  BY <1>0 DEF AccInv, Seeded, TypeOK, Requests, Live, table, history, CreateTenant,
     StoreError, Goto
<1>5. SeedLoginWorks'
  BY <1>0 DEF AccInv, SeedLoginWorks, TypeOK, Requests, table, history, CreateTenant,
     StoreError, Goto
<1>6. \A k \in Logins, u \in Ids, role \in Roles : Bounded(token'[k], u, role)
  BY DEF AccInv, Fresh, CreateTenant, StoreError, Goto
<1>7. clock <= clock'
  BY <1>0 DEF TypeOK, CreateTenant, StoreError, Goto
<1>8. QED
  BY <1>1, <1>2, <1>3, <1>4, <1>5, <1>6, <1>7 DEF Good

LEMMA SeedOwnerGood ==
  ASSUME AccInv, NEW l \in Logins, SeedOwner(l)
  PROVE  Good
<1>0. TypeOK
  BY DEF AccInv
<1>1. OwnTypes
  BY <1>0 DEF TypeOK, OwnTypes, Requests, table, Progress, Pcs, Statuses, SeedOwner,
     StoreError, Goto, Insert
<1>2. TableStep
  <2>1. CASE Insert(Owner)
    <3>1. lastId + 1 \in Ids /\ lastId \in Nat
      BY <1>0, <2>1 DEF TypeOK, Insert, Ids
    <3>2. Store(lastId + 1, Owner)
      BY <2>1, <3>1, OwnerIsUser DEF Store, Insert
    <3>3. QED
      BY <3>1, <3>2, OwnerIsUser DEF TableStep
  <2>2. QED
    BY <2>1 DEF TableStep, SeedOwner
<1>3. Copies'
  BY <1>0 DEF AccInv, Copies, TypeOK, Requests, table, SeedOwner, StoreError, Goto, Insert
<1>4. Seeded'
  <2>1. CASE Insert(Owner) /\ UNCHANGED erred
    <3>1. lastId + 1 \in Ids /\ lastId \in Nat
      BY <1>0, <2>1 DEF TypeOK, Insert, Ids
    <3>2. users' = [users EXCEPT ![lastId + 1] = Owner] /\ users \in [Ids -> User \cup {NoUser}]
      BY <1>0, <2>1 DEF Insert, TypeOK
    <3>3. Live' = Live \cup {lastId + 1}
      BY <3>1, <3>2, OwnerIsUser, NoUserIsNone DEF Live
    <3>4. QED
      BY <1>0, <2>1, <3>1, <3>2, <3>3 DEF AccInv, Seeded, TypeOK, Requests, SeedOwner, Goto
  <2>2. CASE /\ ~Hashable(Seed.pass) \/ ~Accepts(Seed.name, 0)
            /\ UNCHANGED <<users, lastId, erred>>
    <3>1. ~tenant \/ Live # {} \/ ~Hashable(Seed.pass)
      BY <2>2 DEF Accepts, NameFree
    <3>2. QED
      BY <1>0, <2>2, <3>1 DEF AccInv, Seeded, TypeOK, Requests, Live, SeedOwner, Goto
  <2>3. CASE StoreError(l) /\ UNCHANGED <<users, lastId>>
    BY <1>0, <2>3 DEF AccInv, Seeded, TypeOK, Requests, Live, SeedOwner, Goto, StoreError
  <2>4. QED
    BY <2>1, <2>2, <2>3 DEF SeedOwner
<1>5. SeedLoginWorks'
  BY <1>0 DEF AccInv, SeedLoginWorks, TypeOK, Requests, table, history, SeedOwner, StoreError,
     Goto, Insert
<1>6. \A k \in Logins, u \in Ids, role \in Roles : Bounded(token'[k], u, role)
  BY DEF AccInv, Fresh, SeedOwner, StoreError, Goto, Insert
<1>7. clock <= clock'
  BY <1>0 DEF TypeOK, SeedOwner, StoreError, Goto, Insert
<1>8. QED
  BY <1>1, <1>2, <1>3, <1>4, <1>5, <1>6, <1>7 DEF Good

LEMMA LookupGood ==
  ASSUME AccInv, NEW l \in Logins, Lookup(l)
  PROVE  Good
<1>0. TypeOK
  BY DEF AccInv
<1>f. \A u \in Live : users[u] \in User /\ u \in Ids /\ u \in 0..MaxUsers
  BY <1>0 DEF TypeOK, Live, Ids
<1>1. OwnTypes
  <2>1. l \in Requests
    BY DEF Requests
  <2>2. Progress
    BY <1>0, <2>1, <1>f, GotoTypes, AnswerTypes DEF Lookup, Pcs, Statuses
  <2>3. QED
    BY <1>0, <1>f, <2>1, <2>2 DEF TypeOK, OwnTypes, table, Lookup, StoreError
<1>2. TableStep
  BY DEF TableStep, table, Lookup, StoreError, Goto, Answer
<1>3. Copies'
  BY <1>0, <1>f DEF AccInv, Copies, TypeOK, Requests, Lookup, StoreError, Goto, Answer
<1>4. Seeded'
  BY <1>0 DEF AccInv, Seeded, TypeOK, Requests, Live, table, history, Lookup, StoreError,
     Goto, Answer
<1>5. SeedLoginWorks'
  <2>1. \A k \in Logins \ {l} : reply'[k] = reply[k]
    BY <1>0 DEF TypeOK, Requests, Lookup, Answer
  <2>2. edited' = edited /\ erred \subseteq erred'
    BY DEF Lookup, StoreError
  <2>3. SUFFICES ASSUME reply'[l] = 401, Credentials[l] = Seed, l \notin erred', ~edited,
                        Hashable(Seed.pass)
                 PROVE  FALSE
    BY <2>1, <2>2 DEF AccInv, SeedLoginWorks
  <2>4. \A u \in Live : users[u].name = Seed.name /\ users[u].pass = Seed.pass
    BY <2>3 DEF AccInv, Seeded, Owner
  <2>5. Live # {} /\ reply[l] # 401
    BY <2>2, <2>3 DEF AccInv, Seeded, SeedLoginWorks, Lookup
  <2>6. QED
    BY <1>0, <2>3, <2>4, <2>5 DEF Lookup, StoreError, TypeOK, Requests
<1>6. \A k \in Logins, u \in Ids, role \in Roles : Bounded(token'[k], u, role)
  BY DEF AccInv, Fresh, Lookup, StoreError, Goto, Answer
<1>7. clock <= clock'
  BY <1>0 DEF TypeOK, Lookup, StoreError, Goto, Answer
<1>8. QED
  BY <1>1, <1>2, <1>3, <1>4, <1>5, <1>6, <1>7 DEF Good

LEMMA IssueGood ==
  ASSUME AccInv, NEW l \in Logins, Issue(l)
  PROVE  Good
<1>0. TypeOK
  BY DEF AccInv
<1>f. /\ loaded[l].id \in Ids /\ loaded[l].user.role \in Roles
      /\ clock + Expiry \in Nat /\ clock \in Nat /\ Expiry \in Nat
  BY <1>0 DEF TypeOK, AccInv, Copies, Requests, Issue, User
<1>g. token' = [token EXCEPT ![l] = [id |-> loaded[l].id, role |-> loaded[l].user.role,
                                     exp |-> clock + Expiry]]
  BY DEF Issue
<1>1. OwnTypes
  <2>1. token' \in [Logins -> Claims \cup {NoToken}]
    BY <1>0, <1>f, <1>g DEF TypeOK, Claims
  <2>2. QED
    BY <1>0, <2>1 DEF TypeOK, OwnTypes, Requests, table, Progress, Pcs, Statuses, Issue, Goto,
       Answer, history
<1>2. TableStep
  BY DEF TableStep, table, Issue, Goto, Answer, history
<1>3. Copies'
  BY <1>0 DEF AccInv, Copies, TypeOK, Requests, table, Issue, Goto, Answer, history
<1>4. Seeded'
  BY <1>0 DEF AccInv, Seeded, TypeOK, Requests, Live, table, history, Issue, Goto, Answer
<1>5. SeedLoginWorks'
  BY <1>0 DEF AccInv, SeedLoginWorks, TypeOK, Requests, table, history, Issue, Goto, Answer
<1>6. \A k \in Logins, u \in Ids, role \in Roles : Bounded(token'[k], u, role)
  <2>1. loaded[l].user.role \in Held(loaded[l].id)
    BY DEF Held, Issue
  <2>2. \A k \in Logins \ {l} : token'[k] = token[k]
    BY <1>0, <1>g DEF TypeOK
  <2>3. /\ token'[l].id = loaded[l].id /\ token'[l].role = loaded[l].user.role
        /\ token'[l].exp = clock + Expiry
    BY <1>0, <1>g DEF TypeOK
  <2>4. QED
    BY <1>f, <2>1, <2>2, <2>3 DEF AccInv, Fresh, Bounded
<1>7. clock <= clock'
  BY <1>0 DEF TypeOK, Issue, Goto, Answer, history
<1>8. QED
  BY <1>1, <1>2, <1>3, <1>4, <1>5, <1>6, <1>7 DEF Good

LEMMA GateGood ==
  ASSUME AccInv, NEW e \in Edits, Gate(e)
  PROVE  Good
<1>0. TypeOK
  BY DEF AccInv
<1>f. \A r \in Routes : r.to \in {"create", "load", "delete", "read", "me", "other"}
  BY DEF Routes, Route
<1>1. OwnTypes
  <2>1. e \in Requests
    BY DEF Requests
  <2>2. Progress
    BY <1>0, <2>1, <1>f, GotoTypes, AnswerTypes DEF Gate, Pcs, Statuses
  <2>3. QED
    BY <1>0, <1>f, <2>1, <2>2 DEF TypeOK, OwnTypes, table, Gate, history
<1>2. TableStep
  BY DEF TableStep, table, Gate, Goto, Answer, history
<1>3. Copies'
  <2>1. \A d \in Requests \ {e} : pc'[d] = pc[d]
    BY <1>0 DEF TypeOK, Gate, Goto, Answer
  <2>2. pc'[e] \notin {"issue", "update", "gate"}
    BY <1>0, <1>f DEF TypeOK, Requests, Gate, Goto, Answer
  <2>3. loaded' = loaded /\ \A d \in Edits \ {e} : acting'[d] = acting[d]
    BY <1>0 DEF TypeOK, Gate
  <2>4. QED
    BY <2>1, <2>2, <2>3 DEF AccInv, Copies, Requests
<1>4. Seeded'
  BY <1>0 DEF AccInv, Seeded, TypeOK, Requests, Live, table, history, Gate, Goto, Answer
<1>5. SeedLoginWorks'
  BY <1>0 DEF AccInv, SeedLoginWorks, TypeOK, Requests, table, history, Gate, Goto, Answer
<1>6. \A k \in Logins, u \in Ids, role \in Roles : Bounded(token'[k], u, role)
  BY DEF AccInv, Fresh, Gate, Goto, Answer, history
<1>7. clock <= clock'
  BY <1>0 DEF TypeOK, Gate, Goto, Answer, history
<1>8. QED
  BY <1>1, <1>2, <1>3, <1>4, <1>5, <1>6, <1>7 DEF Good

LEMMA ReadUsersGood ==
  ASSUME AccInv, NEW e \in Edits, ReadUsers(e)
  PROVE  Good
<1>0. TypeOK
  BY DEF AccInv
<1>1. OwnTypes
  BY <1>0 DEF TypeOK, OwnTypes, Requests, table, Progress, Pcs, Statuses, ReadUsers, Goto,
     Answer, Codes, history
<1>2. TableStep
  BY DEF TableStep, table, ReadUsers, Goto, Answer, Codes, history
<1>3. Copies'
  BY <1>0 DEF AccInv, Copies, TypeOK, Requests, table, ReadUsers, Goto, Answer, Codes, history
<1>4. Seeded'
  BY <1>0 DEF AccInv, Seeded, TypeOK, Requests, Live, table, history, ReadUsers, Goto, Answer,
     Codes
<1>5. SeedLoginWorks'
  BY <1>0 DEF AccInv, SeedLoginWorks, TypeOK, Requests, table, history, ReadUsers, Goto,
     Answer, Codes
<1>6. \A k \in Logins, u \in Ids, role \in Roles : Bounded(token'[k], u, role)
  BY DEF AccInv, Fresh, ReadUsers, Goto, Answer, Codes, history
<1>7. clock <= clock'
  BY <1>0 DEF TypeOK, ReadUsers, Goto, Answer, Codes, history
<1>8. QED
  BY <1>1, <1>2, <1>3, <1>4, <1>5, <1>6, <1>7 DEF Good

LEMMA MeGood ==
  ASSUME AccInv, NEW e \in Edits, Me(e)
  PROVE  Good
<1>0. TypeOK
  BY DEF AccInv
<1>1. OwnTypes
  <2>1. e \in Requests
    BY DEF Requests
  <2>2. Progress
    BY <1>0, <2>1, GotoTypes, AnswerTypes DEF Me, Pcs, Statuses
  <2>3. QED
    BY <1>0, <2>1, <2>2 DEF TypeOK, OwnTypes, table, Me, history
<1>2. TableStep
  BY DEF TableStep, table, Me, Goto, Answer, history
<1>3. Copies'
  BY <1>0 DEF AccInv, Copies, TypeOK, Requests, table, Me, Goto, Answer, history
<1>4. Seeded'
  BY <1>0 DEF AccInv, Seeded, TypeOK, Requests, Live, table, history, Me, Goto, Answer
<1>5. SeedLoginWorks'
  BY <1>0 DEF AccInv, SeedLoginWorks, TypeOK, Requests, table, history, Me, Goto, Answer
<1>6. \A k \in Logins, u \in Ids, role \in Roles : Bounded(token'[k], u, role)
  BY DEF AccInv, Fresh, Me, Goto, Answer, history
<1>7. clock <= clock'
  BY <1>0 DEF TypeOK, Me, Goto, Answer, history
<1>8. QED
  BY <1>1, <1>2, <1>3, <1>4, <1>5, <1>6, <1>7 DEF Good

LEMMA CreateUserGood ==
  ASSUME AccInv, NEW e \in Edits, CreateUser(e)
  PROVE  Good
<1>0. TypeOK
  BY DEF AccInv
<1>b. edited' \in BOOLEAN
  BY <1>0, Zenon DEF TypeOK, CreateUser
<1>1. OwnTypes
  <2>1. e \in Requests
    BY DEF Requests
  <2>2. Progress
    BY <1>0, <2>1, GotoTypes, AnswerTypes DEF CreateUser, Pcs, Statuses, Codes
  <2>3. QED
    BY <1>0, <1>b, <2>1, <2>2 DEF TypeOK, OwnTypes, table, CreateUser
<1>2. TableStep
  <2>1. PICK user \in [name : Names, pass : Passwords, role : Roles] :
          Insert(user) \/ UNCHANGED <<users, lastId>>
    BY DEF CreateUser
  <2>2. user \in User
    BY DEF User
  <2>3. CASE Insert(user)
    <3>1. lastId + 1 \in Ids /\ lastId \in Nat
      BY <1>0, <2>3 DEF TypeOK, Insert, Ids
    <3>2. Store(lastId + 1, user)
      BY <2>2, <2>3, <3>1 DEF Store, Insert
    <3>3. QED
      BY <2>2, <3>1, <3>2 DEF TableStep
  <2>4. QED
    BY <2>1, <2>3 DEF TableStep
<1>3. Copies'
  BY <1>0 DEF AccInv, Copies, TypeOK, Requests, table, CreateUser, Goto, Answer, Codes, Insert
<1>4. Seeded'
  BY <1>0 DEF AccInv, Seeded, TypeOK, Requests, Live, table, history, CreateUser, Goto,
     Answer, Codes, Insert
<1>5. SeedLoginWorks'
  BY <1>0 DEF AccInv, SeedLoginWorks, TypeOK, Requests, table, history, CreateUser, Goto,
     Answer, Codes, Insert
<1>6. \A k \in Logins, u \in Ids, role \in Roles : Bounded(token'[k], u, role)
  BY DEF AccInv, Fresh, CreateUser, Goto, Answer, Codes, Insert
<1>7. clock <= clock'
  BY <1>0 DEF TypeOK, CreateUser, Goto, Answer, Codes, Insert
<1>8. QED
  BY <1>1, <1>2, <1>3, <1>4, <1>5, <1>6, <1>7 DEF Good

LEMMA LoadUserGood ==
  ASSUME AccInv, NEW e \in Edits, LoadUser(e)
  PROVE  Good
<1>0. TypeOK
  BY DEF AccInv
<1>f. \A u \in Live : users[u] \in User /\ u \in Ids /\ u \in 0..MaxUsers
  BY <1>0 DEF TypeOK, Live, Ids
<1>1. OwnTypes
  <2>1. e \in Requests
    BY DEF Requests
  <2>2. Progress
    BY <1>0, <2>1, <1>f, GotoTypes, AnswerTypes DEF LoadUser, Pcs, Statuses
  <2>3. QED
    BY <1>0, <1>f, <2>1, <2>2 DEF TypeOK, OwnTypes, table, LoadUser, history
<1>2. TableStep
  BY DEF TableStep, table, LoadUser, Goto, Answer, history
<1>3. Copies'
  BY <1>0, <1>f DEF AccInv, Copies, TypeOK, Requests, LoadUser, Goto, Answer
<1>4. Seeded'
  BY <1>0 DEF AccInv, Seeded, TypeOK, Requests, Live, table, history, LoadUser, Goto, Answer
<1>5. SeedLoginWorks'
  BY <1>0 DEF AccInv, SeedLoginWorks, TypeOK, Requests, table, history, LoadUser, Goto, Answer
<1>6. \A k \in Logins, u \in Ids, role \in Roles : Bounded(token'[k], u, role)
  BY DEF AccInv, Fresh, LoadUser, Goto, Answer, history
<1>7. clock <= clock'
  BY <1>0 DEF TypeOK, LoadUser, Goto, Answer, history
<1>8. QED
  BY <1>1, <1>2, <1>3, <1>4, <1>5, <1>6, <1>7 DEF Good

LEMMA UpdateUserGood ==
  ASSUME AccInv, NEW e \in Edits, UpdateUser(e)
  PROVE  Good
<1>0. TypeOK
  BY DEF AccInv
<1>b. edited' \in BOOLEAN
  BY <1>0, Zenon DEF TypeOK, UpdateUser
<1>1. OwnTypes
  <2>1. e \in Requests
    BY DEF Requests
  <2>2. Progress
    BY <1>0, <2>1, GotoTypes, AnswerTypes DEF UpdateUser, Pcs, Statuses, Codes
  <2>3. QED
    BY <1>0, <1>b, <2>1, <2>2 DEF TypeOK, OwnTypes, table, UpdateUser
<1>2. TableStep
  <2>1. CASE UNCHANGED users
    BY <2>1 DEF TableStep, UpdateUser
  <2>2. CASE loaded[e].id \in Live /\ ~UNCHANGED users
    <3>1. PICK new \in [name : Names \cup {Empty}, pass : Passwords \cup {Empty},
                       role : Roles \cup {Empty}] :
            users' = [users EXCEPT ![loaded[e].id] = Merge(loaded[e].user, new)]
      BY <2>2 DEF UpdateUser
    <3>2. Merge(loaded[e].user, new) \in User /\ loaded[e].id \in Ids
      BY MergedUser DEF AccInv, Copies, Requests, UpdateUser
    <3>3. Store(loaded[e].id, Merge(loaded[e].user, new))
      BY <2>2, <3>1, <3>2 DEF Store, UpdateUser
    <3>4. QED
      BY <3>2, <3>3 DEF TableStep
  <2>3. QED
    BY <2>1, <2>2 DEF UpdateUser
<1>3. Copies'
  BY <1>0 DEF AccInv, Copies, TypeOK, Requests, table, UpdateUser, Goto, Answer, Codes
<1>4. Seeded'
  BY <1>0 DEF AccInv, Seeded, TypeOK, Requests, Live, table, history, UpdateUser, Goto,
     Answer, Codes
<1>5. SeedLoginWorks'
  BY <1>0 DEF AccInv, SeedLoginWorks, TypeOK, Requests, table, history, UpdateUser, Goto,
     Answer, Codes
<1>6. \A k \in Logins, u \in Ids, role \in Roles : Bounded(token'[k], u, role)
  BY DEF AccInv, Fresh, UpdateUser, Goto, Answer, Codes
<1>7. clock <= clock'
  BY <1>0 DEF TypeOK, UpdateUser, Goto, Answer, Codes
<1>8. QED
  BY <1>1, <1>2, <1>3, <1>4, <1>5, <1>6, <1>7 DEF Good

LEMMA DeleteUserGood ==
  ASSUME AccInv, NEW e \in Edits, DeleteUser(e)
  PROVE  Good
<1>0. TypeOK
  BY DEF AccInv
<1>b. edited' \in BOOLEAN
  BY <1>0, Zenon DEF TypeOK, DeleteUser
<1>1. OwnTypes
  <2>1. e \in Requests
    BY DEF Requests
  <2>2. Progress
    BY <1>0, <2>1, GotoTypes, AnswerTypes DEF DeleteUser, Pcs, Statuses, Codes
  <2>3. QED
    BY <1>0, <1>b, <2>1, <2>2 DEF TypeOK, OwnTypes, table, DeleteUser
<1>2. TableStep
  BY DEF TableStep, table, DeleteUser, Goto, Answer, Codes
<1>3. Copies'
  BY <1>0 DEF AccInv, Copies, TypeOK, Requests, table, DeleteUser, Goto, Answer, Codes
<1>4. Seeded'
  BY <1>0 DEF AccInv, Seeded, TypeOK, Requests, Live, table, history, DeleteUser, Goto,
     Answer, Codes
<1>5. SeedLoginWorks'
  BY <1>0 DEF AccInv, SeedLoginWorks, TypeOK, Requests, table, history, DeleteUser, Goto,
     Answer, Codes
<1>6. \A k \in Logins, u \in Ids, role \in Roles : Bounded(token'[k], u, role)
  BY DEF AccInv, Fresh, DeleteUser, Goto, Answer, Codes
<1>7. clock <= clock'
  BY <1>0 DEF TypeOK, DeleteUser, Goto, Answer, Codes
<1>8. QED
  BY <1>1, <1>2, <1>3, <1>4, <1>5, <1>6, <1>7 DEF Good

LEMMA AllAnsweredGood ==
  ASSUME AccInv, AllAnswered
  PROVE  Good
<1>0. TypeOK
  BY DEF AccInv
<1>1. OwnTypes
  BY <1>0 DEF TypeOK, OwnTypes, Requests, table, Progress, Pcs, Statuses, AllAnswered, table,
     history
<1>2. TableStep
  BY DEF TableStep, AllAnswered, table, history
<1>3. Copies'
  BY <1>0 DEF AccInv, Copies, TypeOK, Requests, AllAnswered, table, history
<1>4. Seeded'
  BY <1>0 DEF AccInv, Seeded, TypeOK, Requests, Live, table, history, AllAnswered
<1>5. SeedLoginWorks'
  BY <1>0 DEF AccInv, SeedLoginWorks, TypeOK, Requests, table, history, AllAnswered
<1>6. \A k \in Logins, u \in Ids, role \in Roles : Bounded(token'[k], u, role)
  BY DEF AccInv, Fresh, AllAnswered, table, history
<1>7. clock <= clock'
  BY <1>0 DEF TypeOK, AllAnswered, table, history
<1>8. QED
  BY <1>1, <1>2, <1>3, <1>4, <1>5, <1>6, <1>7 DEF Good

-----------------------------------------------------------------------------
LEMMA InitInv == Init => AccInv
<1> SUFFICES ASSUME Init PROVE AccInv
  OBVIOUS
<1>1. Live = {}
  BY DEF Init, Live
<1>2. TypeOK
  <2>1. tenant \in BOOLEAN /\ edited \in BOOLEAN
    BY Zenon DEF Init
  <2>2. lost \in [Ids -> [Roles -> Int]]
    BY DEF Init
  <2>3. loaded \in [Requests -> [id : 0..MaxUsers, user : User \cup {NoUser}]]
    BY DEF Init
  <2>4. QED
    BY <1>1, <2>1, <2>2, <2>3 DEF Init, TypeOK, Requests
<1>3. Copies /\ Seeded /\ SeedLoginWorks
  BY <1>1 DEF Init, Copies, Seeded, SeedLoginWorks, Requests
<1>4. Fresh
  BY DEF Init, Fresh, Bounded
<1>5. QED
  BY <1>2, <1>3, <1>4 DEF AccInv

LEMMA StepGood ==
  ASSUME AccInv, Step
  PROVE  Good
<1>1. CASE Tick \/ AllAnswered
  BY <1>1, TickGood, AllAnsweredGood
<1>2. CASE \E l \in Logins : \/ ListUsers(l) \/ GetTenant(l) \/ CreateTenant(l)
                             \/ SeedOwner(l) \/ Lookup(l) \/ Issue(l)
  BY <1>2, ListUsersGood, GetTenantGood, CreateTenantGood, SeedOwnerGood, LookupGood,
     IssueGood
<1>3. CASE \E e \in Edits : \/ Gate(e) \/ ReadUsers(e) \/ Me(e) \/ CreateUser(e)
                            \/ LoadUser(e) \/ UpdateUser(e) \/ DeleteUser(e)
  BY <1>3, GateGood, ReadUsersGood, MeGood, CreateUserGood, LoadUserGood, UpdateUserGood,
     DeleteUserGood
<1>4. QED
  BY <1>1, <1>2, <1>3 DEF Step

LEMMA NextInv == AccInv /\ [Next]_vars => AccInv'
<1>1. ASSUME AccInv, Next PROVE AccInv'
  BY <1>1, StepGood, GoodStep DEF Next
<1>2. ASSUME AccInv, UNCHANGED vars PROVE AccInv'
  <2>1. Live' = Live /\ \A u \in Ids : Held(u)' = Held(u)
    BY <1>2 DEF vars, table, history, Live, Held
  <2>2. TypeOK' /\ Copies' /\ Seeded' /\ SeedLoginWorks'
    BY <1>2, <2>1 DEF AccInv, vars, table, history, TypeOK, Copies, Seeded,
                      SeedLoginWorks
  <2>3. Fresh'
    BY <1>2, <2>1 DEF AccInv, vars, table, history, Fresh, Bounded
  <2>4. QED
    BY <2>2, <2>3 DEF AccInv
<1>3. QED
  BY <1>1, <1>2

LEMMA AlwaysInv == Spec => []AccInv
  BY InitInv, NextInv, PTL DEF Spec

(* The default credentials are refused to a login only if the store failed
   under it, somebody has changed the accounts, or the configured password is
   too long for bcrypt (ensureSeed, handleLogin). *)
THEOREM SeedCredentialsWork == Spec => []SeedLoginWorks
<1>1. AccInv => SeedLoginWorks
  BY DEF AccInv
<1>2. QED
  BY <1>1, AlwaysInv, PTL

(* No step brings a deleted account back: an update writes only to a row that
   is there, and a new account has a new id. *)
THEOREM DeletedAccountsStay == Spec => NoResurrection
<1>1. AccInv /\ [Next]_vars =>
        [\A u \in 1..lastId : users[u] = NoUser => users'[u] = NoUser]_vars
  BY StepGood, TableStepDeleted DEF Next, AccInv, Good
<1>2. QED
  BY <1>1, AlwaysInv, PTL DEF Spec, NoResurrection

-----------------------------------------------------------------------------
(* The two middlewares. *)

(* Allowed grants no route that the access table does not list. *)
LEMMA AllowedIsListed ==
  ASSUME NEW r \in Routes, NEW role \in Roles, Allowed(r.method, r.path, role)
  PROVE  r \in Documented(role)
<1>1. /\ roleRank("viewer") = 1 /\ roleRank("operator") = 2 /\ roleRank("owner") = 3
  BY DEF roleRank
<1>2. CASE r.method = "GET"
  BY <1>2 DEF Documented
<1>3. CASE r.method = "POST" /\ r.path \in {"tasks", "flows/run"}
  <2>1. RequiredRole(r.method, r.path) = "operator"
    BY <1>3 DEF RequiredRole
  <2>2. role # "viewer"
    BY <1>1, <2>1 DEF Allowed
  <2>3. QED
    BY <1>3, <2>2 DEF Documented, Roles
<1>4. CASE /\ r.method \in {"POST", "PUT", "DELETE"}
           /\ ~(r.method = "POST" /\ r.path \in {"tasks", "flows/run"})
  <2>1. RequiredRole(r.method, r.path) = "owner"
    BY <1>4 DEF RequiredRole
  <2>2. role = "owner"
    BY <1>1, <2>1 DEF Allowed, Roles
  <2>3. QED
    BY <2>2 DEF Documented
<1>5. r.method \in {"GET", "POST", "PUT", "DELETE"}
  BY DEF Routes, Route
<1>6. QED
  BY <1>2, <1>3, <1>4, <1>5

(* Only Gate gives a request a token to act with. *)
LEMMA OnlyGateAdmits ==
  ASSUME AccInv, Step, NEW e \in Edits, pc[e] = "gate", acting'[e] # "none"
  PROVE  Gate(e)
<1>1. acting[e] = "none" /\ acting' # acting
  BY DEF AccInv, Copies
<1>2. PICK d \in Edits : Gate(d)
  BY <1>1 DEF Step, Tick, ListUsers, GetTenant, CreateTenant, SeedOwner, Lookup, Issue,
              ReadUsers, Me, CreateUser, LoadUser, UpdateUser, DeleteUser, AllAnswered
<1>3. d = e
  BY <1>1, <1>2 DEF Gate, AccInv, TypeOK
<1>4. QED
  BY <1>2, <1>3

(* A request is admitted only for an account that has, or had less than
   Expiry ago, a role that the README's table lists the route for. *)
THEOREM RightsAreBounded == Spec => RightsFollowRole
<1>1. ASSUME AccInv, Next, NEW e \in Edits, pc[e] = "gate", acting'[e] # "none"
      PROVE  LET u == token[acting'[e]].id IN
               \E r \in Routes, role \in Roles :
                 /\ r.to = IF pc'[e] = "done" THEN "other" ELSE pc'[e]
                 /\ r \in Documented(role)
                 /\ role \in Held(u) \/ clock < lost[u][role] + Expiry
  <2>1. Gate(e) /\ TypeOK /\ e \in Requests
    BY <1>1, OnlyGateAdmits DEF Next, AccInv, Requests
  <2>2. acting[e] = "none"
    BY <1>1 DEF AccInv, Copies
  <2>3. PICK l \in Logins, r \in Routes :
          /\ Verify(token[l])
          /\ Allowed(r.method, r.path, token[l].role)
          /\ acting' = [acting EXCEPT ![e] = l]
          /\ IF r.to = "other" THEN Answer(e, 200) ELSE Goto(e, r.to)
    BY <1>1, <2>1, <2>2 DEF Gate
  <2>4. acting'[e] = l
    BY <2>1, <2>3 DEF TypeOK
  <2>5. r.to = IF pc'[e] = "done" THEN "other" ELSE pc'[e]
    <3>1. r.to # "done"
      BY DEF Routes, Route
    <3>2. QED
      BY <2>1, <2>3, <3>1 DEF TypeOK, Answer, Goto
  <2>6. token[l] \in Claims /\ token[l] # NoToken /\ clock < token[l].exp
    BY <2>1, <2>3 DEF Verify, TypeOK
  <2>7. token[l].role \in Roles /\ token[l].id \in Ids
    BY <2>6 DEF Claims
  <2>8. r \in Documented(token[l].role)
    BY <2>3, <2>7, AllowedIsListed
  <2>9. \/ token[l].role \in Held(token[l].id)
        \/ clock < lost[token[l].id][token[l].role] + Expiry
    <3>1. \/ token[l].role \in Held(token[l].id)
          \/ token[l].exp <= lost[token[l].id][token[l].role] + Expiry
      BY <1>1, <2>6, <2>7 DEF AccInv, Fresh, Bounded
    <3>2. /\ token[l].exp \in Int /\ clock \in Int
          /\ lost[token[l].id][token[l].role] \in Int
      BY <2>1, <2>6, <2>7 DEF TypeOK, Claims
    <3>3. QED
      BY <2>6, <3>1, <3>2
  <2>10. QED
    BY <2>4, <2>5, <2>7, <2>8, <2>9
<1>2. AccInv /\ [Next]_vars =>
        [\A e \in Edits : pc[e] = "gate" /\ acting'[e] # "none" =>
           LET u == token[acting'[e]].id IN
             \E r \in Routes, role \in Roles :
               /\ r.to = IF pc'[e] = "done" THEN "other" ELSE pc'[e]
               /\ r \in Documented(role)
               /\ role \in Held(u) \/ clock < lost[u][role] + Expiry]_vars
  BY <1>1
<1>3. QED
  BY <1>2, AlwaysInv, PTL DEF Spec, RightsFollowRole
=============================================================================
