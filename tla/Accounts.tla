------------------------------ MODULE Accounts ------------------------------
(***************************************************************************)
(* The accounts of the default tenant and what they may do: logins, which  *)
(* seed an owner account when there is none and issue a token, the two     *)
(* middlewares that check a token and its role, and the requests that      *)
(* read, create, update and delete users.  Each request makes several      *)
(* store calls and other requests run between any two of them.             *)
(*                                                                         *)
(* A password stands for its bcrypt hash, which only one of at most 72     *)
(* bytes has; a login presents the first 72 bytes of a longer one, which   *)
(* is all that the comparison looks at.  A token stands for its claims:    *)
(* its role is the one the account had at the login, and no later check    *)
(* looks at the account again.                                             *)
(* A body that does not decode is answered 400 and changes nothing; it is  *)
(* left out.                                                               *)
(***************************************************************************)
EXTENDS Integers, FiniteSets

CONSTANTS
  Backend,     \* "memory" or "pg"
  Logins,      \* POST /auth/login requests
  Credentials, \* Credentials[l]: [name, pass] a login presents
  Edits,       \* requests with a token
  Names,       \* user names edits use
  Passwords,   \* passwords edits use
  TooLong,     \* passwords of more than 72 bytes
  Seed,        \* SEED_OWNER_USERNAME and _PASSWORD: [name, pass]
  Expiry,      \* JWT_EXPIRY, in units of the clock
  MaxUsers,    \* bound: accounts ever created
  MaxTime      \* bound: the clock stops here

Empty == ""  \* Go's zero string
Roles == {"viewer", "operator", "owner"}
Ids == 1..MaxUsers
Requests == Logins \cup Edits

ASSUME AccountsAssumption ==
  /\ Backend \in {"memory", "pg"}
  /\ MaxUsers \in Nat /\ MaxTime \in Nat
  /\ Expiry \in Nat \ {0}
  /\ Logins \cap Edits = {}

VARIABLES
  tenant,    \* the default tenant exists
  users,     \* users[id]: an account, or NoUser
  lastId,    \* ids given out so far (uuid.NewString never repeats one)
  clock,
  pc,
  loaded,    \* the copy a login or an update has read: [id, user]
  token,     \* the claims a login has been given, or NoToken
  acting,    \* the login whose token a request has been admitted with
  reply,     \* HTTP status of the answer, 0 before
  edited,    \* history: an edit has changed the table
  erred,     \* history: logins that met a store error
  lost       \* history: lost[u][role]: when account u ceased to have a role

table == <<tenant, users, lastId>>
history == <<edited, erred>>
vars == <<table, clock, pc, loaded, token, acting, reply, history, lost>>

User == [name : Names \cup {Seed.name}, pass : Passwords \cup {Seed.pass},
         role : Roles]
NoUser == [name |-> Empty, pass |-> Empty, role |-> Empty]
Live == {u \in Ids : users[u] # NoUser}
Claims == [id : Ids, role : Roles, exp : Nat]
NoToken == [id |-> 0, role |-> Empty, exp |-> 0]

Init ==
  /\ tenant = FALSE
  /\ users = [u \in Ids |-> NoUser]
  /\ lastId = 0
  /\ clock = 0
  /\ pc = [r \in Requests |-> IF r \in Logins THEN "list" ELSE "gate"]
  /\ loaded = [r \in Requests |-> [id |-> 0, user |-> NoUser]]
  /\ token = [l \in Logins |-> NoToken]
  /\ acting = [e \in Edits |-> "none"]
  /\ reply = [r \in Requests |-> 0]
  /\ edited = FALSE
  /\ erred = {}
  /\ lost = [u \in Ids |-> [role \in Roles |-> -Expiry]]

Tick ==
  /\ clock < MaxTime
  /\ clock' = clock + 1
  /\ UNCHANGED <<table, pc, loaded, token, acting, reply, history>>

-----------------------------------------------------------------------------
(* The store.  PostgreSQL may fail at any time, its users refer to a tenant
   and their names are unique within it; the memory store checks neither. *)
MayFail == Backend = "pg"

(* The answer to a statement that was executed: its error may come after the
   commit. *)
Codes(code) == {code} \cup (IF MayFail THEN {500} ELSE {})

NameFree(n, u) == \A v \in Live \ {u} : users[v].name # n

Accepts(n, u) == Backend = "pg" => tenant /\ NameFree(n, u)

(* CreateUser with a fresh id. *)
Insert(user) ==
  /\ lastId < MaxUsers
  /\ users' = [users EXCEPT ![lastId + 1] = user]
  /\ lastId' = lastId + 1

(* bcrypt.GenerateFromPassword refuses a password of more than 72 bytes. *)
Hashable(pass) == pass \notin TooLong

Goto(r, l) == pc' = [pc EXCEPT ![r] = l]
Answer(r, code) ==
  /\ reply' = [reply EXCEPT ![r] = code]
  /\ Goto(r, "done")
StoreError(r) ==
  /\ MayFail
  /\ erred' = erred \cup {r}

-----------------------------------------------------------------------------
(* handleLogin: ensureSeed ignores every error it meets. *)

ListUsers(l) ==
  /\ pc[l] = "list"
  /\ \/ /\ Goto(l, IF Live = {} THEN "tenant" ELSE "lookup")
        /\ UNCHANGED erred
     \/ /\ StoreError(l)
        /\ Goto(l, "lookup")
  /\ UNCHANGED <<table, clock, loaded, token, acting, reply, edited>>

MutTenantMeansSeeded(l) ==
  /\ pc[l] = "tenant"
  /\ Goto(l, IF tenant THEN "lookup" ELSE "mktenant")
  /\ UNCHANGED <<table, clock, loaded, token, acting, reply, history>>

GetTenant(l) ==
  /\ pc[l] = "tenant"
  /\ \/ /\ Goto(l, IF tenant THEN "seed" ELSE "mktenant")
        /\ UNCHANGED erred
     \/ /\ StoreError(l)
        /\ Goto(l, "mktenant")
  /\ UNCHANGED <<table, clock, loaded, token, acting, reply, edited>>

(* CreateTenant: creates it, finds it there already, or fails. *)
CreateTenant(l) ==
  /\ pc[l] = "mktenant"
  /\ \/ /\ tenant' = TRUE
        /\ UNCHANGED erred
     \/ /\ StoreError(l)
        /\ UNCHANGED tenant
  /\ Goto(l, "seed")
  /\ UNCHANGED <<users, lastId, clock, loaded, token, acting, reply, edited>>

Owner == [name |-> Seed.name, pass |-> Seed.pass, role |-> "owner"]

(* The seed account is inserted, unless its password has no hash; a constraint
   may reject it, because another login was first. *)
SeedOwner(l) ==
  /\ pc[l] = "seed"
  /\ \/ /\ Hashable(Seed.pass)
        /\ Accepts(Seed.name, 0)
        /\ Insert(Owner)
        /\ UNCHANGED erred
     \/ /\ ~Hashable(Seed.pass) \/ ~Accepts(Seed.name, 0)
        /\ UNCHANGED <<users, lastId, erred>>
     \/ /\ Hashable(Seed.pass)
        /\ StoreError(l)
        /\ UNCHANGED <<users, lastId>>
  /\ Goto(l, "lookup")
  /\ UNCHANGED <<tenant, clock, loaded, token, acting, reply, edited>>

(* GetUserByUsername and the password check.  With several accounts of one
   name the memory store returns any of them. *)
Lookup(l) ==
  /\ pc[l] = "lookup"
  /\ LET c == Credentials[l]
         found == {u \in Live : users[u].name = c.name}
     IN \/ /\ \E u \in found :
                IF users[u].pass = c.pass
                  THEN /\ loaded' = [loaded EXCEPT ![l] = [id |-> u, user |-> users[u]]]
                       /\ Goto(l, "issue")
                       /\ UNCHANGED reply
                  ELSE Answer(l, 401) /\ UNCHANGED loaded
           /\ UNCHANGED erred
        \/ /\ found = {}
           /\ Answer(l, 401)
           /\ UNCHANGED <<loaded, erred>>
        \/ /\ StoreError(l)
           /\ Answer(l, 401)
           /\ UNCHANGED loaded
  /\ UNCHANGED <<table, clock, token, acting, edited>>

(* Manager.Issue: the claims are those of the record read before. *)
Issue(l) ==
  /\ pc[l] = "issue"
  /\ token' = [token EXCEPT ![l] =
       [id |-> loaded[l].id, role |-> loaded[l].user.role, exp |-> clock + Expiry]]
  /\ Answer(l, 200)
  /\ UNCHANGED <<table, clock, loaded, acting, history>>

-----------------------------------------------------------------------------
(* The routes behind the two middlewares, and where a request goes then; the
   handlers of "other" are not about accounts. *)
Route(m, p, to) == [method |-> m, path |-> p, to |-> to]
Routes ==
  {Route("POST", "users", "create"), Route("PUT", "users", "load"),
   Route("DELETE", "users", "delete"), Route("GET", "users", "read"),
   Route("GET", "me", "me"), Route("POST", "tasks", "other"),
   Route("POST", "flows/run", "other"), Route("POST", "servers/test", "other")}

MutVerify(t) == t # NoToken

(* Manager.Verify *)
Verify(t) == t # NoToken /\ clock < t.exp

RequiredRole(method, path) ==
  IF method = "POST" /\ path \in {"tasks", "flows/run"} THEN "operator"
  ELSE IF method \in {"GET", "HEAD"} THEN "viewer"
  ELSE "owner"

roleRank(role) ==
  CASE role = "owner" -> 3 [] role = "operator" -> 2 [] role = "viewer" -> 1
    [] OTHER -> 0

Allowed(method, path, role) == roleRank(role) >= roleRank(RequiredRole(method, path))

(* Authenticator, then Authorizer. *)
Gate(e) ==
  /\ pc[e] = "gate"
  /\ \/ \E l \in Logins, r \in Routes :
          /\ Verify(token[l])
          /\ IF Allowed(r.method, r.path, token[l].role)
               THEN /\ acting' = [acting EXCEPT ![e] = l]
                    /\ IF r.to = "other" THEN Answer(e, 200)
                       ELSE Goto(e, r.to) /\ UNCHANGED reply
               ELSE Answer(e, 403) /\ UNCHANGED acting
     \/ /\ \E l \in Logins : ~Verify(token[l])
        /\ Answer(e, 401)
        /\ UNCHANGED acting
  /\ UNCHANGED <<table, clock, loaded, token, history>>

(* listUsers, getUser *)
ReadUsers(e) ==
  /\ pc[e] = "read"
  /\ \E code \in Codes(200) \cup {404} : Answer(e, code)
  /\ UNCHANGED <<table, clock, loaded, token, acting, history>>

(* handleMe: the account the token names may be gone. *)
Me(e) ==
  /\ pc[e] = "me"
  /\ \/ token[acting[e]].id \in Live /\ Answer(e, 200)
     \/ (token[acting[e]].id \notin Live \/ MayFail) /\ Answer(e, 401)
  /\ UNCHANGED <<table, clock, loaded, token, acting, history>>

-----------------------------------------------------------------------------
(* createUser: an unknown role becomes viewer. *)
CreateUser(e) ==
  /\ pc[e] = "create"
  /\ \E user \in [name : Names, pass : Passwords, role : Roles] :
       \/ /\ Hashable(user.pass)
          /\ Accepts(user.name, 0)
          /\ Insert(user)
          /\ edited' = TRUE
          /\ \E code \in Codes(201) : Answer(e, code)
       \/ /\ ~Hashable(user.pass) \/ ~Accepts(user.name, 0) \/ MayFail
          /\ Answer(e, 500)
          /\ UNCHANGED <<users, lastId, edited>>
  /\ UNCHANGED <<tenant, clock, loaded, token, acting, erred>>

(* updateUser, first half: GetUser. *)
LoadUser(e) ==
  /\ pc[e] = "load"
  /\ \/ \E u \in Live :
          /\ loaded' = [loaded EXCEPT ![e] = [id |-> u, user |-> users[u]]]
          /\ Goto(e, "update")
          /\ UNCHANGED reply
     \/ /\ Answer(e, 404)
        /\ UNCHANGED loaded
     \/ /\ MayFail
        /\ Answer(e, 500)
        /\ UNCHANGED loaded
  /\ UNCHANGED <<table, clock, token, acting, history>>

(* The copy with the fields the request names; an empty one is kept. *)
Merge(user, new) ==
  [f \in DOMAIN user |-> IF new[f] = Empty THEN user[f] ELSE new[f]]

MutUpsert(e) ==
  /\ pc[e] = "update"
  /\ \E new \in [name : Names \cup {Empty}, pass : Passwords \cup {Empty},
                 role : Roles \cup {Empty}] :
       users' = [users EXCEPT ![loaded[e].id] = Merge(loaded[e].user, new)]
  /\ edited' = TRUE
  /\ Answer(e, 200)
  /\ UNCHANGED <<tenant, lastId, clock, loaded, token, acting, erred>>

(* updateUser, second half: the whole record is written back. *)
UpdateUser(e) ==
  /\ pc[e] = "update"
  /\ \E new \in [name : Names \cup {Empty}, pass : Passwords \cup {Empty},
                 role : Roles \cup {Empty}] :
       LET u == loaded[e].id
           user == Merge(loaded[e].user, new)
       IN
       \/ /\ Hashable(new.pass)
          /\ u \in Live
          /\ Accepts(user.name, u)
          /\ users' = [users EXCEPT ![u] = user]
          /\ edited' = TRUE
          /\ \E code \in Codes(200) : Answer(e, code)
       \/ /\ Hashable(new.pass)
          /\ u \notin Live
          /\ Answer(e, 404)
          /\ UNCHANGED <<users, edited>>
       \/ /\ ~Hashable(new.pass) \/ MayFail
          /\ Answer(e, 500)
          /\ UNCHANGED <<users, edited>>
  /\ UNCHANGED <<tenant, lastId, clock, loaded, token, acting, erred>>

DeleteUser(e) ==
  /\ pc[e] = "delete"
  /\ \/ \E u \in Live :
          /\ users' = [users EXCEPT ![u] = NoUser]
          /\ edited' = TRUE
          /\ \E code \in Codes(204) : Answer(e, code)
     \/ /\ Answer(e, 404)
        /\ UNCHANGED <<users, edited>>
     \/ /\ MayFail
        /\ Answer(e, 500)
        /\ UNCHANGED <<users, edited>>
  /\ UNCHANGED <<tenant, lastId, clock, loaded, token, acting, erred>>

AllAnswered ==
  /\ \A r \in Requests : pc[r] = "done"
  /\ UNCHANGED <<table, clock, pc, loaded, token, acting, reply, history>>

-----------------------------------------------------------------------------
(* The roles an account has, or is about to get a token for. *)
Held(u) ==
  {users[u].role} \cup
  {loaded[l].user.role : l \in {k \in Logins : pc[k] = "issue" /\ loaded[k].id = u}}

RecordLosses ==
  lost' = [u \in Ids |-> [role \in Roles |->
             IF role \in Held(u) /\ role \notin Held(u)' THEN clock ELSE lost[u][role]]]

Step ==
  \/ Tick
  \/ \E l \in Logins : \/ ListUsers(l) \/ GetTenant(l) \/ CreateTenant(l)
                       \/ SeedOwner(l) \/ Lookup(l) \/ Issue(l)
  \/ \E e \in Edits : \/ Gate(e) \/ ReadUsers(e) \/ Me(e) \/ CreateUser(e)
                      \/ LoadUser(e) \/ UpdateUser(e) \/ DeleteUser(e)
  \/ AllAnswered

Next == Step /\ RecordLosses

Spec == Init /\ [][Next]_vars

-----------------------------------------------------------------------------
(* Every variable has its type; an id that was not given out has no user. *)
TypeOK ==
  /\ tenant \in BOOLEAN
  /\ users \in [Ids -> User \cup {NoUser}]
  /\ lastId \in 0..MaxUsers
  /\ \A u \in Live : u <= lastId
  /\ clock \in 0..MaxTime
  /\ pc \in [Requests -> {"list", "tenant", "mktenant", "seed", "lookup", "issue",
                          "gate", "read", "me", "create", "load", "update",
                          "delete", "done"}]
  /\ loaded \in [Requests -> [id : 0..MaxUsers, user : User \cup {NoUser}]]
  /\ token \in [Logins -> Claims \cup {NoToken}]
  /\ acting \in [Edits -> Logins \cup {"none"}]
  /\ reply \in [Requests -> {0, 200, 201, 204, 401, 403, 404, 500}]
  /\ edited \in BOOLEAN /\ erred \subseteq Logins
  /\ lost \in [Ids -> [Roles -> Int]]

(* The default credentials open the hub: whatever other first logins do at
   the same time, a login with them is only refused if the store failed
   under it, somebody has changed the accounts, or ensureSeed gave up because
   the configured password is too long to hash. *)
SeedLoginWorks ==
  \A l \in Logins :
    reply[l] = 401 /\ Credentials[l] = Seed =>
      l \in erred \/ edited \/ ~Hashable(Seed.pass)

(* A deleted account stays deleted: an update that read it before cannot
   bring it back. *)
NoResurrection ==
  [][\A u \in 1..lastId : users[u] = NoUser => users'[u] = NoUser]_vars

(* What the documents give a role: README.md:121-123, with which openapi.yaml
   agrees but for the reading of users.  The table gives that to viewers,
   openapi.yaml:419 and :452 and the comment at router.go:114 to owners only;
   the Authorizer does what the table says, and so does Documented. *)
Documented(role) ==
  {r \in Routes :
     \/ r.method = "GET"
     \/ role \in {"operator", "owner"} /\ r.method = "POST"
          /\ r.path \in {"tasks", "flows/run"}
     \/ role = "owner"}

(* A demoted or deleted user keeps rights no longer than a token lives: a
   request is admitted to a route only for an account that has, or had less
   than Expiry ago, a role that the README's table lists the route for. *)
RightsFollowRole ==
  [][\A e \in Edits : pc[e] = "gate" /\ acting'[e] # "none" =>
       LET u == token[acting'[e]].id IN
         \E r \in Routes, role \in Roles :
           /\ r.to = IF pc'[e] = "done" THEN "other" ELSE pc'[e]
           /\ r \in Documented(role)
           /\ role \in Held(u) \/ clock < lost[u][role] + Expiry]_vars
=============================================================================
