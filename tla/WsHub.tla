------------------------------- MODULE WsHub -------------------------------
(***************************************************************************)
(* The WebSocket hub and its connections.  Broadcast walks a room under    *)
(* the read lock and never blocks on a client; handleWS registers a        *)
(* client, greets it, starts a write pump, and serves the client's chat    *)
(* frames, each of which broadcasts to the tenant's room.                  *)
(*                                                                         *)
(* A message is who sent it, its number among the sender's messages and    *)
(* the room it is for, Everybody if none is given.  Token checks and the   *)
(* upgrade come before the first state; chatAgent is reduced to returning. *)
(***************************************************************************)
EXTENDS Naturals, Sequences

CONSTANTS
  Conns,     \* connections, each with its client
  TenantOf,  \* TenantOf[c]: the tenant in the connection's token
  Posts,     \* other handlers (createTask, runFlow) that broadcast once
  RoomOf,    \* RoomOf[p]: the tenant a post broadcasts to, or Everybody
  Buffer,    \* capacity of a client's send channel (64)
  Frames     \* bound: Frames[c] chat frames come from a connection

Everybody == ""  \* Broadcast with an empty tenant
Tenants == {TenantOf[c] : c \in Conns}
Senders == Conns \cup Posts

ASSUME HubAssumption ==
  /\ Conns \cap Posts = {}
  /\ Everybody \notin Tenants
  /\ \A p \in Posts : RoomOf[p] \in Tenants \cup {Everybody}
  /\ Buffer \in Nat \ {0}
  /\ Frames \in [Conns -> Nat]

VARIABLES
  clients,   \* Hub.clients
  byTenant,  \* Hub.byTenant
  send,      \* contents of each client's send channel
  closed,    \* the channel is closed
  left,      \* clients a Broadcast in progress has still to deliver to
  rlock,     \* senders inside Broadcast's read lock
  sent,      \* broadcasts each sender has begun
  pc,        \* where a connection's handler, or a post, is
  chats,     \* chat frames read from a connection
  pump,      \* a write pump: "off", "recv", "write", "exit"
  held,      \* the message the pump is writing, as a sequence
  sock,      \* "open", "broken" (the peer is gone), "closed" (by the handler)
  got        \* what the peer has received

hub == <<clients, byTenant, closed>>
wire == <<pump, held, sock, got>>
vars == <<hub, send, left, rlock, sent, pc, chats, wire>>

Init ==
  /\ clients = {}
  /\ byTenant = [t \in Tenants |-> {}]
  /\ send = [c \in Conns |-> <<>>]
  /\ closed = [c \in Conns |-> FALSE]
  /\ left = [a \in Senders |-> {}]
  /\ rlock = {}
  /\ sent = [a \in Senders |-> 0]
  /\ pc = [a \in Senders |-> IF a \in Conns THEN "register" ELSE "post"]
  /\ chats = [c \in Conns |-> 0]
  /\ pump = [c \in Conns |-> "off"]
  /\ held = [c \in Conns |-> <<>>]
  /\ sock = [c \in Conns |-> "open"]
  /\ got = [c \in Conns |-> <<>>]

Room(a) == IF a \in Conns THEN TenantOf[a] ELSE RoomOf[a]
Message(a) == [from |-> a, n |-> sent[a], room |-> Room(a)]

-----------------------------------------------------------------------------
(* Hub.  The write lock is free when no Broadcast holds the read lock; a
   critical section under the write lock is one step. *)
WriteLock == rlock = {}

MutPumpEarly(c) ==
  /\ pc[c] = "register"
  /\ WriteLock
  /\ clients' = clients \cup {c}
  /\ byTenant' = [byTenant EXCEPT ![TenantOf[c]] = @ \cup {c}]
  /\ pump' = [pump EXCEPT ![c] = "recv"]
  /\ pc' = [pc EXCEPT ![c] = "greet"]
  /\ UNCHANGED <<closed, send, left, rlock, sent, chats, held, sock, got>>

Register(c) ==
  /\ pc[c] = "register"
  /\ WriteLock
  /\ clients' = clients \cup {c}
  /\ byTenant' = [byTenant EXCEPT ![TenantOf[c]] = @ \cup {c}]
  /\ pc' = [pc EXCEPT ![c] = "greet"]
  /\ UNCHANGED <<closed, send, left, rlock, sent, chats, wire>>

MutDeregisterUnlocked(c) ==
  /\ pc[c] = "deregister"
  /\ clients' = clients \ {c}
  /\ byTenant' = [byTenant EXCEPT ![TenantOf[c]] = @ \ {c}]
  /\ closed' = [closed EXCEPT ![c] = TRUE]
  /\ pc' = [pc EXCEPT ![c] = "close"]
  /\ UNCHANGED <<send, left, rlock, sent, chats, wire>>

MutDeregisterKeepsChannel(c) ==
  /\ pc[c] = "deregister"
  /\ WriteLock
  /\ clients' = clients \ {c}
  /\ byTenant' = [byTenant EXCEPT ![TenantOf[c]] = @ \ {c}]
  /\ pc' = [pc EXCEPT ![c] = "close"]
  /\ UNCHANGED <<closed, send, left, rlock, sent, chats, wire>>

(* The deferred deregister: the client leaves both maps and its channel is
   closed, all under the write lock. *)
Deregister(c) ==
  /\ pc[c] = "deregister"
  /\ WriteLock
  /\ clients' = clients \ {c}
  /\ byTenant' = [byTenant EXCEPT ![TenantOf[c]] = @ \ {c}]
  /\ closed' = [closed EXCEPT ![c] = TRUE]
  /\ pc' = [pc EXCEPT ![c] = "close"]
  /\ UNCHANGED <<send, left, rlock, sent, chats, wire>>

MutRecipients(a) == clients

(* Who Broadcast walks over. *)
Recipients(a) == IF Room(a) = Everybody THEN clients ELSE byTenant[Room(a)]

(* The handler calls Broadcast and takes the read lock. *)
BeginBroadcast(a, during) ==
  /\ rlock' = rlock \cup {a}
  /\ left' = [left EXCEPT ![a] = Recipients(a)]
  /\ sent' = [sent EXCEPT ![a] = @ + 1]
  /\ pc' = [pc EXCEPT ![a] = during]
  /\ UNCHANGED <<hub, send, wire>>

(* select without default: a full buffer makes Broadcast wait. *)
MutDeliverBlocks(a, c) ==
  /\ a \in rlock
  /\ c \in left[a]
  /\ IF Len(send[c]) < Buffer
       THEN /\ left' = [left EXCEPT ![a] = @ \ {c}]
            /\ send' = [send EXCEPT ![c] = Append(@, Message(a))]
       ELSE UNCHANGED <<left, send>>
  /\ UNCHANGED <<hub, rlock, sent, pc, chats, wire>>

(* go deliver(...): the goroutine of a message may send before the one of the
   message queued last. *)
MutDeliverAsync(a, c) ==
  /\ a \in rlock
  /\ c \in left[a]
  /\ left' = [left EXCEPT ![a] = @ \ {c}]
  /\ LET q == send[c]
         overtaken == IF q = <<>> THEN 0 ELSE 1
     IN \E k \in {Len(q), Len(q) - overtaken} :
          send' = [send EXCEPT ![c] =
            IF Len(q) < Buffer
              THEN SubSeq(q, 1, k) \o <<Message(a)>> \o SubSeq(q, k + 1, Len(q))
              ELSE q]
  /\ UNCHANGED <<hub, rlock, sent, pc, chats, wire>>

(* deliver: one client of the walk, in any order; a full buffer drops. *)
Deliver(a, c) ==
  /\ a \in rlock
  /\ c \in left[a]
  /\ left' = [left EXCEPT ![a] = @ \ {c}]
  /\ send' = [send EXCEPT ![c] =
                IF Len(@) < Buffer THEN Append(@, Message(a)) ELSE @]
  /\ UNCHANGED <<hub, rlock, sent, pc, chats, wire>>

(* Where a sender goes on when Broadcast returns. *)
After == [echo |-> "agent", reply |-> "read", notice |-> "read", posting |-> "done"]

(* The walk is over; the lock is released. *)
EndBroadcast(a) ==
  /\ a \in rlock
  /\ left[a] = {}
  /\ rlock' = rlock \ {a}
  /\ pc' = [pc EXCEPT ![a] = After[pc[a]]]
  /\ UNCHANGED <<hub, send, left, sent, chats, wire>>

(* createTask or runFlow has a result. *)
Post(p) ==
  /\ pc[p] = "post"
  /\ BeginBroadcast(p, "posting")
  /\ UNCHANGED chats

-----------------------------------------------------------------------------
(* handleWS *)

(* The greeting has been written, or has failed, and the pump starts. *)
Greeted(c) ==
  /\ pc[c] = "greet"
  /\ pump' = [pump EXCEPT ![c] = "recv"]
  /\ pc' = [pc EXCEPT ![c] = "read"]
  /\ UNCHANGED <<hub, send, left, rlock, sent, chats, held, sock, got>>

(* ReadMessage returns a chat frame.  Without an agent to send it to, the
   room gets a notice; otherwise the user's turn is echoed.  Other frames
   are skipped. *)
ReadChat(c) ==
  /\ pc[c] = "read"
  /\ sock[c] # "closed"
  /\ chats[c] < Frames[c]
  /\ chats' = [chats EXCEPT ![c] = @ + 1]
  /\ \E during \in {"notice", "echo"} : BeginBroadcast(c, during)

(* chatAgent returns, by its deadline at the latest: the reply or the error
   is broadcast. *)
AgentReturns(c) ==
  /\ pc[c] = "agent"
  /\ BeginBroadcast(c, "reply")
  /\ UNCHANGED chats

(* ReadMessage fails: the deferred calls run, deregister first. *)
ReadFails(c) ==
  /\ pc[c] = "read"
  /\ sock[c] = "broken"
  /\ pc' = [pc EXCEPT ![c] = "deregister"]
  /\ UNCHANGED <<hub, send, left, rlock, sent, chats, wire>>

CloseConn(c) ==
  /\ pc[c] = "close"
  /\ sock' = [sock EXCEPT ![c] = "closed"]
  /\ pc' = [pc EXCEPT ![c] = "done"]
  /\ UNCHANGED <<hub, send, left, rlock, sent, chats, pump, held, got>>

(* The peer disconnects, with data the handler has not read still to come. *)
Disconnect(c) ==
  /\ sock[c] = "open"
  /\ sock' = [sock EXCEPT ![c] = "broken"]
  /\ UNCHANGED <<hub, send, left, rlock, sent, pc, chats, pump, held, got>>

-----------------------------------------------------------------------------
(* The write pump *)

PumpRecv(c) ==
  /\ pump[c] = "recv"
  /\ send[c] # <<>>
  /\ held' = [held EXCEPT ![c] = <<Head(send[c])>>]
  /\ send' = [send EXCEPT ![c] = Tail(@)]
  /\ pump' = [pump EXCEPT ![c] = "write"]
  /\ UNCHANGED <<hub, left, rlock, sent, pc, chats, sock, got>>

(* range over a closed and drained channel ends. *)
PumpEnds(c) ==
  /\ pump[c] = "recv"
  /\ send[c] = <<>>
  /\ closed[c]
  /\ pump' = [pump EXCEPT ![c] = "exit"]
  /\ UNCHANGED <<hub, send, left, rlock, sent, pc, chats, held, sock, got>>

(* WriteMessage succeeds; a broken socket may still take the bytes. *)
PumpWrote(c) ==
  /\ pump[c] = "write"
  /\ sock[c] # "closed"
  /\ got' = [got EXCEPT ![c] = IF sock[c] = "open" THEN @ \o held[c] ELSE @]
  /\ held' = [held EXCEPT ![c] = <<>>]
  /\ pump' = [pump EXCEPT ![c] = "recv"]
  /\ UNCHANGED <<hub, send, left, rlock, sent, pc, chats, sock>>

(* WriteMessage fails: the pump returns, the client stays registered. *)
PumpFails(c) ==
  /\ pump[c] = "write"
  /\ sock[c] # "open"
  /\ held' = [held EXCEPT ![c] = <<>>]
  /\ pump' = [pump EXCEPT ![c] = "exit"]
  /\ UNCHANGED <<hub, send, left, rlock, sent, pc, chats, sock, got>>

Quiet ==
  /\ \A c \in Conns : pc[c] \in {"read", "done"} /\ pump[c] \in {"recv", "exit"}
  /\ \A p \in Posts : pc[p] = "done"
  /\ UNCHANGED vars

-----------------------------------------------------------------------------
Walk(a) == (\E c \in Conns : Deliver(a, c)) \/ EndBroadcast(a)

Handler(c) ==
  \/ Register(c) \/ Greeted(c) \/ AgentReturns(c) \/ ReadFails(c)
  \/ Deregister(c) \/ CloseConn(c)

Next ==
  \/ \E a \in Senders : Walk(a)
  \/ \E p \in Posts : Post(p)
  \/ \E c \in Conns :
       \/ Handler(c) \/ ReadChat(c) \/ Disconnect(c)
       \/ PumpRecv(c) \/ PumpEnds(c) \/ PumpWrote(c) \/ PumpFails(c)
  \/ Quiet

Spec == Init /\ [][Next]_vars

(* Goroutines run.  A peer need not disconnect, send, or ever take what the
   pump writes to it; a write to a socket that is not open ends. *)
FairSpec ==
  /\ Spec
  /\ \A a \in Senders : WF_vars(Walk(a))
  /\ \A c \in Conns :
       /\ WF_vars(Handler(c))
       /\ WF_vars(PumpRecv(c) \/ PumpEnds(c) \/ PumpFails(c))

-----------------------------------------------------------------------------
Messages == [from : Senders, n : Nat, room : Tenants \cup {Everybody}]

(* Every variable has its type; no channel holds more than its capacity. *)
TypeOK ==
  /\ clients \subseteq Conns
  /\ byTenant \in [Tenants -> SUBSET Conns]
  /\ send \in [Conns -> Seq(Messages)]
  /\ \A c \in Conns : Len(send[c]) <= Buffer
  /\ closed \in [Conns -> BOOLEAN]
  /\ left \in [Senders -> SUBSET Conns]
  /\ rlock \subseteq Senders
  /\ sent \in [Senders -> Nat]
  /\ pc \in [Senders -> {"register", "greet", "read", "echo", "notice", "agent",
                         "reply", "deregister", "close", "post", "posting",
                         "done"}]
  /\ chats \in [Conns -> Nat]
  /\ pump \in [Conns -> {"off", "recv", "write", "exit"}]
  /\ held \in [Conns -> Seq(Messages)] /\ got \in [Conns -> Seq(Messages)]
  /\ sock \in [Conns -> {"open", "broken", "closed"}]

(* A Broadcast never meets a closed channel (Go panics): deregister cannot
   run between the choice of the recipients and the last delivery. *)
NoSendOnClosed ==
  \A a \in Senders : \A c \in left[a] : c \in clients /\ ~closed[c]

(* A socket has one writer at a time, which gorilla/websocket requires: the
   greeting is out before the pump writes. *)
OneWriter == \A c \in Conns : ~(pc[c] = "greet" /\ pump[c] = "write")

(* All a client was ever given that has not been dropped. *)
Stream(c) == got[c] \o held[c] \o send[c]

(* Messages of one sender reach each client in the order they were sent,
   with drops but without repetition: no client sees a reply before the turn
   it answers, whatever other broadcasts run. *)
SenderOrder ==
  \A c \in Conns : \A i, j \in DOMAIN Stream(c) :
    i < j /\ Stream(c)[i].from = Stream(c)[j].from
      => Stream(c)[i].n < Stream(c)[j].n

(* A client is only given messages for its own tenant's room or for all. *)
RoomsSeparate ==
  \A c \in Conns : \A i \in DOMAIN Stream(c) :
    Stream(c)[i].room \in {TenantOf[c], Everybody}

(* Broadcast returns even if the peer of some client never reads. *)
BroadcastReturns == \A a \in Senders : (a \in rlock) ~> (a \notin rlock)

(* Once the peer is gone the client leaves the hub and both goroutines of
   the connection end, even if the handler was inside a chat turn. *)
DisconnectCleansUp ==
  \A c \in Conns :
    (sock[c] = "broken") ~>
      (c \notin clients /\ pc[c] = "done" /\ pump[c] = "exit")
=============================================================================
