---------------------------- MODULE WsHubProofs ----------------------------
(***************************************************************************)
(* Theorems about the WebSocket hub, for any number of connections,        *)
(* tenants, broadcasts and chat frames and any buffer size.                *)
(***************************************************************************)
EXTENDS WsHub, SequenceTheorems, TLAPS

USE HubAssumption

-----------------------------------------------------------------------------
(* The inductive invariant. *)

Broadcasting == {"echo", "reply", "notice", "posting"}

(* A sender is inside Broadcast exactly while it holds the read lock, and
   then it has left only clients of its room. *)
Walks ==
  \A a \in Senders :
    /\ a \in rlock <=> pc[a] \in Broadcasting
    /\ left[a] \subseteq Recipients(a)
    /\ a \notin rlock => left[a] = {}

(* Where a connection's handler is says whether the client is in the maps,
   its channel closed and its pump started. *)
Registered ==
  /\ \A c \in Conns :
       /\ c \in clients <=> pc[c] \notin {"register", "close", "done"}
       /\ closed[c] => pc[c] \in {"close", "done"}
       /\ pc[c] \notin {"post", "posting"}
       /\ pump[c] # "off" => pc[c] \notin {"register", "greet"}
       /\ pump[c] # "write" => held[c] = <<>>
  /\ \A t \in Tenants : \A c \in byTenant[t] : c \in clients /\ TenantOf[c] = t

(* What a client's stream holds is for it, and is older than what a
   broadcast in progress has still to give it. *)
Fits(s, c) ==
  \A i \in DOMAIN s :
    /\ s[i].room \in {TenantOf[c], Everybody}
    /\ s[i].n <= sent[s[i].from]
    /\ c \in left[s[i].from] => s[i].n < sent[s[i].from]

Ordered(s) ==
  \A i, j \in DOMAIN s : i < j /\ s[i].from = s[j].from => s[i].n < s[j].n

Streams == \A c \in Conns : Fits(Stream(c), c) /\ Ordered(Stream(c))

WsInv ==
  /\ TypeOK
  /\ Walks
  /\ Registered
  /\ Streams

-----------------------------------------------------------------------------
(* Streams. *)

LEMMA ThreeParts ==
  ASSUME NEW S, NEW g \in Seq(S), NEW h \in Seq(S), NEW t \in Seq(S)
  PROVE  /\ g \o h \o t \in Seq(S)
         /\ Len(g \o h \o t) = Len(g) + Len(h) + Len(t)
         /\ \A i \in 1..(Len(g) + Len(h) + Len(t)) :
              (g \o h \o t)[i] = IF i <= Len(g) THEN g[i]
                                 ELSE IF i <= Len(g) + Len(h) THEN h[i - Len(g)]
                                 ELSE t[i - Len(g) - Len(h)]
<1>1. /\ g \o h \in Seq(S) /\ Len(g \o h) = Len(g) + Len(h)
      /\ \A i \in 1..(Len(g) + Len(h)) :
           (g \o h)[i] = IF i <= Len(g) THEN g[i] ELSE h[i - Len(g)]
  BY ConcatProperties
<1>2. /\ (g \o h) \o t \in Seq(S) /\ Len((g \o h) \o t) = Len(g \o h) + Len(t)
      /\ \A i \in 1..(Len(g \o h) + Len(t)) :
           ((g \o h) \o t)[i] = IF i <= Len(g \o h) THEN (g \o h)[i]
                                ELSE t[i - Len(g \o h)]
  BY <1>1, ConcatProperties
<1>3. Len(g) \in Nat /\ Len(h) \in Nat /\ Len(t) \in Nat
  OBVIOUS
<1>4. QED
  BY <1>1, <1>2, <1>3

Within(r, s) == \A i \in DOMAIN r : \E j \in DOMAIN s : r[i] = s[j]

(* The middle part is dropped: the rest keeps its order. *)
LEMMA Thinned ==
  ASSUME NEW S, NEW g \in Seq(S), NEW h \in Seq(S), NEW t \in Seq(S),
         NEW old, old = g \o h \o t, NEW new, new = g \o t
  PROVE  /\ Ordered(old) => Ordered(new)
         /\ Within(new, old)
<1> DEFINE f == [i \in DOMAIN new |-> IF i <= Len(g) THEN i ELSE i + Len(h)]
<1>1. /\ old \in Seq(S) /\ Len(old) = Len(g) + Len(h) + Len(t)
      /\ \A i \in 1..(Len(g) + Len(h) + Len(t)) :
           old[i] = IF i <= Len(g) THEN g[i]
                    ELSE IF i <= Len(g) + Len(h) THEN h[i - Len(g)]
                    ELSE t[i - Len(g) - Len(h)]
  BY ThreeParts
<1>3. /\ new \in Seq(S) /\ Len(new) = Len(g) + Len(t)
      /\ \A i \in 1..(Len(g) + Len(t)) :
           new[i] = IF i <= Len(g) THEN g[i] ELSE t[i - Len(g)]
  BY ConcatProperties
<1>4. Len(g) \in Nat /\ Len(h) \in Nat /\ Len(t) \in Nat
  OBVIOUS
<1>5. DOMAIN old = 1..(Len(g) + Len(h) + Len(t)) /\ DOMAIN new = 1..(Len(g) + Len(t))
  BY <1>1, <1>3, <1>4
<1>6. f \in [DOMAIN new -> DOMAIN old]
  BY <1>4, <1>5
<1>7. \A i, j \in DOMAIN new : i < j => f[i] < f[j]
  BY <1>4, <1>5
<1>8. ASSUME NEW i \in DOMAIN new PROVE new[i] = old[f[i]]
  <2>1. i \in 1..(Len(g) + Len(t)) /\ i \in Nat
    BY <1>4, <1>5
  <2>2. CASE i <= Len(g)
    <3>1. new[i] = g[i]
      BY <1>3, <1>4, <2>1, <2>2
    <3>2. old[i] = g[i]
      BY <1>1, <1>4, <2>1, <2>2
    <3>3. QED
      BY <2>2, <3>1, <3>2
  <2>3. CASE ~(i <= Len(g))
    <3>1. new[i] = t[i - Len(g)]
      BY <1>3, <1>4, <2>1, <2>3
    <3>2. /\ i + Len(h) \in 1..(Len(g) + Len(h) + Len(t))
          /\ ~(i + Len(h) <= Len(g)) /\ ~(i + Len(h) <= Len(g) + Len(h))
          /\ (i + Len(h)) - Len(g) - Len(h) = i - Len(g)
      BY <1>4, <2>1, <2>3
    <3>3. old[i + Len(h)] = t[i - Len(g)]
      BY <1>1, <3>2
    <3>4. f[i] = i + Len(h)
      BY <2>3
    <3>5. QED
      BY <3>1, <3>3, <3>4
  <2>4. QED
    BY <2>2, <2>3
<1>9. QED
  <2> HIDE DEF f
  <2>1. Ordered(old) => Ordered(new)
    <3> SUFFICES ASSUME Ordered(old), NEW i \in DOMAIN new, NEW j \in DOMAIN new,
                        i < j, new[i].from = new[j].from
                 PROVE  new[i].n < new[j].n
      BY DEF Ordered
    <3>1. f[i] \in DOMAIN old /\ f[j] \in DOMAIN old /\ f[i] < f[j]
      BY <1>6, <1>7
    <3>2. QED
      BY <1>8, <3>1 DEF Ordered
  <2>2. QED
    BY <1>6, <1>8, <2>1 DEF Within

LEMMA StreamType ==
  ASSUME TypeOK, NEW c \in Conns
  PROVE  /\ got[c] \in Seq(Messages) /\ held[c] \in Seq(Messages)
         /\ send[c] \in Seq(Messages) /\ Stream(c) \in Seq(Messages)
<1>1. got[c] \in Seq(Messages) /\ held[c] \in Seq(Messages) /\ send[c] \in Seq(Messages)
  BY DEF TypeOK
<1>2. QED
  BY <1>1, ThreeParts DEF Stream

(* A step that takes a message out of a channel, or out of the pump's hand
   into the socket, leaves the stream as it is. *)
LEMMA TakeSame ==
  ASSUME NEW S, NEW g \in Seq(S), NEW t \in Seq(S), t # <<>>
  PROVE  g \o <<Head(t)>> \o Tail(t) = g \o <<>> \o t
<1>1. Head(t) \in S /\ Tail(t) \in Seq(S) /\ <<Head(t)>> \in Seq(S) /\ <<>> \in Seq(S)
  OBVIOUS
<1>2. <<Head(t)>> \o Tail(t) = t
  BY <1>1
<1>3. g \o <<Head(t)>> \o Tail(t) = g \o (<<Head(t)>> \o Tail(t))
  BY <1>1, ConcatAssociative
<1>4. g \o <<>> = g
  BY ConcatEmptySeq
<1>5. QED
  BY <1>2, <1>3, <1>4

-----------------------------------------------------------------------------
(* What a step does to the streams. *)

(* Numbers only grow; a broadcast that goes on has fewer clients left. *)
Aging ==
  \A b \in Senders :
    \/ sent'[b] = sent[b] /\ left'[b] \subseteq left[b]
    \/ sent'[b] = sent[b] + 1

FitsNext(s, c) ==
  \A i \in DOMAIN s :
    /\ s[i].room \in {TenantOf[c], Everybody}
    /\ s[i].n <= sent'[s[i].from]
    /\ c \in left'[s[i].from] => s[i].n < sent'[s[i].from]

LEMMA FitsAges ==
  ASSUME TypeOK, TypeOK', Aging, NEW c \in Conns, NEW s \in Seq(Messages), Fits(s, c)
  PROVE  FitsNext(s, c)
<1> SUFFICES ASSUME NEW i \in DOMAIN s
             PROVE  /\ s[i].room \in {TenantOf[c], Everybody}
                    /\ s[i].n <= sent'[s[i].from]
                    /\ c \in left'[s[i].from] => s[i].n < sent'[s[i].from]
  BY DEF FitsNext
<1>1. s[i] \in Messages
  OBVIOUS
<1>2. s[i].from \in Senders /\ s[i].n \in Nat
  BY <1>1 DEF Messages
<1>3. sent[s[i].from] \in Nat /\ sent'[s[i].from] \in Nat
  BY <1>2 DEF TypeOK
<1>4. QED
  BY <1>2, <1>3 DEF Fits, Aging

Good(s, c) == Ordered(s) /\ FitsNext(s, c)

LEMMA KeptGood ==
  ASSUME WsInv, TypeOK', Aging, NEW c \in Conns
  PROVE  Good(Stream(c), c)
<1>1. TypeOK /\ Fits(Stream(c), c) /\ Ordered(Stream(c)) /\ Stream(c) \in Seq(Messages)
  BY StreamType DEF WsInv, Streams
<1>2. QED
  BY <1>1, FitsAges DEF Good

LEMMA DroppedGood ==
  ASSUME WsInv, TypeOK', Aging, NEW c \in Conns
  PROVE  Good(got[c] \o send[c], c)
<1> DEFINE g == got[c]
           h == held[c]
           t == send[c]
<1>1. Good(g \o h \o t, c)
  BY KeptGood DEF Stream
<1>2. g \in Seq(Messages) /\ h \in Seq(Messages) /\ t \in Seq(Messages)
  BY StreamType DEF WsInv
<1> HIDE DEF g, h, t
<1>3. Ordered(g \o t)
  BY <1>1, <1>2, Thinned DEF Good
<1>4. Within(g \o t, g \o h \o t)
  BY <1>2, Thinned
<1>5. \A old, new : FitsNext(old, c) /\ Within(new, old) => FitsNext(new, c)
  BY DEF FitsNext, Within
<1>6. QED
  BY <1>1, <1>3, <1>4, <1>5 DEF Good, g, t

(* Deliver appends the newest message of a broadcast. *)
LEMMA GrownGood ==
  ASSUME WsInv, TypeOK', Aging, NEW c \in Conns, NEW a \in Senders,
         c \in left[a], c \notin left'[a], sent'[a] = sent[a]
  PROVE  Good(Append(Stream(c), Message(a)), c)
<1> DEFINE s == Stream(c)
           m == Message(a)
           r == Append(s, m)
<1>1. TypeOK /\ s \in Seq(Messages) /\ Good(s, c) /\ Fits(s, c)
  BY KeptGood, StreamType DEF WsInv, Streams
<1>2. /\ m.from = a /\ m.n = sent[a] /\ m.room = Room(a)
  BY DEF Message
<1>3. m.room \in {TenantOf[c], Everybody} /\ m \in Messages
  <2>1. c \in Recipients(a)
    BY DEF WsInv, Walks
  <2>2. Room(a) \in Tenants \cup {Everybody}
    BY DEF Room, Senders, Tenants
  <2>3. Room(a) # Everybody => TenantOf[c] = Room(a)
    BY <2>1, <2>2 DEF Recipients, WsInv, Registered
  <2>4. sent[a] \in Nat
    BY <1>1 DEF TypeOK
  <2>5. QED
    BY <1>2, <2>2, <2>3, <2>4 DEF Message, Messages
<1> HIDE DEF s, m
<1>4. /\ r \in Seq(Messages) /\ Len(r) = Len(s) + 1 /\ Len(s) \in Nat
      /\ DOMAIN r = 1..(Len(s) + 1) /\ DOMAIN s = 1..Len(s)
      /\ r[Len(s) + 1] = m /\ \A i \in 1..Len(s) : r[i] = s[i]
  BY <1>1, <1>3
<1> HIDE DEF r
<1>5. \A i \in DOMAIN s : s[i].from = a => s[i].n < m.n
  BY <1>1, <1>2 DEF Fits
<1>6. Ordered(r)
  <2> SUFFICES ASSUME NEW i \in DOMAIN r, NEW j \in DOMAIN r, i < j, r[i].from = r[j].from
               PROVE  r[i].n < r[j].n
    BY DEF Ordered
  <2>1. i \in DOMAIN s /\ r[i] = s[i]
    BY <1>4
  <2>2. CASE j = Len(s) + 1
    BY <1>2, <1>4, <1>5, <2>1, <2>2
  <2>3. CASE j # Len(s) + 1
    <3>1. j \in DOMAIN s /\ r[j] = s[j]
      BY <1>4, <2>3
    <3>2. QED
      BY <1>1, <2>1, <3>1 DEF Good, Ordered
  <2>4. QED
    BY <2>2, <2>3
<1>7. FitsNext(r, c)
  <2> SUFFICES ASSUME NEW i \in DOMAIN r
               PROVE  /\ r[i].room \in {TenantOf[c], Everybody}
                      /\ r[i].n <= sent'[r[i].from]
                      /\ c \in left'[r[i].from] => r[i].n < sent'[r[i].from]
    BY DEF FitsNext
  <2>1. CASE i = Len(s) + 1
    <3>1. sent[a] \in Nat
      BY <1>1 DEF TypeOK
    <3>2. QED
      BY <1>2, <1>3, <1>4, <2>1, <3>1
  <2>2. CASE i # Len(s) + 1
    <3>1. i \in DOMAIN s /\ r[i] = s[i]
      BY <1>4, <2>2
    <3>2. QED
      BY <1>1, <3>1 DEF Good, FitsNext
  <2>3. QED
    BY <2>1, <2>2
<1>8. QED
  BY <1>6, <1>7 DEF Good, r, s, m



-----------------------------------------------------------------------------
(* The steps. *)

LEMMA AppendLast ==
  ASSUME NEW S, NEW g \in Seq(S), NEW h \in Seq(S), NEW t \in Seq(S), NEW m \in S
  PROVE  g \o h \o Append(t, m) = Append(g \o h \o t, m)
<1>1. <<m>> \in Seq(S) /\ g \o h \in Seq(S) /\ (g \o h) \o t \in Seq(S)
  BY ConcatProperties
<1>2. Append(t, m) = t \o <<m>> /\ Append(g \o h \o t, m) = ((g \o h) \o t) \o <<m>>
  BY <1>1, AppendIsConcat
<1>3. QED
  BY <1>1, <1>2, ConcatAssociative

LEMMA StreamsNext ==
  ASSUME \A c \in Conns : Good(got'[c] \o held'[c] \o send'[c], c)
  PROVE  Streams'
  BY DEF Streams, Stream, Good, Fits, FitsNext

LEMMA StreamsKept ==
  ASSUME WsInv, TypeOK', Aging, UNCHANGED <<send, held, got>>
  PROVE  Streams'
  BY KeptGood, StreamsNext DEF Stream

LEMMA RegisterInv ==
  ASSUME WsInv, NEW c \in Conns, Register(c)
  PROVE  WsInv'
<1>0. TypeOK /\ Walks /\ Registered
  BY DEF WsInv
<1>1. TypeOK'
  BY <1>0 DEF TypeOK, Senders, Register, WriteLock, wire
<1>2. Walks'
  BY <1>0 DEF TypeOK, Walks, Broadcasting, Recipients, Senders, Register, WriteLock, wire
<1>3. Registered'
  <2>1. TenantOf[c] \in Tenants
    BY DEF Tenants
  <2>2. QED
    BY <1>0, <2>1 DEF TypeOK, Registered, Senders, Register, WriteLock, wire
<1>4. Aging
  BY <1>0 DEF TypeOK, Aging, Register, WriteLock, wire
<1>5. Streams'
  BY <1>1, <1>4, StreamsKept DEF Register, WriteLock, wire
<1>6. QED
  BY <1>1, <1>2, <1>3, <1>5 DEF WsInv

LEMMA RecipientsType ==
  ASSUME TypeOK, NEW a \in Senders
  PROVE  Recipients(a) \subseteq Conns
<1>1. Room(a) \in Tenants \cup {Everybody}
  BY DEF Room, Senders, Tenants
<1>2. QED
  BY <1>1 DEF Recipients, TypeOK

LEMMA DeregisterInv ==
  ASSUME WsInv, NEW c \in Conns, Deregister(c)
  PROVE  WsInv'
<1>0. TypeOK /\ Walks /\ Registered
  BY DEF WsInv
<1>1. TypeOK'
  BY <1>0 DEF TypeOK, Senders, Deregister, WriteLock, wire
<1>2. Walks'
  BY <1>0 DEF TypeOK, Walks, Broadcasting, Recipients, Senders, Deregister, WriteLock, wire
<1>3. Registered'
  BY <1>0 DEF TypeOK, Registered, Senders, Deregister, WriteLock, wire
<1>4. Aging
  BY <1>0 DEF TypeOK, Aging, Deregister, WriteLock, wire
<1>5. Streams'
  BY <1>1, <1>4, StreamsKept DEF Deregister, WriteLock, wire
<1>6. QED
  BY <1>1, <1>2, <1>3, <1>5 DEF WsInv

LEMMA PostInv ==
  ASSUME WsInv, NEW p \in Posts, Post(p)
  PROVE  WsInv'
<1>0. TypeOK /\ Walks /\ Registered
  BY DEF WsInv
<1>1. TypeOK'
  BY <1>0, RecipientsType DEF TypeOK, Senders, Post, BeginBroadcast, hub, wire
<1>2. Walks'
  BY <1>0 DEF TypeOK, Walks, Broadcasting, Recipients, Senders, Post, BeginBroadcast, hub, wire
<1>3. Registered'
  BY <1>0 DEF TypeOK, Registered, Senders, Post, BeginBroadcast, hub, wire
<1>4. Aging
  BY <1>0 DEF TypeOK, Aging, Post, BeginBroadcast, hub, wire
<1>5. Streams'
  BY <1>1, <1>4, StreamsKept DEF Post, BeginBroadcast, hub, wire
<1>6. QED
  BY <1>1, <1>2, <1>3, <1>5 DEF WsInv

LEMMA ReadChatInv ==
  ASSUME WsInv, NEW c \in Conns, ReadChat(c)
  PROVE  WsInv'
<1>0. TypeOK /\ Walks /\ Registered
  BY DEF WsInv
<1>1. TypeOK'
  BY <1>0, RecipientsType DEF TypeOK, Senders, ReadChat, BeginBroadcast, hub, wire
<1>2. Walks'
  BY <1>0 DEF TypeOK, Walks, Broadcasting, Recipients, Senders, ReadChat, BeginBroadcast, hub,
     wire
<1>3. Registered'
  BY <1>0 DEF TypeOK, Registered, Senders, ReadChat, BeginBroadcast, hub, wire
<1>4. Aging
  BY <1>0 DEF TypeOK, Aging, ReadChat, BeginBroadcast, hub, wire
<1>5. Streams'
  BY <1>1, <1>4, StreamsKept DEF ReadChat, BeginBroadcast, hub, wire
<1>6. QED
  BY <1>1, <1>2, <1>3, <1>5 DEF WsInv

LEMMA AgentReturnsInv ==
  ASSUME WsInv, NEW c \in Conns, AgentReturns(c)
  PROVE  WsInv'
<1>0. TypeOK /\ Walks /\ Registered
  BY DEF WsInv
<1>1. TypeOK'
  BY <1>0, RecipientsType DEF TypeOK, Senders, AgentReturns, BeginBroadcast, hub, wire
<1>2. Walks'
  BY <1>0 DEF TypeOK, Walks, Broadcasting, Recipients, Senders, AgentReturns, BeginBroadcast,
     hub, wire
<1>3. Registered'
  BY <1>0 DEF TypeOK, Registered, Senders, AgentReturns, BeginBroadcast, hub, wire
<1>4. Aging
  BY <1>0 DEF TypeOK, Aging, AgentReturns, BeginBroadcast, hub, wire
<1>5. Streams'
  BY <1>1, <1>4, StreamsKept DEF AgentReturns, BeginBroadcast, hub, wire
<1>6. QED
  BY <1>1, <1>2, <1>3, <1>5 DEF WsInv

LEMMA EndBroadcastInv ==
  ASSUME WsInv, NEW a \in Senders, EndBroadcast(a)
  PROVE  WsInv'
<1>0. TypeOK /\ Walks /\ Registered
  BY DEF WsInv
<1>a. pc[a] \in Broadcasting /\ pc[a] \in {"echo", "reply", "notice", "posting"}
  BY <1>0 DEF Walks, EndBroadcast, Broadcasting
<1>b. /\ After[pc[a]] \in {"agent", "read", "done"}
      /\ a \in Conns => After[pc[a]] \in {"agent", "read"}
  <2>1. a \in Conns => pc[a] # "posting"
    BY <1>0 DEF Registered
  <2>2. /\ After["echo"] = "agent" /\ After["reply"] = "read" /\ After["notice"] = "read"
        /\ After["posting"] = "done"
    BY DEF After
  <2>3. QED
    BY <1>a, <2>1, <2>2
<1>1. TypeOK'
  BY <1>0, <1>b DEF TypeOK, Senders, EndBroadcast, hub, wire
<1>2. Walks'
  BY <1>0, <1>b DEF TypeOK, Walks, Broadcasting, Recipients, EndBroadcast, hub
<1>3. Registered'
  BY <1>0, <1>a, <1>b DEF TypeOK, Registered, Broadcasting, Senders, EndBroadcast, hub, wire
<1>4. Aging
  BY <1>0 DEF TypeOK, Aging, EndBroadcast, hub, wire
<1>5. Streams'
  BY <1>1, <1>4, StreamsKept DEF EndBroadcast, hub, wire
<1>6. QED
  BY <1>1, <1>2, <1>3, <1>5 DEF WsInv

LEMMA GreetedInv ==
  ASSUME WsInv, NEW c \in Conns, Greeted(c)
  PROVE  WsInv'
<1>0. TypeOK /\ Walks /\ Registered
  BY DEF WsInv
<1>1. TypeOK'
  BY <1>0 DEF TypeOK, Senders, Greeted, hub
<1>2. Walks'
  BY <1>0 DEF TypeOK, Walks, Broadcasting, Recipients, Senders, Greeted, hub
<1>3. Registered'
  BY <1>0 DEF TypeOK, Registered, Senders, Greeted, hub
<1>4. Aging
  BY <1>0 DEF TypeOK, Aging, Greeted, hub
<1>5. Streams'
  BY <1>1, <1>4, StreamsKept DEF Greeted, hub
<1>6. QED
  BY <1>1, <1>2, <1>3, <1>5 DEF WsInv

LEMMA ReadFailsInv ==
  ASSUME WsInv, NEW c \in Conns, ReadFails(c)
  PROVE  WsInv'
<1>0. TypeOK /\ Walks /\ Registered
  BY DEF WsInv
<1>1. TypeOK'
  BY <1>0 DEF TypeOK, Senders, ReadFails, hub, wire
<1>2. Walks'
  BY <1>0 DEF TypeOK, Walks, Broadcasting, Recipients, Senders, ReadFails, hub, wire
<1>3. Registered'
  BY <1>0 DEF TypeOK, Registered, Senders, ReadFails, hub, wire
<1>4. Aging
  BY <1>0 DEF TypeOK, Aging, ReadFails, hub, wire
<1>5. Streams'
  BY <1>1, <1>4, StreamsKept DEF ReadFails, hub, wire
<1>6. QED
  BY <1>1, <1>2, <1>3, <1>5 DEF WsInv

LEMMA CloseConnInv ==
  ASSUME WsInv, NEW c \in Conns, CloseConn(c)
  PROVE  WsInv'
<1>0. TypeOK /\ Walks /\ Registered
  BY DEF WsInv
<1>1. TypeOK'
  BY <1>0 DEF TypeOK, Senders, CloseConn, hub
<1>2. Walks'
  BY <1>0 DEF TypeOK, Walks, Broadcasting, Recipients, Senders, CloseConn, hub
<1>3. Registered'
  BY <1>0 DEF TypeOK, Registered, Senders, CloseConn, hub
<1>4. Aging
  BY <1>0 DEF TypeOK, Aging, CloseConn, hub
<1>5. Streams'
  BY <1>1, <1>4, StreamsKept DEF CloseConn, hub
<1>6. QED
  BY <1>1, <1>2, <1>3, <1>5 DEF WsInv

LEMMA DisconnectInv ==
  ASSUME WsInv, NEW c \in Conns, Disconnect(c)
  PROVE  WsInv'
<1>0. TypeOK /\ Walks /\ Registered
  BY DEF WsInv
<1>1. TypeOK'
  BY <1>0 DEF TypeOK, Senders, Disconnect, hub
<1>2. Walks'
  BY <1>0 DEF TypeOK, Walks, Broadcasting, Recipients, Senders, Disconnect, hub
<1>3. Registered'
  BY <1>0 DEF TypeOK, Registered, Senders, Disconnect, hub
<1>4. Aging
  BY <1>0 DEF TypeOK, Aging, Disconnect, hub
<1>5. Streams'
  BY <1>1, <1>4, StreamsKept DEF Disconnect, hub
<1>6. QED
  BY <1>1, <1>2, <1>3, <1>5 DEF WsInv

LEMMA PumpEndsInv ==
  ASSUME WsInv, NEW c \in Conns, PumpEnds(c)
  PROVE  WsInv'
<1>0. TypeOK /\ Walks /\ Registered
  BY DEF WsInv
<1>1. TypeOK'
  BY <1>0 DEF TypeOK, Senders, PumpEnds, hub
<1>2. Walks'
  BY <1>0 DEF TypeOK, Walks, Broadcasting, Recipients, Senders, PumpEnds, hub
<1>3. Registered'
  BY <1>0 DEF TypeOK, Registered, Senders, PumpEnds, hub
<1>4. Aging
  BY <1>0 DEF TypeOK, Aging, PumpEnds, hub
<1>5. Streams'
  BY <1>1, <1>4, StreamsKept DEF PumpEnds, hub
<1>6. QED
  BY <1>1, <1>2, <1>3, <1>5 DEF WsInv

LEMMA PumpRecvInv ==
  ASSUME WsInv, NEW c \in Conns, PumpRecv(c)
  PROVE  WsInv'
<1>0. TypeOK /\ Walks /\ Registered
  BY DEF WsInv
<1>t. /\ got[c] \in Seq(Messages) /\ send[c] \in Seq(Messages) /\ send[c] # <<>>
      /\ held[c] = <<>>
  BY <1>0 DEF TypeOK, Registered, PumpRecv
<1>h. /\ held' = [held EXCEPT ![c] = <<Head(send[c])>>]
      /\ send' = [send EXCEPT ![c] = Tail(send[c])]
      /\ Head(send[c]) \in Messages /\ Tail(send[c]) \in Seq(Messages)
      /\ Len(Tail(send[c])) <= Len(send[c])
  BY <1>t DEF PumpRecv
<1>1. TypeOK'
  BY <1>0, <1>h DEF TypeOK, PumpRecv, hub
<1>2. Walks'
  BY <1>0 DEF TypeOK, Walks, Broadcasting, Recipients, Senders, PumpRecv, hub
<1>3. Registered'
  BY <1>0 DEF TypeOK, Registered, Senders, PumpRecv, hub
<1>4. Aging
  BY <1>0 DEF TypeOK, Aging, PumpRecv, hub
<1>5. Streams'
  <2>1. Good(Stream(c), c)
    BY <1>1, <1>4, KeptGood
  <2>2. got'[c] = got[c] /\ held'[c] = <<Head(send[c])>> /\ send'[c] = Tail(send[c])
    BY <1>0, <1>h DEF TypeOK, PumpRecv
  <2>3. got'[c] \o held'[c] \o send'[c] = Stream(c)
    BY <1>t, <2>2, TakeSame DEF Stream
  <2>4. \A d \in Conns \ {c} : got'[d] = got[d] /\ held'[d] = held[d] /\ send'[d] = send[d]
    BY <1>0, <1>h DEF TypeOK, PumpRecv
  <2>5. \A d \in Conns \ {c} : Good(got'[d] \o held'[d] \o send'[d], d)
    BY <1>1, <1>4, <2>4, KeptGood DEF Stream
  <2>6. Good(got'[c] \o held'[c] \o send'[c], c)
    BY <2>1, <2>3
  <2>7. \A d \in Conns : Good(got'[d] \o held'[d] \o send'[d], d)
    BY <2>5, <2>6
  <2>8. QED
    BY <2>7, StreamsNext
<1>6. QED
  BY <1>1, <1>2, <1>3, <1>5 DEF WsInv

LEMMA PumpWroteInv ==
  ASSUME WsInv, NEW c \in Conns, PumpWrote(c)
  PROVE  WsInv'
<1>0. TypeOK /\ Walks /\ Registered
  BY DEF WsInv
<1>t. got[c] \in Seq(Messages) /\ send[c] \in Seq(Messages) /\ held[c] \in Seq(Messages)
  BY <1>0 DEF TypeOK
<1>g. \/ got' = [got EXCEPT ![c] = got[c] \o held[c]]
      \/ got' = got
  BY <1>0 DEF TypeOK, PumpWrote
<1>h. /\ held' = [held EXCEPT ![c] = <<>>] /\ <<>> \in Seq(Messages)
      /\ got[c] \o held[c] \in Seq(Messages)
  BY <1>t, ConcatProperties DEF PumpWrote
<1>1. TypeOK'
  BY <1>0, <1>g, <1>h DEF TypeOK, PumpWrote, hub
<1>2. Walks'
  BY <1>0 DEF TypeOK, Walks, Broadcasting, Recipients, Senders, PumpWrote, hub
<1>3. Registered'
  BY <1>0 DEF TypeOK, Registered, Senders, PumpWrote, hub
<1>4. Aging
  BY <1>0 DEF TypeOK, Aging, PumpWrote, hub
<1>5. Streams'
  <2>1. \A d \in Conns : Good(Stream(d), d)
    BY <1>1, <1>4, KeptGood
  <2>2. held'[c] = <<>> /\ send'[c] = send[c]
    BY <1>0, <1>h DEF TypeOK, PumpWrote
  <2>3. Good(got'[c] \o held'[c] \o send'[c], c)
    <3>1. CASE got'[c] = got[c] \o held[c]
      <4>1. (got[c] \o held[c]) \o <<>> = got[c] \o held[c]
        BY <1>h, ConcatEmptySeq
      <4>2. QED
        BY <2>1, <2>2, <3>1, <4>1 DEF Stream
    <3>2. CASE got'[c] = got[c]
      <4>1. got[c] \o <<>> = got[c]
        BY <1>t, ConcatEmptySeq
      <4>2. QED
        BY <1>1, <1>4, <2>2, <3>2, <4>1, DroppedGood
    <3>3. QED
      BY <1>0, <1>g, <3>1, <3>2 DEF TypeOK
  <2>4. \A d \in Conns \ {c} : got'[d] = got[d] /\ held'[d] = held[d] /\ send'[d] = send[d]
    BY <1>0, <1>g, <1>h DEF TypeOK, PumpWrote
  <2>5. QED
    BY <2>1, <2>3, <2>4, StreamsNext DEF Stream
<1>6. QED
  BY <1>1, <1>2, <1>3, <1>5 DEF WsInv

LEMMA PumpFailsInv ==
  ASSUME WsInv, NEW c \in Conns, PumpFails(c)
  PROVE  WsInv'
<1>0. TypeOK /\ Walks /\ Registered
  BY DEF WsInv
<1>h. held' = [held EXCEPT ![c] = <<>>] /\ got' = got /\ send' = send
  BY DEF PumpFails
<1>1. TypeOK'
  BY <1>0 DEF TypeOK, Senders, PumpFails, hub
<1>2. Walks'
  BY <1>0 DEF TypeOK, Walks, Broadcasting, Recipients, Senders, PumpFails, hub
<1>3. Registered'
  BY <1>0 DEF TypeOK, Registered, Senders, PumpFails, hub
<1>4. Aging
  BY <1>0 DEF TypeOK, Aging, PumpFails, hub
<1>5. Streams'
  <2>1. got[c] \o <<>> = got[c]
    BY <1>0, ConcatEmptySeq DEF TypeOK
  <2>2. Good(got'[c] \o held'[c] \o send'[c], c)
    BY <1>0, <1>1, <1>4, <1>h, <2>1, DroppedGood DEF TypeOK
  <2>3. \A d \in Conns \ {c} : got'[d] = got[d] /\ held'[d] = held[d] /\ send'[d] = send[d]
    BY <1>0, <1>h DEF TypeOK
  <2>4. \A d \in Conns \ {c} : Good(got'[d] \o held'[d] \o send'[d], d)
    BY <1>1, <1>4, <2>3, KeptGood DEF Stream
  <2>5. QED
    BY <2>2, <2>4, StreamsNext
<1>6. QED
  BY <1>1, <1>2, <1>3, <1>5 DEF WsInv

LEMMA DeliverInv ==
  ASSUME WsInv, NEW a \in Senders, NEW c \in Conns, Deliver(a, c)
  PROVE  WsInv'
<1>0. TypeOK /\ Walks /\ Registered
  BY DEF WsInv
<1>t. got[c] \in Seq(Messages) /\ send[c] \in Seq(Messages) /\ held[c] \in Seq(Messages)
  BY <1>0 DEF TypeOK
<1>m. Message(a) \in Messages
  <2>1. Room(a) \in Tenants \cup {Everybody}
    BY DEF Room, Senders, Tenants
  <2>2. QED
    BY <1>0, <2>1 DEF TypeOK, Message, Messages
<1>h. /\ send' = [send EXCEPT ![c] = IF Len(send[c]) < Buffer
                                      THEN Append(send[c], Message(a)) ELSE send[c]]
      /\ Append(send[c], Message(a)) \in Seq(Messages)
      /\ Len(Append(send[c], Message(a))) = Len(send[c]) + 1 /\ Len(send[c]) \in Nat
  BY <1>t, <1>m DEF Deliver
<1>1. TypeOK'
  <2>1. send' \in [Conns -> Seq(Messages)]
    BY <1>0, <1>h DEF TypeOK
  <2>2. \A d \in Conns : Len(send'[d]) <= Buffer
    BY <1>0, <1>h DEF TypeOK
  <2>3. QED
    BY <1>0, <2>1, <2>2 DEF TypeOK, Deliver, hub, wire
<1>2. Walks'
  BY <1>0 DEF TypeOK, Walks, Broadcasting, Recipients, Senders, Deliver, hub, wire
<1>3. Registered'
  BY <1>0 DEF TypeOK, Registered, Senders, Deliver, hub, wire
<1>4. Aging
  BY <1>0 DEF TypeOK, Aging, Deliver, hub, wire
<1>5. Streams'
  <2>1. \A d \in Conns : Good(Stream(d), d)
    BY <1>1, <1>4, KeptGood
  <2>2. got' = got /\ held' = held /\ c \in left[a] /\ c \notin left'[a] /\ sent' = sent
    BY <1>0 DEF TypeOK, Deliver, wire
  <2>3. Good(Append(Stream(c), Message(a)), c)
    BY <1>1, <1>4, <2>2, GrownGood
  <2>4. got[c] \o held[c] \o Append(send[c], Message(a)) = Append(Stream(c), Message(a))
    <3> DEFINE g == got[c]
               h == held[c]
               t == send[c]
    <3>1. g \in Seq(Messages) /\ h \in Seq(Messages) /\ t \in Seq(Messages)
      BY <1>t
    <3> HIDE DEF g, h, t
    <3>2. g \o h \o Append(t, Message(a)) = Append(g \o h \o t, Message(a))
      BY <1>m, <3>1, AppendLast
    <3>3. QED
      BY <3>2 DEF g, h, t, Stream
  <2>5. Good(got'[c] \o held'[c] \o send'[c], c)
    BY <1>0, <1>h, <2>1, <2>2, <2>3, <2>4 DEF TypeOK, Stream
  <2>6. \A d \in Conns \ {c} : send'[d] = send[d]
    BY <1>0, <1>h DEF TypeOK
  <2>7. QED
    BY <2>1, <2>2, <2>5, <2>6, StreamsNext DEF Stream
<1>6. QED
  BY <1>1, <1>2, <1>3, <1>5 DEF WsInv

-----------------------------------------------------------------------------
LEMMA InitInv == Init => WsInv
<1> SUFFICES ASSUME Init PROVE WsInv
  OBVIOUS
<1>1. \A c \in Conns : Stream(c) = <<>>
  <2>1. <<>> \o <<>> \o <<>> = <<>>
    BY ConcatEmptySeq
  <2>2. QED
    BY <2>1 DEF Init, Stream
<1>2. TypeOK
  <2>1. closed \in [Conns -> BOOLEAN]
    BY Zenon DEF Init
  <2>2. QED
    BY <2>1 DEF Init, TypeOK, Senders
<1>3. Walks /\ Registered
  BY DEF Init, Walks, Registered, Broadcasting, Senders
<1>4. Streams
  <2>1. \A c \in Conns : Fits(<<>>, c) /\ Ordered(<<>>)
    BY DEF Fits, Ordered
  <2>2. QED
    BY <1>1, <2>1 DEF Streams
<1>5. QED
  BY <1>2, <1>3, <1>4 DEF WsInv

LEMMA NextInv == WsInv /\ [Next]_vars => WsInv'
<1>1. ASSUME WsInv, UNCHANGED vars PROVE WsInv'
  <2>1. TypeOK' /\ Walks' /\ Registered'
    BY <1>1 DEF WsInv, vars, hub, wire, TypeOK, Walks, Registered, Recipients
  <2>2. Aging
    BY <1>1 DEF Aging, vars
  <2>3. Streams'
    BY <1>1, <2>1, <2>2, StreamsKept DEF vars, wire
  <2>4. QED
    BY <2>1, <2>3 DEF WsInv
<1>2. ASSUME WsInv, NEW a \in Senders, Walk(a) PROVE WsInv'
  BY <1>2, DeliverInv, EndBroadcastInv DEF Walk
<1>3. ASSUME WsInv, NEW p \in Posts, Post(p) PROVE WsInv'
  BY <1>3, PostInv
<1>4. ASSUME WsInv, NEW c \in Conns, Handler(c) \/ ReadChat(c) \/ Disconnect(c)
      PROVE  WsInv'
  BY <1>4, RegisterInv, GreetedInv, AgentReturnsInv, ReadFailsInv, DeregisterInv,
     CloseConnInv, ReadChatInv, DisconnectInv DEF Handler
<1>5. ASSUME WsInv, NEW c \in Conns,
             PumpRecv(c) \/ PumpEnds(c) \/ PumpWrote(c) \/ PumpFails(c)
      PROVE  WsInv'
  BY <1>5, PumpRecvInv, PumpEndsInv, PumpWroteInv, PumpFailsInv
<1>6. QED
  BY <1>1, <1>2, <1>3, <1>4, <1>5 DEF Next, Quiet

LEMMA AlwaysInv == Spec => []WsInv
  BY InitInv, NextInv, PTL DEF Spec

(* Hub.Broadcast never sends on a channel that Deregister has closed: while a
   walk is under way the maps and the channels stay as they are. *)
THEOREM SendsAreOpen == Spec => []NoSendOnClosed
<1>1. WsInv => NoSendOnClosed
  <2> SUFFICES ASSUME WsInv, NEW a \in Senders, NEW c \in left[a]
               PROVE  c \in clients /\ ~closed[c]
    BY DEF NoSendOnClosed
  <2>1. c \in Recipients(a) /\ c \in Conns
    BY DEF WsInv, Walks, TypeOK
  <2>2. Room(a) \in Tenants \cup {Everybody}
    BY DEF Room, Senders, Tenants
  <2>3. c \in clients
    BY <2>1, <2>2 DEF Recipients, WsInv, Registered
  <2>4. QED
    BY <2>1, <2>3 DEF WsInv, Registered
<1>2. QED
  BY <1>1, AlwaysInv, PTL

(* handleWS's greeting and the write pump never write at the same time. *)
THEOREM SocketHasOneWriter == Spec => []OneWriter
<1>1. WsInv => OneWriter
  BY DEF WsInv, Registered, OneWriter
<1>2. QED
  BY <1>1, AlwaysInv, PTL

(* Each sender's messages are in every client's stream in the order they were
   sent, whatever is dropped on the way. *)
THEOREM SendersStayInOrder == Spec => []SenderOrder
<1>1. WsInv => SenderOrder
  BY DEF WsInv, Streams, Ordered, SenderOrder
<1>2. QED
  BY <1>1, AlwaysInv, PTL

(* No client is given a message for another tenant's room. *)
THEOREM RoomsStaySeparate == Spec => []RoomsSeparate
<1>1. WsInv => RoomsSeparate
  BY DEF WsInv, Streams, Fits, RoomsSeparate
<1>2. QED
  BY <1>1, AlwaysInv, PTL
=============================================================================
