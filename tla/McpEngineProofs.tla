-------------------------- MODULE McpEngineProofs --------------------------
(***************************************************************************)
(* Theorems about the two MCP clients, for every set of callers and every  *)
(* number of notifications.                                                *)
(***************************************************************************)
EXTENDS McpEngine, TLAPS

USE NotesAssumption, CallersAssumption

-----------------------------------------------------------------------------
(* The cgo client: who is in a method beyond mu.Lock holds the mutex, an
   engine is allocated between mcp_engine_new and eng.free, a string between
   the call and the deferred free. *)
LockInv ==
  /\ step \in [Callers -> Steps]
  /\ engines \subseteq Callers /\ strings \subseteq Callers
  /\ \A c \in Callers : step[c] \notin {"idle", "lock"} => holder = c
  /\ \A c \in engines : step[c] \in {"dial", "marshal", "call", "decode", "free"}
  /\ \A c \in strings : step[c] = "decode"

LEMMA InitLock == ClientInit => LockInv
  BY DEF ClientInit, LockInv, Steps

LEMMA MethodLock ==
  ASSUME LockInv, NEW c \in Callers, Method(c)
  PROVE  LockInv'
<1> USE DEF LockInv, Goes, Steps
<1>1. CASE Enter(c) \/ Lock(c)
  BY <1>1 DEF Enter, Lock
<1>2. CASE NoEngine(c) \/ EngineNew(c) \/ Connected(c)
  BY <1>2 DEF NoEngine, EngineNew, Connected
<1>3. CASE EngineConnectFails(c)
  BY <1>3 DEF EngineConnectFails
<1>4. CASE Marshal(c)
  BY <1>4 DEF Marshal
<1>5. CASE CallReturns(c) \/ CallFails(c)
  BY <1>5 DEF CallReturns, CallFails
<1>6. CASE Decodes(c)
  BY <1>6 DEF Decodes
<1>7. CASE Free(c)
  BY <1>7 DEF Free
<1>8. CASE Unlock(c)
  BY <1>8 DEF Unlock
<1>9. QED
  BY <1>1, <1>2, <1>3, <1>4, <1>5, <1>6, <1>7, <1>8 DEF Method, GoSide, Library

LEMMA NextLock == LockInv /\ [ClientNext]_allVars => LockInv'
<1> SUFFICES ASSUME LockInv, [ClientNext]_allVars PROVE LockInv'
  OBVIOUS
<1>1. CASE UNCHANGED cgo
  BY <1>1 DEF cgo, LockInv
<1>2. ASSUME NEW c \in Callers, Method(c) PROVE LockInv'
  BY <1>2, MethodLock
<1>3. QED
  BY <1>1, <1>2 DEF ClientNext, InGo, InEngine, allVars

(* Engines and strings of the C library exist only under the client's mutex,
   on every error path, and no two callers are in the library at once. *)
THEOREM EnginesUnderLock == ClientSpec => []EngineUnderLock
<1>1. LockInv => EngineUnderLock
  BY DEF LockInv, EngineUnderLock, InLibrary
<1>2. QED
  BY InitLock, NextLock, <1>1, PTL DEF ClientSpec

-----------------------------------------------------------------------------
(* The Go client: the transport is open between connect and the deferred
   close, and the one value the reader goroutine ever sends finds its channel
   empty. *)
CallInv ==
  /\ pc \in {"connect", "encode", "write"} => reader = "off"
  /\ open <=> pc \in {"encode", "write", "select", "close"}
  /\ reader # "exit" => ch = <<>>

LEMMA InitCall == Init => CallInv
  BY DEF Init, CallInv

LEMMA NextCall == CallInv /\ [Next]_vars => CallInv'
<1> SUFFICES ASSUME CallInv, [Next]_vars PROVE CallInv'
  OBVIOUS
<1> USE DEF CallInv, server, reading
<1>1. CASE Call
  BY <1>1 DEF Call, Connect, ConnectFails, Encode, Write, WriteFails, SelectCtx, SelectMessage,
       Close
<1>2. CASE Reader
  BY <1>2 DEF Reader, ReaderReads, ReaderFails, ReaderDelivers
<1>3. CASE \/ Cancel \/ ServerReads \/ ServerEnds \/ ContextKills
            \/ \E m \in Message : ServerSends(m)
  BY <1>3 DEF Cancel, ServerReads, ServerEnds, ContextKills, ServerSends
<1>4. CASE UNCHANGED vars
  BY <1>4 DEF vars
<1>5. QED
  BY <1>1, <1>2, <1>3, <1>4 DEF Next, Returned

(* What ReaderEnds rests on: whenever the reader goroutine has something to
   send, readResponse's channel has room, though the caller may have left; and
   a call that has returned has closed its transport, so the goroutine's read
   cannot block for ever either. *)
THEOREM ReaderNeverBlocks ==
  ClientSpec => []((reader = "deliver" => ch = <<>>) /\ (pc = "done" => ~open))
<1>1. ClientInit => CallInv
  BY InitCall DEF ClientInit
<1>2. CallInv /\ [ClientNext]_allVars => CallInv'
  <2> SUFFICES ASSUME CallInv, [ClientNext]_allVars PROVE [Next]_vars
    BY NextCall
  <2>1. QED
    BY DEF ClientNext, InGo, InEngine, allVars
<1>3. CallInv => (reader = "deliver" => ch = <<>>) /\ (pc = "done" => ~open)
  BY DEF CallInv
<1>4. QED
  BY <1>1, <1>2, <1>3, PTL DEF ClientSpec
=============================================================================
