----------------------------- MODULE McpEngine -----------------------------
(***************************************************************************)
(* The two MCP clients a binary can be built with.  Without build tag it   *)
(* has the Go client of McpCall; with the tag mcpengine it has the client  *)
(* modelled here, which calls the C library libmcpengine.  All six methods *)
(* of that client have one shape: take the client's only mutex, allocate   *)
(* an engine, connect it, make one call, decode the JSON string the        *)
(* library returned, free the string and the engine, release the mutex.    *)
(* No method looks at its context.                                         *)
(*                                                                         *)
(* Callers are the goroutines of requests; each may call again and again.  *)
(* The library is external: any of its calls may fail or never return.     *)
(***************************************************************************)
EXTENDS McpCall

CONSTANTS
  Callers,   \* goroutines that use the client
  NoCaller   \* nobody holds the mutex

ASSUME CallersAssumption == NoCaller \notin Callers

VARIABLES
  build,     \* the build's client: "go" or "mcpengine"
  step,      \* where each caller is in its method
  holder,    \* who holds cgoClient.mu
  engines,   \* callers whose engine is allocated in the library
  strings    \* callers whose result string the library still owns

cgo == <<step, holder, engines, strings>>
allVars == <<vars, build, cgo>>

Steps == {"idle", "lock", "connect", "dial", "marshal", "call", "decode",
          "free", "unlock"}

(* The steps at which a caller is inside the C library. *)
InLibrary(c) == step[c] \in {"connect", "dial", "call"}

ClientInit ==
  /\ Init
  /\ build \in {"go", "mcpengine"}
  /\ step = [c \in Callers |-> "idle"]
  /\ holder = NoCaller
  /\ engines = {}
  /\ strings = {}

-----------------------------------------------------------------------------
Goes(c, from, to) == step[c] = from /\ step' = [step EXCEPT ![c] = to]

(* A method is called, and waits for the mutex. *)
Enter(c) ==
  /\ Goes(c, "idle", "lock")
  /\ UNCHANGED <<holder, engines, strings>>

Lock(c) ==
  /\ holder = NoCaller
  /\ Goes(c, "lock", "connect")
  /\ holder' = c
  /\ UNCHANGED <<engines, strings>>

(* connect refuses a transport that is neither stdio nor websocket, and
   fails when mcp_engine_new returns no engine. *)
NoEngine(c) ==
  /\ Goes(c, "connect", "unlock")
  /\ UNCHANGED <<holder, engines, strings>>

EngineNew(c) ==
  /\ Goes(c, "connect", "dial")
  /\ engines' = engines \cup {c}
  /\ UNCHANGED <<holder, strings>>

Connected(c) ==
  /\ Goes(c, "dial", "marshal")
  /\ UNCHANGED <<holder, engines, strings>>

MutConnectLeaks(c) ==
  /\ Goes(c, "dial", "unlock")
  /\ UNCHANGED <<holder, engines, strings>>

(* The transport does not marshal or mcp_engine_connect fails: connect frees
   the engine itself, since its caller never sees it. *)
EngineConnectFails(c) ==
  /\ Goes(c, "dial", "unlock")
  /\ engines' = engines \ {c}
  /\ UNCHANGED <<holder, strings>>

(* callTool and getPrompt marshal their arguments and may fail at it; the
   other methods have nothing to marshal. *)
Marshal(c) ==
  /\ Goes(c, "marshal", "call") \/ Goes(c, "marshal", "free")
  /\ UNCHANGED <<holder, engines, strings>>

(* callString: the library returns a string it allocated, or NULL. *)
CallReturns(c) ==
  /\ Goes(c, "call", "decode")
  /\ strings' = strings \cup {c}
  /\ UNCHANGED <<holder, engines>>

CallFails(c) ==
  /\ Goes(c, "call", "free")
  /\ UNCHANGED <<holder, engines, strings>>

(* callString copies the string into Go and its defer frees it; the method
   decodes the copy, with or without an error. *)
Decodes(c) ==
  /\ Goes(c, "decode", "free")
  /\ strings' = strings \ {c}
  /\ UNCHANGED <<holder, engines>>

MutNeverUnlocks(c) ==
  /\ Goes(c, "free", "idle")
  /\ engines' = engines \ {c}
  /\ UNCHANGED <<holder, strings>>

(* The deferred calls run in reverse order: eng.free, then mu.Unlock. *)
Free(c) ==
  /\ Goes(c, "free", "unlock")
  /\ engines' = engines \ {c}
  /\ UNCHANGED <<holder, strings>>

Unlock(c) ==
  /\ Goes(c, "unlock", "idle")
  /\ holder' = NoCaller
  /\ UNCHANGED <<engines, strings>>

-----------------------------------------------------------------------------
(* What the Go side of a method does by itself, and what the library does. *)
GoSide(c) == Marshal(c) \/ Decodes(c) \/ Free(c) \/ Unlock(c)

Library(c) ==
  \/ NoEngine(c) \/ EngineNew(c) \/ Connected(c) \/ EngineConnectFails(c)
  \/ CallReturns(c) \/ CallFails(c)

(* The steps of ListTools, ListResources, ListPrompts, CallTool, ReadResource
   and GetPrompt alike. *)
Method(c) == Enter(c) \/ Lock(c) \/ GoSide(c) \/ Library(c)

InEngine(A) == build = "mcpengine" /\ A /\ UNCHANGED <<vars, build>>
InGo(A) == build = "go" /\ A /\ UNCHANGED <<build, cgo>>

ClientNext ==
  \/ InGo(Next)
  \/ \E c \in Callers : InEngine(Method(c))

(* The Go client's goroutines run as in FairSpec.  A sync.Mutex hands itself
   to a waiter that has starved for a millisecond, so a waiter gets it if it
   is released again and again.  The library owes nothing. *)
ClientSpec ==
  /\ ClientInit
  /\ [][ClientNext]_allVars
  /\ WF_allVars(InGo(Call)) /\ WF_allVars(InGo(Reader))
  /\ WF_allVars(InGo(ContextKills))
  /\ \A c \in Callers :
       WF_allVars(InEngine(GoSide(c))) /\ SF_allVars(InEngine(Lock(c)))

-----------------------------------------------------------------------------
(* Whatever fails on the way, an engine or a string of the library exists
   only while its caller holds the mutex: connect, free and callString leak
   nothing, and no two calls of cgoClient use the library at once. *)
EngineUnderLock ==
  /\ \A c \in engines \cup strings : holder = c
  /\ \A c, d \in Callers : InLibrary(c) /\ InLibrary(d) => c = d

(* A caller of cgoClient waits for ever only behind one caller that never
   comes back from the library: every error path releases the mutex. *)
OnlyLibraryBlocks ==
  \A c \in Callers :
    \/ \E d \in Callers : <>[]InLibrary(d)
    \/ step[c] = "lock" ~> step[c] = "idle"
=============================================================================
