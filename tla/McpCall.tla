------------------------------ MODULE McpCall ------------------------------
(***************************************************************************)
(* One tool call of the pure-Go MCP client: CallTool (and ListTools, ...)  *)
(* opens a transport, writes one JSON-RPC request, waits for whichever     *)
(* comes first of a message and the end of the context, and closes the     *)
(* transport.  A reader goroutine does the blocking read.                  *)
(*                                                                         *)
(* Stdio and websocket transports have the same steps and differ in what   *)
(* the end of the context does: it kills a stdio server, and does nothing  *)
(* to a websocket.  A write blocks while the pipe or socket has no room    *)
(* for the request and the server does not read.  What the server sends is *)
(* the response to the request, an error response, something that is not   *)
(* JSON, or a notification, which JSON-RPC servers may send at any time.   *)
(***************************************************************************)
EXTENDS Naturals, Sequences

CONSTANTS
  MaxNotes   \* bound: notifications the server sends

ASSUME NotesAssumption == MaxNotes \in Nat

VARIABLES
  transport, \* Transport.Type: "stdio" or "websocket"
  ctxErr,  \* the context is done
  pc,      \* the call: "connect", "encode", "write", "select", "close", "done"
  open,    \* the transport is open on our side
  alive,   \* the server's end is open
  room,    \* the pipe or socket takes the whole request without blocking
  wire,    \* messages on their way to us
  notes,   \* notifications sent
  asked,   \* the server has a request to answer
  reader,  \* the goroutine: "off", "read", "deliver", "exit"
  line,    \* what the reader has read, as a sequence
  ch,      \* readResponse's channel, of capacity 1
  out      \* the outcome of the call: [err, from]

server == <<alive, room, wire, notes, asked>>
reading == <<reader, line, ch>>
vars == <<transport, ctxErr, pc, open, server, reading, out>>

Message == {"response", "error", "garbage", "note"}
NoOutcome == [err |-> FALSE, from |-> "none"]
Failed == [err |-> TRUE, from |-> "none"]

Init ==
  /\ transport \in {"stdio", "websocket"}
  /\ ctxErr = FALSE
  /\ pc = "connect"
  /\ open = FALSE
  /\ alive = FALSE
  /\ room \in BOOLEAN
  /\ wire = <<>>
  /\ notes = 0
  /\ asked = FALSE
  /\ reader = "off"
  /\ line = <<>>
  /\ ch = <<>>
  /\ out = NoOutcome

-----------------------------------------------------------------------------
(* The caller's context: a deadline, or a client that goes away. *)
Cancel ==
  /\ pc # "done"
  /\ ~ctxErr
  /\ ctxErr' = TRUE
  /\ UNCHANGED <<transport, pc, open, server, reading, out>>

(* The server answers a request once, and may notify at any time. *)
ServerSends(m) ==
  /\ alive
  /\ IF m = "note" THEN notes < MaxNotes ELSE asked
  /\ wire' = Append(wire, m)
  /\ notes' = IF m = "note" THEN notes + 1 ELSE notes
  /\ asked' = (asked /\ m = "note")
  /\ UNCHANGED <<transport, ctxErr, pc, open, alive, room, reading, out>>

(* The server reads, sooner, later or never. *)
ServerReads ==
  /\ alive
  /\ ~room
  /\ room' = TRUE
  /\ UNCHANGED <<transport, ctxErr, pc, open, alive, room, wire, notes, asked, reading, out>>

(* The server exits or hangs up. *)
ServerEnds ==
  /\ alive
  /\ alive' = FALSE
  /\ UNCHANGED <<transport, ctxErr, pc, open, room, wire, notes, asked, reading, out>>

(* exec.CommandContext: the end of the context kills the process.  Nothing
   watches the context of a websocket once it is dialled. *)
ContextKills ==
  /\ transport = "stdio"
  /\ ctxErr
  /\ ServerEnds

-----------------------------------------------------------------------------
(* connect: the process is started or the websocket dialled. *)
Connect ==
  /\ pc = "connect"
  /\ ~ctxErr
  /\ open' = TRUE
  /\ alive' = TRUE
  /\ pc' = "encode"
  /\ UNCHANGED <<transport, ctxErr, room, wire, notes, asked, reading, out>>

ConnectFails ==
  /\ pc = "connect"
  /\ out' = Failed
  /\ pc' = "done"
  /\ UNCHANGED <<transport, ctxErr, open, server, reading>>

(* The request is encoded, which its arguments may not allow. *)
Encode ==
  /\ pc = "encode"
  /\ \/ pc' = "write" /\ UNCHANGED out
     \/ pc' = "close" /\ out' = Failed
  /\ UNCHANGED <<transport, ctxErr, open, server, reading>>

(* The request is written and the reader started.  The write waits for room,
   with no deadline and no eye on the context; it may succeed when the server
   has just gone. *)
Write ==
  /\ pc = "write"
  /\ room
  /\ asked' = TRUE
  /\ reader' = "read"
  /\ pc' = "select"
  /\ UNCHANGED <<transport, ctxErr, open, alive, room, wire, notes, line, ch, out>>

WriteFails ==
  /\ pc = "write"
  /\ ~alive
  /\ out' = Failed
  /\ pc' = "close"
  /\ UNCHANGED <<transport, ctxErr, open, server, reading>>

(* The goroutine's blocking read returns a message, or an error once the
   server is gone or the transport closed under it. *)
ReaderReads ==
  /\ reader = "read"
  /\ wire # <<>>
  /\ line' = <<Head(wire)>>
  /\ wire' = Tail(wire)
  /\ reader' = "deliver"
  /\ UNCHANGED <<transport, ctxErr, pc, open, alive, room, notes, asked, ch, out>>

ReaderFails ==
  /\ reader = "read"
  /\ \/ wire = <<>> /\ ~alive
     \/ ~open
  /\ line' = <<"garbage">>
  /\ reader' = "deliver"
  /\ UNCHANGED <<transport, ctxErr, pc, open, server, ch, out>>

MutUnbuffered ==
  /\ reader = "deliver"
  /\ pc = "select"
  /\ ch' = line
  /\ reader' = "exit"
  /\ UNCHANGED <<transport, ctxErr, pc, open, server, line, out>>

(* ch <- result: the buffer has room for the one value ever sent. *)
ReaderDelivers ==
  /\ reader = "deliver"
  /\ ch = <<>>
  /\ ch' = line
  /\ reader' = "exit"
  /\ UNCHANGED <<transport, ctxErr, pc, open, server, line, out>>

MutIgnoresCtx ==
  /\ pc = "select"
  /\ ctxErr /\ ch # <<>>
  /\ out' = Failed
  /\ pc' = "close"
  /\ UNCHANGED <<transport, ctxErr, open, server, reading>>

SelectCtx ==
  /\ pc = "select"
  /\ ctxErr
  /\ out' = Failed
  /\ pc' = "close"
  /\ UNCHANGED <<transport, ctxErr, open, server, reading>>

(* decodeResponse: an error member is an error; a message without a result
   leaves the zero result and is no error.  The id is not looked at. *)
Decode(m) == [err |-> m \in {"error", "garbage"}, from |-> m]

SelectMessage ==
  /\ pc = "select"
  /\ ch # <<>>
  /\ out' = Decode(Head(ch))
  /\ pc' = "close"
  /\ UNCHANGED <<transport, ctxErr, open, server, reading>>

(* The deferred close: the process is killed, the websocket closed. *)
Close ==
  /\ pc = "close"
  /\ open' = FALSE
  /\ alive' = FALSE
  /\ pc' = "done"
  /\ UNCHANGED <<transport, ctxErr, room, wire, notes, asked, reading, out>>

Returned ==
  /\ pc = "done"
  /\ reader \in {"off", "exit"}
  /\ UNCHANGED vars

-----------------------------------------------------------------------------
Call ==
  \/ Connect \/ ConnectFails \/ Encode \/ Write \/ WriteFails \/ SelectCtx
  \/ SelectMessage \/ Close

Reader == ReaderReads \/ ReaderFails \/ ReaderDelivers

Next ==
  \/ Cancel \/ ServerReads \/ ServerEnds \/ ContextKills
  \/ \E m \in Message : ServerSends(m)
  \/ Call \/ Reader \/ Returned

Spec == Init /\ [][Next]_vars

(* The goroutines run, the dial has its deadline, and the watcher started by
   cmd.Start kills.  The server owes nothing: it need not read, so a write
   need not end. *)
FairSpec == Spec /\ WF_vars(Call) /\ WF_vars(Reader) /\ WF_vars(ContextKills)

-----------------------------------------------------------------------------
(* Every variable has its type. *)
TypeOK ==
  /\ transport \in {"stdio", "websocket"}
  /\ ctxErr \in BOOLEAN
  /\ pc \in {"connect", "encode", "write", "select", "close", "done"}
  /\ open \in BOOLEAN
  /\ alive \in BOOLEAN /\ room \in BOOLEAN
  /\ wire \in Seq(Message)
  /\ notes \in 0..MaxNotes
  /\ asked \in BOOLEAN
  /\ reader \in {"off", "read", "deliver", "exit"}
  /\ line \in Seq(Message) /\ ch \in Seq(Message) /\ Len(ch) <= 1
  /\ out \in [err : BOOLEAN, from : Message \cup {"none"}]

(* A websocket call in WriteJSON, to a server that is connected and does not
   read. *)
Unread == transport = "websocket" /\ pc = "write" /\ alive /\ ~room

(* A call whose context is done returns, whatever a stdio server does and
   whatever a websocket server sends or does not send.  It can outlive its
   context for ever in one place only: wsTransport.call's WriteJSON, to a
   server that stays connected and never reads. *)
ContextEndsCall == <>[]Unread \/ (ctxErr ~> (pc = "done"))

(* The reader goroutine always ends once the call has returned: no caller
   that gave up early leaves one behind. *)
ReaderEnds == (pc = "done") ~> (reader \in {"off", "exit"})
=============================================================================
