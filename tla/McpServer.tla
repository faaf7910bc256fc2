------------------------------- MODULE McpServer -------------------------------
(***************************************************************************)
(* The MCP server over stdio (crates/mcp-server): one thread that reads a  *)
(* line, validates it as a JSON-RPC request, runs a tool over the pipeline *)
(* and its memory vault, and writes the answer.  Bytes arrive when the     *)
(* client likes and in chunks of any size.  What a line says is a request  *)
(* with the faults its validation looks for; what the pipeline does with   *)
(* a text, PrivacyPipeline models: here it asks the vault for the aliases  *)
(* of some values, or fails.                                               *)
(***************************************************************************)
EXTENDS MemoryVault, Sequences

CONSTANTS
  Byte,          \* what a client may send: of "letter", "space", "stray" (no UTF-8)
                 \* and "newline"
  Limit,         \* max_request_bytes
  ToolSets,      \* the sets of tools a server may be configured with
  DefaultScope,  \* the scope of a sanitize that names none
  NoScope,
  Requests,      \* what clients ask: requests with their faults
  Batches,       \* the values a text may hold: sequences over Kind \X Original
  NoRequest, NoReply,
  MaxBytes       \* bound: bytes a client sends

VARIABLES
  pipe,     \* what the client has sent and the server has not read
  sending,  \* FALSE once the client has closed its end
  sent,     \* bytes sent, for the bound
  pc,       \* where the server is
  buf,      \* the line read so far, or being handled
  tools,    \* ServerConfig.tools
  request,  \* what the line in hand asks, until it is answered
  todo,     \* sanitize: the items the vault has not been asked for
  got,      \* the mappings a call of the vault has returned
  logged,   \* an event of the call in hand is in the audit log
  reply     \* the answer being written

wire  == <<pipe, sending, sent>>
run   == <<request, todo, got, logged>>
vars  == <<vault, wire, pc, buf, tools, run, reply>>

(***************************************************************************)
(* Requests.  A request has an id or none (a notification).                *)
(***************************************************************************)
EnvelopeFault == {"not_json", "not_object", "no_version", "no_method", "bad_id"}
ParamsFault   == {"bad_params", "bad_meta", "bad_client_info", "bad_version",
                  "unsupported_version", "no_capabilities", "modern_initialize",
                  "extra_member", "bad_member", "unsupported_member"}
ArgumentFault == {"bad_text", "bad_session", "bad_context"}
Fault == EnvelopeFault \cup ParamsFault \cup ArgumentFault

ToolName == {"sanitize", "restore", "inspect", "forget"}

\* What --tools may select (ToolSet::parse: any set but the empty one), all of
\* them, and the default: nothing that hands a model what the vault holds.
ToolSet     == SUBSET ToolName \ {{}}
AllTools    == ToolName
ModelFacing == {"sanitize", "inspect"}

Method == {"discover", "initialize", "tools_list", "tools_call", "unknown"}

\* Each method and tool has its own places for a fault.
Possible(r) ==
  /\ "bad_id" \in r.faults => ~r.id
  /\ r.faults \cap {"modern_initialize", "unsupported_member"} # {} => r.method = "initialize"
  /\ "bad_member" \in r.faults => r.method \in {"initialize", "tools_call"}
  /\ "extra_member" \in r.faults => r.method # "unknown"
  /\ r.method # "tools_call" =>
       r.tool = "other" /\ r.session = NoScope /\ r.faults \cap ArgumentFault = {}

Request == [id : BOOLEAN, method : Method, tool : ToolName \cup {"other"},
            session : Scope \cup {NoScope}, faults : SUBSET Fault]

ASSUME ServerAssumption ==
  /\ "newline" \in Byte /\ Limit \in Nat
  /\ MaxBytes \in Nat /\ \A r \in Requests : r \in Request /\ Possible(r)
  /\ NoRequest \notin Requests
  /\ ToolSets \subseteq ToolSet
  /\ DefaultScope \in Scope /\ NoScope \notin Scope
  /\ Batches \subseteq Seq(Kind \X Original)

\* An answer carries the id of its request or null, and the code of an error;
\* what fails inside a tool is a result.
With(has_id, code) == [id |-> has_id, code |-> code]

\* The envelope and the id, checked before anything else.
EnvelopeError(r) ==
  CASE "not_json" \in r.faults -> With(FALSE, "-32700")
    [] "not_json" \notin r.faults /\ "not_object" \in r.faults -> With(FALSE, "-32600")
    [] OTHER -> With(r.id, "-32600")

\* check_protocol_metadata, then check_method_params: a version nobody supports
\* has a code of its own unless an earlier check fails.
ParamsError(r) ==
  LET passed(F) == r.faults \cap F = {}
  IN IF \/ /\ "unsupported_version" \in r.faults
           /\ passed({"bad_params", "bad_meta", "bad_client_info", "bad_version"})
        \/ /\ "unsupported_member" \in r.faults
           /\ passed(ParamsFault \ {"unsupported_member", "bad_member"})
     THEN "-32022" ELSE "-32602"

\* What each tool reads: text, session, context.
ArgumentsFit(r) ==
  /\ r.tool # "forget" => "bad_text" \notin r.faults
  /\ r.tool # "inspect" => "bad_session" \notin r.faults
  /\ r.tool \in {"restore", "forget"} => r.session # NoScope
  /\ r.tool = "sanitize" => "bad_context" \notin r.faults

(***************************************************************************)
(* The transport.                                                          *)
(***************************************************************************)
Init ==
  /\ VaultInit
  /\ pipe = <<>> /\ sending = TRUE /\ sent = 0
  /\ pc = "read" /\ buf = <<>> /\ tools \in ToolSets
  /\ request = NoRequest /\ todo = <<>> /\ got = {} /\ logged = FALSE /\ reply = NoReply

Send ==
  /\ sending /\ sent < MaxBytes
  /\ \E b \in Byte : pipe' = Append(pipe, b)
  /\ sent' = sent + 1
  /\ UNCHANGED <<vault, sending, pc, buf, tools, run, reply>>

Close ==
  /\ sending /\ sending' = FALSE
  /\ UNCHANGED <<vault, pipe, sent, pc, buf, tools, run, reply>>

\* Mistake: the newline is left for the next frame.
ReadFrameToNewline(n) ==
  LET capacity == Limit + 1
      newlines == {i \in 1 .. n : pipe[i] = "newline"}
      upto     == IF newlines = {} THEN n
                  ELSE (CHOOSE i \in newlines : \A j \in newlines : i <= j) - 1
      take     == IF upto <= capacity - Len(buf) THEN upto ELSE capacity - Len(buf)
      whole    == newlines # {} /\ take = upto
      read     == buf \o SubSeq(pipe, 1, take)
  IN /\ pc = "read"
     /\ pipe' = SubSeq(pipe, take + 1, Len(pipe))
     /\ pc' = IF Len(read) > Limit THEN "ended" ELSE IF whole THEN "handle" ELSE "read"
     /\ buf' = IF Len(read) > Limit THEN <<>> ELSE read
     /\ reply' = IF Len(read) > Limit THEN With(FALSE, "-32600") ELSE NoReply
     /\ UNCHANGED <<vault, sending, sent, tools, run>>

\* One fill_buf of read_frame: the first n bytes are available.
ReadFrame(n) ==
  LET capacity == Limit + 1
      newlines == {i \in 1 .. n : pipe[i] = "newline"}
      upto     == IF newlines = {} THEN n
                  ELSE (CHOOSE i \in newlines : \A j \in newlines : i <= j) - 1
      take     == IF upto <= capacity - Len(buf) THEN upto ELSE capacity - Len(buf)
      whole    == newlines # {} /\ take = upto
      read     == buf \o SubSeq(pipe, 1, take)
  IN /\ pc = "read"
     /\ pipe' = SubSeq(pipe, (IF whole THEN take + 2 ELSE take + 1), Len(pipe))
     /\ pc' = IF Len(read) > Limit THEN "ended" ELSE IF whole THEN "handle" ELSE "read"
     /\ buf' = IF Len(read) > Limit THEN <<>> ELSE read
     /\ reply' = IF Len(read) > Limit THEN With(FALSE, "-32600") ELSE NoReply
     /\ UNCHANGED <<vault, sending, sent, tools, run>>

\* fill_buf returns nothing: the client has closed its end.
EndOfInput ==
  /\ pc = "read" /\ pipe = <<>> /\ ~sending
  /\ pc' = "ended" /\ buf' = <<>>
  /\ reply' = IF buf = <<>> THEN NoReply ELSE With(FALSE, "-32700")
  /\ UNCHANGED <<vault, wire, tools, run>>

(***************************************************************************)
(* serve and handle_request.                                               *)
(***************************************************************************)
\* The next turn of serve's loop: read_frame clears the buffer.
NextFrame == /\ pc' = "read" /\ buf' = <<>> /\ reply' = NoReply
             /\ request' = NoRequest /\ logged' = FALSE

Answering(a) == pc' = "respond" /\ reply' = a /\ request' = NoRequest

SkipBlank ==
  /\ pc = "handle" /\ \A i \in DOMAIN buf : buf[i] = "space"
  /\ NextFrame
  /\ UNCHANGED <<vault, wire, tools, todo, got>>

RejectBytes ==
  /\ pc = "handle" /\ \E i \in DOMAIN buf : buf[i] = "stray"
  /\ Answering(With(FALSE, "-32700"))
  /\ UNCHANGED <<vault, wire, buf, tools, todo, got, logged>>

\* A text; what it says is for handle_request and validate_request to judge.
Parse(r) ==
  /\ pc = "handle" /\ \A i \in DOMAIN buf : buf[i] # "stray"
  /\ \E i \in DOMAIN buf : buf[i] # "space"
  /\ pc' = "validate" /\ request' = r
  /\ UNCHANGED <<vault, wire, buf, tools, todo, got, logged, reply>>

Refused(code) ==
  /\ Answering(code)
  /\ UNCHANGED <<vault, wire, buf, tools, todo, got, logged>>

RefuseEnvelope ==
  /\ pc = "validate" /\ request.faults \cap EnvelopeFault # {}
  /\ Refused(EnvelopeError(request))

\* A notification: no answer, whatever it asks for.
Ignore ==
  /\ pc = "validate" /\ request.faults \cap EnvelopeFault = {} /\ ~request.id
  /\ NextFrame
  /\ UNCHANGED <<vault, wire, tools, todo, got>>

Valid == pc = "validate" /\ request.faults \cap EnvelopeFault = {} /\ request.id

RefuseParams ==
  /\ Valid /\ request.faults \cap ParamsFault # {}
  /\ Refused(With(TRUE, ParamsError(request)))

Dispatched(M) == Valid /\ request.faults \cap ParamsFault = {} /\ request.method \in M

RefuseMethod == Dispatched({"unknown"}) /\ Refused(With(TRUE, "-32601"))

\* server/discover, initialize and tools/list.
Describe ==
  /\ Dispatched({"discover", "initialize", "tools_list"})
  /\ Answering(With(TRUE, "result"))
  /\ UNCHANGED <<vault, wire, buf, tools, todo, got, logged>>

ToolCall ==
  /\ Dispatched({"tools_call"})
  /\ pc' = "call"
  /\ UNCHANGED <<vault, wire, buf, tools, run, reply>>

(***************************************************************************)
(* tool_call: the tool, its arguments, and only then what it does.  From   *)
(* the arguments on a failure is a result of the tool.                     *)
(***************************************************************************)
ScopeOf(r) == IF r.session = NoScope THEN DefaultScope ELSE r.session

Finish(code) ==
  /\ Answering(With(TRUE, code)) /\ todo' = <<>> /\ got' = {}
  /\ UNCHANGED <<wire, buf, tools>>

\* A tool that is not on offer, or that nobody knows.
RefuseTool ==
  /\ pc = "call" /\ request.tool \notin tools
  /\ Refused(With(TRUE, "-32601"))

Called(t) == pc = "call" /\ request.tool = t /\ t \in tools

RefuseArguments ==
  /\ \E t \in ToolName : Called(t)
  /\ ~ArgumentsFit(request)
  /\ Refused(With(TRUE, "tool_error"))

\* Mistake: what lapsed is dropped before the arguments are read.
SanitizeExpireFirst ==
  /\ Called("sanitize") /\ Expire
  /\ IF ArgumentsFit(request) THEN pc' = "alias" /\ todo' \in Batches /\ UNCHANGED <<request, reply>>
     ELSE Answering(With(TRUE, "tool_error")) /\ UNCHANGED todo
  /\ UNCHANGED <<wire, buf, tools, got, logged>>

\* context.sanitize: what lapsed goes first; then the pipeline fails, or asks
\* the vault for the values of one text.
SanitizeExpire ==
  /\ Called("sanitize") /\ ArgumentsFit(request) /\ Expire
  /\ pc' = "alias" /\ todo' \in Batches
  /\ UNCHANGED <<wire, buf, tools, request, got, logged, reply>>

\* One item of get_or_insert_many: get_or_insert ...
Alias ==
  /\ pc = "alias" /\ got = {} /\ todo # <<>>
  /\ LET s == ScopeOf(request)  k == todo[1][1]  o == todo[1][2]
     IN \E m \in mappings \cup {Fresh(s, k, o, e) : e \in Entropy} :
          /\ Get(s, k, o, m) \/ Insert(s, k, o, m)
          /\ got' = {m}
  /\ UNCHANGED <<wire, pc, buf, tools, request, todo, logged, reply>>

\* ... and push.
Collect ==
  /\ pc = "alias" /\ got # {}
  /\ got' = {} /\ todo' = Tail(todo)
  /\ UNCHANGED <<vault, wire, pc, buf, tools, request, logged, reply>>

AliasFails ==
  /\ pc = "alias" /\ got = {} /\ todo # <<>>
  /\ InsertFails(ScopeOf(request), todo[1][1], todo[1][2])
  /\ Finish("tool_error") /\ UNCHANGED logged

\* The audit event, if there is a log and it can be written; for
\* context.sanitize, once there is nothing more to ask the vault for, what
\* comes of the text or fails.
Record ==
  /\ pc = "record" \/ (pc = "alias" /\ got = {} /\ todo = <<>>)
  /\ logged' \in BOOLEAN
  /\ \E code \in {"result", "tool_error"} : Finish(code)
  /\ UNCHANGED vault

\* context.restore of a text that names every token there is.
Restore ==
  /\ Called("restore") /\ ArgumentsFit(request)
  /\ pc' = "record" /\ got' = Resolved(request.session)
  /\ UNCHANGED <<vault, wire, buf, tools, request, todo, logged, reply>>

\* context.forget: the scope is erased before the event is recorded.
Forget ==
  /\ Called("forget") /\ ArgumentsFit(request) /\ DeleteScope(request.session)
  /\ pc' = "record"
  /\ UNCHANGED <<wire, buf, tools, request, todo, got, logged, reply>>

\* context.inspect asks the detector.
Inspect ==
  /\ Called("inspect") /\ ArgumentsFit(request)
  /\ \E code \in {"result", "tool_error"} : Finish(code)
  /\ UNCHANGED <<vault, logged>>

WriteResponse ==
  /\ pc = "respond" /\ NextFrame
  /\ UNCHANGED <<vault, wire, tools, todo, got>>

\* stdout is gone: serve returns the error.
WriteFails ==
  /\ pc = "respond" /\ pc' = "ended" /\ buf' = <<>>
  /\ UNCHANGED <<vault, wire, tools, run, reply>>

Handle ==
  \/ \E r \in Requests : Parse(r)
  \/ RefuseEnvelope \/ Ignore \/ RefuseParams \/ RefuseMethod \/ Describe \/ ToolCall
  \/ RefuseTool \/ RefuseArguments

Tool == SanitizeExpire \/ Alias \/ Collect \/ AliasFails \/ Restore \/ Forget \/ Record \/ Inspect

Server ==
  \/ \E n \in DOMAIN pipe : ReadFrame(n)
  \/ EndOfInput \/ SkipBlank \/ RejectBytes
  \/ Handle \/ Tool
  \/ WriteResponse \/ WriteFails

Clock == Tick /\ UNCHANGED <<wire, pc, buf, tools, run, reply>>

Next == Send \/ Close \/ Server \/ Clock

Spec == Init /\ [][Next]_vars

(***************************************************************************)
(* Properties.                                                             *)
(***************************************************************************)
\* What the catalogue publishes of the tools (ToolName::schema): what each
\* takes, whether it must have a session, and which is read-only.
Takes == [sanitize |-> {"bad_text", "bad_session", "bad_context"},
          restore  |-> {"bad_text", "bad_session"},
          inspect  |-> {"bad_text"},
          forget   |-> {"bad_session"}]
NeedsSession == {"restore", "forget"}
ReadOnly     == {"inspect"}

\* A call that may leave a trace: a request, faultless as far as its tool goes,
\* for a tool on offer that is not read-only.
MayWrite(r) ==
  /\ r.id /\ r.faults \cap (EnvelopeFault \cup ParamsFault) = {}
  /\ r.method = "tools_call" /\ r.tool \in tools \ ReadOnly
  /\ r.faults \cap Takes[r.tool] = {}
  /\ r.tool \in NeedsSession => r.session # NoScope

\* Whatever is wrong with a line, wherever it is refused, and of a notification,
\* of a tool not on offer and of a read-only one: no step from the line's first
\* byte to its answer changes a mapping or a counter of the vault, not even to
\* drop what has lapsed, or writes to the log (validate_request, tool_call).
RefusalsWriteNothing ==
  [][request = NoRequest \/ ~MayWrite(request) =>
       UNCHANGED <<mappings, counters, issued>> /\ (logged' => logged)]_vars

\* The transport hands over each line whole, once and in order, however the
\* bytes arrive, and stops at the first that is not usable (read_frame, serve).
Unread == IF pc = "ended" THEN <<>> ELSE IF pc = "read" THEN buf \o pipe ELSE pipe
InHand == IF pc \in {"read", "ended"} THEN <<"newline">> ELSE buf
Stream == INSTANCE LineStream WITH
  Newline <- "newline", unread <- Unread, line <- InHand, serving <- (pc # "ended")
TransportContract == Stream!Spec

\* The memory vault keeps the promises of the Vault trait, one get_or_insert at
\* a time, while its mappings lapse under the calls of the server.
Retired == {m \in issued : m \notin Live}
Contract == INSTANCE ScopedVault WITH
  Client <- {"server"}, Mapping <- Entry, Lapsing <- (TTL # NoTTL),
  live <- Live,
  retired <- Retired,
  answer <- [c \in {"server"} |-> got]
MemoryContract == Contract!Spec
===============================================================================
