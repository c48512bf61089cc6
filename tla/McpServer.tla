------------------------------ MODULE McpServer ------------------------------
(***************************************************************************)
(* The MCP server on stdio (mcp_server.py) with one client: lines go in,   *)
(* one at a time, replies come out, and the process may end anywhere in    *)
(* between.  The client pipelines requests, gives up on some and asks      *)
(* again under a new id, restarts the server, and keeps a chain of the     *)
(* decision receipts it was given by passing the hash of the last one as   *)
(* previous_hash.                                                          *)
(*                                                                         *)
(* A tool call acts and is answered in two steps, because the process may  *)
(* end between the effect and the reply.  Registrations are whole here and *)
(* are written to the tables directory; TableRegistry takes them apart.    *)
(***************************************************************************)
EXTENDS Receipts

CONSTANTS
  Keys,          \* the table ids and versions in use
  Tables,        \* the table contents
  OtherLines,    \* the lines beside registrations and evaluations
  Null,          \* the id of a notification, and "no table"
  BadId,         \* an id that is no string, number or null
  NotText,       \* a value that is no string
  MaxRequests,   \* bound on the ids the client uses
  MaxOthers,     \* bound on the other lines it sends
  MaxRestarts    \* bound on the restarts

ASSUME ServerBounds == {MaxRequests, MaxOthers, MaxRestarts} \subseteq Nat

Supported == {"2025-06-18", "2025-11-25"}
Newest == "2025-11-25"

VARIABLES
  phase,      \* "reading", "replying", "ended", "crashed" or "aborted"
  sent,       \* the lines the client wrote to this process
  read,       \* how many of them the process took
  reply,      \* the reply in hand
  written,    \* the replies this process wrote
  taken,      \* how many of them the client read
  hungUp,     \* whether the client closed the input
  registry,   \* _registry: key |-> table or Null
  directory,  \* the tables directory: key |-> table or Null
  awaited,    \* the id of the evaluation the client waits for, or 0
  chain,      \* the receipts the client keeps
  replies,    \* history: every registration with how it was answered
  nextId, others, restarts

vars == <<phase, sent, read, reply, written, taken, hungUp, registry,
          directory, awaited, chain, replies, nextId, others, restarts>>

server == <<phase, read, reply, written, registry, directory, replies>>
client == <<sent, taken, hungUp, awaited, chain, nextId, others, restarts>>

-----------------------------------------------------------------------------
(* One line of input.  text is what json.loads makes of it; the fields are *)
(* those the server looks at, with what a well-formed call would have.     *)
Line ==
  [text |-> "object", id |-> Null, method |-> "tools/call",
   params |-> "object", protocol |-> Newest, tool |-> "unknown",
   arguments |-> "object", key |-> Null, table |-> Null, previous |-> NoHash]

Texts == {"object", "array", "malformed", "blank", "fatal", "undecodable"}
Methods == {"initialize", "notifications/initialized", "tools/list", "ping",
            "tools/call", "unknown"}
OtherTools == {"unknown", "failing"}

Lines ==
  [text : Texts, id : Nat \cup {Null, BadId}, method : Methods \cup {NotText},
   params : {"object", "other"}, protocol : STRING,
   tool : OtherTools \cup {NotText}, arguments : {"object", "other"},
   key : {Null}, table : {Null}, previous : {NoHash}]

(* Only an object has an id, and the client sends the notification of its  *)
(* initialization as one.                                                  *)
ASSUME LinesAssumption ==
  /\ OtherLines \subseteq Lines
  /\ \A line \in OtherLines :
       line.text # "object" \/ line.method = "notifications/initialized"
         => line.id = Null

ASSUME AbsenceAssumption ==
  /\ Null \notin Nat \cup Tables \cup {BadId}
  /\ BadId \notin Nat
  /\ NotText \notin Methods \cup OtherTools \cup {"register", "evaluate"}

(* _jsonrpc_response and _jsonrpc_error *)
NoError == ""
Result(id, result) == [id |-> id, error |-> NoError, result |-> result]
Error(id, code) == [id |-> id, error |-> code, result |-> Null]
ToolError(id) == [id |-> id, error |-> "isError", result |-> Null]
NoReply == [id |-> Null, error |-> "none", result |-> Null]

(* The checks of _handle_request up to the method, the first that fails.   *)
Refused(line) ==
  \/ line.text # "object"
  \/ line.id = BadId
  \/ line.method = NotText
  \/ line.params # "object"

Refusal(line) ==
  Error(IF line.text # "object" \/ line.id = BadId THEN Null ELSE line.id,
        "-32600")

Negotiated(requested) == IF requested \in Supported THEN requested ELSE Newest

(* Mutant: the receipt is not linked to the hash the client passed. *)
DecidedUnlinked(line) ==
  NewReceipt(WithDefaults([decision |-> "decided", table_id |-> line.key,
                           table_hash |-> registry[line.key]]), NoHash)

(* _handle_evaluate_decision for a registered table. *)
Decided(line) ==
  NewReceipt(WithDefaults([decision |-> "decided", table_id |-> line.key,
                           table_hash |-> registry[line.key]]), line.previous)

(* Mutant: any table of that version is in the way, also the same one. *)
RegistrationConflictsAlways(line) == registry[line.key] # Null

RegistrationConflicts(line) == registry[line.key] \notin {Null, line.table}

(* tools/call: what the handler returns, or that it raises.                *)
Called(line) ==
  CASE line.tool = NotText \/ line.arguments # "object" ->
         Error(line.id, "-32602")
    [] line.tool = "unknown" -> Error(line.id, "-32601")
    [] line.tool = "register" ->
         IF RegistrationConflicts(line) THEN ToolError(line.id)
         ELSE Result(line.id, line.table)
    [] line.tool = "evaluate" ->
         IF registry[line.key] = Null THEN ToolError(line.id)
         ELSE Result(line.id, Decided(line))
    [] line.tool = "failing" -> ToolError(line.id)

(* _handle_request *)
HandleRequest(line) ==
  IF Refused(line) THEN Refusal(line)
  ELSE CASE line.method = "initialize" ->
              Result(line.id, Negotiated(line.protocol))
         [] line.method = "notifications/initialized" -> NoReply
         [] line.method \in {"tools/list", "ping"} -> Result(line.id, line.method)
         [] line.method = "tools/call" -> Called(line)
         [] line.method = "unknown" ->
              IF line.id = Null THEN NoReply ELSE Error(line.id, "-32601")

(* What a registration that is not refused leaves behind. *)
Registers(line) ==
  /\ line.text = "object" /\ ~Refused(line)
  /\ line.method = "tools/call" /\ line.tool = "register"
  /\ line.arguments = "object" /\ ~RegistrationConflicts(line)

-----------------------------------------------------------------------------
NoTables == [k \in Keys |-> Null]

Init ==
  /\ phase = "reading" /\ reply = NoReply
  /\ sent = <<>> /\ read = 0 /\ written = <<>> /\ taken = 0
  /\ hungUp = FALSE
  /\ registry = NoTables /\ directory = NoTables
  /\ awaited = 0 /\ chain = <<>> /\ replies = {}
  /\ nextId = 1 /\ others = 0 /\ restarts = 0

Running == phase \in {"reading", "replying"}

(* Mutant: as before 4.2.2, a line that is no object ends the process.     *)
AbortsUnlessObject(line) == line.text \in {"fatal", "undecodable", "array"}

(* json.loads raises something else than JSONDecodeError, which nothing    *)
(* around it catches: nesting too deep, a number too long.  Or the line is *)
(* no UTF-8, and the iteration over stdin raises.                          *)
Aborts(line) == line.text \in {"fatal", "undecodable"}

(* Mutant: a line that is no JSON text is answered with the reply that is  *)
(* left over from the request before.                                      *)
AnswerToStale(line) ==
  CASE line.text = "blank" -> NoReply
    [] line.text = "malformed" -> reply
    [] OTHER -> HandleRequest(line)

(* run_stdio: a blank line is passed over, a parse error is answered.      *)
AnswerTo(line) ==
  CASE line.text = "blank" -> NoReply
    [] line.text = "malformed" -> Error(Null, "-32700")
    [] OTHER -> HandleRequest(line)

(* Mutant: None is written to the client as well. *)
PhaseAfterAny(answer) == "replying"

PhaseAfter(answer) == IF answer = NoReply THEN "reading" ELSE "replying"

ReadLine ==
  /\ phase = "reading"
  /\ read < Len(sent)
  /\ LET line == sent[read + 1]
         answer == AnswerTo(line)
     IN  /\ ~Aborts(line)
         /\ reply' = answer
         /\ phase' = PhaseAfter(answer)
         /\ IF Registers(line)
            THEN /\ registry' = [registry EXCEPT ![line.key] = line.table]
                 /\ directory' = [directory EXCEPT ![line.key] = line.table]
            ELSE UNCHANGED <<registry, directory>>
         /\ replies' = IF line.tool # "register" THEN replies
                       ELSE replies \cup {[key |-> line.key, table |-> line.table,
                                           error |-> answer.error]}
  /\ read' = read + 1
  /\ UNCHANGED <<client, written>>

(* The input is decoded as it arrives, many lines at once: those before a  *)
(* line that is no UTF-8 may be lost with it.                              *)
Abort ==
  /\ phase = "reading"
  /\ \/ /\ read < Len(sent)
        /\ Aborts(sent[read + 1])
        /\ read' = read + 1
     \/ /\ \E i \in (read + 1)..Len(sent) : sent[i].text = "undecodable"
        /\ read' = read
  /\ phase' = "aborted"
  /\ UNCHANGED <<client, reply, written, registry, directory, replies>>

(* The reply is written and flushed before the next line is taken. *)
WriteReply ==
  /\ phase = "replying"
  /\ written' = Append(written, reply)
  /\ phase' = "reading"
  /\ UNCHANGED <<client, read, reply, registry, directory, replies>>

(* Mutant: the input that is left is not read any more. *)
EndUnread ==
  /\ phase = "reading"
  /\ hungUp
  /\ phase' = "ended"
  /\ UNCHANGED <<client, read, reply, written, registry, directory, replies>>

(* The end of the input ends run_stdio, and with it main. *)
End ==
  /\ phase = "reading"
  /\ hungUp /\ read = Len(sent)
  /\ phase' = "ended"
  /\ UNCHANGED <<client, read, reply, written, registry, directory, replies>>

(* The process ends by itself or is killed; what it wrote can still be     *)
(* read, what it has in hand is lost.                                      *)
Crash ==
  /\ Running
  /\ phase' = "crashed"
  /\ UNCHANGED <<client, read, reply, written, registry, directory, replies>>

-----------------------------------------------------------------------------
(* The client *)

Write(line) ==
  /\ Running /\ ~hungUp
  /\ sent' = Append(sent, line)
  /\ UNCHANGED <<server, taken, hungUp, chain, restarts>>

Ask(line) ==
  /\ nextId <= MaxRequests
  /\ nextId' = nextId + 1
  /\ Write([line EXCEPT !.id = nextId])

SendRegister(key, table) ==
  /\ Ask([Line EXCEPT !.tool = "register", !.key = key, !.table = table])
  /\ UNCHANGED <<awaited, others>>

(* The next decision is asked for when no other one is awaited. *)
SendEvaluate(key) ==
  /\ awaited = 0
  /\ awaited' = nextId
  /\ Ask([Line EXCEPT !.tool = "evaluate", !.key = key,
                      !.previous = LastHash(chain)])
  /\ UNCHANGED others

(* A line of another kind, with an id of its own where it has one. *)
SendOther(line) ==
  /\ others < MaxOthers
  /\ others' = others + 1
  /\ IF line.id \in {Null, BadId} THEN Write(line) /\ UNCHANGED nextId
     ELSE Ask(line)
  /\ UNCHANGED awaited

(* The receipt of the evaluation waited for is added to the chain. *)
Receive ==
  /\ taken < Len(written)
  /\ taken' = taken + 1
  /\ LET r == written[taken + 1]
     IN  /\ awaited' = IF r.id = awaited THEN 0 ELSE awaited
         /\ chain' = IF r.id = awaited /\ r.error = NoError
                     THEN Append(chain, r.result) ELSE chain
  /\ UNCHANGED <<server, sent, hungUp, nextId, others, restarts>>

(* A timeout: the answer may still come, and is then not wanted. *)
GiveUp ==
  /\ awaited # 0
  /\ awaited' = 0
  /\ UNCHANGED <<server, sent, taken, hungUp, chain, nextId, others, restarts>>

HangUp ==
  /\ Running /\ ~hungUp
  /\ hungUp' = TRUE
  /\ UNCHANGED <<server, sent, taken, awaited, chain, nextId, others, restarts>>

(* Mutant: the tables directory is not loaded. *)
LoadedNothing == NoTables

(* main and configure_tables *)
Loaded == directory

(* The client starts a new process and waits for nothing from the old one. *)
Restart ==
  /\ ~Running
  /\ restarts < MaxRestarts
  /\ restarts' = restarts + 1
  /\ phase' = "reading" /\ reply' = NoReply
  /\ sent' = <<>> /\ read' = 0 /\ written' = <<>> /\ taken' = 0
  /\ hungUp' = FALSE
  /\ registry' = Loaded
  /\ awaited' = 0
  /\ UNCHANGED <<directory, chain, replies, nextId, others>>

ClientStep ==
  \/ \E key \in Keys, table \in Tables : SendRegister(key, table)
  \/ \E key \in Keys : SendEvaluate(key)
  \/ \E line \in OtherLines : SendOther(line)
  \/ Receive
  \/ GiveUp
  \/ HangUp
  \/ Restart

ServerStep == ReadLine \/ Abort \/ WriteReply \/ End

Next == ClientStep \/ ServerStep \/ Crash

(* The process runs while it lives; nothing makes the client act.          *)
Spec == Init /\ [][Next]_vars /\ WF_vars(ServerStep)

-----------------------------------------------------------------------------
(* Every variable is of its kind; the process is down or has an answer in  *)
(* hand exactly in the phases that say so.                                 *)
TypeOK ==
  /\ phase \in {"reading", "replying", "ended", "crashed", "aborted"}
  /\ phase = "replying" => reply # NoReply
  /\ read \in 0..Len(sent) /\ taken \in 0..Len(written)
  /\ {registry, directory} \subseteq [Keys -> Tables \cup {Null}]
  /\ \A i \in DOMAIN chain : DOMAIN chain[i] = ReceiptFields
  /\ awaited \in 0..(nextId - 1)
  /\ nextId \in 1..(MaxRequests + 1)
  /\ others \in 0..MaxOthers /\ restarts \in 0..MaxRestarts

(* The replies are those of the requests, one each, in the order in which  *)
(* they were sent and under their ids, whatever other lines come between   *)
(* them: a client that pipelines can tell the answers apart, and what a    *)
(* crash leaves unanswered comes after all that was answered.  The client  *)
(* counts its ids upwards.  A line that is refused without an id is        *)
(* answered under none, and a notification that is none of the methods is  *)
(* not answered (run_stdio).                                               *)
IdsUpto(s, n) == {s[i].id : i \in 1..n} \ {Null, BadId}

Answers == IF phase = "replying" THEN Append(written, reply) ELSE written

RepliesInOrder ==
  LET asked == IdsUpto(sent, read)
      answered == IdsUpto(Answers, Len(Answers))
  IN  /\ \A i, j \in 1..Len(Answers) :
           i < j /\ Answers[i].id \in answered /\ Answers[j].id \in answered
             => Answers[i].id < Answers[j].id
      /\ IF phase = "crashed"
         THEN /\ answered \subseteq asked
              /\ \A a \in asked, b \in answered : a < b => a \in answered
         ELSE answered = asked

(* The chain the client keeps by passing the last hash along verifies,     *)
(* although the server keeps nothing of it: through crashes and restarts,  *)
(* lost answers, repeated requests and answers that come too late          *)
(* (previous_hash, _handle_evaluate_decision).                             *)
ClientChainVerifies == VerifyChain(chain)

(* A registration that is asked for again because its answer was lost is   *)
(* answered like the first time, before and after a restart; of all tables *)
(* offered for one version one is ever accepted (register, load).          *)
OneAnswerPerRegistration ==
  \A a, b \in replies :
    a.key = b.key =>
      /\ a.table = b.table => a.error = b.error
      /\ a.error = NoError /\ b.error = NoError => a.table = b.table

(* Every request is answered unless the process is killed, is given before *)
(* it a line whose parsing raises what run_stdio does not catch, or is     *)
(* given input that is no UTF-8: no other line stops the server, and       *)
(* closing the input does not cut it short.                                *)
Pending(id) ==
  /\ \E i \in DOMAIN sent :
       sent[i].id = id /\ \A j \in 1..i : sent[j].text # "fatal"
  /\ \A i \in DOMAIN sent : sent[i].text # "undecodable"
  /\ \A i \in DOMAIN written : written[i].id # id
  /\ phase # "crashed"

RequestsAreAnswered == \A id \in 1..MaxRequests : Pending(id) ~> ~Pending(id)
=============================================================================
