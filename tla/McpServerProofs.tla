---------------------------- MODULE McpServerProofs ----------------------------
(***************************************************************************)
(* The request loop, for every set of tables and of other lines, and any   *)
(* number of requests, crashes and restarts.                               *)
(***************************************************************************)
EXTENDS McpServer, OperatorLemmas

-----------------------------------------------------------------------------
(* A line the client sends: a call of one of the two tools that are told   *)
(* apart, or another line, with its own id or a new one.                   *)
WellFormed(line) ==
  /\ line.text = "object" /\ line.method = "tools/call"
  /\ line.params = "object" /\ line.arguments = "object"
  /\ line.key \in Keys /\ line.id \in Nat

IsRegistration(line) ==
  WellFormed(line) /\ line.tool = "register" /\ line.table \in Tables

IsEvaluation(line) == WellFormed(line) /\ line.tool = "evaluate"

IsOther(line) ==
  /\ line.tool \in OtherTools \cup {NotText}
  /\ line.text \in Texts /\ line.method \in Methods \cup {NotText}
  /\ line.id \in Nat \cup {Null, BadId}
  /\ line.text # "object" \/ line.method = "notifications/initialized"
       => line.id = Null

IsLine(line) == IsRegistration(line) \/ IsEvaluation(line) \/ IsOther(line)

IsRegistry(r) == r \in [Keys -> Tables \cup {Null}]

(* A result is no error. *)
LEMMA ErrorCodes ==
  NoError \notin {"none", "isError", "-32600", "-32601", "-32602", "-32700"}
BY Zenon DEF NoError

(***************************************************************************)
(* What the loop answers to one line.                                      *)
(***************************************************************************)
LEMMA AnswerToRegistration ==
  ASSUME NEW line, IsRegistration(line), IsRegistry(registry)
  PROVE  /\ AnswerTo(line) =
              IF registry[line.key] \in {Null, line.table}
              THEN Result(line.id, line.table) ELSE ToolError(line.id)
         /\ Registers(line) <=> registry[line.key] \in {Null, line.table}
         /\ ~Aborts(line)
<1>1. ~Refused(line)
  BY AbsenceAssumption DEF IsRegistration, WellFormed, Refused, Methods
<1>2. line.tool # NotText
  BY AbsenceAssumption DEF IsRegistration
<1>3. AnswerTo(line) = Called(line)
  BY <1>1 DEF IsRegistration, WellFormed, AnswerTo, HandleRequest
<1>4. Called(line) = IF RegistrationConflicts(line) THEN ToolError(line.id)
                     ELSE Result(line.id, line.table)
  BY <1>2 DEF IsRegistration, WellFormed, Called
<1> QED BY <1>1, <1>3, <1>4
        DEF RegistrationConflicts, Registers, Aborts, IsRegistration, WellFormed

(* An evaluation is answered by the registered table, or refused for want  *)
(* of one.                                                                 *)
LEMMA AnswerToEvaluation ==
  ASSUME NEW line, IsEvaluation(line), IsRegistry(registry)
  PROVE  /\ AnswerTo(line) = IF registry[line.key] = Null
                             THEN ToolError(line.id)
                             ELSE Result(line.id, Decided(line))
         /\ ~Registers(line) /\ ~Aborts(line)
<1>1. ~Refused(line)
  BY AbsenceAssumption DEF IsEvaluation, WellFormed, Refused, Methods
<1>2. line.tool # NotText
  BY AbsenceAssumption DEF IsEvaluation
<1>3. AnswerTo(line) = Called(line)
  BY <1>1 DEF IsEvaluation, WellFormed, AnswerTo, HandleRequest
<1>4. Called(line) = IF registry[line.key] = Null THEN ToolError(line.id)
                     ELSE Result(line.id, Decided(line))
  BY <1>2 DEF IsEvaluation, WellFormed, Called
<1> QED BY <1>3, <1>4 DEF Registers, Aborts, IsEvaluation, WellFormed

(* A line with a usable id is answered under it, and any other line under  *)
(* none or not at all.                                                     *)
LEMMA AnswerToOther ==
  ASSUME NEW line, IsOther(line), ~Aborts(line)
  PROVE  /\ line.id \in Nat =>
              AnswerTo(line).id = line.id /\ AnswerTo(line) # NoReply
         /\ line.id \notin Nat => AnswerTo(line).id = Null
         /\ ~Registers(line) /\ line.tool \notin {"register", "evaluate"}
<1> DEFINE a == AnswerTo(line)
<1>1. line.tool \notin {"register", "evaluate"}
  BY AbsenceAssumption DEF IsOther, OtherTools
<1>2. Null \notin Nat /\ BadId \notin Nat /\ Null # BadId
  BY AbsenceAssumption
<1>3. CASE line.text # "object"
  <2>1. line.id = Null
    BY <1>3 DEF IsOther
  <2>2. line.text \in {"array", "malformed", "blank"}
    BY <1>3 DEF IsOther, Texts, Aborts
  <2>3. a.id = Null
    BY <2>2 DEF AnswerTo, HandleRequest, Refused, Refusal, Error, NoReply
  <2> QED BY <1>1, <1>2, <2>1, <2>3 DEF Registers
<1>4. CASE line.text = "object" /\ Refused(line)
  <2>1. a = Refusal(line)
    BY <1>4 DEF AnswerTo, HandleRequest
  <2>2. a.id = (IF line.id = BadId THEN Null ELSE line.id) /\ a # NoReply
    BY <1>4, <2>1 DEF Refusal, Error, NoReply
  <2>3. line.id \in Nat \cup {Null, BadId} /\ ~Registers(line)
    BY <1>4 DEF IsOther, Registers
  <2> HIDE DEF a
  <2>4. line.id \in Nat => a.id = line.id
    BY <1>2, <2>2
  <2>5. line.id \notin Nat => a.id = Null
    BY <2>2, <2>3
  <2>6. a # NoReply
    BY <2>2
  <2>7. /\ line.id \in Nat => AnswerTo(line).id = line.id
        /\ line.id \notin Nat => AnswerTo(line).id = Null
        /\ AnswerTo(line) # NoReply
    BY <2>4, <2>5, <2>6 DEF a
  <2> QED BY <1>1, <2>3, <2>7
<1>5. CASE line.text = "object" /\ ~Refused(line)
  <2>1. line.id \in Nat \cup {Null} /\ line.method \in Methods
    BY <1>5 DEF Refused, IsOther
  <2>2. CASE line.method = "tools/call"
    <3>1. a = Called(line)
      BY <1>5, <2>2 DEF AnswerTo, HandleRequest
    <3>2. Called(line) \in {Error(line.id, "-32602"), Error(line.id, "-32601"),
                            ToolError(line.id)}
      BY <1>1 DEF Called, IsOther, OtherTools
    <3>3. a.id = line.id /\ a.error # "none"
      BY <3>1, <3>2 DEF Error, ToolError
    <3> QED BY <1>1, <1>2, <2>1, <3>3 DEF NoReply, Registers
  <2>3. CASE line.method \in {"initialize", "tools/list", "ping"}
    <3>1. a.id = line.id /\ a.error = NoError
      BY <1>5, <2>3 DEF AnswerTo, HandleRequest, Result
    <3>2. a.error # "none"
      BY <3>1, ErrorCodes
    <3> QED BY <1>1, <1>2, <2>1, <3>1, <3>2 DEF NoReply, Registers
  <2>4. CASE line.method = "notifications/initialized"
    <3>1. line.id = Null /\ a = NoReply
      BY <1>5, <2>4 DEF AnswerTo, HandleRequest, IsOther
    <3> QED BY <1>1, <1>2, <3>1 DEF NoReply, Registers
  <2>5. CASE line.method = "unknown"
    <3>1. a = IF line.id = Null THEN NoReply ELSE Error(line.id, "-32601")
      BY <1>5, <2>5 DEF AnswerTo, HandleRequest
    <3> QED BY <1>1, <1>2, <2>1, <3>1 DEF NoReply, Error, Registers
  <2> QED BY <2>1, <2>2, <2>3, <2>4, <2>5 DEF Methods
<1> QED BY <1>3, <1>4, <1>5

(* Every line that does not end the server is answered under its own id,   *)
(* or not at all if it has none; only registrations register.              *)
LEMMA AnswerToLine ==
  ASSUME NEW line, IsLine(line), IsRegistry(registry), ~Aborts(line)
  PROVE  /\ line.id \in Nat =>
              AnswerTo(line).id = line.id /\ AnswerTo(line) # NoReply
         /\ line.id \notin Nat => AnswerTo(line).id = Null
         /\ Registers(line) => IsRegistration(line)
         /\ line.tool = "register" => IsRegistration(line)
         /\ line.tool = "evaluate" => IsEvaluation(line)
<1> DEFINE a == AnswerTo(line)
<1>1. CASE IsRegistration(line)
  <2>1. a = Result(line.id, line.table) \/ a = ToolError(line.id)
    BY <1>1, AnswerToRegistration
  <2>2. a.id = line.id /\ a.error # "none"
    <3> HIDE DEF a
    <3>1. \A id, r : /\ Result(id, r).id = id /\ Result(id, r).error = NoError
                   /\ ToolError(id).id = id /\ ToolError(id).error = "isError"
      BY DEF Result, ToolError
    <3> QED BY <2>1, <3>1, ErrorCodes
  <2> QED BY <1>1, <2>2 DEF IsRegistration, WellFormed, NoReply
<1>2. CASE IsEvaluation(line)
  <2>1. /\ a = Result(line.id, Decided(line)) \/ a = ToolError(line.id)
        /\ ~Registers(line)
    BY <1>2, AnswerToEvaluation
  <2>2. a.id = line.id /\ a.error # "none"
    <3> HIDE DEF a
    <3>1. \A id, r : /\ Result(id, r).id = id /\ Result(id, r).error = NoError
                   /\ ToolError(id).id = id /\ ToolError(id).error = "isError"
      BY DEF Result, ToolError
    <3> QED BY <2>1, <3>1, ErrorCodes
  <2> QED BY <1>2, <2>1, <2>2 DEF IsEvaluation, WellFormed, NoReply
<1>3. CASE IsOther(line)
  BY <1>3, AnswerToOther
<1> QED BY <1>1, <1>2, <1>3 DEF IsLine

-----------------------------------------------------------------------------
(* The type invariant, with what the lines and answers of a process can be *)
(* and that their ids have been handed out.                                *)
Used(id, next) == id \in Nat => id \in 1..(next - 1)

Typed ==
  /\ phase \in {"reading", "replying", "ended", "crashed", "aborted"}
  /\ phase = "replying" => reply # NoReply
  /\ IsList(sent) /\ IsList(written) /\ IsList(chain)
  /\ read \in 0..Len(sent) /\ taken \in 0..Len(written)
  /\ IsRegistry(registry) /\ IsRegistry(directory)
  /\ nextId \in 1..(MaxRequests + 1) /\ awaited \in 0..(nextId - 1)
  /\ others \in 0..MaxOthers /\ restarts \in 0..MaxRestarts
  /\ \A i \in 1..Len(sent) : IsLine(sent[i]) /\ Used(sent[i].id, nextId)
  /\ \A i \in 1..Len(written) : written[i].id \in Nat \cup {Null}
                                /\ Used(written[i].id, nextId)
  /\ reply.id \in Nat \cup {Null} /\ Used(reply.id, nextId)

(* The client adds a line to those it sent, with the next id or none.      *)
Sends(line) ==
  /\ IsLine(line)
  /\ sent' = Append(sent, line)
  /\ \/ line.id = nextId /\ nextId' = nextId + 1
     \/ line.id \in {Null, BadId} /\ nextId' = nextId
  /\ nextId' \in 1..(MaxRequests + 1)
  /\ others' \in 0..MaxOthers
  /\ \/ awaited' = awaited
     \/ /\ awaited = 0 /\ awaited' = nextId
        /\ line.id = nextId /\ line.tool = "evaluate"
        /\ line.previous = LastHash(chain)
  /\ Running
  /\ UNCHANGED <<server, taken, hungUp, chain, restarts>>

(* The process takes a line and has its answer in hand, or none.           *)
Reads(line) ==
  /\ phase = "reading" /\ read < Len(sent) /\ line = sent[read + 1]
  /\ IsLine(line) /\ ~Aborts(line)
  /\ read' = read + 1
  /\ reply' = AnswerTo(line)
  /\ phase' = PhaseAfter(reply')
  /\ UNCHANGED <<client, written>>

(* A line that a client sends goes to the end of what was sent.            *)
LEMMA SendKinds ==
  ASSUME Typed,
         \/ \E key \in Keys, table \in Tables : SendRegister(key, table)
         \/ \E key \in Keys : SendEvaluate(key)
         \/ \E line \in OtherLines : SendOther(line)
  PROVE  \E line : Sends(line)
<1>1. nextId \in Nat /\ others \in Nat /\ MaxRequests \in Nat /\ MaxOthers \in Nat
  BY ServerBounds DEF Typed
<1>2. ASSUME NEW key \in Keys, NEW table \in Tables, SendRegister(key, table)
      PROVE  \E line : Sends(line)
  <2> DEFINE line == [[Line EXCEPT !.tool = "register", !.key = key,
                                   !.table = table] EXCEPT !.id = nextId]
  <2>1. IsRegistration(line) /\ line.id = nextId
    BY <1>1 DEF Line, IsRegistration, WellFormed
  <2>2. /\ sent' = Append(sent, line) /\ nextId' = nextId + 1
        /\ nextId <= MaxRequests /\ awaited' = awaited /\ others' = others
        /\ Running
        /\ UNCHANGED <<server, taken, hungUp, chain, restarts>>
    BY <1>2 DEF SendRegister, Ask, Write
  <2> HIDE DEF line
  <2> QED BY <1>1, <2>1, <2>2 DEF Sends, IsLine, Typed
<1>3. ASSUME NEW key \in Keys, SendEvaluate(key) PROVE \E line : Sends(line)
  <2> DEFINE line == [[Line EXCEPT !.tool = "evaluate", !.key = key,
                           !.previous = LastHash(chain)] EXCEPT !.id = nextId]
  <2>1. IsEvaluation(line) /\ line.id = nextId /\ line.previous = LastHash(chain)
    BY <1>1 DEF Line, IsEvaluation, WellFormed
  <2>2. /\ sent' = Append(sent, line) /\ nextId' = nextId + 1
        /\ nextId <= MaxRequests /\ awaited = 0 /\ awaited' = nextId
        /\ others' = others /\ Running
        /\ UNCHANGED <<server, taken, hungUp, chain, restarts>>
    BY <1>3 DEF SendEvaluate, Ask, Write
  <2> HIDE DEF line
  <2> QED BY <1>1, <2>1, <2>2 DEF Sends, IsLine, Typed, IsEvaluation
<1>4. ASSUME NEW other \in OtherLines, SendOther(other)
      PROVE  \E line : Sends(line)
  <2>1. other \in Lines /\ IsOther(other)
    BY LinesAssumption DEF IsOther, Lines
  <2>2. others' \in 0..MaxOthers /\ awaited' = awaited
    BY <1>1, <1>4 DEF SendOther
  <2>3. CASE other.id \in {Null, BadId}
    <3>1. /\ sent' = Append(sent, other) /\ nextId' = nextId /\ Running
          /\ UNCHANGED <<server, taken, hungUp, chain, restarts>>
      BY <1>4, <2>3 DEF SendOther, Write
    <3> QED BY <2>1, <2>2, <2>3, <3>1 DEF Sends, IsLine, Typed
  <2>4. CASE other.id \notin {Null, BadId}
    <3> DEFINE line == [other EXCEPT !.id = nextId]
    <3>1. /\ sent' = Append(sent, line) /\ nextId' = nextId + 1 /\ Running
          /\ nextId <= MaxRequests
          /\ UNCHANGED <<server, taken, hungUp, chain, restarts>>
      BY <1>4, <2>4 DEF SendOther, Ask, Write
    <3>2. other.text = "object" /\ other.method # "notifications/initialized"
      BY <2>4, LinesAssumption
    <3>3. /\ line.id = nextId /\ line.tool = other.tool
          /\ line.text = other.text /\ line.method = other.method
      BY <2>1 DEF Lines
    <3> HIDE DEF line
    <3>4. IsOther(line)
      BY <1>1, <2>1, <3>2, <3>3 DEF IsOther
    <3> QED BY <1>1, <2>2, <3>1, <3>3, <3>4 DEF Sends, IsLine, Typed
  <2> QED BY <2>3, <2>4
<1> QED BY <1>2, <1>3, <1>4

(* A line that the server reads is the next one, and is handled whole.     *)
LEMMA ReadKind ==
  ASSUME Typed, ReadLine
  PROVE  Reads(sent[read + 1])
<1>1. read + 1 \in 1..Len(sent)
  BY DEF Typed, IsList, ReadLine
<1>2. IsLine(sent[read + 1])
  BY <1>1 DEF Typed
<1> QED BY <1>1, <1>2 DEF ReadLine, Reads

(* What a registration does to the registry and to the directory.          *)
LEMMA ReadRegisters ==
  ASSUME Typed, ReadLine, NEW line, line = sent[read + 1]
  PROVE  /\ IF Registers(line)
            THEN /\ line.key \in Keys /\ line.table \in Tables
                 /\ registry' = [registry EXCEPT ![line.key] = line.table]
                 /\ directory' = [directory EXCEPT ![line.key] = line.table]
            ELSE registry' = registry /\ directory' = directory
         /\ replies' = IF line.tool # "register" THEN replies
                       ELSE replies \cup {[key |-> line.key,
                                           table |-> line.table,
                                           error |-> AnswerTo(line).error]}
         /\ IsRegistry(registry') /\ IsRegistry(directory')
<1>1. IsLine(line) /\ ~Aborts(line)
  BY ReadKind DEF Reads
<1>2. Registers(line) => line.key \in Keys /\ line.table \in Tables
  BY <1>1, AnswerToLine DEF Typed, IsRegistration, WellFormed
<1> QED BY <1>2 DEF ReadLine, Typed, IsRegistry

(* The answer in hand belongs to the line that was taken. *)
LEMMA ReadAnswers ==
  ASSUME Typed, NEW line, Reads(line)
  PROVE  /\ line.id \in Nat => reply'.id = line.id /\ phase' = "replying"
         /\ line.id \notin Nat => reply'.id = Null
         /\ phase' = "replying" => reply' # NoReply
         /\ phase' \in {"reading", "replying"}
         /\ reply'.id \in Nat \cup {Null} /\ Used(reply'.id, nextId)
<1>1. IsLine(line) /\ ~Aborts(line) /\ reply' = AnswerTo(line)
      /\ phase' = PhaseAfter(reply')
  BY DEF Reads
<1>2. Used(line.id, nextId)
  <2>1. read + 1 \in 1..Len(sent)
    BY DEF Typed, IsList, Reads
  <2> QED BY <2>1 DEF Typed, Reads
<1>3. /\ line.id \in Nat => AnswerTo(line).id = line.id /\ AnswerTo(line) # NoReply
      /\ line.id \notin Nat => AnswerTo(line).id = Null
  BY <1>1, AnswerToLine DEF Typed
<1> QED BY <1>1, <1>2, <1>3, AbsenceAssumption DEF PhaseAfter, Used

(* What the process and the client hold stays of these kinds, and no line  *)
(* or answer has an id that was not handed out.                            *)
THEOREM TypeInvariant == Spec => []Typed
<1>1. Init => Typed
  <2> SUFFICES ASSUME Init PROVE Typed
    OBVIOUS
  <2>1. /\ IsList(sent) /\ IsList(written) /\ IsList(chain)
        /\ Len(sent) = 0 /\ Len(written) = 0
    BY EmptyList DEF Init
  <2>2. IsRegistry(registry) /\ IsRegistry(directory)
    BY DEF Init, IsRegistry, NoTables
  <2>3. reply.id = Null /\ Null \notin Nat
    BY AbsenceAssumption DEF Init, NoReply
  <2>4. /\ phase = "reading" /\ read = 0 /\ taken = 0
        /\ nextId = 1 /\ awaited = 0 /\ others = 0 /\ restarts = 0
    BY DEF Init
  <2> QED BY <2>1, <2>2, <2>3, <2>4, ServerBounds DEF Typed, Used
<1>2. Typed /\ [Next]_vars => Typed'
  <2> SUFFICES ASSUME Typed, [Next]_vars PROVE Typed'
    OBVIOUS
  <2> USE DEF server, client
  <2>0. /\ Len(sent) \in Nat /\ Len(written) \in Nat
        /\ nextId \in Nat \ {0} /\ MaxRestarts \in Nat
    BY ServerBounds DEF Typed, IsList
  <2>1. ASSUME NEW line, Sends(line) PROVE Typed'
    <3>1. nextId' \in {nextId, nextId + 1}
      BY <2>1 DEF Sends
    <3>2. \A id : Used(id, nextId) => Used(id, nextId')
      <4>1. ASSUME NEW n \in 1..(nextId - 1) PROVE n \in 1..(nextId' - 1)
        <5>1. CASE nextId' = nextId
          BY <5>1
        <5>2. CASE nextId' = nextId + 1
          BY <2>0, <5>2
        <5> QED BY <3>1, <5>1, <5>2
      <4> QED BY <4>1 DEF Used
    <3>3. Used(line.id, nextId')
      BY <2>0, <2>1, <3>1, AbsenceAssumption DEF Sends, Used
    <3>4. awaited' \in 0..(nextId' - 1)
      <4>1. awaited \in Nat /\ awaited <= nextId - 1
        BY <2>0 DEF Typed
      <4>2. awaited' = nextId => nextId' = nextId + 1 \/ awaited' = awaited
        BY <2>0, <2>1, AbsenceAssumption DEF Sends
      <4>3. awaited' = awaited \/ awaited' = nextId
        BY <2>1 DEF Sends
      <4> QED BY <2>0, <3>1, <4>1, <4>2, <4>3
    <3>5. /\ IsList(sent') /\ Len(sent') = Len(sent) + 1
          /\ \A i \in 1..Len(sent') :
               IsLine(sent'[i]) /\ Used(sent'[i].id, nextId')
      <4>1. /\ Len(sent') = Len(sent) + 1 /\ IsList(sent')
            /\ \A i \in 1..Len(sent) : sent'[i] = sent[i]
            /\ sent'[Len(sent) + 1] = line
        BY <2>1, AppendToList DEF Sends, Typed
      <4>2. \A i \in 1..Len(sent) : IsLine(sent[i]) /\ Used(sent[i].id, nextId')
        BY <3>2 DEF Typed
      <4>3. IsLine(line)
        BY <2>1 DEF Sends
      <4>4. \A i \in 1..Len(sent') : i \in 1..Len(sent) \/ i = Len(sent) + 1
        BY <2>0, <4>1
      <4> QED BY <3>3, <4>1, <4>2, <4>3, <4>4
    <3>6. /\ \A i \in 1..Len(written) : Used(written[i].id, nextId')
          /\ Used(reply.id, nextId')
      BY <3>2 DEF Typed
    <3>7. /\ read' \in 0..Len(sent') /\ nextId' \in 1..(MaxRequests + 1)
          /\ others' \in 0..MaxOthers
          /\ UNCHANGED <<server, taken, chain, restarts>>
      BY <2>0, <2>1, <3>5 DEF Sends, Typed
    <3> QED BY <3>4, <3>5, <3>6, <3>7 DEF Typed
  <2>2. CASE ReadLine
    <3> DEFINE line == sent[read + 1]
    <3>1. Reads(line)
      BY <2>2, ReadKind
    <3>2. IsRegistry(registry') /\ IsRegistry(directory')
      BY <2>2, ReadRegisters
    <3> HIDE DEF line
    <3>3. /\ phase' = "replying" => reply' # NoReply
          /\ phase' \in {"reading", "replying"}
          /\ reply'.id \in Nat \cup {Null} /\ Used(reply'.id, nextId)
      BY <3>1, ReadAnswers
    <3>4. read' \in 0..Len(sent)
      BY <2>0, <3>1 DEF Reads, Typed
    <3>5. UNCHANGED <<client, written>>
      BY <3>1 DEF Reads
    <3> QED BY <3>2, <3>3, <3>4, <3>5 DEF Typed, Used
  <2>3. CASE Abort
    <3>1. read' \in 0..Len(sent)
      BY <2>0, <2>3 DEF Abort, Typed
    <3> QED BY <2>3, <3>1 DEF Abort, Typed, Used
  <2>4. CASE WriteReply
    <3>1. /\ Len(written') = Len(written) + 1 /\ IsList(written')
          /\ \A i \in 1..Len(written) : written'[i] = written[i]
          /\ written'[Len(written) + 1] = reply
      BY <2>4, AppendToList DEF WriteReply, Typed
    <3>2. \A i \in 1..Len(written') : i \in 1..Len(written) \/ i = Len(written) + 1
      BY <2>0, <3>1
    <3>3. \A i \in 1..Len(written') : written'[i].id \in Nat \cup {Null}
                                      /\ Used(written'[i].id, nextId)
      BY <3>1, <3>2 DEF Typed
    <3>4. taken \in 0..Len(written')
      BY <2>0, <3>1 DEF Typed
    <3> QED BY <2>4, <3>1, <3>3, <3>4 DEF WriteReply, Typed, Used
  <2>5. CASE End \/ Crash
    BY <2>5 DEF End, Crash, Typed, Used
  <2>6. CASE Receive
    <3> DEFINE r == written[taken + 1]
    <3>1. taken' \in 0..Len(written)
      BY <2>0, <2>6 DEF Receive, Typed
    <3>2. IsList(chain')
      <4>1. chain' = chain \/ chain' = Append(chain, r.result)
        BY <2>6 DEF Receive
      <4>2. IsList(Append(chain, r.result))
        BY AppendToList DEF Typed
      <4> QED BY <4>1, <4>2 DEF Typed
    <3>3. awaited' \in 0..(nextId - 1)
      BY <2>0, <2>6 DEF Receive, Typed
    <3> QED BY <2>6, <3>1, <3>2, <3>3 DEF Receive, Typed, Used
  <2>7. CASE GiveUp
    BY <2>0, <2>7 DEF GiveUp, Typed, Used
  <2>8. CASE HangUp
    BY <2>8 DEF HangUp, Typed, Used
  <2>9. CASE Restart
    <3>1. /\ IsList(sent') /\ IsList(written')
          /\ Len(sent') = 0 /\ Len(written') = 0
      BY <2>9, EmptyList DEF Restart
    <3>2. reply'.id = Null /\ Null \notin Nat
      BY <2>9, AbsenceAssumption DEF Restart, NoReply
    <3>3. IsRegistry(registry')
      BY <2>9 DEF Restart, Typed, Loaded
    <3>4. /\ phase' = "reading" /\ read' = 0 /\ taken' = 0 /\ awaited' = 0
          /\ restarts' \in 0..MaxRestarts
          /\ UNCHANGED <<directory, chain, replies, nextId, others>>
      BY <2>0, <2>9 DEF Restart, Typed
    <3> QED BY <2>0, <3>1, <3>2, <3>3, <3>4 DEF Typed, Used
  <2>10. CASE UNCHANGED vars
    BY <2>10 DEF vars, Typed, Used
  <2> QED BY <2>1, <2>2, <2>3, <2>4, <2>5, <2>6, <2>7, <2>8, <2>9, <2>10,
             SendKinds
          DEF Next, ClientStep, ServerStep
<1> QED BY <1>1, <1>2, PTL DEF Spec

-----------------------------------------------------------------------------
(* What the process holds is what is on disk, and every registration that  *)
(* was answered was answered by what is on disk now: a version that has    *)
(* a table keeps it.                                                       *)
AnsweredByDisk ==
  /\ registry = directory
  /\ \A a \in replies :
       /\ a.key \in Keys /\ a.table \in Tables
       /\ directory[a.key] # Null
       /\ a.error = IF directory[a.key] = a.table THEN NoError ELSE "isError"

(* The replies to registrations stay those the directory gives.            *)
LEMMA AnsweredByDiskInvariant == Spec => []AnsweredByDisk
<1>1. Init => AnsweredByDisk
  BY DEF Init, AnsweredByDisk
<1>2. Typed /\ AnsweredByDisk /\ [Next]_vars => AnsweredByDisk'
  <2> SUFFICES ASSUME Typed, AnsweredByDisk, [Next]_vars PROVE AnsweredByDisk'
    OBVIOUS
  <2>1. CASE ReadLine
    <3> DEFINE line == sent[read + 1]
               new == [key |-> line.key, table |-> line.table,
                       error |-> AnswerTo(line).error]
    <3>0. IsLine(line) /\ ~Aborts(line)
      BY <2>1, ReadKind DEF Reads
    <3>1. /\ Registers(line) => IsRegistration(line)
          /\ line.tool = "register" => IsRegistration(line)
      BY <3>0, AnswerToLine DEF Typed
    <3>2. /\ IF Registers(line)
             THEN /\ line.key \in Keys /\ line.table \in Tables
                  /\ registry' = [registry EXCEPT ![line.key] = line.table]
                  /\ directory' = [directory EXCEPT ![line.key] = line.table]
             ELSE registry' = registry /\ directory' = directory
          /\ replies' = IF line.tool # "register" THEN replies
                        ELSE replies \cup {new}
      BY <2>1, ReadRegisters
    <3>3. registry' = directory'
      BY <3>2 DEF AnsweredByDisk
    <3> HIDE DEF line
    <3>4. Registers(line) => registry[line.key] \in {Null, line.table}
      BY <3>1, AnswerToRegistration DEF Typed
    <3>5. \A key \in Keys : directory[key] # Null => directory'[key] = directory[key]
      BY <3>2, <3>4 DEF AnsweredByDisk, Typed, IsRegistry
    <3>6. ASSUME NEW a \in replies
          PROVE  /\ a.key \in Keys /\ a.table \in Tables
                 /\ directory'[a.key] # Null
                 /\ a.error = IF directory'[a.key] = a.table
                              THEN NoError ELSE "isError"
      BY <3>5 DEF AnsweredByDisk
    <3>7. ASSUME IsRegistration(line)
          PROVE  /\ line.key \in Keys /\ line.table \in Tables
                 /\ directory'[line.key] # Null
                 /\ AnswerTo(line).error = IF directory'[line.key] = line.table
                                           THEN NoError ELSE "isError"
      <4>1. line.key \in Keys /\ line.table \in Tables /\ line.table # Null
        BY <3>7, AbsenceAssumption DEF IsRegistration, WellFormed
      <4>2. CASE directory[line.key] \in {Null, line.table}
        <5>1. AnswerTo(line) = Result(line.id, line.table) /\ Registers(line)
          BY <3>7, <4>2, AnswerToRegistration DEF Typed, AnsweredByDisk
        <5>2. directory'[line.key] = line.table
          BY <3>2, <4>1, <5>1 DEF Typed, IsRegistry
        <5> QED BY <4>1, <5>1, <5>2 DEF Result
      <4>3. CASE directory[line.key] \notin {Null, line.table}
        <5>1. AnswerTo(line) = ToolError(line.id) /\ ~Registers(line)
          BY <3>7, <4>3, AnswerToRegistration DEF Typed, AnsweredByDisk
        <5>2. directory'[line.key] = directory[line.key]
          BY <3>2, <5>1
        <5> QED BY <4>1, <4>3, <5>1, <5>2 DEF ToolError
      <4> QED BY <4>2, <4>3
    <3>8. CASE line.tool # "register"
      BY <3>2, <3>3, <3>6, <3>8 DEF AnsweredByDisk
    <3>9. CASE line.tool = "register"
      <4>1. replies' = replies \cup {new}
        BY <3>2, <3>9
      <4>2. \A a \in replies' :
              /\ a.key \in Keys /\ a.table \in Tables
              /\ directory'[a.key] # Null
              /\ a.error = IF directory'[a.key] = a.table
                           THEN NoError ELSE "isError"
        BY <3>1, <3>6, <3>7, <3>9, <4>1
      <4> QED BY <3>3, <4>2 DEF AnsweredByDisk
    <3> QED BY <3>8, <3>9
  <2>2. CASE Restart
    BY <2>2 DEF Restart, Loaded, AnsweredByDisk
  <2>3. ASSUME NEW line, Sends(line) PROVE AnsweredByDisk'
    BY <2>3 DEF Sends, server, AnsweredByDisk
  <2>4. CASE Abort \/ WriteReply \/ End \/ Crash
    BY <2>4 DEF Abort, WriteReply, End, Crash, AnsweredByDisk
  <2>5. CASE Receive \/ GiveUp \/ HangUp
    BY <2>5 DEF Receive, GiveUp, HangUp, server, AnsweredByDisk
  <2>6. CASE UNCHANGED vars
    BY <2>6 DEF vars, AnsweredByDisk
  <2> QED BY <2>1, <2>2, <2>3, <2>4, <2>5, <2>6, SendKinds
          DEF Next, ClientStep, ServerStep
<1> QED BY <1>1, <1>2, TypeInvariant, PTL DEF Spec

(***************************************************************************)
(* A registration is answered alike whenever it is asked for, and of all   *)
(* tables offered for one version one is ever accepted (register, load).   *)
(***************************************************************************)
THEOREM RegistrationsAnsweredAlike == Spec => []OneAnswerPerRegistration
<1>1. AnsweredByDisk => OneAnswerPerRegistration
  BY ErrorCodes DEF AnsweredByDisk, OneAnswerPerRegistration
<1> QED BY <1>1, AnsweredByDiskInvariant, PTL

-----------------------------------------------------------------------------
(* Whatever comes under the id of the evaluation that is awaited carries   *)
(* the chain on: no other line has that id, and the one that has asks for  *)
(* a receipt linked to the last one.                                       *)
CarriesOn(r, kept) ==
  r.error = NoError =>
    /\ IsReceipt(r.result) /\ VerifyHash(r.result)
    /\ r.result["previous_hash"] = LastHash(kept)

Awaiting ==
  awaited # 0 =>
    /\ \A i \in 1..Len(sent) : sent[i].id = awaited =>
         sent[i].tool = "evaluate" /\ sent[i].previous = LastHash(chain)
    /\ reply.id = awaited => CarriesOn(reply, chain)
    /\ \A i \in 1..Len(written) :
         written[i].id = awaited => CarriesOn(written[i], chain)

Kept ==
  VerifyChain(chain) /\ \A i \in 1..Len(chain) : IsReceipt(chain[i])

(* The answer to an evaluation is a receipt linked to what was passed.     *)
LEMMA EvaluationCarriesOn ==
  ASSUME NEW line, IsEvaluation(line), IsRegistry(registry),
         NEW kept, line.previous = LastHash(kept)
  PROVE  CarriesOn(AnswerTo(line), kept)
<1> DEFINE a == AnswerTo(line)
<1>1. \/ a = ToolError(line.id)
      \/ a = Result(line.id, Decided(line))
  BY AnswerToEvaluation
<1>2. \E args : Decided(line) = NewReceipt(args, line.previous)
  BY DEF Decided
<1>3. /\ IsReceipt(Decided(line)) /\ VerifyHash(Decided(line))
      /\ Decided(line)["previous_hash"] = LastHash(kept)
  BY <1>2, NewReceiptSealed
<1>4. a.error = "isError" \/ a.result = Decided(line)
  <2> HIDE DEF a
  <2> QED BY <1>1 DEF ToolError, Result
<1> HIDE DEF a
<1>5. a.error = NoError => a.result = Decided(line)
  BY <1>4, ErrorCodes
<1>6. CarriesOn(a, kept)
  BY <1>3, <1>5 DEF CarriesOn
<1> QED BY <1>6 DEF a

(* The chain a client keeps verifies, whatever reply it waits for.         *)
LEMMA ChainInvariant == Spec => [](Awaiting /\ Kept)
<1>1. Init => Awaiting /\ Kept
  BY EmptyList DEF Init, Awaiting, Kept, VerifyChain
<1>2. Typed /\ Awaiting /\ Kept /\ [Next]_vars => (Awaiting /\ Kept)'
  <2> SUFFICES ASSUME Typed, Awaiting, Kept, [Next]_vars
               PROVE  Awaiting' /\ Kept'
    OBVIOUS
  <2> USE DEF server, client
  <2>0. /\ Len(sent) \in Nat /\ Len(written) \in Nat /\ nextId \in Nat \ {0}
        /\ awaited \in Nat /\ awaited < nextId
        /\ Null \notin Nat /\ BadId \notin Nat
    BY AbsenceAssumption DEF Typed, IsList
  <2>1. ASSUME NEW line, Sends(line) PROVE Awaiting' /\ Kept'
    <3>1. /\ Len(sent') = Len(sent) + 1
          /\ \A i \in 1..Len(sent) : sent'[i] = sent[i]
          /\ sent'[Len(sent) + 1] = line
      BY <2>1, AppendToList DEF Sends, Typed
    <3>2. \A i \in 1..Len(sent') : i \in 1..Len(sent) \/ i = Len(sent) + 1
      BY <2>0, <3>1
    <3>3. chain' = chain /\ reply' = reply /\ written' = written
      BY <2>1 DEF Sends
    <3>4. Kept'
      BY <3>3 DEF Kept
    <3>5. CASE awaited' = awaited
      <4>1. line.id # awaited
        BY <2>0, <2>1 DEF Sends
      <4>2. awaited # 0 => \A i \in 1..Len(sent') : sent'[i].id = awaited =>
              sent'[i].tool = "evaluate" /\ sent'[i].previous = LastHash(chain)
        BY <3>1, <3>2, <4>1 DEF Awaiting
      <4> QED BY <3>3, <3>4, <3>5, <4>2 DEF Awaiting
    <3>6. CASE awaited' # awaited
      <4>1. /\ awaited' = nextId /\ line.tool = "evaluate"
            /\ line.previous = LastHash(chain)
        BY <2>1, <3>6 DEF Sends
      <4>2. \A id : Used(id, nextId) => id # nextId
        BY <2>0 DEF Used
      <4>3. /\ \A i \in 1..Len(sent) : sent[i].id # nextId
            /\ \A i \in 1..Len(written) : written[i].id # nextId
            /\ reply.id # nextId
        BY <4>2 DEF Typed
      <4>4. \A i \in 1..Len(sent') : sent'[i].id = nextId =>
              sent'[i].tool = "evaluate" /\ sent'[i].previous = LastHash(chain)
        BY <3>1, <3>2, <4>1, <4>3
      <4> QED BY <3>3, <3>4, <4>1, <4>3, <4>4 DEF Awaiting
    <3> QED BY <3>5, <3>6
  <2>2. CASE ReadLine
    <3> DEFINE line == sent[read + 1]
    <3>1. Reads(line) /\ IsLine(line) /\ ~Aborts(line) /\ reply' = AnswerTo(line)
      BY <2>2, ReadKind DEF Reads
    <3>2. read + 1 \in 1..Len(sent)
      BY <2>0, <2>2 DEF ReadLine, Typed
    <3>3. UNCHANGED <<awaited, chain, sent, written>>
      BY <2>2 DEF ReadLine
    <3>4. ASSUME awaited # 0, reply'.id = awaited PROVE CarriesOn(reply', chain)
      <4>1. line.id = awaited
        BY <2>0, <3>1, <3>4, ReadAnswers
      <4>2. line.tool = "evaluate" /\ line.previous = LastHash(chain)
        BY <3>2, <3>4, <4>1 DEF Awaiting
      <4>3. IsEvaluation(line)
        BY <3>1, <4>2, AnswerToLine DEF Typed
      <4> QED BY <3>1, <4>2, <4>3, EvaluationCarriesOn DEF Typed
    <3> QED BY <3>3, <3>4 DEF Awaiting, Kept
  <2>3. CASE WriteReply
    <3>1. /\ Len(written') = Len(written) + 1
          /\ \A i \in 1..Len(written) : written'[i] = written[i]
          /\ written'[Len(written) + 1] = reply
      BY <2>3, AppendToList DEF WriteReply, Typed
    <3>2. \A i \in 1..Len(written') : i \in 1..Len(written) \/ i = Len(written) + 1
      BY <2>0, <3>1
    <3>3. UNCHANGED <<awaited, chain, sent, reply>>
      BY <2>3 DEF WriteReply
    <3>4. awaited # 0 => \A i \in 1..Len(written') :
            written'[i].id = awaited => CarriesOn(written'[i], chain)
      BY <3>1, <3>2 DEF Awaiting
    <3> QED BY <3>3, <3>4 DEF Awaiting, Kept
  <2>4. CASE Receive
    <3> DEFINE r == written[taken + 1]
    <3>1. taken + 1 \in 1..Len(written)
      BY <2>0, <2>4 DEF Receive, Typed
    <3>2. r.id \in Nat => r.id # 0
      BY <2>0, <3>1 DEF Typed, Used
    <3>3. UNCHANGED <<sent, reply, written>>
      BY <2>4 DEF Receive
    <3>4. CASE r.id = awaited
      <4>1. awaited # 0 /\ awaited' = 0
        BY <2>0, <2>4, <3>2, <3>4 DEF Receive
      <4>2. CASE r.error = NoError
        <5>1. chain' = Append(chain, r.result)
          BY <2>4, <3>4, <4>2 DEF Receive
        <5>2. CarriesOn(r, chain)
          BY <3>1, <3>4, <4>1 DEF Awaiting
        <5> HIDE DEF r
        <5>3. /\ IsReceipt(r.result) /\ VerifyHash(r.result)
              /\ r.result["previous_hash"] = LastHash(chain)
          BY <4>2, <5>2 DEF CarriesOn
        <5>4. VerifyChain(chain')
          BY <5>1, <5>3, AppendVerifies DEF Typed, Kept
        <5>5. /\ Len(chain') = Len(chain) + 1 /\ Len(chain) \in Nat
              /\ \A i \in 1..Len(chain) : chain'[i] = chain[i]
              /\ chain'[Len(chain) + 1] = r.result
          BY <5>1, AppendToList DEF Typed, IsList
        <5>6. \A i \in 1..Len(chain') : i \in 1..Len(chain) \/ i = Len(chain) + 1
          BY <5>5
        <5>7. \A i \in 1..Len(chain') : IsReceipt(chain'[i])
          BY <5>3, <5>5, <5>6 DEF Kept
        <5> QED BY <4>1, <5>4, <5>7 DEF Awaiting, Kept
      <4>3. CASE r.error # NoError
        <5>1. chain' = chain
          BY <2>4, <4>3 DEF Receive
        <5> QED BY <4>1, <5>1 DEF Awaiting, Kept
      <4> QED BY <4>2, <4>3
    <3>5. CASE r.id # awaited
      <4>1. chain' = chain /\ awaited' = awaited
        BY <2>4, <3>5 DEF Receive
      <4> QED BY <3>3, <4>1 DEF Awaiting, Kept
    <3> QED BY <3>4, <3>5
  <2>5. CASE GiveUp
    BY <2>5 DEF GiveUp, Awaiting, Kept
  <2>6. CASE Restart
    BY <2>6 DEF Restart, Awaiting, Kept
  <2>7. CASE Abort \/ End \/ Crash \/ HangUp
    BY <2>7 DEF Abort, End, Crash, HangUp, Awaiting, Kept
  <2>8. CASE UNCHANGED vars
    BY <2>8 DEF vars, Awaiting, Kept
  <2> QED BY <2>1, <2>2, <2>3, <2>4, <2>5, <2>6, <2>7, <2>8, SendKinds
          DEF Next, ClientStep, ServerStep
<1> QED BY <1>1, <1>2, TypeInvariant, PTL DEF Spec

(***************************************************************************)
(* The chain the client keeps verifies, through crashes and restarts, lost *)
(* and late answers and repeated requests: the server, which keeps nothing *)
(* of it, links each receipt to the hash it is passed.                     *)
(***************************************************************************)
THEOREM ChainKeptVerifies == Spec => []ClientChainVerifies
<1>1. Kept => ClientChainVerifies
  BY DEF Kept, ClientChainVerifies
<1> QED BY <1>1, ChainInvariant, PTL

(* TypeOK follows: what the client keeps are receipts.                     *)
THEOREM TypeCorrect == Spec => []TypeOK
<1>1. Typed /\ Kept => TypeOK
  <2> SUFFICES ASSUME Typed, Kept PROVE TypeOK
    OBVIOUS
  <2>1. DOMAIN chain = 1..Len(chain)
    BY DEF Typed, IsList
  <2>2. \A i \in DOMAIN chain : DOMAIN chain[i] = ReceiptFields
    BY <2>1 DEF Kept, IsReceipt
  <2> QED BY <2>2 DEF Typed, TypeOK, IsRegistry
<1> QED BY <1>1, TypeInvariant, ChainInvariant, PTL

-----------------------------------------------------------------------------
(* The ids of what was taken, written and is in hand.  The client counts   *)
(* its ids upwards, so that their order is that of the lines.              *)
Asked(n) == \E i \in 1..read : sent[i].id = n
Wrote(n) == \E i \in 1..Len(written) : written[i].id = n
InHand(n) == phase = "replying" /\ reply.id = n

SentUpwards ==
  \A i, j \in 1..Len(sent) :
    i < j /\ sent[i].id \in Nat /\ sent[j].id \in Nat => sent[i].id < sent[j].id

WrittenUpwards ==
  /\ \A i, j \in 1..Len(written) :
       i < j /\ written[i].id \in Nat /\ written[j].id \in Nat
         => written[i].id < written[j].id
  /\ \A n, m \in Nat : Wrote(n) /\ InHand(m) => n < m

AskedAnswered ==
  IF phase = "crashed"
  THEN /\ \A n \in Nat : Wrote(n) => Asked(n)
       /\ \A n, m \in Nat : Asked(n) /\ Wrote(m) /\ n < m => Wrote(n)
  ELSE \A n \in Nat : Asked(n) <=> Wrote(n) \/ InHand(n)

(* What is asked and what is answered stay in the order of the ids.        *)
LEMMA OrderInvariant ==
  Spec => [](SentUpwards /\ WrittenUpwards /\ AskedAnswered)
<1> DEFINE Ordered == SentUpwards /\ WrittenUpwards /\ AskedAnswered
<1>1. Init => Ordered
  BY EmptyList DEF Init, SentUpwards, WrittenUpwards, AskedAnswered, Asked, Wrote,
                   InHand
<1>2. Typed /\ Ordered /\ [Next]_vars => Ordered'
  <2> SUFFICES ASSUME Typed, SentUpwards, WrittenUpwards, AskedAnswered,
                      [Next]_vars
               PROVE  SentUpwards' /\ WrittenUpwards' /\ AskedAnswered'
    OBVIOUS
  <2> USE DEF server, client
  <2>0. /\ Len(sent) \in Nat /\ Len(written) \in Nat /\ nextId \in Nat \ {0}
        /\ read \in Nat /\ read <= Len(sent)
        /\ Null \notin Nat /\ BadId \notin Nat
    BY AbsenceAssumption DEF Typed, IsList
  <2>1. ASSUME NEW line, Sends(line)
        PROVE  SentUpwards' /\ WrittenUpwards' /\ AskedAnswered'
    <3>1. /\ Len(sent') = Len(sent) + 1
          /\ \A i \in 1..Len(sent) : sent'[i] = sent[i]
          /\ sent'[Len(sent) + 1] = line
      BY <2>1, AppendToList DEF Sends, Typed
    <3>2. UNCHANGED <<phase, read, reply, written>>
      BY <2>1 DEF Sends
    <3>3. \A i \in 1..Len(sent) : sent[i].id \in Nat => sent[i].id < nextId
      BY <2>0 DEF Typed, Used
    <3>4. line.id \in Nat => line.id = nextId
      BY <2>0, <2>1 DEF Sends
    <3>5. SentUpwards'
      <4>1. SUFFICES ASSUME NEW i \in 1..Len(sent'), NEW j \in 1..Len(sent'), i < j,
                            sent'[i].id \in Nat, sent'[j].id \in Nat
                     PROVE  sent'[i].id < sent'[j].id
        BY DEF SentUpwards
      <4>2. i \in 1..Len(sent) /\ (j \in 1..Len(sent) \/ j = Len(sent) + 1)
        BY <2>0, <3>1, <4>1
      <4>3. CASE j \in 1..Len(sent)
        BY <3>1, <4>1, <4>2, <4>3 DEF SentUpwards
      <4>4. CASE j = Len(sent) + 1
        BY <3>1, <3>3, <3>4, <4>1, <4>2, <4>4
      <4> QED BY <4>2, <4>3, <4>4
    <3>6. \A i \in 1..read : i \in 1..Len(sent) /\ sent'[i] = sent[i]
      BY <2>0, <3>1
    <3>7. \A n : Asked(n)' <=> Asked(n)
      BY <3>2, <3>6 DEF Asked
    <3>8. \A n : (Wrote(n)' <=> Wrote(n)) /\ (InHand(n)' <=> InHand(n))
      BY <3>2 DEF Wrote, InHand
    <3>9. WrittenUpwards'
      BY <3>2, <3>8 DEF WrittenUpwards
    <3>10. AskedAnswered'
      BY <3>2, <3>7, <3>8 DEF AskedAnswered
    <3> QED BY <3>5, <3>9, <3>10
  <2>2. CASE ReadLine
    <3> DEFINE line == sent[read + 1]
    <3>1. /\ Reads(line) /\ phase = "reading" /\ read' = read + 1
          /\ UNCHANGED <<sent, written>>
      BY <2>2, ReadKind DEF Reads
    <3>2. read + 1 \in 1..Len(sent)
      BY <2>0, <2>2 DEF ReadLine, Typed
    <3>3. /\ line.id \in Nat => reply'.id = line.id /\ phase' = "replying"
          /\ line.id \notin Nat => reply'.id = Null
          /\ phase' # "crashed"
      BY <3>1, ReadAnswers
    <3>4. SentUpwards'
      BY <3>1 DEF SentUpwards
    <3>5. \A n : Asked(n)' <=> Asked(n) \/ n = line.id
      <4>1. \A i : i \in 1..(read + 1) <=> i \in 1..read \/ i = read + 1
        BY <2>0
      <4> QED BY <3>1, <4>1 DEF Asked
    <3>6. \A n \in Nat : InHand(n)' <=> n = line.id
      BY <2>0, <3>3 DEF InHand
    <3>7. \A n \in Nat : (Asked(n) <=> Wrote(n)) /\ (Wrote(n)' <=> Wrote(n))
      BY <3>1 DEF AskedAnswered, InHand, Wrote
    <3>8. AskedAnswered'
      BY <3>3, <3>5, <3>6, <3>7 DEF AskedAnswered
    <3>9. ASSUME NEW n \in Nat, NEW m \in Nat, Wrote(n)', InHand(m)' PROVE n < m
      <4>1. Asked(n) /\ m = line.id
        BY <3>6, <3>7, <3>9
      <4>2. PICK i \in 1..read : sent[i].id = n
        BY <4>1 DEF Asked
      <4>3. i \in 1..Len(sent) /\ i < read + 1
        BY <2>0
      <4> QED BY <3>2, <4>1, <4>2, <4>3 DEF SentUpwards
    <3>10. WrittenUpwards'
      BY <3>1, <3>9 DEF WrittenUpwards
    <3> QED BY <3>4, <3>8, <3>10
  <2>3. CASE Abort
    <3> DEFINE line == sent[read + 1]
    <3>3. \A n \in Nat : Asked(n)' <=> Asked(n)
      <4>1. CASE read < Len(sent) /\ Aborts(line) /\ read' = read + 1
        <5>1. IsLine(line) /\ line.text # "object"
          <6>1. read + 1 \in 1..Len(sent)
            BY <2>0, <4>1
          <6> QED BY <4>1, <6>1 DEF Typed, Aborts
        <5>2. line.id = Null
          BY <5>1
             DEF IsLine, IsRegistration, IsEvaluation, WellFormed, IsOther
        <5>3. \A i : i \in 1..(read + 1) <=> i \in 1..read \/ i = read + 1
          BY <2>0
        <5> QED BY <2>0, <2>3, <4>1, <5>2, <5>3 DEF Abort, Asked
      <4>2. CASE read' = read
        BY <2>3, <4>2 DEF Abort, Asked
      <4> QED BY <2>3, <4>1, <4>2 DEF Abort
    <3>4. /\ phase = "reading" /\ phase' = "aborted"
          /\ UNCHANGED <<sent, written, reply>>
      BY <2>3 DEF Abort
    <3>5. \A n : (Wrote(n)' <=> Wrote(n)) /\ ~InHand(n) /\ ~InHand(n)'
      BY <3>4 DEF Wrote, InHand
    <3> QED BY <3>3, <3>4, <3>5 DEF SentUpwards, WrittenUpwards, AskedAnswered
  <2>4. CASE WriteReply
    <3>1. /\ Len(written') = Len(written) + 1
          /\ \A i \in 1..Len(written) : written'[i] = written[i]
          /\ written'[Len(written) + 1] = reply
      BY <2>4, AppendToList DEF WriteReply, Typed
    <3>2. /\ phase = "replying" /\ phase' = "reading"
          /\ UNCHANGED <<sent, read, reply>>
      BY <2>4 DEF WriteReply
    <3>3. \A i : i \in 1..Len(written') <=>
                   i \in 1..Len(written) \/ i = Len(written) + 1
      BY <2>0, <3>1
    <3>4. \A n : /\ Wrote(n)' <=> Wrote(n) \/ InHand(n)
                 /\ ~InHand(n)' /\ (Asked(n)' <=> Asked(n))
      BY <3>1, <3>2, <3>3 DEF Wrote, InHand, Asked
    <3>5. AskedAnswered'
      BY <3>2, <3>4 DEF AskedAnswered
    <3>6. \A i, j \in 1..Len(written') :
            i < j /\ written'[i].id \in Nat /\ written'[j].id \in Nat
              => written'[i].id < written'[j].id
      <4>1. SUFFICES ASSUME NEW i \in 1..Len(written'), NEW j \in 1..Len(written'),
                            i < j, written'[i].id \in Nat, written'[j].id \in Nat
                     PROVE  written'[i].id < written'[j].id
        OBVIOUS
      <4>2. i \in 1..Len(written) /\ (j \in 1..Len(written) \/ j = Len(written) + 1)
        BY <2>0, <3>1, <4>1
      <4>3. CASE j \in 1..Len(written)
        BY <3>1, <4>1, <4>2, <4>3 DEF WrittenUpwards
      <4>4. CASE j = Len(written) + 1
        <5>1. Wrote(written[i].id) /\ InHand(reply.id)
          BY <3>2, <4>2 DEF Wrote, InHand
        <5> QED BY <3>1, <4>1, <4>2, <4>4, <5>1 DEF WrittenUpwards
      <4> QED BY <4>2, <4>3, <4>4
    <3> QED BY <3>2, <3>4, <3>5, <3>6 DEF SentUpwards, WrittenUpwards
  <2>5. CASE Crash
    <3>1. /\ phase \in {"reading", "replying"} /\ phase' = "crashed"
          /\ UNCHANGED <<sent, read, reply, written>>
      BY <2>5 DEF Crash, Running
    <3>2. \A n : /\ Wrote(n)' <=> Wrote(n)
                 /\ Asked(n)' <=> Asked(n)
                 /\ ~InHand(n)'
      BY <3>1 DEF Wrote, Asked, InHand
    <3>3. \A n \in Nat : Asked(n) <=> Wrote(n) \/ InHand(n)
      BY <3>1 DEF AskedAnswered
    <3>4. \A n, m \in Nat : Asked(n) /\ Wrote(m) /\ n < m => Wrote(n)
      <4>1. SUFFICES ASSUME NEW n \in Nat, NEW m \in Nat, Asked(n), Wrote(m), n < m,
                            ~Wrote(n)
                     PROVE  FALSE
        OBVIOUS
      <4>2. m < n
        BY <3>3, <4>1 DEF WrittenUpwards
      <4> QED BY <4>1, <4>2
    <3>5. AskedAnswered'
      BY <3>1, <3>2, <3>3, <3>4 DEF AskedAnswered
    <3> QED BY <3>1, <3>2, <3>5 DEF SentUpwards, WrittenUpwards
  <2>6. CASE End
    <3>1. /\ phase = "reading" /\ phase' = "ended"
          /\ UNCHANGED <<sent, read, reply, written>>
      BY <2>6 DEF End
    <3>2. \A n : /\ Wrote(n)' <=> Wrote(n)
                 /\ Asked(n)' <=> Asked(n)
                 /\ ~InHand(n)' /\ ~InHand(n)
      BY <3>1 DEF Wrote, Asked, InHand
    <3> QED BY <3>1, <3>2 DEF SentUpwards, WrittenUpwards, AskedAnswered
  <2>7. CASE Restart
    <3>1. /\ phase' = "reading" /\ read' = 0
          /\ Len(sent') = 0 /\ Len(written') = 0
      BY <2>7, EmptyList DEF Restart
    <3>2. \A n : ~Wrote(n)' /\ ~Asked(n)' /\ ~InHand(n)'
      BY <3>1 DEF Wrote, Asked, InHand
    <3> QED BY <3>1, <3>2 DEF SentUpwards, WrittenUpwards, AskedAnswered
  <2>8. CASE Receive \/ GiveUp \/ HangUp \/ UNCHANGED vars
    <3>1. UNCHANGED <<phase, sent, read, reply, written>>
      BY <2>8 DEF Receive, GiveUp, HangUp, vars
    <3>2. \A n : /\ Wrote(n)' <=> Wrote(n)
                 /\ Asked(n)' <=> Asked(n)
                 /\ InHand(n)' <=> InHand(n)
      BY <3>1 DEF Wrote, Asked, InHand
    <3> QED BY <3>1, <3>2 DEF SentUpwards, WrittenUpwards, AskedAnswered
  <2> QED BY <2>1, <2>2, <2>3, <2>4, <2>5, <2>6, <2>7, <2>8, SendKinds
          DEF Next, ClientStep, ServerStep
<1> QED BY <1>1, <1>2, TypeInvariant, PTL DEF Spec

(***************************************************************************)
(* Replies come in the order of the requests and under their ids, one      *)
(* each, whatever other lines come between them; a crash leaves only the   *)
(* last of what was taken unanswered (run_stdio).                          *)
(***************************************************************************)
THEOREM RepliesComeInOrder == Spec => []RepliesInOrder
<1>1. Typed /\ SentUpwards /\ WrittenUpwards /\ AskedAnswered => RepliesInOrder
  <2> SUFFICES ASSUME Typed, SentUpwards, WrittenUpwards, AskedAnswered
               PROVE  RepliesInOrder
    OBVIOUS
  <2> DEFINE asked == IdsUpto(sent, read)
             answered == IdsUpto(Answers, Len(Answers))
  <2>0. /\ Len(sent) \in Nat /\ Len(written) \in Nat
        /\ read \in Nat /\ read <= Len(sent)
        /\ Null \notin Nat /\ BadId \notin Nat
    BY AbsenceAssumption DEF Typed, IsList
  <2>1. \A n : n \in asked <=> n \in Nat /\ Asked(n)
    <3>1. \A i \in 1..read : sent[i].id \in Nat \cup {Null, BadId}
      <4>1. \A i \in 1..read : IsLine(sent[i])
        BY <2>0 DEF Typed
      <4> QED BY <4>1
              DEF IsLine, IsRegistration, IsEvaluation, WellFormed, IsOther
    <3> QED BY <2>0, <3>1 DEF IdsUpto, Asked
  <2>2. \A i \in 1..Len(written) : written[i].id \in Nat \cup {Null}
    BY DEF Typed
  <2>3. CASE phase = "replying"
    <3>1. /\ Len(Answers) = Len(written) + 1
          /\ \A i \in 1..Len(written) : Answers[i] = written[i]
          /\ Answers[Len(written) + 1] = reply
      BY <2>3, AppendToList DEF Answers, Typed
    <3>2. \A i : i \in 1..Len(Answers) <=>
                   i \in 1..Len(written) \/ i = Len(written) + 1
      BY <2>0, <3>1
    <3>3. \A i \in 1..Len(Answers) : Answers[i].id \in Nat \cup {Null}
      BY <2>2, <3>1, <3>2 DEF Typed
    <3>4. \A n : n \in answered <=> n \in Nat /\ (Wrote(n) \/ InHand(n))
      BY <2>0, <2>3, <3>1, <3>2, <3>3 DEF IdsUpto, Wrote, InHand
    <3>5. asked = answered
      BY <2>1, <2>3, <3>4 DEF AskedAnswered
    <3>6. ASSUME NEW i \in 1..Len(Answers), NEW j \in 1..Len(Answers), i < j,
                 Answers[i].id \in answered, Answers[j].id \in answered
          PROVE  Answers[i].id < Answers[j].id
      <4>1. Answers[i].id \in Nat /\ Answers[j].id \in Nat
        BY <3>4, <3>6
      <4>2. i \in 1..Len(written) /\ (j \in 1..Len(written) \/ j = Len(written) + 1)
        BY <2>0, <3>1, <3>6
      <4>3. CASE j \in 1..Len(written)
        BY <3>1, <3>6, <4>1, <4>2, <4>3 DEF WrittenUpwards
      <4>4. CASE j = Len(written) + 1
        <5>1. Wrote(Answers[i].id) /\ InHand(Answers[j].id)
          BY <2>3, <3>1, <4>2, <4>4 DEF Wrote, InHand
        <5> QED BY <4>1, <5>1 DEF WrittenUpwards
      <4> QED BY <4>2, <4>3, <4>4
    <3> HIDE DEF asked, answered
    <3>7. /\ \A i, j \in 1..Len(Answers) :
               i < j /\ Answers[i].id \in answered /\ Answers[j].id \in answered
                 => Answers[i].id < Answers[j].id
          /\ answered = asked /\ phase # "crashed"
      BY <2>3, <3>5, <3>6
    <3> QED BY <3>7 DEF RepliesInOrder, asked, answered
  <2>4. CASE phase # "replying"
    <3>1. Answers = written
      BY <2>4 DEF Answers
    <3>2. \A n : n \in answered <=> n \in Nat /\ Wrote(n)
      BY <2>0, <2>2, <3>1 DEF IdsUpto, Wrote
    <3>3. \A i, j \in 1..Len(Answers) :
            i < j /\ Answers[i].id \in answered /\ Answers[j].id \in answered
              => Answers[i].id < Answers[j].id
      BY <3>1, <3>2 DEF WrittenUpwards
    <3>4. \A n : ~InHand(n)
      BY <2>4 DEF InHand
    <3>5. phase # "crashed" => answered = asked
      BY <2>1, <3>2, <3>4 DEF AskedAnswered
    <3>6. phase = "crashed" =>
            /\ answered \subseteq asked
            /\ \A a \in asked, b \in answered : a < b => a \in answered
      BY <2>1, <3>2 DEF AskedAnswered
    <3> HIDE DEF asked, answered
    <3> QED BY <3>3, <3>5, <3>6 DEF RepliesInOrder, asked, answered
  <2> QED BY <2>3, <2>4
<1> QED BY <1>1, TypeInvariant, OrderInvariant, PTL
=============================================================================
