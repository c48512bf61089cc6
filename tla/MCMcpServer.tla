----------------------------- MODULE MCMcpServer -----------------------------
(***************************************************************************)
(* TLC instances of McpServer.                                             *)
(***************************************************************************)
EXTENDS McpServer

(* Lines without a usable id: nothing, no JSON text, a text that parsing   *)
(* or decoding does not survive, JSON but no object, two defects, and      *)
(* notifications, of which one is not answered ...                         *)
WithoutId ==
  {[Line EXCEPT !.text = t] :
     t \in {"blank", "malformed", "fatal", "undecodable", "array"}}
  \cup {[Line EXCEPT !.id = BadId, !.method = NotText],
        [Line EXCEPT !.method = "unknown"], [Line EXCEPT !.method = "ping"]}

(* ... and requests that are neither a registration nor an evaluation.     *)
WithId ==
  LET asked == [Line EXCEPT !.id = 0]
  IN  {[asked EXCEPT !.params = "other"], [asked EXCEPT !.tool = "failing"],
       [asked EXCEPT !.method = "initialize", !.protocol = "2024-11-05"]}

MCOtherLines == WithoutId \cup WithId
=============================================================================
