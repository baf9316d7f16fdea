------------------------------ MODULE McpServer -----------------------------
(***************************************************************************)
(* The MCP server, `cifra mcp serve`: one JSON-RPC message a line on       *)
(* stdin, one handled after the other, answers on stdout                   *)
(* (internal/mcp/server.go), with the handlers of cmd/cifra/mcp.go; and a  *)
(* terminal in which the user runs cifra in the same working tree.         *)
(*                                                                         *)
(* A message's id is its position among the lines the client has sent.     *)
(***************************************************************************)
EXTENDS VaultCommands

CONSTANTS mcp, term,   \* the processes
          Line,        \* the lines the client may send
          Typed,       \* the commands the user may type
          MaxSent,     \* bound: lines the client sends
          MaxTyped     \* bound: commands the user types

(* kind: "blank", "garbage", "huge", "request" or "notification"; method:  *)
(* "ping" (answered at once, as initialize, tools/list, cifra_status and   *)
(* cifra_list are), "unknown" (method or tool) or "call".                  *)
ASSUME McpAssumption ==
  /\ Proc = {mcp, term} /\ mcp # term
  /\ \A l \in Line :
       /\ l.kind \in {"blank", "garbage", "huge", "request", "notification"}
       /\ l.kind \in {"request", "notification"} =>
            /\ l.method \in {"ping", "unknown", "call"}
            /\ l.method = "call" => l.cmd \in Command
  /\ Typed \subseteq Command
  /\ MaxSent \in Nat /\ MaxTyped \in Nat

VARIABLES sent,        \* the lines the client has written
          taken,       \* how many of them Serve has scanned
          out,         \* the answers: which line, and how it went
          up,          \* Serve is running
          typed        \* commands the user has typed

vars == <<commandVars, sent, taken, out, up, typed>>
wire == <<sent, taken, out, up>>

(* id 0: the answer carries none.                                          *)
Answer == [id : 0..MaxSent,
           result : {"result", "tool error", "rpc error"}]

TypeOK ==
  /\ CommandsTypeOK
  /\ sent \in Seq(Line) /\ Len(sent) <= MaxSent
  /\ taken \in 0..Len(sent)
  /\ out \in Seq(Answer)
  /\ up \in BOOLEAN
  /\ typed \in 0..MaxTyped
  /\ job[mcp].step # "idle" => up /\ sent[taken].kind \in {"request", "notification"}

Init ==
  /\ CommandsInit
  /\ sent = <<>> /\ taken = 0 /\ out = <<>> /\ up = TRUE /\ typed = 0

Send(l) ==
  /\ Len(sent) < MaxSent
  /\ sent' = Append(sent, l)
  /\ UNCHANGED <<commandVars, taken, out, up, typed>>

-----------------------------------------------------------------------------
(* A notification is carried out like a request, and never answered.       *)
AnsweredAlways(i) == TRUE
Answered(i) == sent[i].kind = "request"
WriteResponse(i, result) ==
  out' = IF Answered(i) THEN Append(out, [id |-> i, result |-> result]) ELSE out

ScanAhead(kinds) ==
  /\ up
  /\ taken < Len(sent)
  /\ sent[taken + 1].kind \in kinds
  /\ taken' = taken + 1
  /\ UNCHANGED <<sent, typed>>
Scan(kinds) ==
  /\ up /\ job[mcp].step = "idle"
  /\ taken < Len(sent)
  /\ sent[taken + 1].kind \in kinds
  /\ taken' = taken + 1
  /\ UNCHANGED <<sent, typed>>

Skip == Scan({"blank"}) /\ UNCHANGED <<commandVars, out, up>>

(* A line over maxMessageBytes ends Serve.                                 *)
GiveUp == Scan({"huge"}) /\ up' = FALSE /\ UNCHANGED <<commandVars, out>>

Refuse ==
  /\ Scan({"garbage"})
  /\ out' = Append(out, [id |-> 0, result |-> "rpc error"])
  /\ UNCHANGED <<commandVars, up>>

HandleAtOnce ==
  /\ Scan({"request", "notification"})
  /\ sent[taken'].method # "call"
  /\ WriteResponse(taken', IF sent[taken'].method = "ping" THEN "result" ELSE "rpc error")
  /\ UNCHANGED <<commandVars, up>>

Dispatch ==
  /\ Scan({"request", "notification"})
  /\ sent[taken'].method = "call"
  /\ Begin(mcp, sent[taken'].cmd)
  /\ UNCHANGED <<out, up>>

(* callTool: a handler's error is a result like any other.  rotate looks   *)
(* the entry up again, and reports an error when it is gone by then.       *)
Gone(c) == c.op = "rotate" /\ c.name \notin Present(store)
RespondOnSuccess ==
  /\ job[mcp].step = "done"
  /\ IF job[mcp].ok THEN WriteResponse(taken, "result") ELSE UNCHANGED out
  /\ Update(mcp, Idle)
  /\ UNCHANGED <<tree, deks, history, sent, taken, up, typed>>
Respond ==
  /\ job[mcp].step = "done"
  /\ WriteResponse(taken, IF job[mcp].ok /\ ~Gone(job[mcp].cmd) THEN "result"
                          ELSE "tool error")
  /\ Update(mcp, Idle)
  /\ UNCHANGED <<tree, deks, history, sent, taken, up, typed>>

-----------------------------------------------------------------------------
(* The terminal.                                                           *)
AtPrompt == job[term].step \in {"idle", "done"} /\ typed < MaxTyped
Type(c) ==
  /\ AtPrompt
  /\ Begin(term, c)
  /\ typed' = typed + 1
  /\ UNCHANGED wire
ChangeRecipients(k) ==
  /\ AtPrompt
  /\ SetRoster(k)
  /\ typed' = typed + 1
  /\ UNCHANGED wire

Serve ==
  \/ Skip \/ GiveUp \/ Refuse \/ HandleAtOnce \/ Dispatch \/ Respond
  \/ CommandStep(mcp) /\ UNCHANGED <<wire, typed>>
Terminal ==
  \/ \E c \in Typed : Type(c)
  \/ CommandStep(term) /\ UNCHANGED <<wire, typed>>
  \/ \E k \in Key : ChangeRecipients(k)
Next ==
  \/ \E l \in Line : Send(l)
  \/ Serve
  \/ Terminal

Spec == Init /\ [][Next]_vars

(* The server goes on while it has work, and the commands cifra_run starts *)
(* end; nothing else has to happen.                                        *)
FairSpec == Spec /\ WF_vars(Serve)
-----------------------------------------------------------------------------
(* What is answered are the requests and the lines that are no JSON, each  *)
(* once and in the order they were sent, whatever the handlers ran into.   *)
Due(n) == {i \in 1..n : sent[i].kind \in {"request", "garbage"}}
AnswersMatch ==
  LET over == IF job[mcp].step = "idle" THEN taken ELSE taken - 1
  IN /\ Len(out) = Cardinality(Due(over))
     /\ \A i \in Due(over) :
          LET answer == out[Cardinality(Due(i))]
          IN IF sent[i].kind = "garbage"
             THEN answer.id = 0 /\ answer.result = "rpc error"
             ELSE answer.id = i

(* Every request is answered, however slow the terminal is and whatever it *)
(* does to the vault, unless the server ends first.                        *)
EveryRequestAnswered ==
  \A i \in 1..MaxSent :
    (i <= Len(sent) /\ sent[i].kind = "request")
      ~> (~up \/ \E k \in DOMAIN out : out[k].id = i)
=============================================================================
