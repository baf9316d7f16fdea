----------------------------- MODULE MCMcpServer ----------------------------
(* Two env secrets, a file, and a teammate who comes and goes.             *)
EXTENDS McpServer, TLC

CONSTANTS bob, k1, k2, pem, v1, v2

MCCommand(op, n, only, except) ==
  [op |-> op, name |-> n, value |-> v1, only |-> only, except |-> except]
Call(op, n) == MCCommand(op, n, {}, {})
Request(c) == [kind |-> "request", method |-> "call", cmd |-> c]

MCLine ==
  {Request(Call("rotate", k1)), Request(Call("encrypt", pem)),
   Request(MCCommand("run", k1, {k1}, {})), Request(Call("push", k1)),
   [kind |-> "notification", method |-> "ping"],
   [kind |-> "request", method |-> "unknown"], [kind |-> "garbage"],
   [kind |-> "blank"], [kind |-> "huge"]}
MCFileLine == {Request(Call("encrypt", pem)), Request(Call("run", k1))}
MCTyped == {Call("add", k1), Call("rm", k1), Call("push", k1)}
=============================================================================
