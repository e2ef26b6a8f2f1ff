------------------------------ MODULE RpcStack ------------------------------
(***************************************************************************)
(* What the protocol between a native program and jsii-runtime promises:   *)
(* calls that nest.  Two parties share one thread of control.  The party   *)
(* whose turn it is either calls the other (a request of the client, a     *)
(* sync callback of the host) or returns from the youngest call it has     *)
(* received, and hands over the turn.                                      *)
(***************************************************************************)
EXTENDS Naturals, Sequences

CONSTANTS Requests, CallbackIds

VARIABLES
  open,   \* calls not yet returned, oldest first
  turn    \* the party that runs

rpcVars == <<open, turn>>

Calls(k, ids) == [k : {k}, id : ids]
IsOpen(c)     == \E i \in DOMAIN open : open[i] = c
Youngest      == open[Len(open)]
Return        == open' = SubSeq(open, 1, Len(open) - 1)

RpcInit ==
  /\ open = << >>
  /\ turn = "client"

Request ==
  /\ turn = "client" /\ turn' = "host"
  /\ \E c \in Calls("request", Requests) : ~ IsOpen(c) /\ open' = Append(open, c)

Callback ==
  /\ turn = "host" /\ turn' = "client"
  /\ open # << >>
  /\ \E c \in Calls("callback", CallbackIds) : ~ IsOpen(c) /\ open' = Append(open, c)

Respond ==
  /\ turn = "host" /\ turn' = "client"
  /\ open # << >> /\ Youngest.k = "request"
  /\ Return

Complete ==
  /\ turn = "client" /\ turn' = "host"
  /\ open # << >> /\ Youngest.k = "callback"
  /\ Return

RpcNext == Request \/ Callback \/ Respond \/ Complete

RpcSpec == RpcInit /\ [][RpcNext]_rpcVars
=============================================================================
