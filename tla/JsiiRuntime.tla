---------------------------- MODULE JsiiRuntime ----------------------------
(***************************************************************************)
(* A native program and the jsii-runtime process it talks to: JavaClient   *)
(* and KernelHost, joined by the two pipes of RuntimeWire.                 *)
(***************************************************************************)
EXTENDS JavaClient, KernelHost

vars == <<wireVars, clientVars, hostVars>>

TypeOK ==
  /\ WireTypeOK
  /\ ClientTypeOK
  /\ HostTypeOK

Init ==
  /\ WireInit
  /\ ClientInit
  /\ HostInit

(* Requests that are open or whose messages are somewhere on their way. *)
RidsInUse ==
       {f.rid : f \in ToSet(cstack) \cup ToSet(hstack) \cup ToSet(imm) \cup pendingEnd}
  \cup {m.rid : m \in {x \in ToSet(toHost) : x.m = "api"}
                 \cup {x \in ToSet(toClient) : x.m = "response"}}

(* The history value of the next request: the least one not in use. *)
FreshRid(rid) ==
  /\ rid \notin RidsInUse
  /\ \A r \in Rids \ RidsInUse : rid <= r

(* The runtime closed its stdout: requestResponse throws, everywhere. *)
ReadClosed ==
  /\ Reading
  /\ toClient = << >> /\ process # "up"
  /\ native' = "failed"
  /\ cstack' = << >>
  /\ UNCHANGED <<wireVars, calls>>

ClientStep ==
  \/ /\ \E rid \in Rids : FreshRid(rid) /\ ClientNext(rid)
     /\ UNCHANGED hostVars
  \/ ReadClosed /\ UNCHANGED hostVars

HostStep == HostNext /\ UNCHANGED clientVars

(* The runtime process dies: sandbox code exits, or someone kills it. *)
RuntimeDies ==
  /\ process = "up"
  /\ process' = "crashed"
  /\ UNCHANGED <<wireVars, clientVars, hstack, imm, pendingEnd, kernelVars>>

(* Both processes are gone. *)
Ended == native # "up" /\ process # "up"

Next == ClientStep \/ HostStep \/ RuntimeDies \/ (Ended /\ UNCHANGED vars)

(* A thread that is not blocked goes on; the program need not start        *)
(* another call, but an override it runs returns.                          *)
ClientGoesOn ==
  \/ \E rid \in Rids : FreshRid(rid) /\ ClientProgress(rid) /\ UNCHANGED hostVars
  \/ ReadClosed /\ UNCHANGED hostVars

Fairness == WF_vars(HostStep) /\ WF_vars(ClientGoesOn)

Spec     == Init /\ [][Next]_vars
FairSpec == Spec /\ Fairness

-----------------------------------------------------------------------------
(***************************************************************************)
(* The requests and callbacks open at each end, oldest first.              *)
(***************************************************************************)
Item(k, id) == [k |-> k, id |-> id]

OpenFrame(f) ==
  \/ f.k \in {"call", "sync", "create", "begin", "cb"}
  \/ f.k = "handler" /\ f.op = "sync"
FrameItem(f) == IF f.k \in {"cb", "handler"} THEN Item("callback", f.id)
                                             ELSE Item("request", f.rid)
OpenOn(base, stack) ==
  LET opened[i \in 0 .. Len(stack)] ==
        IF i = 0 THEN base
        ELSE IF OpenFrame(stack[i]) THEN Append(opened[i - 1], FrameItem(stack[i]))
             ELSE opened[i - 1]
  IN opened[Len(stack)]

(* What the event loop has still to answer is open below any frame. *)
Deferred == {e.rid : e \in pendingEnd}
              \cup {i.rid : i \in {x \in ToSet(imm) : x.k = "respond"}}
HostOpen   == OpenOn(SetToSeq({Item("request", r) : r \in Deferred}), hstack)
ClientOpen == OpenOn(<< >>, cstack)

(* The open items once a line that is under way has been read. *)
Deliver(open, m) ==
  CASE m.m = "api"      -> Append(open, Item("request", m.rid))
    [] m.m = "callback" -> Append(open, Item("callback", m.id))
    [] m.m \in {"complete", "response"} -> IF open = << >> THEN << >> ELSE Front(open)
Delivered(open, pipe) ==
  LET after[i \in 0 .. Len(pipe)] ==
        IF i = 0 THEN open ELSE Deliver(after[i - 1], pipe[i])
  IN after[Len(pipe)]

-----------------------------------------------------------------------------
(* Both processes agree, up to the lines under way, on the requests and    *)
(* callbacks that are open and on their nesting.  Nothing on the wire says *)
(* which request a response answers, yet the response requestResponse      *)
(* reads is always the one written for its own request, however deep       *)
(* callbacks and nested requests interleave; and a {"complete"} line       *)
(* reaches the callbackHandler that waits for this very callback: never    *)
(* another one, and never run(), which it would kill.                      *)
EndsAgree ==
  /\ native = "up" /\ process = "up" =>
       Delivered(HostOpen, toHost) = Delivered(ClientOpen, toClient)
  /\ Reading /\ toClient # << >> /\ Head(toClient).m = "response"
       => Head(toClient).rid = Top.rid
  /\ process = "up" /\ toHost # << >> /\ Head(toHost).m = "complete"
       => Running({"cb"}) /\ Last(hstack).id = Head(toHost).id

(* A fetched callback is in exactly one place: the batch of one call, an   *)
(* override that runs, a completion under way, or the response that        *)
(* carries it.  None runs twice and none is left waiting with nobody to    *)
(* complete it: when the program is back in its own code, no override of   *)
(* its async calls is left queued or unfinished, but for those of a method *)
(* that threw before it returned a promise.                                *)
CallbacksAccountedFor ==
  /\ native = "up" /\ process = "up" =>
      \A c \in Ids :
        LET todos == {i \in DOMAIN cstack : c \in cstack[i].todo}
            runs  == {i \in DOMAIN cstack :
                        cstack[i].k = "handler" /\ cstack[i].op = "callbacks" /\ cstack[i].id = c}
            sent  == {i \in DOMAIN toHost :
                        toHost[i].m = "api" /\ toHost[i].op = "complete" /\ toHost[i].id = c}
            back  == {i \in DOMAIN toClient :
                        toClient[i].m = "response" /\ ~ toClient[i].ok /\ Reading
                          /\ Top.op = "complete" /\ Top.id = c}
            sending == {i \in DOMAIN toClient :
                        toClient[i].m = "response" /\ c \in toClient[i].ids
                          /\ Reading /\ Top.op = "callbacks"}
        IN  Cardinality(todos) + Cardinality(runs) + Cardinality(sent)
              + Cardinality(back) + Cardinality(sending)
            = IF \E w \in waiting : w.id = c THEN 1 ELSE 0
  /\ native = "up" /\ cstack = << >> =>
       \A c \in cbs \cup waiting : promises[c.owner] = "none"

(* A runtime that nobody kills goes on until the program closes its pipe. *)
RuntimeOutlivesProgram == process = "exited" => eof

(* Every call the program makes comes back, with a result or an exception. *)
CallsReturn ==
  native = "up" /\ cstack # << >> ~> cstack = << >> \/ native # "up"

(* Every runtime stops after its program ended. *)
RuntimeStops == eof ~> process # "up"

-----------------------------------------------------------------------------
(* The turn is the host's from the moment a line is written to it until it *)
(* answers, calls back, or has nothing to do.                              *)
Turn ==
  IF \/ toHost # << >>
     \/ Deferred # {} /\ (hstack # << >> => Last(hstack).k = "task")
     \/ hstack # << >> /\ Last(hstack).k \in {"sync", "create", "begin"}
  THEN "host" ELSE "client"

Rpc == INSTANCE RpcStack
         WITH Requests <- Rids, CallbackIds <- Ids,
              open <- Delivered(HostOpen, toHost), turn <- Turn

(* The two processes implement nested calls: the host never calls back     *)
(* out of turn and never answers anything but the youngest open request.   *)
CallsNest == Rpc!RpcSpec
=============================================================================
