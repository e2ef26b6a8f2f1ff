----------------------------- MODULE JavaClient -----------------------------
(***************************************************************************)
(* The native side of the protocol, as the Java runtime library runs it    *)
(* (packages/jsii-java-runtime, JsiiRuntime, JsiiEngine and JsiiObject):   *)
(* one thread whose call stack `cstack' (last element on top) mixes the    *)
(* program's own code with the library's.  A frame is                      *)
(*   "call":    requestResponse, waiting for the response to `rid'         *)
(*   "handler": the native override of callback `id', running              *)
(*   "async":   jsiiAsyncCall on promise `id', with the callbacks that     *)
(*              processAllPendingCallbacks fetched and has yet to process, *)
(*              in the order of their ids, which is that of Kernel.cbs     *)
(* An empty stack is the program's own top-level code.                     *)
(***************************************************************************)
EXTENDS RuntimeWire

CONSTANTS
  MaxCalls, \* bound on the calls the native program starts
  Native    \* what native overrides do, a subset of
            \*   "nestedAsync": call an async method from a sync override
            \*   "unmapped": return what does not convert to JSON

ASSUME MaxCallsAssumption == MaxCalls \in Nat
ASSUME NativeAssumption   == Native \subseteq {"nestedAsync", "unmapped"}

VARIABLES
  cstack,  \* the native call stack
  calls,   \* calls the program has started
  native   \* "up", "closed" (ended by itself) or "failed" (runtime is gone)

clientVars == <<cstack, calls, native>>

CallFrame(op, rid, id, err) ==
  [k |-> "call", op |-> op, rid |-> rid, id |-> id, err |-> err, todo |-> {}]
(* How the callback arrived: op is "sync" if requestResponse read it in    *)
(* place of a response, "callbacks" if it was fetched.                     *)
HandlerFrame(id, op) ==
  [k |-> "handler", op |-> op, rid |-> 0, id |-> id, err |-> FALSE, todo |-> {}]
AsyncFrame(id, todo) ==
  [k |-> "async", op |-> "begin", rid |-> 0, id |-> id, err |-> FALSE, todo |-> todo]

(* Only an async call has a batch; what is completed is a callback.        *)
ClientFrames ==
       [k : {"call"}, op : Api \ {"complete"}, rid : Rids, id : Ids \cup {0},
        err : BOOLEAN, todo : {{}}]
  \cup [k : {"call"}, op : {"complete"}, rid : Rids, id : Ids, err : BOOLEAN, todo : {{}}]
  \cup [k : {"handler"}, op : {"sync", "callbacks"}, rid : {0}, id : Ids,
        err : {FALSE}, todo : {{}}]
  \cup [k : {"async"}, op : {"begin"}, rid : {0}, id : Ids \cup {0},
        err : {FALSE}, todo : SUBSET Ids]

ClientTypeOK ==
  /\ cstack \in Seq(ClientFrames)
  /\ calls \in 0 .. MaxCalls
  /\ native \in {"up", "closed", "failed"}

ClientInit ==
  /\ cstack = << >>
  /\ calls = 0
  /\ native = "up"

-----------------------------------------------------------------------------
Top         == Last(cstack)
InProgram   == native = "up" /\ (cstack # << >> => Top.k = "handler")
Reading     == native = "up" /\ cstack # << >> /\ Top.k = "call"
InSyncOverride ==
  \E i \in DOMAIN cstack : cstack[i].k = "handler" /\ cstack[i].op = "sync"

(* Write a request and wait for its response, on top of `below'. *)
Send(below, op, rid, id, err) ==
  /\ toHost' = Append(toHost, [m |-> "api", op |-> op, rid |-> rid, id |-> id, err |-> err])
  /\ cstack' = Append(below, CallFrame(op, rid, id, err))

(* The program gets or sets a property, invokes a sync method, creates an  *)
(* object or touches a class whose module is not loaded.                   *)
StartCall(rid) ==
  /\ InProgram /\ calls < MaxCalls
  /\ \E op \in {"sync", "create", "load"} : Send(cstack, op, rid, 0, FALSE)
  /\ calls' = calls + 1
  /\ UNCHANGED <<toClient, eof, native>>

(* jsiiAsyncCall: begin, process all pending callbacks, end. *)
StartAsyncCall(rid) ==
  /\ InProgram /\ calls < MaxCalls
  /\ InSyncOverride => "nestedAsync" \in Native
  /\ Send(Append(cstack, AsyncFrame(0, {})), "begin", rid, 0, FALSE)
  /\ calls' = calls + 1
  /\ UNCHANGED <<toClient, eof, native>>

(* processAllPendingCallbacks and processCallback: run the next callback   *)
(* of the batch, or fetch another batch.                                   *)
NextPending(below, p, todo, rid) ==
  IF todo = {}
  THEN Send(Append(below, AsyncFrame(p, {})), "callbacks", rid, 0, FALSE)
  ELSE /\ cstack' = below \o <<AsyncFrame(p, todo \ {Min(todo)}),
                               HandlerFrame(Min(todo), "callbacks")>>
       /\ UNCHANGED toHost

(* What follows the response to the call on top of the stack. *)
Continue(res, rid) ==
  LET below  == Front(cstack)
      caller == Last(below)
      outer  == Front(below)
  IN CASE Top.op \in {"sync", "create", "load"} ->
            cstack' = below /\ UNCHANGED toHost
       [] Top.op = "begin" /\ res.ok ->
            \E p \in res.ids : NextPending(outer, p, {}, rid)
       [] Top.op = "callbacks" ->
            IF res.ids = {}
            THEN Send(below, "end", rid, caller.id, FALSE)
            ELSE NextPending(outer, caller.id, res.ids, rid)
       [] Top.op = "complete" /\ res.ok ->
            NextPending(outer, caller.id, caller.todo, rid)
       [] Top.op = "complete" /\ ~ res.ok /\ ~ Top.err ->
            (* the result was refused: complete again, with an error *)
            Send(below, "complete", rid, Top.id, TRUE)
       [] OTHER ->
            (* end, or an exception: jsiiAsyncCall returns or throws *)
            cstack' = outer /\ UNCHANGED toHost

ReadResponse(rid) ==
  /\ Reading
  /\ toClient # << >> /\ Head(toClient).m = "response"
  /\ toClient' = Tail(toClient)
  /\ Continue(Head(toClient), rid)
  /\ UNCHANGED <<eof, calls, native>>

(* processCallbackResponse: the override runs in place of the response. *)
ReadCallback ==
  /\ Reading
  /\ toClient # << >> /\ Head(toClient).m = "callback"
  /\ toClient' = Tail(toClient)
  /\ cstack' = Append(cstack, HandlerFrame(Head(toClient).id, "sync"))
  /\ UNCHANGED <<toHost, eof, calls, native>>

(* A sync override returns or throws: {"complete"}, and back to reading    *)
(* the response the callback interrupted.                                  *)
FinishSync ==
  /\ InProgram /\ cstack # << >> /\ Top.op = "sync"
  /\ toHost' = Append(toHost, [m |-> "complete", id |-> Top.id])
  /\ cstack' = Front(cstack)
  /\ UNCHANGED <<toClient, eof, calls, native>>

(* A fetched callback returns or throws: the complete api.  processCallback *)
(* catches a JsiiException only: what the object mapper throws at a value  *)
(* it cannot convert leaves jsiiAsyncCall, with the batch uncompleted.     *)
FinishAsync(rid) ==
  /\ InProgram /\ cstack # << >> /\ Top.op = "callbacks"
  /\ \/ \E err \in BOOLEAN : Send(Front(cstack), "complete", rid, Top.id, err)
     \/ /\ "unmapped" \in Native
        /\ cstack' = Front(Front(cstack))
        /\ UNCHANGED toHost
  /\ UNCHANGED <<toClient, eof, calls, native>>

(* The program ends, anywhere in its own code, and its pipes close. *)
Exit ==
  /\ InProgram
  /\ native' = "closed"
  /\ eof' = TRUE
  /\ UNCHANGED <<toHost, toClient, cstack, calls>>

ClientProgress(rid) ==
  \/ ReadResponse(rid) \/ ReadCallback \/ FinishSync \/ FinishAsync(rid)

ClientNext(rid) ==
  StartCall(rid) \/ StartAsyncCall(rid) \/ ClientProgress(rid) \/ Exit
=============================================================================
