----------------------------- MODULE KernelHost -----------------------------
(***************************************************************************)
(* The jsii-runtime process: the request loop of KernelHost                *)
(* (packages/jsii-runtime/lib/host.ts) on top of the callback, promise and *)
(* sync-guard state of Kernel (packages/jsii-kernel/lib/kernel.ts).        *)
(*                                                                         *)
(* The process has one JavaScript thread.  `hstack' is its call stack      *)
(* (last element on top): a read of stdin in run(), the kernel operation   *)
(* that is running sandbox code, the continuation of an async method, a    *)
(* callbackHandler blocked in its own read.  When the stack is empty the   *)
(* event loop runs: first the continuations that are ready (microtasks),   *)
(* then timers and the setImmediate queue.                                 *)
(*                                                                         *)
(* The sandbox code is arbitrary: a sync operation calls any number of     *)
(* sync overrides, an async method calls sync and async overrides and      *)
(* suspends or settles at will, within MaxId.                              *)
(***************************************************************************)
EXTENDS RuntimeWire

CONSTANT
  Sandbox   \* what continuations of async methods do, a subset of
            \*   "timer": await something the event loop takes turns to do
            \*   "taskSync": call a sync override

ASSUME SandboxAssumption == Sandbox \subseteq {"timer", "taskSync"}

VARIABLES
  hstack,         \* the JavaScript call stack
  imm,            \* the setImmediate queue
  pendingEnd,     \* end and load requests whose promise is not settled
  process,        \* "up", "exited" (event loop empty) or "crashed"
  syncInProgress, \* Kernel.syncInProgress is set
  nextid,         \* Kernel.nextid
  promises,       \* state of each async invocation
  registered,     \* Kernel.promises: the invocation each promise id names
  cbs,            \* Kernel.cbs: callbacks no client has fetched
  waiting         \* Kernel.waiting: callbacks fetched, not completed

kernelVars == <<syncInProgress, nextid, promises, registered, cbs, waiting>>
loopVars   == <<hstack, imm, pendingEnd, process>>
hostVars   == <<loopVars, kernelVars>>

(***************************************************************************)
(* Frames.  A "cb" frame carries the cbid its callbackHandler waits for, a *)
(* "begin" or "task" frame the async invocation whose code it runs.  An    *)
(* invocation is named by the value nextid has when its method is entered: *)
(* no two share one, as an invocation is entered inside another only in a  *)
(* callbackHandler, whose callback took an id, and one that returns takes  *)
(* its promise id.                                                         *)
(***************************************************************************)
Frame(k, rid, id) == [k |-> k, rid |-> rid, id |-> id]
ReadFrame == Frame("read", 0, 0)

Frames ==
       [k : {"read"},           rid : {0},  id : {0}]
  \cup [k : {"sync", "create"}, rid : Rids, id : {0}]
  \cup [k : {"begin"},          rid : Rids, id : Ids]
  \cup [k : {"task", "cb"},     rid : {0},  id : Ids]

Immediates ==
       [k : {"run"},     rid : {0},  ids : {{}}]
  \cup [k : {"respond"}, rid : Rids, ids : SUBSET Ids]
RunNext == [k |-> "run", rid |-> 0, ids |-> {}]

PromiseStates == {"none", "running", "ready", "timer", "awaiting", "settled"}

PendingCallbacks == [id : Ids, owner : Ids]

HostTypeOK ==
  /\ hstack \in Seq(Frames)
  /\ imm \in Seq(Immediates)
  /\ pendingEnd \subseteq [rid : Rids, id : Ids \cup {0}]
  /\ process \in {"up", "exited", "crashed"}
  /\ syncInProgress \in BOOLEAN
  /\ nextid \in 1 .. MaxId + 1
  /\ promises \in [Ids -> PromiseStates]
  /\ registered \in [Ids -> Ids \cup {0}]
  /\ cbs \subseteq PendingCallbacks
  /\ waiting \subseteq PendingCallbacks

HostInit ==
  /\ hstack = << >>
  /\ imm = <<RunNext>>
  /\ pendingEnd = {}
  /\ process = "up"
  /\ syncInProgress = FALSE
  /\ nextid = 1
  /\ promises = [p \in Ids |-> "none"]
  /\ registered = [r \in Ids |-> 0]
  /\ cbs = {}
  /\ waiting = {}

-----------------------------------------------------------------------------
Running(k) == process = "up" /\ hstack # << >> /\ Last(hstack).k \in k
Idle       == process = "up" /\ hstack = << >>

(* Microtasks go before everything else the event loop does. *)
Quiet == \A p \in Ids : promises[p] # "ready"

Outstanding(p) == {c \in cbs \cup waiting : c.owner = p}

Write(m) == toClient' = Append(toClient, m)
Reply(rid, ok, ids) ==
  Write([m |-> "response", rid |-> rid, ok |-> ok, ids |-> ids])

(* Mutant: next() schedules run() although a callbackHandler goes on. *)
AnswerAndAlwaysRun(below, rid, ok, ids) ==
  /\ Reply(rid, ok, ids)
  /\ hstack' = below
  /\ imm' = Append(imm, RunNext)
  /\ UNCHANGED <<pendingEnd, process>>

(***************************************************************************)
(* The request `rid' is answered and the handler calls next().  With       *)
(* `below' the frames under the handler: none for a request run() read,    *)
(* and next() schedules run(); otherwise the caller is a callbackHandler,  *)
(* which goes on waiting for its callback.                                 *)
(***************************************************************************)
AnswerAndNext(below, rid, ok, ids) ==
  /\ Reply(rid, ok, ids)
  /\ hstack' = below
  /\ imm' = IF below = << >> THEN Append(imm, RunNext) ELSE imm
  /\ UNCHANGED <<pendingEnd, process>>

(* Mutant: begin and complete are answered at once, without setImmediate. *)
RespondAtOnce(below, rid, ids) == AnswerAndNext(below, rid, below = << >>, ids)

(* processRequest for begin and complete, after the kernel did its part:   *)
(* answered by an immediate, or refused if a sync callback is waiting.     *)
RespondLater(below, rid, ids) ==
  IF below = << >>
  THEN /\ hstack' = << >>
       /\ imm' = Append(imm, [k |-> "respond", rid |-> rid, ids |-> ids])
       /\ UNCHANGED <<toClient, pendingEnd, process>>
  ELSE AnswerAndNext(below, rid, FALSE, {})

(* processRequest for an api that returned a promise (end, load). *)
RespondWhenSettled(below, rid, id) ==
  IF below = << >>
  THEN /\ hstack' = << >>
       /\ pendingEnd' = pendingEnd \cup {[rid |-> rid, id |-> id]}
       /\ UNCHANGED <<toClient, imm, process>>
  ELSE AnswerAndNext(below, rid, FALSE, {})
-----------------------------------------------------------------------------
(***************************************************************************)
(* Kernel operations, from the frame that read the request.                *)
(***************************************************************************)

(* Any api may throw before it changes anything or runs sandbox code: an   *)
(* unknown object, type or member, an argument that does not convert.      *)
Refuse(below, req) ==
  /\ req.op \in {"sync", "create", "begin"}
  /\ AnswerAndNext(below, req.rid, FALSE, {})
  /\ UNCHANGED kernelVars

EnterSync(below, req) ==
  /\ req.op \in SyncApi
  /\ hstack' = Append(below, Frame(req.op, req.rid, 0))
  /\ syncInProgress' = (syncInProgress \/ req.op = "sync")
  /\ UNCHANGED <<toClient, imm, pendingEnd, process, nextid, promises, registered, cbs, waiting>>

(* The method runs before its promise gets an id (ReturnBegin). *)
EnterBegin(below, req) ==
  /\ req.op = "begin"
  /\ ~ syncInProgress
  /\ nextid <= MaxId
  /\ hstack' = Append(below, Frame("begin", req.rid, nextid))
  /\ promises' = [promises EXCEPT ![nextid] = "running"]
  /\ UNCHANGED <<toClient, imm, pendingEnd, process,
                 syncInProgress, nextid, registered, cbs, waiting>>

(* Mutant: callbacks are moved without their succeed and fail. *)
CallbacksMoveRequests(below, req) ==
  /\ req.op = "callbacks"
  /\ AnswerAndNext(below, req.rid, TRUE, {c.id : c \in cbs})
  /\ waiting' = waiting \cup {[c EXCEPT !.owner = 0] : c \in cbs}
  /\ cbs' = {}
  /\ UNCHANGED <<syncInProgress, nextid, promises, registered>>

(* Mutant: the queue is not cleared when it is fetched. *)
CallbacksKept(below, req) ==
  /\ req.op = "callbacks"
  /\ AnswerAndNext(below, req.rid, TRUE, {c.id : c \in cbs})
  /\ waiting' = waiting \cup cbs
  /\ UNCHANGED <<syncInProgress, nextid, promises, registered, cbs>>

Callbacks(below, req) ==
  /\ req.op = "callbacks"
  /\ AnswerAndNext(below, req.rid, TRUE, {c.id : c \in cbs})
  /\ waiting' = waiting \cup cbs
  /\ cbs' = {}
  /\ UNCHANGED <<syncInProgress, nextid, promises, registered>>

(* Mutant: a completion without a result leaves the promise unsettled. *)
SettleResults(c) ==
  /\ waiting' = waiting \ {c}
  /\ \/ promises' = promises
     \/ /\ promises[c.owner] = "awaiting"
        /\ promises' = [promises EXCEPT ![c.owner] = "ready"]

(* The promise of an async override settles, with a result or an error.    *)
(* The invocation it belongs to goes on if this is what it awaited, as it  *)
(* surely did when no other of its overrides is left.                      *)
Settle(c) ==
  /\ waiting' = waiting \ {c}
  /\ \/ /\ promises[c.owner] = "awaiting" => Outstanding(c.owner) # {c}
        /\ promises' = promises
     \/ /\ promises[c.owner] = "awaiting"
        /\ promises' = [promises EXCEPT ![c.owner] = "ready"]

Complete(below, req) ==
  /\ req.op = "complete"
  /\ \E c \in waiting :
       /\ c.id = req.id
       /\ Settle(c)
  /\ RespondLater(below, req.rid, {})
  /\ UNCHANGED <<syncInProgress, nextid, registered, cbs>>

(* Mutant: the callback is deleted before its result is converted. *)
CompleteDeletesFirst(below, req) ==
  /\ req.op = "complete"
  /\ ~ req.err \/ \A c \in waiting : c.id # req.id
  /\ AnswerAndNext(below, req.rid, FALSE, {})
  /\ waiting' = {c \in waiting : c.id # req.id}
  /\ UNCHANGED <<syncInProgress, nextid, promises, registered, cbs>>

(* The callback is unknown, or its result does not convert to the declared *)
(* return type: complete throws and the callback stays where it is.        *)
CompleteFails(below, req) ==
  /\ req.op = "complete"
  /\ ~ req.err \/ \A c \in waiting : c.id # req.id
  /\ AnswerAndNext(below, req.rid, FALSE, {})
  /\ UNCHANGED kernelVars

(* An end waits for the invocation its promise id names; 0 stands for what *)
(* settles without one: a load, or the end of a promise nobody knows.      *)
EndOrLoad(below, req) ==
  /\ req.op \in {"end", "load"}
  /\ RespondWhenSettled(below, req.rid,
       IF req.op = "end" /\ req.id # 0 THEN registered[req.id] ELSE 0)
  /\ UNCHANGED kernelVars

ProcessRequest(below, req) ==
  \/ Refuse(below, req)
  \/ EnterSync(below, req)
  \/ EnterBegin(below, req)
  \/ Callbacks(below, req)
  \/ Complete(below, req)
  \/ CompleteFails(below, req)
  \/ EndOrLoad(below, req)
-----------------------------------------------------------------------------
(* run(): the only immediate of a host that waits for a request. *)
Run ==
  /\ Idle /\ Quiet
  /\ imm # << >> /\ Head(imm).k = "run"
  /\ imm' = Tail(imm)
  /\ hstack' = <<ReadFrame>>
  /\ UNCHANGED <<wireVars, pendingEnd, process, kernelVars>>

ReadRequest ==
  /\ Running({"read"})
  /\ toHost # << >> /\ Head(toHost).m = "api"
  /\ toHost' = Tail(toHost)
  /\ ProcessRequest(Front(hstack), Head(toHost))
  /\ UNCHANGED eof

(* A {"complete"} line no callbackHandler waits for: processRequest throws *)
(* out of run() and the process dies of it.                                *)
ReadMalformed ==
  /\ Running({"read"})
  /\ toHost # << >> /\ Head(toHost).m = "complete"
  /\ toHost' = Tail(toHost)
  /\ process' = "crashed"
  /\ UNCHANGED <<toClient, eof, hstack, imm, pendingEnd, kernelVars>>

(* Mutant: run() schedules itself at the end of its input, too. *)
ReadEndRunsAgain ==
  /\ Running({"read"})
  /\ toHost = << >> /\ eof
  /\ hstack' = Front(hstack)
  /\ imm' = Append(imm, RunNext)
  /\ UNCHANGED <<wireVars, pendingEnd, process, kernelVars>>

(* run() returns without scheduling itself again. *)
ReadEnd ==
  /\ Running({"read"})
  /\ toHost = << >> /\ eof
  /\ hstack' = Front(hstack)
  /\ UNCHANGED <<wireVars, imm, pendingEnd, process, kernelVars>>

(* callbackHandler: a request that is not the awaited completion. *)
ReadNested ==
  /\ Running({"cb"})
  /\ toHost # << >> /\ Head(toHost).m = "api"
  /\ toHost' = Tail(toHost)
  /\ ProcessRequest(hstack, Head(toHost))
  /\ UNCHANGED eof

(* callbackHandler: the completion of its callback returns, or throws the  *)
(* error it carries, into the sandbox code; that of another callback is a  *)
(* malformed request, also thrown into the sandbox code.                   *)
ReadCompletion ==
  /\ Running({"cb"})
  /\ toHost # << >> /\ Head(toHost).m = "complete"
  /\ toHost' = Tail(toHost)
  /\ hstack' = Front(hstack)
  /\ UNCHANGED <<toClient, eof, imm, pendingEnd, process, kernelVars>>

(* 'Interrupted before callback returned', thrown into the sandbox code. *)
ReadInterrupted ==
  /\ Running({"cb"})
  /\ toHost = << >> /\ eof
  /\ hstack' = Front(hstack)
  /\ UNCHANGED <<wireVars, imm, pendingEnd, process, kernelVars>>
-----------------------------------------------------------------------------
(***************************************************************************)
(* Sandbox code, on top of the stack.                                      *)
(***************************************************************************)

(* A sync method or property override: callbackHandler writes the callback *)
(* and blocks.                                                             *)
CallSyncOverride ==
  /\ Running({"sync", "create", "begin", "task"})
  /\ Last(hstack).k = "task" => "taskSync" \in Sandbox
  /\ nextid <= MaxId
  /\ hstack' = Append(hstack, Frame("cb", 0, nextid))
  /\ Write([m |-> "callback", id |-> nextid])
  /\ nextid' = nextid + 1
  /\ UNCHANGED <<toHost, eof, imm, pendingEnd, process,
                 syncInProgress, promises, registered, cbs, waiting>>

(* An async override queues a callback and returns its promise. *)
CallAsyncOverride ==
  /\ Running({"begin", "task"})
  /\ nextid <= MaxId
  /\ cbs' = cbs \cup {[id |-> nextid, owner |-> Last(hstack).id]}
  /\ nextid' = nextid + 1
  /\ UNCHANGED <<wireVars, loopVars, syncInProgress, promises, registered, waiting>>

(* A sync operation returns or throws; _ensureSync clears the guard. *)
ReturnSync ==
  /\ Running({"sync", "create"})
  /\ \E ok \in BOOLEAN :
       AnswerAndNext(Front(hstack), Last(hstack).rid, ok, {})
  /\ syncInProgress' = (syncInProgress /\ Last(hstack).k = "create")
  /\ UNCHANGED <<toHost, eof, nextid, promises, registered, cbs, waiting>>

(* The states in which async code that runs on behalf of p may leave it. *)
Suspensions(p) ==
  {"settled"}
    \cup (IF Outstanding(p) # {} THEN {"awaiting"} ELSE {})
    \cup (IF "timer" \in Sandbox THEN {"timer"} ELSE {})

(* The async method returns its promise, settled or not, or has awaited    *)
(* something that is settled already.  The promise gets its id only now.   *)
ReturnBegin ==
  /\ Running({"begin"})
  /\ nextid <= MaxId
  /\ LET p == Last(hstack).id IN
       /\ \E s \in Suspensions(p) \cup {"ready"} :
            promises' = [promises EXCEPT ![p] = s]
       /\ registered' = [registered EXCEPT ![nextid] = p]
  /\ RespondLater(Front(hstack), Last(hstack).rid, {nextid})
  /\ nextid' = nextid + 1
  /\ UNCHANGED <<toHost, eof, syncInProgress, cbs, waiting>>

(* Mutant: the exception is swallowed and nothing is answered. *)
ThrowBeginSilently ==
  /\ Running({"begin"})
  /\ promises' = [promises EXCEPT ![Last(hstack).id] = "none"]
  /\ hstack' = Front(hstack)
  /\ imm' = IF Front(hstack) = << >> THEN Append(imm, RunNext) ELSE imm
  /\ UNCHANGED <<wireVars, pendingEnd, process, syncInProgress, nextid, registered, cbs, waiting>>

(* The method throws before it returns a promise: nothing is registered. *)
ThrowBegin ==
  /\ Running({"begin"})
  /\ promises' = [promises EXCEPT ![Last(hstack).id] = "none"]
  /\ AnswerAndNext(Front(hstack), Last(hstack).rid, FALSE, {})
  /\ UNCHANGED <<toHost, eof, syncInProgress, nextid, registered, cbs, waiting>>
-----------------------------------------------------------------------------
(***************************************************************************)
(* The event loop, with no JavaScript on the stack.                        *)
(***************************************************************************)

ResumeTask ==
  /\ Idle
  /\ \E p \in Ids :
       /\ promises[p] = "ready"
       /\ promises' = [promises EXCEPT ![p] = "running"]
       /\ hstack' = <<Frame("task", 0, p)>>
  /\ UNCHANGED <<wireVars, imm, pendingEnd, process, syncInProgress, nextid, registered, cbs, waiting>>

ReturnTask ==
  /\ Running({"task"})
  /\ \E s \in Suspensions(Last(hstack).id) :
       promises' = [promises EXCEPT ![Last(hstack).id] = s]
  /\ hstack' = Front(hstack)
  /\ UNCHANGED <<wireVars, imm, pendingEnd, process, syncInProgress, nextid, registered, cbs, waiting>>

TimerFires ==
  /\ Idle /\ Quiet
  /\ \E p \in Ids :
       /\ promises[p] = "timer"
       /\ promises' = [promises EXCEPT ![p] = "ready"]
  /\ UNCHANGED <<wireVars, loopVars, syncInProgress, nextid, registered, cbs, waiting>>

(* The immediate of a begin or a complete. *)
RespondImmediate ==
  /\ Idle /\ Quiet
  /\ imm # << >> /\ Head(imm).k = "respond"
  /\ Reply(Head(imm).rid, TRUE, Head(imm).ids)
  /\ imm' = Append(Tail(imm), RunNext)
  /\ UNCHANGED <<toHost, eof, hstack, pendingEnd, process, kernelVars>>

(* The promise of an end, or of a load (id 0), is settled either way. *)
RespondSettled ==
  /\ Idle
  /\ \E e \in pendingEnd, ok \in BOOLEAN :
       /\ e.id # 0 => promises[e.id] = "settled"
       /\ Reply(e.rid, ok, {})
       /\ pendingEnd' = pendingEnd \ {e}
  /\ imm' = Append(imm, RunNext)
  /\ UNCHANGED <<toHost, eof, hstack, process, kernelVars>>

(* Nothing is scheduled, no timer and no file operation is active: node    *)
(* exits, whoever still awaits a promise.  stdin is read synchronously and *)
(* keeps nothing alive.                                                    *)
EventLoopEmpty ==
  /\ Idle /\ imm = << >>
  /\ \A p \in Ids : promises[p] \notin {"ready", "timer"}
  /\ \A e \in pendingEnd : e.id # 0 /\ promises[e.id] # "settled"
  /\ process' = "exited"
  /\ UNCHANGED <<wireVars, hstack, imm, pendingEnd, kernelVars>>

HostNext ==
  \/ Run \/ ReadRequest \/ ReadMalformed \/ ReadEnd
  \/ ReadNested \/ ReadCompletion \/ ReadInterrupted
  \/ CallSyncOverride \/ CallAsyncOverride
  \/ ReturnSync \/ ReturnBegin \/ ThrowBegin
  \/ ResumeTask \/ ReturnTask \/ TimerFires
  \/ RespondImmediate \/ RespondSettled \/ EventLoopEmpty

-----------------------------------------------------------------------------
(***************************************************************************)
(* What holds whatever the client writes and whatever the sandbox does.    *)
(***************************************************************************)

(* next() is called once per request: at any time at most one thing will   *)
(* make the host read its next top-level request - the read or request at  *)
(* the bottom of the stack, a scheduled run() or response, or a promise    *)
(* that an end or a load waits for.  With two, two responses could swap.   *)
OneDriver ==
  /\ Len(imm) <= 1
  /\ \A d, e \in pendingEnd : d = e
  /\ imm # << >> => pendingEnd = {}
  /\ hstack # << >> /\ hstack[1].k # "task" => imm = << >> /\ pendingEnd = {}

(* A callback id names one callback: it is queued or waiting, never both,  *)
(* and was handed out by nextid.                                           *)
CallbackIdsUnique ==
  /\ cbs \cap waiting = {}
  /\ \A c, d \in cbs \cup waiting : c.id = d.id => c = d
  /\ \A c \in cbs \cup waiting : c.id < nextid

(* No wakeup is lost: an async method that awaits its overrides has one    *)
(* that is still queued or waiting, whose completion will resume it.       *)
AwaitsSomething ==
  \A p \in Ids : promises[p] = "awaiting" => Outstanding(p) # {}

(* While a sync operation runs, at any depth of callbacks, no async method *)
(* is begun.                                                               *)
NoBeginInsideSync ==
  \A i, j \in DOMAIN hstack :
    i < j /\ hstack[i].k = "sync" => hstack[j].k # "begin"

(* The step reads the complete request of callback c and does not refuse   *)
(* it, unless the request came while a sync callback waits.                *)
Completes(c) ==
  /\ toHost # << >> /\ Head(toHost).m = "api"
  /\ Head(toHost).op = "complete" /\ Head(toHost).id = c.id
  /\ toHost' = Tail(toHost)
  /\ hstack' = << >> => toClient' = toClient

(* A callback that was queued stays in the kernel until the client has     *)
(* fetched it and completes it: neither an end, an error of the method it  *)
(* belongs to nor a completion that fails loses it.  Once completed it is  *)
(* forgotten and its id never comes back.                                  *)
CompletedForGood ==
  /\ \A c \in (cbs \cup waiting) \ (cbs' \cup waiting') : c \in waiting /\ Completes(c)
  /\ \A i \in Ids :
       i < nextid /\ (\A c \in cbs \cup waiting : c.id # i)
         => \A c \in cbs' \cup waiting' : c.id # i
CallbacksCompleteOnce == [][CompletedForGood]_hostVars
=============================================================================
