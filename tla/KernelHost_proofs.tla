------------------------- MODULE KernelHost_proofs -------------------------
(***************************************************************************)
(* Proofs about the jsii-runtime process, for every bound and whatever     *)
(* client writes to its pipe (module AnyClient).                           *)
(***************************************************************************)
EXTENDS AnyClient, SequenceLemmas

(* What each kind of frame and of line carries. *)
LEMMA FrameFields ==
  ASSUME NEW f \in Frames
  PROVE  /\ f.k \in {"sync", "create", "begin"} => f.rid \in Rids
         /\ f.k \in {"begin", "task", "cb"} => f.id \in Ids
         /\ f.k \in {"read", "sync", "create", "begin", "task", "cb"}
BY DEF Frames

LEMMA LineFields ==
  ASSUME NEW m \in Request \cup Finish, m.m = "api"
  PROVE  m.op \in Api /\ m.rid \in Rids /\ m.id \in Ids \cup {0} /\ m.err \in BOOLEAN
BY DEF Request, Finish

LEMMA FramesBuilt ==
  /\ ReadFrame \in Frames
  /\ \A r \in Rids, op \in {"sync", "create"} : Frame(op, r, 0) \in Frames
  /\ \A r \in Rids, p \in Ids : Frame("begin", r, p) \in Frames
  /\ \A p \in Ids : Frame("task", 0, p) \in Frames /\ Frame("cb", 0, p) \in Frames
BY DEF Frames, Frame, ReadFrame

LEMMA NextIdIsId ==
  ASSUME nextid \in 1 .. MaxId + 1, nextid <= MaxId
  PROVE  nextid \in Ids /\ nextid + 1 \in 1 .. MaxId + 1
BY MaxIdAssumption DEF Ids

-----------------------------------------------------------------------------
(* Answering keeps the types of what it writes, whichever way it answers. *)
Answered == toClient' \in Seq(Response \cup Callback) /\ hstack' \in Seq(Frames)
              /\ imm' \in Seq(Immediates)
              /\ pendingEnd' \subseteq [rid : Rids, id : Ids \cup {0}]
              /\ process' \in {"up", "exited", "crashed"}

LEMMA ReplyType ==
  ASSUME ProcessTypeOK, NEW rid \in Rids, NEW ok \in BOOLEAN, NEW ids \in SUBSET Ids,
         Reply(rid, ok, ids)
  PROVE  toClient' \in Seq(Response \cup Callback)
<1>1. [m |-> "response", rid |-> rid, ok |-> ok, ids |-> ids] \in Response \cup Callback
  BY DEF Response
<1> QED BY <1>1 DEF Reply, Write, ProcessTypeOK, WireTypeOK

LEMMA RunNextType == RunNext \in Immediates
BY DEF RunNext, Immediates

LEMMA AnswerType ==
  ASSUME ProcessTypeOK, NEW below \in Seq(Frames),
         NEW rid \in Rids, NEW ok \in BOOLEAN, NEW ids \in SUBSET Ids,
         AnswerAndNext(below, rid, ok, ids)
  PROVE  Answered
<1>1. toClient' \in Seq(Response \cup Callback)
  BY ReplyType DEF AnswerAndNext
<1>2. imm' \in Seq(Immediates)
  BY RunNextType, AppendOne DEF AnswerAndNext, ProcessTypeOK, HostTypeOK
<1> QED BY <1>1, <1>2 DEF AnswerAndNext, Answered, ProcessTypeOK, HostTypeOK

LEMMA RespondLaterType ==
  ASSUME ProcessTypeOK, NEW below \in Seq(Frames), NEW rid \in Rids, NEW ids \in SUBSET Ids,
         RespondLater(below, rid, ids)
  PROVE  Answered
<1>1. CASE below # << >>
  <2>1. AnswerAndNext(below, rid, FALSE, {})
    BY <1>1 DEF RespondLater
  <2> QED BY <2>1, AnswerType, {} \in SUBSET Ids, FALSE \in BOOLEAN
<1>2. CASE below = << >>
  <2>1. [k |-> "respond", rid |-> rid, ids |-> ids] \in Immediates
    BY DEF Immediates
  <2>2. imm' = Append(imm, [k |-> "respond", rid |-> rid, ids |-> ids])
    BY <1>2 DEF RespondLater
  <2>3. imm' \in Seq(Immediates)
    BY <2>1, <2>2, AppendOne DEF ProcessTypeOK, HostTypeOK
  <2> QED BY <1>2, <2>3 DEF RespondLater, Answered, ProcessTypeOK, HostTypeOK, WireTypeOK
<1> QED BY <1>1, <1>2

LEMMA RespondWhenSettledType ==
  ASSUME ProcessTypeOK, NEW below \in Seq(Frames), NEW rid \in Rids, NEW id \in Ids \cup {0},
         RespondWhenSettled(below, rid, id)
  PROVE  Answered
<1>1. CASE below # << >>
  <2>1. AnswerAndNext(below, rid, FALSE, {})
    BY <1>1 DEF RespondWhenSettled
  <2> QED BY <2>1, AnswerType, {} \in SUBSET Ids, FALSE \in BOOLEAN
<1>2. CASE below = << >>
  BY <1>2 DEF RespondWhenSettled, Answered, ProcessTypeOK, HostTypeOK, WireTypeOK
<1> QED BY <1>1, <1>2

-----------------------------------------------------------------------------
KernelTypes ==
  /\ syncInProgress \in BOOLEAN
  /\ nextid \in 1 .. MaxId + 1
  /\ promises \in [Ids -> PromiseStates]
  /\ registered \in [Ids -> Ids \cup {0}]
  /\ cbs \subseteq PendingCallbacks
  /\ waiting \subseteq PendingCallbacks

(* A pending callback and its settlement. *)
LEMMA SettleType ==
  ASSUME ProcessTypeOK, NEW c \in waiting, Settle(c)
  PROVE  promises' \in [Ids -> PromiseStates] /\ waiting' \subseteq PendingCallbacks
<1>1. c.owner \in Ids
  BY DEF ProcessTypeOK, HostTypeOK, PendingCallbacks
<1>2. waiting' \subseteq PendingCallbacks
  BY DEF Settle, ProcessTypeOK, HostTypeOK
<1>3. promises' \in [Ids -> PromiseStates]
  BY <1>1 DEF Settle, ProcessTypeOK, HostTypeOK, PromiseStates
<1> QED BY <1>2, <1>3

(* A request of either read keeps the types of the host. *)
LEMMA ProcessRequestType ==
  ASSUME ProcessTypeOK, NEW below \in Seq(Frames), NEW req \in Request \cup Finish,
         req.m = "api", ProcessRequest(below, req)
  PROVE  Answered /\ KernelTypes'
<1> USE DEF Answered
<1>0. /\ req.op \in Api /\ req.rid \in Rids
      /\ req.id \in Ids \cup {0} /\ req.err \in BOOLEAN
      /\ KernelTypes
      /\ {} \in SUBSET Ids
  BY LineFields DEF ProcessTypeOK, HostTypeOK, KernelTypes
<1>1. CASE Refuse(below, req)
  BY <1>0, <1>1, AnswerType DEF Refuse, KernelTypes, kernelVars
<1>2. CASE EnterSync(below, req)
  <2>1. Frame(req.op, req.rid, 0) \in Frames
    BY <1>0, <1>2, FramesBuilt DEF EnterSync, SyncApi
  <2>2. hstack' \in Seq(Frames)
    BY <1>2, <2>1, AppendOne DEF EnterSync
  <2>3. syncInProgress' \in BOOLEAN
    BY <1>0, <1>2 DEF EnterSync
  <2> QED BY <1>0, <1>2, <2>2, <2>3 DEF EnterSync, KernelTypes, ProcessTypeOK, HostTypeOK, WireTypeOK
<1>3. CASE EnterBegin(below, req)
  <2>1. nextid \in Ids /\ nextid + 1 \in 1 .. MaxId + 1
    BY <1>0, <1>3, NextIdIsId DEF EnterBegin, KernelTypes
  <2>2. Frame("begin", req.rid, nextid) \in Frames
    BY <1>0, <2>1, FramesBuilt
  <2>3. hstack' \in Seq(Frames)
    BY <1>3, <2>2, AppendOne DEF EnterBegin
  <2>4. promises' \in [Ids -> PromiseStates]
    BY <1>0, <1>3, <2>1 DEF EnterBegin, KernelTypes, PromiseStates
  <2> QED BY <1>0, <1>3, <2>1, <2>3, <2>4 DEF EnterBegin, KernelTypes, ProcessTypeOK, HostTypeOK, WireTypeOK
<1>4. CASE Callbacks(below, req)
  <2>1. {c.id : c \in cbs} \in SUBSET Ids
    BY <1>0 DEF KernelTypes, PendingCallbacks
  <2>2. Answered
    BY <1>0, <1>4, <2>1, AnswerType DEF Callbacks
  <2> QED BY <1>0, <1>4, <2>2 DEF Callbacks, KernelTypes
<1>5. CASE Complete(below, req)
  <2>1. promises' \in [Ids -> PromiseStates] /\ waiting' \subseteq PendingCallbacks
    BY <1>0, <1>5, SettleType DEF Complete
  <2>2. Answered
    BY <1>0, <1>5, RespondLaterType DEF Complete
  <2> QED BY <1>0, <1>5, <2>1, <2>2 DEF Complete, KernelTypes
<1>6. CASE CompleteFails(below, req)
  BY <1>0, <1>6, AnswerType DEF CompleteFails, KernelTypes, kernelVars
<1>7. CASE EndOrLoad(below, req)
  <2> DEFINE id == IF req.op = "end" /\ req.id # 0 THEN registered[req.id] ELSE 0
  <2>1. id \in Ids \cup {0}
    BY <1>0 DEF KernelTypes
  <2>2. RespondWhenSettled(below, req.rid, id) /\ UNCHANGED kernelVars
    BY <1>7 DEF EndOrLoad
  <2> HIDE DEF id
  <2> QED BY <1>0, <2>1, <2>2, RespondWhenSettledType DEF KernelTypes, kernelVars
<1> QED BY <1>1, <1>2, <1>3, <1>4, <1>5, <1>6, <1>7 DEF ProcessRequest

-----------------------------------------------------------------------------
(* Reading a line: the line has its type, and so has what is left. *)
LEMMA ReadType ==
  ASSUME ProcessTypeOK, toHost # << >>, toHost' = Tail(toHost)
  PROVE  Head(toHost) \in Request \cup Finish /\ toHost' \in Seq(Request \cup Finish)
BY HeadTail DEF ProcessTypeOK, WireTypeOK

(* The frame on top of the stack, and the stack below it. *)
LEMMA TopType ==
  ASSUME ProcessTypeOK, NEW k, Running(k)
  PROVE  /\ hstack # << >> /\ Front(hstack) \in Seq(Frames)
         /\ Last(hstack) \in Frames /\ Last(hstack).k \in k
BY FrontLast DEF ProcessTypeOK, HostTypeOK, Running

LEMMA SuspensionsType ==
  ASSUME NEW p
  PROVE  Suspensions(p) \subseteq PromiseStates
BY DEF Suspensions, PromiseStates

(* Steps that read. *)
LEMMA ReadStepsType ==
  ASSUME ProcessTypeOK,
         \/ Run \/ ReadRequest \/ ReadMalformed \/ ReadEnd
         \/ ReadNested \/ ReadCompletion \/ ReadInterrupted
  PROVE  ProcessTypeOK'
<1>0. KernelTypes
  BY DEF ProcessTypeOK, HostTypeOK, KernelTypes
<1>1. CASE Run
  <2>1. hstack' \in Seq(Frames)
    BY <1>1, FramesBuilt DEF Run
  <2>2. imm' \in Seq(Immediates)
    BY <1>1, HeadTail DEF Run, ProcessTypeOK, HostTypeOK
  <2> QED BY <1>1, <2>1, <2>2 DEF Run, ProcessTypeOK, HostTypeOK, WireTypeOK, wireVars, kernelVars
<1>2. CASE ReadRequest
  <2>1. Head(toHost) \in Request \cup Finish /\ toHost' \in Seq(Request \cup Finish)
    BY <1>2, ReadType DEF ReadRequest
  <2>2. Front(hstack) \in Seq(Frames)
    BY <1>2, TopType DEF ReadRequest
  <2>3. Answered /\ KernelTypes'
    BY <1>2, <2>1, <2>2, ProcessRequestType DEF ReadRequest
  <2> QED BY <1>2, <2>1, <2>3
          DEF ReadRequest, Answered, KernelTypes, ProcessTypeOK, HostTypeOK, WireTypeOK
<1>3. CASE ReadMalformed
  BY <1>3, ReadType DEF ReadMalformed, ProcessTypeOK, HostTypeOK, WireTypeOK, kernelVars
<1>4. CASE ReadEnd
  BY <1>4, TopType DEF ReadEnd, ProcessTypeOK, HostTypeOK, WireTypeOK, wireVars, kernelVars
<1>5. CASE ReadNested
  <2>1. Head(toHost) \in Request \cup Finish /\ toHost' \in Seq(Request \cup Finish)
    BY <1>5, ReadType DEF ReadNested
  <2>2. Answered /\ KernelTypes'
    BY <1>5, <2>1, ProcessRequestType DEF ReadNested, ProcessTypeOK, HostTypeOK
  <2> QED BY <1>5, <2>1, <2>2
          DEF ReadNested, Answered, KernelTypes, ProcessTypeOK, HostTypeOK, WireTypeOK
<1>6. CASE ReadCompletion
  BY <1>6, ReadType, TopType DEF ReadCompletion, ProcessTypeOK, HostTypeOK, WireTypeOK, kernelVars
<1>7. CASE ReadInterrupted
  BY <1>7, TopType DEF ReadInterrupted, ProcessTypeOK, HostTypeOK, WireTypeOK, wireVars, kernelVars
<1> QED BY <1>1, <1>2, <1>3, <1>4, <1>5, <1>6, <1>7

(* Steps of sandbox code. *)
LEMMA SandboxStepsType ==
  ASSUME ProcessTypeOK,
         \/ CallSyncOverride \/ CallAsyncOverride
         \/ ReturnSync \/ ReturnBegin \/ ThrowBegin
  PROVE  ProcessTypeOK'
<1>0. KernelTypes /\ {} \in SUBSET Ids
  BY DEF ProcessTypeOK, HostTypeOK, KernelTypes
<1>1. CASE CallSyncOverride
  <2>1. nextid \in Ids /\ nextid + 1 \in 1 .. MaxId + 1
    BY <1>0, <1>1, NextIdIsId DEF CallSyncOverride, KernelTypes
  <2>2. hstack' \in Seq(Frames)
    BY <1>1, <2>1, FramesBuilt, AppendOne DEF CallSyncOverride, ProcessTypeOK, HostTypeOK
  <2>3. [m |-> "callback", id |-> nextid] \in Response \cup Callback
    BY <2>1 DEF Callback
  <2>4. toClient' \in Seq(Response \cup Callback)
    BY <1>1, <2>3, AppendOne DEF CallSyncOverride, Write, ProcessTypeOK, WireTypeOK
  <2> QED BY <1>1, <2>1, <2>2, <2>4 DEF CallSyncOverride, ProcessTypeOK, HostTypeOK, WireTypeOK
<1>2. CASE CallAsyncOverride
  <2>1. nextid \in Ids /\ nextid + 1 \in 1 .. MaxId + 1
    BY <1>0, <1>2, NextIdIsId DEF CallAsyncOverride, KernelTypes
  <2>2. Last(hstack).id \in Ids
    BY <1>2, TopType, FrameFields DEF CallAsyncOverride
  <2>3. cbs' \subseteq PendingCallbacks
    BY <1>0, <1>2, <2>1, <2>2 DEF CallAsyncOverride, KernelTypes, PendingCallbacks
  <2> QED BY <1>2, <2>1, <2>3
          DEF CallAsyncOverride, ProcessTypeOK, HostTypeOK, WireTypeOK, wireVars, loopVars
<1>3. CASE ReturnSync
  <2>1. Front(hstack) \in Seq(Frames) /\ Last(hstack).rid \in Rids
    BY <1>3, TopType, FrameFields DEF ReturnSync
  <2>2. Answered
    BY <1>0, <1>3, <2>1, AnswerType DEF ReturnSync
  <2>3. syncInProgress' \in BOOLEAN
    BY <1>0, <1>3 DEF ReturnSync
  <2> QED BY <1>3, <2>2, <2>3 DEF ReturnSync, Answered, ProcessTypeOK, HostTypeOK, WireTypeOK
<1>4. CASE ReturnBegin
  <2> DEFINE p == Last(hstack).id
  <2>1. /\ Front(hstack) \in Seq(Frames)
        /\ Last(hstack).rid \in Rids /\ p \in Ids
    BY <1>4, TopType, FrameFields DEF ReturnBegin
  <2>2. Answered /\ nextid \in Ids /\ nextid + 1 \in 1 .. MaxId + 1
    <3>1. nextid \in Ids /\ nextid + 1 \in 1 .. MaxId + 1
      BY <1>0, <1>4, NextIdIsId DEF ReturnBegin, KernelTypes
    <3>2. {nextid} \in SUBSET Ids
      BY <3>1
    <3> QED BY <1>4, <2>1, <3>1, <3>2, RespondLaterType DEF ReturnBegin
  <2>3. promises' \in [Ids -> PromiseStates]
    <3>1. PICK st \in Suspensions(p) \cup {"ready"} : promises' = [promises EXCEPT ![p] = st]
      BY <1>4 DEF ReturnBegin
    <3>2. st \in PromiseStates
      BY SuspensionsType DEF PromiseStates
    <3> QED BY <1>0, <3>1, <3>2 DEF KernelTypes
  <2>4. registered' \in [Ids -> Ids \cup {0}]
    BY <1>0, <1>4, <2>1, <2>2 DEF ReturnBegin, KernelTypes
  <2> QED BY <1>4, <2>2, <2>3, <2>4 DEF ReturnBegin, Answered, ProcessTypeOK, HostTypeOK, WireTypeOK
<1>5. CASE ThrowBegin
  <2>1. Front(hstack) \in Seq(Frames) /\ Last(hstack).rid \in Rids
    BY <1>5, TopType, FrameFields DEF ThrowBegin
  <2>2. Answered
    BY <1>0, <1>5, <2>1, AnswerType DEF ThrowBegin
  <2>3. promises' \in [Ids -> PromiseStates]
    BY <1>0, <1>5 DEF ThrowBegin, KernelTypes, PromiseStates
  <2> QED BY <1>5, <2>2, <2>3 DEF ThrowBegin, Answered, ProcessTypeOK, HostTypeOK, WireTypeOK
<1> QED BY <1>1, <1>2, <1>3, <1>4, <1>5

(* Steps of the event loop. *)
LEMMA LoopStepsType ==
  ASSUME ProcessTypeOK,
         \/ ResumeTask \/ ReturnTask \/ TimerFires
         \/ RespondImmediate \/ RespondSettled \/ EventLoopEmpty
  PROVE  ProcessTypeOK'
<1>0. KernelTypes /\ {} \in SUBSET Ids
  BY DEF ProcessTypeOK, HostTypeOK, KernelTypes
<1>1. CASE ResumeTask
  <2>1. hstack' \in Seq(Frames)
    BY <1>1, FramesBuilt DEF ResumeTask
  <2>2. promises' \in [Ids -> PromiseStates]
    BY <1>0, <1>1 DEF ResumeTask, KernelTypes, PromiseStates
  <2> QED BY <1>1, <2>1, <2>2 DEF ResumeTask, ProcessTypeOK, HostTypeOK, WireTypeOK, wireVars
<1>2. CASE ReturnTask
  <2>1. Front(hstack) \in Seq(Frames)
    BY <1>2, TopType DEF ReturnTask
  <2>2. promises' \in [Ids -> PromiseStates]
    BY <1>0, <1>2, SuspensionsType DEF ReturnTask, KernelTypes
  <2> QED BY <1>2, <2>1, <2>2 DEF ReturnTask, ProcessTypeOK, HostTypeOK, WireTypeOK, wireVars
<1>3. CASE TimerFires
  <2>1. promises' \in [Ids -> PromiseStates]
    BY <1>0, <1>3 DEF TimerFires, KernelTypes, PromiseStates
  <2> QED BY <1>3, <2>1 DEF TimerFires, ProcessTypeOK, HostTypeOK, WireTypeOK, wireVars, loopVars
<1>4. CASE RespondImmediate
  <2>1. Head(imm) \in Immediates /\ Tail(imm) \in Seq(Immediates)
    BY <1>4, HeadTail DEF RespondImmediate, ProcessTypeOK, HostTypeOK
  <2>2. Head(imm).rid \in Rids /\ Head(imm).ids \in SUBSET Ids
    BY <1>4, <2>1 DEF RespondImmediate, Immediates
  <2>3. toClient' \in Seq(Response \cup Callback)
    BY <1>4, <2>2, ReplyType DEF RespondImmediate
  <2>4. imm' \in Seq(Immediates)
    BY <1>4, <2>1, RunNextType, AppendOne DEF RespondImmediate
  <2> QED BY <1>4, <2>3, <2>4 DEF RespondImmediate, ProcessTypeOK, HostTypeOK, WireTypeOK, kernelVars
<1>5. CASE RespondSettled
  <2>1. PICK e \in pendingEnd, ok \in BOOLEAN :
          Reply(e.rid, ok, {}) /\ pendingEnd' = pendingEnd \ {e}
    BY <1>5 DEF RespondSettled
  <2>2. e.rid \in Rids
    BY DEF ProcessTypeOK, HostTypeOK
  <2>3. toClient' \in Seq(Response \cup Callback)
    BY <1>0, <2>1, <2>2, ReplyType
  <2>4. imm' \in Seq(Immediates)
    BY <1>5, RunNextType, AppendOne DEF RespondSettled, ProcessTypeOK, HostTypeOK
  <2> QED BY <1>5, <2>1, <2>3, <2>4 DEF RespondSettled, ProcessTypeOK, HostTypeOK, WireTypeOK, kernelVars
<1>6. CASE EventLoopEmpty
  BY <1>6 DEF EventLoopEmpty, ProcessTypeOK, HostTypeOK, WireTypeOK, wireVars, kernelVars
<1> QED BY <1>1, <1>2, <1>3, <1>4, <1>5, <1>6

LEMMA InitType == ProcessInit => ProcessTypeOK
<1> SUFFICES ASSUME ProcessInit PROVE ProcessTypeOK
  OBVIOUS
<1>1. WireTypeOK
  <2>1. toHost \in Seq(Request \cup Finish) /\ toClient \in Seq(Response \cup Callback)
    BY EmptySeq DEF ProcessInit, WireInit
  <2> QED BY <2>1 DEF ProcessInit, WireInit, WireTypeOK
<1>2. imm \in Seq(Immediates)
  <2>1. imm = Append(<< >>, RunNext)
    BY DEF ProcessInit, HostInit
  <2> QED BY <2>1, RunNextType, AppendOne, EmptySeq
<1>3. nextid \in 1 .. MaxId + 1
  BY MaxIdAssumption DEF ProcessInit, HostInit
<1>4. promises \in [Ids -> PromiseStates]
  BY DEF ProcessInit, HostInit, PromiseStates
<1>5. hstack \in Seq(Frames)
  BY EmptySeq DEF ProcessInit, HostInit
<1>6. registered \in [Ids -> Ids \cup {0}]
  BY DEF ProcessInit, HostInit
<1> QED BY <1>1, <1>2, <1>3, <1>4, <1>5, <1>6 DEF ProcessInit, HostInit, ProcessTypeOK, HostTypeOK

LEMMA NextType == ProcessTypeOK /\ [ProcessNext]_processVars => ProcessTypeOK'
<1> SUFFICES ASSUME ProcessTypeOK, [ProcessNext]_processVars PROVE ProcessTypeOK'
  OBVIOUS
<1>1. CASE WriteLine
  <2>1. toHost' \in Seq(Request \cup Finish)
    BY <1>1, AppendOne DEF WriteLine, ProcessTypeOK, WireTypeOK
  <2> QED BY <1>1, <2>1 DEF WriteLine, ProcessTypeOK, WireTypeOK, HostTypeOK, hostVars, loopVars, kernelVars
<1>2. CASE ReadLine
  <2>1. toClient' \in Seq(Response \cup Callback)
    BY <1>2, HeadTail DEF ReadLine, ProcessTypeOK, WireTypeOK
  <2> QED BY <1>2, <2>1 DEF ReadLine, ProcessTypeOK, WireTypeOK, HostTypeOK, hostVars, loopVars, kernelVars
<1>3. CASE Close
  BY <1>3 DEF Close, ProcessTypeOK, WireTypeOK, HostTypeOK, hostVars, loopVars, kernelVars
<1>4. CASE HostNext
  BY <1>4, ReadStepsType, SandboxStepsType, LoopStepsType DEF HostNext
<1>5. CASE UNCHANGED processVars
  BY <1>5 DEF processVars, ProcessTypeOK, WireTypeOK, HostTypeOK, wireVars, hostVars, loopVars, kernelVars
<1> QED BY <1>1, <1>2, <1>3, <1>4, <1>5 DEF ProcessNext

(* Every variable of the runtime keeps its type, whatever the client       *)
(* writes: the host never answers with an id or for a request it does not  *)
(* know, and no continuation is confused with a request.                   *)
THEOREM TypesHold == ProcessSpec => []ProcessTypeOK
<1> QED BY InitType, NextType, PTL DEF ProcessSpec

-----------------------------------------------------------------------------
(* All that a step may do to the callbacks: nothing, queue the next one,   *)
(* fetch the queue, or complete one that waits.                            *)
QueueNext == \E p \in Ids : cbs' = cbs \cup {[id |-> nextid, owner |-> p]}
                              /\ waiting' = waiting /\ nextid' = nextid + 1
FetchAll  == cbs' = {} /\ waiting' = waiting \cup cbs /\ nextid' = nextid
DropOne   == \E c \in waiting : waiting' = waiting \ {c}
                              /\ cbs' = cbs /\ nextid' = nextid /\ Completes(c)
KeepAll   == cbs' = cbs /\ waiting' = waiting /\ nextid' \in {nextid, nextid + 1}

LEMMA ProcessRequestOnCallbacks ==
  ASSUME NEW below, NEW req, ProcessRequest(below, req), toHost # << >>,
         req = Head(toHost), req.m = "api", toHost' = Tail(toHost)
  PROVE  FetchAll \/ DropOne \/ KeepAll
<1>1. CASE Refuse(below, req)
  BY <1>1 DEF Refuse, KeepAll, kernelVars
<1>2. CASE EnterSync(below, req)
  BY <1>2 DEF EnterSync, KeepAll
<1>3. CASE EnterBegin(below, req)
  BY <1>3 DEF EnterBegin, KeepAll
<1>4. CASE Callbacks(below, req)
  BY <1>4 DEF Callbacks, FetchAll
<1>5. CASE Complete(below, req)
  <2>1. PICK c \in waiting : c.id = req.id /\ waiting' = waiting \ {c}
    BY <1>5 DEF Complete, Settle
  <2>2. hstack' = << >> => toClient' = toClient
    BY <1>5 DEF Complete, RespondLater, AnswerAndNext
  <2>3. Completes(c)
    BY <1>5, <2>1, <2>2 DEF Complete, Completes
  <2> QED BY <1>5, <2>1, <2>3 DEF Complete, DropOne
<1>6. CASE CompleteFails(below, req)
  BY <1>6 DEF CompleteFails, KeepAll, kernelVars
<1>7. CASE EndOrLoad(below, req)
  BY <1>7 DEF EndOrLoad, KeepAll, kernelVars
<1> QED BY <1>1, <1>2, <1>3, <1>4, <1>5, <1>6, <1>7 DEF ProcessRequest

LEMMA NextOnCallbacks ==
  ASSUME ProcessTypeOK, [ProcessNext]_processVars
  PROVE  QueueNext \/ FetchAll \/ DropOne \/ KeepAll
<1>1. CASE WriteLine \/ ReadLine \/ Close
  BY <1>1 DEF WriteLine, ReadLine, Close, hostVars, kernelVars, KeepAll
<1>2. CASE ReadRequest \/ ReadNested
  <2>1. /\ \E below : ProcessRequest(below, Head(toHost))
        /\ toHost # << >> /\ Head(toHost).m = "api" /\ toHost' = Tail(toHost)
    BY <1>2 DEF ReadRequest, ReadNested
  <2> QED BY <2>1, ProcessRequestOnCallbacks
<1>3. CASE Run \/ ReadMalformed \/ ReadEnd \/ ReadCompletion \/ ReadInterrupted
  BY <1>3 DEF Run, ReadMalformed, ReadEnd, ReadCompletion, ReadInterrupted, kernelVars, KeepAll
<1>4. CASE CallAsyncOverride
  <2>1. Last(hstack).id \in Ids
    BY <1>4, TopType, FrameFields DEF CallAsyncOverride
  <2> QED BY <1>4, <2>1 DEF CallAsyncOverride, QueueNext
<1>5. CASE CallSyncOverride \/ ReturnSync \/ ReturnBegin \/ ThrowBegin
  BY <1>5 DEF CallSyncOverride, ReturnSync, ReturnBegin, ThrowBegin, KeepAll
<1>6. CASE ResumeTask \/ ReturnTask \/ TimerFires
  BY <1>6 DEF ResumeTask, ReturnTask, TimerFires, KeepAll
<1>7. CASE RespondImmediate \/ RespondSettled \/ EventLoopEmpty
  BY <1>7 DEF RespondImmediate, RespondSettled, EventLoopEmpty, kernelVars, KeepAll
<1>8. CASE UNCHANGED processVars
  BY <1>8 DEF processVars, hostVars, kernelVars, KeepAll
<1> QED BY <1>1, <1>2, <1>3, <1>4, <1>5, <1>6, <1>7, <1>8 DEF ProcessNext, HostNext

(* The id nextid hands out is larger than every pending one. *)
LEMMA UniqueStep ==
  ASSUME ProcessTypeOK, CallbackIdsUnique, [ProcessNext]_processVars
  PROVE  CallbackIdsUnique'
<1>0. /\ nextid \in Nat
      /\ \A c \in cbs \cup waiting : c.id \in Nat
  BY DEF ProcessTypeOK, HostTypeOK, PendingCallbacks, Ids
<1>1. CASE QueueNext
  <2>1. PICK p \in Ids : /\ cbs' = cbs \cup {[id |-> nextid, owner |-> p]}
                         /\ waiting' = waiting /\ nextid' = nextid + 1
    BY <1>1 DEF QueueNext
  <2> QED BY <1>0, <2>1 DEF CallbackIdsUnique
<1>2. CASE FetchAll
  BY <1>0, <1>2 DEF FetchAll, CallbackIdsUnique
<1>3. CASE DropOne
  BY <1>0, <1>3 DEF DropOne, CallbackIdsUnique
<1>4. CASE KeepAll
  BY <1>0, <1>4 DEF KeepAll, CallbackIdsUnique
<1> QED BY <1>1, <1>2, <1>3, <1>4, NextOnCallbacks

(* A callback id names one pending callback, whatever the client does: the *)
(* queue it reads (Kernel.cbs) and the table that complete looks the id up *)
(* in (Kernel.waiting) never disagree.                                     *)
THEOREM CallbackIdsAreUnique == ProcessSpec => []CallbackIdsUnique
<1>1. ProcessInit => CallbackIdsUnique
  BY DEF ProcessInit, HostInit, CallbackIdsUnique
<1>2. ProcessTypeOK /\ CallbackIdsUnique /\ [ProcessNext]_processVars => CallbackIdsUnique'
  BY UniqueStep
<1> QED BY <1>1, <1>2, TypesHold, PTL DEF ProcessSpec

(* Whatever the client does, a callback that was queued leaves the kernel   *)
(* only when the client has fetched it and the kernel accepts its complete *)
(* request, and a completed one never comes back: complete, however often  *)
(* and in whatever order a client calls it, settles each async override    *)
(* once, and no other step loses one.                                      *)
THEOREM CallbacksAreCompletedOnce == ProcessSpec => CallbacksCompleteOnce
<1>1. ProcessTypeOK /\ CallbackIdsUnique /\ [ProcessNext]_processVars => [CompletedForGood]_hostVars
  <2> SUFFICES ASSUME ProcessTypeOK, CallbackIdsUnique, [ProcessNext]_processVars PROVE CompletedForGood
    OBVIOUS
  <2>0. nextid \in Nat /\ \A i \in Ids : i \in Nat
    BY DEF ProcessTypeOK, HostTypeOK, Ids
  <2>1. cbs' \cup waiting' \subseteq cbs \cup waiting
          \cup {[id |-> nextid, owner |-> p] : p \in Ids}
    BY NextOnCallbacks DEF QueueNext, FetchAll, DropOne, KeepAll
  <2>2. ASSUME NEW i \in Ids, i < nextid, \A c \in cbs \cup waiting : c.id # i,
               NEW c \in cbs' \cup waiting'
        PROVE  c.id # i
    BY <2>0, <2>1, <2>2
  <2>3. ASSUME NEW c \in cbs \cup waiting, c \notin cbs' \cup waiting'
        PROVE  c \in waiting /\ Completes(c)
    BY <2>3, NextOnCallbacks DEF QueueNext, FetchAll, DropOne, KeepAll
  <2> QED BY <2>2, <2>3 DEF CompletedForGood
<1> QED BY <1>1, TypesHold, CallbackIdsAreUnique, PTL DEF ProcessSpec, CallbacksCompleteOnce

-----------------------------------------------------------------------------
(* All that a step other than a completion may do to what is awaited: an   *)
(* invocation starts to await only what is outstanding, and no callback is *)
(* taken away.                                                             *)
AwaitsOutstanding ==
  /\ cbs \cup waiting \subseteq cbs' \cup waiting'
  /\ \A p \in Ids : promises'[p] = "awaiting"
                      => promises[p] = "awaiting" \/ Outstanding(p) # {}

LEMMA SuspendsOnOutstanding ==
  ASSUME NEW p, "awaiting" \in Suspensions(p)
  PROVE  Outstanding(p) # {}
BY DEF Suspensions

LEMMA SuspendStep ==
  ASSUME ProcessTypeOK, NEW p \in Ids, NEW st \in Suspensions(p) \cup {"ready"},
         promises' = [promises EXCEPT ![p] = st],
         cbs' = cbs, waiting' = waiting
  PROVE  AwaitsOutstanding
<1>1. ASSUME NEW q \in Ids, promises'[q] = "awaiting"
      PROVE  promises[q] = "awaiting" \/ Outstanding(q) # {}
  <2>1. promises'[q] = IF q = p THEN st ELSE promises[q]
    BY DEF ProcessTypeOK, HostTypeOK
  <2>2. CASE q = p
    BY <1>1, <2>1, <2>2, SuspendsOnOutstanding
  <2>3. CASE q # p
    BY <1>1, <2>1, <2>3
  <2> QED BY <2>2, <2>3
<1> QED BY <1>1 DEF AwaitsOutstanding

LEMMA ProcessRequestOnAwaits ==
  ASSUME ProcessTypeOK, NEW below, NEW req, ProcessRequest(below, req),
         ~ Complete(below, req)
  PROVE  AwaitsOutstanding
<1>1. CASE Refuse(below, req) \/ CompleteFails(below, req) \/ EndOrLoad(below, req)
  BY <1>1 DEF Refuse, CompleteFails, EndOrLoad, kernelVars, AwaitsOutstanding
<1>2. CASE EnterSync(below, req)
  BY <1>2 DEF EnterSync, AwaitsOutstanding
<1>3. CASE EnterBegin(below, req)
  BY <1>3 DEF EnterBegin, AwaitsOutstanding, ProcessTypeOK, HostTypeOK
<1>4. CASE Callbacks(below, req)
  BY <1>4 DEF Callbacks, AwaitsOutstanding
<1> QED BY <1>1, <1>2, <1>3, <1>4 DEF ProcessRequest

LEMMA NextOnAwaits ==
  ASSUME ProcessTypeOK, [ProcessNext]_processVars, \A below, req : ~ Complete(below, req)
  PROVE  AwaitsOutstanding
<1>0. promises \in [Ids -> PromiseStates]
  BY DEF ProcessTypeOK, HostTypeOK
<1>1. CASE WriteLine \/ ReadLine \/ Close
  BY <1>1 DEF WriteLine, ReadLine, Close, hostVars, kernelVars, AwaitsOutstanding
<1>2. CASE ReadRequest \/ ReadNested
  <2>1. PICK below, req : ProcessRequest(below, req)
    BY <1>2 DEF ReadRequest, ReadNested
  <2> QED BY <2>1, ProcessRequestOnAwaits
<1>3. CASE Run \/ ReadMalformed \/ ReadEnd \/ ReadCompletion \/ ReadInterrupted
  BY <1>3 DEF Run, ReadMalformed, ReadEnd, ReadCompletion, ReadInterrupted,
              kernelVars, AwaitsOutstanding
<1>4. CASE CallAsyncOverride
  BY <1>4 DEF CallAsyncOverride, AwaitsOutstanding
<1>5. CASE CallSyncOverride \/ ReturnSync
  BY <1>5 DEF CallSyncOverride, ReturnSync, AwaitsOutstanding
<1>6. CASE ReturnBegin
  <2>1. Last(hstack).id \in Ids
    BY <1>6, TopType, FrameFields DEF ReturnBegin
  <2>2. PICK st \in Suspensions(Last(hstack).id) \cup {"ready"} :
          promises' = [promises EXCEPT ![Last(hstack).id] = st]
    BY <1>6 DEF ReturnBegin
  <2> QED BY <1>6, <2>1, <2>2, SuspendStep DEF ReturnBegin
<1>7. CASE ReturnTask
  <2>1. Last(hstack).id \in Ids
    BY <1>7, TopType, FrameFields DEF ReturnTask
  <2>2. PICK st \in Suspensions(Last(hstack).id) :
          promises' = [promises EXCEPT ![Last(hstack).id] = st]
    BY <1>7 DEF ReturnTask
  <2> QED BY <1>7, <2>1, <2>2, SuspendStep DEF ReturnTask
<1>8. CASE ThrowBegin
  BY <1>0, <1>8 DEF ThrowBegin, AwaitsOutstanding
<1>9. CASE ResumeTask \/ TimerFires
  BY <1>0, <1>9 DEF ResumeTask, TimerFires, AwaitsOutstanding
<1>10. CASE RespondImmediate \/ RespondSettled \/ EventLoopEmpty
  BY <1>10 DEF RespondImmediate, RespondSettled, EventLoopEmpty, kernelVars, AwaitsOutstanding
<1>11. CASE UNCHANGED processVars
  BY <1>11 DEF processVars, hostVars, kernelVars, AwaitsOutstanding
<1> QED BY <1>1, <1>2, <1>3, <1>4, <1>5, <1>6, <1>7, <1>8, <1>9, <1>10, <1>11
        DEF ProcessNext, HostNext

(* A completion resumes the invocation unless another callback is left. *)
LEMMA CompletionStep ==
  ASSUME ProcessTypeOK, AwaitsSomething, NEW below, NEW req, Complete(below, req)
  PROVE  AwaitsSomething'
<1>1. PICK c \in waiting : Settle(c)
  BY DEF Complete
<1>2. cbs' = cbs /\ waiting' = waiting \ {c}
  BY <1>1 DEF Complete, Settle
<1>3. ASSUME NEW p \in Ids, promises'[p] = "awaiting"
      PROVE  Outstanding(p)' # {}
  <2>1. promises[p] = "awaiting"
    BY <1>1, <1>3 DEF Settle, ProcessTypeOK, HostTypeOK
  <2>2. Outstanding(p) # {}
    BY <2>1 DEF AwaitsSomething
  <2>3. Outstanding(p) # {c}
    <3>1. CASE c.owner = p
      BY <1>1, <1>3, <2>1, <3>1 DEF Settle, ProcessTypeOK, HostTypeOK
    <3>2. CASE c.owner # p
      BY <3>2 DEF Outstanding
    <3> QED BY <3>1, <3>2
  <2>4. PICK d \in Outstanding(p) : d # c
    BY <2>2, <2>3
  <2> QED BY <1>2, <2>4 DEF Outstanding
<1> QED BY <1>3 DEF AwaitsSomething

LEMMA AwaitsStep ==
  ASSUME ProcessTypeOK, AwaitsSomething, [ProcessNext]_processVars
  PROVE  AwaitsSomething'
<1>1. CASE \E below, req : Complete(below, req)
  BY <1>1, CompletionStep
<1>2. CASE ~ \E below, req : Complete(below, req)
  <2>1. AwaitsOutstanding
    BY <1>2, NextOnAwaits
  <2> QED BY <2>1 DEF AwaitsOutstanding, AwaitsSomething, Outstanding
<1> QED BY <1>1, <1>2

(* No wakeup is lost: whatever the client does, an async method that       *)
(* awaits its overrides has one that is still queued or waiting.           *)
THEOREM NoWakeupIsLost == ProcessSpec => []AwaitsSomething
<1>1. ProcessInit => AwaitsSomething
  BY DEF ProcessInit, HostInit, AwaitsSomething
<1>2. ProcessTypeOK /\ AwaitsSomething /\ [ProcessNext]_processVars => AwaitsSomething'
  BY AwaitsStep
<1> QED BY <1>1, <1>2, TypesHold, PTL DEF ProcessSpec

-----------------------------------------------------------------------------
(* Nothing else will make the host read a request. *)
NoDriver == imm = << >> /\ pendingEnd = {}

(* The bottom of the stack is still the bottom once the top has returned. *)
LEMMA BottomStays ==
  ASSUME ProcessTypeOK, hstack # << >>
  PROVE  /\ Front(hstack) # << >> => Front(hstack)[1] = hstack[1]
         /\ Front(hstack) = << >> => hstack[1] = Last(hstack)
<1>1. /\ hstack \in Seq(Frames) /\ Len(hstack) \in Nat \ {0}
      /\ Front(hstack) \in Seq(Frames)
      /\ Len(Front(hstack)) = Len(hstack) - 1
      /\ \A i \in 1 .. Len(hstack) - 1 : Front(hstack)[i] = hstack[i]
  BY FrontLast, EmptySeq DEF ProcessTypeOK, HostTypeOK
<1>2. CASE Front(hstack) # << >>
  <2>1. Len(Front(hstack)) \in Nat \ {0}
    BY <1>1, <1>2, EmptySeq
  <2> QED BY <1>1, <1>2, <2>1
<1>3. CASE Front(hstack) = << >>
  <2>1. Len(hstack) = 1
    BY <1>1, <1>3
  <2> QED BY <1>3, <2>1 DEF Last
<1> QED BY <1>2, <1>3

(* The frames under a handler that answers: either it was the only driver, *)
(* or the one at the bottom of the stack still is.                         *)
Below(below) ==
  /\ below \in Seq(Frames)
  /\ below = << >> => NoDriver
  /\ below # << >> => hstack # << >> /\ below[1] = hstack[1]

LEMMA BelowTop ==
  ASSUME ProcessTypeOK, OneDriver, hstack # << >>, Last(hstack).k # "task"
  PROVE  Below(Front(hstack)) /\ Below(hstack)
<1>1. Front(hstack) \in Seq(Frames) /\ hstack \in Seq(Frames)
  BY FrontLast DEF ProcessTypeOK, HostTypeOK
<1> QED BY <1>1, BottomStays DEF Below, OneDriver, NoDriver

LEMMA OneImmediate ==
  ASSUME NEW S, NEW e \in S
  PROVE  Len(Append(<< >>, e)) = 1
BY AppendOne, EmptySeq

LEMMA AnswerDriver ==
  ASSUME ProcessTypeOK, OneDriver, NEW below, Below(below), NEW rid, NEW ok, NEW ids,
         AnswerAndNext(below, rid, ok, ids)
  PROVE  OneDriver'
<1>1. CASE below = << >>
  BY <1>1, OneImmediate DEF Below, NoDriver, AnswerAndNext, OneDriver
<1>2. CASE below # << >>
  BY <1>2 DEF Below, AnswerAndNext, OneDriver
<1> QED BY <1>1, <1>2

LEMMA RespondLaterDriver ==
  ASSUME ProcessTypeOK, OneDriver, NEW below, Below(below), NEW rid, NEW ids,
         RespondLater(below, rid, ids)
  PROVE  OneDriver'
<1>1. CASE below = << >>
  <2>1. /\ imm' = Append(<< >>, [k |-> "respond", rid |-> rid, ids |-> ids])
        /\ hstack' = << >> /\ pendingEnd' = {}
    BY <1>1 DEF Below, NoDriver, RespondLater
  <2>2. Len(imm') = 1
    BY <2>1, [k |-> "respond", rid |-> rid, ids |-> ids]
               \in {[k |-> "respond", rid |-> rid, ids |-> ids]}, OneImmediate
  <2> QED BY <2>1, <2>2 DEF OneDriver
<1>2. CASE below # << >>
  <2>1. AnswerAndNext(below, rid, FALSE, {})
    BY <1>2 DEF RespondLater
  <2> QED BY <2>1, AnswerDriver
<1> QED BY <1>1, <1>2

LEMMA RespondWhenSettledDriver ==
  ASSUME ProcessTypeOK, OneDriver, NEW below, Below(below), NEW rid, NEW id,
         RespondWhenSettled(below, rid, id)
  PROVE  OneDriver'
<1>1. CASE below = << >>
  BY <1>1 DEF Below, NoDriver, RespondWhenSettled, OneDriver
<1>2. CASE below # << >>
  <2>1. AnswerAndNext(below, rid, FALSE, {})
    BY <1>2 DEF RespondWhenSettled
  <2> QED BY <2>1, AnswerDriver
<1> QED BY <1>1, <1>2

(* A request enters a kernel operation above the frame that read it. *)
LEMMA EnterDriver ==
  ASSUME ProcessTypeOK, OneDriver, NEW below, Below(below), NEW f \in Frames,
         hstack' = Append(below, f), imm' = imm, pendingEnd' = pendingEnd
  PROVE  OneDriver'
<1>1. hstack'[1] = IF below = << >> THEN f ELSE below[1]
  BY AppendOne DEF Below
<1>2. imm' # << >> => pendingEnd' = {}
  BY DEF OneDriver
<1>3. hstack' # << >> /\ hstack'[1].k # "task" => imm' = << >> /\ pendingEnd' = {}
  <2>1. CASE below = << >>
    BY <2>1 DEF Below, NoDriver
  <2>2. CASE below # << >>
    BY <1>1, <2>2 DEF Below, OneDriver
  <2> QED BY <2>1, <2>2
<1> QED BY <1>2, <1>3 DEF OneDriver

LEMMA ProcessRequestDriver ==
  ASSUME ProcessTypeOK, OneDriver, NEW below, Below(below),
         NEW req \in Request \cup Finish, req.m = "api", ProcessRequest(below, req)
  PROVE  OneDriver'
<1>0. req.rid \in Rids
  BY LineFields
<1>1. CASE Refuse(below, req) \/ Callbacks(below, req) \/ CompleteFails(below, req)
  BY <1>1, AnswerDriver DEF Refuse, Callbacks, CompleteFails
<1>2. CASE EnterSync(below, req)
  <2>1. Frame(req.op, req.rid, 0) \in Frames
    BY <1>0, <1>2, FramesBuilt DEF EnterSync, SyncApi
  <2> QED BY <1>2, <2>1, EnterDriver DEF EnterSync
<1>3. CASE EnterBegin(below, req)
  <2>1. nextid \in Ids
    BY <1>3, NextIdIsId DEF EnterBegin, ProcessTypeOK, HostTypeOK
  <2>2. Frame("begin", req.rid, nextid) \in Frames
    BY <1>0, <2>1, FramesBuilt
  <2> QED BY <1>3, <2>2, EnterDriver DEF EnterBegin
<1>4. CASE Complete(below, req)
  BY <1>4, RespondLaterDriver DEF Complete
<1>5. CASE EndOrLoad(below, req)
  BY <1>5, RespondWhenSettledDriver DEF EndOrLoad
<1> QED BY <1>1, <1>2, <1>3, <1>4, <1>5 DEF ProcessRequest

(* A step that returns from the top of the stack, and does nothing else. *)
LEMMA ReturnDriver ==
  ASSUME ProcessTypeOK, OneDriver, hstack # << >>,
         hstack' = Front(hstack), imm' = imm, pendingEnd' = pendingEnd
  PROVE  OneDriver'
BY BottomStays DEF OneDriver

LEMMA DriverStep ==
  ASSUME ProcessTypeOK, OneDriver, [ProcessNext]_processVars
  PROVE  OneDriver'
<1>1. CASE WriteLine \/ ReadLine \/ Close
  BY <1>1 DEF WriteLine, ReadLine, Close, hostVars, loopVars, OneDriver
<1>2. CASE Run
  <2>1. Tail(imm) = << >>
    <3>1. Tail(imm) \in Seq(Immediates) /\ Len(Tail(imm)) = Len(imm) - 1
          /\ Len(imm) \in Nat \ {0}
      BY <1>2, HeadTail, EmptySeq DEF Run, ProcessTypeOK, HostTypeOK
    <3> QED BY <3>1, EmptySeq DEF OneDriver
  <2>2. imm' = << >> /\ pendingEnd' = {}
    BY <1>2, <2>1 DEF Run, OneDriver
  <2> QED BY <2>2 DEF OneDriver
<1>3. CASE ReadRequest
  <2>1. Below(Front(hstack))
    BY <1>3, BelowTop DEF ReadRequest, Running
  <2>2. Head(toHost) \in Request \cup Finish
    BY <1>3, ReadType DEF ReadRequest
  <2> QED BY <1>3, <2>1, <2>2, ProcessRequestDriver DEF ReadRequest
<1>4. CASE ReadNested
  <2>1. Below(hstack)
    BY <1>4, BelowTop DEF ReadNested, Running
  <2>2. Head(toHost) \in Request \cup Finish
    BY <1>4, ReadType DEF ReadNested
  <2> QED BY <1>4, <2>1, <2>2, ProcessRequestDriver DEF ReadNested
<1>5. CASE ReadMalformed \/ CallAsyncOverride \/ TimerFires \/ EventLoopEmpty
  BY <1>5 DEF ReadMalformed, CallAsyncOverride, TimerFires, EventLoopEmpty, loopVars, OneDriver
<1>6. CASE ReadEnd \/ ReadCompletion \/ ReadInterrupted \/ ReturnTask
  BY <1>6, ReturnDriver DEF ReadEnd, ReadCompletion, ReadInterrupted, ReturnTask, Running
<1>7. CASE CallSyncOverride
  <2>1. nextid \in Ids
    BY <1>7, NextIdIsId DEF CallSyncOverride, ProcessTypeOK, HostTypeOK
  <2>2. hstack'[1] = hstack[1]
    BY <1>7, <2>1, FramesBuilt, AppendOne DEF CallSyncOverride, Running, ProcessTypeOK, HostTypeOK
  <2> QED BY <1>7, <2>2 DEF CallSyncOverride, Running, OneDriver
<1>8. CASE ReturnSync \/ ThrowBegin
  <2>1. Below(Front(hstack))
    BY <1>8, BelowTop DEF ReturnSync, ThrowBegin, Running
  <2> QED BY <1>8, <2>1, AnswerDriver DEF ReturnSync, ThrowBegin
<1>9. CASE ReturnBegin
  <2>1. Below(Front(hstack))
    BY <1>9, BelowTop DEF ReturnBegin, Running
  <2> QED BY <1>9, <2>1, RespondLaterDriver DEF ReturnBegin
<1>10. CASE ResumeTask
  <2>1. hstack'[1].k = "task"
    BY <1>10 DEF ResumeTask, Frame
  <2> QED BY <1>10, <2>1 DEF ResumeTask, OneDriver
<1>11. CASE RespondImmediate
  <2>1. Tail(imm) = << >>
    <3>1. Tail(imm) \in Seq(Immediates) /\ Len(Tail(imm)) = Len(imm) - 1
          /\ Len(imm) \in Nat \ {0}
      BY <1>11, HeadTail, EmptySeq DEF RespondImmediate, ProcessTypeOK, HostTypeOK
    <3> QED BY <3>1, EmptySeq DEF OneDriver
  <2> QED BY <1>11, <2>1, OneImmediate DEF RespondImmediate, Idle, OneDriver
<1>12. CASE RespondSettled
  <2>1. imm = << >> /\ pendingEnd' = {}
    BY <1>12 DEF RespondSettled, OneDriver
  <2> QED BY <1>12, <2>1, OneImmediate DEF RespondSettled, Idle, OneDriver
<1>13. CASE UNCHANGED processVars
  BY <1>13 DEF processVars, hostVars, loopVars, OneDriver
<1> QED BY <1>1, <1>2, <1>3, <1>4, <1>5, <1>6, <1>7, <1>8, <1>9, <1>10, <1>11, <1>12, <1>13
        DEF ProcessNext, HostNext

(* The request loop is never entered twice and never runs while a request  *)
(* is open: two responses cannot overtake each other, whatever the client  *)
(* writes and whatever promises and immediates the sandbox code leaves.    *)
THEOREM OneDriverHolds == ProcessSpec => []OneDriver
<1>1. ProcessInit => OneDriver
  <2> SUFFICES ASSUME ProcessInit PROVE OneDriver
    OBVIOUS
  <2>1. Len(imm) = 1
    BY DEF ProcessInit, HostInit
  <2> QED BY <2>1 DEF ProcessInit, HostInit, OneDriver
<1>2. ProcessTypeOK /\ OneDriver /\ [ProcessNext]_processVars => OneDriver'
  BY DriverStep
<1> QED BY <1>1, <1>2, TypesHold, PTL DEF ProcessSpec
=============================================================================
