---------------------------- MODULE RuntimeWire ----------------------------
(***************************************************************************)
(* The two pipes between a native client and the jsii-runtime process,     *)
(* and the messages they carry (packages/jsii-runtime/lib/in-out.ts).      *)
(* Messages are single lines of JSON; nothing on the wire names the        *)
(* request a response answers.  The `rid' carried here is a history value  *)
(* that only the properties look at: it says which request a response was  *)
(* written for.                                                            *)
(***************************************************************************)
EXTENDS Naturals, FiniteSets, SequencesExt

CONSTANTS
  MaxId,    \* bound on Kernel.nextid: callbacks + promises of a behaviour
  MaxRid    \* bound on the requests in flight at the same time

ASSUME MaxIdAssumption  == MaxId \in Nat
ASSUME MaxRidAssumption == MaxRid \in Nat \ {0}

VARIABLES
  toHost,   \* stdin of the runtime: lines written and not yet read
  toClient, \* stdout of the runtime: lines written and not yet read
  eof       \* the client closed its end of stdin

wireVars == <<toHost, toClient, eof>>

Ids  == 1 .. MaxId      \* callback ids and promise ids, from one counter
Rids == 1 .. MaxRid

(* The kernel apis, by what the host does with them.  "sync" stands for    *)
(* get, set, sget, sset, invoke and sinvoke, which run sandbox code under  *)
(* _ensureSync; "create" runs a constructor without it.                    *)
SyncApi  == {"sync", "create"}
AsyncApi == {"begin", "complete", "end", "load"}
Api      == SyncApi \cup AsyncApi \cup {"callbacks"}

(* {"api": ...} and {"complete": ...}, the lines a client writes. *)
Request  == [m : {"api"}, op : Api, rid : Rids, id : Ids \cup {0}, err : BOOLEAN]
Finish   == [m : {"complete"}, id : Ids]

(* {"ok": ...} or {"error": ...}, and {"callback": ...}, the lines the     *)
(* runtime writes.  `ids' is the payload later requests depend on: the     *)
(* promise of a begin, the pending callbacks of a callbacks request.       *)
Response == [m : {"response"}, rid : Rids, ok : BOOLEAN, ids : SUBSET Ids]
Callback == [m : {"callback"}, id : Ids]

WireTypeOK ==
  /\ toHost \in Seq(Request \cup Finish)
  /\ toClient \in Seq(Response \cup Callback)
  /\ eof \in BOOLEAN

WireInit ==
  /\ toHost = << >>
  /\ toClient = << >>
  /\ eof = FALSE
=============================================================================
