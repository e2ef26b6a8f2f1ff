---------------------------- MODULE MCOverrides ----------------------------
EXTENDS Overrides

(* One member of every sort next to a declared method, which calls it. *)
Caller == [kind |-> "method", declared |-> TRUE, at |-> "prototype"]
CallerAndMember == {[a |-> m, b |-> Caller] : m \in Members}

(* One or two native classes, which may redefine the caller, and the       *)
(* member as either kind.                                                  *)
Definitions == SUBSET {Override("method", "a"), Override("property", "a"), Override("method", "b")}
OneOrTwoClasses == UNION {[1 .. d -> Definitions] : d \in 1 .. 2}
=============================================================================
