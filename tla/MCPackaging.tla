---------------------------- MODULE MCPackaging ----------------------------
EXTENDS Packaging

(* a needs d, and c, which needs d as well and x, which is no jsii package. *)
Diamond == [a |-> <<"d", "c">>, c |-> <<"x", "d">>, d |-> << >>, x |-> << >>]

Invoked(clean, codeOnly, force, recurse) ==
  [clean |-> clean, codeOnly |-> codeOnly, force |-> force, recurse |-> recurse]
SomeInvocations ==
  {Invoked(TRUE, FALSE, FALSE, TRUE), Invoked(FALSE, TRUE, FALSE, TRUE),
   Invoked(FALSE, FALSE, TRUE, FALSE)}
=============================================================================
