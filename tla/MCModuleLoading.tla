-------------------------- MODULE MCModuleLoading --------------------------
EXTENDS ModuleLoading

(* The diamond: c depends on a and b, and b on a. *)
DiamondModules == {"a", "b", "c"}
DiamondDeps    == [a |-> {}, b |-> {"a"}, c |-> {"a", "b"}]
SingleModule   == {"a"}
SingleDeps     == [a |-> {}]
=============================================================================
