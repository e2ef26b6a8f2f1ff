----------------------------- MODULE Generator -----------------------------
(***************************************************************************)
(* What the code generators of jsii-pacmak share (lib/generator.ts): they  *)
(* walk the types of an assembly, and a language overrides the hooks that  *)
(* emit each of them.                                                      *)
(***************************************************************************)
EXTENDS JsiiSpec

(* createOverloadsForOptionals, with the method itself: optional arguments *)
(* at the end may be left out.                                             *)
Overloads(parameters) ==
  {SubSeq(parameters, 1, n) : n \in {n \in 0 .. Len(parameters) :
     \A i \in DOMAIN parameters : i > n => parameters[i].optional}}

Bases(type) == type.interfaces \o (IF type.base = None THEN << >> ELSE <<type.base>>)

(* Mutant: the bases of the bases are not asked. *)
NearCollected(assembly) ==
  [f \in DOMAIN assembly \cup DOMAIN Foreign |-> <<f>> \o Bases(InAssembly(f, assembly))]

(* collectAbstractMembers and collectProps: the types it comes by, in order *)
Collected(assembly) ==
  LET collected[f \in Fqns] ==
        LET bases == Bases(InAssembly(f, assembly)) IN
          <<f>> \o FlattenSeq([i \in DOMAIN bases |-> collected[bases[i]]])
  IN [f \in DOMAIN assembly \cup DOMAIN Foreign |-> collected[f]]

CollectedTypes(f, assembly) ==
  LET fqns == Collected(assembly)[f] IN [i \in DOMAIN fqns |-> InAssembly(fqns[i], assembly)]

(* All that a type extends or implements *)
Above(f, assembly) == ToSet(Collected(assembly)[f]) \ {f}

(* The base classes of a class *)
BaseClasses(f, assembly) == {g \in Above(f, assembly) : IsClass(InAssembly(g, assembly))}

AbstractOf(members) == {m \in members : m.abstract}
=============================================================================
