---------------------------- MODULE TypeSystem ----------------------------
(***************************************************************************)
(* The types of an assembly as jsii-reflect presents them.  A type system  *)
(* is a function from names to declarations:                               *)
(*                                                                         *)
(*   [kind |-> "class", stability, abstract, subclassable, base,           *)
(*    interfaces, init, methods, props]                                    *)
(*   [kind |-> "interface", datatype, stability, abstract, subclassable,   *)
(*    base, interfaces, init, methods, props]                              *)
(*   [kind |-> "enum", stability, members]                                 *)
(*                                                                         *)
(* base, interfaces and init are sets (of at most one base and one         *)
(* initializer); methods, props and members are functions from names.      *)
(* A stability that is not declared is "none".                             *)
(***************************************************************************)
EXTENDS Naturals, Sequences, FiniteSetsExt, SequencesExt

Prim(p)    == [k |-> "prim", p |-> p]
ArrayOf(t) == [k |-> "array", of |-> t]
MapOf(t)   == [k |-> "map", of |-> t]
Union(ts)  == [k |-> "union", of |-> ts]
Named(f)   == [k |-> "named", fqn |-> f]
Void       == [k |-> "void"]
AnyType    == Prim("any")

IsClass(f, sys)  == sys[f].kind = "class"
IsEnum(f, sys)   == sys[f].kind = "enum"
IsStruct(f, sys) == sys[f].kind = "interface" /\ sys[f].datatype

-----------------------------------------------------------------------------
(* getAncestors; base.getAncestors() recurs. *)
RECURSIVE Ancestors(_, _)
Ancestors(f, sys) == UNION {{b} \cup Ancestors(b, sys) : b \in sys[f].base}

(* getInterfaces(true): an interface lists the interfaces of those it      *)
(* extends; a class lists its own and its bases', not what these extend.   *)
RECURSIVE AllInterfaces(_, _)
AllInterfaces(f, sys) ==
  sys[f].interfaces \cup
    IF IsClass(f, sys) THEN UNION {AllInterfaces(b, sys) : b \in sys[f].base}
    ELSE UNION {AllInterfaces(i, sys) : i \in sys[f].interfaces}

(* Type.extends *)
ExtendsType(sub, super, sys) ==
  \/ sub = super
  \/ /\ ~ IsEnum(sub, sys) /\ ~ IsEnum(super, sys)
     /\ IF IsClass(super, sys) THEN IsClass(sub, sys) /\ super \in Ancestors(sub, sys)
        ELSE super \in AllInterfaces(sub, sys)

(* allMethods and allProperties: a class inherits from its base, an        *)
(* interface from those it extends; a type's own members prevail.          *)
RECURSIVE AllMethods(_, _)
AllMethods(f, sys) ==
  sys[f].methods @@
    FoldSet(LAMBDA s, ms : AllMethods(s, sys) @@ ms, << >>,
            IF IsClass(f, sys) THEN sys[f].base ELSE sys[f].interfaces)
RECURSIVE AllProperties(_, _)
AllProperties(f, sys) ==
  sys[f].props @@
    FoldSet(LAMBDA s, ps : AllProperties(s, sys) @@ ps, << >>,
            IF IsClass(f, sys) THEN sys[f].base ELSE sys[f].interfaces)
AllMembers(f, sys) == AllProperties(f, sys) @@ AllMethods(f, sys)

(* Docs.stability: a member is no more stable than its type. *)
Rank(s) == CHOOSE i \in 1 .. 4 : <<"deprecated", "experimental", "external", "stable">>[i] = s
LowestStability(a, b) ==
  CASE a = "none" -> b
    [] b = "none" -> a
    [] OTHER      -> IF Rank(a) < Rank(b) THEN a ELSE b
StabilityOf(f, sys) == sys[f].stability
MemberStability(member, f, sys) == LowestStability(member.stability, StabilityOf(f, sys))
=============================================================================
