----------------------------- MODULE Validator -----------------------------
(***************************************************************************)
(* The validator (packages/jsii/lib/validator.ts): what is required of an  *)
(* assembly once it is complete, and the `overrides' it adds to members.   *)
(* An assembly is a function from fully qualified names to types.          *)
(***************************************************************************)
EXTENDS Assembler

InStyle(name, styles) == Style[name] \cap styles # {}

Members(type) == type.methods \cup type.properties

(* The five rules for names; a getter has no parameters, a setter one.     *)
BadNames(assembly) ==
  UNION {
    ErrorIf(~ InStyle(f, {"pascal"}), "type name")
      \cup ErrorIf(\E v \in assembly[f].members : ~ InStyle(v, {"upper"}), "enum member name")
      \cup ErrorIf(\/ \E m \in assembly[f].methods : ~ InStyle(m.name, {"camel"})
                   \/ \E p \in assembly[f].properties :
                        ~ (p.static /\ p.const) /\ ~ InStyle(p.name, {"camel"}), "member name")
      \cup ErrorIf(\E p \in assembly[f].properties :
                     p.static /\ p.const /\ ~ InStyle(p.name, {"upper", "pascal", "camel"}), "constant name")
      \cup ErrorIf(\/ \E m \in assembly[f].methods :
                        \/ InStyle(m.name, {"get"}) /\ m.parameters = << >>
                        \/ InStyle(m.name, {"set"}) /\ Len(m.parameters) = 1
                   \/ \E p \in assembly[f].properties : InStyle(p.name, {"get"}), "accessor name")
    : f \in DOMAIN assembly }

(* _allTypeReferences does not look at initializers. *)
References(type) ==
  (IF type.base = None THEN {} ELSE {type.base})
    \cup ToSet(type.interfaces)
    \cup (UNION {NamedIn(p.type) : p \in type.properties})
    \cup UNION {UNION {NamedIn(v.type) : v \in ToSet(m.returns) \cup ToSet(m.parameters)} : m \in type.methods}

InvalidReferences(assembly) ==
  ErrorIf(\E f \in DOMAIN assembly :
            ~ References(assembly[f]) \subseteq DOMAIN assembly \cup ForeignTypes, "un-exported type")

-----------------------------------------------------------------------------
(* _inehritanceDoesNotChangeContracts                                      *)
Declares(type, m) ==
  IF "returns" \in DOMAIN m THEN \E n \in type.methods : n.name = m.name
  ELSE \E p \in type.properties : p.name = m.name

(* The nearest base class of f that declares the member, None if there is  *)
(* none                                                                    *)
OverriddenIn(f, m, assembly) ==
  LET nearest[g \in Fqns \cup {None}] ==
        IF g = None THEN None
        ELSE IF Declares(InAssembly(g, assembly), m) THEN g
        ELSE nearest[InAssembly(g, assembly).base]
  IN nearest[InAssembly(f, assembly).base]

(* The first interface, depth first, that declares it *)
ImplementedFrom(f, m, assembly) ==
  LET found[g \in Fqns] ==
        LET candidates == SelectSeq(InAssembly(g, assembly).interfaces,
                            LAMBDA i : Declares(InAssembly(i, assembly), m) \/ found[i] # None)
        IN IF candidates = << >> THEN None
           ELSE IF Declares(InAssembly(candidates[1], assembly), m) THEN candidates[1]
           ELSE found[candidates[1]]
  IN found[f]

(* Mutant: an implementation prevails for methods as well. *)
OverriddenMember_Interface(f, m, assembly) ==
  LET class == OverriddenIn(f, m, assembly)
      iface == ImplementedFrom(f, m, assembly)
  IN IF iface # None THEN iface ELSE IF IsClass(assembly[f]) THEN class ELSE None

(* The type whose member it overrides: for a method, a base class before   *)
(* an interface; for a property, the other way round.                      *)
OverriddenMember(f, m, assembly) ==
  LET class == IF IsClass(assembly[f]) THEN OverriddenIn(f, m, assembly) ELSE None
      iface == ImplementedFrom(f, m, assembly)
      method == "returns" \in DOMAIN m
  IN IF class # None /\ (method \/ iface = None) THEN class ELSE iface

(* The types it is compared with: a property may be with both. *)
ComparedWith(f, m, assembly) ==
  LET class == IF IsClass(assembly[f]) THEN OverriddenIn(f, m, assembly) ELSE None
  IN {class, OverriddenMember(f, m, assembly)} \ {None}

Shape(p) == <<p.type, p.variadic, p.optional>>

SignaturesMatch(expected, actual) ==
  /\ actual.returns = expected.returns
  /\ Len(actual.parameters) = Len(expected.parameters)
  /\ \A i \in DOMAIN actual.parameters : Shape(actual.parameters[i]) = Shape(expected.parameters[i])

PropertiesMatch(expected, actual) ==
  /\ actual.type = expected.type
  /\ actual.immutable = expected.immutable
  /\ actual.optional = expected.optional

ContractErrors(assembly) ==
  UNION {
    ErrorIf(\/ \E m \in assembly[f].methods : \E b \in ComparedWith(f, m, assembly) :
                 \E n \in InAssembly(b, assembly).methods : n.name = m.name /\ ~ SignaturesMatch(n, m)
            \/ \E p \in assembly[f].properties : \E b \in ComparedWith(f, p, assembly) :
                 \E q \in InAssembly(b, assembly).properties : q.name = p.name /\ ~ PropertiesMatch(q, p),
            "contract")
    : f \in DOMAIN assembly }

ValidationErrors(assembly) ==
  BadNames(assembly) \cup InvalidReferences(assembly) \cup ContractErrors(assembly)

WithOverrides(assembly) ==
  LET mark(f, m) == [m EXCEPT !.overrides = OverriddenMember(f, m, assembly)] IN
    [f \in DOMAIN assembly |->
       [assembly[f] EXCEPT !.methods = {mark(f, m) : m \in @}, !.properties = {mark(f, p) : p \in @}]]
=============================================================================
