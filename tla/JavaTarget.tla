---------------------------- MODULE JavaTarget ----------------------------
(***************************************************************************)
(* The Java that is generated for an assembly (packages/jsii-pacmak/lib/   *)
(* targets/java.ts): for each type, the members of its class or interface  *)
(* and those of its class Jsii$Proxy, by name and erased parameter types.  *)
(***************************************************************************)
EXTENDS Generator

CONSTANTS
  GetterOf, SetterOf, \* the names of the accessors of each property
  JavaMethod          \* the names of methods, no keywords: safeJavaMethodName

(* toJavaTypes and toJavaType, erased *)
JavaTypes(ref) ==
  LET plain(r) == IF IsNamed(r) THEN r.fqn ELSE r.primitive IN
    CASE IsUnion(ref)      -> {plain(r) : r \in ref.types}
      [] IsCollection(ref) -> {ref.kind}
      [] OTHER             -> {plain(ref)}

JavaType(ref) ==
  IF IsUnion(ref) THEN CANONICAL_ANY.primitive ELSE CHOOSE t \in JavaTypes(ref) : TRUE

JavaMember(name, types, m, abstract, override) ==
  [name |-> name, types |-> types, static |-> m.static, abstract |-> abstract, override |-> override]

ParameterTypes(ps) == [i \in DOMAIN ps |-> [type |-> JavaType(ps[i].type), variadic |-> ps[i].variadic]]

(* The overloads of a method.  emitMethod makes the name safe in a class or *)
(* proxy, onInterfaceMethod does not in an interface.                      *)
JavaMethods(name, m, abstract, override) ==
  {JavaMember(name, ParameterTypes(ps), m, abstract, override) : ps \in Overloads(m.parameters)}

(* emitProperty or onInterfaceProperty *)
JavaProperty(p, abstract, override) ==
  {JavaMember(GetterOf[p.name], << >>, p, abstract, override)}
    \cup {JavaMember(SetterOf[p.name], <<[type |-> t, variadic |-> FALSE]>>, p, abstract, override) :
            t \in IF p.immutable THEN {} ELSE JavaTypes(p.type)}

(* A constant is a field.  An abstract property of a class has a body. *)
JavaMembers(f, assembly) ==
  LET type == InAssembly(f, assembly) IN
    IF IsInterface(type)
    THEN UNION {JavaMethods(m.name, m, TRUE, FALSE) : m \in type.methods}
           \cup UNION {JavaProperty(p, TRUE, FALSE) : p \in type.properties}
    ELSE UNION {JavaMethods(JavaMethod[m.name], m, m.abstract, m.overrides # None) : m \in type.methods}
           \cup UNION {JavaProperty(p, FALSE, p.overrides # None) : p \in {p \in type.properties : ~ p.const}}

HasProxy(f, assembly) == IsInterface(assembly[f]) \/ assembly[f].abstract

(* Of members by the same name, the one that was collected last; `members' *)
(* is a sequence of sets.                                                  *)
LastByName(members) ==
  UNION {{m \in members[i] : \A j \in i + 1 .. Len(members), n \in UNION ToSet(members) :
            n \in members[j] => n.name # m.name} : i \in DOMAIN members}

(* Mutant: a struct has the properties of those it extends, but no more. *)
AllProps_Near(f, assembly) ==
  LET types == <<f>> \o Bases(InAssembly(f, assembly)) IN
    LastByName([i \in DOMAIN types |-> InAssembly(types[i], assembly).properties])

(* collectProps *)
AllProps(f, assembly) ==
  LET types == CollectedTypes(f, assembly) IN LastByName([i \in DOMAIN types |-> types[i].properties])

(* emitDataType for a struct, emitProxy for another *)
JavaProxy(f, assembly) ==
  LET types == CollectedTypes(f, assembly)
      properties == LastByName([i \in DOMAIN types |-> AbstractOf(types[i].properties)])
      methods == LastByName([i \in DOMAIN types |-> AbstractOf(types[i].methods)])
  IN IF assembly[f].datatype
     THEN {JavaMember(GetterOf[p.name], << >>, p, FALSE, TRUE) : p \in AllProps(f, assembly)}
     ELSE UNION {JavaProperty(p, FALSE, TRUE) : p \in properties}
            \cup UNION {JavaMethods(JavaMethod[m.name], m, FALSE, TRUE) : m \in methods}

SameSignature(m, n) == m.name = n.name /\ m.types = n.types
=============================================================================
