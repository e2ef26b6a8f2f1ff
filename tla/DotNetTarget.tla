--------------------------- MODULE DotNetTarget ---------------------------
(***************************************************************************)
(* The C# that is generated for an assembly (packages/jsii-pacmak/lib/     *)
(* targets/dotnet/dotnetgenerator.ts): the members of each class, of each  *)
(* interface, of proxies and of structs.  Optional parameters are given    *)
(* default values, so there are no overloads.                              *)
(***************************************************************************)
EXTENDS Generator

CONSTANT ObjectMethods \* the names that become ToString, GetHashCode, Equals

CSharpType(ref) == IF IsUnion(ref) THEN CANONICAL_ANY ELSE ref

(* isOptionalPrimitive: a type of values is made nullable. *)
Nullable(p, assembly) ==
  p.optional /\ \/ p.type \in {Prim(t) : t \in PrimitiveTypes \ {"string", "any", "json"}}
                \/ IsNamed(p.type) /\ IsEnum(InAssembly(p.type.fqn, assembly))

(* renderParametersString: an optional parameter is not variadic. *)
CSharpTypes(ps, assembly) ==
  [i \in DOMAIN ps |-> [type |-> CSharpType(ps[i].type), nullable |-> Nullable(ps[i], assembly),
                        variadic |-> ps[i].variadic /\ ~ ps[i].optional]]

(* isMemberDefinedOnAncestor looks for properties, whatever the member is. *)
DefinedOnAncestor(f, m, assembly) ==
  \/ m.name \in ObjectMethods
  \/ \E g \in BaseClasses(f, assembly) : \E p \in InAssembly(g, assembly).properties : p.name = m.name

CSharpMember(name, types, m, override, virtual) ==
  [name |-> name, types |-> types, static |-> m.static, override |-> override, virtual |-> virtual]

(* emitMethod; `proxy' for a method of a proxy *)
CSharpMethod(f, m, proxy, assembly) ==
  LET class == IsClass(InAssembly(f, assembly))
      defined == class /\ DefinedOnAncestor(f, m, assembly)
      overrides == \/ defined
                   \/ class /\ proxy
                   \/ m.overrides # None /\ IsClass(InAssembly(m.overrides, assembly))
  IN CSharpMember(m.name, CSharpTypes(m.parameters, assembly), m,
                  ~ m.static /\ overrides,
                  ~ m.static /\ ~ overrides /\ ~ proxy)

(* emitProperty, emitConstProperty; `proxy' for a property of a proxy or a  *)
(* struct                                                                  *)
CSharpProperty(f, p, proxy, assembly) ==
  LET class == IsClass(InAssembly(f, assembly))
      override == class /\ ~ p.const /\ (proxy \/ DefinedOnAncestor(f, p, assembly))
  IN CSharpMember(p.name, << >>, p, override, class /\ ~ override /\ ~ p.static)

(* The members of a class *)
CSharpMembers(f, assembly) ==
  LET type == InAssembly(f, assembly) IN
    {CSharpMethod(f, m, FALSE, assembly) : m \in type.methods}
      \cup {CSharpProperty(f, p, FALSE, assembly) : p \in type.properties}

(* emitInterfaceMembersForProxyOrDatatype: of a member that is met more    *)
(* than once the first is kept, if it is abstract.  A method is known by   *)
(* its name and the types of its parameters.                               *)
CSharpProxy(f, assembly) ==
  LET types == CollectedTypes(f, assembly)
      known(m) == <<m.name, [i \in DOMAIN m.parameters |-> CSharpType(m.parameters[i].type)]>>
      met(i, m) == \E j \in 1 .. i - 1 : \E n \in types[j].methods : known(n) = known(m)
      seen(i, p) == \E j \in 1 .. i - 1 : \E q \in types[j].properties : q.name = p.name
  IN UNION {{CSharpMethod(f, m, TRUE, assembly) : m \in {m \in AbstractOf(types[i].methods) : ~ met(i, m)}}
              \cup {CSharpProperty(f, p, TRUE, assembly) :
                      p \in {p \in AbstractOf(types[i].properties) : ~ seen(i, p)}} : i \in DOMAIN types}
=============================================================================
