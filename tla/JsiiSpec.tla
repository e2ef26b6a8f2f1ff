------------------------------ MODULE JsiiSpec ------------------------------
(***************************************************************************)
(* The schema of an assembly (packages/jsii-spec/lib/assembly.ts), as far  *)
(* as the compiler and the generators decide by it: documentation, source  *)
(* locations and package metadata are left out.  What is optional in the   *)
(* schema is a sequence of at most one element, or the name None.  A type  *)
(* is one record for the three kinds, so that types can be compared.       *)
(* Type references nest two levels.                                        *)
(***************************************************************************)
EXTENDS Naturals, SequencesExt, FiniteSetsExt

CONSTANTS
  Fqns,    \* fully qualified names of types
  Names,   \* names of types, members and parameters; a type is known by its own
  Foreign, \* the types of the dependencies' assemblies
  Enclosing \* the type that each type is nested in, None of most

None == "none"

ASSUME EnclosingAssumption == Enclosing \in [Fqns -> Fqns \cup {None}]

PrimitiveTypes  == {"date", "string", "number", "boolean", "json", "any"}
CollectionKinds == {"array", "map"}

Prim(p)             == [k |-> "primitive", primitive |-> p]
Named(f)            == [k |-> "named", fqn |-> f]
Collection(kind, t) == [k |-> "collection", kind |-> kind, elementtype |-> t]
(* A union lists its types in an order that TypeScript chooses, one for    *)
(* each set of types of a program; that another compilation may have       *)
(* chosen another is left out.                                             *)
UnionOf(ts)         == [k |-> "union", types |-> ts]
CANONICAL_ANY       == Prim("any")

IsNamed(ref)      == ref.k = "named"
IsCollection(ref) == ref.k = "collection"
IsUnion(ref)      == ref.k = "union"

PlainReference == [k : {"primitive"}, primitive : PrimitiveTypes]
                    \cup [k : {"named"}, fqn : Fqns]
TypeReference ==
  PlainReference
    \cup [k : {"collection"}, kind : CollectionKinds, elementtype : PlainReference]
    \cup [k : {"union"}, types : SUBSET PlainReference]

OptionalValue == [type : TypeReference, optional : BOOLEAN]
Parameter     == [name : Names, type : TypeReference, optional : BOOLEAN, variadic : BOOLEAN]
Initializer   == [parameters : Seq(Parameter)]
Overridable   == Fqns \cup {None}

Method == [name : Names, parameters : Seq(Parameter), returns : Seq(OptionalValue),
           abstract : BOOLEAN, protected : BOOLEAN, static : BOOLEAN, async : BOOLEAN,
           overrides : Overridable]

Property == [name : Names, type : TypeReference, optional : BOOLEAN, immutable : BOOLEAN,
             abstract : BOOLEAN, protected : BOOLEAN, static : BOOLEAN, const : BOOLEAN,
             overrides : Overridable]

ClassType ==
  [kind : {"class"}, abstract : BOOLEAN, datatype : {FALSE}, base : Fqns \cup {None},
   interfaces : Seq(Fqns), initializer : Seq(Initializer), members : {{}},
   methods : SUBSET Method, properties : SUBSET Property]

InterfaceType ==
  [kind : {"interface"}, abstract : {FALSE}, datatype : BOOLEAN, base : {None},
   interfaces : Seq(Fqns), initializer : {<< >>}, members : {{}},
   methods : SUBSET Method, properties : SUBSET Property]

EnumType ==
  [kind : {"enum"}, abstract : {FALSE}, datatype : {FALSE}, base : {None},
   interfaces : {<< >>}, initializer : {<< >>}, members : SUBSET Names,
   methods : {{}}, properties : {{}}]

Type == ClassType \cup InterfaceType \cup EnumType

IsClass(type)     == type.kind = "class"
IsInterface(type) == type.kind = "interface"
IsEnum(type)      == type.kind = "enum"

(* typeMembers, as the set of its keys *)
MemberNames(type) ==
  {m.name : m \in type.methods} \cup {p.name : p \in type.properties}

(* A type of an assembly - a function from fully qualified names - or of a  *)
(* dependency                                                              *)
InAssembly(f, assembly) == IF f \in DOMAIN assembly THEN assembly[f] ELSE Foreign[f]

(* The references a reference is made of *)
NamedIn(ref) ==
  LET plain == CASE IsUnion(ref)      -> ref.types
                 [] IsCollection(ref) -> {ref.elementtype}
                 [] OTHER             -> {ref}
  IN {r.fqn : r \in {r \in plain : IsNamed(r)}}
=============================================================================
