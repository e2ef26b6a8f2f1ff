----------------------------- MODULE Assembler -----------------------------
(***************************************************************************)
(* The assembler (packages/jsii/lib/assembler.ts): the declarations of a   *)
(* TypeScript program become the types of an assembly.  The visits of the  *)
(* exported declarations run concurrently - each awaits at every type it   *)
(* names - and what needs other types is deferred until all are visited.   *)
(*                                                                         *)
(* A program is a function from fully qualified names to declarations as   *)
(* the type checker shows them:                                            *)
(*   [kind, listed (exported from the main module), private (no "export"), *)
(*    internal, abstract, const, bases, implements, members, ctor, values] *)
(* A member: [sort, name, private, internal, protected, static, abstract,  *)
(* readonly, optional, const, type, params]; a parameter: [name, type,     *)
(* optional, variadic, property (and not private), readonly, protected];   *)
(* ctor: at most one [private, params].                                    *)
(* Namespaces that are no types, documentation and stability are left out. *)
(***************************************************************************)
EXTENDS Dependencies

CONSTANTS
  Programs, \* programs to assemble
  TsTypes,  \* TypeScript types, with all their parts
  Style     \* the styles each name is in

VARIABLES
  program,  \* the program that is assembled
  stage,    \* how far the visit of each listed type is
  types,    \* _types
  deferred, \* _deferred
  scan,     \* the loop variable of callDeferredsInOrder, 0 between two passes
  invoked,  \* whether this pass invoked a deferred
  diags,    \* _diagnostics, without their places
  phase     \* of emit

assemblerVars == <<dependencyVars, program, stage, types, deferred, scan, invoked, diags, phase>>

Error(code)   == [category |-> "error", code |-> code]
Warning(code) == [category |-> "warning", code |-> code]
ErrorIf(condition, code) == IF condition THEN {Error(code)} ELSE {}

isInterfaceName(name)        == "interface" \in Style[name]
isProhibitedMemberName(name) == "prohibited" \in Style[name]
Underscored(name)            == "underscore" \in Style[name]

FlatMap(f(_), s) == FlattenSeq([i \in DOMAIN s |-> f(s[i])])
Distinct(s) ==
  FoldLeft(LAMBDA kept, x : IF x \in ToSet(kept) THEN kept ELSE Append(kept, x), << >>, s)

-----------------------------------------------------------------------------
(* Types of the type checker: [t, name, of], with the parts in `of' and    *)
(* the declaration or primitive in `name'.  _optionalValue, _typeReference *)
(* and _getFQN together; `errors' are the diagnostics on the way.          *)

PeerWarnings(f) == IF NoPeer(f) THEN {Warning("not a peer dependency")} ELSE {}

FqnErrors(f) ==
  IF f \in DOMAIN program THEN ErrorIf(program[f].private, "private type")
  ELSE ErrorIf(f \notin ForeignTypes, "unknown foreign type")
         \cup PeerWarnings(f)

Converted(type, optional, errors) ==
  [type |-> type, optional |-> optional, errors |-> errors]

(* _typeReference: the value may not be optional here. *)
PlainErrors(v) == v.errors \cup ErrorIf(v.optional, "optional value")

Convert[t \in TsTypes] ==
  LET parts == {Convert[t.of[i]] : i \in {i \in DOMAIN t.of : t.of[i].t # "undefined"}}
      nested == UNION {PlainErrors(v) : v \in parts}
      only(make(_)) ==
        IF Len(t.of) = 1
        THEN LET v == CHOOSE v \in parts : TRUE IN Converted(make(v.type), FALSE, nested)
        ELSE Converted(make(CANONICAL_ANY), FALSE, {Error("type arguments")})
  IN CASE t.t = "primitive" -> Converted(Prim(t.name), FALSE, {})
       [] t.t = "undefined" -> Converted(CANONICAL_ANY, FALSE, {Error("no symbol")})
       [] t.t = "union" ->
            LET kinds == {v.type : v \in parts} IN
              Converted(IF Cardinality(kinds) = 1 THEN CHOOSE k \in kinds : TRUE ELSE UnionOf(kinds),
                        \E i \in DOMAIN t.of : t.of[i].t = "undefined", nested)
       [] t.t = "array"   -> only(LAMBDA e : Collection("array", e))
       [] t.t = "map"     -> only(LAMBDA e : Collection("map", e))
       [] t.t = "promise" -> only(LAMBDA e : e)
       [] t.t = "named"   -> Converted(Named(t.name), FALSE, FqnErrors(t.name))

ToParameter(p) ==
  LET v == Convert[p.type] IN
    IF p.variadic /\ IsCollection(v.type)
    THEN [name |-> p.name, type |-> v.type.elementtype, optional |-> v.optional, variadic |-> TRUE]
    ELSE [name |-> p.name, type |-> v.type, optional |-> v.optional \/ p.optional,
          variadic |-> p.variadic]

ToParameters(params) == [i \in DOMAIN params |-> ToParameter(params[i])]

VerifyConsecutiveOptionals(ps) ==
  ErrorIf(\E i, j \in DOMAIN ps :
            i < j /\ ps[i].optional /\ ~ ps[j].optional /\ ~ ps[j].variadic, "optional order")

ParameterErrors(params) ==
  (UNION {Convert[params[i].type].errors : i \in DOMAIN params})
    \cup VerifyConsecutiveOptionals(ToParameters(params))

-----------------------------------------------------------------------------
(* What is private or internal is erased: the members and the clauses of   *)
(* an erased base become those of the type that extends it.                *)
IsPrivateOrInternal(name, s) == s.private \/ s.internal \/ Underscored(name)
Erase(f) == f \in DOMAIN program /\ IsPrivateOrInternal(f, program[f])

ErasedBases ==
  LET erased[f \in DOMAIN program] ==
        FlatMap(LAMBDA b : IF Erase(b) THEN <<b>> \o erased[b] ELSE << >>, program[f].bases)
  IN erased

VisibleBases ==
  LET visible[f \in DOMAIN program] ==
        FlatMap(LAMBDA b : IF Erase(b) THEN visible[b] ELSE <<b>>, program[f].bases)
  IN [f \in DOMAIN program |-> Distinct(visible[f])]

WithErased(f) == <<f>> \o ErasedBases[f]

(* The "implements" clause of one declaration *)
Implemented(d) ==
  Distinct(FlatMap(LAMBDA i : IF Erase(i) THEN VisibleBases[i] ELSE <<i>>,
                   program[d].implements))

Interfaces(f) ==
  IF program[f].kind = "class" THEN Distinct(FlatMap(Implemented, WithErased(f)))
  ELSE VisibleBases[f]

(* Members in the order they are visited. *)
Visible(f) ==
  SelectSeq(FlatMap(LAMBDA d : program[d].members, WithErased(f)),
            LAMBDA m : ~ IsPrivateOrInternal(m.name, m))
Methods(f) == SelectSeq(Visible(f), LAMBDA m : m.sort = "method" /\ ~ isProhibitedMemberName(m.name))

IsAbstract(f, s) == program[f].kind = "interface" \/ s.abstract

(* The first declaration is kept: of a method by name and staticness, of a *)
(* property by name.                                                       *)
FirstOf(s, same(_, _)) == {s[i] : i \in {i \in DOMAIN s : \A j \in 1 .. i - 1 : ~ same(s[i], s[j])}}

VisitMethod(f, m) ==
  LET returns == Convert[m.type] IN
    [name |-> m.name, parameters |-> ToParameters(m.params),
     returns |-> IF m.type.t = "void" THEN << >>
                 ELSE <<[type |-> returns.type, optional |-> returns.optional]>>,
     abstract |-> IsAbstract(f, m), protected |-> m.protected, static |-> m.static,
     async |-> m.type.t = "promise", overrides |-> None]

VisitMethods(f) ==
  {VisitMethod(f, m) :
     m \in FirstOf(Methods(f), LAMBDA x, y : x.name = y.name /\ x.static = y.static)}

VisitProperty(f, m) ==
  LET v == Convert[m.type] IN
    [name |-> m.name, type |-> v.type, optional |-> v.optional \/ m.optional,
     immutable |-> m.readonly, abstract |-> IsAbstract(f, m), protected |-> m.protected,
     static |-> m.static, const |-> m.static /\ m.readonly /\ m.const, overrides |-> None]

(* The first constructor of the class and its erased bases. *)
Constructor(f) ==
  LET with == SelectSeq(WithErased(f), LAMBDA d : program[d].ctor # << >>) IN
    IF with = << >> THEN << >> ELSE program[with[1]].ctor

(* Parameters of the constructor that are properties and not private, of a  *)
(* private constructor as well                                             *)
ParameterProperties(f) ==
  IF Constructor(f) = << >> THEN << >>
  ELSE LET ps == SelectSeq(Constructor(f)[1].params, LAMBDA p : p.property /\ ~ Underscored(p.name)) IN
         [i \in DOMAIN ps |->
            [sort |-> "property", name |-> ps[i].name, type |-> ps[i].type,
             optional |-> ps[i].optional, readonly |-> ps[i].readonly, abstract |-> FALSE,
             protected |-> ps[i].protected, static |-> FALSE, const |-> FALSE]]

(* They come after the members. *)
PropertyMembers(f) == SelectSeq(Visible(f), LAMBDA m : m.sort = "property") \o ParameterProperties(f)
Properties(f) ==
  FirstOf(SelectSeq(PropertyMembers(f), LAMBDA m : ~ isProhibitedMemberName(m.name)),
          LAMBDA x, y : x.name = y.name)

VisitProperties(f) == {VisitProperty(f, m) : m \in Properties(f)}

-----------------------------------------------------------------------------
(* Deferred checks.  `check' names the callback, self the type it is for,  *)
(* names the names it closes over; deps are dependedFqns.                  *)
Deferred(fqn, check, self, refs, names) ==
  IF refs = << >> THEN << >>
  ELSE <<[fqn |-> fqn, deps |-> ToSet(refs), check |-> check, self |-> self,
          refs |-> refs, names |-> names]>>

Known(f)  == f \in DOMAIN types \cup ForeignTypes
TypeOf(f) == IF f \in DOMAIN types THEN types[f] ELSE Foreign[f]

(* _dereference, once for each reference *)
DereferenceErrors(refs) ==
  UNION {ErrorIf(~ Known(r), "unresolved type") \cup PeerWarnings(r) : r \in ToSet(refs)}

InterfaceChecks(f, d) == FlatMap(LAMBDA i : Deferred(f, "isInterface", f, <<i>>, {}), Implemented(d))
StructCheck(f, d)     == Deferred(f, "notStructs", f, Implemented(d), {})

(* The clauses are processed together, then each is checked for structs.   *)
ImplementsChecks(f) ==
  FlatMap(LAMBDA d : InterfaceChecks(f, d), WithErased(f))
    \o FlatMap(LAMBDA d : StructCheck(f, d), WithErased(f))

(* Up to the "implements" clauses of _visitClass, _processBaseInterfaces of *)
(* _visitInterface                                                         *)
HeritageChecks(f) ==
  IF program[f].kind = "class"
  THEN FlatMap(LAMBDA b : Deferred(f, "isClass", f, <<b>>, {}), VisibleBases[f])
         \o ImplementsChecks(f)
  ELSE FlatMap(LAMBDA i : Deferred(f, "isInterface", f, <<i>>, {}), VisibleBases[f])

(* Mutant: these deferreds go by the name of the type. *)
LiftChecks_ByType(f) ==
  FlatMap(LAMBDA m :
    LET ps == ToParameters(m.params) IN
      IF ps # << >> /\ IsNamed(Last(ps).type)
      THEN Deferred(f, "lift", f, <<Last(ps).type.fqn>>, {p.name : p \in ToSet(Front(ps))})
      ELSE << >>, Methods(f))

(* The last parameter of a method, if it is a struct, becomes keyword      *)
(* arguments in some languages.  Re-declarations are checked as well.      *)
LiftChecks(f) ==
  FlatMap(LAMBDA m :
    LET ps == ToParameters(m.params) IN
      IF ps # << >> /\ IsNamed(Last(ps).type)
      THEN Deferred(m.name, "lift", f, <<Last(ps).type.fqn>>, {p.name : p \in ToSet(Front(ps))})
      ELSE << >>, Methods(f))

BaseOf(f) == IF VisibleBases[f] = << >> THEN None ELSE VisibleBases[f][1]

(* The rest of _visitClass and _visitInterface *)
MemberChecks(f) ==
  LET bases == VisibleBases[f] IN
  LiftChecks(f) \o
    IF program[f].kind = "class"
    THEN (IF Constructor(f) = << >> THEN Deferred(f, "initializer", f, bases, {}) ELSE << >>)
           \o Deferred(f, "staticMixing", f, bases, {})
    ELSE Deferred(f, "datatype", f, bases, {}) \o Deferred(f, "noIntersection", f, bases, {})

HeritageErrors(f) ==
  UNION {FqnErrors(b) : b \in ToSet(VisibleBases[f]) \cup ToSet(Interfaces(f))}

HidingErrors(f) ==
  UNION {ErrorIf(~ m.private /\ m.internal # Underscored(m.name), "internal and underscore") :
           m \in ToSet(FlatMap(LAMBDA d : program[d].members, WithErased(f)))}

MemberErrors(f) ==
  HidingErrors(f)
    \cup (UNION {ErrorIf(isProhibitedMemberName(m.name), "prohibited name") :
                m \in ToSet(Visible(f)) \cup ToSet(PropertyMembers(f))})
    \cup (UNION {ParameterErrors(m.params)
                   \cup (IF m.type.t = "void" THEN {} ELSE Convert[m.type].errors) : m \in ToSet(Methods(f))})
    \cup (UNION {Convert[m.type].errors : m \in Properties(f)})
    \cup (IF Constructor(f) = << >> \/ Constructor(f)[1].private THEN {}
          ELSE ParameterErrors(Constructor(f)[1].params))
    \cup ErrorIf(\E m, n \in VisitMethods(f) \cup VisitProperties(f) :
                   m.name = n.name /\ m.static # n.static, "static and non-static")
    \cup ErrorIf(program[f].const, "const enum")

-----------------------------------------------------------------------------
(* Settling the datatype of an interface                                   *)

(* Mutant: what the bases are is not asked. *)
IsDatatype_OwnOnly(self, type, bases) ==
  type.methods = {} /\ ~ isInterfaceName(self)

IsDatatype(self, type, bases) ==
  /\ type.methods = {}
  /\ \A b \in bases : IsInterface(b) => b.datatype
  /\ ~ isInterfaceName(self)

SettleDatatype(self, type, bases) ==
  IF IsDatatype(self, type, bases)
  THEN [type EXCEPT !.datatype = TRUE,
                    !.properties = {[p EXCEPT !.immutable = TRUE] : p \in type.properties}]
  ELSE type

DatatypeErrors(self, type, bases) ==
  IF IsDatatype(self, type, bases)
  THEN ErrorIf(\E p \in type.properties : ~ p.immutable, "mutable struct property")
  ELSE ErrorIf(/\ type.methods # {} \/ \E b \in bases : IsInterface(b) /\ ~ b.datatype
               /\ ~ isInterfaceName(self), "behaviour needs an I")
         \cup ErrorIf(\E b \in bases : IsInterface(b) /\ b.datatype, "interface extends struct")

(* What _visitClass, _visitInterface and _visitEnum return: the datatype   *)
(* of an interface that extends nothing is settled at once.                *)
VisitedType(f) ==
  LET d == program[f]
      ctor == Constructor(f)
      type == [kind |-> d.kind, abstract |-> d.kind = "class" /\ d.abstract, datatype |-> FALSE,
               base |-> IF d.kind = "class" THEN BaseOf(f) ELSE None,
               interfaces |-> Interfaces(f), members |-> d.values,
               initializer |->
                 CASE d.kind # "class" -> << >>
                   [] ctor # << >>    -> IF ctor[1].private THEN << >>
                                         ELSE <<[parameters |-> ToParameters(ctor[1].params)]>>
                   [] BaseOf(f) # None -> << >>
                   [] OTHER -> <<[parameters |-> << >>]>>,
               methods |-> VisitMethods(f), properties |-> VisitProperties(f)]
  IN IF d.kind = "interface" /\ VisibleBases[f] = << >> THEN SettleDatatype(f, type, {}) ELSE type

EagerErrors(f) ==
  IF program[f].kind = "interface" /\ VisibleBases[f] = << >>
  THEN DatatypeErrors(f, [methods |-> VisitMethods(f), properties |-> VisitProperties(f)], {})
  ELSE {}

-----------------------------------------------------------------------------
(* Mutant: inherited properties are forgotten. *)
OwnProperties == [f \in Fqns |-> IF Known(f) THEN {p.name : p \in TypeOf(f).properties} ELSE {}]

(* allProperties, and whether it throws: an ancestor that cannot be        *)
(* resolved, or is no interface                                            *)
AllProperties ==
  LET all[f \in Fqns] ==
        IF ~ Known(f) THEN {}
        ELSE {p.name : p \in TypeOf(f).properties} \cup UNION {all[i] : i \in ToSet(TypeOf(f).interfaces)}
  IN all

(* What it dereferences *)
ExtendedInterfaces ==
  LET extended[f \in Fqns] ==
        IF ~ Known(f) THEN {}
        ELSE UNION {{i} \cup extended[i] : i \in ToSet(TypeOf(f).interfaces)}
  IN extended

BrokenAncestry ==
  LET broken[f \in Fqns] ==
        /\ Known(f)
        /\ \E i \in ToSet(TypeOf(f).interfaces) : ~ Known(i) \/ ~ IsInterface(TypeOf(i)) \/ broken[i]
  IN broken

Statics(type, static) ==
  {m.name : m \in {m \in type.methods : m.static = static}}
    \cup {p.name : p \in {p \in type.properties : p.static = static}}

Liftable(d) ==
  LET last == TypeOf(d.refs[1]) IN
    d.check = "lift" /\ IsInterface(last) /\ last.datatype

(* The callback of deferred d, given the types its references resolve to   *)
CheckErrors(d, bases) ==
  LET self == types[d.self] IN
  CASE d.check = "isClass"     -> ErrorIf(\E b \in bases : ~ IsClass(b), "base is no class")
    [] d.check = "isInterface" -> ErrorIf(\E b \in bases : ~ IsInterface(b), "no interface")
    [] d.check = "notStructs"  -> ErrorIf(\E b \in bases : b.datatype, "class implements struct")
    [] d.check = "initializer" -> ErrorIf(\E b \in bases : ~ IsClass(b), "base is no class")
    [] d.check = "datatype"    -> DatatypeErrors(d.self, self, bases)
    [] d.check = "noIntersection" ->
         ErrorIf(\E b \in bases : IsInterface(b) /\ MemberNames(b) \cap MemberNames(self) # {}, "redeclared")
    [] d.check = "staticMixing" ->
         ErrorIf(\E b \in bases, s \in BOOLEAN : Statics(self, s) \cap Statics(b, ~ s) # {}, "static and non-static")
    [] d.check = "lift" ->
         ErrorIf(Liftable(d) /\ AllProperties[d.refs[1]] \cap d.names # {}, "argument and property")
           \cup UNION {PeerWarnings(i) : i \in IF Liftable(d) THEN ExtendedInterfaces[d.refs[1]] ELSE {}}

Throws(d, bases) ==
  \/ d.check = "staticMixing" /\ \E b \in bases : ~ IsClass(b)
  \/ Liftable(d) /\ BrokenAncestry[d.refs[1]]

Settled(d, bases) ==
  CASE d.check = "datatype" -> [types EXCEPT ![d.self] = SettleDatatype(d.self, @, bases)]
    [] d.check = "initializer" /\ (\A b \in bases : IsClass(b)) ->
         [types EXCEPT ![d.self].initializer = (CHOOSE b \in bases : TRUE).initializer]
    [] OTHER -> types

(* What the callback defers in turn: the checks of the next ancestors.  A  *)
(* class's goes by the name of its base.                                   *)
MoreChecks(d) ==
  CASE d.check = "noIntersection" ->
         FlatMap(LAMBDA b : IF Known(b) /\ IsInterface(TypeOf(b))
                            THEN Deferred(d.self, d.check, d.self, TypeOf(b).interfaces, {})
                            ELSE << >>, d.refs)
    [] d.check = "staticMixing" ->
         FlatMap(LAMBDA b : IF Known(b) /\ TypeOf(b).base # None
                            THEN Deferred(b, d.check, d.self, <<TypeOf(b).base>>, {})
                            ELSE << >>, d.refs)
    [] OTHER -> << >>

-----------------------------------------------------------------------------
(* A nested type is visited if its enclosing one is. *)
Listed ==
  LET visited[f \in Fqns] ==
        /\ f \in DOMAIN program
        /\ program[f].listed /\ ~ program[f].private /\ ~ program[f].internal
        /\ Enclosing[f] # None => visited[Enclosing[f]]
  IN {f \in Fqns : visited[f]}

AssemblerInit ==
  /\ program \in Programs
  /\ stage = [f \in Listed |-> "new"]
  /\ types = << >>
  /\ deferred = << >>
  /\ scan = 0 /\ invoked = FALSE
  /\ diags = {}
  /\ phase = "loading"

VisitHeritage(f) ==
  /\ phase = "visiting" /\ stage[f] = "new"
  /\ Enclosing[f] # None => stage[Enclosing[f]] = "registered"
  /\ stage' = [stage EXCEPT ![f] = "heritage"]
  /\ deferred' = deferred \o HeritageChecks(f)
  /\ diags' = diags \cup HeritageErrors(f)
  /\ UNCHANGED <<dependencyVars, program, types, scan, invoked, phase>>

VisitMembers(f) ==
  /\ phase = "visiting" /\ stage[f] = "heritage"
  /\ stage' = [stage EXCEPT ![f] = "registered"]
  /\ types' = [g \in DOMAIN types \cup {f} |-> IF g = f THEN VisitedType(f) ELSE types[g]]
  /\ deferred' = deferred \o MemberChecks(f)
  /\ diags' = diags \cup MemberErrors(f) \cup EagerErrors(f)
  /\ UNCHANGED <<dependencyVars, program, scan, invoked, phase>>

(* await Promise.all(visitPromises) *)
AllVisited ==
  /\ phase = "visiting" /\ \A f \in Listed : stage[f] = "registered"
  /\ phase' = "deferreds"
  /\ UNCHANGED <<dependencyVars, program, stage, types, deferred, scan, invoked, diags>>

(* A pass of callDeferredsInOrder: dependencies without deferreds of their *)
(* own are dropped first.                                                  *)
StartPass ==
  /\ phase = "deferreds" /\ scan = 0 /\ deferred # << >>
  /\ LET pending == {d.fqn : d \in ToSet(deferred)} IN
       deferred' = [i \in DOMAIN deferred |-> [deferred[i] EXCEPT !.deps = @ \cap pending]]
  /\ scan' = 1 /\ invoked' = FALSE
  /\ UNCHANGED <<dependencyVars, program, stage, types, diags, phase>>

(* splice(i, 1) and then i++: the one after it waits for the next pass. *)
Invoke ==
  /\ phase = "deferreds" /\ scan \in DOMAIN deferred /\ deferred[scan].deps = {}
  /\ LET d == deferred[scan]
         bases == {TypeOf(r) : r \in {r \in ToSet(d.refs) : Known(r)}}
     IN /\ diags' = diags \cup DereferenceErrors(d.refs)
                       \cup (IF bases = {} THEN {} ELSE CheckErrors(d, bases))
        /\ IF bases # {} /\ Throws(d, bases)
           THEN /\ phase' = "thrown"
                /\ UNCHANGED <<types, deferred, scan, invoked>>
           ELSE /\ types' = IF bases = {} THEN types ELSE Settled(d, bases)
                /\ deferred' = RemoveAt(deferred, scan) \o MoreChecks(d)
                /\ scan' = scan + 1 /\ invoked' = TRUE
                /\ UNCHANGED phase
  /\ UNCHANGED <<dependencyVars, program, stage>>

SkipDependent ==
  /\ phase = "deferreds" /\ scan \in DOMAIN deferred /\ deferred[scan].deps # {}
  /\ scan' = scan + 1
  /\ UNCHANGED <<dependencyVars, program, stage, types, deferred, invoked, diags, phase>>

EndPass ==
  /\ phase = "deferreds" /\ scan > Len(deferred)
  /\ IF invoked THEN scan' = 0 /\ UNCHANGED phase
     ELSE phase' = "thrown" /\ UNCHANGED scan \* cyclic dependency?
  /\ UNCHANGED <<dependencyVars, program, stage, types, deferred, invoked, diags>>

DeferredsDone ==
  /\ phase = "deferreds" /\ deferred = << >> /\ scan = 0
  /\ phase' = "assembled"
  /\ UNCHANGED <<dependencyVars, program, stage, types, deferred, scan, invoked, diags>>

AssemblerNext ==
  \/ \E f \in Listed : VisitHeritage(f) \/ VisitMembers(f)
  \/ AllVisited
  \/ StartPass \/ Invoke \/ SkipDependent \/ EndPass \/ DeferredsDone
=============================================================================
