--------------------------- MODULE Serialization ---------------------------
(***************************************************************************)
(* Values on their way between the sandbox and a client: _fromSandbox and  *)
(* _toSandbox, the serializers for each sort of declared type, and the     *)
(* arguments of methods.  Serialization registers objects, so that what a  *)
(* value becomes depends on what was returned before.                      *)
(*                                                                         *)
(* null and undefined are one value; JSON is the identity on wire values.  *)
(* A reference is the value it leads to with the type it was registered    *)
(* as; arrays, maps and dates have no identity, and are registered anew.   *)
(***************************************************************************)
EXTENDS Naturals, Sequences, FiniteSetsExt, SequencesExt

CONSTANTS
  Declared,   \* the declarations of the assemblies, by name
  ClassOf,    \* the exported class of each object of the sandbox, or "none"
  PropsOf,    \* and its own properties
  InheritedOf, \* names of the accessors and methods of its prototypes
  Values,     \* what the sandbox returns
  TypeRefs,   \* the declared types, none of them optional
  WireValues, \* what a client sends, apart from references
  Parameters, \* parameter lists of methods
  Arguments   \* lists of arguments for them, as a client sends them

VARIABLE registered \* the type each object was registered as, or "none"
vars == registered

Objects == DOMAIN ClassOf
Kind(fqn) == Declared[fqn].kind

Nothing    == [k |-> "nothing"]
Object(o)  == [k |-> "object", id |-> o]
Ref(v, fqn) == [k |-> "ref", to |-> v, as |-> fqn]
Date       == [k |-> "date"]
WireDate   == [k |-> "wiredate"]
String(x)  == [k |-> "scalar", p |-> "string", v |-> x]
Array(s)   == [k |-> "array", items |-> s]
Map(f)     == [k |-> "map", entries |-> f]
IsScalar(v) == v.k = "scalar"
IsObject(v) == v.k \in {"object", "array", "map", "date", "ref", "enum", "wiredate"}

(* The own enumerable properties of a JavaScript object; dates, enum       *)
(* members and references are objects with a token on the wire.            *)
Entries(v) == CASE v.k = "map"    -> v.entries
                [] v.k = "object" -> PropsOf[v.id]
                [] v.k = "array"  -> v.items
                [] v.k \in {"ref", "enum", "wiredate"} -> "token" :> String("token")
                [] OTHER          -> << >>

(* What JavaScript's "in" finds.  Prototypes of what comes from JSON have  *)
(* no names a property has.                                                *)
NamesIn(v) == DOMAIN Entries(v) \cup IF v.k = "object" THEN InheritedOf[v.id] ELSE {}

AnyType == [k |-> "any", optional |-> FALSE]

(* Mutant: that a union is optional is not passed on to its alternatives. *)
AlternativesRequired(t) == IF t.k = "union" THEN t.of ELSE <<t>>

(* The serialization types of a type reference: those of its alternatives  *)
(* if it is a union, which are optional if the union is.                   *)
SerializationType(t) ==
  IF t.k = "union" THEN [i \in DOMAIN t.of |-> [t.of[i] EXCEPT !.optional = t.optional]]
  ELSE <<t>>

(* isAssignable: the required type is reached by bases and interfaces; a   *)
(* purely native object is assignable to everything.                       *)
RECURSIVE IsAssignable(_, _)
IsAssignable(actual, required) ==
  \/ actual \in {"Object", required}
  \/ actual # "Object" /\ \E super \in Declared[actual].super : IsAssignable(super, required)

(* The properties of a type and its supertypes, and whether they are       *)
(* required.                                                               *)
RECURSIVE PropertiesOf(_)
PropertiesOf(fqn) ==
  Declared[fqn].props @@ FoldSet(LAMBDA s, ps : PropertiesOf(s) @@ ps, << >>, Declared[fqn].super)
RequiredProps(fqn) ==
  {n \in DOMAIN PropertiesOf(fqn) : ~ PropertiesOf(fqn)[n].optional}

-----------------------------------------------------------------------------
(* A conversion gives a value, or it throws; in either case it may have    *)
(* registered objects.                                                     *)
Gives(v, reg)  == [ok |-> TRUE, value |-> v, reg |-> reg]
Throws(reg)    == [ok |-> FALSE, value |-> Nothing, reg |-> reg]

(* Converts the members of f one after the other, in the order of names,   *)
(* by Convert(member, name, reg).                                          *)
ConvertEntries(f, names, reg, Convert(_, _, _)) ==
  FoldLeft(LAMBDA acc, n :
             IF ~ acc.ok THEN acc
             ELSE LET r == Convert(f[n], n, acc.reg) IN
                  IF r.ok THEN Gives(acc.value @@ (n :> r.value), r.reg) ELSE Throws(r.reg),
           Gives(<< >>, reg), names)

ConvertItems(s, reg, Convert(_, _, _)) ==
  LET r == ConvertEntries(s, [i \in DOMAIN s |-> i], reg, Convert) IN
  IF r.ok THEN Gives(Array(r.value), r.reg) ELSE r

(* mapValues: an object of what the entries become, without nothing. *)
MapValues(v, reg, Convert(_, _, _)) ==
  LET f == Entries(v)
      r == ConvertEntries(f, SetToSeq(DOMAIN f), reg, Convert)
      kept == {n \in DOMAIN r.value : r.value[n] # Nothing}
  IN  IF ~ IsObject(v) THEN Throws(reg)
      ELSE IF r.ok THEN Gives(Map([n \in kept |-> r.value[n]]), r.reg) ELSE r

(* The first alternative that does not throw; what the others registered   *)
(* stays.                                                                  *)
FirstOf(types, reg, Convert(_, _)) ==
  FoldLeft(LAMBDA acc, t : IF acc.ok THEN acc ELSE Convert(t, acc.reg), Throws(reg), types)

-----------------------------------------------------------------------------
(***************************************************************************)
(* _fromSandbox.                                                           *)
(***************************************************************************)
ReferenceOf(v, reg) ==
  IF v.k = "object" /\ reg[v.id] # "none" THEN Ref(v, reg[v.id]) ELSE Nothing
Register(v, fqn, reg) ==
  IF ReferenceOf(v, reg) # Nothing THEN Gives(ReferenceOf(v, reg), reg)
  ELSE Gives(Ref(v, fqn), IF v.k = "object" THEN [reg EXCEPT ![v.id] = fqn] ELSE reg)

(* selectWireType and registration: the exported class if it can be        *)
(* assigned to the type, else the type, unless that is a class, too.       *)
RegisterAs(v, fqn, reg) ==
  LET class == IF v.k = "object" THEN ClassOf[v.id] ELSE "none" IN
  IF class = "none" THEN Register(v, fqn, reg)
  ELSE IF IsAssignable(class, fqn) THEN Register(v, class, reg)
  ELSE IF Kind(fqn) = "class" THEN Throws(reg)
  ELSE Register(v, fqn, reg)

(* Mutant: an object that has a reference is not asked for it. *)
SerializeReferenceAgain(v, t, reg) ==
  IF ~ IsObject(v) THEN Throws(reg) ELSE RegisterAs(v, t.fqn, reg)

SerializeReference(v, t, reg) ==
  IF ~ IsObject(v) THEN Throws(reg)
  ELSE IF ReferenceOf(v, reg) # Nothing THEN Gives(ReferenceOf(v, reg), reg)
  ELSE RegisterAs(v, t.fqn, reg)

SerializeEnum(v, t, reg) ==
  IF IsScalar(v) /\ v \in Declared[t.fqn].members
  THEN Gives([k |-> "enum", fqn |-> t.fqn, member |-> v], reg) ELSE Throws(reg)

(* What JSON.stringify makes of a value. *)
RECURSIVE Json(_)
Json(v) ==
  CASE v.k = "date"   -> String("iso")
    [] v.k = "array"  -> Array([i \in DOMAIN v.items |-> Json(v.items[i])])
    [] v.k \in {"object", "map"} -> Map([n \in DOMAIN Entries(v) |-> Json(Entries(v)[n])])
    [] OTHER -> v

RECURSIVE Serialize(_, _, _)

SerializeAny(v, reg) ==
  LET any(x, n, r) == Serialize(x, AnyType, r) IN
  CASE v = Nothing \/ IsScalar(v) -> Gives(v, reg)
    [] v = Date -> Gives(WireDate, reg)
    [] v.k = "array" -> ConvertItems(v.items, reg, any)
    [] ReferenceOf(v, reg) # Nothing -> Gives(ReferenceOf(v, reg), reg)
    [] v.k = "object" /\ ReferenceOf(v, reg) = Nothing /\ ClassOf[v.id] # "none" ->
         Register(v, ClassOf[v.id], reg)
    [] OTHER -> MapValues(v, reg, any)

SerializeAs(v, t, reg) ==
  LET element(x, n, r) == Serialize(x, t.of, r) IN
  CASE t.k = "void" -> Gives(Nothing, reg)
    [] t.k = "json" -> Gives(Json(v), reg)
    [] t.k = "any"  -> SerializeAny(v, reg)
    [] t.k \notin {"void", "json", "any"} /\ v = Nothing ->
         IF t.optional THEN Gives(Nothing, reg) ELSE Throws(reg)
    [] v # Nothing /\ t.k = "date"   -> IF v = Date THEN Gives(WireDate, reg) ELSE Throws(reg)
    [] v # Nothing /\ t.k = "scalar" ->
         IF IsScalar(v) /\ v.p = t.p THEN Gives(v, reg) ELSE Throws(reg)
    [] v # Nothing /\ t.k = "array"  ->
         IF v.k = "array" THEN ConvertItems(v.items, reg, element) ELSE Throws(reg)
    [] v # Nothing /\ t.k = "map"    -> MapValues(v, reg, element)
    [] v # Nothing /\ t.k = "named"  ->
         IF Kind(t.fqn) = "enum" THEN SerializeEnum(v, t, reg)
         ELSE SerializeReference(v, t, reg)

Serialize(v, t, reg) ==
  FirstOf(SerializationType(t), reg, LAMBDA u, r : SerializeAs(v, u, r))

-----------------------------------------------------------------------------
(***************************************************************************)
(* _toSandbox.  It registers nothing.                                      *)
(***************************************************************************)
Instance(w) == w.to

DeserializeEnum(w) == w.member

DeserializeReference(w, t, reg) ==
  IF w.k # "ref" THEN Throws(reg)
  ELSE IF Kind(t.fqn) = "class" /\ ~ IsAssignable(w.as, t.fqn) THEN Throws(reg)
  ELSE Gives(Instance(w), reg)

RECURSIVE Deserialize(_, _, _)

(* Mutant: the required properties are not looked for. *)
DeserializeStructLoosely(w, t, reg) ==
  LET props == PropertiesOf(t.fqn)
      member(x, n, r) == IF n \in DOMAIN props THEN Deserialize(x, props[n], r) ELSE Gives(Nothing, r)
  IN  IF w.k = "array" THEN Throws(reg)
      ELSE IF w.k = "ref" THEN Gives(Instance(w), reg)
      ELSE MapValues(w, reg, member)

(* An object is accepted if it has the required properties, its own or     *)
(* inherited, and is itself; a map is copied, without the properties the   *)
(* type does not have.                                                     *)
DeserializeStruct(w, t, reg) ==
  LET props == PropertiesOf(t.fqn)
      has   == NamesIn(IF w.k = "ref" THEN Instance(w) ELSE w)
      member(x, n, r) == IF n \in DOMAIN props THEN Deserialize(x, props[n], r) ELSE Gives(Nothing, r)
  IN  IF w.k = "array" \/ ~ RequiredProps(t.fqn) \subseteq has THEN Throws(reg)
      ELSE IF w.k = "ref" THEN Gives(Instance(w), reg)
      ELSE MapValues(w, reg, member)

DeserializeAny(w, reg) ==
  LET any(x, n, r) == Deserialize(x, AnyType, r) IN
  CASE w = Nothing \/ IsScalar(w) -> Gives(w, reg)
    [] w = WireDate  -> Gives(Date, reg)
    [] w.k = "array" -> ConvertItems(w.items, reg, any)
    [] w.k = "enum"  -> Gives(DeserializeEnum(w), reg)
    [] w.k = "ref"   -> Gives(Instance(w), reg)
    [] OTHER         -> MapValues(w, reg, any)

(* An empty object or array where a struct is expected is nothing. *)
IsAbsent(w, t) ==
  \/ w = Nothing
  \/ /\ t.k = "named" /\ w.k \in {"map", "array"} /\ Entries(w) = << >>
     /\ Kind(t.fqn) = "struct"

DeserializeAs(w, t, reg) ==
  LET element(x, n, r) == Deserialize(x, t.of, r)
      given == ~ IsAbsent(w, t)
  IN
  CASE t.k = "void" -> Gives(Nothing, reg)
    [] t.k = "any"  -> DeserializeAny(w, reg)
    [] t.k \notin {"void", "any"} /\ ~ given ->
         IF t.optional THEN Gives(Nothing, reg) ELSE Throws(reg)
    [] given /\ t.k = "json"   -> Gives(w, reg)
    [] given /\ t.k = "date"   -> IF w = WireDate THEN Gives(Date, reg) ELSE Throws(reg)
    [] given /\ t.k = "scalar" ->
         IF IsScalar(w) /\ w.p = t.p THEN Gives(w, reg) ELSE Throws(reg)
    [] given /\ t.k = "array"  ->
         IF w.k = "array" THEN ConvertItems(w.items, reg, element) ELSE Throws(reg)
    [] given /\ t.k = "map"    -> MapValues(w, reg, element)
    [] given /\ t.k = "named"  ->
         CASE Kind(t.fqn) = "enum"   -> IF w.k = "enum" THEN Gives(DeserializeEnum(w), reg) ELSE Throws(reg)
           [] Kind(t.fqn) = "struct" -> DeserializeStruct(w, t, reg)
           [] OTHER                  -> DeserializeReference(w, t, reg)

Deserialize(w, t, reg) ==
  FirstOf(SerializationType(t), reg, LAMBDA u, r : DeserializeAs(w, u, r))

-----------------------------------------------------------------------------
(***************************************************************************)
(* Arguments.  A parameter is a type and whether it stands for the rest.   *)
(***************************************************************************)
IsVariadic(params) == params # << >> /\ Last(params).variadic

(* _validateMethodArguments; of a variadic parameter it looks at nothing. *)
ValidateArguments(params, args) ==
  /\ Len(args) <= Len(params) \/ IsVariadic(params)
  /\ \A i \in DOMAIN params :
       params[i].variadic \/ params[i].type.optional \/ i <= Len(args)

(* _toSandboxValues: the last parameter stands for all further arguments   *)
(* if it is variadic.                                                      *)
ToSandboxValues(params, args, reg) ==
  IF Len(args) > Len(params) /\ ~ IsVariadic(params) THEN Throws(reg)
  ELSE ConvertItems(args, reg, LAMBDA x, i, r :
         Deserialize(x, params[IF i <= Len(params) THEN i ELSE Len(params)].type, r))

-----------------------------------------------------------------------------
(***************************************************************************)
(* What is registered over time.  Only creations and conversions from the  *)
(* sandbox change it; what a client sends is read against it.              *)
(***************************************************************************)
Init == registered = [o \in Objects |-> "none"]

(* A client creates an object, of an exported class or of its own. *)
Create(o) ==
  /\ registered[o] = "none"
  /\ registered' = [registered EXCEPT ![o] = IF ClassOf[o] = "none" THEN "Object" ELSE ClassOf[o]]

(* The sandbox returns a value, or passes it to a sync override; if it     *)
(* does not convert, the objects that did stay registered.                 *)
Return(v, t) == registered' = Serialize(v, t, registered).reg

Optional(t) == [t EXCEPT !.optional = TRUE]
Types == TypeRefs \cup {Optional(t) : t \in TypeRefs}

Next ==
  \/ \E o \in Objects : Create(o)
  \/ \E v \in Values, t \in Types : Return(v, t)

Spec == Init /\ [][Next]_vars

(* What a client can send: values, and references to what it knows. *)
Known == {Ref(Object(o), registered[o]) : o \in {p \in Objects : registered[p] # "none"}}
Sent  == WireValues \cup Known \cup {Array(<<w>>) : w \in Known} \cup {Map([p |-> w]) : w \in Known}

(* What it makes of the call of a method. *)
Accepts(params, args) ==
  ValidateArguments(params, args) /\ ToSandboxValues(params, args, registered).ok

(* The arguments of an async override are converted like those of a call. *)
ToCallback(v, param) == ToSandboxValues(<<param>>, <<v>>, registered)

-----------------------------------------------------------------------------
(* The values of a declared type, by the table in serialization.ts and by  *)
(* TypeScript: a reference definition.                                     *)
RECURSIVE Conforms(_, _)
Conforms(v, t) ==
  CASE t.k = "any"   -> TRUE
    [] t.k = "void"  -> v = Nothing
    [] t.k = "union" -> \E i \in DOMAIN t.of : Conforms(v, [t.of[i] EXCEPT !.optional = t.optional])
    [] t.k \notin {"any", "void", "union"} /\ v = Nothing -> t.optional
    [] v # Nothing /\ t.k = "json"   -> Json(v) = v
    [] v # Nothing /\ t.k = "date"   -> v = Date
    [] v # Nothing /\ t.k = "scalar" -> IsScalar(v) /\ v.p = t.p
    [] v # Nothing /\ t.k = "array"  ->
         v.k = "array" /\ \A i \in DOMAIN v.items : Conforms(v.items[i], t.of)
    [] v # Nothing /\ t.k = "map"    ->
         v.k = "map" /\ \A n \in DOMAIN v.entries : Conforms(v.entries[n], t.of)
    [] v # Nothing /\ t.k = "named"  ->
         CASE Kind(t.fqn) = "enum"      -> v \in Declared[t.fqn].members
           [] Kind(t.fqn) = "interface" -> v.k = "object"
           [] Kind(t.fqn) = "class"     ->
                IF v.k = "object" /\ ClassOf[v.id] # "none"
                THEN IsAssignable(ClassOf[v.id], t.fqn) ELSE FALSE
           [] OTHER -> \* a struct
                /\ v.k \in {"object", "map"}
                /\ RequiredProps(t.fqn) \subseteq NamesIn(v)
                /\ \A n \in DOMAIN PropertiesOf(t.fqn) \cap DOMAIN Entries(v) :
                     Conforms(Entries(v)[n], PropertiesOf(t.fqn)[n])

(* The same value: an object is itself or, if it has no class, a copy of   *)
(* it; entries that are nothing do not count.                              *)
RECURSIVE Same(_, _)
Same(v, b) ==
  \/ v = b
  \/ v.k = "array" /\ b.k = "array" /\ DOMAIN v.items = DOMAIN b.items
       /\ \A i \in DOMAIN v.items : Same(v.items[i], b.items[i])
  \/ /\ v.k = "map" \/ (IF v.k = "object" THEN ClassOf[v.id] = "none" ELSE FALSE)
     /\ b.k = "map"
     /\ LET kept == {n \in DOMAIN Entries(v) : Entries(v)[n] # Nothing} IN
         DOMAIN b.entries = kept /\ \A n \in kept : Same(Entries(v)[n], b.entries[n])

(* No object of an exported class went out as an interface before: it      *)
(* could not be passed as its class any more.                              *)
RegisteredByClass ==
  \A o \in Objects : ClassOf[o] # "none" => registered[o] \in {"none", ClassOf[o]}

(* No object that is no instance of an exported class is known as one, or  *)
(* as an empty object, which can be passed as anything.                    *)
ClassesAreTrue ==
  \A o \in Objects :
    ClassOf[o] = "none" =>
      registered[o] = "none" \/ (IF registered[o] = "Object" THEN FALSE ELSE Kind(registered[o]) # "class")

(* A value that conforms to its declared type can be returned, whatever    *)
(* was returned before, and if the client sends it back it is accepted and *)
(* the same (_fromSandbox and _toSandbox agree).                           *)
RoundTrips ==
  \A v \in Values, t \in Types :
    Conforms(v, t) =>
      LET out == Serialize(v, t, registered) IN
      /\ out.ok
      /\ RegisteredByClass =>
           LET back == Deserialize(out.value, t, out.reg) IN back.ok /\ Same(v, back.value)

ByReference(t) == t.k = "any" \/ (t.k = "named" /\ Kind(t.fqn) # "enum")

(* An object that is known to the client goes out as the reference the     *)
(* client knows, by whatever type it is returned (objectReference in the   *)
(* serializers of references, structs and any), and keeps its type         *)
(* whatever is returned.                                                   *)
IdentityKept ==
  \A o \in Objects, t \in Types :
    registered[o] # "none" =>
      /\ ByReference(t) =>
           Serialize(Object(o), t, registered) = Gives(Ref(Object(o), registered[o]), registered)
      /\ \A v \in Values : Serialize(v, t, registered).reg[o] = registered[o]

(* The arguments that fit a list of parameters: a reference definition. *)
ArgumentsFit(params, args) ==
  \A i \in 1 .. Len(params) + Len(args) :
    LET at == IF i <= Len(params) THEN i ELSE Len(params) IN
    IF i <= Len(args)
    THEN at > 0 /\ (i = at \/ params[at].variadic) /\ Conforms(args[i], params[at].type)
    ELSE i > Len(params) \/ params[i].variadic \/ params[i].type.optional

(* What a client sends reaches the sandbox only as a value of the declared *)
(* type (_toSandbox), json excepted, which is passed on unread; and a call *)
(* is accepted exactly if every argument is there or optional, conforms to *)
(* its parameter, and none is left over, arguments to a variadic parameter *)
(* included (_validateMethodArguments and _toSandboxValues together).      *)
AcceptedConforms ==
  /\ ClassesAreTrue =>
       \A w \in Sent, t \in Types :
         LET in == Deserialize(w, t, registered) IN
         in.ok /\ t.k # "json" => Conforms(in.value, t)
  /\ \A params \in Parameters, args \in Arguments :
       Accepts(params, args) <=> ArgumentsFit(params, args)

(* Violated.  A value that conforms to the type of a parameter reaches the *)
(* client as an argument of an async override (the table in                *)
(* serialization.ts: what leaves the sandbox is serialized).               *)
AsyncArgumentsTravel ==
  \A v \in Values, t \in Types :
    t.k = "named" /\ Conforms(v, t) => ToCallback(v, [type |-> t, variadic |-> FALSE]).ok
=============================================================================
