------------------------------- MODULE Diff -------------------------------
(***************************************************************************)
(* jsii-diff: a release of a library is compared with the one before, and  *)
(* refused if it breaks an API that is stable.                             *)
(***************************************************************************)
EXTENDS TypeSystem

CONSTANT Releases \* the type systems the library may consist of

VARIABLE released \* that of its last release

-----------------------------------------------------------------------------
(***************************************************************************)
(* isSuperType.  A comparison is between a type of the system sys.a and    *)
(* one of sys.b; names are related in sys.u, the updated one of the two.   *)
(***************************************************************************)
Returning(original, updated) == [a |-> original, b |-> updated, u |-> updated]
Passing(original, updated)   == [a |-> updated, b |-> original, u |-> updated]

IsNominalSuperType(a, b, sys) ==
  \/ a = b
  \/ /\ {a, b} \subseteq DOMAIN sys.u
     /\ ~ IsEnum(a, sys.u) /\ ~ IsEnum(b, sys.u)
     /\ ExtendsType(b, a, sys.u)

RECURSIVE IsSuperType(_, _, _, _)

IsStructuralSuperType(a, b, sys, checking) ==
  LET aProps == AllProperties(a, sys.a)
      bProps == AllProperties(b, sys.b)
  IN  \A n \in DOMAIN aProps :
        IF n \notin DOMAIN bProps THEN aProps[n].optional
        ELSE /\ aProps[n].optional \/ ~ bProps[n].optional
             /\ IsSuperType(aProps[n].type, bProps[n].type, sys, checking)

(* Mutant: a relation that is being checked counts as failed. *)
IsNamedSuperTypeInductively(a, b, sys, checking) ==
  /\ <<a, b>> \notin checking
  /\ IsNominalSuperType(a, b, sys)
  /\ IsStruct(a, sys.a) /\ IsStruct(b, sys.b) =>
       IsStructuralSuperType(a, b, sys, checking \cup {<<a, b>>})

(* checking is CURRENTLY_CHECKING: a relation that is being checked holds  *)
(* until something else falsifies it.                                      *)
IsNamedSuperType(a, b, sys, checking) ==
  \/ <<a, b>> \in checking
  \/ /\ IsNominalSuperType(a, b, sys)
     /\ IsStruct(a, sys.a) /\ IsStruct(b, sys.b) =>
          IsStructuralSuperType(a, b, sys, checking \cup {<<a, b>>})

IsSuperType(a, b, sys, checking) ==
  \/ a = AnyType
  \/ a.k = "prim" /\ a = b
  \/ /\ a.k \in {"array", "map"}
     /\ b.k = a.k
     /\ IsSuperType(a.of, b.of, sys, checking)
  \/ /\ a.k \in {"union", "named"}
     /\ b.k = "union"
     /\ \A i \in DOMAIN b.of : IsSuperType(a, b.of[i], sys, checking)
  \/ /\ a.k = "union"
     /\ b.k # "union"
     /\ \E i \in DOMAIN a.of : IsSuperType(a.of[i], b, sys, checking)
  \/ /\ {a.k, b.k} = {"named"}
     /\ IsNamedSuperType(a.fqn, b.fqn, sys, checking)

IsCompatibleReturnType(o, u, sys) ==
  \/ o.type = Void
  \/ /\ u.type # Void
     /\ o.optional \/ ~ u.optional
     /\ IsSuperType(o.type, u.type, sys, {})
IsCompatibleArgumentType(o, u, sys) == IsSuperType(u, o, sys, {})

-----------------------------------------------------------------------------
(***************************************************************************)
(* The comparison of declarations.  Each operator gives the rules that are *)
(* violated.                                                               *)
(***************************************************************************)
If(condition, rule) == IF condition THEN {rule} ELSE {}

AllowedTransitions(s) ==
  CASE s = "experimental" -> {"stable", "deprecated", "external"}
    [] s = "stable"       -> {"deprecated", "external"}
    [] s = "deprecated"   -> {"stable", "external"}
    [] s = "external"     -> {"stable", "deprecated"}
CompareStabilities(o, u) ==
  IF o \in {"none", u} THEN {}
  ELSE IF u = "none" THEN {"removed-stability"}
  ELSE If(u \notin AllowedTransitions(o), "changed-stability")

IsVariadic(params) == params # << >> /\ Last(params).variadic

(* findParam: the set of the parameter that takes argument i. *)
FindParam(params, i) ==
  IF i <= Len(params) THEN {params[i]} ELSE IF IsVariadic(params) THEN {Last(params)} ELSE {}

(* Mutant: parameters that were added need not be optional. *)
CompareArgumentsForward(o, u, original, updated) ==
  LET taken(i) == FindParam(u, i) IN
  UNION {If(taken(i) = {}, "removed-argument") : i \in DOMAIN o}
    \cup UNION {If(~ \A p \in taken(i) :
                       IsCompatibleArgumentType(o[i].type, p.type, Passing(original, updated)),
                   "incompatible-argument") : i \in DOMAIN o}

CompareArguments(o, u, original, updated) ==
  LET taken(i) == FindParam(u, i) IN
  UNION {If(taken(i) = {}, "removed-argument") : i \in DOMAIN o}
    \cup UNION {If(~ \A p \in taken(i) :
                       IsCompatibleArgumentType(o[i].type, p.type, Passing(original, updated)),
                   "incompatible-argument") : i \in DOMAIN o}
    \cup UNION {If(~ u[i].optional /\ \A p \in FindParam(o, i) : p.optional,
                   "new-argument") : i \in DOMAIN u}

CompareMethod(o, u, original, updated) ==
  If(IsVariadic(o.params) /\ ~ IsVariadic(u.params), "changed-variadic")
    \cup CompareArguments(o.params, u.params, original, updated)
    \cup IF "method" \notin {o.kind, u.kind} THEN {}
         ELSE If(o.static # u.static, "changed-static")
                \cup If(o.async # u.async, "changed-async")
                \cup If(~ IsCompatibleReturnType(o.returns, u.returns, Returning(original, updated)),
                        "change-return-type")

CompareProperty(o, u, original, updated) ==
  If(o.static # u.static, "changed-static")
    \cup If(~ IsCompatibleReturnType(o, u, Returning(original, updated)), "changed-type")
    \cup If(u.immutable /\ ~ o.immutable, "removed-mutability")

(* memberPairs, with what is compared of each pair.  In a struct only that *)
(* the properties are there.                                               *)
CompareMembers(f, original, updated) ==
  LET os == AllMembers(f, original)
      us == AllMembers(f, updated)
      Rules(n) ==
        IF n \notin DOMAIN us THEN {"removed"}
        ELSE If(os[n].kind # us[n].kind, "changed-kind")
               \cup If(~ os[n].protected /\ us[n].protected, "hidden")
               \cup IF os[n].kind # us[n].kind \/ IsStruct(f, original) THEN {}
                    ELSE CompareStabilities(MemberStability(os[n], f, original),
                                            MemberStability(us[n], f, updated))
                           \cup IF os[n].kind = "method"
                                THEN CompareMethod(os[n], us[n], original, updated)
                                ELSE CompareProperty(os[n], us[n], original, updated)
  IN  {[rule |-> r, stability |-> MemberStability(os[n], f, original)] :
         <<n, r>> \in UNION {{n} \X Rules(n) : n \in DOMAIN os}}

NoNewAbstractMembers(f, original, updated) ==
  LET us == AllMembers(f, updated) IN
  {[rule |-> "new-abstract-member", stability |-> MemberStability(us[n], f, updated)] :
     n \in {m \in DOMAIN us \ DOMAIN AllMembers(f, original) : us[m].abstract}}

CompareInitializers(f, original, updated) ==
  UNION {UNION {{[rule |-> r, stability |-> MemberStability(o, f, original)] :
                   r \in CompareStabilities(MemberStability(o, f, original), MemberStability(u, f, updated))
                           \cup CompareMethod(o, u, original, updated)} :
                u \in updated[f].init} : o \in original[f].init}

CompareReferenceType(f, original, updated) ==
  LET o == original[f]
      u == updated[f]
  IN  {[rule |-> r, stability |-> o.stability] :
         r \in CompareStabilities(o.stability, u.stability)
                 \cup If(IsClass(f, original) /\ u.abstract /\ ~ o.abstract, "made-abstract")
                 \cup If(o.subclassable /\ ~ u.subclassable, "remove-subclassable")}
        \cup CompareInitializers(f, original, updated)
        \cup CompareMembers(f, original, updated)
        \cup IF o.subclassable THEN NoNewAbstractMembers(f, original, updated) ELSE {}

CompareStruct(f, original, updated) ==
  {[rule |-> r, stability |-> original[f].stability] :
     r \in CompareStabilities(original[f].stability, updated[f].stability)}
    \cup CompareMembers(f, original, updated)

CompareEnum(f, original, updated) ==
  LET o == original[f]
      u == updated[f]
      Rules(n) == IF n \notin DOMAIN u.members THEN {"removed"}
                  ELSE CompareStabilities(LowestStability(o.members[n], o.stability),
                                          LowestStability(u.members[n], u.stability))
  IN  {[rule |-> r, stability |-> o.stability] : r \in CompareStabilities(o.stability, u.stability)}
        \cup {[rule |-> r, stability |-> LowestStability(o.members[n], o.stability)] :
                <<n, r>> \in UNION {{n} \X Rules(n) : n \in DOMAIN o.members}}

(* compareAssemblies: all types by kind, and what each has become. *)
Mismatches(original, updated) ==
  UNION {LET o == original[f]
             only(rule) == {[rule |-> rule, stability |-> o.stability]}
         IN  IF f \notin DOMAIN updated THEN only("removed")
             ELSE IF updated[f].kind # o.kind THEN only("struct-change")
             ELSE IF o.kind = "enum" THEN CompareEnum(f, original, updated)
             ELSE IF IsStruct(f, original) # IsStruct(f, updated) THEN only("iface-type")
             ELSE IF IsStruct(f, original) THEN CompareStruct(f, original, updated)
             ELSE CompareReferenceType(f, original, updated) : f \in DOMAIN original}

(* classifyDiagnostics, hasErrors: what is not marked counts as stable;    *)
(* nothing is skipped.                                                     *)
HasErrors(mismatches) == \E m \in mismatches : m.stability \in {"stable", "none"}
Accepts(original, updated) == ~ HasErrors(Mismatches(original, updated))

-----------------------------------------------------------------------------
Init == released \in Releases
Release == released' \in {r \in Releases : Accepts(released, r)}
Spec == Init /\ [][Release]_released

-----------------------------------------------------------------------------
(***************************************************************************)
(* What the programs written for a release rely on, without reference to   *)
(* how releases are compared: the values a type has, and what becomes of   *)
(* the calls that pass and return them.                                    *)
(***************************************************************************)
Depth == 2                    \* of the structs that are passed
ArgumentPositions == 1 .. 3

IsStable(s) == s \in {"stable", "none"}
SubtypesOf(f, sys) ==
  {s \in DOMAIN sys : ExtendsType(s, f, sys) /\ (s = f \/ IsStable(StabilityOf(s, sys)))}

(* The values of a type.  An object is known by the most specific of the   *)
(* types its user has for it.                                              *)
RECURSIVE ValuesOf(_, _, _)
StructsOf(f, sys, depth) ==
  LET props     == AllProperties(f, sys)
      choice[p \in DOMAIN props] ==
        (IF props[p].optional THEN {{}} ELSE {})
          \cup IF depth = 0 THEN {} ELSE {{v} : v \in ValuesOf(props[p].type, sys, depth - 1)}
  IN  {[v |-> "struct", of |-> f, fields |-> g] :
         g \in {h \in [DOMAIN props -> UNION Range(choice)] : \A p \in DOMAIN props : h[p] \in choice[p]}}
ValuesOf(t, sys, depth) ==
  CASE t.k = "prim"  -> {[v |-> p] : p \in IF t = AnyType THEN {"string", "number"} ELSE {t.p}}
    [] t.k = "array" -> {[v |-> "array", items |-> s] :
                           s \in {{}} \cup {{x} : x \in ValuesOf(t.of, sys, depth)}}
    [] t.k = "map"   -> {[v |-> "map", items |-> s] :
                           s \in {{}} \cup {{x} : x \in ValuesOf(t.of, sys, depth)}}
    [] t.k = "union" -> UNION {ValuesOf(t.of[i], sys, depth) : i \in DOMAIN t.of}
    [] t.k = "named" ->
         IF IsEnum(t.fqn, sys)
         THEN {[v |-> "member", of |-> t.fqn, name |-> n] :
                 n \in {m \in DOMAIN sys[t.fqn].members : IsStable(sys[t.fqn].members[m])}}
         ELSE UNION {IF IsStruct(f, sys) THEN StructsOf(f, sys, depth) ELSE {[v |-> "object", of |-> f]} :
                       f \in SubtypesOf(t.fqn, sys)}

(* v is assignable to a variable of type t, as declared in decl, in a      *)
(* program that is compiled with sys.                                      *)
RECURSIVE Belongs(_, _, _, _)
Belongs(v, t, decl, sys) ==
  \/ t = AnyType
  \/ t.k = "prim" /\ v.v = t.p
  \/ t.k = "union" /\ \E i \in DOMAIN t.of : Belongs(v, t.of[i], decl, sys)
  \/ t.k \in {"array", "map"} /\ v.v = t.k /\ \A x \in v.items : Belongs(x, t.of, decl, sys)
  \/ t.k = "named" /\ v.v = "member" /\ v.of = t.fqn /\ v.name \in DOMAIN sys[t.fqn].members
  \/ /\ t.k = "named"
     /\ v.v \in {"object", "struct"}
     /\ ExtendsType(v.of, t.fqn, sys)
     /\ v.v = "struct" =>
          LET props == AllProperties(t.fqn, decl) IN
          \A p \in DOMAIN props :
            LET given == IF p \in DOMAIN v.fields THEN v.fields[p] ELSE {} IN
            /\ given = {} => props[p].optional
            /\ \A x \in given : Belongs(x, props[p].type, decl, sys)

(* The numbers of arguments a method can be called with. *)
Arities(params) ==
  {n \in 0 .. Cardinality(ArgumentPositions) :
     /\ \A i \in DOMAIN params : i > n => params[i].optional \/ params[i].variadic
     /\ n > Len(params) => IsVariadic(params)}

(* An argument that may be left out may still be: a rest takes none. *)
StillCallable(o, u, original, updated) ==
  /\ Arities(o.params) \subseteq Arities(u.params)
  /\ \A i \in ArgumentPositions : \A p \in FindParam(o.params, i) : \A q \in FindParam(u.params, i) :
       /\ p.optional => q.optional \/ q.variadic
       /\ \A v \in ValuesOf(p.type, original, Depth) : Belongs(v, q.type, updated, updated)

StillUsable(o, u) == o.static = u.static /\ (u.protected => o.protected)

StillReadable(o, u, original, updated) ==
  o.type # Void =>
    /\ u.type # Void
    /\ u.optional => o.optional
    /\ \A v \in ValuesOf(u.type, updated, Depth) : Belongs(v, o.type, original, updated)

StableMembers(members, f, sys) ==
  {n \in DOMAIN members : IsStable(MemberStability(members[n], f, sys))}
ReferenceTypes(sys) == {f \in DOMAIN sys : ~ IsEnum(f, sys) /\ ~ IsStruct(f, sys)}

(* A variadic method that gains parameters before the rest is not judged   *)
(* by its calls, nor a constructor that is no longer public.               *)
Judged(o, u) == IsVariadic(o.params) => Len(u.params) <= Len(o.params)

CallsStillTypecheck(original, updated) ==
  \A f \in ReferenceTypes(original) :
    LET os == AllMethods(f, original) IN
    /\ \A n \in StableMembers(os, f, original) :
         /\ f \in DOMAIN updated
         /\ n \in DOMAIN AllMethods(f, updated)
         /\ LET u == AllMethods(f, updated)[n] IN
            /\ StillUsable(os[n], u) /\ os[n].async = u.async
            /\ Judged(os[n], u) => StillCallable(os[n], u, original, updated)
    /\ \A o \in original[f].init : IsStable(MemberStability(o, f, original)) =>
         /\ f \in DOMAIN updated
         /\ updated[f].abstract => original[f].abstract
         /\ \A u \in updated[f].init : Judged(o, u) => StillCallable(o, u, original, updated)

BasesKept(original, updated) ==
  \A f \in DOMAIN original \cap DOMAIN updated :
    \A g \in DOMAIN original : ExtendsType(f, g, original) => g \in DOMAIN updated /\ ExtendsType(f, g, updated)

-----------------------------------------------------------------------------
(* Whatever the next release returns from a stable method, or has in a     *)
(* stable property, is what the programs of the last one take it for       *)
(* (isCompatibleReturnType, isStructuralSuperType).                        *)
ResultsStillFit(original, updated) ==
  \A f \in ReferenceTypes(original) :
    LET members == AllMembers(f, original) IN
    \A n \in StableMembers(members, f, original) :
      /\ f \in DOMAIN updated
      /\ n \in DOMAIN AllMembers(f, updated)
      /\ LET o == members[n]
             u == AllMembers(f, updated)[n]
         IN  /\ StillUsable(o, u)
             /\ IF o.kind = "method" THEN StillReadable(o.returns, u.returns, original, updated)
                ELSE StillReadable(o, u, original, updated)

(* A release that is not refused breaks no program.  Whatever it may pass  *)
(* to a stable method or constructor is accepted, provided no type has     *)
(* lost a base: parameters only weaken, and none becomes required.  What   *)
(* it gets back is what it expects: outputs only strengthen, in every      *)
(* field of every struct that is reached.                                  *)
CallersUnaffected ==
  [][/\ BasesKept(released, released') => CallsStillTypecheck(released, released')
     /\ ResultsStillFit(released, released')]_released

(* The relation that isSuperType computes by assuming the pairs it is      *)
(* checking is the largest one in which every pair of structs is justified *)
(* by the types of their fields.                                           *)
RECURSIVE Fits(_, _, _)
Fits(a, b, pairs) ==
  \/ a = AnyType \/ (a.k = "prim" /\ a = b)
  \/ a.k \in {"array", "map"} /\ b.k = a.k /\ Fits(a.of, b.of, pairs)
  \/ a.k \in {"union", "named"} /\ b.k = "union" /\ \A i \in DOMAIN b.of : Fits(a, b.of[i], pairs)
  \/ a.k = "union" /\ b.k # "union" /\ \E i \in DOMAIN a.of : Fits(a.of[i], b, pairs)
  \/ {a.k, b.k} = {"named"} /\ <<a.fqn, b.fqn>> \in pairs
Justified(pair, pairs, sys) ==
  IsStruct(pair[1], sys.a) /\ IsStruct(pair[2], sys.b) =>
    LET as == AllProperties(pair[1], sys.a)
        bs == AllProperties(pair[2], sys.b)
    IN  /\ \A n \in DOMAIN as : ~ as[n].optional => n \in DOMAIN bs /\ ~ bs[n].optional
        /\ \A n \in DOMAIN as \cap DOMAIN bs : Fits(as[n].type, bs[n].type, pairs)
RECURSIVE LargestWithin(_, _)
LargestWithin(pairs, sys) ==
  LET kept == {p \in pairs : Justified(p, pairs, sys)} IN
  IF kept = pairs THEN pairs ELSE LargestWithin(kept, sys)
AssignableIsGreatest ==
  \A updated \in Releases : \A sys \in {Returning(released, updated), Passing(released, updated)} :
    LET names == (DOMAIN sys.a) \X (DOMAIN sys.b) IN
    {p \in names : IsSuperType(Named(p[1]), Named(p[2]), sys, {})}
      = LargestWithin({p \in names : IsNominalSuperType(p[1], p[2], sys)}, sys)

(* jsii-diff/README.md:34: "will assert that code written against version  *)
(* A of a library will still typecheck when compiled against version B".   *)
(* It does not hold of the calls that pass a type which has lost a base.   *)
CodeStillTypechecks == [][CallsStillTypecheck(released, released')]_released
=============================================================================
