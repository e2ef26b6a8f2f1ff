------------------------------- MODULE MCDiff -------------------------------
(***************************************************************************)
(* Releases of a library of two structs that refer to each other, an enum, *)
(* an interface, and a class that another one extends.  The families vary  *)
(* one aspect of it each; every release is compared with every other.      *)
(***************************************************************************)
EXTENDS Diff

None    == << >>
Str     == Prim("string")
Num     == Prim("number")
Opt(t)  == [type |-> t, optional |-> TRUE]
Req(t)  == [type |-> t, optional |-> FALSE]
Param(v)    == v @@ [variadic |-> FALSE]
Rest(t)     == Req(t) @@ [variadic |-> TRUE]
Field(v)    == v @@ [kind |-> "property", immutable |-> TRUE, static |-> FALSE, protected |-> FALSE,
                     abstract |-> FALSE, stability |-> "none"]
Method(params, returns) ==
  [kind |-> "method", params |-> params, returns |-> returns, static |-> FALSE, async |-> FALSE,
   protected |-> FALSE, abstract |-> FALSE, stability |-> "none"]
Constructor(params) ==
  [kind |-> "initializer", params |-> params, protected |-> FALSE, stability |-> "none"]

Type(kind) ==
  [kind |-> kind, datatype |-> FALSE, stability |-> "stable", abstract |-> FALSE, subclassable |-> FALSE,
   base |-> {}, interfaces |-> {}, init |-> {}, methods |-> None, props |-> None]
Struct(fields) == [Type("interface") EXCEPT !.datatype = TRUE, !.props = fields]
Enum(members)  == [kind |-> "enum", stability |-> "stable", members |-> members]

SFields == [label |-> Field(Req(Str)), next |-> Field(Opt(Named("T")))]
Library ==
  [S |-> Struct(SFields),
   T |-> [Struct([back |-> Field(Opt(Named("S")))]) EXCEPT !.interfaces = {"S"}],
   E |-> Enum([x |-> "none", y |-> "none"]),
   I |-> Type("interface"),
   C |-> [Type("class") EXCEPT !.interfaces = {"I"}, !.init = {Constructor(None)},
            !.methods = [m |-> Method(None, Req(Void))],
            !.props = [p |-> Field(Req(Str))]],
   D |-> [Type("class") EXCEPT !.base = {"C"}]]

WithMethod(m)  == [Library EXCEPT !.C.methods = [m |-> m]]
Taking(params) == WithMethod(Method(params, Req(Void)))
Giving(value)  == WithMethod(Method(None, value))

Types == {Str, AnyType, ArrayOf(Str), MapOf(Named("S")), ArrayOf(Named("C")), Union(<<Str, Num>>),
          Union(<<Named("C"), Num>>)} \cup {Named(f) : f \in {"S", "T", "E", "I", "C", "D"}}

Parameters ==
  {Taking(<<Param(v)>>) : v \in {Req(t) : t \in Types} \cup {Opt(Str), Opt(AnyType)}}
    \cup {Taking(ps) : ps \in {None, <<Param(Req(Str)), Param(Req(Str))>>, <<Param(Req(Str)), Param(Opt(Num))>>,
                               <<Param(Opt(Str)), Param(Opt(Num))>>, <<Rest(Str)>>, <<Rest(AnyType)>>,
                               <<Param(Req(Str)), Rest(Str)>>, <<Param(Req(Str)), Rest(Num)>>}}
Results == {Giving(v) : v \in {Req(t) : t \in Types \cup {Void}} \cup {Opt(Str), Opt(Named("S"))}}

Structs ==
  {[lib EXCEPT !.S.props = fields, !.T.props = [back |-> back]] :
     lib    \in {Taking(<<Param(Req(Named("S")))>>), Giving(Req(Named("T")))},
     fields \in {[label |-> l, next |-> n] :
                   l \in {Field(Req(Str)), Field(Opt(Str)), Field(Req(AnyType))},
                   n \in {Field(Opt(Named("T"))), Field(Opt(Named("S")))}}
                  \cup {[next |-> Field(Opt(Named("T")))], SFields @@ [size |-> Field(Req(Num))],
                        SFields @@ [size |-> Field(Opt(Num))]},
     back   \in {Field(Opt(Named("S"))), Field(Req(Named("S")))}}

Kinds ==
  {[Library EXCEPT !.C.props = [p |-> [Field(v) EXCEPT !.immutable = i]]] :
     v \in {Req(Str), Opt(Str), Req(AnyType)}, i \in BOOLEAN}
    \cup {WithMethod([Method(None, Req(Str)) EXCEPT !.static = s, !.async = a, !.protected = p]) :
            s \in BOOLEAN, a \in BOOLEAN, p \in BOOLEAN}
    \cup {[Library EXCEPT !.C.init = i] :
            i \in {{}, {Constructor(<<Param(Req(Str))>>)}, {Constructor(<<Param(Opt(Str))>>)}}}
    \cup {[Library EXCEPT !.C.abstract = TRUE],
          [Library EXCEPT !.C.methods = None],
          [Library EXCEPT !.C.methods = None, !.C.props = [p |-> Field(Req(Str)), m |-> Field(Req(Str))]]}
    \cup {[Library EXCEPT !.C.subclassable = s, !.C.abstract = TRUE,
                          !.C.methods = [m |-> Method(None, Req(Void))] @@ more] :
            s \in BOOLEAN, more \in {None, [n |-> [Method(None, Req(Void)) EXCEPT !.abstract = TRUE]]}}

Stabilities ==
  {[Library EXCEPT !.C.stability = c, !.C.methods = [m |-> [Method(ps, Req(Void)) EXCEPT !.stability = s]]] :
     c \in {"stable", "deprecated"}, s \in {"none", "stable", "experimental", "deprecated"},
     ps \in {None, <<Param(Req(Str))>>}}
    \cup {[Taking(<<Param(Req(Named("E")))>>) EXCEPT !.E.members = ms] :
            ms \in {[x |-> "none"], [x |-> "stable", y |-> "experimental"],
                    [x |-> "stable", y |-> "stable", z |-> "stable"]}}

(* D has lost its base or what it inherits, and has the members still. *)
Orphans ==
  {[lib EXCEPT !.D = [Type("class") EXCEPT !.interfaces = is, !.methods = lib.C.methods, !.props = lib.C.props]] :
     lib \in {Taking(<<Param(Req(Named(f)))>>) : f \in {"C", "I"}}, is \in {{}, {"I"}}}

AllReleases == Parameters \cup Results \cup Structs \cup Kinds \cup Stabilities \cup Orphans
=============================================================================
