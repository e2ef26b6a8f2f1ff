----------------------------- MODULE MCCompiler -----------------------------
(***************************************************************************)
(* Programs of up to five declarations, in seven families, over a         *)
(* dependency with a struct and a behavioural interface, and a base class  *)
(* and the struct's base of a dependency of that one.                      *)
(***************************************************************************)
EXTENDS Generation

MCFqns  == {"S", "T", "IU", "IV", "A", "B", "E", "FS", "IF", "FB", "QS", "Gone", "N", "O"}
MCNames == MCFqns \cup {"p", "q", "r", "m", "x", "build", "_h", "getX",
                      "RED", "Bad"}

MCStyle == [n \in MCNames |->
  CASE n \in {"IU", "IV", "IF"} -> {"pascal", "interface"}
    [] n \in {"S", "T", "A", "B", "E", "FS", "FB", "QS", "Gone", "N", "O"} -> {"pascal"}
    [] n \in {"p", "q", "r", "m", "x"} -> {"camel"}
    [] n = "build" -> {"camel", "prohibited"}
    [] n = "_h"    -> {"underscore"}
    [] n = "getX"  -> {"camel", "get"}
    [] n = "RED"   -> {"upper"}
    [] n = "Bad"   -> {"pascal"}]

MCGetterOf   == [n \in MCNames |-> IF n = "x" THEN "getX" ELSE "get" \o n]
MCSetterOf   == [n \in MCNames |-> "set" \o n]
MCJavaMethod == [n \in MCNames |-> n]

Ts(t, name, of) == [t |-> t, name |-> name, of |-> of]
Str    == Ts("primitive", "string", << >>)
Num    == Ts("primitive", "number", << >>)
Undef  == Ts("undefined", "", << >>)
Void   == Ts("void", "", << >>)
Ref(f) == Ts("named", f, << >>)
Maybe  == Ts("union", "", <<Str, Undef>>)
Either == Ts("union", "", <<Str, Num>>)
Nums   == Ts("array", "", <<Num>>)
MCTsTypes == {Str, Num, Undef, Void, Maybe, Either, Nums, Ts("array", "", << >>), Ts("promise", "", <<Str>>)}
               \cup {Ref(f) : f \in MCFqns}

Member(sort, name, type) ==
  [sort |-> sort, name |-> name, private |-> FALSE, internal |-> FALSE, protected |-> FALSE,
   static |-> FALSE, abstract |-> FALSE, readonly |-> FALSE, optional |-> FALSE,
   const |-> FALSE, type |-> type, params |-> << >>]
Prop(name, type) == Member("property", name, type)
Const(name)      == [Prop(name, Str) EXCEPT !.readonly = TRUE]
Static(m)        == [m EXCEPT !.static = TRUE]
Method0(name)    == Member("method", name, Void)
MethodOf(name, params, type) == [Member("method", name, type) EXCEPT !.params = params]
Param(name, type) ==
  [name |-> name, type |-> type, optional |-> FALSE, variadic |-> FALSE, property |-> FALSE,
   readonly |-> FALSE, protected |-> FALSE]

Decl(kind, bases, members) ==
  [kind |-> kind, listed |-> TRUE, private |-> FALSE, internal |-> FALSE, abstract |-> FALSE,
   const |-> FALSE, bases |-> bases, implements |-> << >>, members |-> members,
   ctor |-> << >>, values |-> {}]
Iface(bases, members) == Decl("interface", bases, members)
Class(bases, members) == Decl("class", bases, members)
Hide(d)     == [d EXCEPT !.private = TRUE]
Unlist(d)   == [d EXCEPT !.listed = FALSE]
Implement(d, is) == [d EXCEPT !.implements = is]
Ctor(d, ps) == [d EXCEPT !.ctor = <<[private |-> FALSE, params |-> ps]>>]

-----------------------------------------------------------------------------
ForeignType(kind) ==
  [kind |-> kind, abstract |-> FALSE, datatype |-> FALSE, base |-> None, interfaces |-> << >>,
   initializer |-> << >>, members |-> {}, methods |-> {}, properties |-> {}]
ForeignMethod ==
  [name |-> "m", parameters |-> << >>, returns |-> << >>, abstract |-> TRUE, protected |-> FALSE,
   static |-> FALSE, async |-> FALSE, overrides |-> None]
ForeignProperty ==
  [name |-> "q", type |-> Prim("string"), optional |-> FALSE, immutable |-> TRUE, abstract |-> TRUE,
   protected |-> FALSE, static |-> FALSE, const |-> FALSE, overrides |-> None]
MCForeign ==
  [f \in {"FS", "IF", "FB", "QS"} |->
     CASE f = "FS" -> [ForeignType("interface") EXCEPT !.datatype = TRUE, !.properties = {ForeignProperty},
                         !.interfaces = <<"QS">>]
       [] f = "QS" -> [ForeignType("interface") EXCEPT !.datatype = TRUE]
       [] f = "IF" -> [ForeignType("interface") EXCEPT !.methods = {ForeignMethod},
                         !.properties = {[ForeignProperty EXCEPT !.name = "r"]}]
       [] f = "FB" -> [ForeignType("class") EXCEPT
                         !.initializer = <<[parameters |-> <<[name |-> "p", type |-> Prim("number"),
                                                             optional |-> FALSE, variadic |-> FALSE]>>]>>,
                         !.methods = {[ForeignMethod EXCEPT !.abstract = FALSE]},
                         !.properties = {[ForeignProperty EXCEPT !.name = "r", !.abstract = FALSE]}]]

-----------------------------------------------------------------------------
(* Interfaces over interfaces: structs, behaviour, erased and missing ones *)
Structs ==
  { "S" :> s @@ "T" :> t @@ "IU" :> u :
      s \in {v : v \in UNION {{Iface(b, ms), Hide(Iface(b, ms)), Unlist(Iface(b, ms))} :
                  b \in {<< >>, <<"FS">>}, ms \in {<<Const("p")>>, <<Method0("m")>>}}},
      t \in {Iface(b, ms) : b \in {<<"S">>, <<"S", "IF">>},
                            ms \in {<< >>, <<[Const("q") EXCEPT !.optional = TRUE]>>, <<Prop("r", Str)>>}},
      u \in {Iface(b, ms) : b \in {<< >>, <<"T">>}, ms \in {<<Const("p")>>}} }

(* Classes: constructors, statics and clauses through erased bases *)
Classes ==
  { "A" :> a @@ "B" :> b @@ "IV" :> i :
      a \in UNION {{c, Hide(c), [Ctor(c, <<Param("p", Str)>>) EXCEPT !.abstract = TRUE]} :
                     c \in {Implement(Class(bs, ms), is) :
                              bs \in {<< >>, <<"FB">>}, ms \in {<< >>, <<Static(Const("p"))>>},
                              is \in {<< >>, <<"IV">>}}},
      b \in UNION {{c, Ctor(c, << >>)} :
                     c \in {Implement(Class(<<"A">>, ms), is) :
                              ms \in {<< >>, <<Const("p")>>, <<Const("r"), Method0("m")>>},
                              is \in {<< >>, <<"IF">>}}},
      i \in {Iface(<< >>, << >>), Iface(<<"IF">>, << >>)} }

(* Methods whose last parameter is lifted, contracts and names *)
Signatures ==
  { "S" :> s @@ "IU" :> u @@ "A" :> a :
      s \in {Iface(<< >>, <<Const("p")>>), Iface(<<"FS">>, <<Const("p")>>),
             Iface(<<"IU", "Gone">>, << >>), Iface(<<"Gone", "FS">>, <<Const("p")>>),
             Unlist(Iface(<< >>, << >>)), Iface(<<"FB", "FS">>, << >>)},
      u \in {Iface(<< >>, <<MethodOf("m", <<Param("q", Str), Param("r", Ref("S"))>>, t)>>) : t \in {Void, Str}},
      a \in UNION {{Class(<< >>, ms), Implement(Class(<< >>, ms), <<"IU">>)} :
        ms \in {<<MethodOf("m", <<Param(n, Str), Param("r", Ref("S"))>>, Void)>> : n \in {"p", "q"}}
                 \cup {<<MethodOf("m", <<Param("r", Maybe), Param("q", t)>>, Void)>> : t \in {Str, Maybe}}
                 \cup {<<MethodOf("m", <<[Param("r", Str) EXCEPT !.optional = TRUE],
                                         [Param("q", Nums) EXCEPT !.variadic = TRUE]>>, Void)>>,
                       <<MethodOf("m", << >>, Void), Prop("build", Str)>>,
                       <<MethodOf("getX", << >>, Ts("promise", "", <<Str>>)), Method0("m")>>,
                       <<[Prop("_h", Str) EXCEPT !.internal = TRUE], [Static(Const("RED")) EXCEPT !.const = TRUE],
                         MethodOf("m", <<Param("q", Str), Param("r", Ref("S"))>>, Str)>>,
                       <<Prop("_h", Str), Method0("m"), Static(Method0("p"))>>,
                       <<Prop("q", Maybe), Prop("q", Str), Static(Const("Bad"))>>}} }

(* A class whose base is an instance type that is no class, and enums *)
Oddities ==
  { "A" :> a @@ "E" :> e @@ "B" :> b :
      a \in {Class(<<"IF">>, << >>), Class(<<"Gone">>, << >>), Ctor(Class(<<"IF">>, << >>), << >>),
             Class(<< >>, <<Prop("p", Ref("E"))>>), Class(<< >>, <<Prop("p", Ref("Gone"))>>),
             Class(<< >>, <<Prop("p", Ts("array", "", << >>))>>)},
      e \in {[Decl("enum", << >>, << >>) EXCEPT !.values = {v}, !.const = c] :
               v \in {"RED", "p"}, c \in BOOLEAN},
      b \in {Class(<<"A">>, << >>), Class(<<"A">>, <<Prop("q", Ref("E"))>>),
             Ctor(Class(<< >>, << >>), <<[Param("p", Str) EXCEPT !.property = TRUE]>>),
             Ctor(Class(<< >>, << >>), <<[Param("p", Str) EXCEPT !.property = TRUE, !.readonly = TRUE],
                                         [Param("q", Str) EXCEPT !.property = TRUE, !.protected = TRUE]>>)} }

(* Abstract and concrete classes under interfaces, for the generators *)
Opt(name, type) == [Param(name, type) EXCEPT !.optional = TRUE]
Abs(d) == [d EXCEPT !.abstract = TRUE]
Hierarchies ==
  { "IU" :> u @@ "A" :> a @@ "B" :> b :
      u \in {Iface(bs, <<MethodOf("p", <<Param("q", Str), Opt("r", Num)>>, Void), Prop("x", Either)>>) :
               bs \in {<< >>, <<"IF">>}},
      a \in {Abs(Implement(Class(<< >>, <<mx>> \o rest), <<"IU">>)) :
               mx \in {Abs(MethodOf("p", <<Param("q", Str), Opt("r", Num)>>, Void)),
                       MethodOf("p", <<Param("q", Str), Opt("r", Num)>>, Void),
                       MethodOf("p", <<Param("q", Str), Param("r", Num)>>, Void)},
               rest \in {<<Abs(Prop("x", Either)), Abs(Method0("m")), Abs(Const("r"))>>,
                         <<Prop("x", Either), Method0("m"), Prop("r", Str)>>}},
      b \in {Class(<<"A">>, ms) :
               ms \in {<<MethodOf("p", <<Opt("q", Str)>>, Void), Prop("x", Either), Method0("m"), Const("r")>>,
                       <<MethodOf("p", <<Param("q", Str), Opt("r", Num)>>, Void), Prop("x", Either),
                         Method0("m"), Const("r")>>}}
             \cup {Abs(Class(<<"A">>, ms)) : ms \in {<< >>, <<Abs(Prop("x", Either))>>, <<Method0("m")>>}} }
  \cup
  { "IV" :> v @@ "A" :> a @@ "B" :> b :
      v \in {Iface(bs, <<Prop("x", Str)>>) : bs \in {<< >>, <<"IF">>}},
      a \in {Class(<<"FB">>, ms) : ms \in {<< >>, <<Prop("x", Str)>>, <<Method0("p")>>}},
      b \in UNION {{Implement(c, <<"IV">>), Abs(Implement(c, <<"IV">>)), Implement(c, <<"IF">>)} :
             c \in {Class(<<"A">>, ms) :
                      ms \in {<<MethodOf("m", << >>, t), Prop("x", Str)>> : t \in {Void, Str}}
                              \cup {<<Const("r"), Prop("x", Str)>>, <<Prop("r", Str), Prop("x", Maybe)>>,
                                    <<Const("x")>>}}} }

(* N and O are nested in A. *)
MCEnclosing == [f \in MCFqns |-> IF f \in {"N", "O"} THEN "A" ELSE None]
MCFqnOrder  == <<"A", "B", "E", "FB", "FS", "Gone", "IF", "IU", "IV", "N", "O", "QS", "S", "T">>

(* TypeScript allows no cycle, and no class that extends an interface. *)
Extends(prog, f, g) == g \in ToSet(prog[f].bases)
Legal(prog) ==
  \A f, g \in DOMAIN prog : Extends(prog, f, g) =>
    /\ ~ Extends(prog, g, f)
    /\ prog[f].kind = "class" => prog[g].kind = "class"

Nested ==
  { prog \in
    { "A" :> a @@ "B" :> b @@ "N" :> n @@ "O" :> o @@ "S" :> Iface(<< >>, <<Const("p")>>) :
      a \in {Class(<< >>, << >>), Abs(Class(<< >>, << >>)), Class(<<"B">>, << >>),
             Iface(<<"S">>, << >>), Iface(<< >>, <<Method0("m")>>)},
      b \in {Abs(Class(<<"A">>, << >>)), Class(<<"N">>, << >>), Class(<< >>, << >>)},
      n \in {Class(<<"O">>, << >>), Abs(Class(<<"O">>, << >>)), Class(<<"B">>, << >>),
             Iface(<<"O">>, << >>), Iface(<<"S">>, << >>)},
      o \in {Abs(Class(<< >>, << >>)), Iface(<< >>, <<Const("q")>>)} } : Legal(prog) }
  \cup
  { "A" :> Implement(Class(<< >>, << >>), is) @@ "IU" :> u @@ "IV" :> Iface(<< >>, <<Method0("m")>>) @@ "N" :> n :
      is \in {<<"IU">>, <<"IV", "IU">>, <<"N">>},
      u \in {Iface(<< >>, << >>), Iface(<<"IV">>, << >>)},
      n \in {Implement(Class(<< >>, << >>), <<"IF">>), Iface(<<"IF">>, << >>),
             Decl("enum", << >>, << >>)} }

(* Programs over the dependency alone, compiled in any of the checkouts *)
Clients ==
  { "A" :> a : a \in {Class(<< >>, <<Prop("p", Ref(f))>>) : f \in {"IF", "FB"}}
                     \cup {Class(<< >>, <<MethodOf("m", <<Param("q", Str), Param("r", Ref("FS"))>>, Void)>>),
                           Class(<<"FB">>, << >>), Implement(Class(<< >>, << >>), <<"IF">>),
                           Class(<< >>, <<Method0("m")>>)} }

(* P needs Q, and Q is another version in some of the directories; M is    *)
(* between them for "p far", P only has Q as a peer for "p peer", and was  *)
(* compiled with another Q for "p stale".  L is not a jsii package.        *)
MCHome == [f \in {"FS", "IF", "FB", "QS"} |-> IF f \in {"FB", "QS"} THEN "Q" ELSE "P"]

Edge(name, range, recorded, at) == [name |-> name, range |-> range, recorded |-> recorded, at |-> at]
Pack(name, version, dependencies) ==
  [name |-> name, version |-> version, assembly |-> name # "L",
   dependencies |-> dependencies, peers |-> dependencies, bundled |-> {}]
Q10 == <<1, 0>>
Q12 == <<1, 2>>
Q20 == <<2, 0>>
Q01 == <<0, 1>>
Q02 == <<0, 2>>
NeedsQ(v, at) == <<Edge("Q", {Q10, Q12, Q20, Q01, Q02}, v, at)>>

MCInstalled ==
  [i \in {"q10", "q12", "q20", "q01", "q02", "m", "p", "p12", "p20", "p02", "p far", "p peer", "p stale", "l"} |->
     CASE i = "q10"     -> Pack("Q", Q10, << >>)
       [] i = "q12"     -> Pack("Q", Q12, << >>)
       [] i = "q20"     -> Pack("Q", Q20, << >>)
       [] i = "q01"     -> Pack("Q", Q01, << >>)
       [] i = "q02"     -> Pack("Q", Q02, << >>)
       [] i = "m"       -> Pack("M", Q10, NeedsQ(Q10, "q10"))
       [] i = "p"       -> Pack("P", Q10, NeedsQ(Q10, "q10"))
       [] i = "p12"     -> Pack("P", Q10, NeedsQ(Q12, "q12"))
       [] i = "p20"     -> Pack("P", Q10, NeedsQ(Q20, "q20"))
       [] i = "p02"     -> Pack("P", Q10, NeedsQ(Q02, "q02"))
       [] i = "p far"   -> Pack("P", Q10, <<Edge("M", {Q10}, Q10, "m")>>)
       [] i = "p peer"  -> [Pack("P", Q10, << >>) EXCEPT !.peers = NeedsQ(Q10, "q10")]
       [] i = "p stale" -> Pack("P", Q10, NeedsQ(Q10, "q12"))
       [] i = "l"       -> Pack("L", Q10, << >>)]

NeedsP(at) == Edge("P", {Q10}, Q10, at)
Root(dependencies, peers, bundled) ==
  [Pack("R", Q10, dependencies) EXCEPT !.peers = peers, !.bundled = bundled]
Usual == [package |-> Root(<<NeedsP("p")>>, <<NeedsP("p")>>, {}), fix |-> TRUE, tsconfig |-> "none"]

(* Dependencies that are peers as well, or not, or in another version; a   *)
(* peer that is no dependency; bundled ones                                *)
Packages ==
  LET ps == {NeedsP(at) : at \in {"p", "p12", "p20", "p02", "p far", "p peer", "p stale"}}
      qs == {<< >>, NeedsQ(Q10, "q10"), NeedsQ(Q12, "q12"), NeedsQ(Q01, "q01"), <<Edge("Q", {Q12, Q20}, Q12, "q12")>>,
             <<Edge("Q", {Q10}, Q10, "q12")>>, <<Edge("L", {Q10}, Q10, "l")>>}
  IN UNION {{Root(<<p>> \o q, <<p>> \o q, b), Root(<<p>> \o q, <<p>>, b), Root(<<p>>, <<p>> \o q, b),
             Root(<<p>>, <<[p EXCEPT !.range = {Q12}]>> \o q, b)} :
              p \in ps, q \in qs, b \in {{}, {"P"}, {"Q"}}}

MCCheckoutsOf(prog) ==
  IF prog \notin Clients THEN {Usual}
  ELSE [package : Packages, fix : BOOLEAN, tsconfig : {"none", "own"}]

MCPrograms == Clients \cup Nested \cup Structs \cup Classes \cup Signatures \cup Oddities \cup Hierarchies
=============================================================================
