-------------------------- MODULE MCSerialization --------------------------
EXTENDS Serialization

Number(x) == [k |-> "scalar", p |-> "number", v |-> x]
Prop(t, o) == [t EXCEPT !.optional = o]

Type(kind)    == [k |-> kind, optional |-> FALSE]
ScalarType(p) == [k |-> "scalar", p |-> p, optional |-> FALSE]
Named(f)      == [k |-> "named", fqn |-> f, optional |-> FALSE]
Of(kind, t)   == [k |-> kind, of |-> t, optional |-> FALSE]
Str == ScalarType("string")
Num == ScalarType("number")

(* A class, a class that extends it and implements an interface, an        *)
(* interface nobody declares to implement, structs with and without        *)
(* required properties, and an enum.                                       *)
None == << >>
Declarations ==
  [C |-> [kind |-> "class", super |-> {}, props |-> None],
   D |-> [kind |-> "class", super |-> {"C", "I"}, props |-> None],
   I |-> [kind |-> "interface", super |-> {}, props |-> None],
   H |-> [kind |-> "interface", super |-> {}, props |-> None],
   S |-> [kind |-> "struct", super |-> {"R"}, props |-> [q |-> Prop(AnyType, TRUE)]],
   R |-> [kind |-> "struct", super |-> {}, props |-> [p |-> Str]],
   O |-> [kind |-> "struct", super |-> {}, props |-> [q |-> Prop(Type("date"), TRUE)]],
   E |-> [kind |-> "enum", members |-> {Number(1)}, super |-> {}, props |-> None]]

Classes    == [c |-> "C", d |-> "D", l |-> "none", m |-> "none"]
Properties == [c |-> None, d |-> None, l |-> [p |-> String("x"), q |-> Nothing], m |-> None]
Inherited  == [c |-> {}, d |-> {"p"}, l |-> {}, m |-> {}]

Plain == {Nothing, Date, String("x"), Number(1), Object("c"), Object("d"), Object("l"), Object("m")}
SandboxValues ==
  Plain \cup {Array(<<Object("d"), w>>) : w \in {String("x"), Object("l"), Nothing}}
        \cup {Array(<< >>), Array(<<String("x")>>), Map(<< >>), Map([p |-> String("x")]), Map([p |-> Object("c"), q |-> Date])}
ClientValues ==
  {Nothing, WireDate, String("x"), Number(1), Array(<< >>), Array(<<String("x")>>), Map(<< >>),
   Map([p |-> String("x")]), Map([p |-> Nothing]), Map([p |-> String("x"), q |-> Array(<<WireDate>>)]),
   [k |-> "enum", fqn |-> "E", member |-> Number(1)]}

SimpleTypes == {Str, Num, Type("any"), Type("date"), Type("json"), Type("void")}
                 \cup {Named(f) : f \in DOMAIN Declarations}
DeclaredTypes ==
  SimpleTypes
    \cup {Of("array", t) : t \in {Str, Type("any"), Named("C"), Named("I")}}
    \cup {Of("map", t) : t \in {Str, Type("any"), Named("C")}}
    \cup {Of("union", u) : u \in {<<Str, Num>>, <<Named("C"), Str>>, <<Named("I"), Named("C")>>,
                                  <<Of("array", Named("I")), Type("any")>>}}

Param(t, o, v) == [type |-> Prop(t, o), variadic |-> v]
ParameterLists ==
  {<< >>, <<Param(Str, FALSE, FALSE)>>, <<Param(Str, TRUE, FALSE)>>,
   <<Param(Num, FALSE, FALSE), Param(Str, TRUE, FALSE)>>,
   <<Param(Num, FALSE, FALSE), Param(Str, FALSE, TRUE)>>}
ArgumentLists == UNION {[1 .. n -> {Nothing, String("x"), Number(1)}] : n \in 0 .. 3}
=============================================================================
