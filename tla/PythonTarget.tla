--------------------------- MODULE PythonTarget ---------------------------
(***************************************************************************)
(* The Python that is generated for an assembly (packages/jsii-pacmak/lib/ *)
(* targets/python.ts): the parameters of methods, whose last one becomes   *)
(* keyword arguments if it is a struct, and the proxy classes.             *)
(***************************************************************************)
EXTENDS Generator

(* getliftedProp, None if there is none *)
LiftedProp(parameters, assembly) ==
  IF /\ parameters # << >>
     /\ ~ Last(parameters).variadic
     /\ IsNamed(Last(parameters).type)
     /\ LET type == InAssembly(Last(parameters).type.fqn, assembly) IN
          IsInterface(type) /\ type.datatype
  THEN Last(parameters).type.fqn ELSE None

(* getLiftedProperties: inherited ones as well, those of a struct that is  *)
(* reached twice two times                                                 *)
LiftedProperties(struct, assembly) ==
  LET types == CollectedTypes(struct, assembly) IN
    FlattenSeq([i \in DOMAIN types |-> SetToSeq({p.name : p \in types[i].properties})])

(* The names in the signature; an argument that is named as a property of  *)
(* the struct's own gets an underscore.                                    *)
PythonParameters(parameters, assembly) ==
  LET struct == LiftedProp(parameters, assembly)
      own == IF struct = None THEN {} ELSE {p.name : p \in InAssembly(struct, assembly).properties}
      positional == [i \in DOMAIN parameters |->
                       [name |-> parameters[i].name, underscore |-> parameters[i].name \in own]]
      keywords == IF struct = None THEN << >> ELSE LiftedProperties(struct, assembly)
  IN IF struct = None THEN positional
     ELSE Front(positional) \o [i \in DOMAIN keywords |-> [name |-> keywords[i], underscore |-> FALSE]]

(* emitJsiiMethodCall names each parameter without the underscore. *)
PassedArguments(parameters) ==
  [i \in DOMAIN parameters |-> [name |-> parameters[i].name, underscore |-> FALSE]]

(* The members of the proxy class and of those it extends: of an interface *)
(* all, of an abstract class the abstract ones; getAbstractBases           *)
PythonProxy(assembly) ==
  LET proxy[f \in Fqns] ==
        LET type == InAssembly(f, assembly)
            abstract == {m.name : m \in AbstractOf(type.methods)} \cup {p.name : p \in AbstractOf(type.properties)}
        IN IF IsInterface(type) THEN MemberNames(type) \cup UNION {proxy[i] : i \in ToSet(type.interfaces)}
           ELSE abstract \cup (IF type.base # None /\ InAssembly(type.base, assembly).abstract
                               THEN proxy[type.base] ELSE {})
  IN [f \in DOMAIN assembly \cup DOMAIN Foreign |-> proxy[f]]
=============================================================================
