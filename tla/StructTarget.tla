---------------------------- MODULE StructTarget ----------------------------
(***************************************************************************)
(* Structs, which travel by value: the class with a builder in Java, the   *)
(* keyword arguments in Python, the class in C# (packages/jsii-pacmak/lib/ *)
(* targets), and the check in the kernel (packages/jsii-kernel/lib/        *)
(* serialization.ts).  Each of them finds the properties of a struct in    *)
(* its own way.  A value has one element, or is absent: null, None or      *)
(* undefined.                                                              *)
(***************************************************************************)
EXTENDS JavaTarget, DotNetTarget, PythonTarget

Absent == "absent"

Given(args) == {n \in DOMAIN args : args[n] # Absent}

-----------------------------------------------------------------------------
(* Java.  The fields of Jsii$Proxy, by name: emitDataType                  *)
JavaFields(f, assembly) == [n \in {p.name : p \in AllProps(f, assembly)} |->
                             CHOOSE p \in AllProps(f, assembly) : p.name = n]

(* What the builder was not told is null; build() refuses it for what is   *)
(* not optional.                                                           *)
JavaBuilds(f, args, assembly) ==
  \A n \in DOMAIN JavaFields(f, assembly) : JavaFields(f, assembly)[n].optional \/ n \in Given(args)

(* $jsii$toJson *)
JavaSent(f, args, assembly) ==
  LET fields == JavaFields(f, assembly) IN
    [n \in {n \in DOMAIN fields : ~ fields[n].optional \/ n \in Given(args)} |-> args[n]]

(* equals() of two that were built *)
JavaEquals(f, a, b, assembly) ==
  LET fields == JavaFields(f, assembly) IN
    \A n \in DOMAIN fields :
      IF fields[n].optional /\ n \notin Given(a) THEN n \notin Given(b) ELSE a[n] = b[n]

-----------------------------------------------------------------------------
(* Python.  allProperties of jsii-reflect: what is declared hides what is  *)
(* inherited, a later base an earlier one.                                 *)
ReflectedProperties(assembly) ==
  LET own(type) == [n \in {p.name : p \in type.properties} |-> CHOOSE p \in type.properties : p.name = n]
      properties[f \in Fqns] ==
        LET type == InAssembly(f, assembly) IN
          own(type) @@ FoldLeft(LAMBDA found, i : properties[i] @@ found, << >>, type.interfaces)
  IN [f \in DOMAIN assembly \cup DOMAIN Foreign |-> properties[f]]

StructFields(f, assembly) == ReflectedProperties(assembly)[f]

(* A keyword argument without a default has to be given.                   *)
PythonBuilds(f, args, assembly) ==
  \A n \in DOMAIN StructFields(f, assembly) : StructFields(f, assembly)[n].optional \/ n \in Given(args)

(* Every name of the mapping is sent, None for what was not given.         *)
PythonSent(f, args, assembly) == [n \in DOMAIN StructFields(f, assembly) |-> args[n]]

-----------------------------------------------------------------------------
(* JavaScript.  What is sent for an argument: no properties at all are no  *)
(* value, and what is required has to be there and to have a value.        *)
Received(f, sent, optional, assembly) ==
  LET required == {n \in DOMAIN StructFields(f, assembly) : ~ StructFields(f, assembly)[n].optional} IN
  [accepted |-> IF DOMAIN sent = {} THEN optional ELSE required \subseteq Given(sent),
   value    |-> [n \in Given(sent) \cap DOMAIN StructFields(f, assembly) |-> sent[n]]]
=============================================================================
