---------------------------- MODULE Compilation ----------------------------
(***************************************************************************)
(* What the compiler promises: whatever the order in which declarations    *)
(* are visited and checked, a program is either rejected, or its assembly  *)
(* is the one that its declarations mean.                                  *)
(***************************************************************************)
EXTENDS Validator

-----------------------------------------------------------------------------
(* A struct has no methods, extends structs only and does not begin with I. *)
IsStruct ==
  LET struct[f \in Fqns] ==
        IF f \notin Listed THEN f \in ForeignTypes /\ Foreign[f].datatype
        ELSE /\ program[f].kind = "interface"
             /\ VisitMethods(f) = {}
             /\ \A b \in ToSet(VisibleBases[f]) : struct[b]
             /\ ~ isInterfaceName(f)
  IN struct

(* A class has the constructor of its nearest ancestor that has one. *)
InheritedInitializer ==
  LET init[f \in Fqns] ==
        IF f \notin Listed THEN Foreign[f].initializer
        ELSE IF Constructor(f) # << >> \/ BaseOf(f) = None THEN VisitedType(f).initializer
        ELSE init[BaseOf(f)]
  IN init

(* The type that a declaration means *)
Meaning(f) ==
  [VisitedType(f) EXCEPT
     !.datatype    = IsStruct[f],
     !.initializer = IF program[f].kind = "class" THEN InheritedInitializer[f] ELSE @]

Meanings == [f \in Listed |-> Meaning(f)]

Supers(f) ==
  IF f \in Listed
  THEN IF program[f].kind = "class" THEN ToSet(VisibleBases[f]) ELSE ToSet(Interfaces(f))
  ELSE (IF Foreign[f].base = None THEN {} ELSE {Foreign[f].base}) \cup
         (IF IsInterface(Foreign[f]) THEN ToSet(Foreign[f].interfaces) ELSE {})

(* All base classes of a class, all that an interface extends *)
Ancestors ==
  LET above[f \in Fqns] ==
        IF f \in Listed \/ f \in ForeignTypes
        THEN Supers(f) \cup UNION {above[s] : s \in Supers(f)} ELSE {}
  IN above

Exists(f) == f \in Listed \/ f \in ForeignTypes
KindOf(f) == IF f \in Listed THEN program[f].kind ELSE Foreign[f].kind
MembersOf(f) ==
  IF f \in Listed THEN VisitMethods(f) \cup VisitProperties(f)
  ELSE Foreign[f].methods \cup Foreign[f].properties

(* Keyword arguments that a struct makes of its properties *)
Keywords(f) == {m.name : m \in UNION {MembersOf(a) : a \in {f} \cup Ancestors[f]}}

(* What every struct, interface, class and method of a program must obey *)
RelationsHold(f) ==
  LET kind == program[f].kind
      extends == ToSet(VisibleBases[f])
      implements == ToSet(Interfaces(f)) IN
  /\ \A s \in extends \cup implements : Exists(s)
  /\ \A s \in implements : KindOf(s) = "interface"
  /\ kind = "class" =>
       /\ \A s \in extends : KindOf(s) = "class"
       /\ \A s \in implements : ~ IsStruct[s]
       /\ \A a \in Ancestors[f], m \in MembersOf(f) : \A n \in MembersOf(a) :
            m.name = n.name => m.static = n.static
  /\ kind = "interface" =>
       /\ \A a \in Ancestors[f] : {m.name : m \in MembersOf(f)} \cap {m.name : m \in MembersOf(a)} = {}
       /\ isInterfaceName(f) <=> ~ IsStruct[f]
       /\ IF IsStruct[f] THEN \A p \in VisitProperties(f) : p.immutable
          ELSE \A s \in extends : ~ IsStruct[s]
  /\ \A m \in ToSet(Methods(f)) :
       LET ps == ToParameters(m.params) IN
         ps # << >> /\ IsNamed(Last(ps).type)
           => /\ Exists(Last(ps).type.fqn)
              /\ IsStruct[Last(ps).type.fqn] =>
                   Keywords(Last(ps).type.fqn) \cap {p.name : p \in ToSet(Front(ps))} = {}

Errors(reported) == {d \in reported : d.category = "error"}

WellFormed ==
  /\ \A f \in Listed :
       Errors(HeritageErrors(f) \cup MemberErrors(f)) = {} /\ RelationsHold(f)
  /\ ValidationErrors(Meanings) = {}

-----------------------------------------------------------------------------
VARIABLES status, assembly
compilationVars == <<status, assembly, program>>

CompilationInit == status = "compiling" /\ assembly = << >>

Accept ==
  /\ status = "compiling" /\ status' = "accepted"
  /\ WellFormed
  /\ assembly' = WithOverrides(Meanings)
  /\ UNCHANGED program

Reject ==
  /\ status = "compiling" /\ status' = "rejected"
  /\ ~ WellFormed
  /\ UNCHANGED <<assembly, program>>

CompilationSpec == CompilationInit /\ [][Accept \/ Reject]_compilationVars
=============================================================================
