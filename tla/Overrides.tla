----------------------------- MODULE Overrides -----------------------------
(***************************************************************************)
(* Native classes that override members of a jsii class: how each client   *)
(* library finds the overrides (JsiiEngine.discoverOverrides, Python's     *)
(* _get_overides, DeputyBase's GetOverrides), how Kernel._create installs  *)
(* them on the object, and how calls between the program and the sandbox   *)
(* find their way afterwards.  A request of the program on a member means  *)
(* the class's own implementation ("super"); an access in the sandbox is   *)
(* virtual.                                                                *)
(*                                                                         *)
(* Only which code is reached is modelled; how the calls travel is the     *)
(* subject of KernelHost, arguments and results are left out, and so are   *)
(* async methods, which are installed and found like the others.           *)
(***************************************************************************)
EXTENDS Naturals, FiniteSets, SequencesExt

CONSTANTS
  Names,     \* member names
  Langs,     \* client libraries
  Classes,   \* jsii classes, each a function from Names to Members
  Natives,   \* what the native classes below it define, the base first
  MaxDepth   \* bound on nested calls

Kinds     == {"method", "property"}
Override(k, n) == [kind |-> k, name |-> n]
Overridden == [kind : Kinds, name : Names]

(* A member: whether the assembly declares it, and where its code or value *)
(* is: on the object, on the prototype, or (abstract, unknown) nowhere.    *)
Members ==
       [kind : {"method"},   declared : BOOLEAN, at : {"prototype", "nowhere"}]
  \cup [kind : {"property"}, declared : BOOLEAN, at : {"own", "prototype", "nowhere"}]
Unknown == [kind |-> "method", declared |-> FALSE, at |-> "nowhere"]

ASSUME LangsAssumption    == Langs \subseteq {"java", "dotnet", "python"}
ASSUME ClassesAssumption  == Classes \subseteq [Names -> Members]
ASSUME NativesAssumption  == Natives \subseteq Seq(SUBSET Overridden)
ASSUME MaxDepthAssumption == MaxDepth \in Nat \ {0}

VARIABLES
  lang,
  class,    \* the members of the jsii class, Object for none
  inIface,  \* members an interface of the jsii class declares, too
  natIface, \* members of interfaces only the native classes implement
  native,   \* the members each native class defines, the base first
  phase,    \* of the create request
  todo,     \* overrides of the request yet to be applied, with their number
  methods,  \* the kernel's sets of names seen
  properties,
  own,      \* what the object itself has under each name
  saved,    \* and under the super name of each property
  stack     \* the calls between program and sandbox, the innermost last

classVars  == <<lang, class, inIface, natIface, native>>
objectVars == <<methods, properties, own, saved>>
vars       == <<classVars, phase, todo, objectVars, stack>>

Declared(n)    == class[n].declared
Implemented(n) == class[n].at # "nowhere"

(* Code that runs: its side, its member, and whether it was reached by a   *)
(* request of the program or by an access in the sandbox.                  *)
Frames == [by : {"class", "native"}, name : Names, via : {"request", "access"}]
Frame(b, n, v) == [by |-> b, name |-> n, via |-> v]

TypeOK ==
  /\ lang \in Langs
  /\ class \in [Names -> Members]
  /\ inIface \subseteq Names
  /\ natIface \subseteq Overridden
  /\ native \in Seq(SUBSET Overridden)
  /\ phase \in {"discover", "apply", "created", "failed"}
  /\ todo \in [Overridden -> Nat]
  /\ methods \subseteq Names
  /\ properties \subseteq Names
  /\ own \in [Names -> {"none", "value", "method", "property"}]
  /\ saved \in [Names -> {"none", "value", "blank"}]
  /\ stack \in Seq(Frames)

(* A native class defines members the jsii class declares, members of      *)
(* interfaces, and members of its own.                                     *)
Init ==
  /\ lang \in Langs
  /\ class \in Classes
  /\ inIface \in SUBSET {n \in Names : Declared(n)}
  /\ natIface \in SUBSET {o \in Overridden : class[o.name] = Unknown}
  /\ \A o, p \in natIface : o.name = p.name => o = p
  /\ native \in Natives
  /\ phase = "discover"
  /\ todo = [o \in Overridden |-> 0]
  /\ methods = {}
  /\ properties = {}
  /\ own = [n \in Names |-> IF class[n].at = "own" THEN "value" ELSE "none"]
  /\ saved = [n \in Names |-> "none"]
  /\ stack = << >>

-----------------------------------------------------------------------------
(***************************************************************************)
(* The overrides a client library sends, as a bag.                         *)
(***************************************************************************)
Levels == DOMAIN native
Defining(o) == {l \in Levels : o \in native[l]}

(* Java: one override for each name, of the most derived class that has a  *)
(* method for it; of a getter and a method of one class, either.           *)
HasName(l, n)  == \E o \in native[l] : o.name = n
MostDerived(n) == CHOOSE l \in Levels :
  HasName(l, n) /\ \A m \in Levels : HasName(m, n) => m <= l
JavaChoices ==
  {f \in [Names -> Kinds] : \A n \in Names :
     (\E l \in Levels : HasName(l, n)) => Override(f[n], n) \in native[MostDerived(n)]}
JavaBag(choice) ==
  [o \in Overridden |-> IF Defining(o) # {} /\ choice[o.name] = o.kind THEN 1 ELSE 0]

(* .NET: the members that carry the attribute of an overridden member. *)
IsMember(o) == Declared(o.name) /\ class[o.name].kind = o.kind
DotnetBag ==
  [o \in Overridden |-> IF IsMember(o) /\ Defining(o) # {} THEN 1 ELSE 0]

(* Python: one for each native class that defines the member and each      *)
(* entry in the list of jsii classes, where an interface occurs once for   *)
(* the class that implements it and once for each class derived from that. *)
JsiiClasses(o) ==
    (IF IsMember(o) THEN 1 ELSE 0)
  + (IF IsMember(o) /\ o.name \in inIface THEN Len(native) + 1 ELSE 0)
  + (IF o \in natIface THEN Len(native) ELSE 0)
PythonBag ==
  [o \in Overridden |-> Cardinality(Defining(o)) * JsiiClasses(o)]

Discover ==
  /\ phase = "discover"
  /\ CASE lang = "java"   -> \E choice \in JavaChoices : todo' = JavaBag(choice)
       [] lang = "dotnet" -> todo' = DotnetBag
       [] lang = "python" -> todo' = PythonBag
  /\ phase' = "apply"
  /\ UNCHANGED <<classVars, objectVars, stack>>

-----------------------------------------------------------------------------
(***************************************************************************)
(* The override loop of _create, one override at a time.                   *)
(***************************************************************************)
Take(o)    == phase = "apply" /\ todo[o] > 0 /\ todo' = [todo EXCEPT ![o] = @ - 1]
Refused    == phase' = "failed" /\ UNCHANGED <<own, saved>>
Skipped    == UNCHANGED <<phase, own, saved>>
Replace(n, k) == own' = [own EXCEPT ![n] = k] /\ UNCHANGED phase

(* What obj[n] may be found to be: a method is true, a value need not be. *)
Truth(n) == IF ~ Implemented(n) THEN {FALSE}
            ELSE IF class[n].kind = "method" THEN {TRUE} ELSE BOOLEAN

(* Mutant: what the object has already is left alone, declared or not. *)
ApplyMethodIfAbsent(n) ==
  /\ Take(Override("method", n))
  /\ methods' = methods \cup {n}
  /\ \E truthy \in Truth(n) :
       \/ n \in methods /\ Refused
       \/ n \notin methods /\ truthy /\ Skipped
       \/ n \notin methods /\ ~ truthy /\ Replace(n, "method") /\ UNCHANGED saved
  /\ UNCHANGED <<classVars, properties, stack>>

ApplyMethod(n) ==
  /\ Take(Override("method", n))
  /\ methods' = methods \cup {n}
  /\ LET ok == n \notin methods /\ ~ (Declared(n) /\ class[n].kind = "property") IN
     \E truthy \in Truth(n) :
       \/ ~ ok /\ Refused
       \/ ok /\ ~ Declared(n) /\ truthy /\ Skipped
       \/ ok /\ (Declared(n) \/ ~ truthy) /\ Replace(n, "method") /\ UNCHANGED saved
  /\ UNCHANGED <<classVars, properties, stack>>

(* The descriptor that is saved is the object's own, or a blank one. *)
ApplyProperty(n) ==
  /\ Take(Override("property", n))
  /\ properties' = properties \cup {n}
  /\ LET ok == n \notin properties /\ ~ (Declared(n) /\ class[n].kind = "method") IN
       \/ ~ ok /\ Refused
       \/ ok /\ ~ Declared(n) /\ Implemented(n) /\ Skipped
       \/ /\ ok /\ (Declared(n) \/ ~ Implemented(n))
          /\ Replace(n, "property")
          /\ saved' = [saved EXCEPT ![n] = IF own[n] = "value" THEN "value" ELSE "blank"]
  /\ UNCHANGED <<classVars, methods, stack>>

CreateReturns ==
  /\ phase = "apply" /\ \A o \in Overridden : todo[o] = 0
  /\ phase' = "created"
  /\ UNCHANGED <<classVars, todo, objectVars, stack>>

-----------------------------------------------------------------------------
(***************************************************************************)
(* Calls on the object that was created.                                   *)
(***************************************************************************)
Runs(side) == phase = "created" /\ (stack # << >> => Last(stack).by = side)
Enter(side, n, via) ==
  /\ Len(stack) < MaxDepth
  /\ stack' = Append(stack, Frame(side, n, via))
  /\ UNCHANGED <<classVars, phase, todo, objectVars>>

(* What the kernel reads or runs for a request: the prototype's method, or *)
(* the object's own if there is none; the super property, if there is one. *)
Callback == {"method", "property"}
InvokeTargetOfObject(n) ==
  IF own[n] \in Callback THEN "native" ELSE IF Implemented(n) THEN "class" ELSE "none"
InvokeTarget(n) ==
  IF Implemented(n) THEN "class" ELSE IF own[n] \in Callback THEN "native" ELSE "none"
GetTarget(n) ==
  IF saved[n] # "none" THEN saved[n]
  ELSE IF class[n].at = "prototype" THEN "class" ELSE own[n]
Target(n) == IF class[n].kind = "method" THEN InvokeTarget(n) ELSE GetTarget(n)

(* The program, in its own code or in an override, calls a member that the *)
(* assembly declares.  What reads a value runs no code.                    *)
Request(n) ==
  /\ Runs("native") /\ Declared(n)
  /\ Target(n) \in {"class", "native"}
  /\ Enter(Target(n), n, "request")

(* Code of the class (or, first, of another object) uses a member. *)
Access(n) ==
  /\ Runs("class")
  /\ \/ own[n] \in Callback /\ Enter("native", n, "access")
     \/ /\ own[n] = "none" /\ class[n].at = "prototype"
        /\ Enter("class", n, "access")

Return ==
  /\ stack # << >>
  /\ stack' = Front(stack)
  /\ UNCHANGED <<classVars, phase, todo, objectVars>>

Next ==
  \/ Discover
  \/ \E n \in Names : ApplyMethod(n) \/ ApplyProperty(n)
  \/ CreateReturns
  \/ \E n \in Names : Request(n) \/ Access(n)
  \/ Return

Spec == Init /\ [][Next]_vars

-----------------------------------------------------------------------------
(* Native classes that define the member as what it is declared. *)
Redefined(n) == Declared(n) /\ Defining(Override(class[n].kind, n)) # {}

(* A request of the program runs the class's own implementation if there   *)
(* is one, and never comes back as a callback: an override that calls      *)
(* super does not find itself.                                             *)
SuperNeverBounces ==
  \A i \in DOMAIN stack :
    stack[i].via = "request" /\ Implemented(stack[i].name) => stack[i].by = "class"

(* Sandbox code that uses a declared member runs the program's code if one *)
(* of its classes redefines it, whatever else the list held and however    *)
(* deep the calls are; a private method of the class is never replaced.    *)
AccessIsVirtual ==
  \A i \in DOMAIN stack : stack[i].via = "access" =>
    LET n == stack[i].name IN
      /\ Declared(n) => (stack[i].by = "native" <=> Redefined(n))
      /\ ~ Declared(n) /\ Implemented(n) /\ class[n].kind = "method"
           => stack[i].by = "class"

(* The assertion kernel.ts:473 makes of the lists it is sent: no member    *)
(* is overridden twice.                                                    *)
NoDuplicates == \A o \in Overridden : todo[o] <= 1

(* kernel.ts:534 "save the old property ... so that property overrides can *)
(* still access it via super": what the class implements is what a request *)
(* of an override reads.                                                   *)
SuperPropertyIsSaved ==
  \A n \in Names : Implemented(n) => saved[n] # "blank"

(* kernel.ts:507 and 585: what the class has and the assembly does not     *)
(* declare is private to it, and never replaced.                           *)
PrivatesAreSkipped ==
  \A n \in Names : ~ Declared(n) /\ Implemented(n) => own[n] \notin Callback
=============================================================================
