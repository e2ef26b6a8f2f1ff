-------------------------- MODULE Overrides_proofs --------------------------
(***************************************************************************)
(* Proofs about overrides, for any classes and members, any list a client  *)
(* library may send, and calls nested to any depth.                        *)
(***************************************************************************)
EXTENDS Overrides, SequenceLemmas, FiniteSetTheorems

IsCallback(n) == own[n] \in Callback

(* The list holds members that native classes define.  Until it is dealt   *)
(* with, a member they redefine is a callback, or the list names it still, *)
(* as a method or as a property.                                           *)
ListInv ==
  /\ \A o \in Overridden : todo[o] > 0 => Defining(o) # {}
  /\ phase \in {"apply", "created"} =>
       \A n \in Names : Redefined(n) =>
         IsCallback(n) \/ \E k \in Kinds : todo[Override(k, n)] > 0
  /\ phase = "created" => \A o \in Overridden : todo[o] = 0

(* Only what a native class redefines becomes a callback, and of what is   *)
(* private to the class no method.                                         *)
CallbackInv ==
  /\ phase = "discover" => \A n \in Names : ~ IsCallback(n)
  /\ \A n \in Names : Declared(n) /\ IsCallback(n) => Redefined(n)
  /\ \A n \in Names : ~ Declared(n) /\ Implemented(n) /\ class[n].kind = "method"
       => ~ IsCallback(n)

(* Calls happen on an object that does not change any more. *)
StackInv ==
  /\ stack # << >> => phase = "created"
  /\ \A i \in DOMAIN stack : stack[i].via = "access" =>
       (stack[i].by = "native" <=> IsCallback(stack[i].name))

Inv ==
  /\ TypeOK
  /\ ListInv
  /\ CallbackInv
  /\ StackInv
  /\ SuperNeverBounces

-----------------------------------------------------------------------------
LEMMA MemberKinds ==
  ASSUME TypeOK, NEW n \in Names
  PROVE  /\ class[n] \in Members
         /\ class[n].kind \in Kinds /\ class[n].declared \in BOOLEAN
         /\ class[n].kind = "method" => class[n].at # "own"
         /\ \A k \in Kinds : /\ Override(k, n) \in Overridden
                              /\ Override(k, n).kind = k /\ Override(k, n).name = n
<1>1. class[n] \in Members
  BY DEF TypeOK
<1> QED BY <1>1 DEF Members, Kinds, Override, Overridden

LEMMA InitInv == Init => Inv
<1> SUFFICES ASSUME Init PROVE Inv
  OBVIOUS
<1>1. stack = << >> /\ stack \in Seq(Frames) /\ DOMAIN stack = {}
  BY EmptySeq, LenProperties DEF Init
<1>2. TypeOK
  BY <1>1, ClassesAssumption, NativesAssumption DEF Init, TypeOK
<1>3. \A n \in Names : ~ IsCallback(n)
  BY DEF Init, IsCallback, Callback
<1>4. ListInv
  BY DEF Init, ListInv
<1>5. CallbackInv
  BY <1>3 DEF CallbackInv
<1>6. StackInv /\ SuperNeverBounces
  BY <1>1 DEF StackInv, SuperNeverBounces
<1> QED BY <1>2, <1>4, <1>5, <1>6 DEF Inv

-----------------------------------------------------------------------------
(* What the client libraries send. *)

LEMMA NativeLevels ==
  ASSUME TypeOK
  PROVE  Levels = 1 .. Len(native) /\ Len(native) \in Nat
BY LenProperties DEF TypeOK, Levels

(* Java: what is sent for a name that native classes define is what the    *)
(* most derived of them defines.                                           *)
LEMMA JavaListed ==
  ASSUME TypeOK, NEW choice \in JavaChoices, todo' = JavaBag(choice)
  PROVE  /\ todo' \in [Overridden -> Nat]
         /\ \A o \in Overridden : todo'[o] > 0 => Defining(o) # {}
         /\ \A n \in Names : Redefined(n) => \E k \in Kinds : todo'[Override(k, n)] > 0
<1>1. todo' = [o \in Overridden |-> IF Defining(o) # {} /\ choice[o.name] = o.kind THEN 1 ELSE 0]
  BY DEF JavaBag
<1>2. ASSUME NEW n \in Names, Redefined(n)
      PROVE  \E k \in Kinds : todo'[Override(k, n)] > 0
  <2> DEFINE T == {l \in Levels : HasName(l, n)}
  <2>1. T \subseteq 0 .. Len(native) /\ Len(native) \in Nat
    BY NativeLevels
  <2>2. T # {}
    <3>1. PICK l \in Levels : Override(class[n].kind, n) \in native[l]
      BY <1>2 DEF Redefined, Defining
    <3>2. Override(class[n].kind, n).name = n
      BY DEF Override
    <3> QED BY <3>1, <3>2 DEF HasName
  <2>3. \E l \in T : \A m \in T : m <= l
    BY <2>1, <2>2, GreatestNumber
  <2>4. MostDerived(n) \in Levels
    BY <2>3 DEF MostDerived
  <2>5. choice[n] \in Kinds /\ Override(choice[n], n) \in native[MostDerived(n)]
    BY <2>2 DEF JavaChoices
  <2>6. Defining(Override(choice[n], n)) # {}
    BY <2>4, <2>5 DEF Defining
  <2>7. /\ Override(choice[n], n) \in Overridden
        /\ Override(choice[n], n).name = n /\ Override(choice[n], n).kind = choice[n]
    BY <2>5, MemberKinds
  <2>8. todo'[Override(choice[n], n)] = 1
    BY <1>1, <2>6, <2>7
  <2> QED BY <2>5, <2>8
<1> QED BY <1>1, <1>2

LEMMA DotnetListed ==
  ASSUME TypeOK, todo' = DotnetBag
  PROVE  /\ todo' \in [Overridden -> Nat]
         /\ \A o \in Overridden : todo'[o] > 0 => Defining(o) # {}
         /\ \A n \in Names : Redefined(n) => \E k \in Kinds : todo'[Override(k, n)] > 0
<1>1. todo' = [o \in Overridden |-> IF IsMember(o) /\ Defining(o) # {} THEN 1 ELSE 0]
  BY DEF DotnetBag
<1>2. ASSUME NEW n \in Names, Redefined(n)
      PROVE  \E k \in Kinds : todo'[Override(k, n)] > 0
  <2> DEFINE o == Override(class[n].kind, n)
  <2>1. class[n].kind \in Kinds /\ o \in Overridden /\ o.name = n /\ o.kind = class[n].kind
    BY MemberKinds
  <2>2. IsMember(o) /\ Defining(o) # {}
    BY <1>2, <2>1 DEF Redefined, IsMember
  <2>3. todo'[o] = 1
    BY <1>1, <2>1, <2>2
  <2> QED BY <2>1, <2>3
<1> QED BY <1>1, <1>2

LEMMA Product ==
  ASSUME NEW a \in Nat, NEW b \in Nat
  PROVE  a * b \in Nat /\ (a * b > 0 <=> a > 0 /\ b > 0)
OBVIOUS

LEMMA PythonListed ==
  ASSUME TypeOK, todo' = PythonBag
  PROVE  /\ todo' \in [Overridden -> Nat]
         /\ \A o \in Overridden : todo'[o] > 0 => Defining(o) # {}
         /\ \A n \in Names : Redefined(n) => \E k \in Kinds : todo'[Override(k, n)] > 0
<1>1. todo' = [o \in Overridden |-> Cardinality(Defining(o)) * JsiiClasses(o)]
  BY DEF PythonBag
<1>2. ASSUME NEW o \in Overridden
      PROVE  /\ Cardinality(Defining(o)) \in Nat
             /\ Cardinality(Defining(o)) > 0 <=> Defining(o) # {}
  <2>1. Defining(o) \subseteq 1 .. Len(native) /\ Len(native) \in Nat
    BY NativeLevels DEF Defining
  <2>2. IsFiniteSet(Defining(o))
    <3>1. Defining(o) \in SUBSET Nat /\ \A l \in Defining(o) : l <= Len(native)
      BY <2>1
    <3> QED BY <2>1, <3>1, FS_BoundedSetOfNaturals
  <2> QED BY <2>2, FS_CardinalityType, FS_EmptySet
<1>3. ASSUME NEW o \in Overridden
      PROVE  JsiiClasses(o) \in Nat /\ (IsMember(o) => JsiiClasses(o) > 0)
  <2> DEFINE declared    == IF IsMember(o) THEN 1 ELSE 0
             interfaces  == IF IsMember(o) /\ o.name \in inIface THEN Len(native) + 1 ELSE 0
             implemented == IF o \in natIface THEN Len(native) ELSE 0
  <2>1. declared \in Nat /\ (IsMember(o) => declared = 1)
    OBVIOUS
  <2>2. interfaces \in Nat /\ implemented \in Nat
    BY NativeLevels
  <2>3. JsiiClasses(o) = declared + interfaces + implemented
    BY DEF JsiiClasses
  <2> HIDE DEF declared, interfaces, implemented
  <2> QED BY <2>1, <2>2, <2>3
<1>4. \A o \in Overridden : todo'[o] = Cardinality(Defining(o)) * JsiiClasses(o)
  BY <1>1
<1>5. \A o \in Overridden :
        /\ todo'[o] \in Nat
        /\ todo'[o] > 0 <=> Defining(o) # {} /\ JsiiClasses(o) > 0
  <2> SUFFICES ASSUME NEW o \in Overridden
               PROVE  /\ todo'[o] \in Nat
                      /\ todo'[o] > 0 <=> Defining(o) # {} /\ JsiiClasses(o) > 0
    OBVIOUS
  <2> QED BY <1>2, <1>3, <1>4, Product
<1>6. ASSUME NEW n \in Names, Redefined(n)
      PROVE  \E k \in Kinds : todo'[Override(k, n)] > 0
  <2> DEFINE o == Override(class[n].kind, n)
  <2>1. class[n].kind \in Kinds /\ o \in Overridden /\ o.name = n /\ o.kind = class[n].kind
    BY MemberKinds
  <2>2. IsMember(o) /\ Defining(o) # {}
    BY <1>6, <2>1 DEF Redefined, IsMember
  <2>3. todo'[o] > 0
    BY <1>3, <1>5, <2>1, <2>2
  <2> QED BY <2>1, <2>3
<1>7. todo' \in [Overridden -> Nat]
  BY <1>1, <1>4, <1>5
<1> QED BY <1>5, <1>6, <1>7

LEMMA DiscoverInv ==
  ASSUME Inv, Discover
  PROVE  Inv'
<1>1. /\ TypeOK /\ lang \in {"java", "dotnet", "python"}
      /\ phase = "discover" /\ phase' = "apply"
      /\ UNCHANGED <<lang, class, inIface, natIface, native, methods, properties, own, saved, stack>>
  BY LangsAssumption DEF Discover, Inv, TypeOK, classVars, objectVars
<1>2. /\ todo' \in [Overridden -> Nat]
      /\ \A o \in Overridden : todo'[o] > 0 => Defining(o) # {}
      /\ \A n \in Names : Redefined(n) => \E k \in Kinds : todo'[Override(k, n)] > 0
  <2>1. CASE lang = "java"
    <3>1. PICK choice \in JavaChoices : todo' = JavaBag(choice)
      BY <2>1 DEF Discover
    <3> QED BY <1>1, <3>1, JavaListed
  <2>2. CASE lang = "dotnet"
    <3>1. todo' = DotnetBag
      BY <2>2 DEF Discover
    <3> QED BY <1>1, <3>1, DotnetListed
  <2>3. CASE lang = "python"
    <3>1. todo' = PythonBag
      BY <2>3 DEF Discover
    <3> QED BY <1>1, <3>1, PythonListed
  <2> QED BY <1>1, <2>1, <2>2, <2>3
<1>3. TypeOK'
  BY <1>1, <1>2 DEF TypeOK
<1>4. ListInv'
  BY <1>1, <1>2 DEF ListInv, Defining, Levels, Redefined, Declared
<1>5. CallbackInv'
  BY <1>1 DEF Inv, CallbackInv, IsCallback, Redefined, Declared, Implemented, Defining, Levels
<1>6. StackInv' /\ SuperNeverBounces'
  BY <1>1 DEF Inv, StackInv, SuperNeverBounces, IsCallback, Implemented
<1> QED BY <1>3, <1>4, <1>5, <1>6 DEF Inv

-----------------------------------------------------------------------------
(* The override loop. *)

(* An override that is applied: its name becomes a callback, or is left    *)
(* alone, or the request is refused.                                       *)
LEMMA ApplyInv ==
  ASSUME Inv, NEW n \in Names, NEW k \in Kinds, Take(Override(k, n)),
         methods' \subseteq Names, properties' \subseteq Names,
         saved' \in [Names -> {"none", "value", "blank"}],
         UNCHANGED <<classVars, stack>>,
         \/ phase' = "failed" /\ own' = own
         \/ phase' = phase /\ own' = own /\ ~ Declared(n)
         \/ /\ phase' = phase /\ own' = [own EXCEPT ![n] = k]
            /\ Declared(n) => class[n].kind = k
            /\ ~ (~ Declared(n) /\ Implemented(n) /\ class[n].kind = "method")
  PROVE  Inv'
<1> DEFINE o == Override(k, n)
<1>1. /\ TypeOK /\ phase = "apply" /\ todo[o] > 0 /\ todo[o] \in Nat /\ o \in Overridden
      /\ todo' = [todo EXCEPT ![o] = @ - 1]
      /\ UNCHANGED <<lang, class, inIface, natIface, native, stack>>
      /\ stack = << >>
  BY MemberKinds DEF Inv, TypeOK, Take, classVars, StackInv
<1>2. \A p \in Overridden : /\ todo'[p] = IF p = o THEN todo[o] - 1 ELSE todo[p]
                            /\ todo'[p] \in Nat
                            /\ todo'[p] > 0 => todo[p] > 0
                            /\ p # o => todo'[p] = todo[p]
  BY <1>1 DEF TypeOK
<1>3. /\ own' \in [Names -> {"none", "value", "method", "property"}]
      /\ \A p \in Names : p # n => own'[p] = own[p]
      /\ own'[n] \in {own[n], k}
      /\ phase' \in {"apply", "failed"}
  BY <1>1 DEF TypeOK, Kinds
<1>4. TypeOK'
  <2>1. todo' \in [Overridden -> Nat]
    BY <1>1, <1>2 DEF TypeOK
  <2> QED BY <1>1, <1>3, <2>1 DEF TypeOK
<1>5. \A p \in Names : IsCallback(p) => IsCallback(p)'
  <2> SUFFICES ASSUME NEW p \in Names, IsCallback(p) PROVE own'[p] \in Callback
    BY DEF IsCallback
  <2>1. own[p] \in Callback /\ k \in Callback
    BY DEF IsCallback, Kinds, Callback
  <2> QED BY <1>3, <2>1
<1>6. \A p \in Names : Defining(Override(class[p].kind, p))' = Defining(Override(class[p].kind, p))
  BY <1>1 DEF Defining, Levels
<1>7. \A p \in Names : (Redefined(p))' <=> Redefined(p)
  BY <1>1 DEF Redefined, Declared, Defining, Levels
<1>8. ListInv'
  <2>1. \A p \in Overridden : todo'[p] > 0 => Defining(p)' # {}
    BY <1>1, <1>2 DEF Inv, ListInv, Defining, Levels
  <2>2. ASSUME phase' = "apply", NEW p \in Names, Redefined(p)
        PROVE  IsCallback(p)' \/ \E j \in Kinds : todo'[Override(j, p)] > 0
    <3>1. IsCallback(p) \/ \E j \in Kinds : todo[Override(j, p)] > 0
      BY <1>1, <2>2 DEF Inv, ListInv
    <3>2. CASE p # n
      <4>1. \A j \in Kinds : Override(j, p) \in Overridden /\ Override(j, p) # o
        BY <1>1, <3>2, MemberKinds
      <4> QED BY <1>2, <1>5, <3>1, <4>1
    <3>3. CASE p = n
      <4>1. Declared(n)
        BY <2>2, <3>3 DEF Redefined
      <4>2. own'[n] = k
        BY <1>1, <2>2, <4>1 DEF TypeOK
      <4> QED BY <3>3, <4>2 DEF IsCallback, Callback, Kinds
    <3> QED BY <3>2, <3>3
  <2> QED BY <1>3, <1>7, <2>1, <2>2 DEF ListInv
<1>9. CallbackInv'
  <2>1. ASSUME NEW p \in Names, Declared(p), IsCallback(p)' PROVE Redefined(p)
    <3>1. CASE IsCallback(p)
      BY <2>1, <3>1 DEF Inv, CallbackInv
    <3>2. CASE ~ IsCallback(p)
      <4>1. p = n /\ own'[n] # own[n]
        BY <1>3, <2>1, <3>2 DEF IsCallback
      <4>2. class[n].kind = k /\ Declared(n)
        BY <2>1, <4>1
      <4>3. Defining(o) # {}
        BY <1>1 DEF Inv, ListInv
      <4> QED BY <4>1, <4>2, <4>3 DEF Redefined
    <3> QED BY <3>1, <3>2
  <2>2. ASSUME NEW p \in Names, ~ Declared(p), Implemented(p), class[p].kind = "method"
        PROVE  ~ IsCallback(p)'
    <3>1. ~ IsCallback(p)
      BY <2>2 DEF Inv, CallbackInv
    <3>2. own'[p] = own[p]
      BY <1>3, <2>2
    <3> QED BY <3>1, <3>2 DEF IsCallback
  <2>3. \A p \in Names : /\ (Declared(p))' <=> Declared(p)
                         /\ (Implemented(p))' <=> Implemented(p)
    BY <1>1 DEF Declared, Implemented
  <2> QED BY <1>1, <1>3, <1>7, <2>1, <2>2, <2>3 DEF CallbackInv
<1>10. StackInv' /\ SuperNeverBounces'
  BY <1>1 DEF StackInv, SuperNeverBounces
<1> QED BY <1>4, <1>8, <1>9, <1>10 DEF Inv

LEMMA ApplyMethodInv ==
  ASSUME Inv, NEW n \in Names, ApplyMethod(n)
  PROVE  Inv'
<1>1. /\ Take(Override("method", n)) /\ "method" \in Kinds /\ phase = "apply"
      /\ methods' = methods \cup {n} /\ UNCHANGED <<classVars, properties, stack>>
      /\ TypeOK /\ methods \subseteq Names /\ properties \subseteq Names
  BY DEF ApplyMethod, Take, Kinds, Inv, TypeOK
<1>2. class[n].kind \in {"method", "property"} /\ class[n].declared \in BOOLEAN
  BY <1>1, MemberKinds DEF Kinds
<1> DEFINE ok == n \notin methods /\ ~ (Declared(n) /\ class[n].kind = "property")
<1>3. PICK truthy \in Truth(n) :
        \/ ~ ok /\ Refused
        \/ ok /\ ~ Declared(n) /\ truthy /\ Skipped
        \/ ok /\ (Declared(n) \/ ~ truthy) /\ Replace(n, "method") /\ UNCHANGED saved
  BY DEF ApplyMethod
<1>4. Implemented(n) /\ class[n].kind = "method" => truthy
  BY DEF Truth
<1>5. saved' = saved /\ saved \in [Names -> {"none", "value", "blank"}]
  BY <1>1, <1>3 DEF Refused, Skipped, TypeOK
<1>6. \/ phase' = "failed" /\ own' = own
      \/ phase' = phase /\ own' = own /\ ~ Declared(n)
      \/ /\ phase' = phase /\ own' = [own EXCEPT ![n] = "method"]
         /\ Declared(n) => class[n].kind = "method"
         /\ ~ (~ Declared(n) /\ Implemented(n) /\ class[n].kind = "method")
  BY <1>2, <1>3, <1>4 DEF Refused, Skipped, Replace
<1>7. methods' \subseteq Names /\ properties' \subseteq Names
  BY <1>1
<1> QED BY <1>1, <1>5, <1>6, <1>7, ApplyInv

LEMMA ApplyPropertyInv ==
  ASSUME Inv, NEW n \in Names, ApplyProperty(n)
  PROVE  Inv'
<1>1. /\ Take(Override("property", n)) /\ "property" \in Kinds
      /\ properties' = properties \cup {n} /\ UNCHANGED <<classVars, methods, stack>>
      /\ TypeOK /\ methods \subseteq Names /\ properties \subseteq Names
  BY DEF ApplyProperty, Take, Kinds, Inv, TypeOK
<1>2. class[n].kind \in {"method", "property"} /\ class[n].declared \in BOOLEAN
  BY <1>1, MemberKinds DEF Kinds
<1>3. saved \in [Names -> {"none", "value", "blank"}]
  BY <1>1 DEF TypeOK
<1>4. saved' \in [Names -> {"none", "value", "blank"}]
  BY <1>3 DEF ApplyProperty, Refused, Skipped
<1>5. \/ phase' = "failed" /\ own' = own
      \/ phase' = phase /\ own' = own /\ ~ Declared(n)
      \/ /\ phase' = phase /\ own' = [own EXCEPT ![n] = "property"]
         /\ Declared(n) => class[n].kind = "property"
         /\ ~ (~ Declared(n) /\ Implemented(n) /\ class[n].kind = "method")
  BY <1>2 DEF ApplyProperty, Refused, Skipped, Replace
<1>6. methods' \subseteq Names /\ properties' \subseteq Names
  BY <1>1
<1> QED BY <1>1, <1>4, <1>5, <1>6, ApplyInv

LEMMA CreateReturnsInv ==
  ASSUME Inv, CreateReturns
  PROVE  Inv'
<1>1. /\ phase = "apply" /\ phase' = "created" /\ \A o \in Overridden : todo[o] = 0
      /\ UNCHANGED <<lang, class, inIface, natIface, native, todo, methods, properties,
                     own, saved, stack>>
  BY DEF CreateReturns, classVars, objectVars
<1>2. TypeOK'
  BY <1>1 DEF Inv, TypeOK
<1>3. ListInv'
  BY <1>1 DEF Inv, ListInv, Redefined, Declared, Defining, Levels, IsCallback
<1>4. CallbackInv'
  BY <1>1 DEF Inv, CallbackInv, IsCallback, Redefined, Declared, Implemented, Defining, Levels
<1>5. StackInv' /\ SuperNeverBounces'
  BY <1>1 DEF Inv, StackInv, SuperNeverBounces, IsCallback, Implemented
<1> QED BY <1>2, <1>3, <1>4, <1>5 DEF Inv

-----------------------------------------------------------------------------
(* Calls. *)

LEMMA EnterInv ==
  ASSUME Inv, phase = "created", NEW n \in Names, NEW side \in {"class", "native"},
         NEW via \in {"request", "access"}, Enter(side, n, via),
         via = "request" /\ Implemented(n) => side = "class",
         via = "access" => (side = "native" <=> IsCallback(n))
  PROVE  Inv'
<1> DEFINE f == Frame(side, n, via)
<1>1. /\ TypeOK /\ stack \in Seq(Frames) /\ stack' = Append(stack, f)
      /\ f \in Frames /\ f.by = side /\ f.name = n /\ f.via = via
      /\ UNCHANGED <<lang, class, inIface, natIface, native, phase, todo, methods, properties,
                     own, saved>>
  BY DEF Enter, Frame, Frames, Inv, TypeOK, classVars, objectVars
<1> HIDE DEF f
<1>2. /\ stack' \in Seq(Frames)
      /\ Len(stack) \in Nat /\ DOMAIN stack = 1 .. Len(stack)
      /\ DOMAIN stack' = 1 .. Len(stack) + 1
      /\ stack'[Len(stack) + 1] = f
      /\ \A i \in 1 .. Len(stack) : stack'[i] = stack[i]
  BY <1>1, Appended, LenProperties
<1>3. TypeOK'
  BY <1>1, <1>2 DEF TypeOK
<1>4. ListInv' /\ CallbackInv'
  BY <1>1 DEF Inv, ListInv, CallbackInv, IsCallback, Redefined, Declared, Implemented, Defining, Levels
<1>5. \A i \in DOMAIN stack' : (i \in DOMAIN stack /\ stack'[i] = stack[i]) \/ stack'[i] = f
  BY <1>2
<1>6. StackInv'
  BY <1>1, <1>5 DEF Inv, StackInv, IsCallback
<1>7. SuperNeverBounces'
  BY <1>1, <1>5 DEF Inv, SuperNeverBounces, Implemented
<1> QED BY <1>3, <1>4, <1>6, <1>7 DEF Inv

LEMMA RequestInv ==
  ASSUME Inv, NEW n \in Names, Request(n)
  PROVE  Inv'
<1>1. own[n] \in {"none", "value", "method", "property"} /\ saved[n] \in {"none", "value", "blank"}
  BY DEF Inv, TypeOK
<1>2. Implemented(n) => Target(n) # "native"
  BY <1>1 DEF Target, InvokeTarget, GetTarget
<1> DEFINE side == Target(n)
<1>3. side \in {"class", "native"} /\ Enter(side, n, "request") /\ phase = "created"
  BY DEF Request, Runs
<1> HIDE DEF side
<1>4. Implemented(n) => side = "class"
  BY <1>2, <1>3 DEF side
<1> QED BY <1>3, <1>4, EnterInv

LEMMA AccessInv ==
  ASSUME Inv, NEW n \in Names, Access(n)
  PROVE  Inv'
<1>1. CASE own[n] \in Callback /\ Enter("native", n, "access")
  BY <1>1, EnterInv DEF Access, Runs, IsCallback
<1>2. CASE own[n] = "none" /\ Enter("class", n, "access")
  BY <1>2, EnterInv DEF Access, Runs, IsCallback, Callback
<1> QED BY <1>1, <1>2 DEF Access

LEMMA ReturnInv ==
  ASSUME Inv, Return
  PROVE  Inv'
<1>1. /\ TypeOK /\ stack \in Seq(Frames) /\ stack # << >> /\ stack' = Front(stack)
      /\ UNCHANGED <<lang, class, inIface, natIface, native, phase, todo, methods, properties,
                     own, saved>>
  BY DEF Return, Inv, TypeOK, classVars, objectVars
<1>2. /\ stack' \in Seq(Frames)
      /\ \A i \in DOMAIN stack' : i \in DOMAIN stack /\ stack'[i] = stack[i]
  <2>1. /\ Front(stack) \in Seq(Frames) /\ Len(Front(stack)) = Len(stack) - 1
        /\ \A i \in 1 .. Len(stack) - 1 : Front(stack)[i] = stack[i]
    BY <1>1, FrontLast
  <2>2. DOMAIN Front(stack) = 1 .. Len(stack) - 1 /\ DOMAIN stack = 1 .. Len(stack)
    BY <1>1, <2>1, LenProperties
  <2>3. Len(stack) \in Nat
    BY <1>1, LenProperties
  <2> QED BY <1>1, <2>1, <2>2, <2>3
<1>3. TypeOK'
  BY <1>1, <1>2 DEF TypeOK
<1>4. ListInv' /\ CallbackInv'
  BY <1>1 DEF Inv, ListInv, CallbackInv, IsCallback, Redefined, Declared, Implemented, Defining, Levels
<1>5. StackInv'
  BY <1>1, <1>2 DEF Inv, StackInv, IsCallback
<1>6. SuperNeverBounces'
  BY <1>1, <1>2 DEF Inv, SuperNeverBounces, Implemented
<1> QED BY <1>3, <1>4, <1>5, <1>6 DEF Inv

-----------------------------------------------------------------------------
LEMMA NextInv == Inv /\ [Next]_vars => Inv'
<1> SUFFICES ASSUME Inv, [Next]_vars PROVE Inv'
  OBVIOUS
<1>1. CASE UNCHANGED vars
  BY <1>1 DEF vars, classVars, objectVars, Inv, TypeOK, ListInv, CallbackInv, StackInv,
              SuperNeverBounces, IsCallback, Redefined, Declared, Implemented, Defining, Levels
<1>2. CASE Next
  BY <1>2, DiscoverInv, ApplyMethodInv, ApplyPropertyInv, CreateReturnsInv,
     RequestInv, AccessInv, ReturnInv DEF Next
<1> QED BY <1>1, <1>2

LEMMA Invariance == Spec => []Inv
BY InitInv, NextInv, PTL DEF Spec

(* Every variable has its type. *)
THEOREM OverrideTypesHold == Spec => []TypeOK
<1>1. Inv => TypeOK
  BY DEF Inv
<1> QED BY <1>1, Invariance, PTL

(* An override that calls super does not find itself. *)
THEOREM SuperReachesTheClass == Spec => []SuperNeverBounces
<1>1. Inv => SuperNeverBounces
  BY DEF Inv
<1> QED BY <1>1, Invariance, PTL

(* Sandbox code reaches the program's code for what is redefined, and for  *)
(* nothing else.                                                           *)
THEOREM AccessesAreVirtual == Spec => []AccessIsVirtual
<1>1. Inv => AccessIsVirtual
  <2> SUFFICES ASSUME Inv, NEW i \in DOMAIN stack, stack[i].via = "access"
               PROVE  LET n == stack[i].name IN
                        /\ Declared(n) => (stack[i].by = "native" <=> Redefined(n))
                        /\ ~ Declared(n) /\ Implemented(n) /\ class[n].kind = "method"
                             => stack[i].by = "class"
    BY DEF AccessIsVirtual
  <2> DEFINE n == stack[i].name
  <2>1. /\ stack # << >> /\ stack[i] \in Frames /\ n \in Names
        /\ stack[i].by \in {"class", "native"}
    <3>1. stack \in Seq(Frames) /\ i \in 1 .. Len(stack)
      BY LenProperties DEF Inv, TypeOK
    <3>2. stack[i] \in Frames
      BY <3>1, ElementOfSeq
    <3> QED BY <3>1, <3>2 DEF Frames
  <2>2. phase = "created" /\ (stack[i].by = "native" <=> IsCallback(n))
    BY <2>1 DEF Inv, StackInv
  <2>3. Redefined(n) => IsCallback(n)
    <3>1. \A k \in Kinds : todo[Override(k, n)] = 0
      BY <2>1, <2>2, MemberKinds DEF Inv, ListInv
    <3> QED BY <2>1, <2>2, <3>1 DEF Inv, ListInv
  <2>4. Declared(n) /\ IsCallback(n) => Redefined(n)
    BY <2>1 DEF Inv, CallbackInv
  <2>5. ~ Declared(n) /\ Implemented(n) /\ class[n].kind = "method" => ~ IsCallback(n)
    BY <2>1 DEF Inv, CallbackInv
  <2> QED BY <2>1, <2>2, <2>3, <2>4, <2>5
<1> QED BY <1>1, Invariance, PTL
=============================================================================
