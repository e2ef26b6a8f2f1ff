--------------------------- MODULE Compiler_proofs ---------------------------
(***************************************************************************)
(* Proofs about one run of the compiler: what its exit code tells, that    *)
(* deferred checks without cycles are all invoked, and that the compiler   *)
(* keeps the promise of Compilation.                                       *)
(***************************************************************************)
EXTENDS Compiler, SequenceLemmas

(* The assembly file, what emit returned and the exit code follow the      *)
(* phase that emit ended in.                                               *)
OutcomeInv ==
  /\ phase = "emitted" => file = "this"
  /\ status # "compiling" => phase \in {"emitted", "skipped", "thrown"}
  /\ phase = "skipped" => Errors(diags) # {}
  /\ exit = "success" => phase \in {"emitted", "thrown"}

LEMMA InitOutcome == Init => OutcomeInv
BY DEF Init, OutcomeInv, AssemblerInit, CompilationInit

LEMMA VisitOutcome ==
  ASSUME OutcomeInv, NEW f, VisitHeritage(f) \/ VisitMembers(f), UNCHANGED <<status, assembly, file, exit>>
  PROVE  OutcomeInv'
BY DEF OutcomeInv, VisitHeritage, VisitMembers, Errors

LEMMA DeferredsOutcome ==
  ASSUME OutcomeInv, StartPass \/ Invoke \/ SkipDependent \/ EndPass \/ DeferredsDone,
         UNCHANGED <<status, assembly, file, exit>>
  PROVE  OutcomeInv'
BY DEF OutcomeInv, StartPass, Invoke, SkipDependent, EndPass, DeferredsDone, Errors

LEMMA AssembleOutcome == OutcomeInv /\ Assemble => OutcomeInv'
<1> SUFFICES ASSUME OutcomeInv, Assemble PROVE OutcomeInv'
  OBVIOUS
<1>1. UNCHANGED <<status, assembly, file, exit>>
  BY DEF Assemble
<1>2. CASE \E f \in Listed : VisitHeritage(f) \/ VisitMembers(f)
  BY <1>1, <1>2, VisitOutcome
<1>3. CASE AllVisited
  BY <1>1, <1>3 DEF OutcomeInv, AllVisited, Errors
<1>4. CASE StartPass \/ Invoke \/ SkipDependent \/ EndPass \/ DeferredsDone
  BY <1>1, <1>4, DeferredsOutcome
<1> QED BY <1>2, <1>3, <1>4 DEF Assemble, AssemblerNext

LEMMA EmitOutcome == OutcomeInv /\ Emit => OutcomeInv'
<1> SUFFICES ASSUME OutcomeInv, Emit PROVE OutcomeInv'
  OBVIOUS
<1> DEFINE found == IF Errors(diags) = {} THEN ValidationErrors(types) ELSE {}
           late  == IF Errors(diags) = {} THEN ErrorIf(ClosureConflicts, "conflicting dependencies") ELSE {}
<1>1. /\ phase = "assembled" /\ UNCHANGED exit
      /\ diags' = (diags \cup found) \cup late
      /\ IF Errors(diags \cup found) = {}
         THEN phase' = "emitted" /\ status' = "accepted" /\ file' = "this"
         ELSE phase' = "skipped" /\ status' = "rejected" /\ UNCHANGED file
  BY DEF Emit
<1> HIDE DEF found, late
<1>2. Errors(diags \cup found) # {} => Errors((diags \cup found) \cup late) # {}
  BY DEF Errors
<1>3. exit # "success"
  BY <1>1 DEF OutcomeInv
<1> QED BY <1>1, <1>2, <1>3 DEF OutcomeInv, Errors

LEMMA StepOutcome == OutcomeInv /\ [Next]_compilerVars => OutcomeInv'
<1> SUFFICES ASSUME OutcomeInv, [Next]_compilerVars PROVE OutcomeInv'
  OBVIOUS
<1>1. CASE LoadProjectInfo
  BY <1>1 DEF OutcomeInv, LoadProjectInfo, Fail, assemblingVars, Errors
<1>2. CASE WriteTypeScriptConfig
  BY <1>2 DEF OutcomeInv, WriteTypeScriptConfig, Fail, assemblingVars, Errors
<1>3. CASE Assemble
  BY <1>3, AssembleOutcome
<1>4. CASE Emit
  BY <1>4, EmitOutcome
<1>5. CASE Catch
  BY <1>5 DEF OutcomeInv, Catch, assemblerVars, Errors
<1>6. ASSUME NEW tsErrors \in BOOLEAN, NEW failOnWarnings \in BOOLEAN, Exit(tsErrors, failOnWarnings)
      PROVE  OutcomeInv'
  BY <1>6 DEF OutcomeInv, Exit, assemblerVars, Errors
<1>7. CASE UNCHANGED compilerVars
  BY <1>7 DEF OutcomeInv, compilerVars, assemblerVars, Errors
<1> QED BY <1>1, <1>2, <1>3, <1>4, <1>5, <1>6, <1>7 DEF Next

(* A process that exits with success wrote the assembly, or its assembler  *)
(* threw an exception that was only logged.                                *)
THEOREM ExitCodeTells == Spec => []ExitTells
<1>1. OutcomeInv => ExitTells
  BY DEF OutcomeInv, ExitTells
<1> QED BY <1>1, InitOutcome, StepOutcome, PTL DEF Spec

-----------------------------------------------------------------------------
(* A program without cycles: the height of a type is above those of what   *)
(* it extends or implements, through what is erased between them.  Names   *)
(* of methods are no fully qualified names, and what types declare are     *)
(* sequences.                                                              *)
ForeignOrdered(height) ==
  \A f \in DOMAIN Foreign :
    /\ Foreign[f].base # None => Foreign[f].base \in Fqns /\ height[Foreign[f].base] < height[f]
    /\ Foreign[f].interfaces \in Seq(Fqns)
    /\ \A i \in ToSet(Foreign[f].interfaces) : height[i] < height[f]

ProgramOrdered(height) ==
  \A f \in Listed :
    /\ VisibleBases[f] \in Seq(Fqns) /\ \A b \in ToSet(VisibleBases[f]) : height[b] < height[f]
    /\ WithErased(f) \in Seq(DOMAIN program)
    /\ \A d \in ToSet(WithErased(f)) :
         /\ Implemented(d) \in Seq(Fqns)
         /\ program[f].kind = "class" => \A i \in ToSet(Implemented(d)) : height[i] < height[f]
    /\ Methods(f) \in Seq(ToSet(Methods(f)))
    /\ \A m \in ToSet(Methods(f)) :
         /\ m.name \notin Fqns
         /\ LET ps == ToParameters(m.params) IN
              ps # << >> /\ IsNamed(Last(ps).type) => Last(ps).type.fqn \in Fqns

Ordered(height) == ForeignOrdered(height) /\ ProgramOrdered(height)

(* A deferred check waits for types that it refers to, and these are below *)
(* the type it goes by, unless it goes by the name of a method.            *)
Descends(d, height) ==
  /\ DOMAIN d = {"fqn", "deps", "check", "self", "refs", "names"}
  /\ d.refs \in Seq(Fqns) /\ d.deps \subseteq ToSet(d.refs)
  /\ d.check = "lift" => d.fqn \notin Fqns
  /\ d.check # "lift" => d.fqn \in Fqns /\ \A r \in ToSet(d.refs) : height[r] < height[d.fqn]
  /\ d.check = "noIntersection" => d.fqn = d.self

AllDescend(s, height) ==
  s \in Seq(ToSet(s)) /\ \A d \in ToSet(s) : Descends(d, height)

-----------------------------------------------------------------------------
(* Sequences of deferred checks                                            *)
LEMMA NoneDescends == ASSUME NEW height PROVE AllDescend(<< >>, height)
BY DEF AllDescend, ToSet

LEMMA BothDescend ==
  ASSUME NEW height, NEW s, NEW t, AllDescend(s, height), AllDescend(t, height)
  PROVE  AllDescend(s \o t, height)
<1> DEFINE G == ToSet(s) \cup ToSet(t)
<1>1. s \in Seq(G) /\ t \in Seq(G)
  BY DEF AllDescend
<1>2. s \o t \in Seq(G)
  BY <1>1
<1>3. ToSet(s \o t) \subseteq G /\ \A i \in 1 .. Len(s \o t) : (s \o t)[i] \in ToSet(s \o t)
  BY <1>2, Elements
<1>4. s \o t \in Seq(ToSet(s \o t))
  <2> DEFINE u == s \o t
  <2>1. u \in Seq(G) /\ \A i \in 1 .. Len(u) : u[i] \in ToSet(u)
    BY <1>2, <1>3
  <2> HIDE DEF u, G
  <2>2. u \in Seq(ToSet(u))
    BY <2>1
  <2> QED BY <2>2 DEF u
<1>5. \A d \in G : Descends(d, height)
  BY DEF AllDescend
<1> QED BY <1>3, <1>4, <1>5 DEF AllDescend

LEMMA OneFewerDescends ==
  ASSUME NEW height, NEW s, AllDescend(s, height), NEW k \in 1 .. Len(s)
  PROVE  AllDescend(RemoveAt(s, k), height)
<1> DEFINE u == RemoveAt(s, k)
<1>1. s \in Seq(ToSet(s))
  BY DEF AllDescend
<1>2. u \in Seq(ToSet(s))
  BY <1>1, TakenOut
<1> HIDE DEF u
<1>3. ToSet(u) \subseteq ToSet(s) /\ \A i \in 1 .. Len(u) : u[i] \in ToSet(u)
  BY <1>2, Elements
<1>4. u \in Seq(ToSet(u))
  BY <1>2, <1>3
<1>5. AllDescend(u, height)
  BY <1>3, <1>4 DEF AllDescend
<1> QED BY <1>5 DEF u

(* What is deferred at once                                                *)
LEMMA FlatDescends ==
  ASSUME NEW height, NEW S, NEW s \in Seq(S), NEW ss, ss = [i \in DOMAIN s |-> ss[i]],
         \A i \in 1 .. Len(s) : AllDescend(ss[i], height)
  PROVE  AllDescend(FlattenSeq(ss), height)
<1> DEFINE G == UNION {ToSet(ss[i]) : i \in 1 .. Len(s)}
           u == FlattenSeq(ss)
<1>1. Len(s) \in Nat /\ DOMAIN s = 1 .. Len(s)
  BY LenProperties
<1>2. DOMAIN ss = 1 .. Len(s) /\ ss \in Seq({ss[i] : i \in 1 .. Len(s)})
  BY <1>1
<1>3. Len(ss) = Len(s)
  BY <1>1, <1>2, LenProperties
<1>4. ss = << >> \/ Len(s) > 0
  BY <1>1, <1>2, <1>3, EmptySeq
<1>5. ASSUME NEW i \in 1 .. Len(s)
      PROVE  ss[i] \in Seq(G)
  <2>1. ss[i] \in Seq(ToSet(ss[i])) /\ ToSet(ss[i]) \subseteq G
    BY DEF AllDescend
  <2> QED BY <2>1
<1> HIDE DEF G
<1>6. u \in Seq(G)
  BY <1>1, <1>2, <1>3, <1>4, <1>5, Flattened
<1> HIDE DEF u
<1>7. ToSet(u) \subseteq G /\ \A i \in 1 .. Len(u) : u[i] \in ToSet(u)
  BY <1>6, Elements
<1>8. u \in Seq(ToSet(u))
  BY <1>6, <1>7
<1>9. \A d \in G : Descends(d, height)
  BY DEF AllDescend, G
<1>10. AllDescend(u, height)
  BY <1>7, <1>8, <1>9 DEF AllDescend
<1> QED BY <1>10 DEF u

LEMMA DeferredDescends ==
  ASSUME NEW height, NEW fqn, NEW check, NEW self, NEW refs, NEW names,
         refs \in Seq(Fqns),
         check = "lift" => fqn \notin Fqns,
         check # "lift" => fqn \in Fqns /\ \A r \in ToSet(refs) : height[r] < height[fqn],
         check = "noIntersection" => fqn = self
  PROVE  AllDescend(Deferred(fqn, check, self, refs, names), height)
<1> DEFINE d == [fqn |-> fqn, deps |-> ToSet(refs), check |-> check, self |-> self,
                 refs |-> refs, names |-> names]
<1>1. Descends(d, height)
  BY DEF Descends
<1> HIDE DEF d
<1>2. AllDescend(<<d>>, height)
  <2>1. <<d>> \in Seq({d})
    OBVIOUS
  <2>2. ToSet(<<d>>) = {d}
    BY DEF ToSet
  <2> QED BY <1>1, <2>1, <2>2 DEF AllDescend
<1> QED BY <1>2, NoneDescends DEF Deferred, d

-----------------------------------------------------------------------------
(* What each visit defers                                                  *)
LEMMA OneByOneDescends ==
  ASSUME NEW height, NEW f \in Fqns, NEW check, check # "lift", NEW s \in Seq(Fqns),
         \A r \in ToSet(s) : height[r] < height[f]
  PROVE  AllDescend(FlattenSeq([i \in DOMAIN s |-> Deferred(f, check, f, <<s[i]>>, {})]), height)
<1> DEFINE ss == [i \in DOMAIN s |-> Deferred(f, check, f, <<s[i]>>, {})]
<1>1. ASSUME NEW i \in 1 .. Len(s)
      PROVE  AllDescend(ss[i], height)
  <2>1. i \in DOMAIN s /\ s[i] \in Fqns /\ s[i] \in ToSet(s)
    BY Elements
  <2>2. <<s[i]>> \in Seq(Fqns) /\ ToSet(<<s[i]>>) = {s[i]}
    BY <2>1 DEF ToSet
  <2>3. AllDescend(Deferred(f, check, f, <<s[i]>>, {}), height)
    <3>1. \A r \in ToSet(<<s[i]>>) : height[r] < height[f]
      BY <2>1, <2>2
    <3> QED BY <2>2, <3>1, DeferredDescends
  <2> QED BY <2>1, <2>3
<1>2. ss = [i \in DOMAIN s |-> ss[i]]
  OBVIOUS
<1> HIDE DEF ss
<1>3. AllDescend(FlattenSeq(ss), height)
  BY <1>1, <1>2, FlatDescends
<1> QED BY <1>3 DEF ss

LEMMA InterfaceChecksDescend ==
  ASSUME NEW height, NEW f \in Fqns, NEW d, Implemented(d) \in Seq(Fqns),
         \A i \in ToSet(Implemented(d)) : height[i] < height[f]
  PROVE  AllDescend(InterfaceChecks(f, d), height) /\ AllDescend(StructCheck(f, d), height)
<1> DEFINE one == FlattenSeq([i \in DOMAIN Implemented(d) |->
                               Deferred(f, "isInterface", f, <<Implemented(d)[i]>>, {})])
<1>1. AllDescend(one, height)
  BY OneByOneDescends
<1>2. AllDescend(StructCheck(f, d), height)
  BY DeferredDescends DEF StructCheck
<1>3. InterfaceChecks(f, d) = one
  BY DEF InterfaceChecks, FlatMap
<1> HIDE DEF one
<1> QED BY <1>1, <1>2, <1>3

LEMMA ImplementsChecksDescend ==
  ASSUME NEW height, ProgramOrdered(height), NEW f \in Listed, program[f].kind = "class"
  PROVE  AllDescend(ImplementsChecks(f), height)
<1> DEFINE s == WithErased(f)
           clauses == [i \in DOMAIN s |-> InterfaceChecks(f, s[i])]
           structs == [i \in DOMAIN s |-> StructCheck(f, s[i])]
<1>1. f \in Fqns
  BY DEF Listed
<1>2. s \in Seq(DOMAIN program)
  BY DEF ProgramOrdered
<1>3. ASSUME NEW i \in 1 .. Len(s)
      PROVE  AllDescend(clauses[i], height) /\ AllDescend(structs[i], height)
  <2>1. i \in DOMAIN s /\ s[i] \in ToSet(s)
    BY <1>2, Elements
  <2>2. Implemented(s[i]) \in Seq(Fqns) /\ \A j \in ToSet(Implemented(s[i])) : height[j] < height[f]
    BY <2>1 DEF ProgramOrdered
  <2>3. AllDescend(InterfaceChecks(f, s[i]), height) /\ AllDescend(StructCheck(f, s[i]), height)
    BY <1>1, <2>2, InterfaceChecksDescend
  <2> QED BY <2>1, <2>3
<1>4. clauses = [i \in DOMAIN s |-> clauses[i]] /\ structs = [i \in DOMAIN s |-> structs[i]]
  OBVIOUS
<1>5. ImplementsChecks(f) = FlattenSeq(clauses) \o FlattenSeq(structs)
  BY DEF ImplementsChecks, FlatMap
<1> HIDE DEF s, clauses, structs
<1>6. AllDescend(FlattenSeq(clauses), height)
  BY <1>2, <1>3, <1>4, FlatDescends
<1>7. AllDescend(FlattenSeq(structs), height)
  BY <1>2, <1>3, <1>4, FlatDescends
<1> QED BY <1>5, <1>6, <1>7, BothDescend

LEMMA HeritageChecksDescend ==
  ASSUME NEW height, ProgramOrdered(height), NEW f \in Listed
  PROVE  AllDescend(HeritageChecks(f), height)
<1>1. f \in Fqns
  BY DEF Listed
<1>2. VisibleBases[f] \in Seq(Fqns) /\ \A b \in ToSet(VisibleBases[f]) : height[b] < height[f]
  BY DEF ProgramOrdered
<1>3. CASE program[f].kind = "class"
  <2> DEFINE bases == FlattenSeq([i \in DOMAIN VisibleBases[f] |->
                                   Deferred(f, "isClass", f, <<VisibleBases[f][i]>>, {})])
  <2>1. HeritageChecks(f) = bases \o ImplementsChecks(f)
    BY <1>3 DEF HeritageChecks, FlatMap
  <2>2. AllDescend(bases, height)
    BY <1>1, <1>2, OneByOneDescends
  <2> HIDE DEF bases
  <2>3. AllDescend(ImplementsChecks(f), height)
    BY <1>3, ImplementsChecksDescend
  <2> QED BY <2>1, <2>2, <2>3, BothDescend
<1>4. CASE program[f].kind # "class"
  <2>1. HeritageChecks(f) = FlattenSeq([i \in DOMAIN VisibleBases[f] |->
                                         Deferred(f, "isInterface", f, <<VisibleBases[f][i]>>, {})])
    BY <1>4 DEF HeritageChecks, FlatMap
  <2> QED BY <1>1, <1>2, <2>1, OneByOneDescends
<1> QED BY <1>3, <1>4

LEMMA LiftChecksDescend ==
  ASSUME NEW height, ProgramOrdered(height), NEW f \in Listed
  PROVE  AllDescend(LiftChecks(f), height)
<1> DEFINE check(m) ==
             LET ps == ToParameters(m.params) IN
               IF ps # << >> /\ IsNamed(Last(ps).type)
               THEN Deferred(m.name, "lift", f, <<Last(ps).type.fqn>>, {p.name : p \in ToSet(Front(ps))})
               ELSE << >>
           ss == [i \in DOMAIN Methods(f) |-> check(Methods(f)[i])]
<1>1. LiftChecks(f) = FlattenSeq(ss)
  BY DEF LiftChecks, FlatMap
<1>2. Methods(f) \in Seq(ToSet(Methods(f)))
  BY DEF ProgramOrdered
<1>3. ASSUME NEW m \in ToSet(Methods(f))
      PROVE  AllDescend(check(m), height)
  <2> DEFINE ps == ToParameters(m.params)
             type == Last(ps).type
             names == {p.name : p \in ToSet(Front(ps))}
  <2>1. m.name \notin Fqns /\ (ps # << >> /\ IsNamed(type) => type.fqn \in Fqns)
    BY DEF ProgramOrdered
  <2>2. check(m) = IF ps # << >> /\ IsNamed(type)
                   THEN Deferred(m.name, "lift", f, <<type.fqn>>, names) ELSE << >>
    OBVIOUS
  <2> HIDE DEF ps, type, names, check
  <2>3. CASE ps # << >> /\ IsNamed(type)
    <3>1. <<type.fqn>> \in Seq(Fqns)
      BY <2>1, <2>3
    <3>2. AllDescend(Deferred(m.name, "lift", f, <<type.fqn>>, names), height)
      BY <2>1, <3>1, DeferredDescends
    <3> QED BY <2>2, <2>3, <3>2
  <2>4. CASE ~ (ps # << >> /\ IsNamed(type))
    BY <2>2, <2>4, NoneDescends
  <2> QED BY <2>3, <2>4
<1> HIDE DEF check
<1>4. ASSUME NEW i \in 1 .. Len(Methods(f))
      PROVE  AllDescend(ss[i], height)
  <2>1. i \in DOMAIN Methods(f) /\ Methods(f)[i] \in ToSet(Methods(f))
    BY <1>2, Elements
  <2>2. AllDescend(check(Methods(f)[i]), height)
    BY <1>3, <2>1
  <2> QED BY <2>1, <2>2
<1>5. ss = [i \in DOMAIN Methods(f) |-> ss[i]]
  OBVIOUS
<1> HIDE DEF ss
<1>6. AllDescend(FlattenSeq(ss), height)
  BY <1>2, <1>4, <1>5, FlatDescends
<1> QED BY <1>1, <1>6

LEMMA MemberChecksDescend ==
  ASSUME NEW height, ProgramOrdered(height), NEW f \in Listed
  PROVE  AllDescend(MemberChecks(f), height)
<1>1. f \in Fqns
  BY DEF Listed
<1>2. VisibleBases[f] \in Seq(Fqns) /\ \A b \in ToSet(VisibleBases[f]) : height[b] < height[f]
  BY DEF ProgramOrdered
<1>3. \A check \in {"initializer", "staticMixing", "datatype", "noIntersection"} :
        AllDescend(Deferred(f, check, f, VisibleBases[f], {}), height)
  BY <1>1, <1>2, DeferredDescends
<1>4. AllDescend(LiftChecks(f), height)
  BY LiftChecksDescend
<1> DEFINE first == IF Constructor(f) = << >> THEN Deferred(f, "initializer", f, VisibleBases[f], {}) ELSE << >>
           statics == Deferred(f, "staticMixing", f, VisibleBases[f], {})
           datatype == Deferred(f, "datatype", f, VisibleBases[f], {})
           names == Deferred(f, "noIntersection", f, VisibleBases[f], {})
<1>5. MemberChecks(f) = LiftChecks(f) \o (IF program[f].kind = "class" THEN first \o statics ELSE datatype \o names)
  BY DEF MemberChecks
<1>6. /\ AllDescend(first, height) /\ AllDescend(statics, height)
      /\ AllDescend(datatype, height) /\ AllDescend(names, height)
  BY <1>3, NoneDescends
<1> HIDE DEF first, statics, datatype, names
<1>7. AllDescend(first \o statics, height) /\ AllDescend(datatype \o names, height)
  BY <1>6, BothDescend
<1>8. CASE program[f].kind = "class"
  BY <1>4, <1>5, <1>7, <1>8, BothDescend
<1>9. CASE program[f].kind # "class"
  BY <1>4, <1>5, <1>7, <1>9, BothDescend
<1> QED BY <1>8, <1>9

-----------------------------------------------------------------------------
(* The types that are registered are ordered as the program is.            *)
TypeOrdered(f, type, height) ==
  /\ {"kind", "base", "interfaces"} \subseteq DOMAIN type
  /\ type.base # None => type.base \in Fqns /\ height[type.base] < height[f]
  /\ type.kind = "interface" =>
       type.interfaces \in Seq(Fqns) /\ \A i \in ToSet(type.interfaces) : height[i] < height[f]

TypesOrdered(height) == \A f \in DOMAIN types : TypeOrdered(f, types[f], height)

LEMMA SettlingKeepsOrder ==
  ASSUME NEW height, NEW f, NEW self, NEW type, NEW bases, TypeOrdered(f, type, height)
  PROVE  TypeOrdered(f, SettleDatatype(self, type, bases), height)
BY DEF TypeOrdered, SettleDatatype

LEMMA VisitedTypeOrdered ==
  ASSUME NEW height, ProgramOrdered(height), NEW f \in Listed
  PROVE  TypeOrdered(f, VisitedType(f), height)
<1> DEFINE ctor == Constructor(f)
           init == CASE program[f].kind # "class" -> << >>
                     [] ctor # << >>    -> IF ctor[1].private THEN << >>
                                           ELSE <<[parameters |-> ToParameters(ctor[1].params)]>>
                     [] BaseOf(f) # None -> << >>
                     [] OTHER -> <<[parameters |-> << >>]>>
           type == [kind |-> program[f].kind, abstract |-> program[f].kind = "class" /\ program[f].abstract,
                    datatype |-> FALSE,
                    base |-> IF program[f].kind = "class" THEN BaseOf(f) ELSE None,
                    interfaces |-> Interfaces(f), members |-> program[f].values,
                    initializer |-> init,
                    methods |-> VisitMethods(f), properties |-> VisitProperties(f)]
<1>1. VisitedType(f) = IF program[f].kind = "interface" /\ VisibleBases[f] = << >>
                       THEN SettleDatatype(f, type, {}) ELSE type
  BY DEF VisitedType
<1>2. VisibleBases[f] \in Seq(Fqns) /\ \A b \in ToSet(VisibleBases[f]) : height[b] < height[f]
  BY DEF ProgramOrdered
<1>3. VisibleBases[f] # << >> => VisibleBases[f][1] \in Fqns /\ height[VisibleBases[f][1]] < height[f]
  <2>1. VisibleBases[f] # << >> => 1 \in 1 .. Len(VisibleBases[f])
    BY <1>2, Elements
  <2> QED BY <1>2, <2>1, Elements
<1>4. TypeOrdered(f, type, height)
  <2> HIDE DEF init
  <2>1. /\ DOMAIN type = {"kind", "abstract", "datatype", "base", "interfaces", "members",
                          "initializer", "methods", "properties"}
        /\ type.kind = program[f].kind
        /\ type.base = IF program[f].kind = "class" THEN BaseOf(f) ELSE None
        /\ type.interfaces = Interfaces(f)
    OBVIOUS
  <2> HIDE DEF type
  <2>2. program[f].kind = "interface" => Interfaces(f) = VisibleBases[f]
    BY DEF Interfaces
  <2>3. BaseOf(f) # None => BaseOf(f) \in Fqns /\ height[BaseOf(f)] < height[f]
    BY <1>3 DEF BaseOf
  <2> QED BY <1>2, <2>1, <2>2, <2>3 DEF TypeOrdered
<1> HIDE DEF type
<1> QED BY <1>1, <1>4, SettlingKeepsOrder

LEMMA SettledOrdered ==
  ASSUME NEW height, TypesOrdered(height), NEW d, NEW bases
  PROVE  \A f \in DOMAIN Settled(d, bases) : TypeOrdered(f, Settled(d, bases)[f], height)
<1>1. CASE d.check = "datatype"
  <2> DEFINE new == [types EXCEPT ![d.self] = SettleDatatype(d.self, @, bases)]
  <2>1. Settled(d, bases) = new
    BY <1>1 DEF Settled
  <2>2. DOMAIN new = DOMAIN types
    OBVIOUS
  <2>3. ASSUME NEW f \in DOMAIN types
        PROVE  TypeOrdered(f, new[f], height)
    <3>1. new[f] = IF f = d.self THEN SettleDatatype(d.self, types[f], bases) ELSE types[f]
      OBVIOUS
    <3> HIDE DEF new
    <3> QED BY <3>1, SettlingKeepsOrder DEF TypesOrdered
  <2> QED BY <2>1, <2>2, <2>3
<1>2. CASE d.check = "initializer" /\ \A b \in bases : IsClass(b)
  <2> DEFINE init == (CHOOSE b \in bases : TRUE).initializer
             new == [types EXCEPT ![d.self].initializer = init]
  <2>1. Settled(d, bases) = new
    BY <1>2 DEF Settled
  <2>2. DOMAIN new = DOMAIN types
    OBVIOUS
  <2>3. ASSUME NEW f \in DOMAIN types
        PROVE  TypeOrdered(f, new[f], height)
    <3> HIDE DEF init
    <3>1. new[f] = IF f = d.self THEN [types[f] EXCEPT !.initializer = init] ELSE types[f]
      OBVIOUS
    <3> HIDE DEF new
    <3>2. TypeOrdered(f, types[f], height)
      BY DEF TypesOrdered
    <3>3. TypeOrdered(f, [types[f] EXCEPT !.initializer = init], height)
      BY <3>2 DEF TypeOrdered
    <3> QED BY <3>1, <3>2, <3>3
  <2> QED BY <2>1, <2>2, <2>3
<1>3. CASE d.check # "datatype" /\ ~ (d.check = "initializer" /\ \A b \in bases : IsClass(b))
  BY <1>3 DEF Settled, TypesOrdered
<1> QED BY <1>1, <1>2, <1>3

(* A type that a reference resolves to, of the program or foreign.         *)
LEMMA ResolvedOrdered ==
  ASSUME NEW height, TypesOrdered(height), ForeignOrdered(height), NEW b, Known(b)
  PROVE  /\ TypeOf(b).base # None => TypeOf(b).base \in Fqns /\ height[TypeOf(b).base] < height[b]
         /\ IsInterface(TypeOf(b)) =>
              /\ TypeOf(b).interfaces \in Seq(Fqns)
              /\ \A i \in ToSet(TypeOf(b).interfaces) : height[i] < height[b]
<1>1. CASE b \in DOMAIN types
  BY <1>1 DEF TypesOrdered, TypeOrdered, TypeOf, IsInterface
<1>2. CASE b \notin DOMAIN types
  BY <1>2 DEF Known, ForeignTypes, ForeignOrdered, TypeOf
<1> QED BY <1>1, <1>2

(* What a check defers in turn goes by the same type, about types above    *)
(* those that it was about, or by one of these.                            *)
LEMMA MoreChecksDescend ==
  ASSUME NEW height \in [Fqns -> Nat], TypesOrdered(height), ForeignOrdered(height),
         NEW d, Descends(d, height)
  PROVE  AllDescend(MoreChecks(d), height)
<1>1. d.refs \in Seq(Fqns) /\ \A i \in 1 .. Len(d.refs) : d.refs[i] \in Fqns /\ d.refs[i] \in ToSet(d.refs)
  BY Elements DEF Descends
<1>2. CASE d.check = "noIntersection"
  <2> DEFINE more(b) == IF Known(b) /\ IsInterface(TypeOf(b))
                        THEN Deferred(d.self, d.check, d.self, TypeOf(b).interfaces, {}) ELSE << >>
             ss == [i \in DOMAIN d.refs |-> more(d.refs[i])]
  <2>1. MoreChecks(d) = FlattenSeq(ss)
    BY <1>2 DEF MoreChecks, FlatMap
  <2>2. d.fqn = d.self /\ d.self \in Fqns /\ \A r \in ToSet(d.refs) : height[r] < height[d.self]
    BY <1>2 DEF Descends
  <2>3. ASSUME NEW b \in Fqns, b \in ToSet(d.refs)
        PROVE  AllDescend(more(b), height)
    <3>1. CASE Known(b) /\ IsInterface(TypeOf(b))
      <4>1. /\ TypeOf(b).interfaces \in Seq(Fqns)
            /\ \A i \in ToSet(TypeOf(b).interfaces) : height[i] < height[b]
        BY <3>1, ResolvedOrdered
      <4>2. ToSet(TypeOf(b).interfaces) \subseteq Fqns
        BY <4>1, Elements
      <4>3. \A i \in ToSet(TypeOf(b).interfaces) : height[i] < height[d.self]
        BY <2>2, <2>3, <4>1, <4>2
      <4>4. AllDescend(Deferred(d.self, d.check, d.self, TypeOf(b).interfaces, {}), height)
        BY <1>2, <2>2, <4>1, <4>3, DeferredDescends
      <4> QED BY <3>1, <4>4
    <3>2. CASE ~ (Known(b) /\ IsInterface(TypeOf(b)))
      BY <3>2, NoneDescends
    <3> QED BY <3>1, <3>2
  <2> HIDE DEF more
  <2>4. ASSUME NEW i \in 1 .. Len(d.refs)
        PROVE  AllDescend(ss[i], height)
    <3>1. i \in DOMAIN d.refs
      BY <1>1, LenProperties
    <3>2. AllDescend(more(d.refs[i]), height)
      BY <1>1, <2>3
    <3> QED BY <3>1, <3>2
  <2>5. ss = [i \in DOMAIN d.refs |-> ss[i]]
    OBVIOUS
  <2> HIDE DEF ss
  <2>6. AllDescend(FlattenSeq(ss), height)
    BY <1>1, <2>4, <2>5, FlatDescends
  <2> QED BY <2>1, <2>6
<1>3. CASE d.check = "staticMixing"
  <2> DEFINE more(b) == IF Known(b) /\ TypeOf(b).base # None
                        THEN Deferred(b, d.check, d.self, <<TypeOf(b).base>>, {}) ELSE << >>
             ss == [i \in DOMAIN d.refs |-> more(d.refs[i])]
  <2>1. MoreChecks(d) = FlattenSeq(ss)
    BY <1>3 DEF MoreChecks, FlatMap
  <2>2. ASSUME NEW b \in Fqns
        PROVE  AllDescend(more(b), height)
    <3>1. CASE Known(b) /\ TypeOf(b).base # None
      <4>1. TypeOf(b).base \in Fqns /\ height[TypeOf(b).base] < height[b]
        BY <3>1, ResolvedOrdered
      <4>2. <<TypeOf(b).base>> \in Seq(Fqns) /\ ToSet(<<TypeOf(b).base>>) = {TypeOf(b).base}
        BY <4>1 DEF ToSet
      <4>3. \A r \in ToSet(<<TypeOf(b).base>>) : height[r] < height[b]
        BY <4>1, <4>2
      <4>4. AllDescend(Deferred(b, d.check, d.self, <<TypeOf(b).base>>, {}), height)
        BY <1>3, <4>2, <4>3, DeferredDescends
      <4> QED BY <3>1, <4>4
    <3>2. CASE ~ (Known(b) /\ TypeOf(b).base # None)
      BY <3>2, NoneDescends
    <3> QED BY <3>1, <3>2
  <2> HIDE DEF more
  <2>3. ASSUME NEW i \in 1 .. Len(d.refs)
        PROVE  AllDescend(ss[i], height)
    <3>1. i \in DOMAIN d.refs
      BY <1>1, LenProperties
    <3>2. AllDescend(more(d.refs[i]), height)
      BY <1>1, <2>2
    <3> QED BY <3>1, <3>2
  <2>4. ss = [i \in DOMAIN d.refs |-> ss[i]]
    OBVIOUS
  <2> HIDE DEF ss
  <2>5. AllDescend(FlattenSeq(ss), height)
    BY <1>1, <2>3, <2>4, FlatDescends
  <2> QED BY <2>1, <2>5
<1>4. CASE d.check # "noIntersection" /\ d.check # "staticMixing"
  BY <1>4, NoneDescends DEF MoreChecks
<1> QED BY <1>2, <1>3, <1>4

-----------------------------------------------------------------------------
(* A pass that invoked nothing yet has passed over checks that wait, each  *)
(* for one that is deferred.                                               *)
PassInv ==
  /\ scan \in Nat
  /\ phase \in {"loading", "configuring", "visiting"} => scan = 0
  /\ scan > 0 /\ ~ invoked =>
       /\ deferred # << >>
       /\ \A i \in DOMAIN deferred : \A r \in deferred[i].deps :
            \E j \in DOMAIN deferred : deferred[j].fqn = r
       /\ \A i \in DOMAIN deferred : i < scan => deferred[i].deps # {}

OrderInv(height) == PassInv /\ TypesOrdered(height) /\ AllDescend(deferred, height)

(* Of the checks that all wait for one another, that of the lowest type    *)
(* waits for a lower one.                                                  *)
LEMMA OrderedIsNotStuck ==
  ASSUME NEW height \in [Fqns -> Nat], OrderInv(height)
  PROVE  NeverStuck
<1> SUFFICES ASSUME scan > Len(deferred), ~ invoked PROVE FALSE
  BY DEF NeverStuck
<1>1. Len(deferred) \in Nat /\ DOMAIN deferred = 1 .. Len(deferred) /\ (deferred = << >> <=> Len(deferred) = 0)
  BY Elements DEF OrderInv, AllDescend
<1>2. \A i \in DOMAIN deferred : Descends(deferred[i], height)
  BY DEF OrderInv, AllDescend, ToSet
<1>3. scan \in Nat /\ scan > 0
  BY <1>1 DEF OrderInv, PassInv
<1>4. /\ deferred # << >>
      /\ \A i \in DOMAIN deferred : \A r \in deferred[i].deps : \E j \in DOMAIN deferred : deferred[j].fqn = r
      /\ \A i \in DOMAIN deferred : deferred[i].deps # {}
  BY <1>1, <1>3 DEF OrderInv, PassInv
<1>5. ASSUME NEW i \in DOMAIN deferred
      PROVE  \E j \in DOMAIN deferred :
               /\ deferred[j].fqn \in Fqns
               /\ deferred[i].check # "lift" => height[deferred[j].fqn] < height[deferred[i].fqn]
  <2>1. PICK r \in deferred[i].deps : TRUE
    BY <1>4
  <2>2. PICK j \in DOMAIN deferred : deferred[j].fqn = r
    BY <1>4
  <2>3. Descends(deferred[i], height)
    BY <1>2
  <2>4. r \in ToSet(deferred[i].refs) /\ ToSet(deferred[i].refs) \subseteq Fqns
    BY <2>1, <2>3, Elements DEF Descends
  <2>5. deferred[i].check # "lift" => height[r] < height[deferred[i].fqn]
    BY <2>3, <2>4 DEF Descends
  <2> QED BY <2>2, <2>4, <2>5
<1> DEFINE Heights == {n \in Nat : \E i \in DOMAIN deferred : deferred[i].fqn \in Fqns /\ height[deferred[i].fqn] = n}
<1>6. Heights \subseteq Nat /\ Heights # {}
  <2>1. 1 \in DOMAIN deferred
    BY <1>1, <1>4
  <2>2. PICK j \in DOMAIN deferred : deferred[j].fqn \in Fqns
    BY <1>5, <2>1
  <2>3. height[deferred[j].fqn] \in Nat
    BY <2>2
  <2> QED BY <2>2, <2>3
<1>7. PICK n \in Heights : \A k \in Heights : n <= k
  BY <1>6, LeastNumber
<1>8. PICK i \in DOMAIN deferred : deferred[i].fqn \in Fqns /\ height[deferred[i].fqn] = n
  BY <1>7
<1>9. deferred[i].check # "lift"
  BY <1>2, <1>8 DEF Descends
<1>10. PICK j \in DOMAIN deferred : deferred[j].fqn \in Fqns /\ height[deferred[j].fqn] < n
  BY <1>5, <1>8, <1>9
<1>11. height[deferred[j].fqn] \in Heights
  BY <1>10
<1>12. height[deferred[j].fqn] \in Nat /\ n \in Nat
  BY <1>6, <1>10
<1> QED BY <1>7, <1>10, <1>11, <1>12

-----------------------------------------------------------------------------
LEMMA InitOrder == ASSUME NEW height PROVE Init => OrderInv(height)
<1> SUFFICES ASSUME Init PROVE OrderInv(height)
  OBVIOUS
<1>1. types = << >> /\ deferred = << >> /\ scan = 0
  BY DEF Init, AssemblerInit
<1> QED BY <1>1, NoneDescends DEF OrderInv, PassInv, TypesOrdered

LEMMA VisitOrder ==
  ASSUME NEW height, OrderInv(height), ProgramOrdered(height), NEW f \in Listed,
         VisitHeritage(f) \/ VisitMembers(f)
  PROVE  OrderInv(height)'
<1>1. phase = "visiting" /\ UNCHANGED <<scan, invoked, phase>>
  BY DEF VisitHeritage, VisitMembers
<1>2. PassInv'
  BY <1>1 DEF OrderInv, PassInv
<1>3. CASE VisitHeritage(f)
  <2>1. deferred' = deferred \o HeritageChecks(f) /\ UNCHANGED types
    BY <1>3 DEF VisitHeritage
  <2>2. AllDescend(HeritageChecks(f), height)
    BY HeritageChecksDescend
  <2>3. AllDescend(deferred \o HeritageChecks(f), height)
    BY <2>2, BothDescend DEF OrderInv
  <2>4. AllDescend(deferred, height)'
    BY <2>1, <2>3
  <2> QED BY <1>2, <2>1, <2>4 DEF OrderInv, TypesOrdered
<1>4. CASE VisitMembers(f)
  <2>1. deferred' = deferred \o MemberChecks(f) /\ types' = [g \in DOMAIN types \cup {f} |-> IF g = f THEN VisitedType(f) ELSE types[g]]
    BY <1>4 DEF VisitMembers
  <2>2. AllDescend(MemberChecks(f), height)
    BY MemberChecksDescend
  <2>3. AllDescend(deferred \o MemberChecks(f), height)
    BY <2>2, BothDescend DEF OrderInv
  <2>4. AllDescend(deferred, height)'
    BY <2>1, <2>3
  <2>5. TypeOrdered(f, VisitedType(f), height)
    BY VisitedTypeOrdered
  <2>6. /\ DOMAIN types' = DOMAIN types \cup {f}
        /\ \A g \in DOMAIN types' : types'[g] = IF g = f THEN VisitedType(f) ELSE types[g]
    BY <2>1
  <2>7. TypesOrdered(height)'
    BY <2>5, <2>6 DEF OrderInv, TypesOrdered
  <2> QED BY <1>2, <2>4, <2>7 DEF OrderInv
<1> QED BY <1>3, <1>4

LEMMA StartPassOrder ==
  ASSUME NEW height, OrderInv(height), StartPass
  PROVE  OrderInv(height)'
<1> DEFINE pending == {d.fqn : d \in ToSet(deferred)}
           s == [i \in DOMAIN deferred |-> [deferred[i] EXCEPT !.deps = @ \cap pending]]
<1>1. /\ scan = 0 /\ deferred # << >> /\ deferred' = s
      /\ scan' = 1 /\ phase = "deferreds" /\ UNCHANGED <<types, phase>>
  BY DEF StartPass
<1>2. /\ Len(deferred) \in Nat /\ DOMAIN deferred = 1 .. Len(deferred)
      /\ \A i \in 1 .. Len(deferred) : Descends(deferred[i], height)
      /\ \A d \in ToSet(deferred) : \E i \in 1 .. Len(deferred) : deferred[i] = d
  BY Elements DEF OrderInv, AllDescend
<1>3. \A r \in pending : \E j \in DOMAIN deferred : deferred[j].fqn = r
  BY <1>2
<1> HIDE DEF pending
<1>4. ASSUME NEW i \in 1 .. Len(deferred)
      PROVE  /\ s[i].fqn = deferred[i].fqn /\ s[i].deps \subseteq pending
             /\ Descends(s[i], height)
  <2>1. s[i] = [deferred[i] EXCEPT !.deps = @ \cap pending]
    BY <1>2
  <2>2. Descends(deferred[i], height)
    BY <1>2
  <2> HIDE DEF s
  <2> QED BY <2>1, <2>2 DEF Descends
<1>5. DOMAIN s = 1 .. Len(deferred) /\ s \in Seq({s[i] : i \in 1 .. Len(deferred)})
  <2>1. DOMAIN s = 1 .. Len(deferred) /\ s = [i \in DOMAIN s |-> s[i]]
    BY <1>2
  <2> HIDE DEF s
  <2> QED BY <1>2, <2>1
<1> HIDE DEF s
<1>6. ToSet(s) = {s[i] : i \in 1 .. Len(deferred)}
  BY <1>5 DEF ToSet
<1>7. AllDescend(s, height)
  BY <1>4, <1>5, <1>6 DEF AllDescend
<1>8. s # << >>
  BY <1>1, <1>2, <1>5, EmptySeq
<1>9. \A i \in DOMAIN s : \A r \in s[i].deps : \E j \in DOMAIN s : s[j].fqn = r
  BY <1>2, <1>3, <1>4, <1>5
<1>10. \A i \in DOMAIN s : ~ i < 1
  BY <1>2, <1>5
<1> QED BY <1>1, <1>7, <1>8, <1>9, <1>10 DEF OrderInv, PassInv, TypesOrdered

LEMMA InvokeOrder ==
  ASSUME NEW height \in [Fqns -> Nat], OrderInv(height), ForeignOrdered(height), Invoke
  PROVE  OrderInv(height)'
<1> DEFINE d == deferred[scan]
           bases == {TypeOf(r) : r \in {r \in ToSet(d.refs) : Known(r)}}
<1>1. /\ phase = "deferreds" /\ scan \in DOMAIN deferred
      /\ IF bases # {} /\ Throws(d, bases)
         THEN phase' = "thrown" /\ UNCHANGED <<types, deferred, scan, invoked>>
         ELSE /\ types' = IF bases = {} THEN types ELSE Settled(d, bases)
              /\ deferred' = RemoveAt(deferred, scan) \o MoreChecks(d)
              /\ scan' = scan + 1 /\ invoked' = TRUE
              /\ UNCHANGED phase
  BY DEF Invoke
<1>2. /\ Len(deferred) \in Nat /\ DOMAIN deferred = 1 .. Len(deferred)
      /\ Descends(d, height)
  BY <1>1, Elements DEF OrderInv, AllDescend
<1>3. AllDescend(MoreChecks(d), height)
  BY <1>2, MoreChecksDescend DEF OrderInv
<1>4. AllDescend(RemoveAt(deferred, scan), height)
  BY <1>1, <1>2, OneFewerDescends DEF OrderInv
<1>5. AllDescend(RemoveAt(deferred, scan) \o MoreChecks(d), height)
  BY <1>3, <1>4, BothDescend
<1>6. \A f \in DOMAIN Settled(d, bases) : TypeOrdered(f, Settled(d, bases)[f], height)
  BY SettledOrdered DEF OrderInv
<1> HIDE DEF d, bases
<1>7. CASE bases # {} /\ Throws(d, bases)
  BY <1>1, <1>7 DEF OrderInv, PassInv, TypesOrdered
<1>8. CASE ~ (bases # {} /\ Throws(d, bases))
  <2>1. /\ types' = IF bases = {} THEN types ELSE Settled(d, bases)
        /\ deferred' = RemoveAt(deferred, scan) \o MoreChecks(d)
        /\ scan' = scan + 1 /\ invoked' = TRUE /\ phase' = phase
    BY <1>1, <1>8
  <2>2. TypesOrdered(height)'
    <3>1. CASE bases = {}
      BY <2>1, <3>1 DEF OrderInv, TypesOrdered
    <3>2. CASE bases # {}
      BY <1>6, <2>1, <3>2 DEF TypesOrdered
    <3> QED BY <3>1, <3>2
  <2>3. AllDescend(deferred, height)'
    BY <1>5, <2>1
  <2>4. PassInv'
    BY <1>1, <2>1 DEF OrderInv, PassInv
  <2> QED BY <2>2, <2>3, <2>4 DEF OrderInv
<1> QED BY <1>7, <1>8

LEMMA PassOrder ==
  ASSUME NEW height, OrderInv(height), SkipDependent \/ EndPass \/ DeferredsDone
  PROVE  OrderInv(height)'
<1>1. UNCHANGED <<types, deferred, invoked>>
  BY DEF SkipDependent, EndPass, DeferredsDone
<1>2. TypesOrdered(height)' /\ AllDescend(deferred, height)'
  BY <1>1 DEF OrderInv, TypesOrdered
<1>3. CASE SkipDependent
  <2>1. Len(deferred) \in Nat /\ DOMAIN deferred = 1 .. Len(deferred)
    BY Elements DEF OrderInv, AllDescend
  <2>2. /\ phase = "deferreds" /\ phase' = phase /\ scan' = scan + 1 /\ deferred[scan].deps # {}
        /\ scan \in 1 .. Len(deferred)
    BY <1>3, <2>1 DEF SkipDependent
  <2> QED BY <1>1, <1>2, <2>1, <2>2 DEF OrderInv, PassInv
<1>4. CASE EndPass
  BY <1>1, <1>2, <1>4 DEF OrderInv, PassInv, EndPass
<1>5. CASE DeferredsDone
  BY <1>1, <1>2, <1>5 DEF OrderInv, PassInv, DeferredsDone
<1> QED BY <1>3, <1>4, <1>5

LEMMA StepOrder ==
  ASSUME NEW height \in [Fqns -> Nat], OrderInv(height), Ordered(height), [Next]_compilerVars
  PROVE  OrderInv(height)'
<1>1. CASE Assemble
  <2>1. CASE \E f \in Listed : VisitHeritage(f) \/ VisitMembers(f)
    BY <2>1, VisitOrder DEF Ordered
  <2>2. CASE AllVisited
    BY <2>2 DEF OrderInv, PassInv, TypesOrdered, AllVisited
  <2>3. CASE StartPass
    BY <2>3, StartPassOrder
  <2>4. CASE Invoke
    BY <2>4, InvokeOrder DEF Ordered
  <2>5. CASE SkipDependent \/ EndPass \/ DeferredsDone
    BY <2>5, PassOrder
  <2> QED BY <1>1, <2>1, <2>2, <2>3, <2>4, <2>5 DEF Assemble, AssemblerNext
<1>2. CASE LoadProjectInfo \/ WriteTypeScriptConfig \/ Emit \/ Catch \/ UNCHANGED compilerVars
           \/ \E tsErrors, failOnWarnings \in BOOLEAN : Exit(tsErrors, failOnWarnings)
  <2>1. UNCHANGED <<types, deferred, scan, invoked>>
    BY <1>2 DEF LoadProjectInfo, WriteTypeScriptConfig, Emit, Catch, Exit, assemblingVars, assemblerVars, compilerVars
  <2>2. phase' \in {"loading", "configuring", "visiting"} => phase \in {"loading", "configuring", "visiting"}
    BY <1>2 DEF LoadProjectInfo, WriteTypeScriptConfig, Fail, Emit, Catch, Exit, assemblerVars, compilerVars
  <2> QED BY <2>1, <2>2 DEF OrderInv, PassInv, TypesOrdered
<1> QED BY <1>1, <1>2 DEF Next

(* If the declarations have no cycle, no pass over the deferred checks     *)
(* ends without an invocation.                                             *)
THEOREM DeferredsAreNotStuck ==
  ASSUME NEW height \in [Fqns -> Nat]
  PROVE  Spec /\ []Ordered(height) => []NeverStuck
<1>1. Init => OrderInv(height)
  BY InitOrder
<1>2. OrderInv(height) /\ Ordered(height) /\ [Next]_compilerVars => OrderInv(height)'
  BY StepOrder
<1>3. OrderInv(height) => NeverStuck
  BY OrderedIsNotStuck
<1> QED BY <1>1, <1>2, <1>3, PTL DEF Spec

-----------------------------------------------------------------------------
(* Steps that leave the program and its dependencies alone change nothing  *)
(* of what is read from them.                                              *)
SameProgram == program' = program /\ projectInfo' = projectInfo

(* What is selected of a sequence of members, and of a constructor: the    *)
(* operators of Assembler with the program as a parameter.                 *)
Shown(prog, s)   == SelectSeq(FlatMap(LAMBDA d : prog[d].members, s), LAMBDA m : ~ IsPrivateOrInternal(m.name, m))
MethodsIn(s)     == SelectSeq(s, LAMBDA m : m.sort = "method" /\ ~ isProhibitedMemberName(m.name))
PropertiesIn(s)  == SelectSeq(s, LAMBDA m : m.sort = "property")
FirstAllowed(s)  == FirstOf(SelectSeq(s, LAMBDA m : ~ isProhibitedMemberName(m.name)), LAMBDA x, y : x.name = y.name)
FirstConstructor(prog, s) ==
  LET with == SelectSeq(s, LAMBDA d : prog[d].ctor # << >>) IN
    IF with = << >> THEN << >> ELSE prog[with[1]].ctor
PublicParameters(ctor) ==
  IF ctor = << >> THEN << >>
  ELSE LET ps == SelectSeq(ctor[1].params, LAMBDA p : p.property /\ ~ Underscored(p.name)) IN
         [i \in DOMAIN ps |->
            [sort |-> "property", name |-> ps[i].name, type |-> ps[i].type,
             optional |-> ps[i].optional, readonly |-> ps[i].readonly, abstract |-> FALSE,
             protected |-> ps[i].protected, static |-> FALSE, const |-> FALSE]]

Selections ==
  \A f : /\ Visible(f) = Shown(program, WithErased(f))
         /\ Methods(f) = MethodsIn(Visible(f))
         /\ Constructor(f) = FirstConstructor(program, WithErased(f))
         /\ ParameterProperties(f) = PublicParameters(Constructor(f))
         /\ PropertyMembers(f) = PropertiesIn(Visible(f)) \o ParameterProperties(f)
         /\ Properties(f) = FirstAllowed(PropertyMembers(f))

LEMMA SelectionsHold == Selections
BY DEF Selections, Visible, Shown, Methods, MethodsIn, Constructor, FirstConstructor,
       ParameterProperties, PublicParameters, PropertyMembers, PropertiesIn, Properties, FirstAllowed

LEMMA SelectionsNext == Selections'
BY SelectionsHold, PTL

(* Types that parameters and members refer to, without and with the        *)
(* declaration they are in                                                 *)
LEMMA SameReferences ==
  ASSUME SameProgram
  PROVE  /\ ForeignTypes' = ForeignTypes
         /\ \A f : NoPeer(f)' = NoPeer(f)
         /\ \A f : FqnErrors(f)' = FqnErrors(f)
         /\ Convert' = Convert
         /\ \A p : ToParameter(p)' = ToParameter(p)
         /\ \A ps : ToParameters(ps)' = ToParameters(ps)
         /\ \A ps : ParameterErrors(ps)' = ParameterErrors(ps)
<1>1. ForeignTypes' = ForeignTypes
  BY DEF SameProgram, ForeignTypes
<1>2. \A f : NoPeer(f)' = NoPeer(f)
  BY <1>1 DEF SameProgram, NoPeer
<1>3. \A f : FqnErrors(f)' = FqnErrors(f)
  BY <1>1, <1>2 DEF SameProgram, FqnErrors, PeerWarnings
<1>4. Convert' = Convert
  BY DEF SameProgram, Convert, FqnErrors, PeerWarnings, NoPeer, ForeignTypes
<1>5. \A p : ToParameter(p)' = ToParameter(p)
  BY <1>4 DEF ToParameter
<1>6. \A ps : ToParameters(ps)' = ToParameters(ps)
  BY <1>5 DEF ToParameters
<1>7. \A ps : ParameterErrors(ps)' = ParameterErrors(ps)
  BY <1>4, <1>6 DEF ParameterErrors
<1> QED BY <1>1, <1>2, <1>3, <1>4, <1>5, <1>6, <1>7

LEMMA SameBases ==
  ASSUME SameProgram
  PROVE  /\ VisibleBases' = VisibleBases
         /\ \A f : WithErased(f)' = WithErased(f)
         /\ \A f : Implemented(f)' = Implemented(f)
         /\ \A f : Interfaces(f)' = Interfaces(f)
         /\ \A f : BaseOf(f)' = BaseOf(f)
<1>1. \A f : Erase(f)' = Erase(f)
  BY DEF SameProgram, Erase
<1>2. ErasedBases' = ErasedBases
  BY DEF SameProgram, ErasedBases, FlatMap, Erase
<1>3. VisibleBases' = VisibleBases
  BY DEF SameProgram, VisibleBases, FlatMap, Erase
<1>4. \A f : WithErased(f)' = WithErased(f)
  BY <1>2 DEF WithErased
<1>5. \A f : Implemented(f)' = Implemented(f)
  BY <1>1, <1>3 DEF SameProgram, Implemented, FlatMap
<1>6. \A f : Interfaces(f)' = Interfaces(f)
  BY <1>3, <1>4, <1>5 DEF SameProgram, Interfaces, FlatMap
<1>7. \A f : BaseOf(f)' = BaseOf(f)
  BY <1>3 DEF BaseOf
<1> QED BY <1>3, <1>4, <1>5, <1>6, <1>7

LEMMA SameMembers ==
  ASSUME SameProgram
  PROVE  /\ \A f : Visible(f)' = Visible(f)
         /\ \A f : Methods(f)' = Methods(f)
         /\ \A f : Constructor(f)' = Constructor(f)
         /\ \A f : PropertyMembers(f)' = PropertyMembers(f)
         /\ \A f : Properties(f)' = Properties(f)
         /\ \A f : VisitMethods(f)' = VisitMethods(f)
         /\ \A f : VisitProperties(f)' = VisitProperties(f)
<1>0. Selections /\ Selections'
  BY SelectionsHold, SelectionsNext
<1>1. \A f : Visible(f)' = Visible(f)
  BY <1>0, SameBases DEF SameProgram, Selections
<1>2. \A f : Methods(f)' = Methods(f)
  BY <1>0, <1>1 DEF Selections
<1>3. \A f : Constructor(f)' = Constructor(f)
  BY <1>0, SameBases DEF SameProgram, Selections
<1>4. \A f : ParameterProperties(f)' = ParameterProperties(f)
  BY <1>0, <1>3 DEF Selections
<1>5. \A f : PropertyMembers(f)' = PropertyMembers(f)
  BY <1>0, <1>1, <1>4 DEF Selections
<1>6. \A f : Properties(f)' = Properties(f)
  BY <1>0, <1>5 DEF Selections
<1>7. \A f, m : VisitMethod(f, m)' = VisitMethod(f, m)
  BY SameReferences DEF SameProgram, VisitMethod, IsAbstract
<1>8. \A f : VisitMethods(f)' = VisitMethods(f)
  BY <1>2, <1>7 DEF VisitMethods, FirstOf
<1>9. \A f, m : VisitProperty(f, m)' = VisitProperty(f, m)
  BY SameReferences DEF SameProgram, VisitProperty, IsAbstract
<1>10. \A f : VisitProperties(f)' = VisitProperties(f)
  BY <1>6, <1>9 DEF VisitProperties
<1> QED BY <1>1, <1>2, <1>3, <1>5, <1>6, <1>8, <1>10

LEMMA SameVisitedType ==
  ASSUME SameProgram, NEW f
  PROVE  VisitedType(f)' = VisitedType(f)
<1> DEFINE ctor == Constructor(f)
           class == program[f].kind = "class"
           init == CASE program[f].kind # "class" -> << >>
                     [] ctor # << >>    -> IF ctor[1].private THEN << >>
                                           ELSE <<[parameters |-> ToParameters(ctor[1].params)]>>
                     [] BaseOf(f) # None -> << >>
                     [] OTHER -> <<[parameters |-> << >>]>>
           type == [kind |-> program[f].kind, abstract |-> class /\ program[f].abstract,
                    datatype |-> FALSE, base |-> IF class THEN BaseOf(f) ELSE None,
                    interfaces |-> Interfaces(f), members |-> program[f].values, initializer |-> init,
                    methods |-> VisitMethods(f), properties |-> VisitProperties(f)]
           bare == program[f].kind = "interface" /\ VisibleBases[f] = << >>
<1>1. ctor' = ctor /\ class' = class /\ bare' = bare /\ BaseOf(f)' = BaseOf(f)
      /\ ToParameters(ctor[1].params)' = ToParameters(ctor[1].params)
  BY SameBases, SameMembers, SameReferences DEF SameProgram
<1>2. init' = init
  BY <1>1 DEF SameProgram
<1>3. VisitMethods(f)' = VisitMethods(f) /\ VisitProperties(f)' = VisitProperties(f) /\ Interfaces(f)' = Interfaces(f)
  BY SameBases, SameMembers
<1> HIDE DEF init
<1>4. type' = type
  BY <1>1, <1>2, <1>3 DEF SameProgram
<1>5. VisitedType(f) = IF bare THEN SettleDatatype(f, type, {}) ELSE type
  BY DEF VisitedType, init
<1>6. VisitedType(f)' = IF bare' THEN SettleDatatype(f, type', {}) ELSE type'
  BY DEF VisitedType, init
<1> HIDE DEF type, bare
<1> QED BY <1>1, <1>4, <1>5, <1>6

LEMMA SameErrors ==
  ASSUME SameProgram, NEW f
  PROVE  /\ HeritageErrors(f)' = HeritageErrors(f)
         /\ MemberErrors(f)' = MemberErrors(f)
         /\ EagerErrors(f)' = EagerErrors(f)
<1>1. HeritageErrors(f)' = HeritageErrors(f)
  BY SameReferences, SameBases DEF HeritageErrors
<1> DEFINE s == WithErased(f)
           ms == FlattenSeq([i \in DOMAIN s |-> program[s[i]].members])
<1>2. HidingErrors(f)' = HidingErrors(f)
  <2>1. HidingErrors(f) = UNION {ErrorIf(~ m.private /\ m.internal # Underscored(m.name), "internal and underscore") : m \in ToSet(ms)}
    BY DEF HidingErrors, FlatMap
  <2>2. HidingErrors(f)' = UNION {ErrorIf(~ m.private /\ m.internal # Underscored(m.name), "internal and underscore") : m \in ToSet(ms')}
    BY DEF HidingErrors, FlatMap
  <2>3. ms' = ms
    <3>1. s' = s
      BY SameBases
    <3> QED BY <3>1 DEF SameProgram
  <2> QED BY <2>1, <2>2, <2>3
<1> DEFINE names == UNION {ErrorIf(isProhibitedMemberName(m.name), "prohibited name") :
                             m \in ToSet(Visible(f)) \cup ToSet(PropertyMembers(f))}
           methods == UNION {ParameterErrors(m.params)
                  \cup (IF m.type.t = "void" THEN {} ELSE Convert[m.type].errors) : m \in ToSet(Methods(f))}
           properties == UNION {Convert[m.type].errors : m \in Properties(f)}
           ctor == IF Constructor(f) = << >> \/ Constructor(f)[1].private THEN {}
                   ELSE ParameterErrors(Constructor(f)[1].params)
           mixed == \E m, n \in VisitMethods(f) \cup VisitProperties(f) : m.name = n.name /\ m.static # n.static
<1>3. names' = names
  BY SameMembers
<1>4. methods' = methods
  BY SameMembers, SameReferences
<1>5. properties' = properties
  BY SameMembers, SameReferences
<1>6. ctor' = ctor
  BY SameMembers, SameReferences
<1>7. mixed' = mixed
  BY SameMembers
<1>8. MemberErrors(f)' = MemberErrors(f)
  <2>1. MemberErrors(f) = HidingErrors(f) \cup names \cup methods \cup properties \cup ctor
            \cup ErrorIf(mixed, "static and non-static") \cup ErrorIf(program[f].const, "const enum")
    BY DEF MemberErrors
  <2>2. MemberErrors(f)' = HidingErrors(f)' \cup names' \cup methods' \cup properties' \cup ctor'
            \cup ErrorIf(mixed', "static and non-static") \cup ErrorIf(program'[f].const, "const enum")
    BY DEF MemberErrors
  <2> HIDE DEF names, methods, properties, ctor, mixed
  <2> QED BY <1>2, <1>3, <1>4, <1>5, <1>6, <1>7, <2>1, <2>2 DEF SameProgram
<1>9. EagerErrors(f)' = EagerErrors(f)
  BY SameBases, SameMembers DEF SameProgram, EagerErrors
<1> QED BY <1>1, <1>8, <1>9

LEMMA SameListed == SameProgram => Listed' = Listed
BY DEF SameProgram, Listed

LEMMA SameHeritageChecks ==
  ASSUME SameProgram, NEW f
  PROVE  HeritageChecks(f)' = HeritageChecks(f)
<1> DEFINE one(check, s) == FlattenSeq([i \in DOMAIN s |-> Deferred(f, check, f, <<s[i]>>, {})])
           each(d) == InterfaceChecks(f, d)
           all(d) == StructCheck(f, d)
           s == WithErased(f)
           clauses == [i \in DOMAIN s |-> each(s[i])]
           structs == [i \in DOMAIN s |-> all(s[i])]
           bases == VisibleBases[f]
<1>1. /\ \A d : each(d) = one("isInterface", Implemented(d))
      /\ \A d : each(d)' = one("isInterface", Implemented(d)')
      /\ \A d : all(d) = Deferred(f, "notStructs", f, Implemented(d), {})
      /\ \A d : all(d)' = Deferred(f, "notStructs", f, Implemented(d)', {})
  BY DEF InterfaceChecks, StructCheck, FlatMap
<1>2. /\ \A d : each(d)' = each(d)
      /\ \A d : all(d)' = all(d)
  <2> HIDE DEF one, each, all
  <2> QED BY <1>1, SameBases
<1>3. s' = s /\ bases' = bases
  BY SameBases
<1>4. clauses' = clauses /\ structs' = structs
  <2> HIDE DEF each, all, s
  <2> QED BY <1>2, <1>3
<1>5. HeritageChecks(f) = IF program[f].kind = "class"
                          THEN one("isClass", bases) \o (FlattenSeq(clauses) \o FlattenSeq(structs))
                          ELSE one("isInterface", bases)
  BY DEF HeritageChecks, ImplementsChecks, FlatMap
<1>6. HeritageChecks(f)' = IF program'[f].kind = "class"
                           THEN one("isClass", bases') \o (FlattenSeq(clauses') \o FlattenSeq(structs'))
                           ELSE one("isInterface", bases')
  BY DEF HeritageChecks, ImplementsChecks, FlatMap
<1> HIDE DEF clauses, structs, bases, one
<1> QED BY <1>3, <1>4, <1>5, <1>6 DEF SameProgram

LEMMA SameMemberChecks ==
  ASSUME SameProgram, NEW f
  PROVE  MemberChecks(f)' = MemberChecks(f)
<1> DEFINE check(m) ==
             LET ps == ToParameters(m.params) IN
               IF ps # << >> /\ IsNamed(Last(ps).type)
               THEN Deferred(m.name, "lift", f, <<Last(ps).type.fqn>>, {p.name : p \in ToSet(Front(ps))})
               ELSE << >>
           s == Methods(f)
           ss == [i \in DOMAIN s |-> check(s[i])]
           bases == VisibleBases[f]
           bare == Constructor(f) = << >>
<1>1. \A m : check(m)' = check(m)
  <2> SUFFICES ASSUME NEW m PROVE check(m)' = check(m)
    OBVIOUS
  <2> DEFINE ps == ToParameters(m.params)
  <2>1. ps' = ps
    BY SameReferences
  <2> HIDE DEF ps
  <2>2. check(m) = IF ps # << >> /\ IsNamed(Last(ps).type)
               THEN Deferred(m.name, "lift", f, <<Last(ps).type.fqn>>, {p.name : p \in ToSet(Front(ps))})
               ELSE << >>
    BY DEF ps
  <2>3. check(m)' = IF ps' # << >> /\ IsNamed(Last(ps').type)
               THEN Deferred(m.name, "lift", f, <<Last(ps').type.fqn>>, {p.name : p \in ToSet(Front(ps'))})
               ELSE << >>
    BY DEF ps
  <2> HIDE DEF check
  <2> QED BY <2>1, <2>2, <2>3
<1>2. s' = s /\ bases' = bases /\ bare' = bare
  BY SameMembers, SameBases
<1>3. ss' = ss
  <2> HIDE DEF check, s
  <2> QED BY <1>1, <1>2
<1>4. LiftChecks(f) = FlattenSeq(ss) /\ LiftChecks(f)' = FlattenSeq(ss')
  BY DEF LiftChecks, FlatMap
<1>5. MemberChecks(f) = LiftChecks(f) \o
    IF program[f].kind = "class"
    THEN (IF bare THEN Deferred(f, "initializer", f, bases, {}) ELSE << >>) \o Deferred(f, "staticMixing", f, bases, {})
    ELSE Deferred(f, "datatype", f, bases, {}) \o Deferred(f, "noIntersection", f, bases, {})
  BY DEF MemberChecks
<1>6. MemberChecks(f)' = LiftChecks(f)' \o
    IF program'[f].kind = "class"
    THEN (IF bare' THEN Deferred(f, "initializer", f, bases', {}) ELSE << >>) \o Deferred(f, "staticMixing", f, bases', {})
    ELSE Deferred(f, "datatype", f, bases', {}) \o Deferred(f, "noIntersection", f, bases', {})
  BY DEF MemberChecks
<1> HIDE DEF ss, bases, bare
<1> QED BY <1>2, <1>3, <1>4, <1>5, <1>6 DEF SameProgram

LEMMA SameVisits ==
  ASSUME SameProgram
  PROVE  /\ Listed' = Listed
         /\ \A f : VisitedType(f)' = VisitedType(f)
         /\ \A f : HeritageErrors(f)' = HeritageErrors(f)
         /\ \A f : MemberErrors(f)' = MemberErrors(f)
         /\ \A f : EagerErrors(f)' = EagerErrors(f)
         /\ \A f : HeritageChecks(f)' = HeritageChecks(f)
         /\ \A f : MemberChecks(f)' = MemberChecks(f)
BY SameListed, SameVisitedType, SameErrors, SameHeritageChecks, SameMemberChecks

-----------------------------------------------------------------------------
(* The recursive readings, as equations                                    *)
StructEquation(g) ==
  g = [f \in Fqns |->
         IF f \notin Listed THEN f \in ForeignTypes /\ Foreign[f].datatype
         ELSE /\ program[f].kind = "interface"
              /\ VisitMethods(f) = {}
              /\ \A b \in ToSet(VisibleBases[f]) : g[b]
              /\ ~ isInterfaceName(f)]

InitializerEquation(g) ==
  g = [f \in Fqns |->
         IF f \notin Listed THEN Foreign[f].initializer
         ELSE IF Constructor(f) # << >> \/ BaseOf(f) = None THEN VisitedType(f).initializer
         ELSE g[BaseOf(f)]]

AncestorEquation(g) ==
  g = [f \in Fqns |->
         IF f \in Listed \/ f \in ForeignTypes
         THEN Supers(f) \cup UNION {g[s] : s \in Supers(f)} ELSE {}]

LEMMA SameReadings ==
  ASSUME SameProgram
  PROVE  /\ IsStruct' = IsStruct
         /\ InheritedInitializer' = InheritedInitializer
         /\ Ancestors' = Ancestors
         /\ \A f : Supers(f)' = Supers(f)
<1>0. Listed' = Listed /\ ForeignTypes' = ForeignTypes /\ program' = program
  BY SameVisits, SameReferences DEF SameProgram
<1>1. \A g : StructEquation(g)' <=> StructEquation(g)
  BY <1>0, SameBases, SameMembers DEF StructEquation
<1>2. /\ IsStruct = CHOOSE g : StructEquation(g)
      /\ IsStruct' = CHOOSE g : StructEquation(g)'
  BY DEF IsStruct, StructEquation
<1>3. IsStruct' = IsStruct
  BY <1>1, <1>2, Zenon
<1>4. \A g : InitializerEquation(g)' <=> InitializerEquation(g)
  BY <1>0, SameBases, SameMembers, SameVisits DEF InitializerEquation
<1>5. /\ InheritedInitializer = CHOOSE g : InitializerEquation(g)
      /\ InheritedInitializer' = CHOOSE g : InitializerEquation(g)'
  BY DEF InheritedInitializer, InitializerEquation
<1>6. InheritedInitializer' = InheritedInitializer
  BY <1>4, <1>5, Zenon
<1>7. \A f : Supers(f)' = Supers(f)
  BY <1>0, SameBases DEF Supers
<1>8. \A g : AncestorEquation(g)' <=> AncestorEquation(g)
  BY <1>0, <1>7 DEF AncestorEquation
<1>9. /\ Ancestors = CHOOSE g : AncestorEquation(g)
      /\ Ancestors' = CHOOSE g : AncestorEquation(g)'
  BY DEF Ancestors, AncestorEquation
<1>10. Ancestors' = Ancestors
  BY <1>8, <1>9, Zenon
<1> QED BY <1>3, <1>6, <1>7, <1>10

LEMMA SameRelations ==
  ASSUME SameProgram
  PROVE  /\ \A f : Exists(f)' = Exists(f)
         /\ \A f : KindOf(f)' = KindOf(f)
         /\ \A f : MembersOf(f)' = MembersOf(f)
         /\ \A f : Keywords(f)' = Keywords(f)
<1>1. \A f : Exists(f)' = Exists(f)
  BY SameVisits, SameReferences DEF Exists
<1>2. \A f : KindOf(f)' = KindOf(f)
  BY SameVisits DEF SameProgram, KindOf
<1>3. \A f : MembersOf(f)' = MembersOf(f)
  BY SameVisits, SameMembers DEF MembersOf
<1>4. \A f : Keywords(f)' = Keywords(f)
  BY <1>3, SameReadings DEF Keywords
<1> QED BY <1>1, <1>2, <1>3, <1>4

-----------------------------------------------------------------------------
(* The types that are loaded from dependencies: none is one of the         *)
(* program's, whose names begin with the name of its package; what they    *)
(* extend is loaded too (_loadDependencies loads the dependencies of       *)
(* dependencies); a struct has no methods and extends structs, for the     *)
(* compiler that wrote it saw to it.                                       *)
ForeignSound ==
  \A f \in ForeignTypes :
    LET type == Foreign[f] IN
    /\ f \notin Listed
    /\ type.datatype \in BOOLEAN
    /\ type.datatype => /\ IsInterface(type) /\ type.methods = {}
                        /\ \A i \in ToSet(type.interfaces) : Foreign[i].datatype
    /\ IsClass(type) /\ type.base # None => type.base \in ForeignTypes /\ IsClass(Foreign[type.base])
    /\ IsInterface(type) => /\ type.base = None
                            /\ \A i \in ToSet(type.interfaces) : i \in ForeignTypes /\ IsInterface(Foreign[i])
    /\ \A m \in type.methods \cup type.properties : m.static \in BOOLEAN

(* What TypeScript and the shape of its declarations see to: a class       *)
(* extends one class at most, an enum nothing, and modifiers are there or  *)
(* not.                                                                    *)
ProgramTyped ==
  \A f \in Listed :
    /\ program[f].kind \in {"class", "interface", "enum"}
    /\ program[f].kind = "class" => Len(VisibleBases[f]) <= 1
    /\ program[f].kind = "enum" => VisibleBases[f] = << >>
    /\ \A m \in MembersOf(f) : m.static \in BOOLEAN
    /\ \A p \in VisitProperties(f) : p.immutable \in BOOLEAN

Sound(height, top) ==
  /\ top \in Nat /\ height \in [Fqns -> 0 .. top] /\ None \notin Fqns
  /\ Ordered(height) /\ ForeignSound /\ ProgramTyped

(* What a declaration extends lies below it. *)
LEMMA ListedBases ==
  ASSUME NEW height, NEW top, Sound(height, top), NEW f \in Listed
  PROVE  /\ f \in Fqns /\ VisibleBases[f] \in Seq(Fqns) /\ ToSet(VisibleBases[f]) \subseteq Fqns
         /\ \A b \in ToSet(VisibleBases[f]) : height[b] < height[f]
         /\ Supers(f) = ToSet(VisibleBases[f])
         /\ program[f].kind # "class" => Interfaces(f) = VisibleBases[f]
         /\ VisibleBases[f] = << >> => BaseOf(f) = None /\ Supers(f) = {}
         /\ VisibleBases[f] # << >> => /\ BaseOf(f) = VisibleBases[f][1] /\ BaseOf(f) # None
                                       /\ BaseOf(f) \in ToSet(VisibleBases[f])
<1>1. f \in Fqns
  BY DEF Listed
<1>2. VisibleBases[f] \in Seq(Fqns) /\ \A b \in ToSet(VisibleBases[f]) : height[b] < height[f]
  BY DEF Sound, Ordered, ProgramOrdered
<1>3. ToSet(VisibleBases[f]) \subseteq Fqns
  BY <1>2, Elements
<1>4. program[f].kind # "class" => Interfaces(f) = VisibleBases[f]
  BY DEF Interfaces
<1>5. Supers(f) = ToSet(VisibleBases[f])
  BY <1>4 DEF Supers
<1>6. VisibleBases[f] = << >> => BaseOf(f) = None /\ Supers(f) = {}
  BY <1>5 DEF BaseOf, ToSet
<1>7. ASSUME VisibleBases[f] # << >>
      PROVE  BaseOf(f) = VisibleBases[f][1] /\ BaseOf(f) # None /\ BaseOf(f) \in ToSet(VisibleBases[f])
  <2>1. 1 \in 1 .. Len(VisibleBases[f])
    BY <1>2, <1>7, Elements
  <2>2. VisibleBases[f][1] \in ToSet(VisibleBases[f])
    BY <1>2, <2>1, Elements
  <2> QED BY <1>3, <1>7, <2>2 DEF BaseOf, Sound
<1> QED BY <1>1, <1>2, <1>3, <1>4, <1>5, <1>6, <1>7

LEMMA SupersAreLower ==
  ASSUME NEW height, NEW top, Sound(height, top), NEW f \in Fqns, f \in Listed \/ f \in ForeignTypes
  PROVE  Supers(f) \subseteq Fqns /\ \A s \in Supers(f) : height[s] < height[f]
<1>1. CASE f \in Listed
  BY <1>1, ListedBases
<1>2. CASE f \notin Listed
  <2>1. f \in DOMAIN Foreign
    BY <1>2 DEF ForeignTypes
  <2>2. /\ Foreign[f].base # None => Foreign[f].base \in Fqns /\ height[Foreign[f].base] < height[f]
        /\ Foreign[f].interfaces \in Seq(Fqns)
        /\ \A i \in ToSet(Foreign[f].interfaces) : height[i] < height[f]
    BY <2>1 DEF Sound, Ordered, ForeignOrdered
  <2>3. ToSet(Foreign[f].interfaces) \subseteq Fqns
    BY <2>2, Elements
  <2> QED BY <1>2, <2>2, <2>3 DEF Supers
<1> QED BY <1>1, <1>2

(* A struct extends structs only. *)
LEMMA StructReading ==
  ASSUME NEW height, NEW top, Sound(height, top)
  PROVE  StructEquation(IsStruct) /\ IsStruct \in [Fqns -> BOOLEAN]
<1> DEFINE Body(g, f) ==
         IF f \notin Listed THEN f \in ForeignTypes /\ Foreign[f].datatype
         ELSE /\ program[f].kind = "interface"
              /\ VisitMethods(f) = {}
              /\ \A b \in ToSet(VisibleBases[f]) : g[b]
              /\ ~ isInterfaceName(f)
           F == [g \in [Fqns -> BOOLEAN] |-> [f \in Fqns |-> Body(g, f)]]
<1>1. ASSUME NEW g, NEW f \in Fqns
      PROVE  Body(g, f) \in BOOLEAN
  <2>1. f \in ForeignTypes => Foreign[f].datatype \in BOOLEAN
    BY DEF Sound, ForeignSound
  <2> QED BY <2>1
<1>2. ASSUME NEW g \in [Fqns -> BOOLEAN], NEW h \in [Fqns -> BOOLEAN], NEW f \in Fqns,
             \A e \in Fqns : height[e] < height[f] => g[e] = h[e]
      PROVE  Body(g, f) = Body(h, f)
  <2>1. CASE f \in Listed
    <3>1. \A b \in ToSet(VisibleBases[f]) : g[b] = h[b]
      BY <1>2, <2>1, ListedBases
    <3> QED BY <3>1
  <2>2. CASE f \notin Listed
    BY <2>2
  <2> QED BY <2>1, <2>2
<1> HIDE DEF Body
<1>3. F \in [[Fqns -> BOOLEAN] -> [Fqns -> BOOLEAN]]
  BY <1>1
<1>4. \A g, h \in [Fqns -> BOOLEAN] : \A f \in Fqns :
        (\A e \in Fqns : height[e] < height[f] => g[e] = h[e]) => F[g][f] = F[h][f]
  BY <1>2
<1>5. LooksDown(F, Fqns, BOOLEAN, height, top)
  <2> HIDE DEF F
  <2> QED BY <1>3, <1>4 DEF LooksDown, Sound
<1>6. PICK g \in [Fqns -> BOOLEAN] : g = F[g]
  <2> HIDE DEF F
  <2> QED BY <1>5, FixedPoint
<1>7. StructEquation(g)
  BY <1>6 DEF StructEquation, Body
<1>8. IsStruct = CHOOSE s : StructEquation(s)
  BY DEF IsStruct, StructEquation
<1>9. StructEquation(IsStruct)
  BY <1>7, <1>8
<1>10. IsStruct = [f \in Fqns |-> Body(IsStruct, f)]
  BY <1>9 DEF StructEquation, Body
<1> QED BY <1>1, <1>9, <1>10

(* The same, for one type *)
LEMMA StructsAre ==
  ASSUME NEW height, NEW top, Sound(height, top), NEW f \in Fqns
  PROVE  /\ IsStruct[f] \in BOOLEAN
         /\ f \notin Listed => (IsStruct[f] <=> f \in ForeignTypes /\ Foreign[f].datatype)
         /\ f \in Listed => (IsStruct[f] <=> /\ program[f].kind = "interface"
                                             /\ VisitMethods(f) = {}
                                             /\ \A b \in ToSet(VisibleBases[f]) : IsStruct[b]
                                             /\ ~ isInterfaceName(f))
<1> DEFINE g == IsStruct
<1>1. StructEquation(g) /\ g \in [Fqns -> BOOLEAN]
  BY StructReading
<1> HIDE DEF g
<1>2. g[f] = IF f \notin Listed THEN f \in ForeignTypes /\ Foreign[f].datatype
             ELSE /\ program[f].kind = "interface"
                  /\ VisitMethods(f) = {}
                  /\ \A b \in ToSet(VisibleBases[f]) : g[b]
                  /\ ~ isInterfaceName(f)
  BY <1>1 DEF StructEquation
<1>3. g[f] \in BOOLEAN
  BY <1>1
<1>4. /\ f \notin Listed => (g[f] <=> f \in ForeignTypes /\ Foreign[f].datatype)
      /\ f \in Listed => (g[f] <=> /\ program[f].kind = "interface"
                                   /\ VisitMethods(f) = {}
                                   /\ \A b \in ToSet(VisibleBases[f]) : g[b]
                                   /\ ~ isInterfaceName(f))
  BY <1>2
<1> QED BY <1>3, <1>4 DEF g

(* A class without a constructor has that of its base class. *)
LEMMA InitializersAre ==
  ASSUME NEW height, NEW top, Sound(height, top), NEW f \in Fqns
  PROVE  InheritedInitializer[f] =
           IF f \notin Listed THEN Foreign[f].initializer
           ELSE IF Constructor(f) # << >> \/ BaseOf(f) = None THEN VisitedType(f).initializer
           ELSE InheritedInitializer[BaseOf(f)]
<1> DEFINE Body(g, e) ==
         IF e \notin Listed THEN Foreign[e].initializer
         ELSE IF Constructor(e) # << >> \/ BaseOf(e) = None THEN VisitedType(e).initializer
         ELSE g[BaseOf(e)]
           V == {Foreign[e].initializer : e \in Fqns} \cup {VisitedType(e).initializer : e \in Fqns}
           F == [g \in [Fqns -> V] |-> [e \in Fqns |-> Body(g, e)]]
<1>0. ASSUME NEW e \in Listed, ~ (Constructor(e) # << >> \/ BaseOf(e) = None)
      PROVE  BaseOf(e) \in Fqns /\ height[BaseOf(e)] < height[e]
  BY <1>0, ListedBases
<1>1. ASSUME NEW g \in [Fqns -> V], NEW e \in Fqns
      PROVE  Body(g, e) \in V
  BY <1>0
<1>2. ASSUME NEW g \in [Fqns -> V], NEW h \in [Fqns -> V], NEW d \in Fqns,
             \A e \in Fqns : height[e] < height[d] => g[e] = h[e]
      PROVE  Body(g, d) = Body(h, d)
  BY <1>0, <1>2
<1>3. V # {}
  OBVIOUS
<1> HIDE DEF Body, V
<1>4. F \in [[Fqns -> V] -> [Fqns -> V]]
  BY <1>1
<1>5. \A g, h \in [Fqns -> V] : \A d \in Fqns :
        (\A e \in Fqns : height[e] < height[d] => g[e] = h[e]) => F[g][d] = F[h][d]
  BY <1>2
<1>6. LooksDown(F, Fqns, V, height, top)
  <2> HIDE DEF F
  <2> QED BY <1>3, <1>4, <1>5 DEF LooksDown, Sound
<1>7. PICK g \in [Fqns -> V] : g = F[g]
  <2> HIDE DEF F
  <2> QED BY <1>6, FixedPoint
<1>8. InitializerEquation(g)
  BY <1>7 DEF InitializerEquation, Body
<1>9. InheritedInitializer = CHOOSE s : InitializerEquation(s)
  BY DEF InheritedInitializer, InitializerEquation
<1> DEFINE r == InheritedInitializer
<1>10. InitializerEquation(r)
  BY <1>8, <1>9
<1> HIDE DEF r
<1>11. r[f] = Body(r, f)
  BY <1>10 DEF InitializerEquation, Body
<1> QED BY <1>11 DEF Body, r

(* All that a type extends, directly or not *)
LEMMA AncestorsAre ==
  ASSUME NEW height, NEW top, Sound(height, top), NEW f \in Fqns, f \in Listed \/ f \in ForeignTypes
  PROVE  Ancestors[f] = Supers(f) \cup UNION {Ancestors[s] : s \in Supers(f)}
<1> DEFINE Body(g, e) == IF e \in Listed \/ e \in ForeignTypes
                         THEN Supers(e) \cup UNION {g[s] : s \in Supers(e)} ELSE {}
           V == SUBSET Fqns
           F == [g \in [Fqns -> V] |-> [e \in Fqns |-> Body(g, e)]]
<1>1. ASSUME NEW g \in [Fqns -> V], NEW e \in Fqns
      PROVE  Body(g, e) \in V
  <2>1. CASE e \in Listed \/ e \in ForeignTypes
    <3>1. Supers(e) \subseteq Fqns
      BY <2>1, SupersAreLower
    <3>2. \A s \in Supers(e) : g[s] \subseteq Fqns
      BY <3>1
    <3> QED BY <2>1, <3>1, <3>2
  <2>2. CASE ~ (e \in Listed \/ e \in ForeignTypes)
    BY <2>2
  <2> QED BY <2>1, <2>2
<1>2. ASSUME NEW g \in [Fqns -> V], NEW h \in [Fqns -> V], NEW d \in Fqns,
             \A e \in Fqns : height[e] < height[d] => g[e] = h[e]
      PROVE  Body(g, d) = Body(h, d)
  <2>1. CASE d \in Listed \/ d \in ForeignTypes
    <3>1. \A s \in Supers(d) : g[s] = h[s]
      BY <1>2, <2>1, SupersAreLower
    <3> QED BY <3>1
  <2>2. CASE ~ (d \in Listed \/ d \in ForeignTypes)
    BY <2>2
  <2> QED BY <2>1, <2>2
<1>3. V # {}
  OBVIOUS
<1> HIDE DEF Body, V
<1>4. F \in [[Fqns -> V] -> [Fqns -> V]]
  BY <1>1
<1>5. \A g, h \in [Fqns -> V] : \A d \in Fqns :
        (\A e \in Fqns : height[e] < height[d] => g[e] = h[e]) => F[g][d] = F[h][d]
  BY <1>2
<1>6. LooksDown(F, Fqns, V, height, top)
  <2> HIDE DEF F
  <2> QED BY <1>3, <1>4, <1>5 DEF LooksDown, Sound
<1>7. PICK g \in [Fqns -> V] : g = F[g]
  <2> HIDE DEF F
  <2> QED BY <1>6, FixedPoint
<1>8. AncestorEquation(g)
  BY <1>7 DEF AncestorEquation, Body
<1>9. Ancestors = CHOOSE s : AncestorEquation(s)
  BY DEF Ancestors, AncestorEquation
<1> DEFINE r == Ancestors
<1>10. AncestorEquation(r)
  BY <1>8, <1>9
<1> HIDE DEF r
<1>11. r[f] = Body(r, f)
  BY <1>10 DEF AncestorEquation, Body
<1> QED BY <1>11 DEF Body, r

-----------------------------------------------------------------------------
(* The recursive function that Distinct folds by, over sets of positions.  *)
DistinctOf(g, s, t) ==
  IF t = {} THEN << >>
  ELSE LET i == Max(t) IN
         IF s[i] \in ToSet(g[t \ {i}]) THEN g[t \ {i}] ELSE Append(g[t \ {i}], s[i])
IsDistinct(g, s, n) == g = [t \in SUBSET (1 .. n) |-> DistinctOf(g, s, t)]

LEMMA GreatestPosition ==
  ASSUME NEW n \in Nat, NEW t \in SUBSET (1 .. n), t # {}
  PROVE  Max(t) \in t /\ \A i \in t : i <= Max(t)
<1>0. t \subseteq 0 .. n /\ t \subseteq Nat
  OBVIOUS
<1>1. PICK m \in t : \A i \in t : i <= m
  BY <1>0, GreatestNumber
<1>2. \A i \in t : m >= i
  BY <1>0, <1>1
<1>3. Max(t) \in t /\ \A i \in t : Max(t) >= i
  BY <1>2 DEF Max
<1> QED BY <1>0, <1>3

LEMMA DistinctExists ==
  ASSUME NEW S, NEW s, NEW n \in Nat, \A i \in 1 .. n : s[i] \in S
  PROVE  \E g \in [SUBSET (1 .. n) -> Seq(S)] : IsDistinct(g, s, n)
<1> DEFINE D == SUBSET (1 .. n)
           height == [t \in D |-> IF t = {} THEN 0 ELSE Max(t)]
           F == [g \in [D -> Seq(S)] |-> [t \in D |-> DistinctOf(g, s, t)]]
<1>1. height \in [D -> 0 .. n]
  <2>1. ASSUME NEW t \in D, t # {}
        PROVE  Max(t) \in 0 .. n
    <3>1. Max(t) \in t
      BY <2>1, GreatestPosition
    <3>2. t \subseteq 0 .. n
      OBVIOUS
    <3> QED BY <3>1, <3>2
  <2> QED BY <2>1
<1>2. ASSUME NEW t \in D, t # {}
      PROVE  /\ Max(t) \in 1 .. n /\ t \ {Max(t)} \in D /\ Max(t) \in t
             /\ height[t \ {Max(t)}] < height[t]
  <2>1. Max(t) \in t /\ \A i \in t : i <= Max(t)
    BY <1>2, GreatestPosition
  <2> DEFINE rest == t \ {Max(t)}
  <2>2. /\ rest \in D /\ \A i \in rest : i < Max(t)
        /\ Max(t) \in 1 .. n
    <3>1. rest \subseteq t /\ t \subseteq 1 .. n /\ Max(t) \in 1 .. n
      BY <2>1
    <3>2. PICK k \in 1 .. n : k = Max(t)
      BY <3>1
    <3>3. ASSUME NEW i \in rest
          PROVE  i < Max(t)
      <4>1. i \in 1 .. n /\ i <= k /\ i # k
        BY <2>1, <3>1, <3>2
      <4>2. i < k
        BY <4>1
      <4> QED BY <3>2, <4>2
    <3> QED BY <3>1, <3>3
  <2>3. rest # {} => Max(rest) \in rest
    BY <2>2, GreatestPosition
  <2>4. height[rest] = (IF rest = {} THEN 0 ELSE Max(rest)) /\ height[t] = Max(t)
    BY <1>2, <2>2
  <2>5. height[rest] < height[t]
    <3>1. CASE rest = {}
      <4>1. 0 < Max(t)
        BY <2>2
      <4> HIDE DEF rest, height
      <4> QED BY <2>4, <3>1, <4>1
    <3>2. CASE rest # {}
      <4>1. Max(rest) < Max(t)
        BY <2>2, <2>3, <3>2
      <4> HIDE DEF rest, height
      <4> QED BY <2>4, <3>2, <4>1
    <3> QED BY <3>1, <3>2
  <2> HIDE DEF height, D
  <2> QED BY <2>1, <2>2, <2>5
<1>3. ASSUME NEW g \in [D -> Seq(S)], NEW t \in D
      PROVE  DistinctOf(g, s, t) \in Seq(S)
  <2>1. CASE t = {}
    BY <2>1 DEF DistinctOf
  <2>2. CASE t # {}
    <3>1. g[t \ {Max(t)}] \in Seq(S) /\ s[Max(t)] \in S
      BY <1>2, <2>2
    <3>2. Append(g[t \ {Max(t)}], s[Max(t)]) \in Seq(S)
      BY <3>1
    <3> QED BY <2>2, <3>1, <3>2 DEF DistinctOf
  <2> QED BY <2>1, <2>2
<1>4. F \in [[D -> Seq(S)] -> [D -> Seq(S)]]
  BY <1>3
<1>5. ASSUME NEW g \in [D -> Seq(S)], NEW h \in [D -> Seq(S)], NEW t \in D,
             \A u \in D : height[u] < height[t] => g[u] = h[u]
      PROVE  F[g][t] = F[h][t]
  <2>1. DistinctOf(g, s, t) = DistinctOf(h, s, t)
    BY <1>2, <1>5 DEF DistinctOf
  <2> QED BY <2>1
<1>6. << >> \in Seq(S)
  OBVIOUS
<1> HIDE DEF D, height, F
<1>7. PICK g \in [D -> Seq(S)] : g = F[g]
  <2> DEFINE V == Seq(S)
  <2>1. LooksDown(F, D, V, height, n)
    BY <1>1, <1>4, <1>5, <1>6 DEF LooksDown
  <2> HIDE DEF V
  <2>2. \E g \in [D -> V] : g = F[g]
    BY <2>1, FixedPoint
  <2> QED BY <2>2 DEF V
<1>8. IsDistinct(g, s, n)
  BY <1>7 DEF F, D, IsDistinct
<1> QED BY <1>7, <1>8 DEF D

(* Distinct drops repetitions and no element. *)
LEMMA DistinctElements ==
  ASSUME NEW S, NEW s \in Seq(S)
  PROVE  Distinct(s) \in Seq(S) /\ ToSet(Distinct(s)) = ToSet(s)
<1>1. PICK n \in Nat : n = Len(s) /\ DOMAIN s = 1 .. n /\ \A i \in 1 .. n : s[i] \in S
  BY LenProperties
<1> DEFINE g == CHOOSE g : IsDistinct(g, s, n)
<1>2. Distinct(s) = g[1 .. n]
  BY <1>1 DEF Distinct, FoldLeft, MapThenFoldSet, IsDistinct, DistinctOf
<1>3. IsDistinct(g, s, n)
  BY <1>1, DistinctExists
<1> HIDE DEF g
<1>4. \A t \in SUBSET (1 .. n) : g[t] = DistinctOf(g, s, t)
  <2>1. g = [t \in SUBSET (1 .. n) |-> DistinctOf(g, s, t)]
    BY <1>3 DEF IsDistinct
  <2> QED BY <2>1
<1> DEFINE Good(m) == g[1 .. m] \in Seq(S) /\ ToSet(g[1 .. m]) = {s[i] : i \in 1 .. m}
           T == {m \in 0 .. n : ~ Good(m)}
<1>5. ASSUME T # {} PROVE FALSE
  <2>1. PICK m \in T : \A k \in T : m <= k
    <3>1. T \subseteq Nat
      OBVIOUS
    <3> HIDE DEF T
    <3> QED BY <1>5, <3>1, LeastNumber
  <2>2. m \in 0 .. n /\ ~ Good(m)
    OBVIOUS
  <2>3. CASE m = 0
    <3>1. 1 .. m = {} /\ {} \in SUBSET (1 .. n)
      BY <2>3
    <3>2. g[1 .. m] = << >>
      BY <1>4, <3>1 DEF DistinctOf
    <3>3. ToSet(<< >>) = {}
      BY DEF ToSet
    <3> QED BY <2>2, <3>1, <3>2, <3>3
  <2>4. CASE m # 0
    <3>1. m - 1 \in 0 .. n /\ ~ m <= m - 1
      BY <2>2, <2>4
    <3>2. Good(m - 1)
      <4> HIDE DEF Good
      <4> QED BY <2>1, <3>1
    <3>3. 1 .. m \in SUBSET (1 .. n) /\ 1 .. m # {} /\ m \in 1 .. n /\ m \in 1 .. m
      <4>1. m \in 1 .. n /\ m \in 1 .. m
        BY <2>2, <2>4
      <4>2. 1 .. m \subseteq 1 .. n
        BY <4>1
      <4> QED BY <4>1, <4>2
    <3>4. Max(1 .. m) = m
      <4> DEFINE t == 1 .. m
      <4>1. t \in SUBSET (1 .. n) /\ t # {} /\ m \in t
        BY <3>3
      <4> HIDE DEF t
      <4>2. Max(t) \in t /\ m <= Max(t)
        BY <4>1, GreatestPosition
      <4>3. Max(t) \in 1 .. m /\ m <= Max(t)
        BY <4>2 DEF t
      <4>4. Max(t) = m
        BY <3>3, <4>3
      <4> QED BY <4>4 DEF t
    <3>5. (1 .. m) \ {m} = 1 .. m - 1
      BY <3>3
    <3> DEFINE rest == g[1 .. m - 1]
    <3>6. g[1 .. m] = IF s[m] \in ToSet(rest) THEN rest ELSE Append(rest, s[m])
      BY <1>4, <3>3, <3>4, <3>5 DEF DistinctOf
    <3>7. rest \in Seq(S) /\ ToSet(rest) = {s[i] : i \in 1 .. m - 1} /\ s[m] \in S
      BY <1>1, <3>2, <3>3
    <3> HIDE DEF rest
    <3>8. {s[i] : i \in 1 .. m} = {s[i] : i \in 1 .. m - 1} \cup {s[m]}
      <4>1. 1 .. m = (1 .. m - 1) \cup {m}
        BY <3>3
      <4> QED BY <4>1
    <3>9. Append(rest, s[m]) \in Seq(S) /\ ToSet(Append(rest, s[m])) = ToSet(rest) \cup {s[m]}
      <4>1. PICK e \in S : e = s[m]
        BY <3>7
      <4> DEFINE one == <<e>>
      <4>2. Append(rest, e) = rest \o one
        BY <3>7, ConcatOne
      <4>3. one \in Seq(S) /\ ToSet(one) = {e}
        BY DEF ToSet
      <4> HIDE DEF one
      <4>4. rest \o one \in Seq(S) /\ ToSet(rest \o one) = ToSet(rest) \cup {e}
        BY <3>7, <4>3, ConcatElements
      <4> QED BY <4>1, <4>2, <4>4
    <3> QED BY <2>2, <3>6, <3>7, <3>8, <3>9
  <2> QED BY <2>3, <2>4
<1>6. Good(n)
  <2>1. n \in 0 .. n
    OBVIOUS
  <2> HIDE DEF Good
  <2> QED BY <1>5, <2>1
<1>7. ToSet(s) = {s[i] : i \in 1 .. n}
  BY <1>1 DEF ToSet
<1> QED BY <1>2, <1>6, <1>7

-----------------------------------------------------------------------------
(* The elements of sequences put together, one for each element of another *)
LEMMA PartsOf ==
  ASSUME NEW S, NEW T, NEW s \in Seq(S), NEW ss, ss = [i \in DOMAIN s |-> ss[i]],
         \A i \in 1 .. Len(s) : ss[i] \in Seq(T)
  PROVE  /\ FlattenSeq(ss) \in Seq(T)
         /\ \A e : e \in ToSet(FlattenSeq(ss)) <=> \E i \in 1 .. Len(s) : e \in ToSet(ss[i])
<1>1. Len(s) \in Nat /\ DOMAIN s = 1 .. Len(s)
  BY LenProperties
<1>2. DOMAIN ss = 1 .. Len(s) /\ ss \in Seq({ss[i] : i \in 1 .. Len(s)})
  BY <1>1
<1>3. Len(ss) = Len(s)
  BY <1>1, <1>2, LenProperties
<1>4. ss = << >> \/ Len(s) > 0
  BY <1>1, <1>2, <1>3, EmptySeq
<1>5. PICK n \in Nat : n = Len(s)
  BY <1>1
<1>6. DOMAIN ss = 1 .. n /\ Len(ss) = n /\ (ss = << >> \/ n > 0) /\ \A i \in 1 .. n : ss[i] \in Seq(T)
  BY <1>2, <1>3, <1>4, <1>5
<1>7. FlattenSeq(ss) \in Seq(T)
  BY <1>6, Flattened
<1>8. \A e : e \in ToSet(FlattenSeq(ss)) <=> \E i \in 1 .. n : e \in ToSet(ss[i])
  BY <1>6, FlattenedElements
<1> QED BY <1>5, <1>7, <1>8

(* What a class implements, with what it erases *)
LEMMA InterfacesAre ==
  ASSUME NEW height, NEW top, Sound(height, top), NEW f \in Listed, program[f].kind = "class"
  PROVE  /\ Interfaces(f) \in Seq(Fqns)
         /\ \A e : e \in ToSet(Interfaces(f)) <=> \E d \in ToSet(WithErased(f)) : e \in ToSet(Implemented(d))
         /\ \A i \in ToSet(Interfaces(f)) : height[i] < height[f]
<1> DEFINE s == WithErased(f)
           ss == [i \in DOMAIN s |-> Implemented(s[i])]
<1>1. /\ s \in Seq(DOMAIN program)
      /\ \A d \in ToSet(s) : Implemented(d) \in Seq(Fqns) /\ \A i \in ToSet(Implemented(d)) : height[i] < height[f]
  BY DEF Sound, Ordered, ProgramOrdered
<1>2. /\ Len(s) \in Nat /\ DOMAIN s = 1 .. Len(s) /\ \A i \in 1 .. Len(s) : s[i] \in ToSet(s)
      /\ \A d \in ToSet(s) : \E i \in 1 .. Len(s) : s[i] = d
  BY <1>1, Elements
<1>3. Interfaces(f) = Distinct(FlattenSeq(ss))
  BY DEF Interfaces, FlatMap
<1>4. \A i \in 1 .. Len(s) : ss[i] = Implemented(s[i])
  BY <1>2
<1>5. ss = [i \in DOMAIN s |-> ss[i]]
  OBVIOUS
<1> HIDE DEF s, ss
<1>6. \A i \in 1 .. Len(s) : ss[i] \in Seq(Fqns)
  BY <1>1, <1>2, <1>4
<1>7. /\ FlattenSeq(ss) \in Seq(Fqns)
      /\ \A e : e \in ToSet(FlattenSeq(ss)) <=> \E i \in 1 .. Len(s) : e \in ToSet(ss[i])
  <2>1. s \in Seq(DOMAIN program)
    BY <1>1
  <2> QED BY <1>5, <1>6, <2>1, PartsOf
<1>8. Interfaces(f) \in Seq(Fqns) /\ ToSet(Interfaces(f)) = ToSet(FlattenSeq(ss))
  BY <1>3, <1>7, DistinctElements
<1>9. \A e : e \in ToSet(Interfaces(f)) <=> \E d \in ToSet(s) : e \in ToSet(Implemented(d))
  BY <1>2, <1>4, <1>7, <1>8
<1>10. \A i \in ToSet(Interfaces(f)) : height[i] < height[f]
  BY <1>1, <1>9
<1> QED BY <1>8, <1>9, <1>10 DEF s

-----------------------------------------------------------------------------
(* The type of a declaration before it is settled                          *)
Declared(f) ==
  LET d == program[f] ctor == Constructor(f) IN
  [kind |-> d.kind, abstract |-> d.kind = "class" /\ d.abstract, datatype |-> FALSE,
   base |-> IF d.kind = "class" THEN BaseOf(f) ELSE None,
   interfaces |-> Interfaces(f), members |-> d.values,
   initializer |->
     CASE d.kind # "class" -> << >>
       [] ctor # << >>    -> IF ctor[1].private THEN << >>
                             ELSE <<[parameters |-> ToParameters(ctor[1].params)]>>
       [] BaseOf(f) # None -> << >>
       [] OTHER -> <<[parameters |-> << >>]>>,
   methods |-> VisitMethods(f), properties |-> VisitProperties(f)]

(* Properties of a struct, all of them readonly *)
Fixed(properties) == {[p EXCEPT !.immutable = TRUE] : p \in properties}

(* The type of a declaration once everything is settled, whether or not    *)
(* the program is right.                                                   *)
Final(f) ==
  IF IsStruct[f] THEN [Meaning(f) EXCEPT !.properties = Fixed(@)] ELSE Meaning(f)

(* What no settling changes                                                *)
Reads(f, type) ==
  /\ type.kind = program[f].kind
  /\ type.base = IF program[f].kind = "class" THEN BaseOf(f) ELSE None
  /\ type.interfaces = Interfaces(f)
  /\ type.methods = VisitMethods(f)
  /\ {p.name : p \in type.properties} = {p.name : p \in VisitProperties(f)}
  /\ program[f].kind = "class" => type.properties = VisitProperties(f)

(* To make properties readonly keeps their names, and once is as good as   *)
(* twice.                                                                  *)
LEMMA FixedNames ==
  ASSUME NEW f
  PROVE  /\ {p.name : p \in Fixed(VisitProperties(f))} = {p.name : p \in VisitProperties(f)}
         /\ {p.name : p \in Fixed(Fixed(VisitProperties(f)))} = {p.name : p \in VisitProperties(f)}
         /\ Fixed(Fixed(VisitProperties(f))) = Fixed(VisitProperties(f))
         /\ \A p \in Fixed(VisitProperties(f)) : p.immutable
         /\ (\A p \in VisitProperties(f) : p.immutable = TRUE) => Fixed(VisitProperties(f)) = VisitProperties(f)
<1> DEFINE P == VisitProperties(f)
           D == {"name", "type", "optional", "immutable", "abstract", "protected", "static", "const", "overrides"}
<1>1. \A p \in P : p = [x \in D |-> p[x]]
  BY DEF VisitProperties, VisitProperty
<1> HIDE DEF P
<1> DEFINE q(p) == [p EXCEPT !.immutable = TRUE]
<1>2. \A p \in P : /\ q(p).name = p.name /\ q(p).immutable = TRUE
                   /\ q(q(p)) = q(p)
                   /\ p.immutable = TRUE => q(p) = p
  BY <1>1
<1>3. \A S : Fixed(S) = {q(p) : p \in S}
  BY DEF Fixed
<1> HIDE DEF q
<1>4. {p.name : p \in Fixed(P)} = {p.name : p \in P}
  BY <1>2, <1>3
<1>5. Fixed(Fixed(P)) = Fixed(P)
  <2>1. Fixed(P) = {q(p) : p \in P} /\ Fixed(Fixed(P)) = {q(p) : p \in Fixed(P)}
    BY <1>3
  <2> QED BY <1>2, <2>1
<1>6. \A p \in Fixed(P) : p.immutable
  BY <1>2, <1>3
<1>7. (\A p \in P : p.immutable = TRUE) => Fixed(P) = P
  <2>1. Fixed(P) = {q(p) : p \in P}
    BY <1>3
  <2> QED BY <1>2, <2>1
<1> QED BY <1>4, <1>5, <1>6, <1>7 DEF P

LEMMA VisitedTypeIs ==
  ASSUME NEW f
  PROVE  VisitedType(f) = IF program[f].kind = "interface" /\ VisibleBases[f] = << >>
                          THEN SettleDatatype(f, Declared(f), {}) ELSE Declared(f)
BY DEF VisitedType, Declared

TypeFields == {"kind", "abstract", "datatype", "base", "interfaces", "members", "initializer", "methods", "properties"}

LEMMA DeclaredIs ==
  ASSUME NEW f
  PROVE  LET type == Declared(f) IN
         /\ type = [x \in TypeFields |-> type[x]]
         /\ type.kind = program[f].kind /\ type.datatype = FALSE
         /\ type.base = IF program[f].kind = "class" THEN BaseOf(f) ELSE None
         /\ type.interfaces = Interfaces(f)
         /\ type.methods = VisitMethods(f) /\ type.properties = VisitProperties(f)
<1> DEFINE init ==
     CASE program[f].kind # "class" -> << >>
       [] Constructor(f) # << >>    -> IF Constructor(f)[1].private THEN << >>
                             ELSE <<[parameters |-> ToParameters(Constructor(f)[1].params)]>>
       [] BaseOf(f) # None -> << >>
       [] OTHER -> <<[parameters |-> << >>]>>
<1>1. Declared(f) =
  [kind |-> program[f].kind, abstract |-> program[f].kind = "class" /\ program[f].abstract, datatype |-> FALSE,
   base |-> IF program[f].kind = "class" THEN BaseOf(f) ELSE None,
   interfaces |-> Interfaces(f), members |-> program[f].values,
   initializer |-> init,
   methods |-> VisitMethods(f), properties |-> VisitProperties(f)]
  BY DEF Declared
<1> HIDE DEF init
<1> QED BY <1>1 DEF TypeFields

(* The three kinds, settled *)
LEMMA FinalIs ==
  ASSUME NEW height, NEW top, Sound(height, top), NEW f \in Listed
  PROVE  /\ program[f].kind = "class" =>
              /\ VisitedType(f) = Declared(f)
              /\ Final(f) = [Declared(f) EXCEPT !.initializer = InheritedInitializer[f]]
              /\ Constructor(f) # << >> \/ VisibleBases[f] = << >> => VisitedType(f) = Final(f)
         /\ program[f].kind = "interface" =>
              /\ Final(f) = IF IsStruct[f] THEN [Declared(f) EXCEPT !.datatype = TRUE, !.properties = Fixed(@)]
                            ELSE Declared(f)
              /\ VisitedType(f) = IF VisibleBases[f] = << >> THEN Final(f) ELSE Declared(f)
         /\ program[f].kind = "enum" => VisitedType(f) = Declared(f) /\ Final(f) = Declared(f)
         /\ Final(f).datatype = IsStruct[f]
         /\ Final(f).properties = IF IsStruct[f] THEN Fixed(VisitProperties(f)) ELSE VisitProperties(f)
<1> DEFINE t == Declared(f)
           type == VisitedType(f)
<1>1. /\ t = [x \in TypeFields |-> t[x]]
      /\ t.datatype = FALSE /\ t.methods = VisitMethods(f) /\ t.properties = VisitProperties(f)
  BY DeclaredIs
<1>2. type = IF program[f].kind = "interface" /\ VisibleBases[f] = << >> THEN SettleDatatype(f, t, {}) ELSE t
  BY VisitedTypeIs
<1>3. f \in Fqns /\ IsStruct[f] \in BOOLEAN
      /\ (IsStruct[f] <=> /\ program[f].kind = "interface"
                          /\ VisitMethods(f) = {}
                          /\ \A b \in ToSet(VisibleBases[f]) : IsStruct[b]
                          /\ ~ isInterfaceName(f))
  BY StructsAre, ListedBases
<1>4. Meaning(f) = [type EXCEPT !.datatype = IsStruct[f],
                      !.initializer = IF program[f].kind = "class" THEN InheritedInitializer[f] ELSE @]
  BY DEF Meaning
<1>4a. type = [x \in TypeFields |-> type[x]]
  <2>1. SettleDatatype(f, t, {}) = [x \in TypeFields |-> SettleDatatype(f, t, {})[x]]
    BY <1>1 DEF SettleDatatype, TypeFields
  <2> QED BY <1>1, <1>2, <2>1
<1>4b. program[f].kind # "class" => Meaning(f) = [type EXCEPT !.datatype = IsStruct[f]]
  BY <1>4, <1>4a DEF TypeFields
<1>5. InheritedInitializer[f] = IF Constructor(f) # << >> \/ BaseOf(f) = None THEN type.initializer
                                ELSE InheritedInitializer[BaseOf(f)]
  BY <1>3, InitializersAre
<1>6. VisibleBases[f] = << >> => BaseOf(f) = None /\ ToSet(VisibleBases[f]) = {}
  BY ListedBases
<1> HIDE DEF t, type
<1>7. CASE program[f].kind = "class"
  <2>1. type = t /\ IsStruct[f] = FALSE
    BY <1>2, <1>3, <1>7
  <2>2. Meaning(f) = [t EXCEPT !.initializer = InheritedInitializer[f]]
    BY <1>1, <1>4, <1>7, <2>1 DEF TypeFields
  <2>3. Final(f) = Meaning(f)
    BY <2>1 DEF Final
  <2>4. Final(f).datatype = FALSE /\ Final(f).properties = VisitProperties(f)
    BY <1>1, <2>2, <2>3 DEF TypeFields
  <2>5. Constructor(f) # << >> \/ VisibleBases[f] = << >> => type = Final(f)
    <3>1. Constructor(f) # << >> \/ VisibleBases[f] = << >> => InheritedInitializer[f] = t.initializer
      BY <1>5, <1>6, <2>1
    <3> QED BY <1>1, <2>1, <2>2, <2>3, <3>1 DEF TypeFields
  <2> QED BY <1>7, <2>1, <2>2, <2>3, <2>4, <2>5 DEF t, type
<1>8. CASE program[f].kind = "interface"
  <2> DEFINE st == [t EXCEPT !.datatype = TRUE, !.properties = Fixed(@)]
  <2>1. CASE VisibleBases[f] = << >>
    <3>1. IsStruct[f] <=> VisitMethods(f) = {} /\ ~ isInterfaceName(f)
      BY <1>3, <1>6, <1>8, <2>1
    <3>2. type = IF IsStruct[f] THEN st ELSE t
      BY <1>1, <1>2, <1>8, <2>1, <3>1 DEF SettleDatatype, IsDatatype, Fixed
    <3>3. Meaning(f) = type
      <4>1. type.datatype = IsStruct[f]
        BY <1>1, <1>3, <3>2 DEF TypeFields
      <4> QED BY <1>4a, <1>4b, <1>8, <4>1 DEF TypeFields
    <3>4. [st EXCEPT !.properties = Fixed(@)] = st
      <4>1. st.properties = Fixed(VisitProperties(f)) /\ st = [x \in TypeFields |-> st[x]]
        BY <1>1 DEF TypeFields
      <4> HIDE DEF st
      <4> QED BY <4>1, FixedNames DEF TypeFields
    <3>5. Final(f) = type
      BY <3>2, <3>3, <3>4 DEF Final
    <3>6. type.datatype = IsStruct[f] /\ type.properties = IF IsStruct[f] THEN Fixed(VisitProperties(f)) ELSE VisitProperties(f)
      BY <1>1, <1>3, <3>2 DEF TypeFields
    <3> QED BY <1>8, <2>1, <3>2, <3>5, <3>6 DEF t, type
  <2>2. CASE VisibleBases[f] # << >>
    <3>1. type = t
      BY <1>2, <2>2
    <3>2. Meaning(f) = [t EXCEPT !.datatype = IsStruct[f]]
      BY <1>4b, <1>8, <3>1
    <3>3. Final(f) = IF IsStruct[f] THEN st ELSE t
      BY <1>1, <1>3, <3>2 DEF Final, TypeFields
    <3>4. Final(f).datatype = IsStruct[f] /\ Final(f).properties = IF IsStruct[f] THEN Fixed(VisitProperties(f)) ELSE VisitProperties(f)
      BY <1>1, <1>3, <3>3 DEF TypeFields
    <3> QED BY <1>8, <2>2, <3>1, <3>3, <3>4 DEF t, type
  <2> QED BY <2>1, <2>2
<1>9. CASE program[f].kind = "enum"
  <2>1. type = t /\ IsStruct[f] = FALSE
    BY <1>2, <1>3, <1>9
  <2>2. Meaning(f) = t
    BY <1>1, <1>4b, <1>9, <2>1 DEF TypeFields
  <2>3. Final(f) = t
    BY <2>1, <2>2 DEF Final
  <2> QED BY <1>1, <1>9, <2>1, <2>3 DEF t, type
<1> QED BY <1>7, <1>8, <1>9 DEF Sound, ProgramTyped

(* Before and after it is settled, a type says the same of what no check   *)
(* settles.                                                                *)
LEMMA TypesRead ==
  ASSUME NEW height, NEW top, Sound(height, top), NEW f \in Listed
  PROVE  Reads(f, VisitedType(f)) /\ Reads(f, Final(f))
<1> DEFINE t == Declared(f)
           st == [t EXCEPT !.datatype = TRUE, !.properties = Fixed(@)]
           ct == [t EXCEPT !.initializer = InheritedInitializer[f]]
<1>1. /\ t = [x \in TypeFields |-> t[x]]
      /\ t.kind = program[f].kind /\ t.datatype = FALSE
      /\ t.base = IF program[f].kind = "class" THEN BaseOf(f) ELSE None
      /\ t.interfaces = Interfaces(f)
      /\ t.methods = VisitMethods(f) /\ t.properties = VisitProperties(f)
  BY DeclaredIs
<1> HIDE DEF t
<1>2. Reads(f, t) /\ Reads(f, ct)
  BY <1>1 DEF Reads, TypeFields
<1>3. program[f].kind = "interface" => Reads(f, st)
  BY <1>1, FixedNames DEF Reads, TypeFields
<1>4. program[f].kind \in {"class", "interface", "enum"}
  BY DEF Sound, ProgramTyped
<1> HIDE DEF st, ct
<1> QED BY <1>2, <1>3, <1>4, FinalIs DEF t, st, ct

-----------------------------------------------------------------------------
(* What the types say when all are visited and what they extend and        *)
(* implement is there and of the right kind                                *)
HeritageHolds(f) ==
  /\ \A s \in ToSet(VisibleBases[f]) \cup ToSet(Interfaces(f)) : Exists(s)
  /\ \A s \in ToSet(Interfaces(f)) : KindOf(s) = "interface"
  /\ program[f].kind = "class" => \A s \in ToSet(VisibleBases[f]) : KindOf(s) = "class"

MemberNamesOf(f) == {m.name : m \in MembersOf(f)}

Gathered(height, top) ==
  /\ Sound(height, top) /\ \A f \in Listed : HeritageHolds(f)
  /\ DOMAIN types = Listed
  /\ \A f \in Listed : Reads(f, types[f])

LEMMA NamesOfMembers ==
  ASSUME NEW f
  PROVE  /\ f \in Listed => MemberNamesOf(f) = {m.name : m \in VisitMethods(f)} \cup {p.name : p \in VisitProperties(f)}
         /\ f \notin Listed => MemberNamesOf(f) = MemberNames(Foreign[f])
<1>1. CASE f \in Listed
  <2>1. MembersOf(f) = VisitMethods(f) \cup VisitProperties(f)
    BY <1>1 DEF MembersOf
  <2> QED BY <1>1, <2>1 DEF MemberNamesOf
<1>2. CASE f \notin Listed
  <2>1. MembersOf(f) = Foreign[f].methods \cup Foreign[f].properties
    BY <1>2 DEF MembersOf
  <2> QED BY <1>2, <2>1 DEF MemberNamesOf, MemberNames
<1> QED BY <1>1, <1>2

(* The types that are registered or loaded are those that exist, each of   *)
(* its kind.                                                               *)
LEMMA TypesKnown ==
  ASSUME NEW height, NEW top, Gathered(height, top), NEW r \in Fqns
  PROVE  /\ Known(r) <=> Exists(r)
         /\ r \in Listed => Exists(r) /\ TypeOf(r) = types[r]
         /\ r \notin Listed => TypeOf(r) = Foreign[r]
         /\ Exists(r) => TypeOf(r).kind = KindOf(r) /\ MemberNames(TypeOf(r)) = MemberNamesOf(r)
<1>1. Known(r) <=> Exists(r)
  BY DEF Gathered, Known, Exists
<1>2. r \in Listed => Exists(r) /\ TypeOf(r) = types[r]
  BY DEF Gathered, TypeOf, Exists
<1>3. r \notin Listed => TypeOf(r) = Foreign[r]
  BY DEF Gathered, TypeOf
<1>4. CASE r \in Listed
  <2> DEFINE t == types[r]
  <2>1. /\ t.kind = program[r].kind
        /\ {m.name : m \in t.methods} = {m.name : m \in VisitMethods(r)}
        /\ {p.name : p \in t.properties} = {p.name : p \in VisitProperties(r)}
    BY <1>4 DEF Gathered, Reads
  <2>2. MemberNames(t) = MemberNamesOf(r)
    BY <1>4, <2>1, NamesOfMembers DEF MemberNames
  <2> QED BY <1>1, <1>2, <1>4, <2>1, <2>2 DEF KindOf
<1>5. CASE r \notin Listed
  BY <1>1, <1>3, <1>5, NamesOfMembers DEF KindOf
<1> QED BY <1>1, <1>2, <1>3, <1>4, <1>5

(* What a type says it extends is what its declaration extends. *)
LEMMA SupersKnown ==
  ASSUME NEW height, NEW top, Gathered(height, top), NEW r \in Fqns, Exists(r)
  PROVE  /\ TypeOf(r).interfaces \in Seq(Fqns)
         /\ \A i \in ToSet(TypeOf(r).interfaces) : i \in Fqns /\ height[i] < height[r]
         /\ KindOf(r) = "interface" =>
              ToSet(TypeOf(r).interfaces) = Supers(r) /\ \A s \in Supers(r) : Exists(s) /\ KindOf(s) = "interface"
         /\ KindOf(r) = "class" =>
              /\ Supers(r) = IF TypeOf(r).base = None THEN {} ELSE {TypeOf(r).base}
              /\ \A s \in Supers(r) : Exists(s) /\ KindOf(s) = "class"
         /\ IsStruct[r] => KindOf(r) = "interface" /\ \A s \in Supers(r) : IsStruct[s]
<1>0. Sound(height, top)
  BY DEF Gathered
<1>0a. Supers(r) \subseteq Fqns
  BY <1>0, SupersAreLower DEF Exists
<1>1. CASE r \in Listed
  <2> DEFINE t == types[r]
  <2>1. /\ TypeOf(r) = t /\ KindOf(r) = program[r].kind
        /\ t.base = IF program[r].kind = "class" THEN BaseOf(r) ELSE None
        /\ t.interfaces = Interfaces(r)
    BY <1>1, TypesKnown DEF Gathered, Reads, KindOf
  <2> HIDE DEF t
  <2>2. /\ VisibleBases[r] \in Seq(Fqns) /\ ToSet(VisibleBases[r]) \subseteq Fqns
        /\ \A b \in ToSet(VisibleBases[r]) : height[b] < height[r]
        /\ Supers(r) = ToSet(VisibleBases[r])
        /\ program[r].kind # "class" => Interfaces(r) = VisibleBases[r]
        /\ VisibleBases[r] = << >> => BaseOf(r) = None /\ Supers(r) = {}
        /\ VisibleBases[r] # << >> => /\ BaseOf(r) = VisibleBases[r][1] /\ BaseOf(r) # None
                                      /\ BaseOf(r) \in ToSet(VisibleBases[r])
    BY <1>0, <1>1, ListedBases
  <2>3. Interfaces(r) \in Seq(Fqns) /\ \A i \in ToSet(Interfaces(r)) : height[i] < height[r]
    BY <1>0, <1>1, <2>2, InterfacesAre
  <2>4. \A i \in ToSet(Interfaces(r)) : i \in Fqns
    BY <2>3, Elements
  <2>5. HeritageHolds(r)
    BY <1>1 DEF Gathered
  <2>6. ASSUME KindOf(r) = "interface"
        PROVE  Interfaces(r) = VisibleBases[r] /\ \A s \in Supers(r) : Exists(s) /\ KindOf(s) = "interface"
    BY <2>1, <2>2, <2>5, <2>6 DEF HeritageHolds
  <2>7. ASSUME KindOf(r) = "class"
        PROVE  /\ Supers(r) = IF t.base = None THEN {} ELSE {t.base}
               /\ \A s \in Supers(r) : Exists(s) /\ KindOf(s) = "class"
    <3>1. \A s \in Supers(r) : Exists(s) /\ KindOf(s) = "class"
      BY <2>1, <2>2, <2>5, <2>7 DEF HeritageHolds
    <3>2. t.base = BaseOf(r) /\ Len(VisibleBases[r]) <= 1
      BY <1>0, <1>1, <2>1, <2>7 DEF Sound, ProgramTyped
    <3>3. VisibleBases[r] # << >> => Supers(r) = {BaseOf(r)}
      <4>1. \A b \in ToSet(VisibleBases[r]) : \E i \in 1 .. Len(VisibleBases[r]) : VisibleBases[r][i] = b
        BY <2>2, Elements
      <4>2. Len(VisibleBases[r]) \in Nat
        BY <2>2, Elements
      <4> QED BY <2>2, <3>2, <4>1, <4>2
    <3> QED BY <2>2, <3>1, <3>2, <3>3
  <2>8. IsStruct[r] => KindOf(r) = "interface" /\ \A s \in Supers(r) : IsStruct[s]
    BY <1>0, <1>1, <2>1, <2>2, StructsAre
  <2> QED BY <2>1, <2>2, <2>3, <2>4, <2>6, <2>7, <2>8
<1>2. CASE r \notin Listed
  <2> DEFINE t == Foreign[r]
  <2>1. r \in ForeignTypes /\ r \in DOMAIN Foreign /\ TypeOf(r) = t /\ KindOf(r) = t.kind
    BY <1>2, TypesKnown DEF Exists, ForeignTypes, KindOf
  <2>2. /\ t.base # None => t.base \in Fqns /\ height[t.base] < height[r]
        /\ t.interfaces \in Seq(Fqns)
        /\ \A i \in ToSet(t.interfaces) : height[i] < height[r]
    BY <1>0, <2>1 DEF Sound, Ordered, ForeignOrdered
  <2>3. \A i \in ToSet(t.interfaces) : i \in Fqns
    BY <2>2, Elements
  <2>4. Supers(r) = (IF t.base = None THEN {} ELSE {t.base})
                      \cup (IF IsInterface(t) THEN ToSet(t.interfaces) ELSE {})
    BY <1>2 DEF Supers
  <2>5. /\ t.datatype \in BOOLEAN
        /\ t.datatype => /\ IsInterface(t) /\ \A i \in ToSet(t.interfaces) : Foreign[i].datatype
        /\ IsClass(t) /\ t.base # None => t.base \in ForeignTypes /\ IsClass(Foreign[t.base])
        /\ IsInterface(t) => /\ t.base = None
                             /\ \A i \in ToSet(t.interfaces) : i \in ForeignTypes /\ IsInterface(Foreign[i])
    BY <1>0, <2>1 DEF Sound, ForeignSound
  <2>6. \A i \in ForeignTypes : i \notin Listed /\ Exists(i) /\ KindOf(i) = Foreign[i].kind
    BY <1>0 DEF Sound, ForeignSound, Exists, KindOf
  <2>7. ASSUME IsStruct[r]
        PROVE  IsInterface(t) /\ \A s \in Supers(r) : IsStruct[s]
    <3>1. IsInterface(t) /\ \A i \in ToSet(t.interfaces) : Foreign[i].datatype
      BY <1>0, <1>2, <2>5, <2>7, StructsAre
    <3>2. Supers(r) = ToSet(t.interfaces)
      BY <2>4, <2>5, <3>1
    <3>3. \A s \in Supers(r) : s \in ForeignTypes /\ s \notin Listed /\ s \in Fqns
      BY <1>0a, <2>5, <2>6, <3>1, <3>2
    <3> QED BY <1>0, <3>1, <3>2, <3>3, StructsAre
  <2> HIDE DEF t
  <2>8. ASSUME KindOf(r) = "interface"
        PROVE  ToSet(t.interfaces) = Supers(r) /\ \A s \in Supers(r) : Exists(s) /\ KindOf(s) = "interface"
    BY <2>1, <2>4, <2>5, <2>6, <2>8 DEF IsInterface
  <2>9. ASSUME KindOf(r) = "class"
        PROVE  /\ Supers(r) = IF t.base = None THEN {} ELSE {t.base}
               /\ \A s \in Supers(r) : Exists(s) /\ KindOf(s) = "class"
    BY <2>1, <2>4, <2>5, <2>6, <2>9 DEF IsInterface, IsClass
  <2> QED BY <2>1, <2>2, <2>3, <2>7, <2>8, <2>9 DEF IsInterface
<1> QED BY <1>1, <1>2

-----------------------------------------------------------------------------
(* allProperties of what is known                                          *)
LEMMA AllPropertiesAre ==
  ASSUME NEW height, NEW top, Gathered(height, top), NEW f \in Fqns
  PROVE  AllProperties[f] =
           IF ~ Known(f) THEN {}
           ELSE {p.name : p \in TypeOf(f).properties} \cup UNION {AllProperties[i] : i \in ToSet(TypeOf(f).interfaces)}
<1> DEFINE own(e) == {p.name : p \in TypeOf(e).properties}
           Body(g, e) == IF ~ Known(e) THEN {} ELSE own(e) \cup UNION {g[i] : i \in ToSet(TypeOf(e).interfaces)}
           V == SUBSET UNION {own(e) : e \in Fqns}
           F == [g \in [Fqns -> V] |-> [e \in Fqns |-> Body(g, e)]]
           Equation(g) == g = [e \in Fqns |-> Body(g, e)]
<1>0. ASSUME NEW e \in Fqns, Known(e)
      PROVE  \A i \in ToSet(TypeOf(e).interfaces) : i \in Fqns /\ height[i] < height[e]
  BY <1>0, TypesKnown, SupersKnown
<1>1. ASSUME NEW g \in [Fqns -> V], NEW e \in Fqns
      PROVE  Body(g, e) \in V
  <2>1. own(e) \in V
    OBVIOUS
  <2>2. Known(e) => \A i \in ToSet(TypeOf(e).interfaces) : g[i] \in V
    BY <1>0
  <2> HIDE DEF own
  <2> QED BY <2>1, <2>2
<1>2. ASSUME NEW g \in [Fqns -> V], NEW h \in [Fqns -> V], NEW d \in Fqns,
             \A e \in Fqns : height[e] < height[d] => g[e] = h[e]
      PROVE  Body(g, d) = Body(h, d)
  <2>1. Known(d) => \A i \in ToSet(TypeOf(d).interfaces) : g[i] = h[i]
    BY <1>0, <1>2
  <2> HIDE DEF own
  <2> QED BY <2>1
<1>3. V # {}
  OBVIOUS
<1>9. AllProperties = CHOOSE g : Equation(g)
  BY DEF AllProperties
<1> HIDE DEF Body, V, own
<1>4. F \in [[Fqns -> V] -> [Fqns -> V]]
  BY <1>1
<1>5. \A g, h \in [Fqns -> V] : \A d \in Fqns :
        (\A e \in Fqns : height[e] < height[d] => g[e] = h[e]) => F[g][d] = F[h][d]
  BY <1>2
<1>6. LooksDown(F, Fqns, V, height, top)
  <2> HIDE DEF F
  <2> QED BY <1>3, <1>4, <1>5 DEF LooksDown, Gathered, Sound
<1>7. PICK g \in [Fqns -> V] : g = F[g]
  <2> HIDE DEF F
  <2> QED BY <1>6, FixedPoint
<1>8. Equation(g)
  BY <1>7
<1> DEFINE r == AllProperties
<1>10. Equation(r)
  BY <1>8, <1>9
<1> HIDE DEF r
<1>11. r[f] = Body(r, f)
  BY <1>10
<1> QED BY <1>11 DEF Body, r, own

(* Whether one of the ancestors is lost *)
LEMMA BrokenAncestryIs ==
  ASSUME NEW height, NEW top, Gathered(height, top), NEW f \in Fqns
  PROVE  BrokenAncestry[f] <=>
           /\ Known(f)
           /\ \E i \in ToSet(TypeOf(f).interfaces) : ~ Known(i) \/ ~ IsInterface(TypeOf(i)) \/ BrokenAncestry[i]
<1> DEFINE lost(i) == ~ Known(i) \/ ~ IsInterface(TypeOf(i))
           Body(g, e) == Known(e) /\ \E i \in ToSet(TypeOf(e).interfaces) : ~ Known(i) \/ ~ IsInterface(TypeOf(i)) \/ g[i]
           V == BOOLEAN
           F == [g \in [Fqns -> V] |-> [e \in Fqns |-> Body(g, e)]]
           Equation(g) == g = [e \in Fqns |-> Body(g, e)]
<1>0. ASSUME NEW e \in Fqns, Known(e)
      PROVE  \A i \in ToSet(TypeOf(e).interfaces) : i \in Fqns /\ height[i] < height[e]
  BY <1>0, TypesKnown, SupersKnown
<1>1. ASSUME NEW g \in [Fqns -> V], NEW e \in Fqns
      PROVE  Body(g, e) \in V
  OBVIOUS
<1>2. ASSUME NEW g \in [Fqns -> V], NEW h \in [Fqns -> V], NEW d \in Fqns,
             \A e \in Fqns : height[e] < height[d] => g[e] = h[e]
      PROVE  Body(g, d) = Body(h, d)
  <2>1. Known(d) => \A i \in ToSet(TypeOf(d).interfaces) : g[i] = h[i]
    BY <1>0, <1>2
  <2> QED BY <2>1
<1>3. V # {}
  OBVIOUS
<1>9. BrokenAncestry = CHOOSE g : Equation(g)
  BY DEF BrokenAncestry
<1> HIDE DEF Body, V
<1>4. F \in [[Fqns -> V] -> [Fqns -> V]]
  BY <1>1
<1>5. \A g, h \in [Fqns -> V] : \A d \in Fqns :
        (\A e \in Fqns : height[e] < height[d] => g[e] = h[e]) => F[g][d] = F[h][d]
  BY <1>2
<1>6. LooksDown(F, Fqns, V, height, top)
  <2> HIDE DEF F
  <2> QED BY <1>3, <1>4, <1>5 DEF LooksDown, Gathered, Sound
<1>7. PICK g \in [Fqns -> V] : g = F[g]
  <2> HIDE DEF F
  <2> QED BY <1>6, FixedPoint
<1>8. Equation(g)
  BY <1>7
<1> DEFINE r == BrokenAncestry
<1>10. Equation(r)
  BY <1>8, <1>9
<1> HIDE DEF r
<1>11. r[f] = Body(r, f)
  BY <1>10
<1> QED BY <1>11 DEF Body, r

(* The names of a type and of all its ancestors                            *)
LEMMA KeywordsAre ==
  ASSUME NEW height, NEW top, Sound(height, top), NEW f \in Fqns, Exists(f)
  PROVE  Keywords(f) = MemberNamesOf(f) \cup UNION {Keywords(s) : s \in Supers(f)}
<1>1. Ancestors[f] = Supers(f) \cup UNION {Ancestors[s] : s \in Supers(f)}
  BY AncestorsAre DEF Exists
<1>2. \A n, g : n \in Keywords(g) <=> \E a \in {g} \cup Ancestors[g] : n \in MemberNamesOf(a)
  BY DEF Keywords, MemberNamesOf
<1>3. \A n : n \in Keywords(f) <=> n \in MemberNamesOf(f) \/ \E s \in Supers(f) : n \in Keywords(s)
  BY <1>1, <1>2
<1> QED BY <1>3

(* A struct's properties are those that its type and ancestors declare, and *)
(* its ancestry is never broken.                                            *)
LEMMA StructKeywords ==
  ASSUME NEW height, NEW top, Gathered(height, top), NEW r \in Fqns, IsStruct[r]
  PROVE  Exists(r) /\ AllProperties[r] = Keywords(r) /\ ~ BrokenAncestry[r]
<1> DEFINE Good(f) == AllProperties[f] = Keywords(f) /\ ~ BrokenAncestry[f]
           T == {height[f] : f \in {f \in Fqns : IsStruct[f] /\ ~ Good(f)}}
<1>0. Sound(height, top) /\ height \in [Fqns -> 0 .. top] /\ top \in Nat
  BY DEF Gathered, Sound
<1>1. \A f \in Fqns : IsStruct[f] => Exists(f)
  BY <1>0, StructsAre DEF Exists
<1>2. ASSUME T # {} PROVE FALSE
  <2>1. T \subseteq Nat
    <3> HIDE DEF Good
    <3> QED BY <1>0
  <2>2. PICK n \in T : \A k \in T : n <= k
    BY <1>2, <2>1, LeastNumber
  <2>3. PICK f \in Fqns : IsStruct[f] /\ ~ Good(f) /\ height[f] = n
    OBVIOUS
  <2>4. \A g \in Fqns : IsStruct[g] /\ height[g] < height[f] => Good(g)
    <3> HIDE DEF Good
    <3>1. \A g \in Fqns : height[g] \in Nat
      BY <1>0
    <3> QED BY <2>2, <2>3, <3>1
  <2>5. /\ Exists(f) /\ Known(f) /\ KindOf(f) = "interface"
        /\ ToSet(TypeOf(f).interfaces) = Supers(f)
        /\ \A s \in Supers(f) : /\ s \in Fqns /\ height[s] < height[f] /\ IsStruct[s]
                                /\ Known(s) /\ IsInterface(TypeOf(s)) /\ Good(s)
    <3>1. Exists(f) /\ Known(f)
      BY <1>1, <2>3, TypesKnown
    <3>2. /\ KindOf(f) = "interface" /\ ToSet(TypeOf(f).interfaces) = Supers(f)
          /\ \A s \in Supers(f) : s \in Fqns /\ height[s] < height[f] /\ IsStruct[s] /\ Exists(s) /\ KindOf(s) = "interface"
      BY <2>3, <3>1, SupersKnown
    <3>3. \A s \in Supers(f) : Known(s) /\ IsInterface(TypeOf(s))
      BY <3>2, TypesKnown DEF IsInterface
    <3> HIDE DEF Good
    <3> QED BY <2>4, <3>1, <3>2, <3>3
  <2>6. ~ BrokenAncestry[f]
    BY <2>5, BrokenAncestryIs
  <2>7. {p.name : p \in TypeOf(f).properties} = MemberNamesOf(f)
    <3>1. CASE f \in Listed
      <4>1. VisitMethods(f) = {}
        BY <1>0, <2>3, <3>1, StructsAre
      <4>2. TypeOf(f) = types[f] /\ Reads(f, types[f])
        BY <3>1, TypesKnown DEF Gathered
      <4> QED BY <3>1, <4>1, <4>2, NamesOfMembers DEF Reads
    <3>2. CASE f \notin Listed
      <4>1. f \in ForeignTypes /\ TypeOf(f) = Foreign[f]
        BY <2>5, <3>2, TypesKnown DEF Exists
      <4>2. Foreign[f].methods = {}
        BY <1>0, <2>3, <3>2, <4>1, StructsAre DEF Sound, ForeignSound
      <4> QED BY <3>2, <4>1, <4>2, NamesOfMembers DEF MemberNames
    <3> QED BY <3>1, <3>2
  <2>8. AllProperties[f] = MemberNamesOf(f) \cup UNION {AllProperties[s] : s \in Supers(f)}
    BY <2>5, <2>7, AllPropertiesAre
  <2>9. Keywords(f) = MemberNamesOf(f) \cup UNION {Keywords(s) : s \in Supers(f)}
    BY <1>0, <2>5, KeywordsAre
  <2>10. {AllProperties[s] : s \in Supers(f)} = {Keywords(s) : s \in Supers(f)}
    BY <2>5
  <2> QED BY <2>3, <2>6, <2>8, <2>9, <2>10
<1>3. Good(r)
  <2> HIDE DEF Good
  <2> QED BY <1>2
<1> QED BY <1>1, <1>3

-----------------------------------------------------------------------------
(* What is deferred, check by check                                        *)
Check(fqn, check, self, refs, names) ==
  [fqn |-> fqn, deps |-> ToSet(refs), check |-> check, self |-> self, refs |-> refs, names |-> names]

(* A check about one type, about several, about what a method lifts       *)
AboutOne(e, f, check, r)  == e = Check(f, check, f, <<r>>, {})
AboutAll(e, f, check, rs) == e = Check(f, check, f, rs, {})

(* _defer does nothing if there is nothing to wait for. *)
LEMMA DeferredIs ==
  ASSUME NEW fqn, NEW check, NEW self, NEW refs, NEW names
  PROVE  \A e : e \in ToSet(Deferred(fqn, check, self, refs, names))
                  <=> refs # << >> /\ e = Check(fqn, check, self, refs, names)
<1> DEFINE c == Check(fqn, check, self, refs, names)
<1>1. Deferred(fqn, check, self, refs, names) = IF refs = << >> THEN << >> ELSE <<c>>
  BY DEF Deferred, Check
<1> HIDE DEF c
<1>2. ToSet(<<c>>) = {c} /\ ToSet(<< >>) = {}
  BY DEF ToSet
<1> QED BY <1>1, <1>2 DEF c

LEMMA DeferredOne ==
  ASSUME NEW fqn, NEW check, NEW self, NEW r, NEW names
  PROVE  \A e : e \in ToSet(Deferred(fqn, check, self, <<r>>, names)) <=> e = Check(fqn, check, self, <<r>>, names)
<1>1. <<r>> # << >>
  OBVIOUS
<1> QED BY <1>1, DeferredIs

(* The elements of sequences of deferred checks *)
LEMMA JoinedElements ==
  ASSUME NEW height, NEW s, NEW t, AllDescend(s, height), AllDescend(t, height)
  PROVE  \A e : e \in ToSet(s \o t) <=> e \in ToSet(s) \/ e \in ToSet(t)
<1> DEFINE G == ToSet(s) \cup ToSet(t)
<1>1. s \in Seq(G) /\ t \in Seq(G)
  BY DEF AllDescend
<1> HIDE DEF G
<1>2. ToSet(s \o t) = ToSet(s) \cup ToSet(t)
  BY <1>1, ConcatElements
<1> QED BY <1>2

LEMMA FlatElements ==
  ASSUME NEW height, NEW S, NEW s \in Seq(S), NEW ss, ss = [i \in DOMAIN s |-> ss[i]],
         \A i \in 1 .. Len(s) : AllDescend(ss[i], height)
  PROVE  \A e : e \in ToSet(FlattenSeq(ss)) <=> \E i \in 1 .. Len(s) : e \in ToSet(ss[i])
<1> DEFINE G == UNION {ToSet(ss[i]) : i \in 1 .. Len(s)}
<1>1. ASSUME NEW i \in 1 .. Len(s)
      PROVE  ss[i] \in Seq(G)
  <2>1. ss[i] \in Seq(ToSet(ss[i])) /\ ToSet(ss[i]) \subseteq G
    BY DEF AllDescend
  <2> QED BY <2>1
<1> HIDE DEF G
<1> QED BY <1>1, PartsOf

(* One check for each of several types, all of them below *)
OneByOne(ss, s, f, check) ==
  ss = [i \in DOMAIN s |-> Deferred(f, check, f, <<s[i]>>, {})]

LowerTypes(s, f, height) ==
  f \in Fqns /\ s \in Seq(Fqns) /\ \A r \in ToSet(s) : height[r] < height[f]

LEMMA OneByOneElements ==
  ASSUME NEW height, NEW f, NEW check, check # "lift", NEW s, LowerTypes(s, f, height),
         NEW ss, OneByOne(ss, s, f, check)
  PROVE  /\ AllDescend(FlattenSeq(ss), height)
         /\ \A e : e \in ToSet(FlattenSeq(ss)) <=> \E r \in ToSet(s) : AboutOne(e, f, check, r)
<1> DEFINE one(r) == Deferred(f, check, f, <<r>>, {})
<1>1. ASSUME NEW r \in ToSet(s)
      PROVE  AllDescend(one(r), height)
  <2>1. r \in Fqns
    BY Elements DEF LowerTypes
  <2>2. <<r>> \in Seq(Fqns) /\ ToSet(<<r>>) = {r}
    BY <2>1 DEF ToSet
  <2>3. \A q \in ToSet(<<r>>) : height[q] < height[f]
    BY <2>2 DEF LowerTypes
  <2> QED BY <2>2, <2>3, DeferredDescends DEF LowerTypes
<1>2. \A r, e : e \in ToSet(one(r)) <=> AboutOne(e, f, check, r)
  BY DeferredOne DEF AboutOne
<1>2a. ss = [i \in DOMAIN s |-> ss[i]] /\ \A i \in 1 .. Len(s) : ss[i] = one(s[i])
  BY LenProperties DEF OneByOne, LowerTypes
<1> HIDE DEF one
<1>3. /\ s \in Seq(Fqns) /\ Len(s) \in Nat /\ DOMAIN s = 1 .. Len(s) /\ \A i \in 1 .. Len(s) : s[i] \in ToSet(s)
      /\ \A r \in ToSet(s) : \E i \in 1 .. Len(s) : s[i] = r
  BY Elements DEF LowerTypes
<1>4. \A i \in 1 .. Len(s) : AllDescend(ss[i], height)
  BY <1>1, <1>2a, <1>3
<1>5. \A e : e \in ToSet(FlattenSeq(ss)) <=> \E i \in 1 .. Len(s) : e \in ToSet(ss[i])
  BY <1>2a, <1>3, <1>4, FlatElements
<1>6. AllDescend(FlattenSeq(ss), height)
  BY <1>2a, <1>3, <1>4, FlatDescends
<1>7. \A e : e \in ToSet(FlattenSeq(ss)) <=> \E r \in ToSet(s) : e \in ToSet(one(r))
  BY <1>2a, <1>3, <1>5
<1> QED BY <1>2, <1>6, <1>7

(* The checks of one "implements" clause, of a visit up to the members, of *)
(* the members                                                             *)
LEMMA InterfaceChecksAre ==
  ASSUME NEW height, NEW f \in Fqns, NEW d, Implemented(d) \in Seq(Fqns),
         \A i \in ToSet(Implemented(d)) : height[i] < height[f]
  PROVE  /\ \A e : e \in ToSet(InterfaceChecks(f, d))
                    <=> \E i \in ToSet(Implemented(d)) : AboutOne(e, f, "isInterface", i)
         /\ \A e : e \in ToSet(StructCheck(f, d))
                    <=> Implemented(d) # << >> /\ AboutAll(e, f, "notStructs", Implemented(d))
<1> DEFINE ss == [i \in DOMAIN Implemented(d) |-> Deferred(f, "isInterface", f, <<Implemented(d)[i]>>, {})]
           one == FlattenSeq(ss)
<1>1. InterfaceChecks(f, d) = one
  BY DEF InterfaceChecks, FlatMap
<1>2. \A e : e \in ToSet(one) <=> \E i \in ToSet(Implemented(d)) : AboutOne(e, f, "isInterface", i)
  <2>1. OneByOne(ss, Implemented(d), f, "isInterface") /\ LowerTypes(Implemented(d), f, height)
    BY DEF OneByOne, LowerTypes
  <2> HIDE DEF ss
  <2> QED BY <2>1, OneByOneElements
<1>3. \A e : e \in ToSet(StructCheck(f, d))
               <=> Implemented(d) # << >> /\ AboutAll(e, f, "notStructs", Implemented(d))
  BY DeferredIs DEF AboutAll, StructCheck
<1> HIDE DEF ss, one
<1> QED BY <1>1, <1>2, <1>3

LEMMA ImplementsChecksAre ==
  ASSUME NEW height, ProgramOrdered(height), NEW f \in Listed, program[f].kind = "class", NEW e
  PROVE  e \in ToSet(ImplementsChecks(f)) <=>
           \E d \in ToSet(WithErased(f)) :
              \/ \E i \in ToSet(Implemented(d)) : AboutOne(e, f, "isInterface", i)
              \/ Implemented(d) # << >> /\ AboutAll(e, f, "notStructs", Implemented(d))
<1> DEFINE s == WithErased(f)
           clauses == [i \in DOMAIN s |-> InterfaceChecks(f, s[i])]
           structs == [i \in DOMAIN s |-> StructCheck(f, s[i])]
<1>1. f \in Fqns
  BY DEF Listed
<1>2. /\ s \in Seq(DOMAIN program)
      /\ \A d \in ToSet(s) : Implemented(d) \in Seq(Fqns) /\ \A j \in ToSet(Implemented(d)) : height[j] < height[f]
  BY DEF ProgramOrdered
<1>3. \A d \in ToSet(s) : AllDescend(InterfaceChecks(f, d), height) /\ AllDescend(StructCheck(f, d), height)
  BY <1>1, <1>2, InterfaceChecksDescend
<1>4. \A d \in ToSet(s) :
        /\ e \in ToSet(InterfaceChecks(f, d)) <=> \E i \in ToSet(Implemented(d)) : AboutOne(e, f, "isInterface", i)
        /\ e \in ToSet(StructCheck(f, d)) <=> Implemented(d) # << >> /\ AboutAll(e, f, "notStructs", Implemented(d))
  BY <1>1, <1>2, InterfaceChecksAre
<1>5. /\ Len(s) \in Nat /\ DOMAIN s = 1 .. Len(s) /\ \A i \in 1 .. Len(s) : s[i] \in ToSet(s)
      /\ \A d \in ToSet(s) : \E i \in 1 .. Len(s) : s[i] = d
  BY <1>2, Elements
<1>6. /\ clauses = [i \in DOMAIN s |-> clauses[i]] /\ \A i \in 1 .. Len(s) : clauses[i] = InterfaceChecks(f, s[i])
      /\ structs = [i \in DOMAIN s |-> structs[i]] /\ \A i \in 1 .. Len(s) : structs[i] = StructCheck(f, s[i])
  BY <1>5
<1>7. ImplementsChecks(f) = FlattenSeq(clauses) \o FlattenSeq(structs)
  BY DEF ImplementsChecks, FlatMap
<1> HIDE DEF s, clauses, structs
<1>8. \A i \in 1 .. Len(s) : AllDescend(clauses[i], height) /\ AllDescend(structs[i], height)
  BY <1>3, <1>5, <1>6
<1>9. AllDescend(FlattenSeq(clauses), height)
      /\ \A x : x \in ToSet(FlattenSeq(clauses)) <=> \E i \in 1 .. Len(s) : x \in ToSet(clauses[i])
  BY <1>2, <1>6, <1>8, FlatDescends, FlatElements
<1>10. AllDescend(FlattenSeq(structs), height)
       /\ \A x : x \in ToSet(FlattenSeq(structs)) <=> \E i \in 1 .. Len(s) : x \in ToSet(structs[i])
  BY <1>2, <1>6, <1>8, FlatDescends, FlatElements
<1>11. e \in ToSet(ImplementsChecks(f)) <=> e \in ToSet(FlattenSeq(clauses)) \/ e \in ToSet(FlattenSeq(structs))
  BY <1>7, <1>9, <1>10, JoinedElements
<1>12. e \in ToSet(FlattenSeq(clauses)) <=> \E d \in ToSet(s) : e \in ToSet(InterfaceChecks(f, d))
  BY <1>5, <1>6, <1>9
<1>13. e \in ToSet(FlattenSeq(structs)) <=> \E d \in ToSet(s) : e \in ToSet(StructCheck(f, d))
  BY <1>5, <1>6, <1>10
<1>14. e \in ToSet(ImplementsChecks(f)) <=>
         \E d \in ToSet(s) : \/ \E i \in ToSet(Implemented(d)) : AboutOne(e, f, "isInterface", i)
                             \/ Implemented(d) # << >> /\ AboutAll(e, f, "notStructs", Implemented(d))
  BY <1>4, <1>11, <1>12, <1>13
<1> QED BY <1>14 DEF s

LEMMA HeritageChecksAre ==
  ASSUME NEW height, ProgramOrdered(height), NEW f \in Listed, NEW e
  PROVE  e \in ToSet(HeritageChecks(f)) <=>
           IF program[f].kind = "class"
           THEN \/ \E b \in ToSet(VisibleBases[f]) : AboutOne(e, f, "isClass", b)
                \/ \E d \in ToSet(WithErased(f)) :
                     \/ \E i \in ToSet(Implemented(d)) : AboutOne(e, f, "isInterface", i)
                     \/ Implemented(d) # << >> /\ AboutAll(e, f, "notStructs", Implemented(d))
           ELSE \E i \in ToSet(VisibleBases[f]) : AboutOne(e, f, "isInterface", i)
<1>1. f \in Fqns
  BY DEF Listed
<1>2. VisibleBases[f] \in Seq(Fqns) /\ \A b \in ToSet(VisibleBases[f]) : height[b] < height[f]
  BY DEF ProgramOrdered
<1>3. CASE program[f].kind = "class"
  <2> DEFINE ss == [i \in DOMAIN VisibleBases[f] |-> Deferred(f, "isClass", f, <<VisibleBases[f][i]>>, {})]
             bases == FlattenSeq(ss)
  <2>1. HeritageChecks(f) = bases \o ImplementsChecks(f)
    BY <1>3 DEF HeritageChecks, FlatMap
  <2>2. AllDescend(bases, height) /\ \A x : x \in ToSet(bases) <=> \E b \in ToSet(VisibleBases[f]) : AboutOne(x, f, "isClass", b)
    <3>1. OneByOne(ss, VisibleBases[f], f, "isClass") /\ LowerTypes(VisibleBases[f], f, height)
      BY <1>1, <1>2 DEF OneByOne, LowerTypes
    <3> HIDE DEF ss
    <3> QED BY <3>1, OneByOneElements
  <2> HIDE DEF ss, bases
  <2>3. AllDescend(ImplementsChecks(f), height)
    BY <1>3, ImplementsChecksDescend
  <2>4. e \in ToSet(HeritageChecks(f)) <=> e \in ToSet(bases) \/ e \in ToSet(ImplementsChecks(f))
    BY <2>1, <2>2, <2>3, JoinedElements
  <2>5. e \in ToSet(ImplementsChecks(f)) <=>
          \E d \in ToSet(WithErased(f)) :
             \/ \E i \in ToSet(Implemented(d)) : AboutOne(e, f, "isInterface", i)
             \/ Implemented(d) # << >> /\ AboutAll(e, f, "notStructs", Implemented(d))
    BY <1>3, ImplementsChecksAre
  <2> QED BY <1>3, <2>2, <2>4, <2>5
<1>4. CASE program[f].kind # "class"
  <2> DEFINE ss == [i \in DOMAIN VisibleBases[f] |-> Deferred(f, "isInterface", f, <<VisibleBases[f][i]>>, {})]
  <2>1. HeritageChecks(f) = FlattenSeq(ss)
    BY <1>4 DEF HeritageChecks, FlatMap
  <2>2. OneByOne(ss, VisibleBases[f], f, "isInterface") /\ LowerTypes(VisibleBases[f], f, height)
    BY <1>1, <1>2 DEF OneByOne, LowerTypes
  <2> HIDE DEF ss
  <2>3. e \in ToSet(FlattenSeq(ss)) <=> \E i \in ToSet(VisibleBases[f]) : AboutOne(e, f, "isInterface", i)
    BY <2>2, OneByOneElements
  <2> QED BY <1>4, <2>1, <2>3
<1> QED BY <1>3, <1>4

(* The methods whose last parameter may be lifted                          *)
Lifted(m) == ToParameters(m.params) # << >> /\ IsNamed(Last(ToParameters(m.params)).type)
LiftedType(m) == Last(ToParameters(m.params)).type.fqn
LiftedNames(m) == {p.name : p \in ToSet(Front(ToParameters(m.params)))}

AboutLift(e, f, m) == e = Check(m.name, "lift", f, <<LiftedType(m)>>, LiftedNames(m))

LEMMA LiftChecksAre ==
  ASSUME NEW height, ProgramOrdered(height), NEW f \in Listed, NEW e
  PROVE  e \in ToSet(LiftChecks(f)) <=>
           \E m \in ToSet(Methods(f)) : Lifted(m) /\ AboutLift(e, f, m)
<1> DEFINE check(m) ==
             LET ps == ToParameters(m.params) IN
               IF ps # << >> /\ IsNamed(Last(ps).type)
               THEN Deferred(m.name, "lift", f, <<Last(ps).type.fqn>>, {p.name : p \in ToSet(Front(ps))})
               ELSE << >>
           s == Methods(f)
           ss == [i \in DOMAIN s |-> check(s[i])]
<1>1. LiftChecks(f) = FlattenSeq(ss)
  BY DEF LiftChecks, FlatMap
<1>2. s \in Seq(ToSet(s)) /\ \A m \in ToSet(s) : m.name \notin Fqns /\ (Lifted(m) => LiftedType(m) \in Fqns)
  BY DEF ProgramOrdered, Lifted, LiftedType
<1>3. \A m : check(m) = IF Lifted(m) THEN Deferred(m.name, "lift", f, <<LiftedType(m)>>, LiftedNames(m)) ELSE << >>
  BY DEF Lifted, LiftedType, LiftedNames
<1> HIDE DEF check
<1>4. ASSUME NEW m \in ToSet(s)
      PROVE  AllDescend(check(m), height)
  <2>1. CASE Lifted(m)
    <3>1. <<LiftedType(m)>> \in Seq(Fqns)
      BY <1>2, <2>1
    <3>2. AllDescend(Deferred(m.name, "lift", f, <<LiftedType(m)>>, LiftedNames(m)), height)
      BY <1>2, <3>1, DeferredDescends
    <3> QED BY <1>3, <2>1, <3>2
  <2>2. CASE ~ Lifted(m)
    BY <1>3, <2>2, NoneDescends
  <2> QED BY <2>1, <2>2
<1>5. \A m, x : x \in ToSet(check(m)) <=> Lifted(m) /\ AboutLift(x, f, m)
  <2> TAKE m, x
  <2>1. <<LiftedType(m)>> # << >> /\ ToSet(<< >>) = {}
    BY DEF ToSet
  <2>2. x \in ToSet(Deferred(m.name, "lift", f, <<LiftedType(m)>>, LiftedNames(m)))
          <=> AboutLift(x, f, m)
    BY DeferredOne DEF AboutLift
  <2> QED BY <1>3, <2>1, <2>2
<1>6. /\ Len(s) \in Nat /\ DOMAIN s = 1 .. Len(s) /\ \A i \in 1 .. Len(s) : s[i] \in ToSet(s)
      /\ \A m \in ToSet(s) : \E i \in 1 .. Len(s) : s[i] = m
  BY <1>2, Elements
<1>7. ss = [i \in DOMAIN s |-> ss[i]] /\ \A i \in 1 .. Len(s) : ss[i] = check(s[i])
  BY <1>6
<1> HIDE DEF ss, s
<1>8. \A i \in 1 .. Len(s) : AllDescend(ss[i], height)
  BY <1>4, <1>6, <1>7
<1>9. \A x : x \in ToSet(FlattenSeq(ss)) <=> \E i \in 1 .. Len(s) : x \in ToSet(ss[i])
  BY <1>2, <1>7, <1>8, FlatElements
<1>10. \A x : x \in ToSet(FlattenSeq(ss)) <=> \E m \in ToSet(s) : x \in ToSet(check(m))
  BY <1>6, <1>7, <1>9
<1> QED BY <1>1, <1>5, <1>10 DEF s

LEMMA MemberChecksAre ==
  ASSUME NEW height, ProgramOrdered(height), NEW f \in Listed, NEW e
  PROVE  e \in ToSet(MemberChecks(f)) <=>
           \/ \E m \in ToSet(Methods(f)) : Lifted(m) /\ AboutLift(e, f, m)
           \/ /\ VisibleBases[f] # << >>
              /\ IF program[f].kind = "class"
                 THEN \/ Constructor(f) = << >> /\ AboutAll(e, f, "initializer", VisibleBases[f])
                      \/ AboutAll(e, f, "staticMixing", VisibleBases[f])
                 ELSE \/ AboutAll(e, f, "datatype", VisibleBases[f])
                      \/ AboutAll(e, f, "noIntersection", VisibleBases[f])
<1>1. f \in Fqns
  BY DEF Listed
<1>2. VisibleBases[f] \in Seq(Fqns) /\ \A b \in ToSet(VisibleBases[f]) : height[b] < height[f]
  BY DEF ProgramOrdered
<1> DEFINE own(check) == Deferred(f, check, f, VisibleBases[f], {})
           first == IF Constructor(f) = << >> THEN own("initializer") ELSE << >>
<1>3. MemberChecks(f) = LiftChecks(f) \o (IF program[f].kind = "class" THEN first \o own("staticMixing")
                                          ELSE own("datatype") \o own("noIntersection"))
  BY DEF MemberChecks
<1>4. \A check \in {"initializer", "staticMixing", "datatype", "noIntersection"} : AllDescend(own(check), height)
  BY <1>1, <1>2, DeferredDescends
<1>5. \A check, x : x \in ToSet(own(check)) <=> VisibleBases[f] # << >> /\ AboutAll(x, f, check, VisibleBases[f])
  BY DeferredIs DEF AboutAll
<1> HIDE DEF own
<1>6. AllDescend(LiftChecks(f), height)
  BY LiftChecksDescend
<1>7. AllDescend(first, height) /\ \A x : x \in ToSet(first) <=> Constructor(f) = << >> /\ x \in ToSet(own("initializer"))
  <2>1. ToSet(<< >>) = {}
    BY DEF ToSet
  <2> QED BY <1>4, <2>1, NoneDescends
<1> HIDE DEF first
<1>8. CASE program[f].kind = "class"
  <2> DEFINE rest == first \o own("staticMixing")
  <2>1. AllDescend(rest, height) /\ \A x : x \in ToSet(rest) <=> x \in ToSet(first) \/ x \in ToSet(own("staticMixing"))
    BY <1>4, <1>7, BothDescend, JoinedElements
  <2>2. MemberChecks(f) = LiftChecks(f) \o rest
    BY <1>3, <1>8
  <2> HIDE DEF rest
  <2>3. e \in ToSet(MemberChecks(f)) <=> e \in ToSet(LiftChecks(f)) \/ e \in ToSet(rest)
    BY <1>6, <2>1, <2>2, JoinedElements
  <2> QED BY <1>5, <1>7, <1>8, <2>1, <2>3, LiftChecksAre
<1>9. CASE program[f].kind # "class"
  <2> DEFINE rest == own("datatype") \o own("noIntersection")
  <2>1. AllDescend(rest, height) /\ \A x : x \in ToSet(rest) <=> x \in ToSet(own("datatype")) \/ x \in ToSet(own("noIntersection"))
    BY <1>4, BothDescend, JoinedElements
  <2>2. MemberChecks(f) = LiftChecks(f) \o rest
    BY <1>3, <1>9
  <2> HIDE DEF rest
  <2>3. e \in ToSet(MemberChecks(f)) <=> e \in ToSet(LiftChecks(f)) \/ e \in ToSet(rest)
    BY <1>6, <2>1, <2>2, JoinedElements
  <2> QED BY <1>5, <1>9, <2>1, <2>3, LiftChecksAre
<1> QED BY <1>8, <1>9

-----------------------------------------------------------------------------
(* What a check, and those that it defers in turn, require of the program  *)
Agree(f, a) == \A m \in MembersOf(f), n \in MembersOf(a) : m.name = n.name => m.static = n.static
Apart(f, a) == MemberNamesOf(f) \cap MemberNamesOf(a) = {}
Line(r)     == {r} \cup Ancestors[r]

(* Whether an interface is a struct agrees with its name, its properties   *)
(* and what it extends.                                                    *)
StructOK(f) ==
  /\ isInterfaceName(f) <=> ~ IsStruct[f]
  /\ IF IsStruct[f] THEN \A p \in VisitProperties(f) : p.immutable
     ELSE \A s \in ToSet(VisibleBases[f]) : ~ IsStruct[s]

(* A check finds no error in the end if, and only if, its duty is done. *)
Duty(d) ==
  /\ d.check = "notStructs" => \A r \in ToSet(d.refs) : ~ IsStruct[r]
  /\ d.check = "datatype" => StructOK(d.self)
  /\ d.check = "noIntersection" => \A r \in ToSet(d.refs) : \A a \in Line(r) : Apart(d.self, a)
  /\ d.check = "staticMixing" => \A r \in ToSet(d.refs) : \A a \in Line(r) : Agree(d.self, a)
  /\ d.check = "lift" => \A r \in ToSet(d.refs) : Exists(r) /\ (IsStruct[r] => Keywords(r) \cap d.names = {})

(* Each of the two parts of a visit reports no error, and defers checks    *)
(* whose duty is done.                                                     *)
HeritageClean(f) == Errors(HeritageErrors(f)) = {} /\ \A d \in ToSet(HeritageChecks(f)) : Duty(d)
MembersClean(f) ==
  Errors(MemberErrors(f) \cup EagerErrors(f)) = {} /\ \A d \in ToSet(MemberChecks(f)) : Duty(d)

(* The parts of RelationsHold                                              *)
ImplementsNoStruct(f) == \A s \in ToSet(Interfaces(f)) : ~ IsStruct[s]
StaticsAgree(f) == \A a \in Ancestors[f] : Agree(f, a)
NamesApart(f)   == \A a \in Ancestors[f] : Apart(f, a)
LiftsApart(f) ==
  \A m \in ToSet(Methods(f)) : Lifted(m) =>
    Exists(LiftedType(m)) /\ (IsStruct[LiftedType(m)] => Keywords(LiftedType(m)) \cap LiftedNames(m) = {})

LEMMA RelationsAre ==
  ASSUME NEW f
  PROVE  RelationsHold(f) <=>
           /\ HeritageHolds(f)
           /\ program[f].kind = "class" => ImplementsNoStruct(f) /\ StaticsAgree(f)
           /\ program[f].kind = "interface" => NamesApart(f) /\ StructOK(f)
           /\ LiftsApart(f)
<1>1. LiftsApart(f) <=>
        \A m \in ToSet(Methods(f)) :
          LET ps == ToParameters(m.params) IN
            ps # << >> /\ IsNamed(Last(ps).type)
              => /\ Exists(Last(ps).type.fqn)
                 /\ IsStruct[Last(ps).type.fqn] =>
                      Keywords(Last(ps).type.fqn) \cap {p.name : p \in ToSet(Front(ps))} = {}
  BY DEF LiftsApart, Lifted, LiftedType, LiftedNames
<1>2. NamesApart(f) <=> \A a \in Ancestors[f] : {m.name : m \in MembersOf(f)} \cap {m.name : m \in MembersOf(a)} = {}
  BY DEF NamesApart, Apart, MemberNamesOf
<1>3. StaticsAgree(f) <=> \A a \in Ancestors[f], m \in MembersOf(f) : \A n \in MembersOf(a) :
                            m.name = n.name => m.static = n.static
  BY DEF StaticsAgree, Agree
<1>4. StructOK(f) <=> /\ isInterfaceName(f) <=> ~ IsStruct[f]
                      /\ IF IsStruct[f] THEN \A p \in VisitProperties(f) : p.immutable
                         ELSE \A s \in ToSet(VisibleBases[f]) : ~ IsStruct[s]
  BY DEF StructOK
<1>5. ImplementsNoStruct(f) <=> \A s \in ToSet(Interfaces(f)) : ~ IsStruct[s]
  BY DEF ImplementsNoStruct
<1>6. HeritageHolds(f) <=> /\ \A s \in ToSet(VisibleBases[f]) \cup ToSet(Interfaces(f)) : Exists(s)
                           /\ \A s \in ToSet(Interfaces(f)) : KindOf(s) = "interface"
                           /\ program[f].kind = "class" => \A s \in ToSet(VisibleBases[f]) : KindOf(s) = "class"
  BY DEF HeritageHolds
<1>7. RelationsHold(f) <=>
        /\ /\ \A s \in ToSet(VisibleBases[f]) \cup ToSet(Interfaces(f)) : Exists(s)
           /\ \A s \in ToSet(Interfaces(f)) : KindOf(s) = "interface"
           /\ program[f].kind = "class" => \A s \in ToSet(VisibleBases[f]) : KindOf(s) = "class"
        /\ program[f].kind = "class" =>
             /\ \A s \in ToSet(Interfaces(f)) : ~ IsStruct[s]
             /\ \A a \in Ancestors[f], m \in MembersOf(f) : \A n \in MembersOf(a) :
                  m.name = n.name => m.static = n.static
        /\ program[f].kind = "interface" =>
             /\ \A a \in Ancestors[f] : {m.name : m \in MembersOf(f)} \cap {m.name : m \in MembersOf(a)} = {}
             /\ isInterfaceName(f) <=> ~ IsStruct[f]
             /\ IF IsStruct[f] THEN \A p \in VisitProperties(f) : p.immutable
                ELSE \A s \in ToSet(VisibleBases[f]) : ~ IsStruct[s]
        /\ \A m \in ToSet(Methods(f)) :
             LET ps == ToParameters(m.params) IN
               ps # << >> /\ IsNamed(Last(ps).type)
                 => /\ Exists(Last(ps).type.fqn)
                    /\ IsStruct[Last(ps).type.fqn] =>
                         Keywords(Last(ps).type.fqn) \cap {p.name : p \in ToSet(Front(ps))} = {}
  BY Zenon DEF RelationsHold
<1> QED BY <1>1, <1>2, <1>3, <1>4, <1>5, <1>6, <1>7, Zenon

LEMMA NoErrorIf ==
  ASSUME NEW c, NEW code
  PROVE  Errors(ErrorIf(c, code)) = ErrorIf(c, code) /\ (Errors(ErrorIf(c, code)) = {} <=> ~ c)
<1> DEFINE e == Error(code)
<1>1. e.category = "error"
  BY DEF Error
<1>2. ErrorIf(c, code) = IF c THEN {e} ELSE {}
  BY DEF ErrorIf
<1> HIDE DEF e
<1>3. CASE c
  BY <1>1, <1>2, <1>3 DEF Errors
<1>4. CASE ~ c
  BY <1>2, <1>4 DEF Errors
<1> QED BY <1>3, <1>4

LEMMA NoErrors ==
  ASSUME NEW S, NEW T
  PROVE  Errors(S \cup T) = Errors(S) \cup Errors(T) /\ (Errors(S \cup T) = {} <=> Errors(S) = {} /\ Errors(T) = {})
BY DEF Errors

(* What settling a datatype tells, when the bases are settled *)
BasesSettled(f, bases) ==
  /\ \A b \in bases : IsInterface(b) /\ b.datatype \in BOOLEAN
  /\ \A s \in ToSet(VisibleBases[f]) : \E b \in bases : b.datatype = IsStruct[s]
  /\ \A b \in bases : \E s \in ToSet(VisibleBases[f]) : b.datatype = IsStruct[s]

LEMMA DatatypeTold ==
  ASSUME NEW height, NEW top, Sound(height, top), NEW f \in Listed, program[f].kind = "interface",
         NEW type, type.methods = VisitMethods(f), NEW bases, BasesSettled(f, bases)
  PROVE  /\ IsDatatype(f, type, bases) <=> IsStruct[f]
         /\ Errors(DatatypeErrors(f, type, bases)) = {} <=>
              /\ isInterfaceName(f) <=> ~ IsStruct[f]
              /\ IF IsStruct[f] THEN \A p \in type.properties : p.immutable
                 ELSE \A s \in ToSet(VisibleBases[f]) : ~ IsStruct[s]
<1>1. f \in Fqns /\ ToSet(VisibleBases[f]) \subseteq Fqns
  BY ListedBases
<1>2. /\ IsStruct[f] \in BOOLEAN
      /\ IsStruct[f] <=> /\ VisitMethods(f) = {}
                         /\ \A b \in ToSet(VisibleBases[f]) : IsStruct[b]
                         /\ ~ isInterfaceName(f)
  BY <1>1, StructsAre
<1>2a. \A s \in ToSet(VisibleBases[f]) : IsStruct[s] \in BOOLEAN
  BY <1>1, StructsAre
<1>3. (\A b \in bases : IsInterface(b) => b.datatype) <=> \A s \in ToSet(VisibleBases[f]) : IsStruct[s]
  BY <1>2a DEF BasesSettled
<1>4. (\E b \in bases : IsInterface(b) /\ b.datatype) <=> \E s \in ToSet(VisibleBases[f]) : IsStruct[s]
  BY <1>2a DEF BasesSettled
<1>5. IsDatatype(f, type, bases) <=> IsStruct[f]
  BY <1>2, <1>3 DEF IsDatatype
<1>6. \A c, code : Errors(ErrorIf(c, code)) = {} <=> ~ c
  BY NoErrorIf
<1>7. \A S, T : Errors(S \cup T) = {} <=> Errors(S) = {} /\ Errors(T) = {}
  BY NoErrors
<1>8. CASE IsStruct[f]
  <2>1. DatatypeErrors(f, type, bases) = ErrorIf(\E p \in type.properties : ~ p.immutable, "mutable struct property")
    BY <1>5, <1>8 DEF DatatypeErrors
  <2> QED BY <1>2, <1>5, <1>6, <1>8, <2>1
<1>9. CASE ~ IsStruct[f]
  <2> DEFINE named == /\ type.methods # {} \/ \E b \in bases : IsInterface(b) /\ ~ b.datatype
                      /\ ~ isInterfaceName(f)
             mixed == \E b \in bases : IsInterface(b) /\ b.datatype
  <2>1. DatatypeErrors(f, type, bases) = ErrorIf(named, "behaviour needs an I") \cup ErrorIf(mixed, "interface extends struct")
    BY <1>5, <1>9 DEF DatatypeErrors
  <2>2. mixed <=> \E s \in ToSet(VisibleBases[f]) : IsStruct[s]
    BY <1>4
  <2>3. named <=> ~ isInterfaceName(f)
    BY <1>2, <1>3, <1>9
  <2> HIDE DEF named, mixed
  <2>4. Errors(DatatypeErrors(f, type, bases)) = {} <=> ~ named /\ ~ mixed
    <3>1. Errors(ErrorIf(named, "behaviour needs an I")) = {} <=> ~ named
      BY NoErrorIf
    <3>2. Errors(ErrorIf(mixed, "interface extends struct")) = {} <=> ~ mixed
      BY NoErrorIf
    <3> QED BY <1>7, <2>1, <3>1, <3>2
  <2> QED BY <1>5, <1>9, <2>2, <2>3, <2>4
<1> QED BY <1>8, <1>9

(* The datatype of an interface that extends nothing is settled at once. *)
LEMMA EagerTold ==
  ASSUME NEW height, NEW top, Sound(height, top), NEW f \in Listed
  PROVE  Errors(EagerErrors(f)) = {} <=> (program[f].kind = "interface" /\ VisibleBases[f] = << >> => StructOK(f))
<1>1. CASE program[f].kind = "interface" /\ VisibleBases[f] = << >>
  <2> DEFINE type == [methods |-> VisitMethods(f), properties |-> VisitProperties(f)]
  <2>1. EagerErrors(f) = DatatypeErrors(f, type, {})
    BY <1>1 DEF EagerErrors
  <2>2. type.methods = VisitMethods(f) /\ type.properties = VisitProperties(f)
    OBVIOUS
  <2>3. BasesSettled(f, {})
    <3>1. ToSet(VisibleBases[f]) = {}
      BY <1>1 DEF ToSet
    <3> QED BY <3>1 DEF BasesSettled
  <2> HIDE DEF type
  <2>4. Errors(DatatypeErrors(f, type, {})) = {} <=> StructOK(f)
    BY <1>1, <2>2, <2>3, DatatypeTold DEF StructOK
  <2> QED BY <1>1, <2>1, <2>4
<1>2. CASE ~ (program[f].kind = "interface" /\ VisibleBases[f] = << >>)
  BY <1>2 DEF EagerErrors, Errors
<1> QED BY <1>1, <1>2

-----------------------------------------------------------------------------
(* The fields of a check *)
LEMMA AboutOneIs ==
  ASSUME NEW d, NEW f, NEW check, NEW r, AboutOne(d, f, check, r)
  PROVE  d.fqn = f /\ d.deps = ToSet(d.refs) /\ d.check = check /\ d.self = f /\ d.refs = <<r>> /\ d.names = {}
BY DEF AboutOne, Check

LEMMA AboutAllIs ==
  ASSUME NEW d, NEW f, NEW check, NEW rs, AboutAll(d, f, check, rs)
  PROVE  d.fqn = f /\ d.deps = ToSet(d.refs) /\ d.check = check /\ d.self = f /\ d.refs = rs /\ d.names = {}
BY DEF AboutAll, Check

LEMMA AboutLiftIs ==
  ASSUME NEW d, NEW f, NEW m, AboutLift(d, f, m)
  PROVE  /\ d.fqn = m.name /\ d.deps = ToSet(d.refs) /\ d.check = "lift" /\ d.self = f
         /\ d.refs = <<LiftedType(m)>> /\ d.names = LiftedNames(m)
BY DEF AboutLift, Check

(* The duties of what a visit defers, together, are the relations of its   *)
(* declaration.                                                            *)
LEMMA HeritageDuties ==
  ASSUME NEW height, NEW top, Sound(height, top), NEW f \in Listed
  PROVE  (\A d \in ToSet(HeritageChecks(f)) : Duty(d)) <=> (program[f].kind = "class" => ImplementsNoStruct(f))
<1> DEFINE all == ToSet(HeritageChecks(f))
<1>1. ProgramOrdered(height)
  BY DEF Sound, Ordered
<1>2. \A d : d.check \in {"isClass", "isInterface"} => Duty(d)
  BY DEF Duty
<1>3. \A d, r : AboutOne(d, f, "isClass", r) \/ AboutOne(d, f, "isInterface", r) => Duty(d)
  BY <1>2, AboutOneIs
<1>4. CASE program[f].kind # "class"
  <2>1. \A d : d \in all <=> \E i \in ToSet(VisibleBases[f]) : AboutOne(d, f, "isInterface", i)
    BY <1>1, <1>4, HeritageChecksAre
  <2> QED BY <1>3, <1>4, <2>1
<1>5. CASE program[f].kind = "class"
  <2>1. \A d : d \in all <=>
                \/ \E b \in ToSet(VisibleBases[f]) : AboutOne(d, f, "isClass", b)
                \/ \E x \in ToSet(WithErased(f)) :
                     \/ \E i \in ToSet(Implemented(x)) : AboutOne(d, f, "isInterface", i)
                     \/ Implemented(x) # << >> /\ AboutAll(d, f, "notStructs", Implemented(x))
    BY <1>1, <1>5, HeritageChecksAre
  <2>2. \A d, x : AboutAll(d, f, "notStructs", Implemented(x)) =>
                    (Duty(d) <=> \A s \in ToSet(Implemented(x)) : ~ IsStruct[s])
    <3> TAKE d, x
    <3> HAVE AboutAll(d, f, "notStructs", Implemented(x))
    <3>1. d.check = "notStructs" /\ d.refs = Implemented(x)
      BY AboutAllIs
    <3> QED BY <3>1 DEF Duty
  <2>3. \A e : e \in ToSet(Interfaces(f)) <=> \E x \in ToSet(WithErased(f)) : e \in ToSet(Implemented(x))
    BY <1>5, InterfacesAre
  <2>4. \A x : Implemented(x) = << >> => ToSet(Implemented(x)) = {}
    BY DEF ToSet
  <2>5. ASSUME \A d \in all : Duty(d), NEW s \in ToSet(Interfaces(f))
        PROVE  ~ IsStruct[s]
    <3>1. PICK x \in ToSet(WithErased(f)) : s \in ToSet(Implemented(x))
      BY <2>3
    <3>2. Implemented(x) # << >>
      BY <2>4, <3>1
    <3>3. PICK d : AboutAll(d, f, "notStructs", Implemented(x))
      BY DEF AboutAll
    <3>4. Duty(d)
      BY <2>1, <2>5, <3>2, <3>3
    <3> QED BY <2>2, <3>1, <3>3, <3>4
  <2>6. ASSUME ImplementsNoStruct(f), NEW d \in all
        PROVE  Duty(d)
    <3>1. ASSUME NEW x \in ToSet(WithErased(f)), AboutAll(d, f, "notStructs", Implemented(x))
          PROVE  Duty(d)
      BY <2>2, <2>3, <2>6, <3>1 DEF ImplementsNoStruct
    <3> HIDE DEF all
    <3> QED BY <1>3, <2>1, <3>1
  <2> QED BY <1>5, <2>5, <2>6 DEF ImplementsNoStruct
<1> QED BY <1>4, <1>5

LEMMA MemberDuties ==
  ASSUME NEW height, NEW top, Sound(height, top), NEW f \in Listed
  PROVE  (\A d \in ToSet(MemberChecks(f)) : Duty(d)) <=>
           /\ LiftsApart(f)
           /\ VisibleBases[f] # << >> =>
                IF program[f].kind = "class" THEN StaticsAgree(f) ELSE StructOK(f) /\ NamesApart(f)
<1> DEFINE all == ToSet(MemberChecks(f))
           own(d, check) == AboutAll(d, f, check, VisibleBases[f])
<1>1. ProgramOrdered(height)
  BY DEF Sound, Ordered
<1>2. \A d : d \in all <=>
           \/ \E m \in ToSet(Methods(f)) : Lifted(m) /\ AboutLift(d, f, m)
           \/ /\ VisibleBases[f] # << >>
              /\ IF program[f].kind = "class"
                 THEN \/ Constructor(f) = << >> /\ own(d, "initializer")
                      \/ own(d, "staticMixing")
                 ELSE own(d, "datatype") \/ own(d, "noIntersection")
  BY <1>1, MemberChecksAre
<1>3. \A d, m : AboutLift(d, f, m) =>
        (Duty(d) <=> Exists(LiftedType(m)) /\ (IsStruct[LiftedType(m)] => Keywords(LiftedType(m)) \cap LiftedNames(m) = {}))
  <2> TAKE d, m
  <2> HAVE AboutLift(d, f, m)
  <2> DEFINE t == LiftedType(m)
  <2>1. d.check = "lift" /\ d.refs = <<t>> /\ d.names = LiftedNames(m)
    BY AboutLiftIs
  <2> HIDE DEF t
  <2>2. ToSet(<<t>>) = {t}
    BY DEF ToSet
  <2>3. Duty(d) <=> \A r \in ToSet(d.refs) : Exists(r) /\ (IsStruct[r] => Keywords(r) \cap d.names = {})
    BY <2>1 DEF Duty
  <2> QED BY <2>1, <2>2, <2>3 DEF t
<1>4. Supers(f) = ToSet(VisibleBases[f]) /\ (VisibleBases[f] = << >> => Supers(f) = {}) /\ f \in Fqns
  BY ListedBases
<1>5. Ancestors[f] = UNION {Line(s) : s \in ToSet(VisibleBases[f])}
  BY <1>4, AncestorsAre DEF Line
<1>6. \A d : /\ own(d, "initializer") => Duty(d)
             /\ own(d, "staticMixing") => (Duty(d) <=> StaticsAgree(f))
             /\ own(d, "datatype") => (Duty(d) <=> StructOK(f))
             /\ own(d, "noIntersection") => (Duty(d) <=> NamesApart(f))
  <2> TAKE d
  <2>1. ASSUME own(d, "initializer") PROVE Duty(d)
    <3>1. d.check = "initializer"
      BY <2>1, AboutAllIs
    <3> QED BY <3>1 DEF Duty
  <2>2. ASSUME own(d, "staticMixing") PROVE Duty(d) <=> StaticsAgree(f)
    <3>1. d.check = "staticMixing" /\ d.refs = VisibleBases[f] /\ d.self = f
      BY <2>2, AboutAllIs
    <3>2. Duty(d) <=> \A r \in ToSet(VisibleBases[f]) : \A a \in Line(r) : Agree(f, a)
      BY <3>1 DEF Duty
    <3> QED BY <1>5, <3>2 DEF StaticsAgree
  <2>3. ASSUME own(d, "datatype") PROVE Duty(d) <=> StructOK(f)
    <3>1. d.check = "datatype" /\ d.self = f
      BY <2>3, AboutAllIs
    <3> QED BY <3>1 DEF Duty
  <2>4. ASSUME own(d, "noIntersection") PROVE Duty(d) <=> NamesApart(f)
    <3>1. d.check = "noIntersection" /\ d.refs = VisibleBases[f] /\ d.self = f
      BY <2>4, AboutAllIs
    <3>2. Duty(d) <=> \A r \in ToSet(VisibleBases[f]) : \A a \in Line(r) : Apart(f, a)
      BY <3>1 DEF Duty
    <3> QED BY <1>5, <3>2 DEF NamesApart
  <2> QED BY <2>1, <2>2, <2>3, <2>4
<1>7. /\ \A check : \E d : own(d, check)
      /\ \A m : \E d : AboutLift(d, f, m)
  BY DEF AboutAll, AboutLift
<1> HIDE DEF own, all
<1>8. LiftsApart(f) <=> \A m \in ToSet(Methods(f)) : Lifted(m) => \A d : AboutLift(d, f, m) => Duty(d)
  BY <1>3, <1>7 DEF LiftsApart
<1>9. ASSUME \A d \in all : Duty(d)
      PROVE  /\ LiftsApart(f)
             /\ VisibleBases[f] # << >> =>
                  IF program[f].kind = "class" THEN StaticsAgree(f) ELSE StructOK(f) /\ NamesApart(f)
  <2>1. LiftsApart(f)
    BY <1>2, <1>8, <1>9
  <2>2. ASSUME VisibleBases[f] # << >>, program[f].kind = "class" PROVE StaticsAgree(f)
    BY <1>2, <1>6, <1>7, <1>9, <2>2
  <2>3. ASSUME VisibleBases[f] # << >>, program[f].kind # "class" PROVE StructOK(f) /\ NamesApart(f)
    BY <1>2, <1>6, <1>7, <1>9, <2>3
  <2> QED BY <2>1, <2>2, <2>3
<1>10. ASSUME LiftsApart(f),
              VisibleBases[f] # << >> =>
                IF program[f].kind = "class" THEN StaticsAgree(f) ELSE StructOK(f) /\ NamesApart(f),
              NEW d \in all
       PROVE  Duty(d)
  BY <1>2, <1>6, <1>8, <1>10
<1> QED BY <1>9, <1>10 DEF all

(* A declaration obeys all relations if, and only if, both parts of its    *)
(* visit are clean.                                                        *)
LEMMA RelationsTold ==
  ASSUME NEW height, NEW top, Sound(height, top), NEW f \in Listed
  PROVE  Errors(HeritageErrors(f) \cup MemberErrors(f)) = {} /\ RelationsHold(f)
           <=> HeritageHolds(f) /\ HeritageClean(f) /\ MembersClean(f)
<1>1. program[f].kind \in {"class", "interface", "enum"} /\ (program[f].kind = "enum" => VisibleBases[f] = << >>)
  BY DEF Sound, ProgramTyped
<1>2. Errors(HeritageErrors(f) \cup MemberErrors(f)) = {} <=> Errors(HeritageErrors(f)) = {} /\ Errors(MemberErrors(f)) = {}
  BY NoErrors
<1>3. Errors(MemberErrors(f) \cup EagerErrors(f)) = {} <=> Errors(MemberErrors(f)) = {} /\ Errors(EagerErrors(f)) = {}
  BY NoErrors
<1>4. VisibleBases[f] = << >> => StaticsAgree(f) /\ NamesApart(f)
  <2>1. VisibleBases[f] = << >> => Ancestors[f] = {}
    BY ListedBases, AncestorsAre
  <2> QED BY <2>1 DEF StaticsAgree, NamesApart
<1>5. HeritageClean(f) <=> Errors(HeritageErrors(f)) = {} /\ (program[f].kind = "class" => ImplementsNoStruct(f))
  BY HeritageDuties DEF HeritageClean
<1>6. MembersClean(f) <=>
        /\ Errors(MemberErrors(f)) = {}
        /\ program[f].kind = "interface" /\ VisibleBases[f] = << >> => StructOK(f)
        /\ LiftsApart(f)
        /\ VisibleBases[f] # << >> =>
             IF program[f].kind = "class" THEN StaticsAgree(f) ELSE StructOK(f) /\ NamesApart(f)
  BY <1>3, EagerTold, MemberDuties DEF MembersClean
<1> QED BY <1>1, <1>2, <1>4, <1>5, <1>6, RelationsAre

-----------------------------------------------------------------------------
(* The invariant                                                           *)
Working == phase \in {"visiting", "deferreds", "assembled"}

(* Nothing is visited yet. *)
Fresh == stage = [f \in Listed |-> "new"] /\ types = << >> /\ deferred = << >> /\ diags = {}

(* Who is registered when, and that all are once the visits are over *)
RegisterInv ==
  /\ phase \in {"loading", "configuring"} => Fresh
  /\ Working =>
       /\ stage \in [Listed -> {"new", "heritage", "registered"}]
       /\ types = [f \in DOMAIN types |-> types[f]]
       /\ DOMAIN types = {f \in Listed : stage[f] = "registered"}
       /\ \A f \in DOMAIN types : types[f].kind = program[f].kind
  /\ phase \in {"deferreds", "assembled"} => \A f \in Listed : stage[f] = "registered"
  /\ phase = "assembled" => deferred = << >>

Kinds(d) ==
  /\ d.check = "isClass" => \A r \in ToSet(d.refs) : Exists(r) /\ KindOf(r) = "class"
  /\ d.check = "isInterface" => \A r \in ToSet(d.refs) : Exists(r) /\ KindOf(r) = "interface"

(* What is extended and implemented is right, or there is an error, or one *)
(* will be found.                                                          *)
KindInv ==
  Working /\ Errors(diags) = {} /\ (\A d \in ToSet(deferred) : Kinds(d))
    => \A f \in Listed : stage[f] # "new" => HeritageHolds(f)

(* A check is about what there is, of the kind it is for. *)
Wellmade(d) ==
  /\ d.self \in Listed /\ d.refs # << >>
  /\ d.check \in {"isClass", "isInterface", "notStructs", "initializer", "datatype",
                  "noIntersection", "staticMixing", "lift"}
  /\ d.check # "lift" => \A r \in ToSet(d.refs) : Exists(r)
  /\ d.check \in {"isClass", "initializer", "staticMixing"} =>
       program[d.self].kind = "class" /\ \A r \in ToSet(d.refs) : KindOf(r) = "class"
  /\ d.check \in {"isInterface", "datatype", "noIntersection"} => \A r \in ToSet(d.refs) : KindOf(r) = "interface"
  /\ d.check \in {"datatype", "noIntersection"} => program[d.self].kind = "interface"
  /\ d.check \in {"datatype", "initializer"} => d.fqn = d.self /\ d.refs = VisibleBases[d.self]
  /\ d.check = "initializer" => Constructor(d.self) = << >>
  /\ d.check = "lift" => Len(d.refs) = 1

(* The checks that change a type, and the types that one is still to       *)
(* change                                                                  *)
Settles(d, f) == d.check \in {"datatype", "initializer"} /\ d.self = f
Unsettled(f) == \E d \in ToSet(deferred) : Settles(d, f)

(* A type is as it was visited, and a check is left that settles it, or it *)
(* is final; a struct that is to be settled again was right, or there is   *)
(* an error already.                                                       *)
SettledInv ==
  \A f \in DOMAIN types :
    \/ types[f] = Final(f) /\ (Unsettled(f) => Errors(diags) # {} \/ program[f].kind # "interface" \/ StructOK(f))
    \/ types[f] = VisitedType(f) /\ Unsettled(f)

(* Who refers to a type that is to be settled waits for it. *)
Waits == \A d \in ToSet(deferred) : \A r \in ToSet(d.refs) : Unsettled(r) => r \in d.deps
WaitsForAll == phase = "visiting" => \A d \in ToSet(deferred) : d.deps = ToSet(d.refs)

(* The books: what visits are to find is what they reported or what is     *)
(* still deferred.                                                         *)
Clean ==
  \A f \in Listed : (stage[f] # "new" => HeritageClean(f)) /\ (stage[f] = "registered" => MembersClean(f))
NoneFound == Errors(diags) = {} /\ \A d \in ToSet(deferred) : Duty(d)

(* All declarations extend and implement what is there, of the right kind. *)
AllHold == \A f \in Listed : HeritageHolds(f)

BooksInv ==
  Working /\ AllHold =>
    /\ \A d \in ToSet(deferred) : Wellmade(d)
    /\ SettledInv /\ Waits /\ WaitsForAll
    /\ Clean <=> NoneFound

(* The assembler throws only if they do not. *)
ThrownInv == phase = "thrown" => ~ AllHold

FaithInv(height) == OrderInv(height) /\ RegisterInv /\ KindInv /\ BooksInv /\ ThrownInv

-----------------------------------------------------------------------------
(* A step that leaves the program alone changes nothing of this. *)
LEMMA SameHolds ==
  ASSUME SameProgram
  PROVE  /\ Listed' = Listed /\ VisibleBases' = VisibleBases /\ IsStruct' = IsStruct
         /\ \A f : HeritageHolds(f)' = HeritageHolds(f)
         /\ \A d : Kinds(d)' = Kinds(d)
         /\ \A d : Wellmade(d)' = Wellmade(d)
         /\ AllHold' = AllHold
<1>0. /\ Listed' = Listed /\ VisibleBases' = VisibleBases /\ IsStruct' = IsStruct /\ program' = program
  BY SameVisits, SameBases, SameReadings DEF SameProgram
<1>1. \A f : HeritageHolds(f)' = HeritageHolds(f)
  BY <1>0, SameBases, SameRelations DEF HeritageHolds
<1>2. \A d : Kinds(d)' = Kinds(d)
  BY SameRelations DEF Kinds
<1>3. \A d : Wellmade(d)' = Wellmade(d)
  BY <1>0, SameRelations, SameMembers DEF Wellmade
<1>4. AllHold' = AllHold
  BY <1>0, <1>1 DEF AllHold
<1> QED BY <1>0, <1>1, <1>2, <1>3, <1>4

LEMMA SameDuties ==
  ASSUME SameProgram
  PROVE  /\ \A f : StructOK(f)' = StructOK(f)
         /\ \A d : Duty(d)' = Duty(d)
         /\ \A f : HeritageClean(f)' = HeritageClean(f)
         /\ \A f : MembersClean(f)' = MembersClean(f)
<1>0. VisibleBases' = VisibleBases /\ IsStruct' = IsStruct /\ Ancestors' = Ancestors
  BY SameBases, SameReadings
<1>1. \A f : StructOK(f)' = StructOK(f)
  BY <1>0, SameMembers DEF StructOK
<1>2. \A f, a : Agree(f, a)' = Agree(f, a) /\ Apart(f, a)' = Apart(f, a)
  BY SameRelations DEF Agree, Apart, MemberNamesOf
<1>3. \A r : Line(r)' = Line(r)
  BY <1>0 DEF Line
<1>4. \A d : Duty(d)' = Duty(d)
  BY <1>0, <1>1, <1>2, <1>3, SameRelations DEF Duty
<1>5. \A f : HeritageClean(f)' = HeritageClean(f)
  BY <1>4, SameVisits DEF HeritageClean, Errors
<1>6. \A f : MembersClean(f)' = MembersClean(f)
  BY <1>4, SameVisits DEF MembersClean, Errors
<1> QED BY <1>1, <1>4, <1>5, <1>6

LEMMA SameTypes ==
  ASSUME SameProgram
  PROVE  /\ \A f : Declared(f)' = Declared(f)
         /\ \A f : VisitedType(f)' = VisitedType(f)
         /\ \A f : Final(f)' = Final(f)
<1>0. program' = program /\ VisibleBases' = VisibleBases /\ IsStruct' = IsStruct /\ InheritedInitializer' = InheritedInitializer
  BY SameBases, SameReadings DEF SameProgram
<1>1. \A f : VisitedType(f)' = VisitedType(f)
  BY SameVisits
<1>2. \A f : Meaning(f)' = Meaning(f)
  BY <1>0, <1>1 DEF Meaning
<1>3. \A f : Final(f)' = Final(f)
  BY <1>0, <1>2 DEF Final, Fixed
<1>4. \A f : Declared(f)' = Declared(f)
  <2> TAKE f
  <2> DEFINE ctor == Constructor(f)
             init ==
       CASE program[f].kind # "class" -> << >>
         [] ctor # << >>    -> IF ctor[1].private THEN << >>
                               ELSE <<[parameters |-> ToParameters(ctor[1].params)]>>
         [] BaseOf(f) # None -> << >>
         [] OTHER -> <<[parameters |-> << >>]>>
             type ==
    [kind |-> program[f].kind, abstract |-> program[f].kind = "class" /\ program[f].abstract, datatype |-> FALSE,
     base |-> IF program[f].kind = "class" THEN BaseOf(f) ELSE None,
     interfaces |-> Interfaces(f), members |-> program[f].values,
     initializer |-> init,
     methods |-> VisitMethods(f), properties |-> VisitProperties(f)]
  <2>1. Declared(f) = type /\ Declared(f)' = type'
    BY DEF Declared
  <2>2. ctor' = ctor /\ BaseOf(f)' = BaseOf(f)
    BY SameMembers, SameBases
  <2>3. init' = init
    BY <1>0, <2>2, SameReferences
  <2> HIDE DEF init
  <2>4. type' = type
    BY <1>0, <2>2, <2>3, SameBases, SameMembers
  <2> QED BY <2>1, <2>4
<1> QED BY <1>1, <1>3, <1>4

-----------------------------------------------------------------------------
(* Steps that leave the types and the checks alone                         *)
LEMMA SameBooks ==
  ASSUME SameProgram, UNCHANGED <<stage, types, deferred, diags>>
  PROVE  /\ SettledInv' = SettledInv
         /\ Waits' = Waits
         /\ Clean' = Clean /\ NoneFound' = NoneFound
         /\ (\A d \in ToSet(deferred) : Wellmade(d))' = (\A d \in ToSet(deferred) : Wellmade(d))
         /\ Fresh' = Fresh
<1>1. \A f : Unsettled(f)' = Unsettled(f)
  BY DEF Unsettled, Settles
<1>2. program' = program
  BY DEF SameProgram
<1>3. SettledInv' = SettledInv
  BY <1>1, <1>2, SameTypes, SameDuties DEF SettledInv, Errors
<1>4. Waits' = Waits
  BY <1>1 DEF Waits
<1>5. Clean' = Clean /\ NoneFound' = NoneFound
  BY SameHolds, SameDuties DEF Clean, NoneFound, Errors
<1>6. (\A d \in ToSet(deferred) : Wellmade(d))' = (\A d \in ToSet(deferred) : Wellmade(d))
  BY SameHolds
<1>7. Fresh' = Fresh
  BY SameHolds DEF Fresh
<1> QED BY <1>3, <1>4, <1>5, <1>6, <1>7

(* Steps from phase to phase *)
LEMMA PhaseStep ==
  ASSUME RegisterInv, KindInv, BooksInv, ThrownInv, SameProgram, UNCHANGED <<stage, types, deferred, diags>>,
         Working' => Working,
         phase' = "visiting" => phase = "visiting",
         phase' \notin {"loading", "configuring"},
         phase' \in {"deferreds", "assembled"} => \A f \in Listed : stage[f] = "registered",
         phase' = "assembled" => deferred = << >>,
         phase' = "thrown" => phase = "thrown"
  PROVE  RegisterInv' /\ KindInv' /\ BooksInv' /\ ThrownInv'
<1>0. program' = program /\ Listed' = Listed
  BY SameHolds DEF SameProgram
<1>1. RegisterInv'
  BY <1>0 DEF RegisterInv
<1>2. KindInv'
  BY <1>0, SameHolds DEF KindInv, Errors
<1>4. BooksInv'
  <2> SUFFICES ASSUME Working', AllHold'
               PROVE  /\ (\A d \in ToSet(deferred) : Wellmade(d))'
                      /\ SettledInv' /\ Waits' /\ WaitsForAll'
                      /\ (Clean <=> NoneFound)'
    BY DEF BooksInv
  <2>1. Working /\ AllHold
    BY SameHolds
  <2>2. /\ \A d \in ToSet(deferred) : Wellmade(d)
        /\ SettledInv /\ Waits /\ WaitsForAll
        /\ Clean <=> NoneFound
    BY <2>1 DEF BooksInv
  <2>3. WaitsForAll'
    BY <2>2 DEF WaitsForAll
  <2> QED BY <2>2, <2>3, SameBooks
<1>5. ThrownInv'
  BY SameHolds DEF ThrownInv
<1> QED BY <1>1, <1>2, <1>4, <1>5

-----------------------------------------------------------------------------
(* A check of static members, about the base of a base                     *)
AboutBase(e, f, b, base) == e = Check(b, "staticMixing", f, <<base>>, {})

LEMMA AboutBaseIs ==
  ASSUME NEW d, NEW f, NEW b, NEW base, AboutBase(d, f, b, base)
  PROVE  /\ d.fqn = b /\ d.deps = ToSet(d.refs) /\ d.check = "staticMixing" /\ d.self = f
         /\ d.refs = <<base>> /\ d.names = {}
BY DEF AboutBase, Check

(* What a check defers in turn                                             *)
AboutSupers(e, f, b) ==
  Known(b) /\ IsInterface(TypeOf(b)) /\ TypeOf(b).interfaces # << >>
    /\ AboutAll(e, f, "noIntersection", TypeOf(b).interfaces)
AboutSuper(e, f, b) == Known(b) /\ TypeOf(b).base # None /\ AboutBase(e, f, b, TypeOf(b).base)

LEMMA MoreChecksAre ==
  ASSUME NEW height \in [Fqns -> Nat], TypesOrdered(height), ForeignOrdered(height),
         NEW d, Descends(d, height), NEW e
  PROVE  e \in ToSet(MoreChecks(d)) <=>
           \/ d.check = "noIntersection" /\ \E b \in ToSet(d.refs) : AboutSupers(e, d.self, b)
           \/ d.check = "staticMixing" /\ \E b \in ToSet(d.refs) : AboutSuper(e, d.self, b)
<1>1. /\ d.refs \in Seq(Fqns) /\ Len(d.refs) \in Nat /\ DOMAIN d.refs = 1 .. Len(d.refs)
      /\ \A i \in 1 .. Len(d.refs) : d.refs[i] \in Fqns /\ d.refs[i] \in ToSet(d.refs)
      /\ \A r \in ToSet(d.refs) : \E i \in 1 .. Len(d.refs) : d.refs[i] = r
  BY Elements DEF Descends
<1>0. ToSet(<< >>) = {}
  BY DEF ToSet
<1>2. CASE d.check = "noIntersection"
  <2> DEFINE more(b) == IF Known(b) /\ IsInterface(TypeOf(b))
                        THEN Deferred(d.self, d.check, d.self, TypeOf(b).interfaces, {}) ELSE << >>
             ss == [i \in DOMAIN d.refs |-> more(d.refs[i])]
  <2>1. MoreChecks(d) = FlattenSeq(ss)
    BY <1>2 DEF MoreChecks, FlatMap
  <2>2. d.fqn = d.self /\ d.self \in Fqns /\ \A r \in ToSet(d.refs) : height[r] < height[d.self]
    BY <1>2 DEF Descends
  <2>3. ASSUME NEW b \in Fqns, b \in ToSet(d.refs)
        PROVE  AllDescend(more(b), height)
    <3>1. CASE Known(b) /\ IsInterface(TypeOf(b))
      <4>1. /\ TypeOf(b).interfaces \in Seq(Fqns)
            /\ \A i \in ToSet(TypeOf(b).interfaces) : height[i] < height[b]
        BY <3>1, ResolvedOrdered
      <4>2. ToSet(TypeOf(b).interfaces) \subseteq Fqns
        BY <4>1, Elements
      <4>3. \A i \in ToSet(TypeOf(b).interfaces) : height[i] < height[d.self]
        BY <2>2, <2>3, <4>1, <4>2
      <4>4. AllDescend(Deferred(d.self, d.check, d.self, TypeOf(b).interfaces, {}), height)
        BY <1>2, <2>2, <4>1, <4>3, DeferredDescends
      <4> QED BY <3>1, <4>4
    <3>2. CASE ~ (Known(b) /\ IsInterface(TypeOf(b)))
      BY <3>2, NoneDescends
    <3> QED BY <3>1, <3>2
  <2>4. \A b : e \in ToSet(more(b)) <=> AboutSupers(e, d.self, b)
    BY <1>0, <1>2, DeferredIs DEF AboutSupers, AboutAll
  <2>5. ss = [i \in DOMAIN d.refs |-> ss[i]] /\ \A i \in 1 .. Len(d.refs) : ss[i] = more(d.refs[i])
    BY <1>1
  <2> HIDE DEF more, ss
  <2>6. \A i \in 1 .. Len(d.refs) : AllDescend(ss[i], height)
    BY <1>1, <2>3, <2>5
  <2>7. \A x : x \in ToSet(FlattenSeq(ss)) <=> \E i \in 1 .. Len(d.refs) : x \in ToSet(ss[i])
    BY <1>1, <2>5, <2>6, FlatElements
  <2>8. e \in ToSet(FlattenSeq(ss)) <=> \E b \in ToSet(d.refs) : e \in ToSet(more(b))
    <3>1. \A x : (\E i \in 1 .. Len(d.refs) : x \in ToSet(ss[i])) => \E b \in ToSet(d.refs) : x \in ToSet(more(b))
      BY <1>1, <2>5
    <3>2. \A b \in ToSet(d.refs) : e \in ToSet(more(b)) => \E i \in 1 .. Len(d.refs) : e \in ToSet(ss[i])
      BY <1>1, <2>5
    <3> QED BY <2>7, <3>1, <3>2
  <2> QED BY <1>2, <2>1, <2>4, <2>8
<1>3. CASE d.check = "staticMixing"
  <2> DEFINE more(b) == IF Known(b) /\ TypeOf(b).base # None
                        THEN Deferred(b, d.check, d.self, <<TypeOf(b).base>>, {}) ELSE << >>
             ss == [i \in DOMAIN d.refs |-> more(d.refs[i])]
  <2>1. MoreChecks(d) = FlattenSeq(ss)
    BY <1>3 DEF MoreChecks, FlatMap
  <2>3. ASSUME NEW b \in Fqns
        PROVE  AllDescend(more(b), height)
    <3>1. CASE Known(b) /\ TypeOf(b).base # None
      <4>1. TypeOf(b).base \in Fqns /\ height[TypeOf(b).base] < height[b]
        BY <3>1, ResolvedOrdered
      <4>2. <<TypeOf(b).base>> \in Seq(Fqns) /\ ToSet(<<TypeOf(b).base>>) = {TypeOf(b).base}
        BY <4>1 DEF ToSet
      <4>3. \A r \in ToSet(<<TypeOf(b).base>>) : height[r] < height[b]
        BY <4>1, <4>2
      <4>4. AllDescend(Deferred(b, d.check, d.self, <<TypeOf(b).base>>, {}), height)
        BY <1>3, <4>2, <4>3, DeferredDescends
      <4> QED BY <3>1, <4>4
    <3>2. CASE ~ (Known(b) /\ TypeOf(b).base # None)
      BY <3>2, NoneDescends
    <3> QED BY <3>1, <3>2
  <2>4. \A b : e \in ToSet(more(b)) <=> AboutSuper(e, d.self, b)
    BY <1>0, <1>3, DeferredOne DEF AboutSuper, AboutBase
  <2>5. ss = [i \in DOMAIN d.refs |-> ss[i]] /\ \A i \in 1 .. Len(d.refs) : ss[i] = more(d.refs[i])
    BY <1>1
  <2> HIDE DEF more, ss
  <2>6. \A i \in 1 .. Len(d.refs) : AllDescend(ss[i], height)
    BY <1>1, <2>3, <2>5
  <2>7. \A x : x \in ToSet(FlattenSeq(ss)) <=> \E i \in 1 .. Len(d.refs) : x \in ToSet(ss[i])
    BY <1>1, <2>5, <2>6, FlatElements
  <2>8. e \in ToSet(FlattenSeq(ss)) <=> \E b \in ToSet(d.refs) : e \in ToSet(more(b))
    <3>1. \A x : (\E i \in 1 .. Len(d.refs) : x \in ToSet(ss[i])) => \E b \in ToSet(d.refs) : x \in ToSet(more(b))
      BY <1>1, <2>5
    <3>2. \A b \in ToSet(d.refs) : e \in ToSet(more(b)) => \E i \in 1 .. Len(d.refs) : e \in ToSet(ss[i])
      BY <1>1, <2>5
    <3> QED BY <2>7, <3>1, <3>2
  <2> QED BY <1>3, <2>1, <2>4, <2>8
<1>4. CASE d.check \notin {"noIntersection", "staticMixing"}
  BY <1>0, <1>4 DEF MoreChecks
<1> QED BY <1>2, <1>3, <1>4

LEMMA WarningsAreNoErrors ==
  ASSUME NEW f
  PROVE  Errors(PeerWarnings(f)) = {}
<1> DEFINE w == Warning("not a peer dependency")
<1>1. w.category # "error"
  BY DEF Warning
<1>2. PeerWarnings(f) = {w} \/ PeerWarnings(f) = {}
  BY DEF PeerWarnings
<1> HIDE DEF w
<1> QED BY <1>1, <1>2 DEF Errors

(* No reference is left unresolved.                                        *)
LEMMA DereferenceTold ==
  ASSUME NEW refs
  PROVE  Errors(DereferenceErrors(refs)) = {} <=> \A r \in ToSet(refs) : Known(r)
<1> DEFINE new(r) == ErrorIf(~ Known(r), "unresolved type")
                       \cup PeerWarnings(r)
<1>1. DereferenceErrors(refs) = UNION {new(r) : r \in ToSet(refs)}
  BY DEF DereferenceErrors
<1>2. ASSUME NEW r
      PROVE  Errors(new(r)) = {} <=> Known(r)
  <2>1. Errors(ErrorIf(~ Known(r), "unresolved type")) = {} <=> Known(r)
    BY NoErrorIf
  <2> QED BY <2>1, WarningsAreNoErrors, NoErrors
<1> HIDE DEF new
<1>3. Errors(UNION {new(r) : r \in ToSet(refs)}) = {} <=> \A r \in ToSet(refs) : Errors(new(r)) = {}
  BY DEF Errors
<1> QED BY <1>1, <1>2, <1>3

-----------------------------------------------------------------------------
(* What a check that is invoked finds                                      *)
SettledType(r) == r \in Listed => types[r] = Final(r)

(* A check that may be invoked, what it finds, and whether that, with what *)
(* it defers in turn, is nothing                                           *)
Ready(d, height) ==
  Wellmade(d) /\ Descends(d, height) /\ \A r \in ToSet(d.refs) : SettledType(r)

Bases(d) == {TypeOf(r) : r \in {r \in ToSet(d.refs) : Known(r)}}

NewErrors(d) == DereferenceErrors(d.refs) \cup (IF Bases(d) = {} THEN {} ELSE CheckErrors(d, Bases(d)))

Told(d) == Errors(NewErrors(d)) = {} /\ \A e \in ToSet(MoreChecks(d)) : Duty(e)

(* A struct that is settled again was right the first time.                *)
Pristine(f) == \/ types[f] = Declared(f)
               \/ types[f] = Final(f) /\ StructOK(f)

(* The datatype of a settled type is final. *)
LEMMA DatatypeIs ==
  ASSUME NEW height, NEW top, Gathered(height, top), NEW r \in Fqns, Exists(r), SettledType(r)
  PROVE  TypeOf(r).datatype = IsStruct[r] /\ IsStruct[r] \in BOOLEAN
<1>0. Sound(height, top)
  BY DEF Gathered
<1>1. CASE r \in Listed
  <2>1. TypeOf(r) = Final(r)
    BY <1>1, TypesKnown DEF SettledType
  <2> QED BY <1>0, <1>1, <2>1, FinalIs, StructsAre
<1>2. CASE r \notin Listed
  <2>1. r \in ForeignTypes /\ TypeOf(r) = Foreign[r]
    BY <1>2, TypesKnown DEF Exists
  <2>2. Foreign[r].datatype \in BOOLEAN
    BY <1>0, <2>1 DEF Sound, ForeignSound
  <2>3. IsStruct[r] \in BOOLEAN /\ (IsStruct[r] <=> Foreign[r].datatype)
    BY <1>0, <1>2, <2>1, StructsAre
  <2> QED BY <2>1, <2>2, <2>3
<1> QED BY <1>1, <1>2

LEMMA BasesAre ==
  ASSUME NEW height, NEW top, Gathered(height, top), NEW d, Ready(d, height), d.check # "lift"
  PROVE  /\ ToSet(d.refs) \subseteq Fqns /\ \A r \in ToSet(d.refs) : Exists(r) /\ Known(r)
         /\ Bases(d) = {TypeOf(r) : r \in ToSet(d.refs)} /\ Bases(d) # {} /\ ToSet(d.refs) # {}
         /\ \A r \in ToSet(d.refs) : TypeOf(r).kind = KindOf(r) /\ TypeOf(r).datatype = IsStruct[r]
         /\ Errors(NewErrors(d)) = {} <=> Errors(CheckErrors(d, Bases(d))) = {}
<1>1. d.refs \in Seq(Fqns) /\ d.refs # << >> /\ \A r \in ToSet(d.refs) : Exists(r) /\ SettledType(r)
  BY DEF Ready, Wellmade, Descends
<1>2. ToSet(d.refs) \subseteq Fqns
  BY <1>1, Elements
<1>3. ToSet(d.refs) # {}
  <2>1. 1 \in 1 .. Len(d.refs)
    BY <1>1, Elements
  <2> QED BY <1>1, <2>1, Elements
<1>4. \A r \in ToSet(d.refs) : Known(r)
  BY <1>1, <1>2, TypesKnown
<1>5. Bases(d) = {TypeOf(r) : r \in ToSet(d.refs)} /\ Bases(d) # {}
  BY <1>3, <1>4 DEF Bases
<1>6. \A r \in ToSet(d.refs) : TypeOf(r).kind = KindOf(r) /\ TypeOf(r).datatype = IsStruct[r]
  BY <1>1, <1>2, TypesKnown, DatatypeIs
<1>7. Errors(DereferenceErrors(d.refs)) = {}
  BY <1>4, DereferenceTold
<1>8. Errors(DereferenceErrors(d.refs) \cup CheckErrors(d, Bases(d))) = {}
        <=> Errors(DereferenceErrors(d.refs)) = {} /\ Errors(CheckErrors(d, Bases(d))) = {}
  BY NoErrors
<1>9. NewErrors(d) = DereferenceErrors(d.refs) \cup CheckErrors(d, Bases(d))
  BY <1>5 DEF NewErrors
<1> QED BY <1>1, <1>2, <1>3, <1>4, <1>5, <1>6, <1>7, <1>8, <1>9

LEMMA CheckErrorsAre ==
  ASSUME NEW d, NEW bases
  PROVE  /\ d.check = "isClass"     => (Errors(CheckErrors(d, bases)) = {} <=> \A b \in bases : IsClass(b))
         /\ d.check = "isInterface" => (Errors(CheckErrors(d, bases)) = {} <=> \A b \in bases : IsInterface(b))
         /\ d.check = "notStructs"  => (Errors(CheckErrors(d, bases)) = {} <=> ~ \E b \in bases : b.datatype)
         /\ d.check = "initializer" => (Errors(CheckErrors(d, bases)) = {} <=> \A b \in bases : IsClass(b))
         /\ d.check = "datatype" => CheckErrors(d, bases) = DatatypeErrors(d.self, types[d.self], bases)
         /\ d.check = "noIntersection" =>
              (Errors(CheckErrors(d, bases)) = {} <=>
                 ~ \E b \in bases : IsInterface(b) /\ MemberNames(b) \cap MemberNames(types[d.self]) # {})
         /\ d.check = "staticMixing" =>
              (Errors(CheckErrors(d, bases)) = {} <=>
                 ~ \E b \in bases, s \in BOOLEAN : Statics(types[d.self], s) \cap Statics(b, ~ s) # {})
         /\ d.check = "lift" =>
              (Errors(CheckErrors(d, bases)) = {} <=>
                 ~ (Liftable(d) /\ AllProperties[d.refs[1]] \cap d.names # {}))
<1> DEFINE wrong == \E b \in bases : ~ IsClass(b)
           other == \E b \in bases : ~ IsInterface(b)
           struct == \E b \in bases : b.datatype
           again == \E b \in bases : IsInterface(b) /\ MemberNames(b) \cap MemberNames(types[d.self]) # {}
           mixed == \E b \in bases, s \in BOOLEAN : Statics(types[d.self], s) \cap Statics(b, ~ s) # {}
           taken == Liftable(d) /\ AllProperties[d.refs[1]] \cap d.names # {}
           extended == IF Liftable(d) THEN ExtendedInterfaces[d.refs[1]] ELSE {}
           warnings == UNION {PeerWarnings(i) : i \in extended}
<1>1. /\ d.check = "isClass"     => CheckErrors(d, bases) = ErrorIf(wrong, "base is no class")
      /\ d.check = "isInterface" => CheckErrors(d, bases) = ErrorIf(other, "no interface")
      /\ d.check = "notStructs"  => CheckErrors(d, bases) = ErrorIf(struct, "class implements struct")
      /\ d.check = "initializer" => CheckErrors(d, bases) = ErrorIf(wrong, "base is no class")
      /\ d.check = "datatype"    => CheckErrors(d, bases) = DatatypeErrors(d.self, types[d.self], bases)
      /\ d.check = "noIntersection" => CheckErrors(d, bases) = ErrorIf(again, "redeclared")
      /\ d.check = "staticMixing" => CheckErrors(d, bases) = ErrorIf(mixed, "static and non-static")
      /\ d.check = "lift" => CheckErrors(d, bases) = ErrorIf(taken, "argument and property") \cup warnings
  BY DEF CheckErrors
<1>2. wrong <=> ~ \A b \in bases : IsClass(b)
  OBVIOUS
<1>3. other <=> ~ \A b \in bases : IsInterface(b)
  OBVIOUS
<1>3a. Errors(warnings) = {}
  BY WarningsAreNoErrors DEF Errors
<1> HIDE DEF warnings, wrong, other, struct, again, mixed, taken
<1>4. \A c, code : Errors(ErrorIf(c, code)) = {} <=> ~ c
  BY NoErrorIf
<1>5. /\ Errors(ErrorIf(wrong, "base is no class")) = {} <=> ~ wrong
      /\ Errors(ErrorIf(other, "no interface")) = {} <=> ~ other
      /\ Errors(ErrorIf(struct, "class implements struct")) = {} <=> ~ struct
      /\ Errors(ErrorIf(again, "redeclared")) = {} <=> ~ again
      /\ Errors(ErrorIf(mixed, "static and non-static")) = {} <=> ~ mixed
  BY NoErrorIf
<1>5a. Errors(ErrorIf(taken, "argument and property") \cup warnings) = {} <=> ~ taken
  <2>1. Errors(ErrorIf(taken, "argument and property")) = {} <=> ~ taken
    BY NoErrorIf
  <2> DEFINE reported == ErrorIf(taken, "argument and property")
  <2> HIDE DEF reported
  <2>2. Errors(reported \cup warnings) = {} <=> Errors(reported) = {} /\ Errors(warnings) = {}
    BY NoErrors
  <2> QED BY <1>3a, <2>1, <2>2 DEF reported
<1>6. /\ d.check = "isClass" => (Errors(CheckErrors(d, bases)) = {} <=> ~ wrong)
      /\ d.check = "isInterface" => (Errors(CheckErrors(d, bases)) = {} <=> ~ other)
      /\ d.check = "notStructs" => (Errors(CheckErrors(d, bases)) = {} <=> ~ struct)
      /\ d.check = "initializer" => (Errors(CheckErrors(d, bases)) = {} <=> ~ wrong)
      /\ d.check = "noIntersection" => (Errors(CheckErrors(d, bases)) = {} <=> ~ again)
      /\ d.check = "staticMixing" => (Errors(CheckErrors(d, bases)) = {} <=> ~ mixed)
      /\ d.check = "lift" => (Errors(CheckErrors(d, bases)) = {} <=> ~ taken)
  BY <1>1, <1>5, <1>5a
<1> QED BY <1>1, <1>2, <1>3, <1>6 DEF struct, again, mixed, taken

-----------------------------------------------------------------------------
(* What each check finds is what it is there for                           *)
LEMMA NoneDeferred ==
  ASSUME NEW height, NEW top, Gathered(height, top), TypesOrdered(height),
         NEW d, Descends(d, height), d.check \notin {"noIntersection", "staticMixing"}
  PROVE  ToSet(MoreChecks(d)) = {}
<1>1. MoreChecks(d) = << >>
  BY DEF MoreChecks
<1> QED BY <1>1 DEF ToSet

(* notStructs *)
LEMMA StructTold ==
  ASSUME NEW height, NEW top, Gathered(height, top), TypesOrdered(height),
         NEW d, Ready(d, height), d.check = "notStructs"
  PROVE  Told(d) <=> Duty(d)
<1>1. /\ Bases(d) = {TypeOf(r) : r \in ToSet(d.refs)}
      /\ \A r \in ToSet(d.refs) : TypeOf(r).datatype = IsStruct[r]
      /\ Errors(NewErrors(d)) = {} <=> Errors(CheckErrors(d, Bases(d))) = {}
  BY BasesAre
<1>2. Errors(CheckErrors(d, Bases(d))) = {} <=> ~ \E b \in Bases(d) : b.datatype
  BY CheckErrorsAre
<1>3. ToSet(MoreChecks(d)) = {}
  BY NoneDeferred DEF Ready
<1>4. Duty(d) <=> \A r \in ToSet(d.refs) : ~ IsStruct[r]
  BY DEF Duty
<1>5. (\E b \in Bases(d) : b.datatype) <=> \E r \in ToSet(d.refs) : IsStruct[r]
  BY <1>1
<1> QED BY <1>1, <1>2, <1>3, <1>4, <1>5 DEF Told

(* isClass, isInterface and initializer *)
LEMMA KindTold ==
  ASSUME NEW height, NEW top, Gathered(height, top), TypesOrdered(height),
         NEW d, Ready(d, height), d.check \in {"isClass", "isInterface", "initializer"}
  PROVE  Told(d) /\ Duty(d)
<1>1. /\ Bases(d) = {TypeOf(r) : r \in ToSet(d.refs)}
      /\ \A r \in ToSet(d.refs) : TypeOf(r).kind = KindOf(r)
      /\ Errors(NewErrors(d)) = {} <=> Errors(CheckErrors(d, Bases(d))) = {}
  BY BasesAre
<1>2. /\ d.check \in {"isClass", "initializer"} => \A r \in ToSet(d.refs) : KindOf(r) = "class"
      /\ d.check = "isInterface" => \A r \in ToSet(d.refs) : KindOf(r) = "interface"
  BY DEF Ready, Wellmade
<1>3. ToSet(MoreChecks(d)) = {}
  BY NoneDeferred DEF Ready
<1>4. /\ d.check \in {"isClass", "initializer"} => \A b \in Bases(d) : IsClass(b)
      /\ d.check = "isInterface" => \A b \in Bases(d) : IsInterface(b)
  BY <1>1, <1>2 DEF IsClass, IsInterface
<1>5. Errors(CheckErrors(d, Bases(d))) = {}
  BY <1>4, CheckErrorsAre
<1>6. Duty(d)
  BY DEF Duty
<1> QED BY <1>1, <1>3, <1>5, <1>6 DEF Told

(* datatype *)
LEMMA SettlingIs ==
  ASSUME NEW height, NEW top, Gathered(height, top), TypesOrdered(height),
         NEW d, Ready(d, height), d.check = "datatype"
  PROVE  /\ d.self \in Listed /\ program[d.self].kind = "interface" /\ VisibleBases[d.self] # << >>
         /\ BasesSettled(d.self, Bases(d))
         /\ types[d.self].methods = VisitMethods(d.self)
<1>1. /\ d.self \in Listed /\ program[d.self].kind = "interface" /\ d.refs = VisibleBases[d.self] /\ d.refs # << >>
      /\ \A r \in ToSet(d.refs) : KindOf(r) = "interface"
  BY DEF Ready, Wellmade
<1>2. /\ Bases(d) = {TypeOf(r) : r \in ToSet(d.refs)}
      /\ \A r \in ToSet(d.refs) : TypeOf(r).kind = KindOf(r) /\ TypeOf(r).datatype = IsStruct[r]
      /\ ToSet(d.refs) \subseteq Fqns
  BY BasesAre
<1>3. \A r \in ToSet(d.refs) : IsStruct[r] \in BOOLEAN
  BY <1>2, StructsAre DEF Gathered
<1>4. BasesSettled(d.self, Bases(d))
  BY <1>1, <1>2, <1>3 DEF BasesSettled, IsInterface
<1>5. types[d.self].methods = VisitMethods(d.self)
  BY <1>1 DEF Gathered, Reads
<1> QED BY <1>1, <1>4, <1>5

LEMMA DatatypeDuty ==
  ASSUME NEW height, NEW top, Gathered(height, top), TypesOrdered(height),
         NEW d, Ready(d, height), d.check = "datatype"
  PROVE  /\ Pristine(d.self) => (Told(d) <=> Duty(d))
         /\ types[d.self] = Declared(d.self) => (Errors(NewErrors(d)) = {} <=> StructOK(d.self))
<1> DEFINE f == d.self
           t == types[f]
<1>0. Sound(height, top)
  BY DEF Gathered
<1>1. /\ f \in Listed /\ program[f].kind = "interface" /\ VisibleBases[f] # << >>
      /\ BasesSettled(f, Bases(d)) /\ t.methods = VisitMethods(f)
  BY SettlingIs
<1>2. Errors(NewErrors(d)) = {} <=> Errors(CheckErrors(d, Bases(d))) = {}
  BY BasesAre
<1>3. CheckErrors(d, Bases(d)) = DatatypeErrors(f, t, Bases(d))
  BY CheckErrorsAre
<1>4. ToSet(MoreChecks(d)) = {}
  BY NoneDeferred DEF Ready
<1>5. Duty(d) <=> StructOK(f)
  BY DEF Duty
<1> HIDE DEF f, t
<1>6. Errors(DatatypeErrors(f, t, Bases(d))) = {} <=>
        /\ isInterfaceName(f) <=> ~ IsStruct[f]
        /\ IF IsStruct[f] THEN \A p \in t.properties : p.immutable
           ELSE \A s \in ToSet(VisibleBases[f]) : ~ IsStruct[s]
  BY <1>0, <1>1, DatatypeTold
<1>7. t = Declared(f) => (Errors(NewErrors(d)) = {} <=> StructOK(f))
  <2>1. t = Declared(f) => t.properties = VisitProperties(f)
    BY DeclaredIs
  <2> QED BY <1>2, <1>3, <1>6, <2>1 DEF StructOK
<1>8. t = Final(f) /\ StructOK(f) => Errors(NewErrors(d)) = {}
  <2> HAVE t = Final(f) /\ StructOK(f)
  <2>1. t.properties = IF IsStruct[f] THEN Fixed(VisitProperties(f)) ELSE VisitProperties(f)
    BY <1>0, <1>1, FinalIs
  <2>2. \A p \in Fixed(VisitProperties(f)) : p.immutable
    BY FixedNames
  <2> QED BY <1>2, <1>3, <1>6, <2>1, <2>2 DEF StructOK
<1>9. Pristine(f) => (Told(d) <=> Duty(d))
  <2>1. Told(d) <=> Errors(NewErrors(d)) = {}
    BY <1>4 DEF Told
  <2>2. Pristine(f) <=> t = Declared(f) \/ (t = Final(f) /\ StructOK(f))
    BY DEF Pristine, t
  <2> QED BY <1>5, <1>7, <1>8, <2>1, <2>2
<1> QED BY <1>7, <1>9 DEF f, t

(* lift *)
LEMMA LiftTold ==
  ASSUME NEW height, NEW top, Gathered(height, top), TypesOrdered(height),
         NEW d, Ready(d, height), d.check = "lift"
  PROVE  /\ Told(d) <=> Duty(d)
         /\ Bases(d) # {} => ~ (Liftable(d) /\ BrokenAncestry[d.refs[1]])
<1> DEFINE r == d.refs[1]
<1>0. Sound(height, top)
  BY DEF Gathered
<1>1. d.refs \in Seq(Fqns) /\ Len(d.refs) = 1 /\ \A q \in ToSet(d.refs) : SettledType(q)
  BY DEF Ready, Wellmade, Descends
<1>2. r \in Fqns /\ ToSet(d.refs) = {r}
  <2>1. 1 \in 1 .. Len(d.refs) /\ 1 .. Len(d.refs) = {1}
    BY <1>1
  <2>2. r \in Fqns /\ r \in ToSet(d.refs) /\ \A e \in ToSet(d.refs) : \E i \in 1 .. Len(d.refs) : d.refs[i] = e
    BY <1>1, <2>1, Elements
  <2> QED BY <2>1, <2>2
<1>3. ToSet(MoreChecks(d)) = {}
  BY NoneDeferred DEF Ready
<1>4. Known(r) <=> Exists(r)
  BY <1>2, TypesKnown
<1>5. Errors(DereferenceErrors(d.refs)) = {} <=> Known(r)
  BY <1>2, DereferenceTold
<1>6. Duty(d) <=> Exists(r) /\ (IsStruct[r] => Keywords(r) \cap d.names = {})
  BY <1>2 DEF Duty
<1>7. Liftable(d) <=> IsInterface(TypeOf(r)) /\ TypeOf(r).datatype
  BY DEF Liftable
<1>8. Errors(CheckErrors(d, Bases(d))) = {} <=> ~ (Liftable(d) /\ AllProperties[r] \cap d.names # {})
  BY CheckErrorsAre
<1>10. Told(d) <=> Errors(NewErrors(d)) = {}
  BY <1>3 DEF Told
<1> HIDE DEF r
<1>9. CASE Known(r)
  <2>1. Bases(d) # {}
    BY <1>2, <1>9 DEF Bases
  <2>2. NewErrors(d) = DereferenceErrors(d.refs) \cup CheckErrors(d, Bases(d))
    BY <2>1 DEF NewErrors
  <2>3. Errors(NewErrors(d)) = {} <=> ~ (Liftable(d) /\ AllProperties[r] \cap d.names # {})
    <3>1. Errors(DereferenceErrors(d.refs) \cup CheckErrors(d, Bases(d))) = {}
            <=> Errors(DereferenceErrors(d.refs)) = {} /\ Errors(CheckErrors(d, Bases(d))) = {}
      BY NoErrors
    <3> QED BY <1>5, <1>8, <1>9, <2>2, <3>1
  <2>4. TypeOf(r).datatype = IsStruct[r] /\ IsStruct[r] \in BOOLEAN /\ TypeOf(r).kind = KindOf(r)
    BY <1>1, <1>2, <1>4, <1>9, DatatypeIs, TypesKnown
  <2>5. IsStruct[r] => KindOf(r) = "interface"
    BY <1>2, <1>4, <1>9, SupersKnown
  <2>6. Liftable(d) <=> IsStruct[r]
    BY <1>7, <2>4, <2>5 DEF IsInterface
  <2>7. IsStruct[r] => AllProperties[r] = Keywords(r) /\ ~ BrokenAncestry[r]
    BY <1>2, StructKeywords
  <2> QED BY <1>4, <1>6, <1>9, <1>10, <2>3, <2>6, <2>7 DEF r
<1>11. CASE ~ Known(r)
  <2>1. Bases(d) = {}
    BY <1>2, <1>11 DEF Bases
  <2>2. NewErrors(d) = DereferenceErrors(d.refs)
    BY <2>1 DEF NewErrors
  <2> QED BY <1>4, <1>5, <1>6, <1>10, <1>11, <2>1, <2>2
<1> QED BY <1>9, <1>11

-----------------------------------------------------------------------------
(* Names that are declared again, and static members                       *)
LEMMA LinesAre ==
  ASSUME NEW height, NEW top, Sound(height, top), NEW r \in Fqns, Exists(r)
  PROVE  \A a : a \in Line(r) <=> a = r \/ \E s \in Supers(r) : a \in Line(s)
<1>1. Ancestors[r] = Supers(r) \cup UNION {Ancestors[s] : s \in Supers(r)}
  BY AncestorsAre DEF Exists
<1> QED BY <1>1 DEF Line

(* noIntersection: what it does not look at itself, it defers to           *)
(* ancestors.                                                              *)
LEMMA NamesTold ==
  ASSUME NEW height, NEW top, Gathered(height, top), height \in [Fqns -> Nat],
         TypesOrdered(height), ForeignOrdered(height),
         NEW d, Ready(d, height), d.check = "noIntersection"
  PROVE  Told(d) <=> Duty(d)
<1> DEFINE f == d.self
           Far(s) == \A a \in Line(s) : Apart(f, a)
<1>0. Sound(height, top)
  BY DEF Gathered
<1>1. f \in Listed /\ Descends(d, height) /\ \A r \in ToSet(d.refs) : KindOf(r) = "interface"
  BY DEF Ready, Wellmade
<1>2. /\ ToSet(d.refs) \subseteq Fqns /\ \A r \in ToSet(d.refs) : Exists(r) /\ Known(r)
      /\ Bases(d) = {TypeOf(r) : r \in ToSet(d.refs)}
      /\ \A r \in ToSet(d.refs) : TypeOf(r).kind = KindOf(r)
      /\ Errors(NewErrors(d)) = {} <=> Errors(CheckErrors(d, Bases(d))) = {}
  BY BasesAre
<1>3. /\ MemberNames(types[f]) = MemberNamesOf(f)
      /\ \A r \in ToSet(d.refs) : MemberNames(TypeOf(r)) = MemberNamesOf(r) /\ IsInterface(TypeOf(r))
  <2>1. f \in Fqns
    BY <1>1 DEF Listed
  <2> QED BY <1>1, <1>2, <2>1, TypesKnown DEF IsInterface
<1>4. Errors(NewErrors(d)) = {} <=> \A r \in ToSet(d.refs) : Apart(f, r)
  <2>1. Errors(CheckErrors(d, Bases(d))) = {} <=>
          ~ \E b \in Bases(d) : IsInterface(b) /\ MemberNames(b) \cap MemberNames(types[f]) # {}
    BY CheckErrorsAre
  <2>2. (\E b \in Bases(d) : IsInterface(b) /\ MemberNames(b) \cap MemberNames(types[f]) # {})
          <=> \E r \in ToSet(d.refs) : MemberNamesOf(r) \cap MemberNamesOf(f) # {}
    BY <1>2, <1>3
  <2>3. \A r : Apart(f, r) <=> MemberNamesOf(r) \cap MemberNamesOf(f) = {}
    BY DEF Apart
  <2> QED BY <1>2, <2>1, <2>2, <2>3
<1>5. \A e : e \in ToSet(MoreChecks(d)) <=> \E b \in ToSet(d.refs) : AboutSupers(e, f, b)
  BY <1>1, MoreChecksAre
<1>6. \A r \in ToSet(d.refs) : /\ TypeOf(r).interfaces \in Seq(Fqns) /\ ToSet(TypeOf(r).interfaces) = Supers(r)
                               /\ TypeOf(r).interfaces = << >> => Supers(r) = {}
  <2>1. ToSet(<< >>) = {}
    BY DEF ToSet
  <2> QED BY <1>1, <1>2, <2>1, SupersKnown
<1>7. \A e, b : b \in ToSet(d.refs) /\ AboutSupers(e, f, b) => (Duty(e) <=> \A s \in Supers(b) : Far(s))
  <2> TAKE e, b
  <2> HAVE b \in ToSet(d.refs) /\ AboutSupers(e, f, b)
  <2>1. AboutAll(e, f, "noIntersection", TypeOf(b).interfaces)
    BY DEF AboutSupers
  <2>2. e.check = "noIntersection" /\ e.self = f /\ e.refs = TypeOf(b).interfaces
    BY <2>1, AboutAllIs
  <2> QED BY <1>6, <2>2 DEF Duty
<1>8. \A r \in ToSet(d.refs) : TypeOf(r).interfaces # << >> => \E e : AboutSupers(e, f, r)
  <2> TAKE r \in ToSet(d.refs)
  <2> HAVE TypeOf(r).interfaces # << >>
  <2>1. PICK e : AboutAll(e, f, "noIntersection", TypeOf(r).interfaces)
    BY DEF AboutAll
  <2> QED BY <1>2, <1>3, <2>1 DEF AboutSupers
<1>9. (\A e \in ToSet(MoreChecks(d)) : Duty(e)) <=> \A r \in ToSet(d.refs) : \A s \in Supers(r) : Far(s)
  <2> HIDE DEF f, Far
  <2>1. ASSUME \A e \in ToSet(MoreChecks(d)) : Duty(e), NEW r \in ToSet(d.refs), NEW s \in Supers(r)
        PROVE  Far(s)
    <3>1. TypeOf(r).interfaces # << >>
      BY <1>6, <2>1
    <3>2. PICK e : AboutSupers(e, f, r)
      BY <1>8, <3>1
    <3>3. Duty(e)
      BY <1>5, <2>1, <3>2
    <3> QED BY <1>7, <3>2, <3>3
  <2>2. ASSUME \A r \in ToSet(d.refs) : \A s \in Supers(r) : Far(s), NEW e \in ToSet(MoreChecks(d))
        PROVE  Duty(e)
    <3>1. PICK b \in ToSet(d.refs) : AboutSupers(e, f, b)
      BY <1>5
    <3> QED BY <1>7, <2>2, <3>1
  <2> QED BY <2>1, <2>2
<1>10. \A r \in ToSet(d.refs) : Far(r) <=> Apart(f, r) /\ \A s \in Supers(r) : Far(s)
  <2> TAKE r \in ToSet(d.refs)
  <2>1. \A a : a \in Line(r) <=> a = r \/ \E s \in Supers(r) : a \in Line(s)
    BY <1>0, <1>2, LinesAre
  <2> HIDE DEF f
  <2> QED BY <2>1
<1>11. Duty(d) <=> \A r \in ToSet(d.refs) : Far(r)
  BY DEF Duty
<1> HIDE DEF f, Far
<1> QED BY <1>4, <1>9, <1>10, <1>11 DEF Told

(* The static members of a class, and the others                           *)
LEMMA StaticsAre ==
  ASSUME NEW height, NEW top, Gathered(height, top), NEW r \in Fqns, Exists(r), KindOf(r) = "class"
  PROVE  /\ \A s : Statics(TypeOf(r), s) = {m.name : m \in {m \in MembersOf(r) : m.static = s}}
         /\ \A m \in MembersOf(r) : m.static \in BOOLEAN
<1>0. Sound(height, top)
  BY DEF Gathered
<1> DEFINE t == TypeOf(r)
<1>1. t.methods \cup t.properties = MembersOf(r)
  <2>1. CASE r \in Listed
    <3>1. t = types[r] /\ program[r].kind = "class" /\ Reads(r, types[r])
      BY <2>1, TypesKnown DEF KindOf, Gathered
    <3>2. t.methods = VisitMethods(r) /\ t.properties = VisitProperties(r)
      BY <3>1 DEF Reads
    <3> QED BY <2>1, <3>2 DEF MembersOf
  <2>2. CASE r \notin Listed
    BY <2>2, TypesKnown DEF MembersOf
  <2> QED BY <2>1, <2>2
<1>2. \A m \in MembersOf(r) : m.static \in BOOLEAN
  <2>1. CASE r \in Listed
    BY <1>0, <2>1 DEF Sound, ProgramTyped
  <2>2. CASE r \notin Listed
    BY <1>0, <2>2 DEF Sound, ForeignSound, Exists, MembersOf
  <2> QED BY <2>1, <2>2
<1> HIDE DEF t
<1>3. \A s : Statics(t, s) = {m.name : m \in {m \in MembersOf(r) : m.static = s}}
  <2> TAKE s
  <2>1. Statics(t, s) = {m.name : m \in {m \in t.methods : m.static = s}} \cup {p.name : p \in {p \in t.properties : p.static = s}}
    BY DEF Statics
  <2>2. {m \in MembersOf(r) : m.static = s} = {m \in t.methods : m.static = s} \cup {p \in t.properties : p.static = s}
    BY <1>1
  <2> QED BY <2>1, <2>2
<1> QED BY <1>2, <1>3 DEF t

LEMMA MixedIs ==
  ASSUME NEW height, NEW top, Gathered(height, top),
         NEW f \in Fqns, Exists(f), KindOf(f) = "class", NEW r \in Fqns, Exists(r), KindOf(r) = "class"
  PROVE  (\E s \in BOOLEAN : Statics(TypeOf(f), s) \cap Statics(TypeOf(r), ~ s) # {}) <=> ~ Agree(f, r)
<1> DEFINE names(g, s) == {m.name : m \in {m \in MembersOf(g) : m.static = s}}
<1>1. \A s : Statics(TypeOf(f), s) = names(f, s) /\ Statics(TypeOf(r), s) = names(r, s)
  BY StaticsAre
<1>2. (\E s \in BOOLEAN : Statics(TypeOf(f), s) \cap Statics(TypeOf(r), ~ s) # {}) <=>
        \/ Statics(TypeOf(f), TRUE) \cap Statics(TypeOf(r), FALSE) # {}
        \/ Statics(TypeOf(f), FALSE) \cap Statics(TypeOf(r), TRUE) # {}
  <2> DEFINE P(a, b) == Statics(TypeOf(f), a) \cap Statics(TypeOf(r), b) # {}
  <2>1. (\E s \in BOOLEAN : P(s, ~ s)) <=> P(TRUE, ~ TRUE) \/ P(FALSE, ~ FALSE)
    BY Zenon
  <2>2. (~ TRUE) = FALSE /\ (~ FALSE) = TRUE
    OBVIOUS
  <2>3. P(TRUE, ~ TRUE) <=> P(TRUE, FALSE)
    BY <2>2, Zenon
  <2>4. P(FALSE, ~ FALSE) <=> P(FALSE, TRUE)
    BY <2>2, Zenon
  <2> QED BY <2>1, <2>3, <2>4, Zenon
<1>3. (\A m \in MembersOf(f) : m.static \in BOOLEAN) /\ (\A m \in MembersOf(r) : m.static \in BOOLEAN)
  BY StaticsAre
<1>4. \A x, y \in BOOLEAN : x # y <=> (x = TRUE /\ y = FALSE) \/ (x = FALSE /\ y = TRUE)
  OBVIOUS
<1>5. names(f, TRUE) \cap names(r, FALSE) # {} <=>
        \E m \in MembersOf(f), n \in MembersOf(r) : m.name = n.name /\ m.static = TRUE /\ n.static = FALSE
  OBVIOUS
<1>6. names(f, FALSE) \cap names(r, TRUE) # {} <=>
        \E m \in MembersOf(f), n \in MembersOf(r) : m.name = n.name /\ m.static = FALSE /\ n.static = TRUE
  OBVIOUS
<1>7. ~ Agree(f, r) <=> \E m \in MembersOf(f), n \in MembersOf(r) : m.name = n.name /\ m.static # n.static
  BY DEF Agree
<1> HIDE DEF names
<1> QED BY <1>1, <1>2, <1>3, <1>4, <1>5, <1>6, <1>7

-----------------------------------------------------------------------------
(* staticMixing *)
LEMMA StaticsTold ==
  ASSUME NEW height, NEW top, Gathered(height, top), height \in [Fqns -> Nat],
         TypesOrdered(height), ForeignOrdered(height),
         NEW d, Ready(d, height), d.check = "staticMixing"
  PROVE  (Told(d) <=> Duty(d)) /\ \A b \in Bases(d) : IsClass(b)
<1> DEFINE f == d.self
           Far(s) == \A a \in Line(s) : Agree(f, a)
<1>0. Sound(height, top)
  BY DEF Gathered
<1>1. /\ f \in Listed /\ program[f].kind = "class" /\ Descends(d, height)
      /\ \A r \in ToSet(d.refs) : KindOf(r) = "class"
  BY DEF Ready, Wellmade
<1>2. /\ ToSet(d.refs) \subseteq Fqns /\ \A r \in ToSet(d.refs) : Exists(r) /\ Known(r)
      /\ Bases(d) = {TypeOf(r) : r \in ToSet(d.refs)}
      /\ \A r \in ToSet(d.refs) : TypeOf(r).kind = KindOf(r)
      /\ Errors(NewErrors(d)) = {} <=> Errors(CheckErrors(d, Bases(d))) = {}
  BY BasesAre
<1>3. f \in Fqns /\ Exists(f) /\ KindOf(f) = "class" /\ types[f] = TypeOf(f)
  <2>1. f \in Fqns
    BY <1>1 DEF Listed
  <2> QED BY <1>1, <2>1, TypesKnown DEF KindOf
<1>4. Errors(NewErrors(d)) = {} <=> \A r \in ToSet(d.refs) : Agree(f, r)
  <2> DEFINE Mixed(b) == \E s \in BOOLEAN : Statics(types[f], s) \cap Statics(b, ~ s) # {}
  <2>1. Errors(CheckErrors(d, Bases(d))) = {} <=> ~ \E b \in Bases(d) : Mixed(b)
    <3>1. Errors(CheckErrors(d, Bases(d))) = {} <=>
            ~ \E b \in Bases(d), s \in BOOLEAN : Statics(types[f], s) \cap Statics(b, ~ s) # {}
      BY CheckErrorsAre
    <3>2. (\E b \in Bases(d), s \in BOOLEAN : Statics(types[f], s) \cap Statics(b, ~ s) # {})
            <=> \E b \in Bases(d) : Mixed(b)
      BY Zenon
    <3> QED BY <3>1, <3>2, Zenon
  <2>2. \A r \in ToSet(d.refs) : Mixed(TypeOf(r)) <=> ~ Agree(f, r)
    <3> TAKE r \in ToSet(d.refs)
    <3>1. r \in Fqns /\ Exists(r) /\ KindOf(r) = "class"
      BY <1>1, <1>2
    <3>2. (\E s \in BOOLEAN : Statics(TypeOf(f), s) \cap Statics(TypeOf(r), ~ s) # {}) <=> ~ Agree(f, r)
      BY <1>3, <3>1, MixedIs
    <3> QED BY <1>3, <3>2, Zenon
  <2> HIDE DEF Mixed
  <2> QED BY <1>2, <2>1, <2>2
<1>5. \A e : e \in ToSet(MoreChecks(d)) <=> \E b \in ToSet(d.refs) : AboutSuper(e, f, b)
  BY <1>1, MoreChecksAre
<1>6. \A r \in ToSet(d.refs) : Supers(r) = IF TypeOf(r).base = None THEN {} ELSE {TypeOf(r).base}
  BY <1>1, <1>2, SupersKnown
<1>7. \A e, b : b \in ToSet(d.refs) /\ AboutSuper(e, f, b) => (Duty(e) <=> \A s \in Supers(b) : Far(s))
  <2> TAKE e, b
  <2> HAVE b \in ToSet(d.refs) /\ AboutSuper(e, f, b)
  <2> DEFINE base == TypeOf(b).base
  <2>1. AboutBase(e, f, b, base) /\ base # None
    BY DEF AboutSuper
  <2>2. Supers(b) = {base}
    BY <1>6, <2>1
  <2> HIDE DEF base
  <2>3. e.check = "staticMixing" /\ e.self = f /\ e.refs = <<base>>
    BY <2>1, AboutBaseIs
  <2>4. ToSet(<<base>>) = {base}
    BY DEF ToSet
  <2> QED BY <2>2, <2>3, <2>4 DEF Duty
<1>8. \A r \in ToSet(d.refs) : TypeOf(r).base # None => \E e : AboutSuper(e, f, r)
  <2> TAKE r \in ToSet(d.refs)
  <2> HAVE TypeOf(r).base # None
  <2>1. PICK e : AboutBase(e, f, r, TypeOf(r).base)
    BY DEF AboutBase
  <2> QED BY <1>2, <2>1 DEF AboutSuper
<1>9. (\A e \in ToSet(MoreChecks(d)) : Duty(e)) <=> \A r \in ToSet(d.refs) : \A s \in Supers(r) : Far(s)
  <2> HIDE DEF f, Far
  <2>1. ASSUME \A e \in ToSet(MoreChecks(d)) : Duty(e), NEW r \in ToSet(d.refs), NEW s \in Supers(r)
        PROVE  Far(s)
    <3>1. TypeOf(r).base # None
      BY <1>6, <2>1
    <3>2. PICK e : AboutSuper(e, f, r)
      BY <1>8, <3>1
    <3>3. Duty(e)
      BY <1>5, <2>1, <3>2
    <3> QED BY <1>7, <3>2, <3>3
  <2>2. ASSUME \A r \in ToSet(d.refs) : \A s \in Supers(r) : Far(s), NEW e \in ToSet(MoreChecks(d))
        PROVE  Duty(e)
    <3>1. PICK b \in ToSet(d.refs) : AboutSuper(e, f, b)
      BY <1>5
    <3> QED BY <1>7, <2>2, <3>1
  <2> QED BY <2>1, <2>2
<1>10. \A r \in ToSet(d.refs) : Far(r) <=> Agree(f, r) /\ \A s \in Supers(r) : Far(s)
  <2> TAKE r \in ToSet(d.refs)
  <2>1. \A a : a \in Line(r) <=> a = r \/ \E s \in Supers(r) : a \in Line(s)
    BY <1>0, <1>2, LinesAre
  <2> HIDE DEF f
  <2> QED BY <2>1
<1>11. Duty(d) <=> \A r \in ToSet(d.refs) : Far(r)
  BY DEF Duty
<1>12. \A b \in Bases(d) : IsClass(b)
  BY <1>1, <1>2 DEF IsClass
<1> HIDE DEF f, Far
<1> QED BY <1>4, <1>9, <1>10, <1>11, <1>12 DEF Told

-----------------------------------------------------------------------------
(* No check throws, and what it finds is what it is there for.             *)
LEMMA ChecksTell ==
  ASSUME NEW height, NEW top, Gathered(height, top), height \in [Fqns -> Nat],
         TypesOrdered(height), ForeignOrdered(height), NEW d, Ready(d, height)
  PROVE  /\ Bases(d) # {} => ~ Throws(d, Bases(d))
         /\ d.check # "datatype" \/ Pristine(d.self) => (Told(d) <=> Duty(d))
<1>1. d.check \in {"isClass", "isInterface", "notStructs", "initializer", "datatype",
                   "noIntersection", "staticMixing", "lift"}
  BY DEF Ready, Wellmade
<1>2. d.check # "datatype" \/ Pristine(d.self) => (Told(d) <=> Duty(d))
  BY <1>1, KindTold, StructTold, DatatypeDuty, NamesTold, StaticsTold, LiftTold
<1>3. Bases(d) # {} => ~ Throws(d, Bases(d))
  <2>1. d.check = "staticMixing" => \A b \in Bases(d) : IsClass(b)
    BY StaticsTold
  <2>2. d.check # "lift" => ~ Liftable(d)
    BY DEF Liftable
  <2>3. d.check = "lift" /\ Bases(d) # {} => ~ (Liftable(d) /\ BrokenAncestry[d.refs[1]])
    BY LiftTold
  <2> QED BY <2>1, <2>2, <2>3 DEF Throws
<1> QED BY <1>2, <1>3

(* What is settled is final.                                               *)
LEMMA DatatypeSettled ==
  ASSUME NEW height, NEW top, Gathered(height, top), TypesOrdered(height),
         NEW d, Ready(d, height), d.check = "datatype",
         types[d.self] = Declared(d.self) \/ types[d.self] = Final(d.self)
  PROVE  Settled(d, Bases(d)) = [types EXCEPT ![d.self] = Final(d.self)]
<1> DEFINE f == d.self
           t == types[f]
           u == Declared(f)
           st == [u EXCEPT !.datatype = TRUE, !.properties = Fixed(@)]
           new == SettleDatatype(f, t, Bases(d))
<1>0. Sound(height, top)
  BY DEF Gathered
<1>1. /\ f \in Listed /\ program[f].kind = "interface" /\ VisibleBases[f] # << >>
      /\ BasesSettled(f, Bases(d)) /\ t.methods = VisitMethods(f)
  BY SettlingIs
<1>2. Settled(d, Bases(d)) = [types EXCEPT ![f] = new]
  BY DEF Settled
<1>3. u = [x \in TypeFields |-> u[x]] /\ u.properties = VisitProperties(f) /\ u.datatype = FALSE
  BY DeclaredIs
<1>4. Final(f) = IF IsStruct[f] THEN st ELSE u
  BY <1>0, <1>1, FinalIs
<1>5. new = IF IsStruct[f] THEN [t EXCEPT !.datatype = TRUE, !.properties = Fixed(@)] ELSE t
  <2>1. IsDatatype(f, t, Bases(d)) <=> IsStruct[f]
    <3> HIDE DEF f, t
    <3> QED BY <1>0, <1>1, DatatypeTold
  <2> QED BY <2>1 DEF SettleDatatype, Fixed
<1>6. [st EXCEPT !.datatype = TRUE, !.properties = Fixed(@)] = st
  <2> HIDE DEF u
  <2>1. st.properties = Fixed(VisitProperties(f)) /\ st.datatype = TRUE /\ st = [x \in TypeFields |-> st[x]]
    BY <1>3 DEF TypeFields
  <2> HIDE DEF st
  <2> QED BY <2>1, FixedNames DEF TypeFields
<1>7. t = u \/ t = Final(f)
  OBVIOUS
<1> HIDE DEF u, st, t
<1>8. new = Final(f)
  BY <1>4, <1>5, <1>6, <1>7 DEF st
<1> QED BY <1>2, <1>8

-----------------------------------------------------------------------------
(* A class without a constructor gets its base's. *)
LEMMA InitializerSettled ==
  ASSUME NEW height, NEW top, Gathered(height, top), TypesOrdered(height),
         NEW d, Ready(d, height), d.check = "initializer",
         types[d.self] = Declared(d.self) \/ types[d.self] = Final(d.self)
  PROVE  Settled(d, Bases(d)) = [types EXCEPT ![d.self] = Final(d.self)]
<1> DEFINE f == d.self
           t == types[f]
           u == Declared(f)
           base == BaseOf(f)
           init == InheritedInitializer[f]
           ut == [u EXCEPT !.initializer = init]
<1>0. Sound(height, top)
  BY DEF Gathered
<1>1. /\ f \in Listed /\ program[f].kind = "class" /\ d.refs = VisibleBases[f] /\ d.refs # << >>
      /\ Constructor(f) = << >>
      /\ \A r \in ToSet(d.refs) : KindOf(r) = "class" /\ SettledType(r)
  BY DEF Ready, Wellmade
<1>2. /\ Bases(d) = {TypeOf(r) : r \in ToSet(d.refs)}
      /\ \A r \in ToSet(d.refs) : TypeOf(r).kind = KindOf(r) /\ Exists(r)
      /\ ToSet(d.refs) \subseteq Fqns
  BY BasesAre
<1>3. ToSet(d.refs) = {base} /\ base # None /\ base \in Fqns
  <2>1. Supers(f) = ToSet(d.refs) /\ base \in ToSet(d.refs) /\ base # None
    BY <1>0, <1>1, ListedBases
  <2>2. f \in Fqns /\ Exists(f) /\ KindOf(f) = "class"
    BY <1>1 DEF Listed, Exists, KindOf
  <2>3. \E b : Supers(f) \subseteq {b}
    <3>1. Supers(f) = IF TypeOf(f).base = None THEN {} ELSE {TypeOf(f).base}
      BY <2>2, SupersKnown
    <3> QED BY <3>1
  <2> HIDE DEF f, base
  <2> QED BY <1>2, <2>1, <2>3
<1>4. TypeOf(base).initializer = InheritedInitializer[base]
  <2>1. CASE base \in Listed
    <3> DEFINE v == Declared(base)
    <3>1. TypeOf(base) = Final(base) /\ program[base].kind = "class"
      BY <1>1, <1>3, <2>1, TypesKnown DEF SettledType, KindOf
    <3>2. Final(base) = [v EXCEPT !.initializer = InheritedInitializer[base]]
      BY <1>0, <2>1, <3>1, FinalIs
    <3>3. v = [x \in TypeFields |-> v[x]]
      BY DeclaredIs
    <3> HIDE DEF v, base
    <3> QED BY <3>1, <3>2, <3>3 DEF TypeFields
  <2>2. CASE base \notin Listed
    <3>1. TypeOf(base) = Foreign[base]
      BY <1>3, <2>2, TypesKnown
    <3> QED BY <1>0, <1>3, <2>2, <3>1, InitializersAre
  <2> QED BY <2>1, <2>2
<1>5. init = InheritedInitializer[base]
  <2>1. f \in Fqns
    BY <1>1 DEF Listed
  <2>2. InheritedInitializer[f] =
           IF f \notin Listed THEN Foreign[f].initializer
           ELSE IF Constructor(f) # << >> \/ BaseOf(f) = None THEN VisitedType(f).initializer
           ELSE InheritedInitializer[BaseOf(f)]
    BY <1>0, <2>1, InitializersAre
  <2> QED BY <1>1, <1>3, <2>2
<1>6. Bases(d) = {TypeOf(base)} /\ IsClass(TypeOf(base))
  BY <1>1, <1>2, <1>3 DEF IsClass
<1>7. (CHOOSE b \in Bases(d) : TRUE).initializer = init
  <2>1. (CHOOSE b \in Bases(d) : TRUE) = TypeOf(base)
    <3>1. (CHOOSE b \in Bases(d) : TRUE) \in Bases(d)
      BY <1>6
    <3> QED BY <1>6, <3>1
  <2> QED BY <1>4, <1>5, <2>1
<1>8. Settled(d, Bases(d)) = [types EXCEPT ![f] = [t EXCEPT !.initializer = init]]
  <2> DEFINE i == (CHOOSE b \in Bases(d) : TRUE).initializer
  <2>1. \A b \in Bases(d) : IsClass(b)
    BY <1>6
  <2>2. Settled(d, Bases(d)) = [types EXCEPT ![d.self].initializer = i]
    BY <2>1 DEF Settled
  <2>3. i = init
    BY <1>7
  <2> HIDE DEF i, init
  <2> QED BY <2>2, <2>3
<1>9. u = [x \in TypeFields |-> u[x]]
  BY DeclaredIs
<1>10. Final(f) = ut
  BY <1>0, <1>1, FinalIs
<1>11. t = u \/ t = Final(f)
  OBVIOUS
<1> HIDE DEF u, t, init
<1>12. [t EXCEPT !.initializer = init] = Final(f)
  BY <1>9, <1>10, <1>11 DEF TypeFields
<1> QED BY <1>8, <1>12

LEMMA SettledIs ==
  ASSUME NEW height, NEW top, Gathered(height, top), TypesOrdered(height), NEW d, Ready(d, height),
         types[d.self] = VisitedType(d.self) \/ types[d.self] = Final(d.self)
  PROVE  Settled(d, Bases(d)) = IF d.check \in {"datatype", "initializer"}
                                THEN [types EXCEPT ![d.self] = Final(d.self)] ELSE types
<1>1. CASE d.check \in {"datatype", "initializer"}
  <2>1. d.self \in Listed /\ d.refs # << >> /\ d.refs = VisibleBases[d.self]
        /\ program[d.self].kind \in {"class", "interface"}
    BY <1>1 DEF Ready, Wellmade
  <2>2. VisitedType(d.self) = Declared(d.self)
    BY <2>1, VisitedTypeIs
  <2> QED BY <1>1, <2>2, DatatypeSettled, InitializerSettled
<1>2. CASE d.check \notin {"datatype", "initializer"}
  BY <1>2 DEF Settled
<1> QED BY <1>1, <1>2

-----------------------------------------------------------------------------
(* The step that invokes a check                                           *)
Scanned == deferred[scan]

LEMMA InvokeIs ==
  ASSUME Invoke
  PROVE  /\ phase = "deferreds" /\ scan \in DOMAIN deferred /\ Scanned.deps = {}
         /\ diags' = diags \cup NewErrors(Scanned)
         /\ IF Bases(Scanned) # {} /\ Throws(Scanned, Bases(Scanned))
            THEN phase' = "thrown" /\ UNCHANGED <<types, deferred>>
            ELSE /\ types' = IF Bases(Scanned) = {} THEN types ELSE Settled(Scanned, Bases(Scanned))
                 /\ deferred' = RemoveAt(deferred, scan) \o MoreChecks(Scanned)
                 /\ phase' = phase
         /\ stage' = stage /\ SameProgram
<1> DEFINE d == deferred[scan]
           bases == {TypeOf(r) : r \in {r \in ToSet(d.refs) : Known(r)}}
<1>1. /\ phase = "deferreds" /\ scan \in DOMAIN deferred /\ d.deps = {}
      /\ diags' = diags \cup DereferenceErrors(d.refs) \cup (IF bases = {} THEN {} ELSE CheckErrors(d, bases))
      /\ IF bases # {} /\ Throws(d, bases)
         THEN phase' = "thrown" /\ UNCHANGED <<types, deferred, scan, invoked>>
         ELSE /\ types' = IF bases = {} THEN types ELSE Settled(d, bases)
              /\ deferred' = RemoveAt(deferred, scan) \o MoreChecks(d)
              /\ scan' = scan + 1 /\ invoked' = TRUE
              /\ UNCHANGED phase
      /\ UNCHANGED <<dependencyVars, program, stage>>
  BY DEF Invoke
<1>2. bases = Bases(d)
  BY DEF Bases
<1> HIDE DEF bases
<1>3. diags' = diags \cup NewErrors(d)
  <2> DEFINE found == DereferenceErrors(d.refs)
             more == IF bases = {} THEN {} ELSE CheckErrors(d, bases)
  <2>1. diags' = diags \cup found \cup more
    BY <1>1
  <2>2. NewErrors(d) = found \cup more
    BY <1>2 DEF NewErrors
  <2> HIDE DEF found, more, d
  <2> QED BY <2>1, <2>2
<1>4. Scanned = d
  BY DEF Scanned
<1>5. SameProgram
  BY <1>1 DEF SameProgram, dependencyVars
<1> HIDE DEF d
<1> QED BY <1>1, <1>2, <1>3, <1>4, <1>5

(* What is deferred then                                                   *)
LEMMA DeferredThen ==
  ASSUME NEW height \in [Fqns -> Nat], OrderInv(height), ForeignOrdered(height), Invoke, phase' # "thrown"
  PROVE  /\ Scanned \in ToSet(deferred) /\ Descends(Scanned, height) /\ TypesOrdered(height)
         /\ \A e \in ToSet(deferred) : e = Scanned \/ e \in ToSet(deferred')
         /\ \A e \in ToSet(deferred') : e \in ToSet(deferred) \/ e \in ToSet(MoreChecks(Scanned))
         /\ \A e \in ToSet(MoreChecks(Scanned)) : e \in ToSet(deferred')
<1>1. AllDescend(deferred, height) /\ TypesOrdered(height)
  BY DEF OrderInv
<1>2. scan \in DOMAIN deferred /\ (phase' # "thrown" => deferred' = RemoveAt(deferred, scan) \o MoreChecks(Scanned))
  BY InvokeIs
<1>3. /\ deferred \in Seq(ToSet(deferred)) /\ scan \in 1 .. Len(deferred)
      /\ deferred[scan] \in ToSet(deferred)
  BY <1>1, <1>2, Elements DEF AllDescend
<1>4. Scanned \in ToSet(deferred) /\ Descends(Scanned, height)
  BY <1>1, <1>3 DEF AllDescend, Scanned
<1>5. AllDescend(RemoveAt(deferred, scan), height)
  BY <1>1, <1>3, OneFewerDescends
<1>6. AllDescend(MoreChecks(Scanned), height)
  BY <1>1, <1>4, MoreChecksDescend
<1>7. ToSet(deferred) = ToSet(RemoveAt(deferred, scan)) \cup {Scanned}
  BY <1>3, OthersTaken DEF Scanned
<1>8. \A e : e \in ToSet(deferred') <=> e \in ToSet(RemoveAt(deferred, scan)) \/ e \in ToSet(MoreChecks(Scanned))
  BY <1>2, <1>5, <1>6, JoinedElements
<1> QED BY <1>1, <1>4, <1>7, <1>8

(* When all hold, the types are there, and those that a check waited for   *)
(* are settled.                                                            *)
LEMMA AllGathered ==
  ASSUME NEW height, NEW top, Sound(height, top), RegisterInv, BooksInv, AllHold, phase = "deferreds"
  PROVE  Gathered(height, top)
<1>1. SettledInv /\ DOMAIN types = Listed
  BY DEF RegisterInv, BooksInv, Working
<1>2. \A f \in Listed : Reads(f, types[f])
  BY <1>1, TypesRead DEF SettledInv
<1> QED BY <1>1, <1>2 DEF Gathered, AllHold

LEMMA ReferencesSettled ==
  ASSUME RegisterInv, BooksInv, AllHold, phase = "deferreds",
         NEW height, NEW d \in ToSet(deferred), Descends(d, height), d.deps = {}
  PROVE  Ready(d, height)
<1>1. SettledInv /\ Waits /\ Wellmade(d) /\ DOMAIN types = Listed
  BY DEF RegisterInv, BooksInv, Working
<1>2. \A r \in ToSet(d.refs) : ~ Unsettled(r)
  BY <1>1 DEF Waits
<1>3. \A r \in ToSet(d.refs) : SettledType(r)
  BY <1>1, <1>2 DEF SettledInv, SettledType
<1> QED BY <1>1, <1>3 DEF Ready

-----------------------------------------------------------------------------
(* The checks of the next ancestors are about what there is.               *)
LEMMA MoreWellmade ==
  ASSUME NEW height, NEW top, Gathered(height, top), height \in [Fqns -> Nat],
         TypesOrdered(height), ForeignOrdered(height), NEW d, Ready(d, height), NEW e \in ToSet(MoreChecks(d))
  PROVE  Wellmade(e) /\ e.deps = ToSet(e.refs) /\ e.check \in {"noIntersection", "staticMixing"}
<1>1. Wellmade(d) /\ Descends(d, height)
  BY DEF Ready
<1>2. \/ d.check = "noIntersection" /\ \E b \in ToSet(d.refs) : AboutSupers(e, d.self, b)
      \/ d.check = "staticMixing" /\ \E b \in ToSet(d.refs) : AboutSuper(e, d.self, b)
  BY <1>1, MoreChecksAre
<1>3. CASE d.check = "noIntersection"
  <2>1. PICK b \in ToSet(d.refs) : AboutSupers(e, d.self, b)
    BY <1>2, <1>3
  <2> DEFINE rs == TypeOf(b).interfaces
  <2>2. AboutAll(e, d.self, "noIntersection", rs) /\ rs # << >>
    BY <2>1 DEF AboutSupers
  <2>3. e.deps = ToSet(e.refs) /\ e.check = "noIntersection" /\ e.self = d.self /\ e.refs = rs
    BY <2>2, AboutAllIs
  <2>4. b \in Fqns /\ Exists(b) /\ KindOf(b) = "interface"
    BY <1>1, <1>3, BasesAre DEF Wellmade
  <2>5. \A s \in ToSet(rs) : Exists(s) /\ KindOf(s) = "interface"
    BY <2>4, SupersKnown
  <2>6. d.self \in Listed /\ program[d.self].kind = "interface"
    BY <1>1, <1>3 DEF Wellmade
  <2> HIDE DEF rs
  <2> QED BY <2>2, <2>3, <2>5, <2>6 DEF Wellmade
<1>4. CASE d.check = "staticMixing"
  <2>1. PICK b \in ToSet(d.refs) : AboutSuper(e, d.self, b)
    BY <1>2, <1>4
  <2> DEFINE base == TypeOf(b).base
  <2>2. AboutBase(e, d.self, b, base) /\ base # None
    BY <2>1 DEF AboutSuper
  <2>3. e.deps = ToSet(e.refs) /\ e.check = "staticMixing" /\ e.self = d.self /\ e.refs = <<base>>
    BY <2>2, AboutBaseIs
  <2>4. b \in Fqns /\ Exists(b) /\ KindOf(b) = "class"
    BY <1>1, <1>4, BasesAre DEF Wellmade
  <2>5. Exists(base) /\ KindOf(base) = "class"
    <3>1. Supers(b) = {base} /\ \A s \in Supers(b) : Exists(s) /\ KindOf(s) = "class"
      BY <2>2, <2>4, SupersKnown
    <3> QED BY <3>1
  <2>6. d.self \in Listed /\ program[d.self].kind = "class"
    BY <1>1, <1>4 DEF Wellmade
  <2> HIDE DEF base
  <2>7. ToSet(<<base>>) = {base} /\ <<base>> # << >>
    BY DEF ToSet
  <2> QED BY <2>3, <2>5, <2>6, <2>7 DEF Wellmade
<1> QED BY <1>2, <1>3, <1>4

(* What the step does when all hold                                        *)
LEMMA InvokeSettles ==
  ASSUME NEW height \in [Fqns -> Nat], NEW top, Sound(height, top), OrderInv(height), RegisterInv, BooksInv,
         AllHold, Invoke
  PROVE  /\ phase' = "deferreds"
         /\ Gathered(height, top) /\ Ready(Scanned, height) /\ ForeignOrdered(height)
         /\ Scanned.self \in DOMAIN types
         /\ types' = IF Scanned.check \in {"datatype", "initializer"}
                     THEN [types EXCEPT ![Scanned.self] = Final(Scanned.self)] ELSE types
<1> DEFINE d == Scanned
<1>0. ForeignOrdered(height)
  BY DEF Sound, Ordered
<1>1. phase = "deferreds" /\ scan \in DOMAIN deferred /\ d.deps = {}
  BY InvokeIs
<1>2. TypesOrdered(height) /\ d \in ToSet(deferred) /\ Descends(d, height)
  <2>1. AllDescend(deferred, height) /\ TypesOrdered(height)
    BY DEF OrderInv
  <2>2. deferred[scan] \in ToSet(deferred)
    BY <1>1 DEF ToSet
  <2> QED BY <2>1, <2>2 DEF AllDescend, Scanned
<1>3. Gathered(height, top)
  BY <1>1, AllGathered
<1>4. Ready(d, height)
  BY <1>1, <1>2, ReferencesSettled
<1>5. Bases(d) # {} => ~ Throws(d, Bases(d))
  BY <1>0, <1>2, <1>3, <1>4, ChecksTell
<1>6. /\ phase' = "deferreds"
      /\ types' = IF Bases(d) = {} THEN types ELSE Settled(d, Bases(d))
  BY <1>1, <1>5, InvokeIs
<1>7. d.self \in DOMAIN types /\ (types[d.self] = VisitedType(d.self) \/ types[d.self] = Final(d.self))
  <2>1. d.self \in Listed /\ SettledInv
    BY <1>1, <1>4 DEF Ready, Wellmade, BooksInv, Working
  <2>2. d.self \in DOMAIN types
    BY <1>3, <2>1 DEF Gathered
  <2> QED BY <2>1, <2>2 DEF SettledInv
<1>8. Bases(d) = {} => d.check = "lift"
  BY <1>3, <1>4, BasesAre
<1>9. Settled(d, Bases(d)) = IF d.check \in {"datatype", "initializer"}
                             THEN [types EXCEPT ![d.self] = Final(d.self)] ELSE types
  BY <1>2, <1>3, <1>4, <1>7, SettledIs
<1> HIDE DEF d
<1>10. types' = IF d.check \in {"datatype", "initializer"}
                THEN [types EXCEPT ![d.self] = Final(d.self)] ELSE types
  BY <1>6, <1>8, <1>9
<1> QED BY <1>0, <1>3, <1>4, <1>6, <1>7, <1>10 DEF d

(* So the books stay balanced. *)
LEMMA InvokeBooks ==
  ASSUME NEW height \in [Fqns -> Nat], NEW top, Sound(height, top), OrderInv(height), RegisterInv, BooksInv,
         AllHold, Invoke
  PROVE  BooksInv'
<1> DEFINE d == Scanned
<1>0. SameProgram /\ diags' = diags \cup NewErrors(d) /\ stage' = stage /\ phase = "deferreds"
  BY InvokeIs
<1>1. /\ phase' = "deferreds" /\ Gathered(height, top) /\ Ready(d, height) /\ ForeignOrdered(height)
      /\ d.self \in DOMAIN types
      /\ types' = IF d.check \in {"datatype", "initializer"}
                  THEN [types EXCEPT ![d.self] = Final(d.self)] ELSE types
  BY InvokeSettles
<1>2. /\ d \in ToSet(deferred) /\ Descends(d, height) /\ TypesOrdered(height)
      /\ \A e \in ToSet(deferred) : e = d \/ e \in ToSet(deferred')
      /\ \A e \in ToSet(deferred') : e \in ToSet(deferred) \/ e \in ToSet(MoreChecks(d))
      /\ \A e \in ToSet(MoreChecks(d)) : e \in ToSet(deferred')
  BY <1>1, DeferredThen
<1>3. /\ \A e \in ToSet(deferred) : Wellmade(e)
      /\ SettledInv /\ Waits /\ (Clean <=> NoneFound)
  BY <1>0 DEF BooksInv, Working
<1>4. \A e \in ToSet(MoreChecks(d)) : Wellmade(e) /\ e.deps = ToSet(e.refs) /\ e.check \in {"noIntersection", "staticMixing"}
  BY <1>1, <1>2, MoreWellmade
<1>5. DOMAIN types = Listed /\ DOMAIN types' = DOMAIN types
      /\ \A f \in DOMAIN types : types'[f] = IF Settles(d, f) THEN Final(f) ELSE types[f]
  <2>1. DOMAIN types = Listed
    BY <1>1 DEF Gathered
  <2> HIDE DEF d
  <2> QED BY <1>1, <2>1 DEF Settles
<1>6. \A f : /\ Unsettled(f)' => Unsettled(f)
             /\ Unsettled(f) => Settles(d, f) \/ Unsettled(f)'
  <2>1. \A e \in ToSet(MoreChecks(d)) : \A f : ~ Settles(e, f)
    BY <1>4 DEF Settles
  <2>2. \A e, f : Settles(e, f)' <=> Settles(e, f)
    BY DEF Settles
  <2> HIDE DEF d
  <2> QED BY <1>2, <2>1, <2>2 DEF Unsettled
<1>7. Errors(diags)' = {} <=> Errors(diags) = {} /\ Errors(NewErrors(d)) = {}
  <2>1. Errors(diags \cup NewErrors(d)) = {} <=> Errors(diags) = {} /\ Errors(NewErrors(d)) = {}
    BY NoErrors
  <2>2. Errors(diags)' = Errors(diags')
    BY DEF Errors
  <2> QED BY <1>0, <2>1, <2>2
<1>8. \A f \in DOMAIN types : Final(f)' = Final(f) /\ VisitedType(f)' = VisitedType(f) /\ StructOK(f)' = StructOK(f)
  BY <1>0, SameTypes, SameDuties
<1>9. d.check = "datatype" => types[d.self] = Declared(d.self) \/ types[d.self] = Final(d.self)
  <2> HAVE d.check = "datatype"
  <2>1. VisibleBases[d.self] # << >>
    BY <1>1 DEF Ready, Wellmade
  <2>2. VisitedType(d.self) = Declared(d.self)
    BY <2>1, VisitedTypeIs
  <2> QED BY <1>1, <1>3, <2>2 DEF SettledInv
<1>10. d.check = "datatype" /\ Errors(diags) = {} => Pristine(d.self)
  <2> HAVE d.check = "datatype" /\ Errors(diags) = {}
  <2>1. Unsettled(d.self) /\ program[d.self].kind = "interface"
    BY <1>1, <1>2 DEF Unsettled, Settles, Ready, Wellmade
  <2>2. types[d.self] = VisitedType(d.self) => types[d.self] = Declared(d.self)
    <3>1. VisibleBases[d.self] # << >>
      BY <1>1 DEF Ready, Wellmade
    <3> QED BY <3>1, VisitedTypeIs
  <2> QED BY <1>1, <1>3, <2>1, <2>2 DEF SettledInv, Pristine
<1>11. Errors(diags) = {} => (Told(d) <=> Duty(d))
  BY <1>1, <1>2, <1>10, ChecksTell
<1>12. (\A e \in ToSet(deferred) : Wellmade(e))'
  BY <1>0, <1>2, <1>3, <1>4, SameHolds
<1>13. Waits'
  <2> SUFFICES ASSUME NEW e \in ToSet(deferred'), NEW r \in ToSet(e.refs), Unsettled(r)'
               PROVE  r \in e.deps
    BY DEF Waits
  <2> HIDE DEF d
  <2> QED BY <1>2, <1>3, <1>4, <1>6 DEF Waits
<1>14. SettledInv'
  <2> SUFFICES ASSUME NEW f \in DOMAIN types
               PROVE  \/ /\ types'[f] = Final(f)
                         /\ Unsettled(f)' => Errors(diags)' # {} \/ program[f].kind # "interface" \/ StructOK(f)
                      \/ types'[f] = VisitedType(f) /\ Unsettled(f)'
    <3>1. program' = program
      BY <1>0 DEF SameProgram
    <3> QED BY <1>5, <1>8, <3>1 DEF SettledInv
  <2>1. \/ types[f] = Final(f) /\ (Unsettled(f) => Errors(diags) # {} \/ program[f].kind # "interface" \/ StructOK(f))
        \/ types[f] = VisitedType(f) /\ Unsettled(f)
    BY <1>3 DEF SettledInv
  <2>2. CASE Settles(d, f)
    <3>1. d.self = f /\ types'[f] = Final(f) /\ d.check \in {"datatype", "initializer"}
      BY <1>5, <2>2 DEF Settles
    <3>2. CASE d.check = "initializer"
      <4>1. program[f].kind = "class"
        BY <1>1, <3>1, <3>2 DEF Ready, Wellmade
      <4> QED BY <3>1, <4>1
    <3>3. CASE d.check = "datatype"
      <4>1. Errors(diags)' = {} => Told(d) \/ StructOK(f)
        <5>1. ToSet(MoreChecks(d)) = {}
          BY <1>1, <1>2, <3>3, NoneDeferred
        <5> QED BY <1>7, <5>1 DEF Told
      <4>2. Duty(d) => StructOK(f)
        BY <3>1, <3>3 DEF Duty
      <4> QED BY <1>7, <1>11, <3>1, <4>1, <4>2
    <3> QED BY <3>1, <3>2, <3>3
  <2>3. CASE ~ Settles(d, f)
    <3>1. types'[f] = types[f]
      BY <1>5, <2>3
    <3> HIDE DEF d
    <3> QED BY <1>6, <1>7, <2>1, <2>3, <3>1
  <2> QED BY <2>2, <2>3
<1>15. (Clean <=> NoneFound)'
  <2>1. Clean' <=> Clean
    BY <1>0, SameHolds, SameDuties DEF Clean
  <2>2. NoneFound' <=> Errors(diags)' = {} /\ \A e \in ToSet(deferred') : Duty(e)
    BY <1>0, SameDuties DEF NoneFound
  <2>3. NoneFound <=> Errors(diags) = {} /\ \A e \in ToSet(deferred) : Duty(e)
    BY DEF NoneFound
  <2>4. Errors(diags) = {} =>
          ((Errors(NewErrors(d)) = {} /\ \A e \in ToSet(deferred') : Duty(e)) <=> \A e \in ToSet(deferred) : Duty(e))
    <3>1. ASSUME Errors(diags) = {}, Errors(NewErrors(d)) = {}, \A e \in ToSet(deferred') : Duty(e)
          PROVE  \A e \in ToSet(deferred) : Duty(e)
      <4>1. Told(d)
        BY <1>2, <3>1 DEF Told
      <4>2. Duty(d)
        BY <1>11, <3>1, <4>1
      <4> QED BY <1>2, <3>1, <4>2
    <3>2. ASSUME Errors(diags) = {}, \A e \in ToSet(deferred) : Duty(e)
          PROVE  Errors(NewErrors(d)) = {} /\ \A e \in ToSet(deferred') : Duty(e)
      <4>1. Told(d)
        BY <1>2, <1>11, <3>2
      <4> QED BY <1>2, <3>2, <4>1 DEF Told
    <3> QED BY <3>1, <3>2
  <2> QED BY <1>3, <1>7, <2>1, <2>2, <2>3, <2>4
<1>16. WaitsForAll'
  BY <1>1 DEF WaitsForAll
<1> QED BY <1>12, <1>13, <1>14, <1>15, <1>16 DEF BooksInv

-----------------------------------------------------------------------------
(* What is settled keeps its kind. *)
LEMMA SettledKinds ==
  ASSUME NEW height, TypesOrdered(height), types = [f \in DOMAIN types |-> types[f]], NEW d, NEW bases
  PROVE  \E new : /\ new = Settled(d, bases)
                  /\ DOMAIN new = DOMAIN types /\ new = [f \in DOMAIN new |-> new[f]]
                  /\ \A f \in DOMAIN types : new[f].kind = types[f].kind
<1>1. \A f \in DOMAIN types : "kind" \in DOMAIN types[f]
  BY DEF TypesOrdered, TypeOrdered
<1>2. CASE d.check = "datatype"
  <2> DEFINE t == SettleDatatype(d.self, types[d.self], bases)
             new == [types EXCEPT ![d.self] = t]
  <2>1. Settled(d, bases) = new
    BY <1>2 DEF Settled
  <2>2. d.self \in DOMAIN types => t.kind = types[d.self].kind
    BY <1>1 DEF SettleDatatype
  <2> HIDE DEF t
  <2> QED BY <2>1, <2>2
<1>3. CASE d.check = "initializer" /\ \A b \in bases : IsClass(b)
  <2> DEFINE init == (CHOOSE b \in bases : TRUE).initializer
             t == [types[d.self] EXCEPT !.initializer = init]
             new == [types EXCEPT ![d.self] = t]
  <2>1. Settled(d, bases) = new
    <3>1. Settled(d, bases) = [types EXCEPT ![d.self].initializer = init]
      BY <1>3 DEF Settled
    <3> HIDE DEF init
    <3> QED BY <3>1
  <2> HIDE DEF init
  <2>2. d.self \in DOMAIN types => t.kind = types[d.self].kind
    BY <1>1
  <2> HIDE DEF t
  <2> QED BY <2>1, <2>2
<1>4. CASE ~ (d.check = "datatype") /\ ~ (d.check = "initializer" /\ \A b \in bases : IsClass(b))
  BY <1>4 DEF Settled
<1> QED BY <1>2, <1>3, <1>4

LEMMA InvokeRegister ==
  ASSUME NEW height, OrderInv(height), RegisterInv, Invoke
  PROVE  RegisterInv'
<1> DEFINE d == Scanned
<1>0. types = [f \in DOMAIN types |-> types[f]] /\ TypesOrdered(height)
  BY InvokeIs DEF RegisterInv, Working, OrderInv
<1> HIDE DEF d
<1>1. PICK new : /\ new = Settled(d, Bases(d))
                 /\ DOMAIN new = DOMAIN types /\ new = [f \in DOMAIN new |-> new[f]]
                 /\ \A f \in DOMAIN types : new[f].kind = types[f].kind
  BY <1>0, SettledKinds
<1>2. /\ phase = "deferreds" /\ stage' = stage /\ SameProgram
      /\ phase' = "thrown" \/
           /\ phase' = phase
           /\ types' = IF Bases(d) = {} THEN types ELSE new
  BY <1>1, InvokeIs DEF d
<1>3. /\ stage \in [Listed -> {"new", "heritage", "registered"}]
      /\ types = [f \in DOMAIN types |-> types[f]]
      /\ DOMAIN types = {f \in Listed : stage[f] = "registered"}
      /\ \A f \in DOMAIN types : types[f].kind = program[f].kind
      /\ \A f \in Listed : stage[f] = "registered"
  BY <1>2 DEF RegisterInv, Working
<1>4. Listed' = Listed /\ program' = program
  BY <1>2, SameHolds DEF SameProgram
<1>5. CASE phase' = "thrown"
  BY <1>5 DEF RegisterInv, Working
<1>6. CASE phase' = "deferreds"
  <2>1. types' = types \/ types' = new
    BY <1>2, <1>6
  <2>2. /\ types' = [f \in DOMAIN types' |-> types'[f]] /\ DOMAIN types' = DOMAIN types
        /\ \A f \in DOMAIN types : types'[f].kind = types[f].kind
    BY <1>1, <1>3, <2>1
  <2> QED BY <1>2, <1>3, <1>4, <1>6, <2>2 DEF RegisterInv, Working
<1> QED BY <1>2, <1>5, <1>6

(* A reference of the wrong kind is reported.                              *)
LEMMA WrongKindTold ==
  ASSUME NEW height, ForeignOrdered(height), RegisterInv, phase = "deferreds", NEW d, Descends(d, height),
         Errors(NewErrors(d)) = {}
  PROVE  Kinds(d)
<1>1. SUFFICES ASSUME d.check \in {"isClass", "isInterface"}, NEW r \in ToSet(d.refs)
               PROVE  Exists(r) /\ KindOf(r) = IF d.check = "isClass" THEN "class" ELSE "interface"
  BY DEF Kinds
<1>2. Errors(DereferenceErrors(d.refs)) = {} /\ (Bases(d) # {} => Errors(CheckErrors(d, Bases(d))) = {})
  <2>1. Errors(DereferenceErrors(d.refs) \cup (IF Bases(d) = {} THEN {} ELSE CheckErrors(d, Bases(d)))) = {} <=>
          Errors(DereferenceErrors(d.refs)) = {} /\ Errors(IF Bases(d) = {} THEN {} ELSE CheckErrors(d, Bases(d))) = {}
    BY NoErrors
  <2> QED BY <2>1 DEF NewErrors
<1>3. \A q \in ToSet(d.refs) : Known(q)
  BY <1>2, DereferenceTold
<1>4. TypeOf(r) \in Bases(d)
  BY <1>3 DEF Bases
<1>5. TypeOf(r).kind = IF d.check = "isClass" THEN "class" ELSE "interface"
  <2>1. Errors(CheckErrors(d, Bases(d))) = {}
    BY <1>2, <1>4
  <2>2. d.check = "isClass" => IsClass(TypeOf(r))
    BY <1>4, <2>1, CheckErrorsAre
  <2>3. d.check = "isInterface" => IsInterface(TypeOf(r))
    BY <1>4, <2>1, CheckErrorsAre
  <2> QED BY <1>1, <2>2, <2>3 DEF IsClass, IsInterface
<1>6. DOMAIN types = Listed /\ \A f \in DOMAIN types : types[f].kind = program[f].kind
  BY DEF RegisterInv, Working
<1>7. Exists(r) /\ TypeOf(r).kind = KindOf(r)
  BY <1>3, <1>6 DEF Known, Exists, TypeOf, KindOf
<1> QED BY <1>5, <1>7

(* The step that invokes a check keeps the invariant. *)
LEMMA InvokeFaith ==
  ASSUME NEW height \in [Fqns -> Nat], NEW top, Sound(height, top), FaithInv(height), Invoke
  PROVE  RegisterInv' /\ KindInv' /\ BooksInv' /\ ThrownInv'
<1> DEFINE d == Scanned
<1>0. OrderInv(height) /\ RegisterInv /\ KindInv /\ BooksInv /\ ForeignOrdered(height)
  BY DEF FaithInv, Sound, Ordered
<1>1. /\ phase = "deferreds" /\ SameProgram /\ diags' = diags \cup NewErrors(d) /\ stage' = stage
      /\ phase' \in {"deferreds", "thrown"}
  BY InvokeIs
<1>2. RegisterInv'
  BY <1>0, InvokeRegister
<1>3. AllHold => phase' = "deferreds" /\ BooksInv'
  BY <1>0, InvokeSettles, InvokeBooks
<1>4. AllHold' = AllHold
  BY <1>1, SameHolds
<1>5. BooksInv' /\ ThrownInv'
  BY <1>3, <1>4 DEF BooksInv, ThrownInv
<1>6. KindInv'
  <2> SUFFICES ASSUME Working', Errors(diags)' = {}, (\A e \in ToSet(deferred) : Kinds(e))',
                      NEW f \in Listed', stage'[f] # "new"
               PROVE  HeritageHolds(f)'
    BY DEF KindInv
  <2>1. /\ Listed' = Listed /\ (HeritageHolds(f)' <=> HeritageHolds(f))
        /\ \A e \in ToSet(deferred') : Kinds(e)
    BY <1>1, SameHolds
  <2>2. Errors(diags) = {} /\ Errors(NewErrors(d)) = {}
    <3>1. Errors(diags)' = Errors(diags \cup NewErrors(d))
      BY <1>1 DEF Errors
    <3> QED BY <3>1, NoErrors
  <2>3. phase' # "thrown"
    BY DEF Working
  <2>4. d \in ToSet(deferred) /\ Descends(d, height) /\ \A e \in ToSet(deferred) : e = d \/ e \in ToSet(deferred')
    BY <1>0, <2>3, DeferredThen
  <2>5. Kinds(d)
    BY <1>0, <1>1, <2>2, <2>4, WrongKindTold
  <2>6. \A e \in ToSet(deferred) : Kinds(e)
    <3> HIDE DEF d
    <3> QED BY <2>1, <2>4, <2>5
  <2> QED BY <1>0, <1>1, <2>1, <2>2, <2>6 DEF KindInv, Working
<1> QED BY <1>2, <1>5, <1>6

-----------------------------------------------------------------------------
(* What a visit defers, when all hold                                      *)
LEMMA HeritageWellmade ==
  ASSUME NEW height, NEW top, Sound(height, top), NEW f \in Listed, HeritageHolds(f), NEW e \in ToSet(HeritageChecks(f))
  PROVE  Wellmade(e) /\ e.deps = ToSet(e.refs) /\ e.check \notin {"datatype", "initializer"}
<1>1. ProgramOrdered(height)
  BY DEF Sound, Ordered
<1>2. /\ \A s \in ToSet(VisibleBases[f]) \cup ToSet(Interfaces(f)) : Exists(s)
      /\ \A s \in ToSet(Interfaces(f)) : KindOf(s) = "interface"
      /\ program[f].kind = "class" => \A s \in ToSet(VisibleBases[f]) : KindOf(s) = "class"
  BY DEF HeritageHolds
<1>3. ASSUME NEW check \in {"isClass", "isInterface"}, NEW r, AboutOne(e, f, check, r), Exists(r),
             KindOf(r) = IF check = "isClass" THEN "class" ELSE "interface",
             check = "isClass" => program[f].kind = "class"
      PROVE  Wellmade(e) /\ e.deps = ToSet(e.refs) /\ e.check \notin {"datatype", "initializer"}
  <2>1. e.deps = ToSet(e.refs) /\ e.check = check /\ e.self = f /\ e.refs = <<r>>
    BY <1>3, AboutOneIs
  <2>2. ToSet(<<r>>) = {r} /\ <<r>> # << >>
    BY DEF ToSet
  <2> QED BY <1>3, <2>1, <2>2 DEF Wellmade
<1>4. CASE program[f].kind # "class"
  <2>1. PICK i \in ToSet(VisibleBases[f]) : AboutOne(e, f, "isInterface", i)
    BY <1>1, <1>4, HeritageChecksAre
  <2>2. Exists(i) /\ KindOf(i) = "interface"
    BY <1>2, <1>4, <2>1 DEF Interfaces
  <2> QED BY <1>3, <2>1, <2>2
<1>5. CASE program[f].kind = "class"
  <2>1. \/ \E b \in ToSet(VisibleBases[f]) : AboutOne(e, f, "isClass", b)
        \/ \E x \in ToSet(WithErased(f)) :
             \/ \E i \in ToSet(Implemented(x)) : AboutOne(e, f, "isInterface", i)
             \/ Implemented(x) # << >> /\ AboutAll(e, f, "notStructs", Implemented(x))
    BY <1>1, <1>5, HeritageChecksAre
  <2>2. \A i : i \in ToSet(Interfaces(f)) <=> \E x \in ToSet(WithErased(f)) : i \in ToSet(Implemented(x))
    BY <1>5, InterfacesAre
  <2>3. CASE \E b \in ToSet(VisibleBases[f]) : AboutOne(e, f, "isClass", b)
    BY <1>2, <1>3, <1>5, <2>3
  <2>4. ASSUME NEW x \in ToSet(WithErased(f)), NEW i \in ToSet(Implemented(x)), AboutOne(e, f, "isInterface", i)
        PROVE  Wellmade(e) /\ e.deps = ToSet(e.refs) /\ e.check \notin {"datatype", "initializer"}
    <3>1. Exists(i) /\ KindOf(i) = "interface"
      BY <1>2, <2>2, <2>4
    <3> QED BY <1>3, <2>4, <3>1
  <2>5. ASSUME NEW x \in ToSet(WithErased(f)), Implemented(x) # << >>, AboutAll(e, f, "notStructs", Implemented(x))
        PROVE  Wellmade(e) /\ e.deps = ToSet(e.refs) /\ e.check \notin {"datatype", "initializer"}
    <3>1. e.deps = ToSet(e.refs) /\ e.check = "notStructs" /\ e.self = f /\ e.refs = Implemented(x)
      BY <2>5, AboutAllIs
    <3>2. \A i \in ToSet(Implemented(x)) : Exists(i)
      BY <1>2, <2>2, <2>5
    <3> QED BY <2>5, <3>1, <3>2 DEF Wellmade
  <2> QED BY <2>1, <2>3, <2>4, <2>5
<1> QED BY <1>4, <1>5

LEMMA MembersWellmade ==
  ASSUME NEW height, NEW top, Sound(height, top), NEW f \in Listed, HeritageHolds(f), NEW e \in ToSet(MemberChecks(f))
  PROVE  Wellmade(e) /\ e.deps = ToSet(e.refs) /\ e.self = f
<1>1. ProgramOrdered(height) /\ program[f].kind \in {"class", "interface", "enum"}
      /\ (program[f].kind = "enum" => VisibleBases[f] = << >>)
  BY DEF Sound, Ordered, ProgramTyped
<1>2. /\ \A s \in ToSet(VisibleBases[f]) : Exists(s)
      /\ program[f].kind = "interface" => \A s \in ToSet(VisibleBases[f]) : KindOf(s) = "interface"
      /\ program[f].kind = "class" => \A s \in ToSet(VisibleBases[f]) : KindOf(s) = "class"
  BY DEF HeritageHolds, Interfaces
<1>3. \/ \E m \in ToSet(Methods(f)) : Lifted(m) /\ AboutLift(e, f, m)
      \/ /\ VisibleBases[f] # << >>
         /\ IF program[f].kind = "class"
            THEN \/ Constructor(f) = << >> /\ AboutAll(e, f, "initializer", VisibleBases[f])
                 \/ AboutAll(e, f, "staticMixing", VisibleBases[f])
            ELSE \/ AboutAll(e, f, "datatype", VisibleBases[f])
                 \/ AboutAll(e, f, "noIntersection", VisibleBases[f])
  BY <1>1, MemberChecksAre
<1>4. ASSUME NEW m, AboutLift(e, f, m)
      PROVE  Wellmade(e) /\ e.deps = ToSet(e.refs) /\ e.self = f
  <2>1. e.deps = ToSet(e.refs) /\ e.check = "lift" /\ e.self = f /\ e.refs = <<LiftedType(m)>>
    BY <1>4, AboutLiftIs
  <2>2. <<LiftedType(m)>> # << >> /\ Len(<<LiftedType(m)>>) = 1
    OBVIOUS
  <2> QED BY <2>1, <2>2 DEF Wellmade
<1>5. ASSUME NEW check, AboutAll(e, f, check, VisibleBases[f]), VisibleBases[f] # << >>,
             \/ check = "initializer" /\ program[f].kind = "class" /\ Constructor(f) = << >>
             \/ check = "staticMixing" /\ program[f].kind = "class"
             \/ check \in {"datatype", "noIntersection"} /\ program[f].kind = "interface"
      PROVE  Wellmade(e) /\ e.deps = ToSet(e.refs) /\ e.self = f
  <2>1. e.fqn = f /\ e.deps = ToSet(e.refs) /\ e.check = check /\ e.self = f /\ e.refs = VisibleBases[f]
    BY <1>5, AboutAllIs
  <2> QED BY <1>2, <1>5, <2>1 DEF Wellmade
<1> QED BY <1>1, <1>3, <1>4, <1>5

-----------------------------------------------------------------------------
(* A visit up to the members                                               *)
LEMMA HeritageFaith ==
  ASSUME NEW height, NEW top, Sound(height, top), FaithInv(height), NEW f \in Listed, VisitHeritage(f)
  PROVE  RegisterInv' /\ KindInv' /\ BooksInv' /\ ThrownInv'
<1>0. RegisterInv /\ KindInv /\ BooksInv /\ AllDescend(deferred, height) /\ ProgramOrdered(height)
  BY DEF FaithInv, OrderInv, Sound, Ordered
<1>1. /\ phase = "visiting" /\ phase' = phase /\ stage[f] = "new"
      /\ stage' = [stage EXCEPT ![f] = "heritage"]
      /\ deferred' = deferred \o HeritageChecks(f)
      /\ diags' = diags \cup HeritageErrors(f)
      /\ types' = types /\ SameProgram
  BY DEF VisitHeritage, SameProgram, dependencyVars
<1>2. /\ stage \in [Listed -> {"new", "heritage", "registered"}]
      /\ types = [g \in DOMAIN types |-> types[g]]
      /\ DOMAIN types = {g \in Listed : stage[g] = "registered"}
      /\ \A g \in DOMAIN types : types[g].kind = program[g].kind
  BY <1>0, <1>1 DEF RegisterInv, Working
<1>3. Listed' = Listed /\ program' = program /\ AllHold' = AllHold
  BY <1>1, SameHolds DEF SameProgram
<1>4. \A e : e \in ToSet(deferred') <=> e \in ToSet(deferred) \/ e \in ToSet(HeritageChecks(f))
  <2>1. AllDescend(HeritageChecks(f), height)
    BY <1>0, HeritageChecksDescend
  <2> QED BY <1>0, <1>1, <2>1, JoinedElements
<1>5. Errors(diags)' = {} <=> Errors(diags) = {} /\ Errors(HeritageErrors(f)) = {}
  <2>1. Errors(diags)' = Errors(diags \cup HeritageErrors(f))
    BY <1>1 DEF Errors
  <2> QED BY <2>1, NoErrors
<1>6. RegisterInv'
  BY <1>1, <1>2, <1>3 DEF RegisterInv, Working
<1>7. KindInv'
  <2> SUFFICES ASSUME Errors(diags)' = {}, (\A e \in ToSet(deferred) : Kinds(e))', NEW g \in Listed, stage'[g] # "new"
               PROVE  HeritageHolds(g)
    BY <1>1, <1>3, SameHolds DEF KindInv
  <2>1. \A e \in ToSet(deferred') : Kinds(e)
    BY <1>1, SameHolds
  <2>2. CASE g # f
    <3>1. stage[g] # "new"
      BY <1>1, <1>2, <2>2
    <3>2. Errors(diags) = {} /\ \A e \in ToSet(deferred) : Kinds(e)
      BY <1>4, <1>5, <2>1
    <3> QED BY <1>0, <1>1, <3>1, <3>2 DEF KindInv, Working
  <2>3. HeritageHolds(f)
    <3>1. \A e \in ToSet(HeritageChecks(f)) : Kinds(e)
      BY <1>4, <2>1
    <3>2. ASSUME NEW check \in {"isClass", "isInterface"}, NEW r, NEW e \in ToSet(HeritageChecks(f)), AboutOne(e, f, check, r)
          PROVE  Exists(r) /\ KindOf(r) = IF check = "isClass" THEN "class" ELSE "interface"
      <4>1. Kinds(e) /\ e.check = check /\ e.refs = <<r>>
        BY <3>1, <3>2, AboutOneIs
      <4>2. r \in ToSet(<<r>>)
        BY DEF ToSet
      <4> QED BY <4>1, <4>2 DEF Kinds
    <3>3. \A check, r : \E e : AboutOne(e, f, check, r)
      BY DEF AboutOne
    <3>4. CASE program[f].kind # "class"
      <4>1. \A e, i : i \in ToSet(VisibleBases[f]) /\ AboutOne(e, f, "isInterface", i) => e \in ToSet(HeritageChecks(f))
        BY <1>0, <3>4, HeritageChecksAre
      <4>2. \A i \in ToSet(VisibleBases[f]) : Exists(i) /\ KindOf(i) = "interface"
        BY <3>2, <3>3, <4>1
      <4> QED BY <3>4, <4>2 DEF HeritageHolds, Interfaces
    <3>5. CASE program[f].kind = "class"
      <4>1. \A e : e \in ToSet(HeritageChecks(f)) <=>
                     \/ \E b \in ToSet(VisibleBases[f]) : AboutOne(e, f, "isClass", b)
                     \/ \E x \in ToSet(WithErased(f)) :
                          \/ \E i \in ToSet(Implemented(x)) : AboutOne(e, f, "isInterface", i)
                          \/ Implemented(x) # << >> /\ AboutAll(e, f, "notStructs", Implemented(x))
        BY <1>0, <3>5, HeritageChecksAre
      <4>2. \A i : i \in ToSet(Interfaces(f)) <=> \E x \in ToSet(WithErased(f)) : i \in ToSet(Implemented(x))
        BY <3>5, InterfacesAre
      <4>3. \A b \in ToSet(VisibleBases[f]) : Exists(b) /\ KindOf(b) = "class"
        BY <3>2, <3>3, <4>1
      <4>4. ASSUME NEW i \in ToSet(Interfaces(f))
            PROVE  Exists(i) /\ KindOf(i) = "interface"
        <5>1. PICK x \in ToSet(WithErased(f)) : i \in ToSet(Implemented(x))
          BY <4>2, <4>4
        <5>2. PICK e : AboutOne(e, f, "isInterface", i)
          BY <3>3
        <5>3. e \in ToSet(HeritageChecks(f))
          BY <4>1, <5>1, <5>2
        <5> QED BY <3>2, <5>2, <5>3
      <4> QED BY <4>3, <4>4 DEF HeritageHolds
    <3> QED BY <3>4, <3>5
  <2> QED BY <2>2, <2>3
<1>8. BooksInv'
  <2> SUFFICES ASSUME AllHold
               PROVE  /\ (\A d \in ToSet(deferred) : Wellmade(d))'
                      /\ SettledInv' /\ Waits' /\ WaitsForAll'
                      /\ (Clean <=> NoneFound)'
    BY <1>3 DEF BooksInv
  <2>1. /\ \A d \in ToSet(deferred) : Wellmade(d)
        /\ SettledInv /\ Waits /\ WaitsForAll
        /\ Clean <=> NoneFound
    BY <1>0, <1>1 DEF BooksInv, Working
  <2>2. \A e \in ToSet(HeritageChecks(f)) : Wellmade(e) /\ e.deps = ToSet(e.refs) /\ e.check \notin {"datatype", "initializer"}
    BY HeritageWellmade DEF AllHold
  <2>3. (\A d \in ToSet(deferred) : Wellmade(d))'
    BY <1>1, <1>4, <2>1, <2>2, SameHolds
  <2>4. \A d \in ToSet(deferred') : d.deps = ToSet(d.refs)
    BY <1>1, <1>4, <2>1, <2>2 DEF WaitsForAll
  <2>5. Waits' /\ WaitsForAll'
    BY <2>4 DEF Waits, WaitsForAll
  <2>6. \A g : Unsettled(g)' <=> Unsettled(g)
    BY <1>4, <2>2 DEF Unsettled, Settles
  <2>7. SettledInv'
    <3>1. \A g : Final(g)' = Final(g) /\ VisitedType(g)' = VisitedType(g) /\ StructOK(g)' = StructOK(g)
      BY <1>1, SameTypes, SameDuties
    <3> QED BY <1>1, <1>3, <1>5, <2>1, <2>6, <3>1 DEF SettledInv
  <2>8. Clean' <=> Clean /\ HeritageClean(f)
    <3>1. \A g : HeritageClean(g)' = HeritageClean(g) /\ MembersClean(g)' = MembersClean(g)
      BY <1>1, SameDuties
    <3>2. Clean' <=> \A g \in Listed : (stage'[g] # "new" => HeritageClean(g)) /\ (stage'[g] = "registered" => MembersClean(g))
      BY <1>3, <3>1 DEF Clean
    <3>3. \A g \in Listed : stage'[g] = IF g = f THEN "heritage" ELSE stage[g]
      BY <1>1, <1>2
    <3> QED BY <1>1, <3>2, <3>3 DEF Clean
  <2>9. NoneFound' <=> NoneFound /\ HeritageClean(f)
    <3>1. NoneFound' <=> Errors(diags)' = {} /\ \A e \in ToSet(deferred') : Duty(e)
      BY <1>1, SameDuties DEF NoneFound
    <3> QED BY <1>4, <1>5, <3>1 DEF NoneFound, HeritageClean
  <2> QED BY <2>1, <2>3, <2>5, <2>7, <2>8, <2>9
<1>9. ThrownInv'
  BY <1>1 DEF ThrownInv
<1> QED BY <1>6, <1>7, <1>8, <1>9

-----------------------------------------------------------------------------
(* A visit of the members                                                  *)

(* What is registered is settled, or will be. *)
LEMMA VisitSettles ==
  ASSUME NEW height, NEW top, Sound(height, top), NEW f \in Listed, HeritageHolds(f)
  PROVE  \/ VisitedType(f) = Final(f)
         \/ \E e \in ToSet(MemberChecks(f)) : Settles(e, f)
<1>1. ProgramOrdered(height) /\ program[f].kind \in {"class", "interface", "enum"}
      /\ (program[f].kind = "enum" => VisibleBases[f] = << >>)
  BY DEF Sound, Ordered, ProgramTyped
<1>2. \A check : \E e : AboutAll(e, f, check, VisibleBases[f])
  BY DEF AboutAll
<1>3. CASE VisibleBases[f] # << >> /\ program[f].kind = "class" /\ Constructor(f) = << >>
  <2>1. PICK e : AboutAll(e, f, "initializer", VisibleBases[f])
    BY <1>2
  <2>2. e \in ToSet(MemberChecks(f))
    BY <1>1, <1>3, <2>1, MemberChecksAre
  <2> QED BY <2>1, <2>2, AboutAllIs DEF Settles
<1>4. CASE VisibleBases[f] # << >> /\ program[f].kind = "interface"
  <2>1. PICK e : AboutAll(e, f, "datatype", VisibleBases[f])
    BY <1>2
  <2>2. e \in ToSet(MemberChecks(f))
    BY <1>1, <1>4, <2>1, MemberChecksAre
  <2> QED BY <2>1, <2>2, AboutAllIs DEF Settles
<1>5. CASE program[f].kind = "class" /\ (VisibleBases[f] = << >> \/ Constructor(f) # << >>)
  BY <1>5, FinalIs
<1>6. CASE program[f].kind = "enum"
  BY <1>6, FinalIs
<1>7. CASE program[f].kind = "interface" /\ VisibleBases[f] = << >>
  BY <1>7, FinalIs
<1> QED BY <1>1, <1>3, <1>4, <1>5, <1>6, <1>7

LEMMA MembersBooks ==
  ASSUME NEW height, NEW top, Sound(height, top), NEW f \in Listed, HeritageHolds(f),
         RegisterInv, VisitMembers(f),
         \A e : e \in ToSet(deferred') <=> e \in ToSet(deferred) \/ e \in ToSet(MemberChecks(f)),
         SettledInv
  PROVE  SettledInv'
<1>1. /\ phase = "visiting" /\ stage[f] = "heritage"
      /\ types' = [g \in DOMAIN types \cup {f} |-> IF g = f THEN VisitedType(f) ELSE types[g]]
      /\ diags' = diags \cup (MemberErrors(f) \cup EagerErrors(f)) /\ SameProgram
  BY DEF VisitMembers, SameProgram, dependencyVars
<1>2. DOMAIN types = {g \in Listed : stage[g] = "registered"}
  BY <1>1 DEF RegisterInv, Working
<1>3. f \notin DOMAIN types
  BY <1>1, <1>2
<1>4. /\ DOMAIN types' = DOMAIN types \cup {f}
      /\ types'[f] = VisitedType(f)
      /\ \A g \in DOMAIN types : types'[g] = types[g]
  BY <1>1, <1>3
<1>5. \A e \in ToSet(MemberChecks(f)) : e.self = f
  BY MembersWellmade
<1>6. \A g : g # f => (Unsettled(g)' <=> Unsettled(g))
  BY <1>5 DEF Unsettled, Settles
<1>7. \A g : Final(g)' = Final(g) /\ VisitedType(g)' = VisitedType(g) /\ StructOK(g)' = StructOK(g)
  BY <1>1, SameTypes, SameDuties
<1>8. program' = program
  BY <1>1 DEF SameProgram
<1>9. Errors(diags)' = {} => Errors(diags) = {}
  <2>1. Errors(diags)' = Errors(diags \cup (MemberErrors(f) \cup EagerErrors(f)))
    BY <1>1 DEF Errors
  <2> QED BY <2>1, NoErrors
<1>10. \/ VisitedType(f) = Final(f) /\ ~ Unsettled(f)'
       \/ Unsettled(f)'
  <2>1. (\E e \in ToSet(MemberChecks(f)) : Settles(e, f)) => Unsettled(f)'
    BY DEF Unsettled, Settles
  <2> QED BY <2>1, VisitSettles
<1>11. SettledInv' <=>
         \A g \in DOMAIN types' :
           \/ types'[g] = Final(g) /\ (Unsettled(g)' => Errors(diags)' # {} \/ program[g].kind # "interface" \/ StructOK(g))
           \/ types'[g] = VisitedType(g) /\ Unsettled(g)'
  BY <1>7, <1>8 DEF SettledInv
<1>12. ASSUME NEW g \in DOMAIN types'
       PROVE  \/ types'[g] = Final(g) /\ (Unsettled(g)' => Errors(diags)' # {} \/ program[g].kind # "interface" \/ StructOK(g))
              \/ types'[g] = VisitedType(g) /\ Unsettled(g)'
  <2>1. CASE g = f
    BY <1>4, <1>10, <2>1
  <2>2. CASE g # f
    <3>1. g \in DOMAIN types /\ types'[g] = types[g] /\ (Unsettled(g)' <=> Unsettled(g))
      BY <1>4, <1>6, <2>2
    <3> QED BY <1>9, <3>1 DEF SettledInv
  <2> QED BY <2>1, <2>2
<1> QED BY <1>11, <1>12

LEMMA MembersFaith ==
  ASSUME NEW height, NEW top, Sound(height, top), FaithInv(height), NEW f \in Listed, VisitMembers(f)
  PROVE  RegisterInv' /\ KindInv' /\ BooksInv' /\ ThrownInv'
<1>0. RegisterInv /\ KindInv /\ BooksInv /\ AllDescend(deferred, height) /\ ProgramOrdered(height)
  BY DEF FaithInv, OrderInv, Sound, Ordered
<1>1. /\ phase = "visiting" /\ phase' = phase /\ stage[f] = "heritage"
      /\ stage' = [stage EXCEPT ![f] = "registered"]
      /\ types' = [g \in DOMAIN types \cup {f} |-> IF g = f THEN VisitedType(f) ELSE types[g]]
      /\ deferred' = deferred \o MemberChecks(f)
      /\ diags' = diags \cup (MemberErrors(f) \cup EagerErrors(f))
      /\ SameProgram
  BY DEF VisitMembers, SameProgram, dependencyVars
<1>2. /\ stage \in [Listed -> {"new", "heritage", "registered"}]
      /\ types = [g \in DOMAIN types |-> types[g]]
      /\ DOMAIN types = {g \in Listed : stage[g] = "registered"}
      /\ \A g \in DOMAIN types : types[g].kind = program[g].kind
  BY <1>0, <1>1 DEF RegisterInv, Working
<1>3. Listed' = Listed /\ program' = program /\ AllHold' = AllHold
  BY <1>1, SameHolds DEF SameProgram
<1>4. \A e : e \in ToSet(deferred') <=> e \in ToSet(deferred) \/ e \in ToSet(MemberChecks(f))
  <2>1. AllDescend(MemberChecks(f), height)
    BY <1>0, MemberChecksDescend
  <2> QED BY <1>0, <1>1, <2>1, JoinedElements
<1>5. Errors(diags)' = {} <=> Errors(diags) = {} /\ Errors(MemberErrors(f) \cup EagerErrors(f)) = {}
  <2>1. Errors(diags)' = Errors(diags \cup (MemberErrors(f) \cup EagerErrors(f)))
    BY <1>1 DEF Errors
  <2> QED BY <2>1, NoErrors
<1>5a. \A g \in Listed : stage'[g] = IF g = f THEN "registered" ELSE stage[g]
  BY <1>1, <1>2
<1>6. RegisterInv'
  <2>1. /\ stage' \in [Listed -> {"new", "heritage", "registered"}]
        /\ DOMAIN types' = {g \in Listed : stage'[g] = "registered"}
    BY <1>1, <1>2
  <2>2. types' = [g \in DOMAIN types' |-> types'[g]]
    BY <1>1
  <2>3. ASSUME NEW g \in DOMAIN types'
        PROVE  types'[g].kind = program[g].kind
    <3>1. VisitedType(f).kind = program[f].kind
      BY TypesRead DEF Reads
    <3>2. types'[g] = IF g = f THEN VisitedType(f) ELSE types[g]
      BY <1>1, <2>3
    <3>3. g = f \/ g \in DOMAIN types
      BY <1>1, <2>3
    <3> QED BY <1>2, <3>1, <3>2, <3>3
  <2> QED BY <1>1, <1>3, <2>1, <2>2, <2>3 DEF RegisterInv, Working
<1>7. KindInv'
  <2> SUFFICES ASSUME Errors(diags)' = {}, (\A e \in ToSet(deferred) : Kinds(e))', NEW g \in Listed, stage'[g] # "new"
               PROVE  HeritageHolds(g)
    BY <1>1, <1>3, SameHolds DEF KindInv
  <2>1. \A e \in ToSet(deferred') : Kinds(e)
    BY <1>1, SameHolds
  <2>2. stage[g] # "new"
    BY <1>1, <1>5a
  <2>3. Errors(diags) = {} /\ \A e \in ToSet(deferred) : Kinds(e)
    BY <1>4, <1>5, <2>1
  <2> QED BY <1>0, <1>1, <2>2, <2>3 DEF KindInv, Working
<1>8. BooksInv'
  <2> SUFFICES ASSUME AllHold
               PROVE  /\ (\A d \in ToSet(deferred) : Wellmade(d))'
                      /\ SettledInv' /\ Waits' /\ WaitsForAll'
                      /\ (Clean <=> NoneFound)'
    BY <1>3 DEF BooksInv
  <2>1. /\ \A d \in ToSet(deferred) : Wellmade(d)
        /\ SettledInv /\ Waits /\ WaitsForAll
        /\ Clean <=> NoneFound
    BY <1>0, <1>1 DEF BooksInv, Working
  <2>2. \A e \in ToSet(MemberChecks(f)) : Wellmade(e) /\ e.deps = ToSet(e.refs) /\ e.self = f
    BY MembersWellmade DEF AllHold
  <2>3. (\A d \in ToSet(deferred) : Wellmade(d))'
    BY <1>1, <1>4, <2>1, <2>2, SameHolds
  <2>4. \A d \in ToSet(deferred') : d.deps = ToSet(d.refs)
    BY <1>1, <1>4, <2>1, <2>2 DEF WaitsForAll
  <2>5. Waits' /\ WaitsForAll'
    BY <2>4 DEF Waits, WaitsForAll
  <2>7. SettledInv'
    BY <1>0, <1>4, <2>1, MembersBooks DEF AllHold
  <2>8. Clean' <=> Clean /\ MembersClean(f)
    <3>1. \A g : HeritageClean(g)' = HeritageClean(g) /\ MembersClean(g)' = MembersClean(g)
      BY <1>1, SameDuties
    <3>2. Clean' <=> \A g \in Listed : (stage'[g] # "new" => HeritageClean(g)) /\ (stage'[g] = "registered" => MembersClean(g))
      BY <1>3, <3>1 DEF Clean
    <3> QED BY <1>1, <1>5a, <3>2 DEF Clean
  <2>9. NoneFound' <=> NoneFound /\ MembersClean(f)
    <3>1. NoneFound' <=> Errors(diags)' = {} /\ \A e \in ToSet(deferred') : Duty(e)
      BY <1>1, SameDuties DEF NoneFound
    <3> QED BY <1>4, <1>5, <3>1 DEF NoneFound, MembersClean
  <2> QED BY <2>1, <2>3, <2>5, <2>7, <2>8, <2>9
<1>9. ThrownInv'
  BY <1>1 DEF ThrownInv
<1> QED BY <1>6, <1>7, <1>8, <1>9

-----------------------------------------------------------------------------
(* A pass forgets dependencies that have no check of their own             *)
SameCheck(e, d) == e.fqn = d.fqn /\ e.check = d.check /\ e.self = d.self /\ e.refs = d.refs /\ e.names = d.names

LEMMA SameCheckSame ==
  ASSUME NEW e, NEW d, SameCheck(e, d)
  PROVE  /\ Kinds(e) <=> Kinds(d)
         /\ Wellmade(e) <=> Wellmade(d)
         /\ Duty(e) <=> Duty(d)
         /\ \A f : Settles(e, f) <=> Settles(d, f)
<1>1. Kinds(e) <=> Kinds(d)
  BY DEF Kinds, SameCheck
<1>2. Wellmade(e) <=> Wellmade(d)
  BY DEF Wellmade, SameCheck
<1>3. Duty(e) <=> Duty(d)
  BY DEF Duty, SameCheck
<1>4. \A f : Settles(e, f) <=> Settles(d, f)
  BY DEF Settles, SameCheck
<1> QED BY <1>1, <1>2, <1>3, <1>4

LEMMA PassKeepsChecks ==
  ASSUME NEW height, AllDescend(deferred, height), StartPass
  PROVE  LET pending == {d.fqn : d \in ToSet(deferred)} IN
         /\ \A e \in ToSet(deferred') : \E d \in ToSet(deferred) : SameCheck(e, d) /\ e.deps = d.deps \cap pending
         /\ \A d \in ToSet(deferred) : \E e \in ToSet(deferred') : SameCheck(e, d)
<1> DEFINE pending == {d.fqn : d \in ToSet(deferred)}
           s == [i \in DOMAIN deferred |-> [deferred[i] EXCEPT !.deps = @ \cap pending]]
<1>1. deferred' = s
  BY DEF StartPass
<1>2. /\ DOMAIN deferred = 1 .. Len(deferred)
      /\ \A i \in 1 .. Len(deferred) : Descends(deferred[i], height)
      /\ ToSet(deferred) = {deferred[i] : i \in 1 .. Len(deferred)}
  BY Elements DEF AllDescend, ToSet
<1> HIDE DEF pending
<1>3. \A i \in 1 .. Len(deferred) : s[i] = [deferred[i] EXCEPT !.deps = @ \cap pending]
  BY <1>2
<1>4. ToSet(s) = {s[i] : i \in 1 .. Len(deferred)}
  BY <1>2 DEF ToSet
<1> HIDE DEF s
<1>5. ASSUME NEW i \in 1 .. Len(deferred)
      PROVE  SameCheck(s[i], deferred[i]) /\ s[i].deps = deferred[i].deps \cap pending
  BY <1>2, <1>3 DEF SameCheck, Descends
<1>6. /\ \A e \in ToSet(deferred') : \E d \in ToSet(deferred) : SameCheck(e, d) /\ e.deps = d.deps \cap pending
      /\ \A d \in ToSet(deferred) : \E e \in ToSet(deferred') : SameCheck(e, d)
  BY <1>1, <1>2, <1>4, <1>5
<1> QED BY <1>6 DEF pending

(* Nobody stops waiting for a type that is still to be settled: its check  *)
(* goes by its name.                                                       *)
LEMMA StartPassFaith ==
  ASSUME NEW height, FaithInv(height), StartPass
  PROVE  RegisterInv' /\ KindInv' /\ BooksInv' /\ ThrownInv'
<1> DEFINE pending == {d.fqn : d \in ToSet(deferred)}
<1>0. RegisterInv /\ KindInv /\ BooksInv /\ ThrownInv /\ AllDescend(deferred, height)
  BY DEF FaithInv, OrderInv
<1>1. /\ phase = "deferreds" /\ phase' = phase
      /\ UNCHANGED <<stage, types, diags>> /\ SameProgram
  BY DEF StartPass, SameProgram, dependencyVars
<1>2. /\ \A e \in ToSet(deferred') : \E d \in ToSet(deferred) : SameCheck(e, d) /\ e.deps = d.deps \cap pending
      /\ \A d \in ToSet(deferred) : \E e \in ToSet(deferred') : SameCheck(e, d)
  BY <1>0, PassKeepsChecks
<1>2a. \A d \in ToSet(deferred) : d.fqn \in pending
  OBVIOUS
<1> HIDE DEF pending
<1>3. program' = program /\ Listed' = Listed /\ AllHold' = AllHold
  BY <1>1, SameHolds DEF SameProgram
<1>4. RegisterInv'
  BY <1>0, <1>1, <1>3 DEF RegisterInv, Working
<1>5. KindInv'
  <2>1. (\A e \in ToSet(deferred) : Kinds(e))' => \A d \in ToSet(deferred) : Kinds(d)
    <3>1. (\A e \in ToSet(deferred) : Kinds(e))' => \A e \in ToSet(deferred') : Kinds(e)
      BY <1>1, SameHolds
    <3> QED BY <1>2, <3>1, SameCheckSame
  <2> QED BY <1>0, <1>1, <1>3, <2>1, SameHolds DEF KindInv, Working, Errors
<1>6. \A f : Unsettled(f)' <=> Unsettled(f)
  <2>1. \A f : Unsettled(f)' <=> \E e \in ToSet(deferred') : Settles(e, f)
    BY DEF Unsettled, Settles
  <2> QED BY <1>2, <2>1, SameCheckSame DEF Unsettled
<1>7. BooksInv'
  <2> SUFFICES ASSUME AllHold
               PROVE  /\ (\A d \in ToSet(deferred) : Wellmade(d))'
                      /\ SettledInv' /\ Waits' /\ WaitsForAll'
                      /\ (Clean <=> NoneFound)'
    BY <1>3 DEF BooksInv
  <2>1. /\ \A d \in ToSet(deferred) : Wellmade(d)
        /\ SettledInv /\ Waits
        /\ Clean <=> NoneFound
    BY <1>0, <1>1 DEF BooksInv, Working
  <2>2. (\A d \in ToSet(deferred) : Wellmade(d))'
    <3>1. \A e \in ToSet(deferred') : Wellmade(e)
      BY <1>2, <2>1, SameCheckSame
    <3> QED BY <1>1, <3>1, SameHolds
  <2>3. SettledInv'
    BY <1>1, <1>3, <1>6, <2>1, SameTypes, SameDuties DEF SettledInv, Errors
  <2>4. WaitsForAll'
    BY <1>1 DEF WaitsForAll
  <2>5. Waits'
    <3> SUFFICES ASSUME NEW e \in ToSet(deferred'), NEW r \in ToSet(e.refs), Unsettled(r)
                 PROVE  r \in e.deps
      BY <1>6 DEF Waits
    <3>1. PICK d \in ToSet(deferred) : SameCheck(e, d) /\ e.deps = d.deps \cap pending
      BY <1>2
    <3>2. r \in d.deps
      BY <2>1, <3>1 DEF Waits, SameCheck
    <3>3. PICK c \in ToSet(deferred) : Settles(c, r)
      BY DEF Unsettled
    <3>4. c.fqn = r
      BY <2>1, <3>3 DEF Wellmade, Settles
    <3> QED BY <1>2a, <3>1, <3>2, <3>3, <3>4
  <2>6. Clean' <=> Clean
    BY <1>1, <1>3, SameDuties DEF Clean
  <2>7. NoneFound' <=> NoneFound
    <3>1. (\A e \in ToSet(deferred) : Duty(e))' <=> \A e \in ToSet(deferred') : Duty(e)
      BY <1>1, SameDuties
    <3>2. (\A e \in ToSet(deferred') : Duty(e)) <=> \A d \in ToSet(deferred) : Duty(d)
      BY <1>2, SameCheckSame
    <3> QED BY <1>1, <3>1, <3>2 DEF NoneFound, Errors
  <2> QED BY <2>1, <2>2, <2>3, <2>4, <2>5, <2>6, <2>7
<1>8. ThrownInv'
  BY <1>1 DEF ThrownInv
<1> QED BY <1>4, <1>5, <1>7, <1>8

-----------------------------------------------------------------------------
(* Before the first visit there is nothing to account for.                 *)
LEMMA FreshFaith ==
  ASSUME NEW height, FaithInv(height), LoadProjectInfo \/ WriteTypeScriptConfig
  PROVE  RegisterInv' /\ KindInv' /\ BooksInv' /\ ThrownInv'
<1>1. /\ phase \in {"loading", "configuring"} /\ Fresh
      /\ phase' \in {"unloadable", "configuring", "visiting"}
      /\ UNCHANGED <<program, stage, types, deferred, diags>>
  BY DEF LoadProjectInfo, WriteTypeScriptConfig, Fail, assemblingVars, FaithInv, RegisterInv
<1>2. Listed' = Listed
  BY <1>1 DEF Listed
<1>3. Fresh'
  BY <1>1, <1>2 DEF Fresh
<1>4. /\ stage' = [f \in Listed |-> "new"] /\ types' = << >> /\ deferred' = << >> /\ diags' = {}
      /\ DOMAIN types' = {} /\ ToSet(deferred') = {} /\ Errors(diags)' = {}
  BY <1>1, <1>2, <1>3 DEF Fresh, ToSet, Errors
<1>5. RegisterInv'
  BY <1>1, <1>2, <1>3, <1>4 DEF RegisterInv
<1>6. KindInv'
  BY <1>2, <1>4 DEF KindInv
<1>7. BooksInv'
  <2>1. SettledInv' /\ Waits' /\ WaitsForAll'
    BY <1>4 DEF SettledInv, Waits, WaitsForAll
  <2>2. Clean' /\ NoneFound'
    BY <1>2, <1>4 DEF Clean, NoneFound
  <2> QED BY <1>4, <2>1, <2>2 DEF BooksInv
<1>8. ThrownInv'
  BY <1>1 DEF ThrownInv
<1> QED BY <1>5, <1>6, <1>7, <1>8

LEMMA InitFaith ==
  ASSUME NEW height PROVE Init => FaithInv(height)
<1> SUFFICES ASSUME Init PROVE FaithInv(height)
  OBVIOUS
<1>1. phase = "loading" /\ Fresh
  BY DEF Init, AssemblerInit, Fresh
<1>2. RegisterInv /\ KindInv /\ BooksInv /\ ThrownInv
  BY <1>1 DEF RegisterInv, KindInv, BooksInv, ThrownInv, Working
<1> QED BY <1>2, InitOrder DEF FaithInv

-----------------------------------------------------------------------------
(* What is done once emit is over leaves only what was thrown to say.      *)
LEMMA EndFaith ==
  ASSUME NEW height, FaithInv(height),
         Emit \/ Catch \/ (\E tsErrors, failOnWarnings \in BOOLEAN : Exit(tsErrors, failOnWarnings)) \/ UNCHANGED compilerVars
  PROVE  RegisterInv' /\ KindInv' /\ BooksInv' /\ ThrownInv'
<1>0. RegisterInv /\ KindInv /\ BooksInv /\ ThrownInv
  BY DEF FaithInv
<1>1. CASE Emit
  <2>1. phase' \in {"emitted", "skipped"}
    BY <1>1 DEF Emit
  <2> QED BY <2>1 DEF RegisterInv, KindInv, BooksInv, ThrownInv, Working
<1>2. CASE ~ Emit
  <2>1. UNCHANGED <<dependencyVars, program, stage, types, deferred, diags, phase>>
    BY <1>2 DEF Catch, Exit, compilerVars, assemblerVars
  <2>2. SameProgram
    BY <2>1 DEF SameProgram, dependencyVars
  <2>3. Listed' = Listed /\ AllHold' = AllHold /\ Working' = Working
    BY <2>1, <2>2, SameHolds DEF Working
  <2>4. RegisterInv'
    BY <1>0, <2>1, <2>2, <2>3, SameBooks DEF RegisterInv
  <2>5. KindInv'
    BY <1>0, <2>1, <2>2, <2>3, SameHolds DEF KindInv, Errors
  <2>6. WaitsForAll' = WaitsForAll
    BY <2>1 DEF WaitsForAll
  <2>7. BooksInv'
    BY <1>0, <2>1, <2>2, <2>3, <2>6, SameBooks DEF BooksInv
  <2>8. ThrownInv'
    BY <1>0, <2>1, <2>3 DEF ThrownInv
  <2> QED BY <2>4, <2>5, <2>7, <2>8
<1> QED BY <1>1, <1>2

(* The invariant is kept: no pass is stuck, because the declarations are   *)
(* ordered.                                                                *)
LEMMA StepFaith ==
  ASSUME NEW height, NEW top, Sound(height, top), FaithInv(height), [Next]_compilerVars
  PROVE  FaithInv(height)'
<1>0. height \in [Fqns -> Nat] /\ OrderInv(height) /\ Ordered(height)
  BY DEF Sound, FaithInv
<1>1. OrderInv(height)'
  BY <1>0, StepOrder
<1>2. RegisterInv /\ KindInv /\ BooksInv /\ ThrownInv
  BY DEF FaithInv
<1>3. CASE Assemble
  <2>1. CASE \E f \in Listed : VisitHeritage(f) \/ VisitMembers(f)
    BY <1>1, <2>1, HeritageFaith, MembersFaith DEF FaithInv
  <2>2. CASE StartPass
    BY <1>1, <2>2, StartPassFaith DEF FaithInv
  <2>3. CASE Invoke
      BY <1>0, <1>1, <2>3, InvokeFaith DEF FaithInv
  <2>4. CASE AllVisited
    <3>1. /\ SameProgram /\ UNCHANGED <<stage, types, deferred, diags>>
          /\ phase = "visiting" /\ phase' = "deferreds" /\ \A f \in Listed : stage[f] = "registered"
      BY <2>4 DEF AllVisited, SameProgram, dependencyVars
    <3> QED BY <1>1, <1>2, <3>1, PhaseStep DEF FaithInv, Working
  <2>5. CASE SkipDependent \/ DeferredsDone \/ EndPass
    <3>1. /\ SameProgram /\ UNCHANGED <<stage, types, deferred, diags>>
          /\ phase = "deferreds"
      BY <2>5 DEF SkipDependent, DeferredsDone, EndPass, SameProgram, dependencyVars
    <3>2. EndPass => phase' = phase
      BY <1>0, OrderedIsNotStuck DEF EndPass, NeverStuck
    <3>3. phase' \in {"deferreds", "assembled"} /\ (phase' = "assembled" => deferred = << >>)
      BY <2>5, <3>1, <3>2 DEF SkipDependent, DeferredsDone
    <3>4. \A f \in Listed : stage[f] = "registered"
      BY <1>2, <3>1 DEF RegisterInv
    <3> QED BY <1>1, <1>2, <3>1, <3>3, <3>4, PhaseStep DEF FaithInv, Working
  <2> QED BY <1>3, <2>1, <2>2, <2>3, <2>4, <2>5 DEF Assemble, AssemblerNext
<1>4. CASE LoadProjectInfo \/ WriteTypeScriptConfig
  BY <1>1, <1>4, FreshFaith DEF FaithInv
<1>5. CASE Emit \/ Catch \/ (\E tsErrors, failOnWarnings \in BOOLEAN : Exit(tsErrors, failOnWarnings)) \/ UNCHANGED compilerVars
  BY <1>1, <1>5, EndFaith DEF FaithInv
<1> QED BY <1>3, <1>4, <1>5 DEF Next

-----------------------------------------------------------------------------
(* The validator reports errors only.                                      *)
LEMMA ErrorIfOnly ==
  ASSUME NEW c, NEW code, NEW d \in ErrorIf(c, code)
  PROVE  d.category = "error"
BY DEF ErrorIf, Error

LEMMA ValidationErrorsOnly ==
  ASSUME NEW a
  PROVE  Errors(ValidationErrors(a)) = ValidationErrors(a)
<1> DEFINE Only(S) == \A d \in S : d.category = "error"
<1>1. \A c, code : Only(ErrorIf(c, code))
  BY ErrorIfOnly
<1>2. \A S, T : Only(S) /\ Only(T) => Only(S \cup T)
  OBVIOUS
<1>3. \A SS : (\A S \in SS : Only(S)) => Only(UNION SS)
  OBVIOUS
<1> HIDE DEF Only
<1>4. Only(BadNames(a))
  <2> DEFINE bad(f) == ErrorIf(~ InStyle(f, {"pascal"}), "type name")
      \cup ErrorIf(\E v \in a[f].members : ~ InStyle(v, {"upper"}), "enum member name")
      \cup ErrorIf(\/ \E m \in a[f].methods : ~ InStyle(m.name, {"camel"})
                   \/ \E p \in a[f].properties :
                        ~ (p.static /\ p.const) /\ ~ InStyle(p.name, {"camel"}), "member name")
      \cup ErrorIf(\E p \in a[f].properties :
                     p.static /\ p.const /\ ~ InStyle(p.name, {"upper", "pascal", "camel"}), "constant name")
      \cup ErrorIf(\/ \E m \in a[f].methods :
                        \/ InStyle(m.name, {"get"}) /\ m.parameters = << >>
                        \/ InStyle(m.name, {"set"}) /\ Len(m.parameters) = 1
                   \/ \E p \in a[f].properties : InStyle(p.name, {"get"}), "accessor name")
  <2>1. \A f : Only(bad(f))
    BY <1>1, <1>2, Zenon
  <2>2. BadNames(a) = UNION {bad(f) : f \in DOMAIN a}
    BY DEF BadNames
  <2> HIDE DEF bad
  <2>3. \A S \in {bad(f) : f \in DOMAIN a} : Only(S)
    BY <2>1
  <2> QED BY <1>3, <2>2, <2>3
<1>5. Only(InvalidReferences(a))
  BY <1>1 DEF InvalidReferences
<1>6. Only(ContractErrors(a))
  <2> DEFINE bad(f) ==
    ErrorIf(\/ \E m \in a[f].methods : \E b \in ComparedWith(f, m, a) :
                 \E n \in InAssembly(b, a).methods : n.name = m.name /\ ~ SignaturesMatch(n, m)
            \/ \E p \in a[f].properties : \E b \in ComparedWith(f, p, a) :
                 \E q \in InAssembly(b, a).properties : q.name = p.name /\ ~ PropertiesMatch(q, p),
            "contract")
  <2>1. \A f : Only(bad(f))
    BY <1>1, Zenon
  <2>2. ContractErrors(a) = UNION {bad(f) : f \in DOMAIN a}
    BY DEF ContractErrors
  <2> HIDE DEF bad
  <2>3. \A S \in {bad(f) : f \in DOMAIN a} : Only(S)
    BY <2>1
  <2> QED BY <1>3, <2>2, <2>3
<1>7. Only(ValidationErrors(a))
  BY <1>2, <1>4, <1>5, <1>6 DEF ValidationErrors
<1> QED BY <1>7 DEF Only, Errors

-----------------------------------------------------------------------------
(* What is settled is what is meant, for a struct whose properties are     *)
(* immutable already.                                                      *)
LEMMA MeaningProperties ==
  ASSUME NEW f
  PROVE  /\ Meaning(f) = [x \in TypeFields |-> Meaning(f)[x]]
         /\ Meaning(f).properties \in {VisitProperties(f), Fixed(VisitProperties(f))}
<1> DEFINE t == Declared(f)
           type == VisitedType(f)
<1>1. /\ t = [x \in TypeFields |-> t[x]] /\ t.properties = VisitProperties(f)
  BY DeclaredIs
<1>2. type = IF program[f].kind = "interface" /\ VisibleBases[f] = << >> THEN SettleDatatype(f, t, {}) ELSE t
  BY VisitedTypeIs
<1>3. Meaning(f) = [type EXCEPT !.datatype = IsStruct[f],
                      !.initializer = IF program[f].kind = "class" THEN InheritedInitializer[f] ELSE @]
  BY DEF Meaning
<1> HIDE DEF t
<1>4. /\ SettleDatatype(f, t, {}) = [x \in TypeFields |-> SettleDatatype(f, t, {})[x]]
      /\ SettleDatatype(f, t, {}).properties \in {VisitProperties(f), Fixed(VisitProperties(f))}
  BY <1>1 DEF SettleDatatype, TypeFields, Fixed
<1>5. type = [x \in TypeFields |-> type[x]] /\ type.properties \in {VisitProperties(f), Fixed(VisitProperties(f))}
  BY <1>1, <1>2, <1>4
<1> HIDE DEF type
<1> QED BY <1>3, <1>5 DEF TypeFields

LEMMA FinalMeaning ==
  ASSUME NEW height, NEW top, Sound(height, top), NEW f \in Listed, IsStruct[f] => StructOK(f)
  PROVE  Final(f) = Meaning(f)
<1>1. CASE ~ IsStruct[f]
  BY <1>1 DEF Final
<1>2. CASE IsStruct[f]
  <2>1. \A p \in VisitProperties(f) : p.immutable = TRUE
    BY <1>2 DEF StructOK, Sound, ProgramTyped
  <2>2. Fixed(VisitProperties(f)) = VisitProperties(f)
    BY <2>1, FixedNames
  <2> DEFINE m == Meaning(f)
  <2>3. m = [x \in TypeFields |-> m[x]] /\ Fixed(m.properties) = m.properties
    BY <2>2, MeaningProperties
  <2>4. Final(f) = [m EXCEPT !.properties = Fixed(@)]
    BY <1>2 DEF Final
  <2> HIDE DEF m
  <2>5. Final(f) = m
    BY <2>3, <2>4
  <2> QED BY <2>5 DEF m
<1> QED BY <1>1, <1>2

-----------------------------------------------------------------------------
(* The end of the assembler                                                *)
Obeys(f) == Errors(HeritageErrors(f) \cup MemberErrors(f)) = {} /\ RelationsHold(f)

LEMMA ObeysHold ==
  ASSUME NEW f, Obeys(f)
  PROVE  HeritageHolds(f) /\ (program[f].kind = "interface" => StructOK(f))
BY RelationsAre DEF Obeys

(* There is no error if, and only if, every declaration obeys, and then    *)
(* the types are those that the declarations mean.                         *)
LEMMA AssembledIs ==
  ASSUME NEW height, NEW top, Sound(height, top), FaithInv(height), phase = "assembled"
  PROVE  /\ Errors(diags) = {} <=> \A f \in Listed : Obeys(f)
         /\ Errors(diags) = {} => types = Meanings
<1>1. RegisterInv /\ KindInv /\ BooksInv /\ Working
  BY DEF FaithInv, Working
<1>2. /\ types = [f \in DOMAIN types |-> types[f]]
      /\ \A f \in Listed : stage[f] = "registered"
      /\ DOMAIN types = Listed
      /\ ToSet(deferred) = {}
  BY <1>1 DEF RegisterInv, ToSet
<1>3. Errors(diags) = {} => AllHold
  BY <1>1, <1>2 DEF KindInv, AllHold
<1>4. AllHold => SettledInv /\ (Errors(diags) = {} <=> \A f \in Listed : HeritageClean(f) /\ MembersClean(f))
  BY <1>1, <1>2 DEF BooksInv, Clean, NoneFound
<1>5. \A f \in Listed : Obeys(f) <=> HeritageHolds(f) /\ HeritageClean(f) /\ MembersClean(f)
  BY RelationsTold DEF Obeys
<1>6. Errors(diags) = {} <=> \A f \in Listed : Obeys(f)
  BY <1>3, <1>4, <1>5 DEF AllHold
<1>7. ASSUME Errors(diags) = {}
      PROVE  types = Meanings
  <2>1. \A f \in Listed : types[f] = Final(f)
    BY <1>2, <1>3, <1>4, <1>7 DEF SettledInv, Unsettled
  <2>2. ASSUME NEW f \in Listed
        PROVE  Final(f) = Meaning(f)
    <3>1. IsStruct[f] => program[f].kind = "interface"
      BY StructsAre, ListedBases
    <3>2. program[f].kind = "interface" => StructOK(f)
      BY <1>6, <1>7, ObeysHold
    <3> QED BY <3>1, <3>2, FinalMeaning
  <2>3. types = [f \in Listed |-> Meaning(f)]
    BY <1>2, <2>1, <2>2
  <2> QED BY <2>3 DEF Meanings
<1> QED BY <1>6, <1>7

(* What is emitted was promised; what is skipped was not well-formed. *)
LEMMA EmitImplements ==
  ASSUME NEW height, NEW top, Sound(height, top), FaithInv(height), OutcomeInv, Emit
  PROVE  Accept \/ Reject
<1> DEFINE found == IF Errors(diags) = {} THEN ValidationErrors(types) ELSE {}
           out == WithOverrides(types)
<1>1. /\ phase = "assembled" /\ UNCHANGED program
      /\ IF Errors(diags \cup found) = {}
         THEN status' = "accepted" /\ assembly' = out
         ELSE status' = "rejected" /\ UNCHANGED assembly
  BY DEF Emit
<1>2. status = "compiling"
  BY <1>1 DEF OutcomeInv
<1>3. WellFormed <=> (\A f \in Listed : Obeys(f)) /\ ValidationErrors(Meanings) = {}
  BY DEF WellFormed, Obeys
<1>4. /\ Errors(diags) = {} <=> \A f \in Listed : Obeys(f)
      /\ Errors(diags) = {} => types = Meanings
  BY <1>1, AssembledIs
<1>5. Errors(diags \cup found) = {} <=> Errors(diags) = {} /\ Errors(found) = {}
  BY NoErrors
<1>6. Errors(diags) = {} => Errors(found) = ValidationErrors(Meanings) /\ out = WithOverrides(Meanings)
  BY <1>4, ValidationErrorsOnly
<1>7. Errors(diags \cup found) = {} <=> WellFormed
  BY <1>3, <1>4, <1>5, <1>6
<1> HIDE DEF found, out
<1>8. CASE Errors(diags \cup found) = {}
  BY <1>1, <1>2, <1>5, <1>6, <1>7, <1>8 DEF Accept
<1>9. CASE Errors(diags \cup found) # {}
  BY <1>1, <1>2, <1>7, <1>9 DEF Reject
<1> QED BY <1>8, <1>9

(* What throws was not well-formed, and all other steps keep it to         *)
(* themselves.                                                             *)
LEMMA StepImplements ==
  ASSUME NEW height, NEW top, Sound(height, top), FaithInv(height), OutcomeInv, [Next]_compilerVars
  PROVE  [Accept \/ Reject]_compilationVars
<1>1. CASE Emit
  BY <1>1, EmitImplements
<1>2. CASE Catch
  <2>1. ~ AllHold
    BY <1>2 DEF Catch, FaithInv, ThrownInv
  <2>2. ~ WellFormed
    <3>1. WellFormed => \A f \in Listed : Obeys(f)
      BY DEF WellFormed, Obeys
    <3> QED BY <2>1, <3>1, ObeysHold DEF AllHold
  <2>3. status = "compiling" /\ status' = "rejected" /\ UNCHANGED <<assembly, program>>
    BY <1>2 DEF Catch, assemblerVars
  <2> QED BY <2>2, <2>3 DEF Reject
<1>3. CASE Assemble
  <2>1. UNCHANGED <<status, assembly, program>>
    BY <1>3 DEF Assemble, AssemblerNext, VisitHeritage, VisitMembers, AllVisited, StartPass, Invoke,
                SkipDependent, EndPass, DeferredsDone
  <2> QED BY <2>1 DEF compilationVars
<1>4. CASE LoadProjectInfo \/ WriteTypeScriptConfig \/ UNCHANGED compilerVars
  <2>1. UNCHANGED <<status, assembly, program>>
    BY <1>4 DEF LoadProjectInfo, WriteTypeScriptConfig, assemblingVars, compilerVars, assemblerVars
  <2> QED BY <2>1 DEF compilationVars
<1>5. ASSUME NEW tsErrors \in BOOLEAN, NEW failOnWarnings \in BOOLEAN, Exit(tsErrors, failOnWarnings)
      PROVE  UNCHANGED compilationVars
  BY <1>5 DEF Exit, assemblerVars, compilationVars
<1> QED BY <1>1, <1>2, <1>3, <1>4, <1>5 DEF Next

(* The compiler implements Compilation: for every program whose types can  *)
(* be ordered, over sound dependencies, whatever the order in which        *)
(* declarations are visited and checks invoked, the outcome is that of the *)
(* declarations alone - an assembly with their meaning if they are well-   *)
(* formed, none if they are not.                                           *)
THEOREM CompilationIsImplemented ==
  ASSUME NEW top \in Nat, NEW height \in [Fqns -> 0 .. top], None \notin Fqns
  PROVE  Spec /\ [](Ordered(height) /\ ForeignSound /\ ProgramTyped) => ImplementsCompilation
<1> DEFINE Given == Ordered(height) /\ ForeignSound /\ ProgramTyped
<1>1. Given => Sound(height, top)
  BY DEF Sound
<1>2. Init => FaithInv(height) /\ OutcomeInv /\ CompilationInit
  BY InitFaith, InitOutcome DEF Init
<1>3. Given /\ FaithInv(height) /\ OutcomeInv /\ [Next]_compilerVars
        => FaithInv(height)' /\ OutcomeInv' /\ [Accept \/ Reject]_compilationVars
  BY <1>1, StepFaith, StepOutcome, StepImplements
<1> HIDE DEF Given
<1>4. Spec /\ []Given => CompilationSpec
  BY <1>2, <1>3, PTL DEF Spec, CompilationSpec
<1> QED BY <1>4 DEF Given, ImplementsCompilation
=============================================================================
