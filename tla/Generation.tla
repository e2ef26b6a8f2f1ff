----------------------------- MODULE Generation -----------------------------
(***************************************************************************)
(* The compiler and the generators together: what is generated for an      *)
(* assembly that the compiler let pass.                                    *)
(***************************************************************************)
EXTENDS Compiler, StructTarget, PythonModule, PackageTargets

(* An assembly to generate code for *)
Published == status = "accepted"

(* All that a type extends or implements, and the base classes of a class *)
Ancestry ==
  LET ancestry[f \in Fqns] ==
        LET type == InAssembly(f, assembly)
            bases == ToSet(type.interfaces) \cup ({type.base} \ {None})
        IN bases \cup UNION {ancestry[b] : b \in bases}
  IN ancestry
ClassesOf(f) == {g \in {f} \cup Ancestry[f] : IsClass(InAssembly(g, assembly))}

(* The declarations of a member that a type gathers agree.  TypeScript     *)
(* asks it of what an interface extends, the validator of a class and the  *)
(* nearest declaration it overrides.                                       *)
DeclarationsAgree(f) ==
  \A g, h \in {f} \cup Ancestry[f] :
    LET a == InAssembly(g, assembly) b == InAssembly(h, assembly) IN
    /\ \A m \in a.methods, n \in b.methods :
         m.name = n.name => [i \in DOMAIN m.parameters |-> Shape(m.parameters[i])]
                              = [i \in DOMAIN n.parameters |-> Shape(n.parameters[i])]
    /\ \A p \in a.properties, q \in b.properties :
         p.name = q.name => p.type = q.type /\ p.immutable = q.immutable

(* A class declares what its interfaces require, itself or in a base       *)
(* class, and implements it unless it is abstract, as TypeScript asks.     *)
DeclaresAll(f) ==
  \A g \in ClassesOf(f) :
    \A h \in {g} \cup Ancestry[g] : \A m \in Members(InAssembly(h, assembly)) :
      m.static \/ \E c \in ClassesOf(g) : \E n \in Members(InAssembly(c, assembly)) :
        n.name = m.name /\ (InAssembly(g, assembly).abstract \/ ~ n.abstract)

-----------------------------------------------------------------------------
(* What the Java generator annotates with @Override is declared, with the  *)
(* same erased parameters, by a class or interface above: javac asks it of *)
(* every overload and every setter, the validator compared parameters,     *)
(* types and mutability.  Static members are left out.                     *)
JavaOverridesExist(f) ==
  LET declared(m, above) == \E g \in above : \E n \in JavaMembers(g, assembly) : SameSignature(m, n) IN
    /\ \A m \in JavaMembers(f, assembly) : m.override /\ ~ m.static => declared(m, Ancestry[f])
    /\ HasProxy(f, assembly) =>
         \A m \in JavaProxy(f, assembly) : declared(m, {f} \cup Ancestry[f])

(* The C# compiler asks for `override' of just the members that a base     *)
(* class declares so that they may be overridden: without it a call        *)
(* through the base class does not reach the derived one, with it and no   *)
(* such member the class does not compile.                                 *)
DotNetOverridesExist(f) ==
  LET overridable(m, above) ==
        \E g \in above : \E n \in CSharpMembers(g, assembly) :
          n.name = m.name /\ n.types = m.types /\ (n.virtual \/ n.override)
  IN /\ \A m \in CSharpMembers(f, assembly) :
          ~ m.static /\ m.name \notin ObjectMethods
            => (m.override <=> overridable(m, ClassesOf(f) \ {f}))
     /\ assembly[f].abstract /\ DeclaresAll(f) /\ DeclarationsAgree(f) =>
          \A m \in CSharpProxy(f, assembly) :
            m.override /\ overridable(m, ClassesOf(f))

(* What the generated Java and C# say to override is there, in classes and *)
(* proxies: the validator compared what the target compilers will ask for. *)
OverridesExist ==
  Published =>
    \A f \in DOMAIN assembly :
      /\ ~ IsEnum(assembly[f]) => JavaOverridesExist(f)
      /\ IsClass(assembly[f]) => DotNetOverridesExist(f)

(* The proxy of an interface or of an abstract class, which stands for an  *)
(* object of JavaScript, has no abstract member left: what is inherited    *)
(* along any path is implemented, in Java each overload of it.             *)
ProxiesComplete ==
  Published =>
    \A f \in DOMAIN assembly :
      ~ IsEnum(assembly[f]) /\ HasProxy(f, assembly) /\ DeclarationsAgree(f) /\ DeclaresAll(f) =>
        LET concrete(name) == \E c \in ClassesOf(f) : \E n \in Members(InAssembly(c, assembly)) :
                                n.name = name /\ ~ n.abstract
        IN \A g \in {f} \cup Ancestry[f] :
             /\ \A n \in JavaMembers(g, assembly) :
                  n.abstract => \E m \in JavaProxy(f, assembly) : SameSignature(m, n)
             /\ \A n \in AbstractOf(Members(InAssembly(g, assembly))) :
                  \/ concrete(n.name)
                  \/ /\ \E m \in CSharpProxy(f, assembly) : m.name = n.name
                     /\ n.name \in PythonProxy(assembly)[f]

(* No two parameters of a generated Python method have the same name and   *)
(* each is passed on by its own: the struct that becomes keyword arguments *)
(* has no property, inherited or its own, that is named as a positional    *)
(* argument.  The assembler checks methods, not constructors; a struct     *)
(* that inherits another along two paths is left out.                      *)
PythonArgumentsDistinct ==
  Published =>
    \A f \in DOMAIN assembly : \A m \in assembly[f].methods :
      LET struct == LiftedProp(m.parameters, assembly)
          names == PythonParameters(m.parameters, assembly)
          positional == IF struct = None THEN m.parameters ELSE Front(m.parameters)
      IN (struct = None \/ IsInjective(Collected(assembly)[struct])) =>
           /\ IsInjective(names)
           /\ \A i \in DOMAIN positional : PassedArguments(positional)[i] = names[i]

(* The Python module is generated if types extend types of their own level *)
(* only and none is nested in a struct.  If it is generated it can be      *)
(* imported: no class statement runs before those that it names, provided  *)
(* that what is nested is an enum, a struct that extends nothing or a      *)
(* class that is not abstract, and is not nested in an interface.          *)
PythonModuleImports ==
  Published =>
    LET nested == {f \in DOMAIN assembly : Enclosing[f] # None}
        siblings == \A f \in DOMAIN assembly : \A b \in OfModule(Extended(f, assembly), assembly) :
                      Enclosing[f] = Enclosing[b]
        modest == \A f \in nested :
                    /\ ~ IsInterface(assembly[Enclosing[f]])
                    /\ ~ assembly[f].abstract
                    /\ IsInterface(assembly[f]) =>
                         assembly[f].datatype /\ assembly[f].interfaces = << >>
    IN /\ siblings /\ (\A f \in nested : ~ assembly[Enclosing[f]].datatype) => ~ PythonThrows(assembly)
       /\ modest /\ ~ PythonThrows(assembly) => ImportSucceeds(assembly)

(* What a generator finds is what the compiler saw: unless the type system *)
(* refuses the packages, each type of a dependency that the assembly       *)
(* reaches is loaded, in the version that the compiler used.  The compiler *)
(* walks what assemblies record and keeps the last version of a package,   *)
(* the type system walks what package.json names and keeps the first.      *)
LoadedTypesAgree ==
  Published /\ ~ LoadedSystem.throws =>
    \A f \in Reached(assembly) :
      LET seen == Installed[projectInfo.transitive[Home[f]]] IN
        seen.name \in DOMAIN LoadedSystem.versions
          /\ LoadedSystem.versions[seen.name] = seen.version

(* Every generated package declares the packages of all types that its     *)
(* code names, in the version that the compiler used, if the type system   *)
(* accepts the packages, the compiler did not warn and each peer is also a *)
(* dependency: the compiler goes by peers, the generators by dependencies  *)
(* and their closure.                                                      *)
DependenciesDeclared ==
  LET warned == \E d \in diags : d.code = "not a peer dependency"
  IN Published /\ ~ LoadedSystem.throws /\ ~ warned /\ projectInfo.peers \subseteq DirectDependencies =>
       \A f \in Reached(assembly) :
         LET used == Installed[projectInfo.transitive[Home[f]]].version IN
           /\ HasNativeName(f)
           /\ Home[f] \in PythonImports \cap JavaModules \cap DOMAIN DotNetReferences
           /\ DotNetReferences[Home[f]] = used
           /\ MavenDependencies(assembly)[Home[f]] = used

(* A struct is the same in each language, however its properties are       *)
(* gathered: what can be built in Java can be built in Python, it reaches  *)
(* JavaScript with just the values it was given, and is equal to what was  *)
(* built of the same values.  What Java sends of a struct without values   *)
(* counts as no argument.                                                  *)
StructsTravel ==
  Published =>
    \A f \in DOMAIN assembly : assembly[f].datatype /\ DeclarationsAgree(f) =>
      LET names == UNION {{p.name : p \in InAssembly(g, assembly).properties} : g \in {f} \cup Ancestry[f]}
          values == [names -> {"value", Absent}]
          arrives(sent, args) ==
            LET received == Received(f, sent, FALSE, assembly) IN
              received.accepted /\ received.value = [n \in Given(args) |-> args[n]]
      IN /\ {m.name : m \in CSharpProxy(f, assembly)} = names
         /\ \A args \in values :
              /\ JavaBuilds(f, args, assembly) <=> PythonBuilds(f, args, assembly)
              /\ JavaBuilds(f, args, assembly) =>
                   /\ names # {} => arrives(PythonSent(f, args, assembly), args)
                   /\ Given(args) # {} => arrives(JavaSent(f, args, assembly), args)
         /\ \A a, b \in {args \in values : JavaBuilds(f, args, assembly)} :
              JavaEquals(f, a, b, assembly) <=> a = b
=============================================================================
