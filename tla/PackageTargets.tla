--------------------------- MODULE PackageTargets ---------------------------
(***************************************************************************)
(* The packages that are generated for an assembly: what each declares as  *)
(* its dependencies, by name and version, for types of other assemblies    *)
(* that its code names (packages/jsii-pacmak/lib/generator.ts and          *)
(* lib/targets), and the packages that are loaded again for it             *)
(* (packages/jsii-reflect/lib/type-system.ts).                             *)
(***************************************************************************)
EXTENDS Validator

(* Types of dependencies that the generated code names *)
Reached(assembly) ==
  UNION {References(assembly[f])
           \cup UNION {UNION {NamedIn(p.type) : p \in ToSet(i.parameters)} : i \in ToSet(assembly[f].initializer)}
         : f \in DOMAIN assembly} \ DOMAIN assembly

(* findModule, without which a type has no native name: by the closure     *)
HasNativeName(f) == Home[f] \in DOMAIN DependencyClosure

(* `dependencies' of the assembly *)
Declared ==
  [n \in DirectDependencies |->
     LET edges == projectInfo.dependencies IN
       Installed[CHOOSE i \in ToSet(edges) : Installed[i].name = n].version]

(* The imports of the Python module *)
PythonImports == DOMAIN Declared

(* The references of the C# project, which the assembly's attributes repeat *)
DotNetReferences == Declared

(* The modules whose classes Java loads before those of this one *)
JavaModules == DOMAIN Declared

(* The pom: of what the code names, in the version of the closure *)
MavenDependencies(assembly) ==
  [n \in {Home[f] : f \in Reached(assembly)} \cap DOMAIN DependencyClosure |-> DependencyClosure[n]] @@ Declared

-----------------------------------------------------------------------------
(* TypeSystem.loadModule, of the package and of all that its package.json  *)
(* names: what the type system has, by name                                *)

(* dependenciesOf, without what is bundled *)
DependenciesOf(package) ==
  SelectSeq(package.dependencies \o
              SelectSeq(package.peers, LAMBDA p : p.name \notin NamesOf(package.dependencies)),
            LAMBDA d : d.name \notin package.bundled)

(* Mutant: another version of a package that was loaded is passed over. *)
Conflicts_Never(i, loaded) == FALSE

Conflicts(i, loaded) ==
  Installed[i].name \in DOMAIN loaded /\ loaded[Installed[i].name] # Installed[i].version

RECURSIVE LoadModules(_, _)
LoadModules(todo, loaded) ==
  IF todo = << >> THEN [throws |-> FALSE, versions |-> loaded]
  ELSE LET i == todo[1] IN
    IF ~ Installed[i].assembly \/ Conflicts(i, loaded) THEN [throws |-> TRUE, versions |-> loaded]
    ELSE IF Installed[i].name \in DOMAIN loaded THEN LoadModules(Tail(todo), loaded)
    ELSE LoadModules(Directories(DependenciesOf(Installed[i])) \o Tail(todo),
                     loaded @@ (Installed[i].name :> Installed[i].version))

LoadedSystem == LoadModules(Directories(DependenciesOf(checkout.package)), << >>)
=============================================================================
