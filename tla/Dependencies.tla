---------------------------- MODULE Dependencies ----------------------------
(***************************************************************************)
(* The packages around a program.  The compiler reads package.json and the *)
(* assemblies of the dependencies (packages/jsii/lib/project-info.ts) and  *)
(* writes into the assembly which those are (assembler.ts).                *)
(*                                                                         *)
(* A package is [name, version, assembly (whether it has one),             *)
(* dependencies, peers, bundled]; a dependency is [name, range, recorded,  *)
(* at]: the versions that package.json asks for, the one that the assembly *)
(* records, and the installed package that the name resolves to.  A        *)
(* version is <<major, minor>>.  Paths of local packages are left out, and *)
(* every version of a package has the same types.                          *)
(***************************************************************************)
EXTENDS JsiiSpec, TLC

CONSTANTS
  Installed, \* packages by the directory they are installed in
  Home       \* the package of each type of a dependency

VARIABLES
  checkout,   \* [package, fix (peer dependencies), tsconfig]: the program's
  projectInfo \* [dependencies, peers (their names), transitive]

dependencyVars == <<checkout, projectInfo>>

Unbundled(package) == SelectSeq(package.dependencies, LAMBDA d : d.name \notin package.bundled)
NamesOf(edges)     == {d.name : d \in ToSet(edges)}
Directories(edges) == [k \in DOMAIN edges |-> edges[k].at]

-----------------------------------------------------------------------------
(* loadProjectInfo                                                         *)
BundlingError(package) ==
  \E b \in package.bundled : b \notin NamesOf(package.dependencies) \/ b \in NamesOf(package.peers)

(* Dependencies that the peer dependencies lack or ask in other versions   *)
Mismatched(package) ==
  SelectSeq(Unbundled(package),
            LAMBDA d : ~ \E p \in ToSet(package.peers) : p.name = d.name /\ p.range = d.range)

WithPeers(package) ==
  LET wrong == Mismatched(package)
      fixed(p) == IF p.name \in NamesOf(wrong) THEN CHOOSE d \in ToSet(wrong) : d.name = p.name ELSE p
      added == SelectSeq(wrong, LAMBDA d : d.name \notin NamesOf(package.peers))
  IN [package EXCEPT !.peers = [k \in DOMAIN @ |-> fixed(@[k])] \o added]

(* _loadDependencies: the packages that are loaded, depth first; what an   *)
(* assembly depends on goes by the assembly                                *)
Below ==
  LET below[i \in DOMAIN Installed] ==
        LET ds == Unbundled(Installed[i]) IN
          FlattenSeq([k \in DOMAIN ds |-> <<ds[k].at>> \o below[ds[k].at]])
  IN below

Walk(package) ==
  LET edges == Unbundled(package) \o package.peers IN
    FlattenSeq([k \in DOMAIN edges |-> <<edges[k].at>> \o Below[edges[k].at]])

(* A package that has no assembly is not found, and neither is one of a    *)
(* version that was not asked for: an assembly asks for the version that   *)
(* it was compiled with.                                                   *)
Unloadable(package) ==
  LET walked == ToSet(Walk(package)) IN
  \/ \E i \in walked : ~ Installed[i].assembly
  \/ \E d \in ToSet(Unbundled(package) \o package.peers) : Installed[d.at].version \notin d.range
  \/ \E i \in walked : \E d \in ToSet(Unbundled(Installed[i])) : Installed[d.at].version # d.recorded

(* transitiveDependencies: of packages by one name, the last               *)
Transitive(package) ==
  [n \in {Installed[i].name : i \in ToSet(Walk(package))} |->
     Last(SelectSeq(Walk(package), LAMBDA i : Installed[i].name = n))]

NoProject == [dependencies |-> << >>, peers |-> {}, transitive |-> << >>]
ProjectInfo(package) ==
  [dependencies |-> Directories(Unbundled(package)),
   peers        |-> {Installed[i].name : i \in ToSet(Directories(package.peers))},
   transitive   |-> Transitive(package)]

-----------------------------------------------------------------------------
(* Types of the dependencies' assemblies                                   *)
ForeignTypes == {f \in DOMAIN Foreign : Home[f] \in DOMAIN projectInfo.transitive}

(* Mutant: a type of any dependency may be exposed. *)
NoPeer_Never(f) == FALSE

(* What is exposed is warned of unless its package is a peer dependency.   *)
NoPeer(f) == f \in ForeignTypes /\ Home[f] \notin projectInfo.peers

-----------------------------------------------------------------------------
(* What the assembly says of its dependencies                              *)

(* _toDependencies *)
DirectDependencies == {Installed[i].name : i \in ToSet(projectInfo.dependencies)}

(* What _buildDependencyClosure merges: each direct dependency, and then   *)
(* those that its assembly calls direct                                    *)
Bags ==
  LET bag(i) == <<[name |-> Installed[i].name, version |-> Installed[i].version]>>
                  \o LET ds == Unbundled(Installed[i]) IN
                       [k \in DOMAIN ds |-> [name |-> ds[k].name, version |-> ds[k].recorded]]
  IN FlattenSeq([k \in DOMAIN projectInfo.dependencies |-> bag(projectInfo.dependencies[k])])

(* semver: v satisfies ^w.  Before 1.0 a minor version breaks. *)
Satisfies(v, w) == v[1] = w[1] /\ (v[2] = w[2] \/ (w[1] > 0 /\ v[2] > w[2]))
Comparable(v, w) == Satisfies(v, w) \/ Satisfies(w, v)

(* Of two versions the most constrained one, of two that exclude each      *)
(* other the first                                                         *)
DependencyClosure ==
  FoldLeft(LAMBDA closure, p :
             IF p.name \in DOMAIN closure
                  /\ (Satisfies(closure[p.name], p.version) \/ ~ Comparable(closure[p.name], p.version))
             THEN closure ELSE (p.name :> p.version) @@ closure,
           << >>, Bags)

ClosureConflicts == \E b, c \in ToSet(Bags) : b.name = c.name /\ ~ Comparable(b.version, c.version)
=============================================================================
