--------------------------- MODULE ModuleLoading ---------------------------
(***************************************************************************)
(* How the code of a jsii module gets into the kernel.  A program that     *)
(* touches a class makes its client library walk the module's dependencies *)
(* and send a load request for each; Kernel.load unpacks the module into   *)
(* node_modules, runs it and registers its assembly.                       *)
(*                                                                         *)
(* load is the one kernel operation whose own code suspends.  The host     *)
(* reads no request before a load it accepted is settled, but it refuses   *)
(* one that a native override sends - after the kernel has started it - so *)
(* that loads nobody waits for go on among the others.                     *)
(***************************************************************************)
EXTENDS Naturals, SequencesExt

CONSTANTS
  Modules,  \* jsii modules
  Deps,     \* the modules each depends on
  Langs,    \* client libraries
  MaxLoads, \* bound on the load operations that are under way together
  Faults    \* what may go wrong, a subset of
            \*   "tarball": the archive cannot be read or has no .jsii file
            \*   "code":    the module's code throws
            \*   "types":   the code lacks a type its .jsii file declares

ASSUME DepsAssumption     == Deps \in [Modules -> SUBSET Modules]
ASSUME LangsAssumption    == Langs \subseteq {"java", "dotnet", "python"}
ASSUME MaxLoadsAssumption == MaxLoads \in Nat \ {0}
ASSUME FaultsAssumption   == Faults \subseteq {"tarball", "code", "types"}

VARIABLES
  lang,       \* the client library of the program
  walk,       \* its nested loadModule calls, the innermost last
  nested,     \* the walk happens in a native override
  loaded,     \* the modules it takes for loaded
  requested,  \* .NET: the packages a load was ever sent for
  installed,  \* modules with a directory in node_modules
  assemblies, \* Kernel.assemblies
  tagged,     \* modules all of whose types are found and tagged
  loads       \* the loads that are under way in the kernel

clientVars == <<lang, walk, nested, loaded, requested>>
kernelVars == <<installed, assemblies, tagged, loads>>
vars       == <<clientVars, kernelVars>>

Slots == 1 .. MaxLoads

(* A load operation: the await it is suspended at, whether its client      *)
(* waits for it, whether it has a staging directory, and its outcome.      *)
NoLoad == [at |-> "none"]
Steps  == {"check", "lookUp", "extract", "move", "run", "cleanUp"}
Loads  == [at : Steps, mod : Modules, awaited : BOOLEAN, staged : BOOLEAN, ok : BOOLEAN]

(* A call of loadModule with the dependencies it has yet to look at. *)
Calls == [mod : Modules, todo : SUBSET Modules, sent : BOOLEAN]
Call(m) == [mod |-> m, todo |-> Deps[m], sent |-> FALSE]

TypeOK ==
  /\ lang \in Langs
  /\ walk \in Seq(Calls)
  /\ nested \in BOOLEAN
  /\ loaded \subseteq Modules
  /\ requested \subseteq Modules
  /\ installed \subseteq Modules
  /\ assemblies \subseteq Modules
  /\ tagged \subseteq Modules
  /\ loads \in [Slots -> Loads \cup {NoLoad}]

Init ==
  /\ lang \in Langs
  /\ walk = << >>
  /\ nested = FALSE
  /\ loaded = {}
  /\ requested = {}
  /\ installed = {}
  /\ assemblies = {}
  /\ tagged = {}
  /\ loads = [s \in Slots |-> NoLoad]

-----------------------------------------------------------------------------
(***************************************************************************)
(* The client library.                                                     *)
(***************************************************************************)
Walking == walk # << >> /\ ~ Last(walk).sent
Top     == Last(walk)

(* The innermost call returns, its module being loaded. *)
Return(m) ==
  /\ loaded' = loaded \cup {m}
  /\ walk' = Front(walk)

(* The program touches a class, in its own code or in a native override of *)
(* an object it has.                                                       *)
Touch(m) ==
  /\ walk = << >> /\ m \notin loaded
  /\ walk' = <<Call(m)>>
  /\ \E b \in BOOLEAN : (b => loaded # {}) /\ nested' = b
  /\ UNCHANGED <<lang, loaded, requested, kernelVars>>

VisitDependency ==
  /\ Walking
  /\ \E d \in Top.todo :
       LET rest == Append(Front(walk), [Top EXCEPT !.todo = @ \ {d}])
       IN  walk' = IF d \in loaded THEN rest ELSE Append(rest, Call(d))
  /\ UNCHANGED <<lang, nested, loaded, requested, kernelVars>>

(* The load request.  In an override the kernel starts the load, and the   *)
(* host then answers with an error, which unwinds the walk.                *)
SendLoad(s) ==
  /\ Walking /\ Top.todo = {}
  /\ lang = "dotnet" => Top.mod \notin requested
  /\ loads[s] = NoLoad
  /\ loads' = [loads EXCEPT ![s] =
       [at |-> "check", mod |-> Top.mod, awaited |-> ~ nested, staged |-> FALSE, ok |-> FALSE]]
  /\ walk' = IF nested THEN << >> ELSE Append(Front(walk), [Top EXCEPT !.sent = TRUE])
  /\ requested' = requested \cup {Top.mod}
  /\ UNCHANGED <<lang, nested, loaded, installed, assemblies, tagged>>

(* .NET: a package that a load was sent for is not loaded again, whatever  *)
(* came of it.                                                             *)
SkipRequested ==
  /\ lang = "dotnet"
  /\ Walking /\ Top.todo = {}
  /\ Top.mod \in requested
  /\ Return(Top.mod)
  /\ UNCHANGED <<lang, nested, requested, kernelVars>>

-----------------------------------------------------------------------------
(***************************************************************************)
(* Kernel.load, from one await to the next.                                *)
(***************************************************************************)
At(s, step) == loads[s] # NoLoad /\ loads[s].at = step
Goes(s, step) == loads' = [loads EXCEPT ![s].at = step]
Fails(s) == loads' = [loads EXCEPT ![s].at = "cleanUp", ![s].ok = FALSE]

(* The operation settles; the client that waits for it reads the response. *)
Settle(s, ok) ==
  /\ loads' = [loads EXCEPT ![s] = NoLoad]
  /\ IF ~ loads[s].awaited THEN UNCHANGED <<walk, loaded>>
     ELSE IF ok THEN Return(loads[s].mod)
     ELSE walk' = << >> /\ UNCHANGED loaded

Check(s) ==
  /\ At(s, "check")
  /\ Goes(s, IF loads[s].mod \in installed THEN "lookUp" ELSE "extract")
  /\ UNCHANGED <<clientVars, installed, assemblies, tagged>>

(* Mutant: a directory in node_modules counts as a loaded module. *)
LookUpDirectory(s) ==
  /\ At(s, "lookUp")
  /\ Settle(s, TRUE)
  /\ UNCHANGED <<lang, nested, requested, installed, assemblies, tagged>>

(* The directory exists (with the same version): the assembly is looked up *)
(* and dereferenced.                                                       *)
LookUp(s) ==
  /\ At(s, "lookUp")
  /\ Settle(s, loads[s].mod \in assemblies)
  /\ UNCHANGED <<lang, nested, requested, installed, assemblies, tagged>>

(* Mutant: nobody is told that the archive cannot be read. *)
ExtractSilently(s) ==
  /\ At(s, "extract")
  /\ \/ loads' = [loads EXCEPT ![s].at = "move", ![s].staged = TRUE]
     \/ /\ "tarball" \in Faults
        /\ loads' = [loads EXCEPT ![s] = NoLoad]
  /\ UNCHANGED <<clientVars, installed, assemblies, tagged>>

Extract(s) ==
  /\ At(s, "extract")
  /\ \/ loads' = [loads EXCEPT ![s].at = "move", ![s].staged = TRUE]
     \/ /\ "tarball" \in Faults
        /\ loads' = [loads EXCEPT ![s].at = "cleanUp", ![s].staged = TRUE]
  /\ UNCHANGED <<clientVars, installed, assemblies, tagged>>

(* Mutant: the move overwrites. *)
MoveOver(s) ==
  /\ At(s, "move")
  /\ Goes(s, "run")
  /\ installed' = installed \cup {loads[s].mod}
  /\ UNCHANGED <<clientVars, assemblies, tagged>>

(* fs.move does not overwrite. *)
Move(s) ==
  /\ At(s, "move")
  /\ IF loads[s].mod \in installed
     THEN Fails(s) /\ UNCHANGED installed
     ELSE Goes(s, "run") /\ installed' = installed \cup {loads[s].mod}
  /\ UNCHANGED <<clientVars, assemblies, tagged>>

(* The module's code is required, which requires its dependencies to be    *)
(* installed; then its assembly is added and its types are tagged.         *)
Run(s) ==
  /\ At(s, "run")
  /\ LET m == loads[s].mod IN
       \/ /\ Deps[m] \subseteq installed
          /\ assemblies' = assemblies \cup {m}
          /\ tagged' = tagged \cup {m}
          /\ loads' = [loads EXCEPT ![s].at = "cleanUp", ![s].ok = TRUE]
       \/ /\ Deps[m] \subseteq installed /\ "types" \in Faults
          /\ assemblies' = assemblies \cup {m}
          /\ Fails(s)
          /\ UNCHANGED tagged
       \/ /\ ~ Deps[m] \subseteq installed \/ "code" \in Faults
          /\ Fails(s)
          /\ UNCHANGED <<assemblies, tagged>>
  /\ UNCHANGED <<clientVars, installed>>

CleanUp(s) ==
  /\ At(s, "cleanUp")
  /\ Settle(s, loads[s].ok)
  /\ UNCHANGED <<lang, nested, requested, installed, assemblies, tagged>>

-----------------------------------------------------------------------------
ClientStep ==
  \/ VisitDependency
  \/ \E s \in Slots : SendLoad(s)
  \/ SkipRequested

KernelStep(s) ==
  Check(s) \/ LookUp(s) \/ Extract(s) \/ Move(s) \/ Run(s) \/ CleanUp(s)

Next ==
  \/ \E m \in Modules : Touch(m)
  \/ ClientStep
  \/ \E s \in Slots : KernelStep(s)

Spec == Init /\ [][Next]_vars

(* The client library is straight-line code, and node goes on with every   *)
(* load whose file operation is finished.                                  *)
FairSpec ==
  /\ Spec
  /\ WF_vars(ClientStep)
  /\ \A s \in Slots : WF_vars(KernelStep(s))

-----------------------------------------------------------------------------
(* A module that the Java or the Python library takes for loaded has its   *)
(* assembly in the kernel, and the kernel never knows a module without the *)
(* modules it depends on, although loads nobody waits for run among the    *)
(* others and loads fail.  (.NET notes a package before it asks.)          *)
LoadedIsInKernel ==
  lang # "dotnet" =>
    /\ loaded \subseteq assemblies
    /\ \A m \in assemblies : Deps[m] \subseteq assemblies

(* A module's code is never run for the second of two loads, which would   *)
(* give its classes new constructors without the tags of the first.        *)
CodeRunsOnce ==
  \A s \in Slots : At(s, "run") =>
    /\ loads[s].mod \notin assemblies
    /\ \A t \in Slots \ {s} : At(t, "run") => loads[t].mod # loads[s].mod

(* Loading a module comes to an end, with the module loaded or an error,   *)
(* whatever fails and whatever else is being loaded.                       *)
WalkEnds == walk # << >> ~> walk = << >>

(* kernel.ts:82 "check if we already have such a module": where load finds *)
(* the module's directory it has the module's assembly.                    *)
LookUpFindsAssembly ==
  \A s \in Slots : At(s, "lookUp") => loads[s].mod \in assemblies
=============================================================================
