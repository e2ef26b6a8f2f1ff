----------------------------- MODULE Packaging -----------------------------
(***************************************************************************)
(* jsii-pacmak builds a package for every target language: main's          *)
(* buildPackage, which builds the dependencies of a package, packs the     *)
(* package and runs its targets concurrently, and the generateCode, save   *)
(* and build of each target.  Program runs follow one another on the same  *)
(* disk; the sources may change between them, any asynchronous operation   *)
(* may fail, and a run may be killed.                                      *)
(*                                                                         *)
(* An output directory holds two sorts of files: the one with the          *)
(* fingerprint, and the rest.  A file is the version it was made of.       *)
(***************************************************************************)
EXTENDS Naturals, Sequences, SequencesExt

CONSTANTS
  Packages,
  Jsii,           \* packages with a jsii section
  Edited,         \* packages whose source changes
  Root,           \* the package the program is run for
  Dependencies,   \* the dependencies of each package, in their order
  Targets,
  Bundling,       \* targets that bundle the npm tarball with their code
  Fingerprinted,  \* targets that find out whether code is up to date
  Invocations,    \* the options the program is run with
  MaxRuns,        \* bound on the runs of the program
  MaxVersion      \* bound on the versions of a package's source

ASSUME PackagesAssumption == Root \in Jsii /\ Jsii \subseteq Packages /\ Edited \subseteq Jsii
ASSUME DependenciesAssumption == Dependencies \in [Packages -> Seq(Packages)]
(* A jsii package was compiled against the assemblies of its dependencies,  *)
(* so no jsii packages need one another in a circle.                       *)
ASSUME AcyclicAssumption ==
  \A circle \in SUBSET Jsii : circle # {} =>
    \E p \in circle : \A i \in DOMAIN Dependencies[p] : Dependencies[p][i] \notin circle
Options == [clean : BOOLEAN, codeOnly : BOOLEAN, force : BOOLEAN, recurse : BOOLEAN]
ASSUME InvocationsAssumption == Invocations \subseteq Options
ASSUME TargetsAssumption ==
  Bundling \subseteq Targets /\ Fingerprinted \subseteq Targets \ Bundling
ASSUME BoundsAssumption == MaxRuns \in Nat /\ MaxVersion \in Nat \ {0}

VARIABLES
  run,      \* the number of the run
  process,  \* "done" and "failed" are its exits, "killed" is not its own
  options,
  version,  \* of the source of each package
  out,      \* the output directory of each package and target
  visited,  \* packages buildPackage was called for
  stack,    \* its calls
  npmDir,   \* the temporary directory npm pack runs in
  codeDir,  \* whether the temporary directory of the code exists
  target,   \* what each target is at
  unwritten \* the files it has yet to write

Processes == {"running", "done", "failed", "killed"}
Files     == {"main", "rest"}
Jobs      == Packages \X Targets
Phases    == {"idle", "mkdtemp", "check", "copy", "save", "build", "clean", "done", "failed"}
Calls     == [pkg : Packages, at : {"read", "deps", "pack", "load", "targets", "remove"},
              next : Nat, error : BOOLEAN]
CallOf(p) == [pkg |-> p, at |-> "read", next |-> 1, error |-> FALSE]

diskVars == <<version, out>>
jobVars  == <<codeDir, target, unwritten>>
vars     == <<run, process, options, diskVars, visited, stack, npmDir, jobVars>>

TypeOK ==
  /\ run \in 0 .. MaxRuns
  /\ process \in Processes
  /\ options \in Options
  /\ version \in [Packages -> 1 .. MaxVersion]
  /\ out \in [Jobs -> [Files -> 0 .. MaxVersion]]
  /\ visited \subseteq Packages
  /\ stack \in Seq(Calls)
  /\ \A i \in DOMAIN stack : stack[i].next \in 1 .. Len(Dependencies[stack[i].pkg]) + 1
  /\ npmDir \in [Packages -> {"none", "empty", "tarball"}]
  /\ codeDir \subseteq Jobs
  /\ target \in [Jobs -> Phases]
  /\ unwritten \in [Jobs -> SUBSET Files]

Init ==
  /\ run = 0 /\ process = "done"
  /\ options \in Invocations
  /\ version = [p \in Packages |-> 1]
  /\ out = [j \in Jobs |-> [f \in Files |-> 0]]
  /\ visited = {} /\ stack = << >>
  /\ npmDir = [p \in Packages |-> "none"]
  /\ codeDir = {}
  /\ target = [j \in Jobs |-> "idle"]
  /\ unwritten = [j \in Jobs |-> {}]

(* The source of a package may have changed when the program is started.   *)
Start ==
  /\ process # "running" /\ run < MaxRuns
  /\ run' = run + 1 /\ process' = "running"
  /\ options' \in Invocations
  /\ \/ UNCHANGED version
     \/ \E p \in Edited : version[p] < MaxVersion /\ version' = [version EXCEPT ![p] = @ + 1]
  /\ visited' = {Root} /\ stack' = <<CallOf(Root)>>
  /\ npmDir' = [p \in Packages |-> "none"]
  /\ codeDir' = {}
  /\ target' = [j \in Jobs |-> "idle"]
  /\ unwritten' = [j \in Jobs |-> {}]
  /\ UNCHANGED out

(* From outside, or by the machine. *)
Kill ==
  /\ process = "running"
  /\ process' = "killed"
  /\ stack' = << >>
  /\ target' = [j \in Jobs |-> "idle"]
  /\ unwritten' = [j \in Jobs |-> {}]
  /\ UNCHANGED <<run, options, diskVars, visited, npmDir, codeDir>>

-----------------------------------------------------------------------------
(***************************************************************************)
(* buildPackage.                                                           *)
(***************************************************************************)
Call       == Last(stack)
Waits(at)  == process = "running" /\ Call.at = at
GoTo(at)   == stack' = Front(stack) \o <<[Call EXCEPT !.at = at]>> /\ UNCHANGED process
Throw      == stack' = Front(stack) \o <<[Call EXCEPT !.at = "remove", !.error = TRUE]>>
              /\ UNCHANGED process
Reject     == process' = "failed" /\ UNCHANGED stack
ReturnCall == /\ stack' = Front(stack)
              /\ process' = IF Len(stack) = 1 THEN "done" ELSE process
JobsOf(p)  == {p} \X Targets
otherVars  == <<run, options, diskVars>>

(* What is not a jsii package is not built, and neither is what it needs.  *)
ReadPackage ==
  /\ Waits("read")
  /\ \/ Call.pkg \in Jsii /\ GoTo("deps")
     \/ Call.pkg \notin Jsii /\ ReturnCall
     \/ Reject
  /\ UNCHANGED <<otherVars, visited, npmDir, jobVars>>

VisitDependency ==
  /\ Waits("deps") /\ options.recurse
  /\ Call.next <= Len(Dependencies[Call.pkg])
  /\ LET d == Dependencies[Call.pkg][Call.next]
         caller == Front(stack) \o <<[Call EXCEPT !.next = @ + 1]>>
     IN \/ /\ stack' = IF d \in visited THEN caller ELSE Append(caller, CallOf(d))
           /\ visited' = visited \cup {d}
           /\ UNCHANGED process
        \/ Reject /\ UNCHANGED visited
  /\ UNCHANGED <<otherVars, npmDir, jobVars>>

(* Mutant: the last dependency is not waited for. *)
PrepareEarly ==
  /\ Waits("deps")
  /\ ~ options.recurse \/ Call.next >= Len(Dependencies[Call.pkg])
  /\ \/ GoTo("pack") /\ npmDir' = [npmDir EXCEPT ![Call.pkg] = "empty"]
     \/ Reject /\ UNCHANGED npmDir
  /\ UNCHANGED <<otherVars, visited, jobVars>>

(* .npmignore is brought up to date; mkdtemp. *)
Prepare ==
  /\ Waits("deps")
  /\ ~ options.recurse \/ Call.next > Len(Dependencies[Call.pkg])
  /\ \/ GoTo("pack") /\ npmDir' = [npmDir EXCEPT ![Call.pkg] = "empty"]
     \/ Reject /\ UNCHANGED npmDir
  /\ UNCHANGED <<otherVars, visited, jobVars>>

Pack ==
  /\ Waits("pack")
  /\ \/ GoTo("load") /\ npmDir' = [npmDir EXCEPT ![Call.pkg] = "tarball"]
     \/ Throw /\ UNCHANGED npmDir
  /\ UNCHANGED <<otherVars, visited, jobVars>>

(* The assembly is loaded; generateTarget is called for every target. *)
StartTargets ==
  /\ Waits("load")
  /\ \/ /\ GoTo("targets")
        /\ target' = [j \in Jobs |-> IF j \notin JobsOf(Call.pkg) THEN target[j]
                                     ELSE IF options.codeOnly THEN "check" ELSE "mkdtemp"]
     \/ Throw /\ UNCHANGED target
  /\ UNCHANGED <<otherVars, visited, npmDir, codeDir, unwritten>>

(* Mutant: all targets are waited for, also when one has failed. *)
AwaitAllTargets ==
  /\ Waits("targets")
  /\ (\A j \in JobsOf(Call.pkg) : target[j] = "done") /\ GoTo("remove")
  /\ UNCHANGED <<otherVars, visited, npmDir, jobVars>>

(* Promise.all: every target is done, or one has failed and the others go  *)
(* on for as long as the process does.                                     *)
AwaitTargets ==
  /\ Waits("targets")
  /\ \/ (\A j \in JobsOf(Call.pkg) : target[j] = "done") /\ GoTo("remove")
     \/ (\E j \in JobsOf(Call.pkg) : target[j] = "failed") /\ Throw
  /\ UNCHANGED <<otherVars, visited, npmDir, jobVars>>

(* Mutant: the directory is removed after the targets, not finally. *)
RemoveUnlessError ==
  /\ Waits("remove")
  /\ npmDir' = [npmDir EXCEPT ![Call.pkg] = IF Call.error THEN @ ELSE "none"]
  /\ IF Call.error THEN Reject ELSE ReturnCall
  /\ UNCHANGED <<otherVars, visited, jobVars>>

(* The finally clause removes the directory also without the clean option, *)
(* where the line before says "Temporary directory retained (--no-clean)"; *)
(* that the removal itself fails is left out.  An error goes through all   *)
(* callers, and main exits with status 1.                                  *)
RemoveNpmDir ==
  /\ Waits("remove")
  /\ npmDir' = [npmDir EXCEPT ![Call.pkg] = "none"]
  /\ IF Call.error THEN Reject ELSE ReturnCall
  /\ UNCHANGED <<otherVars, visited, jobVars>>

-----------------------------------------------------------------------------
(***************************************************************************)
(* generateTarget, generateCode and save, for each target.                 *)
(***************************************************************************)
At(j, at)    == process = "running" /\ target[j] = at
Become(j, at) == target' = [target EXCEPT ![j] = at]
FailJob(j)   == Become(j, "failed") /\ UNCHANGED <<out, codeDir, unwritten>>
restOfRun    == <<run, process, options, version, visited, stack, npmDir>>

MakeCodeDir(j) ==
  /\ At(j, "mkdtemp")
  /\ \/ Become(j, "check") /\ codeDir' = codeDir \cup {j} /\ UNCHANGED <<out, unwritten>>
     \/ FailJob(j)
  /\ UNCHANGED restOfRun

(* Code is up to date if it was made of this version; in a fresh temporary *)
(* directory it never is.                                                  *)
UpToDate(j) ==
  /\ j[2] \in Fingerprinted /\ options.codeOnly
  /\ out[j]["main"] = version[j[1]]
Generate(j) ==
  /\ At(j, "check")
  /\ \/ /\ Become(j, IF ~ options.force /\ UpToDate(j) THEN "done" ELSE "copy")
        /\ unwritten' = [unwritten EXCEPT ![j] = Files]
        /\ UNCHANGED <<out, codeDir>>
     \/ FailJob(j)
  /\ UNCHANGED restOfRun

CopyTarball(j) ==
  /\ At(j, "copy")
  /\ \/ /\ j[2] \in Bundling => npmDir[j[1]] = "tarball"
        /\ Become(j, "save")
        /\ UNCHANGED <<out, codeDir, unwritten>>
     \/ j[2] \in Bundling /\ FailJob(j)
  /\ UNCHANGED restOfRun

(* Files are written to the output directory: by CodeMaker.save with the  *)
(* code-only option, by the build without.                                 *)
Writes(j) == At(j, "build") \/ (At(j, "save") /\ options.codeOnly)

(* Mutant: a write that fails is taken for done. *)
WriteFileQuietly(j, f) ==
  /\ Writes(j) /\ f \in unwritten[j]
  /\ \/ out' = [out EXCEPT ![j][f] = version[j[1]]]
     \/ UNCHANGED out
  /\ unwritten' = [unwritten EXCEPT ![j] = @ \ {f}]
  /\ UNCHANGED <<restOfRun, codeDir, target>>

(* All files are written at once, that is, in any order. *)
WriteFile(j, f) ==
  /\ Writes(j) /\ f \in unwritten[j]
  /\ \/ /\ out' = [out EXCEPT ![j][f] = version[j[1]]]
        /\ unwritten' = [unwritten EXCEPT ![j] = @ \ {f}]
        /\ UNCHANGED <<codeDir, target>>
     \/ FailJob(j)
  /\ UNCHANGED restOfRun

SaveCode(j) ==
  /\ At(j, "save") /\ ~ options.codeOnly
  /\ \/ Become(j, "build") /\ UNCHANGED <<out, codeDir, unwritten>>
     \/ FailJob(j)
  /\ UNCHANGED restOfRun

FinishWriting(j) ==
  /\ Writes(j) /\ unwritten[j] = {}
  /\ Become(j, IF options.codeOnly \/ ~ options.clean THEN "done" ELSE "clean")
  /\ UNCHANGED <<restOfRun, out, codeDir, unwritten>>

RemoveCodeDir(j) ==
  /\ At(j, "clean")
  /\ \/ Become(j, "done") /\ codeDir' = codeDir \ {j} /\ UNCHANGED <<out, unwritten>>
     \/ FailJob(j)
  /\ UNCHANGED restOfRun

TargetStep(j) ==
  \/ MakeCodeDir(j) \/ Generate(j) \/ CopyTarball(j) \/ SaveCode(j)
  \/ \E f \in Files : WriteFile(j, f)
  \/ FinishWriting(j) \/ RemoveCodeDir(j)

PackageStep ==
  \/ ReadPackage \/ VisitDependency \/ Prepare \/ Pack \/ StartTargets
  \/ AwaitTargets \/ RemoveNpmDir

Next == Start \/ Kill \/ PackageStep \/ \E j \in Jobs : TargetStep(j)

Spec == Init /\ [][Next]_vars

(* npm, the compilers and the file operations end, one way or the other. *)
Fairness == WF_vars(PackageStep) /\ \A j \in Jobs : WF_vars(TargetStep(j))
FairSpec == Spec /\ Fairness

-----------------------------------------------------------------------------
Done(p)    == \A j \in JobsOf(p) : target[j] = "done"
Working(p) == \E j \in JobsOf(p) : target[j] # "idle"

(* With the recurse option, nothing of a package is generated or built     *)
(* before its dependencies are, in every language, since a build resolves  *)
(* its dependencies from their output directories.                         *)
DependenciesFirst ==
  options.recurse =>
    \A p \in Packages : Working(p) =>
      \A i \in DOMAIN Dependencies[p] :
        Dependencies[p][i] \in Jsii => Done(Dependencies[p][i])

(* The program exits with success only if everything it visited is built,  *)
(* from the source as it is now, unless the code of a fingerprinted target *)
(* was found to be there; and a target that is about to copy the tarball   *)
(* finds it, unless another target of the package has failed already.      *)
SuccessIsComplete ==
  /\ process = "done" =>
       \A p \in visited \cap Jsii : Done(p) /\ \A j \in JobsOf(p) :
         /\ out[j]["main"] = version[p]
         /\ j[2] \notin Fingerprinted \/ options.force \/ ~ options.codeOnly
              => out[j]["rest"] = version[p]
  /\ \A j \in Jobs : target[j] = "copy" /\ npmDir[j[1]] # "tarball" =>
       \E k \in JobsOf(j[1]) : target[k] = "failed"

(* With the clean option, no run that exits by itself leaves a tarball     *)
(* behind, and no successful one any temporary directory.                  *)
TempDirsAreRemoved ==
  options.clean =>
    /\ process \in {"done", "failed"} => \A p \in Packages : npmDir[p] = "none"
    /\ process = "done" => codeDir = {}

(* Every run comes to an end. *)
RunEnds == process = "running" ~> process # "running"

(* generator.ts "true if no generation is necessary": code that has the    *)
(* fingerprint of the source is all there.                                 *)
UpToDateIsComplete ==
  \A j \in Jobs : At(j, "check") /\ UpToDate(j) => out[j]["rest"] = version[j[1]]

(* jsii-pacmak.ts, option clean: "clean up temporary files upon success    *)
(* (use --no-clean to disable)".  RemoveNpmDir violates it; no run checks  *)
(* it.                                                                     *)
RetainedWithoutClean ==
  process = "done" /\ ~ options.clean =>
    \A p \in visited \cap Jsii : npmDir[p] = "tarball"
=============================================================================
