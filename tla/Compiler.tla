------------------------------ MODULE Compiler ------------------------------
(***************************************************************************)
(* One run of the compiler (packages/jsii/lib/compiler.ts and bin/jsii.ts): *)
(* the package and its dependencies are loaded, TypeScript's configuration *)
(* is written, then TypeScript's own emit, the assembler, the validator    *)
(* and the assembly file, which may be there from an earlier run.          *)
(***************************************************************************)
EXTENDS Compilation

CONSTANT CheckoutsOf(_) \* the packages that a program is compiled in

VARIABLES
  file, \* .jsii: that of an "earlier" run (or none), of "this" one
  exit  \* the status of the process

compilerVars == <<assemblerVars, status, assembly, file, exit>>

Init ==
  /\ AssemblerInit
  /\ checkout \in CheckoutsOf(program) /\ projectInfo = NoProject
  /\ CompilationInit
  /\ file = "earlier"
  /\ exit = "running"

(* An exception before the compiler runs ends the process. *)
Fail == phase' = "unloadable" /\ exit' = "failure"
assemblingVars == <<program, stage, types, deferred, scan, invoked, diags, status, assembly, file>>

(* package.json is rewritten, if that is wanted, before dependencies are   *)
(* loaded.                                                                 *)
LoadProjectInfo ==
  /\ phase = "loading"
  /\ LET package == checkout.package IN
       IF BundlingError(package) \/ (~ checkout.fix /\ Mismatched(package) # << >>)
       THEN Fail /\ UNCHANGED dependencyVars
       ELSE LET fixed == WithPeers(package) IN
         /\ checkout' = [checkout EXCEPT !.package = fixed]
         /\ IF Unloadable(fixed) THEN Fail /\ UNCHANGED projectInfo
            ELSE phase' = "configuring" /\ projectInfo' = ProjectInfo(fixed) /\ UNCHANGED exit
  /\ UNCHANGED assemblingVars

(* A tsconfig.json that was not generated is left alone. *)
WriteTypeScriptConfig ==
  /\ phase = "configuring"
  /\ IF checkout.tsconfig = "own" THEN Fail /\ UNCHANGED checkout
     ELSE /\ checkout' = [checkout EXCEPT !.tsconfig = "generated"]
          /\ phase' = "visiting" /\ UNCHANGED exit
  /\ UNCHANGED <<assemblingVars, projectInfo>>

Assemble == AssemblerNext /\ UNCHANGED <<status, assembly, file, exit>>

(* The rest of emit: the assembly is written unless there is an error.     *)
(* The error of conflicting dependencies comes too late for that.          *)
Emit ==
  /\ phase = "assembled"
  /\ LET found == IF Errors(diags) = {} THEN ValidationErrors(types) ELSE {}
         late == IF Errors(diags) = {} THEN ErrorIf(ClosureConflicts, "conflicting dependencies") ELSE {}
     IN
       /\ diags' = diags \cup found \cup late
       /\ IF Errors(diags \cup found) = {}
          THEN /\ phase' = "emitted" /\ status' = "accepted"
               /\ assembly' = WithOverrides(types) /\ file' = "this"
          ELSE /\ phase' = "skipped" /\ status' = "rejected"
               /\ UNCHANGED <<assembly, file>>
  /\ UNCHANGED <<dependencyVars, program, stage, types, deferred, scan, invoked, exit>>

(* An exception of the assembler is logged, and no more. *)
Catch ==
  /\ phase = "thrown" /\ status = "compiling"
  /\ status' = "rejected"
  /\ UNCHANGED <<assemblerVars, assembly, file, exit>>

(* Mutant: an emission that was skipped counts as a success. *)
ExitIgnoringSkipped(tsErrors, failOnWarnings) ==
  /\ status # "compiling" /\ exit = "running"
  /\ exit' = IF tsErrors \/ (failOnWarnings /\ diags # {}) THEN "failure" ELSE "success"
  /\ UNCHANGED <<assemblerVars, status, assembly, file>>

(* emitHasErrors, for what TypeScript reported and for what the assembler  *)
(* returned - nothing if it threw - and the exit code that follows.        *)
Exit(tsErrors, failOnWarnings) ==
  /\ status # "compiling" /\ exit = "running"
  /\ exit' = IF \/ tsErrors
                \/ phase # "thrown" /\ (Errors(diags) # {} \/ (failOnWarnings /\ diags # {}))
             THEN "failure" ELSE "success"
  /\ UNCHANGED <<assemblerVars, status, assembly, file>>

Next ==
  \/ LoadProjectInfo \/ WriteTypeScriptConfig
  \/ Assemble \/ Emit \/ Catch
  \/ \E tsErrors, failOnWarnings \in BOOLEAN : Exit(tsErrors, failOnWarnings)

Spec == Init /\ [][Next]_compilerVars /\ WF_compilerVars(Next)

-----------------------------------------------------------------------------
(* The comment of _defer, that dependencies without cycles are there in    *)
(* time: no pass of callDeferredsInOrder ends without an invocation, for   *)
(* then the assembler throws.                                              *)
NeverStuck == phase = "deferreds" /\ scan > Len(deferred) => invoked

(* A process that exits with success wrote the assembly of this run, but   *)
(* for an exception of the assembler, which is only logged.                *)
ExitTells == exit = "success" => file = "this" \/ phase = "thrown"

(* The promise of Compilation, whatever the order of visits and checks *)
ImplementsCompilation == CompilationSpec
=============================================================================
