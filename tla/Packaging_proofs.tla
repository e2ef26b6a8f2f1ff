-------------------------- MODULE Packaging_proofs --------------------------
(***************************************************************************)
(* Proofs about the packaging of modules, for any packages, dependencies   *)
(* without a circle, targets and options, any number of runs and failures. *)
(***************************************************************************)
EXTENDS Packaging, SequenceLemmas

Running   == process = "running"
Failed(p) == \E j \in JobsOf(p) : target[j] = "failed"
OnStack(p) == \E i \in DOMAIN stack : stack[i].pkg = p

(* The calls of buildPackage: each waits for the one above it, which is    *)
(* for the dependency it looked at last, and all it looked at is visited.  *)
CallInv(c) ==
  /\ c.pkg \in visited
  /\ c.at # "read" => c.pkg \in Jsii
  /\ options.recurse /\ c.at \notin {"read", "deps"} => c.next = Len(Dependencies[c.pkg]) + 1
  /\ \A k \in 1 .. c.next - 1 : Dependencies[c.pkg][k] \in visited
  /\ c.error => c.at = "remove"
StackInv ==
  Running =>
    /\ stack # << >>
    /\ \A i \in DOMAIN stack : CallInv(stack[i])
    /\ \A i, j \in DOMAIN stack : stack[i].pkg = stack[j].pkg => i = j
    /\ \A i \in 1 .. Len(stack) - 1 :
         /\ stack[i].at = "deps" /\ stack[i].next > 1
         /\ Dependencies[stack[i].pkg][stack[i].next - 1] = stack[i + 1].pkg

(* The targets of a package are started by its call, which is not over     *)
(* before they are done or one has failed.                                 *)
TargetsInv(c) ==
  /\ c.at \in {"read", "deps", "pack", "load"} => ~ Working(c.pkg)
  /\ c.at = "remove" => IF c.error THEN Working(c.pkg) => Failed(c.pkg) ELSE Done(c.pkg)
JobsInv ==
  /\ \A p \in Packages : Working(p) => p \in visited \cap Jsii
  /\ Running => \A i \in DOMAIN stack : TargetsInv(stack[i])
  /\ Running => \A p \in visited \cap Jsii : Done(p) \/ OnStack(p)
  /\ process = "done" => \A p \in visited \cap Jsii : Done(p)

(* Only the innermost call has a temporary directory. *)
NpmDirInv ==
  /\ process # "killed" => \A p \in Packages : npmDir[p] # "none" =>
       Running /\ Call.pkg = p /\ Call.at \in {"pack", "load", "targets", "remove"}
  /\ Running /\ Call.at \in {"load", "targets"} => npmDir[Call.pkg] = "tarball"
  /\ \A p \in Packages : Working(p) => npmDir[p] = "tarball" \/ Done(p) \/ Failed(p)

(* What is not unwritten is written. *)
JobOut(j) ==
  /\ target[j] \in {"copy", "save", "build"} =>
       \A f \in Files \ unwritten[j] : out[j][f] = version[j[1]]
  /\ target[j] = "clean" => \A f \in Files : out[j][f] = version[j[1]]
  /\ target[j] = "done" =>
       /\ out[j]["main"] = version[j[1]]
       /\ j[2] \notin Fingerprinted \/ options.force \/ ~ options.codeOnly
            => out[j]["rest"] = version[j[1]]
OutInv == \A j \in Jobs : JobOut(j)

JobDir(j) ==
  /\ process # "killed" /\ j \in codeDir =>
       /\ ~ options.codeOnly
       /\ target[j] \in {"check", "copy", "save", "build", "clean", "failed", "done"}
       /\ target[j] = "done" => ~ options.clean
  /\ target[j] \in {"mkdtemp", "build", "clean"} => ~ options.codeOnly
CodeDirInv == \A j \in Jobs : JobDir(j)

Inv ==
  /\ TypeOK
  /\ StackInv
  /\ JobsInv
  /\ NpmDirInv
  /\ OutInv
  /\ CodeDirInv
  /\ DependenciesFirst

-----------------------------------------------------------------------------
LEMMA JobFacts ==
  /\ \A j \in Jobs : j[1] \in Packages /\ j[2] \in Targets /\ j \in JobsOf(j[1])
  /\ \A p \in Packages : JobsOf(p) \subseteq Jobs /\ \A j \in JobsOf(p) : j[1] = p
BY DEF Jobs, JobsOf

LEMMA DependencyFacts ==
  ASSUME NEW p \in Packages
  PROVE  /\ Len(Dependencies[p]) \in Nat
         /\ DOMAIN Dependencies[p] = 1 .. Len(Dependencies[p])
         /\ \A k \in DOMAIN Dependencies[p] : Dependencies[p][k] \in Packages
<1>1. Dependencies[p] \in Seq(Packages)
  BY DependenciesAssumption
<1> QED BY <1>1, LenProperties, ElementOfSeq

LEMMA InitInv == Init => Inv
<1> SUFFICES ASSUME Init PROVE Inv
  OBVIOUS
<1>1. stack = << >> /\ stack \in Seq(Calls) /\ DOMAIN stack = {}
  BY EmptySeq, LenProperties DEF Init
<1>2. \A j \in Jobs : target[j] = "idle"
  BY DEF Init
<1>3. \A p \in Packages : ~ Working(p)
  BY <1>2, JobFacts DEF Working
<1>4. TypeOK
  BY <1>1, InvocationsAssumption, BoundsAssumption DEF Init, TypeOK, Processes, Phases, Files
<1>5. StackInv /\ DependenciesFirst
  BY <1>3 DEF Init, StackInv, Running, DependenciesFirst
<1>6. JobsInv /\ NpmDirInv
  BY <1>3 DEF Init, JobsInv, NpmDirInv, Running
<1>7. OutInv /\ CodeDirInv
  BY <1>2 DEF Init, OutInv, JobOut, CodeDirInv, JobDir
<1> QED BY <1>4, <1>5, <1>6, <1>7 DEF Inv

-----------------------------------------------------------------------------
(* Starting and killing the program. *)

LEMMA StartInv ==
  ASSUME Inv, Start
  PROVE  Inv'
<1>1. /\ run' \in 0 .. MaxRuns /\ process' = "running" /\ options' \in Options
      /\ version' \in [Packages -> 1 .. MaxVersion]
      /\ visited' = {Root} /\ stack' = <<CallOf(Root)>>
      /\ npmDir' = [p \in Packages |-> "none"] /\ codeDir' = {}
      /\ target' = [j \in Jobs |-> "idle"] /\ unwritten' = [j \in Jobs |-> {}]
      /\ out' = out
  <2>1. /\ run \in 0 .. MaxRuns /\ run < MaxRuns /\ run' = run + 1 /\ MaxRuns \in Nat
        /\ version \in [Packages -> 1 .. MaxVersion] /\ MaxVersion \in Nat
    BY BoundsAssumption DEF Inv, TypeOK, Start
  <2>2. version' \in [Packages -> 1 .. MaxVersion]
    BY <2>1 DEF Start
  <2> QED BY <2>1, <2>2, InvocationsAssumption DEF Start
<1>2. /\ CallOf(Root) \in Calls /\ CallOf(Root).pkg = Root /\ CallOf(Root).at = "read"
      /\ CallOf(Root).next = 1 /\ CallOf(Root).error = FALSE
      /\ Root \in Packages /\ Root \in Jsii
  BY PackagesAssumption DEF CallOf, Calls
<1>3. /\ stack' \in Seq(Calls) /\ DOMAIN stack' = {1} /\ Len(stack') = 1
      /\ stack'[1] = CallOf(Root) /\ stack' # << >>
  BY <1>1, <1>2
<1>4. \A p \in Packages : ~ Working(p)'
  BY <1>1, JobFacts DEF Working
<1>5. TypeOK'
  <2>1. \A i \in DOMAIN stack' : stack'[i].next \in 1 .. Len(Dependencies[stack'[i].pkg]) + 1
    BY <1>2, <1>3, DependencyFacts
  <2> QED BY <1>1, <1>2, <1>3, <2>1 DEF Inv, TypeOK, Processes, Phases
<1>6. StackInv'
  BY <1>1, <1>2, <1>3 DEF StackInv, CallInv
<1>7. JobsInv'
  <2>1. OnStack(Root)'
    BY <1>2, <1>3 DEF OnStack
  <2>2. stack'[1].pkg = Root /\ stack'[1].at = "read" /\ ~ Working(Root)'
    BY <1>2, <1>3, <1>4
  <2>3. TargetsInv(stack[1])'
    BY <1>4, <2>2, <1>2 DEF TargetsInv
  <2>4. \A i \in DOMAIN stack' : TargetsInv(stack[i])'
    BY <1>3, <2>3
  <2>5. \A p \in Packages : Working(p)' => p \in visited' \cap Jsii
    BY <1>4
  <2>6. \A p \in visited' \cap Jsii : OnStack(p)'
    BY <1>1, <2>1
  <2>7. process' # "done"
    BY <1>1
  <2> QED BY <2>4, <2>5, <2>6, <2>7 DEF JobsInv
<1>8. NpmDirInv'
  <2>1. Call' = CallOf(Root)
    BY <1>3 DEF Call, Last
  <2> QED BY <1>1, <1>2, <1>4, <2>1 DEF NpmDirInv
<1>9. OutInv' /\ CodeDirInv'
  BY <1>1 DEF OutInv, JobOut, CodeDirInv, JobDir
<1>10. DependenciesFirst'
  BY <1>4 DEF DependenciesFirst
<1> QED BY <1>5, <1>6, <1>7, <1>8, <1>9, <1>10 DEF Inv

LEMMA KillInv ==
  ASSUME Inv, Kill
  PROVE  Inv'
<1>1. /\ process' = "killed" /\ stack' = << >>
      /\ target' = [j \in Jobs |-> "idle"] /\ unwritten' = [j \in Jobs |-> {}]
      /\ UNCHANGED <<run, options, version, out, visited, npmDir, codeDir>>
  BY DEF Kill, diskVars
<1>2. stack' \in Seq(Calls) /\ DOMAIN stack' = {}
  BY <1>1, EmptySeq, LenProperties
<1>3. \A p \in Packages : ~ Working(p)'
  BY <1>1, JobFacts DEF Working
<1>4. TypeOK'
  BY <1>1, <1>2 DEF Inv, TypeOK, Processes, Phases
<1>5. StackInv' /\ JobsInv' /\ NpmDirInv' /\ DependenciesFirst'
  BY <1>1, <1>3 DEF StackInv, JobsInv, NpmDirInv, Running, DependenciesFirst
<1>6. OutInv' /\ CodeDirInv'
  BY <1>1 DEF OutInv, JobOut, CodeDirInv, JobDir
<1> QED BY <1>4, <1>5, <1>6 DEF Inv

-----------------------------------------------------------------------------
(* The calls of buildPackage. *)

LEMMA TopCall ==
  ASSUME TypeOK, stack # << >>
  PROVE  /\ stack \in Seq(Calls) /\ Len(stack) \in Nat \ {0}
         /\ DOMAIN stack = 1 .. Len(stack)
         /\ Len(stack) \in DOMAIN stack
         /\ Call = stack[Len(stack)] /\ Call \in Calls /\ Call.pkg \in Packages
         /\ Call.next \in 1 .. Len(Dependencies[Call.pkg]) + 1
         /\ \A i \in DOMAIN stack : stack[i] \in Calls /\ stack[i].pkg \in Packages
<1>1. stack \in Seq(Calls) /\ Len(stack) \in Nat \ {0} /\ DOMAIN stack = 1 .. Len(stack)
  BY EmptySeq, LenProperties DEF TypeOK
<1>2. \A i \in DOMAIN stack : stack[i] \in Calls /\ stack[i].pkg \in Packages
  <2> SUFFICES ASSUME NEW i \in DOMAIN stack PROVE stack[i] \in Calls /\ stack[i].pkg \in Packages
    OBVIOUS
  <2>1. stack[i] \in Calls
    BY <1>1
  <2> QED BY <2>1 DEF Calls
<1> QED BY <1>1, <1>2 DEF TypeOK, Call, Last

(* The innermost call replaced by another state of it. *)
LEMMA ReplacedStack ==
  ASSUME NEW s \in Seq(Calls), s # << >>, NEW c \in Calls
  PROVE  /\ Front(s) \o <<c>> \in Seq(Calls)
         /\ Len(Front(s) \o <<c>>) = Len(s)
         /\ DOMAIN (Front(s) \o <<c>>) = 1 .. Len(s)
         /\ (Front(s) \o <<c>>)[Len(s)] = c
         /\ \A i \in 1 .. Len(s) - 1 : (Front(s) \o <<c>>)[i] = s[i]
<1>1. Front(s) \in Seq(Calls)
  BY FrontLast
<1>2. Front(s) \o <<c>> = Append(Front(s), c)
  BY <1>1, ConcatOne
<1>3. /\ Append(Front(s), c) \in Seq(Calls)
      /\ Len(Append(Front(s), c)) = Len(s)
      /\ DOMAIN Append(Front(s), c) = 1 .. Len(s)
      /\ Append(Front(s), c)[Len(s)] = c
      /\ \A i \in 1 .. Len(s) - 1 : Append(Front(s), c)[i] = s[i]
  BY LastReplaced
<1> QED BY <1>2, <1>3

LEMMA ReplacedCall ==
  ASSUME TypeOK, stack # << >>, NEW c \in Calls, stack' = Front(stack) \o <<c>>
  PROVE  /\ stack' \in Seq(Calls) /\ stack' # << >>
         /\ Len(stack') = Len(stack) /\ DOMAIN stack' = DOMAIN stack
         /\ stack'[Len(stack)] = c /\ Call' = c
         /\ \A i \in 1 .. Len(stack) - 1 : stack'[i] = stack[i]
<1>1. stack \in Seq(Calls) /\ Len(stack) \in Nat \ {0} /\ DOMAIN stack = 1 .. Len(stack)
  BY TopCall
<1>2. /\ Front(stack) \o <<c>> \in Seq(Calls)
      /\ Len(Front(stack) \o <<c>>) = Len(stack)
      /\ DOMAIN (Front(stack) \o <<c>>) = 1 .. Len(stack)
      /\ (Front(stack) \o <<c>>)[Len(stack)] = c
      /\ \A i \in 1 .. Len(stack) - 1 : (Front(stack) \o <<c>>)[i] = stack[i]
  BY <1>1, ReplacedStack
<1>3. /\ stack' \in Seq(Calls) /\ Len(stack') = Len(stack)
      /\ DOMAIN stack' = 1 .. Len(stack)
      /\ stack'[Len(stack)] = c
      /\ \A i \in 1 .. Len(stack) - 1 : stack'[i] = stack[i]
  BY <1>2
<1>4. stack' # << >> /\ Call' = c
  BY <1>1, <1>3, EmptySeq DEF Call, Last
<1> QED BY <1>1, <1>3, <1>4

(* Dependencies have no circle, so a call does not come to one below it.   *)
LEMMA NoCircle ==
  ASSUME Inv, Running, Call.at # "read", NEW i \in DOMAIN stack,
         NEW k \in DOMAIN Dependencies[Call.pkg]
  PROVE  Dependencies[Call.pkg][k] # stack[i].pkg
<1> SUFFICES ASSUME Dependencies[Call.pkg][k] = stack[i].pkg PROVE FALSE
  OBVIOUS
<1> DEFINE n == Len(stack)
           circle == {stack[m].pkg : m \in i .. n}
<1>1. /\ TypeOK /\ stack # << >> /\ n \in Nat \ {0} /\ DOMAIN stack = 1 .. n
      /\ Call = stack[n] /\ i \in 1 .. n
      /\ \A m \in DOMAIN stack : stack[m].pkg \in Packages
  BY TopCall DEF Inv, StackInv
<1>2. \A m \in 1 .. n : stack[m].pkg \in Jsii
  <2> SUFFICES ASSUME NEW m \in 1 .. n PROVE stack[m].pkg \in Jsii
    OBVIOUS
  <2>1. CallInv(stack[m]) /\ (m # n => stack[m].at = "deps")
    BY <1>1 DEF Inv, StackInv
  <2> QED BY <1>1, <2>1 DEF CallInv
<1>3. circle \in SUBSET Jsii /\ circle # {}
  BY <1>1, <1>2
<1>4. PICK p \in circle : \A h \in DOMAIN Dependencies[p] : Dependencies[p][h] \notin circle
  BY <1>3, AcyclicAssumption
<1>5. PICK m \in i .. n : p = stack[m].pkg
  BY <1>4
<1>6. CASE m = n
  <2>1. stack[i].pkg \in circle
    BY <1>1
  <2> QED BY <1>1, <1>4, <1>5, <1>6, <2>1
<1>7. CASE m # n
  <2> DEFINE h == stack[m].next - 1
  <2>1. m \in 1 .. n - 1 /\ m + 1 \in i .. n /\ m \in DOMAIN stack
    BY <1>1, <1>5, <1>7
  <2>2. stack[m].next > 1 /\ Dependencies[p][h] = stack[m + 1].pkg
    BY <1>5, <2>1 DEF Inv, StackInv
  <2>3. h \in DOMAIN Dependencies[p]
    <3>1. stack[m].next \in 1 .. Len(Dependencies[p]) + 1 /\ p \in Packages
      BY <1>1, <1>5, <2>1 DEF TypeOK
    <3> QED BY <2>2, <3>1, DependencyFacts
  <2>4. stack[m + 1].pkg \in circle
    BY <2>1
  <2> QED BY <1>4, <2>2, <2>3, <2>4
<1> QED BY <1>6, <1>7

(* A step of the innermost call that leaves the others alone. *)
LEMMA StepOfCall ==
  ASSUME Inv, Running, NEW c \in Calls, stack' = Front(stack) \o <<c>>,
         c.pkg = Call.pkg, c.next \in 1 .. Len(Dependencies[c.pkg]) + 1, CallInv(c),
         UNCHANGED <<process, options, visited>>
  PROVE  /\ StackInv'
         /\ stack' \in Seq(Calls)
         /\ \A i \in DOMAIN stack' : stack'[i].next \in 1 .. Len(Dependencies[stack'[i].pkg]) + 1
         /\ Call' = c
         /\ \A p \in Packages : OnStack(p)' <=> OnStack(p)
         /\ \A i \in DOMAIN stack' :
              /\ i \in DOMAIN stack /\ stack'[i].pkg = stack[i].pkg
              /\ stack'[i] = c \/ (stack'[i] = stack[i] /\ stack[i].pkg # c.pkg)
<1> DEFINE n == Len(stack)
<1>1. /\ TypeOK /\ stack # << >> /\ n \in Nat \ {0} /\ DOMAIN stack = 1 .. n
      /\ Call = stack[n]
      /\ \A i \in 1 .. n : CallInv(stack[i])
      /\ \A i, j \in 1 .. n : stack[i].pkg = stack[j].pkg => i = j
      /\ \A i \in 1 .. n - 1 :
           /\ stack[i].at = "deps" /\ stack[i].next > 1
           /\ Dependencies[stack[i].pkg][stack[i].next - 1] = stack[i + 1].pkg
  BY TopCall DEF Inv, StackInv
<1>2. /\ stack' \in Seq(Calls) /\ stack' # << >>
      /\ Len(stack') = n /\ DOMAIN stack' = DOMAIN stack
      /\ stack'[n] = c /\ Call' = c
      /\ \A i \in 1 .. n - 1 : stack'[i] = stack[i]
  BY <1>1, ReplacedCall
<1> HIDE DEF n
<1>3. ASSUME NEW i \in 1 .. n
      PROVE  /\ stack'[i].pkg = stack[i].pkg
             /\ stack'[i] = c \/ (stack'[i] = stack[i] /\ stack[i].pkg # c.pkg)
  <2>1. CASE i = n
    BY <1>1, <1>2, <2>1
  <2>2. CASE i # n
    <3>1. i \in 1 .. n - 1 /\ n \in 1 .. n
      BY <1>1, <2>2
    <3>2. stack'[i] = stack[i] /\ stack[i].pkg # stack[n].pkg
      BY <1>1, <1>2, <2>2, <3>1
    <3> QED BY <1>1, <3>2
  <2> QED BY <2>1, <2>2
<1>4. \A i \in DOMAIN stack' : stack'[i].next \in 1 .. Len(Dependencies[stack'[i].pkg]) + 1
  BY <1>1, <1>2, <1>3 DEF TypeOK
<1>5. ASSUME NEW i \in 1 .. n PROVE CallInv(stack[i])'
  <2>1. CASE stack'[i] = c
    BY <2>1 DEF CallInv
  <2>2. CASE stack'[i] = stack[i]
    BY <1>1, <2>2 DEF CallInv
  <2> QED BY <1>3, <2>1, <2>2
<1>6. ASSUME NEW i \in 1 .. n - 1
      PROVE  /\ stack'[i].at = "deps" /\ stack'[i].next > 1
             /\ Dependencies[stack'[i].pkg][stack'[i].next - 1] = stack'[i + 1].pkg
  <2>1. i + 1 \in 1 .. n /\ stack'[i] = stack[i]
    BY <1>1, <1>2
  <2>2. stack'[i + 1].pkg = stack[i + 1].pkg
    BY <1>3, <2>1
  <2> QED BY <1>1, <2>1, <2>2
<1>7. \A i, j \in 1 .. n : stack'[i].pkg = stack'[j].pkg => i = j
  BY <1>1, <1>3
<1>8. StackInv'
  BY <1>1, <1>2, <1>5, <1>6, <1>7 DEF StackInv
<1>9. ASSUME NEW p \in Packages PROVE OnStack(p)' <=> OnStack(p)
  <2>1. DOMAIN stack' = 1 .. n /\ DOMAIN stack = 1 .. n /\ \A i \in 1 .. n : stack'[i].pkg = stack[i].pkg
    BY <1>1, <1>2, <1>3
  <2>2. (\E i \in 1 .. n : stack'[i].pkg = p) <=> (\E i \in 1 .. n : stack[i].pkg = p)
    BY <2>1
  <2> QED BY <2>1, <2>2 DEF OnStack
<1> QED BY <1>1, <1>2, <1>3, <1>4, <1>8, <1>9

(* The targets are left alone. *)
LEMMA SameTargets ==
  ASSUME UNCHANGED target
  PROVE  \A p : (Working(p)' <=> Working(p)) /\ (Done(p)' <=> Done(p)) /\ (Failed(p)' <=> Failed(p))
BY DEF Working, Done, Failed

(* A step of the innermost call that leaves all else but its temporary     *)
(* directory alone.                                                        *)
LEMMA QuietStepInv ==
  ASSUME Inv, Running, NEW c \in Calls, stack' = Front(stack) \o <<c>>,
         c.pkg = Call.pkg, c.next \in 1 .. Len(Dependencies[c.pkg]) + 1, CallInv(c),
         TargetsInv(c),
         npmDir' \in [Packages -> {"none", "empty", "tarball"}],
         \A p \in Packages : p # c.pkg => npmDir'[p] = npmDir[p],
         npmDir'[c.pkg] # "none" => c.at \in {"pack", "load", "targets", "remove"},
         c.at \in {"load", "targets"} => npmDir'[c.pkg] = "tarball",
         Working(c.pkg) => npmDir'[c.pkg] = "tarball" \/ Done(c.pkg) \/ Failed(c.pkg),
         UNCHANGED <<run, process, options, diskVars, visited, jobVars>>
  PROVE  Inv'
<1>1. UNCHANGED <<run, process, options, version, out, visited, codeDir, target, unwritten>>
  BY DEF diskVars, jobVars
<1>2. /\ StackInv' /\ stack' \in Seq(Calls) /\ Call' = c
      /\ \A i \in DOMAIN stack' : stack'[i].next \in 1 .. Len(Dependencies[stack'[i].pkg]) + 1
      /\ \A i \in DOMAIN stack' : i \in DOMAIN stack /\ (stack'[i] = c \/ stack'[i] = stack[i])
      /\ \A p \in Packages : OnStack(p)' <=> OnStack(p)
  BY <1>1, StepOfCall
<1>3. TypeOK'
  BY <1>1, <1>2 DEF Inv, TypeOK
<1>4. ASSUME NEW i \in DOMAIN stack' PROVE TargetsInv(stack[i])'
  <2>1. TargetsInv(stack'[i])
    BY <1>2 DEF Inv, JobsInv
  <2> QED BY <1>1, <2>1 DEF TargetsInv, Working, Done, Failed
<1>5. \A p : (Working(p)' <=> Working(p)) /\ (Done(p)' <=> Done(p)) /\ (Failed(p)' <=> Failed(p))
  BY <1>1, SameTargets
<1>6. visited' \subseteq Packages
  BY <1>1 DEF Inv, TypeOK
<1>7. JobsInv'
  <2>1. \A p \in Packages : Working(p)' => p \in visited' \cap Jsii
    BY <1>1, <1>5 DEF Inv, JobsInv
  <2>2. \A p \in visited' \cap Jsii : Done(p)' \/ OnStack(p)'
    BY <1>1, <1>2, <1>5, <1>6 DEF Inv, JobsInv
  <2>3. process' # "done"
    BY <1>1 DEF Running
  <2> QED BY <1>4, <2>1, <2>2, <2>3 DEF JobsInv
<1>8. NpmDirInv'
  <2>1. Running'
    BY <1>1 DEF Running
  <2>2. \A p \in Packages : npmDir'[p] # "none" =>
          c.pkg = p /\ c.at \in {"pack", "load", "targets", "remove"}
    BY DEF Inv, NpmDirInv, Running
  <2>3. \A p \in Packages : Working(p) => npmDir'[p] = "tarball" \/ Done(p) \/ Failed(p)
    BY DEF Inv, NpmDirInv
  <2> QED BY <1>2, <1>5, <2>1, <2>2, <2>3 DEF NpmDirInv
<1>9. OutInv' /\ CodeDirInv' /\ DependenciesFirst'
  BY <1>1, <1>5 DEF Inv, OutInv, JobOut, CodeDirInv, JobDir, DependenciesFirst
<1> QED BY <1>2, <1>3, <1>7, <1>8, <1>9 DEF Inv

(* The call ends, and so does the program with the outermost. *)
LEMMA ReturnInv ==
  ASSUME Inv, Running, ReturnCall, Call.pkg \in Jsii => Done(Call.pkg),
         npmDir' \in [Packages -> {"none", "empty", "tarball"}],
         \A p \in Packages : npmDir'[p] = "none",
         \A p \in Packages : Working(p) => Done(p) \/ Failed(p),
         UNCHANGED <<otherVars, visited, jobVars>>
  PROVE  Inv'
<1> DEFINE n == Len(stack)
<1>1. UNCHANGED <<run, options, version, out, visited, codeDir, target, unwritten>>
  BY DEF otherVars, diskVars, jobVars
<1>2. /\ TypeOK /\ stack # << >> /\ n \in Nat \ {0} /\ DOMAIN stack = 1 .. n
      /\ stack \in Seq(Calls) /\ Call = stack[n]
      /\ \A i \in 1 .. n : CallInv(stack[i])
      /\ \A i, j \in 1 .. n : stack[i].pkg = stack[j].pkg => i = j
      /\ \A i \in 1 .. n - 1 :
           /\ stack[i].at = "deps" /\ stack[i].next > 1
           /\ Dependencies[stack[i].pkg][stack[i].next - 1] = stack[i + 1].pkg
      /\ visited \subseteq Packages
  BY TopCall DEF Inv, StackInv, TypeOK
<1>3. /\ stack' \in Seq(Calls) /\ Len(stack') = n - 1 /\ DOMAIN stack' = 1 .. n - 1
      /\ \A i \in 1 .. n - 1 : stack'[i] = stack[i]
  <2>1. /\ Front(stack) \in Seq(Calls) /\ Len(Front(stack)) = n - 1
        /\ \A i \in 1 .. n - 1 : Front(stack)[i] = stack[i]
    BY <1>2, FrontLast
  <2>2. stack' = Front(stack)
    BY DEF ReturnCall
  <2> QED BY <2>1, <2>2, LenProperties
<1>4. process' = (IF n = 1 THEN "done" ELSE "running")
  BY DEF ReturnCall, Running
<1> HIDE DEF n
<1>5. \A p : (Working(p)' <=> Working(p)) /\ (Done(p)' <=> Done(p)) /\ (Failed(p)' <=> Failed(p))
  BY <1>1, SameTargets
<1>6. TypeOK'
  <2>1. \A i \in DOMAIN stack' : stack'[i].next \in 1 .. Len(Dependencies[stack'[i].pkg]) + 1
    BY <1>2, <1>3 DEF TypeOK
  <2> QED BY <1>1, <1>2, <1>3, <1>4, <2>1 DEF TypeOK, Processes
<1>7. StackInv'
  <2>1. ASSUME NEW i \in 1 .. n - 1 PROVE CallInv(stack[i])'
    <3>1. CallInv(stack[i]) /\ stack'[i] = stack[i]
      BY <1>2, <1>3
    <3> QED BY <1>1, <3>1 DEF CallInv
  <2>2. ASSUME NEW i \in 1 .. Len(stack') - 1
        PROVE  /\ stack'[i].at = "deps" /\ stack'[i].next > 1
               /\ Dependencies[stack'[i].pkg][stack'[i].next - 1] = stack'[i + 1].pkg
    <3>1. i \in 1 .. n - 1 /\ stack'[i] = stack[i] /\ stack'[i + 1] = stack[i + 1]
      BY <1>2, <1>3
    <3> QED BY <1>2, <3>1
  <2>3. Running' => stack' # << >>
    BY <1>2, <1>3, <1>4, EmptySeq DEF Running
  <2>4. \A i, j \in 1 .. n - 1 : stack'[i].pkg = stack'[j].pkg => i = j
    BY <1>2, <1>3
  <2> QED BY <1>3, <2>1, <2>2, <2>3, <2>4 DEF StackInv
<1>8. JobsInv'
  <2>1. \A p \in Packages : Working(p)' => p \in visited' \cap Jsii
    BY <1>1, <1>5 DEF Inv, JobsInv
  <2>2. ASSUME NEW i \in 1 .. n - 1 PROVE TargetsInv(stack[i])'
    <3>1. i \in DOMAIN stack /\ stack'[i] = stack[i]
      BY <1>2, <1>3
    <3>2. TargetsInv(stack[i])
      BY <3>1 DEF Inv, JobsInv
    <3> QED BY <1>1, <3>1, <3>2 DEF TargetsInv, Working, Done, Failed
  <2>3. ASSUME NEW p \in visited \cap Jsii
        PROVE  Done(p) \/ \E i \in 1 .. n - 1 : stack'[i].pkg = p
    <3>1. Done(p) \/ \E i \in 1 .. n : stack[i].pkg = p
      BY <1>2 DEF Inv, JobsInv, OnStack
    <3>2. CASE \E i \in 1 .. n : stack[i].pkg = p
      <4>1. PICK i \in 1 .. n : stack[i].pkg = p
        BY <3>2
      <4>2. CASE i = n
        BY <1>2, <4>1, <4>2
      <4>3. CASE i # n
        BY <1>2, <1>3, <4>1, <4>3
      <4> QED BY <4>2, <4>3
    <3> QED BY <3>1, <3>2
  <2>4. \A p \in visited' \cap Jsii : Done(p)' \/ OnStack(p)'
    BY <1>1, <1>3, <1>5, <2>3 DEF OnStack
  <2>5. process' = "done" => n = 1
    BY <1>4
  <2>6. process' = "done" => \A p \in visited' \cap Jsii : Done(p)'
    BY <1>1, <1>5, <2>3, <2>5
  <2> QED BY <1>3, <2>1, <2>2, <2>4, <2>6 DEF JobsInv
<1>9. NpmDirInv'
  <2>1. Running' => Call'.at = "deps"
    BY <1>2, <1>3, <1>4 DEF Running, Call, Last
  <2> QED BY <1>5, <2>1 DEF NpmDirInv
<1>10. OutInv' /\ CodeDirInv' /\ DependenciesFirst'
  <2>1. process # "killed"
    BY DEF Running
  <2> QED BY <1>1, <1>5, <2>1 DEF Inv, OutInv, JobOut, CodeDirInv, JobDir, DependenciesFirst
<1> QED BY <1>6, <1>7, <1>8, <1>9, <1>10 DEF Inv

(* An error goes through all the callers. *)
LEMMA RejectInv ==
  ASSUME Inv, Running, Reject,
         npmDir' \in [Packages -> {"none", "empty", "tarball"}],
         \A p \in Packages : npmDir'[p] = "none",
         \A p \in Packages : Working(p) => Done(p) \/ Failed(p),
         UNCHANGED <<otherVars, visited, jobVars>>
  PROVE  Inv'
<1>1. /\ UNCHANGED <<run, options, version, out, visited, stack, codeDir, target, unwritten>>
      /\ process' = "failed" /\ process # "killed"
  BY DEF otherVars, diskVars, jobVars, Reject, Running
<1>2. \A p : (Working(p)' <=> Working(p)) /\ (Done(p)' <=> Done(p)) /\ (Failed(p)' <=> Failed(p))
  BY <1>1, SameTargets
<1>3. TypeOK'
  BY <1>1 DEF Inv, TypeOK, Processes
<1>4. StackInv' /\ JobsInv' /\ NpmDirInv'
  BY <1>1, <1>2 DEF Inv, StackInv, JobsInv, NpmDirInv, Running
<1>5. OutInv' /\ CodeDirInv' /\ DependenciesFirst'
  BY <1>1, <1>2 DEF Inv, OutInv, JobOut, CodeDirInv, JobDir, DependenciesFirst
<1> QED BY <1>3, <1>4, <1>5 DEF Inv

(* Before a call has its temporary directory there is none. *)
LEMMA NoDirectoryYet ==
  ASSUME Inv, Running, Call.at \in {"read", "deps"}
  PROVE  /\ \A p \in Packages : npmDir[p] = "none"
         /\ \A p \in Packages : Working(p) => Done(p) \/ Failed(p)
BY DEF Inv, NpmDirInv, Running

-----------------------------------------------------------------------------
(* The steps of buildPackage. *)

(* What is known of the innermost call. *)
LEMMA CallFacts ==
  ASSUME Inv, Running
  PROVE  /\ TypeOK /\ stack # << >> /\ stack \in Seq(Calls)
         /\ Call \in Calls /\ Call.pkg \in Packages /\ CallInv(Call) /\ TargetsInv(Call)
         /\ Call.next \in 1 .. Len(Dependencies[Call.pkg]) + 1
         /\ npmDir \in [Packages -> {"none", "empty", "tarball"}]
         /\ npmDir[Call.pkg] # "none" => Call.at \in {"pack", "load", "targets", "remove"}
         /\ Call.at \in {"load", "targets"} => npmDir[Call.pkg] = "tarball"
<1>1. stack # << >>
  BY DEF Inv, StackInv
<1>2. /\ TypeOK /\ stack \in Seq(Calls) /\ Len(stack) \in DOMAIN stack /\ Call = stack[Len(stack)]
      /\ Call \in Calls /\ Call.pkg \in Packages
      /\ Call.next \in 1 .. Len(Dependencies[Call.pkg]) + 1
  BY <1>1, TopCall DEF Inv
<1>3. CallInv(stack[Len(stack)]) /\ TargetsInv(stack[Len(stack)])
  BY <1>2 DEF Inv, StackInv, JobsInv
<1>4. CallInv(Call) /\ TargetsInv(Call)
  BY <1>2, <1>3
<1>5. npmDir \in [Packages -> {"none", "empty", "tarball"}]
  BY <1>2 DEF TypeOK
<1>6. /\ npmDir[Call.pkg] # "none" => Call.at \in {"pack", "load", "targets", "remove"}
      /\ Call.at \in {"load", "targets"} => npmDir[Call.pkg] = "tarball"
  BY <1>2 DEF Inv, NpmDirInv, Running
<1> QED BY <1>1, <1>2, <1>4, <1>5, <1>6

LEMMA CallGoesTo ==
  ASSUME NEW c \in Calls, NEW x \in {"read", "deps", "pack", "load", "targets", "remove"}
  PROVE  /\ [c EXCEPT !.at = x] \in Calls
         /\ [c EXCEPT !.at = x].pkg = c.pkg /\ [c EXCEPT !.at = x].at = x
         /\ [c EXCEPT !.at = x].next = c.next /\ [c EXCEPT !.at = x].error = c.error
BY DEF Calls

LEMMA CallThrows ==
  ASSUME NEW c \in Calls
  PROVE  /\ [c EXCEPT !.at = "remove", !.error = TRUE] \in Calls
         /\ [c EXCEPT !.at = "remove", !.error = TRUE].pkg = c.pkg
         /\ [c EXCEPT !.at = "remove", !.error = TRUE].at = "remove"
         /\ [c EXCEPT !.at = "remove", !.error = TRUE].next = c.next
         /\ [c EXCEPT !.at = "remove", !.error = TRUE].error = TRUE
BY DEF Calls

(* The call goes on, leaving all but its temporary directory alone. *)
LEMMA GoToInv ==
  ASSUME Inv, Running, NEW x \in {"deps", "pack", "load", "targets", "remove"}, GoTo(x),
         Call.at # "remove", Call.pkg \in Jsii,
         options.recurse /\ x # "deps" => Call.next = Len(Dependencies[Call.pkg]) + 1,
         x \in {"deps", "pack", "load"} => ~ Working(Call.pkg),
         x = "remove" => Done(Call.pkg),
         npmDir' \in [Packages -> {"none", "empty", "tarball"}],
         \A p \in Packages : p # Call.pkg => npmDir'[p] = npmDir[p],
         npmDir'[Call.pkg] # "none" => x # "deps",
         x \in {"load", "targets"} => npmDir'[Call.pkg] = "tarball",
         Working(Call.pkg) => npmDir'[Call.pkg] = "tarball" \/ Done(Call.pkg) \/ Failed(Call.pkg),
         UNCHANGED <<run, options, diskVars, visited, jobVars>>
  PROVE  Inv'
<1> DEFINE c == [Call EXCEPT !.at = x]
<1>1. /\ stack # << >> /\ Call \in Calls /\ CallInv(Call)
      /\ Call.next \in 1 .. Len(Dependencies[Call.pkg]) + 1
  BY CallFacts
<1>2. /\ c \in Calls /\ c.pkg = Call.pkg /\ c.at = x /\ c.next = Call.next /\ c.error = Call.error
  <2>1. x \in {"read", "deps", "pack", "load", "targets", "remove"}
    OBVIOUS
  <2> QED BY <1>1, <2>1, CallGoesTo
<1>3. stack' = Front(stack) \o <<c>> /\ UNCHANGED process
  BY DEF GoTo
<1> HIDE DEF c
<1>4. CallInv(c)
  BY <1>1, <1>2 DEF CallInv
<1>5. ~ c.error
  BY <1>1, <1>2 DEF CallInv
<1>6. TargetsInv(c)
  BY <1>2, <1>5 DEF TargetsInv
<1>7. /\ c.next \in 1 .. Len(Dependencies[c.pkg]) + 1
      /\ \A p \in Packages : p # c.pkg => npmDir'[p] = npmDir[p]
      /\ npmDir'[c.pkg] # "none" => c.at \in {"pack", "load", "targets", "remove"}
      /\ c.at \in {"load", "targets"} => npmDir'[c.pkg] = "tarball"
      /\ Working(c.pkg) => npmDir'[c.pkg] = "tarball" \/ Done(c.pkg) \/ Failed(c.pkg)
  BY <1>1, <1>2
<1>8. UNCHANGED <<run, process, options, diskVars, visited, jobVars>>
  BY <1>3
<1> QED BY <1>2, <1>3, <1>4, <1>6, <1>7, <1>8, QuietStepInv

LEMMA ThrowInv ==
  ASSUME Inv, Running, Throw, Call.at \in {"pack", "load", "targets"},
         Working(Call.pkg) => Failed(Call.pkg),
         UNCHANGED <<run, options, diskVars, visited, npmDir, jobVars>>
  PROVE  Inv'
<1> DEFINE c == [Call EXCEPT !.at = "remove", !.error = TRUE]
<1>1. /\ stack # << >> /\ Call \in Calls /\ CallInv(Call)
      /\ Call.next \in 1 .. Len(Dependencies[Call.pkg]) + 1
      /\ npmDir \in [Packages -> {"none", "empty", "tarball"}]
  BY CallFacts
<1>2. /\ c \in Calls /\ c.pkg = Call.pkg /\ c.at = "remove" /\ c.next = Call.next /\ c.error = TRUE
  BY <1>1, CallThrows
<1>3. stack' = Front(stack) \o <<c>> /\ UNCHANGED process
  BY DEF Throw
<1> HIDE DEF c
<1>4. CallInv(c)
  BY <1>1, <1>2 DEF CallInv
<1>5. TargetsInv(c)
  BY <1>2 DEF TargetsInv
<1>6. /\ c.next \in 1 .. Len(Dependencies[c.pkg]) + 1
      /\ npmDir' \in [Packages -> {"none", "empty", "tarball"}]
      /\ \A p \in Packages : p # c.pkg => npmDir'[p] = npmDir[p]
      /\ npmDir'[c.pkg] # "none" => c.at \in {"pack", "load", "targets", "remove"}
      /\ c.at \in {"load", "targets"} => npmDir'[c.pkg] = "tarball"
      /\ Working(c.pkg) => npmDir'[c.pkg] = "tarball" \/ Done(c.pkg) \/ Failed(c.pkg)
  BY <1>1, <1>2
<1>7. UNCHANGED <<run, process, options, diskVars, visited, jobVars>>
  BY <1>3
<1> QED BY <1>2, <1>3, <1>4, <1>5, <1>6, <1>7, QuietStepInv

LEMMA ReadPackageInv ==
  ASSUME Inv, ReadPackage
  PROVE  Inv'
<1>1. /\ Running /\ Call.at = "read"
      /\ UNCHANGED <<otherVars, visited, npmDir, jobVars>>
  BY DEF ReadPackage, Waits, Running
<1>2. UNCHANGED <<run, options, diskVars, visited, npmDir, jobVars>>
  BY <1>1 DEF otherVars
<1>3. CallInv(Call) /\ TargetsInv(Call) /\ npmDir \in [Packages -> {"none", "empty", "tarball"}]
      /\ Call.pkg \in Packages /\ npmDir[Call.pkg] = "none"
  BY <1>1, CallFacts
<1>4. /\ \A p \in Packages : npmDir[p] = "none"
      /\ \A p \in Packages : Working(p) => Done(p) \/ Failed(p)
  BY <1>1, NoDirectoryYet
<1>5. npmDir' \in [Packages -> {"none", "empty", "tarball"}] /\ \A p \in Packages : npmDir'[p] = "none"
  BY <1>2, <1>3, <1>4
<1>6. CASE Call.pkg \in Jsii /\ GoTo("deps")
  <2>1. ~ Working(Call.pkg)
    BY <1>1, <1>3 DEF TargetsInv
  <2> QED BY <1>1, <1>2, <1>3, <1>4, <1>5, <1>6, <2>1, GoToInv
<1>7. CASE Call.pkg \notin Jsii /\ ReturnCall
  BY <1>1, <1>4, <1>5, <1>7, ReturnInv
<1>8. CASE Reject
  BY <1>1, <1>4, <1>5, <1>8, RejectInv
<1> QED BY <1>6, <1>7, <1>8 DEF ReadPackage

LEMMA PrepareInv ==
  ASSUME Inv, Prepare
  PROVE  Inv'
<1>1. /\ Running /\ Call.at = "deps"
      /\ options.recurse => Call.next > Len(Dependencies[Call.pkg])
      /\ UNCHANGED <<otherVars, visited, jobVars>>
  BY DEF Prepare, Waits, Running
<1>2. UNCHANGED <<run, options, diskVars, visited, jobVars>>
  BY <1>1 DEF otherVars
<1>3. /\ CallInv(Call) /\ TargetsInv(Call) /\ npmDir \in [Packages -> {"none", "empty", "tarball"}]
      /\ Call.pkg \in Packages /\ Call.next \in 1 .. Len(Dependencies[Call.pkg]) + 1
  BY <1>1, CallFacts
<1>4. /\ \A p \in Packages : npmDir[p] = "none"
      /\ \A p \in Packages : Working(p) => Done(p) \/ Failed(p)
  BY <1>1, NoDirectoryYet
<1>5. CASE GoTo("pack") /\ npmDir' = [npmDir EXCEPT ![Call.pkg] = "empty"]
  <2>1. ~ Working(Call.pkg) /\ Call.pkg \in Jsii
    BY <1>1, <1>3 DEF TargetsInv, CallInv
  <2>2. /\ npmDir' \in [Packages -> {"none", "empty", "tarball"}]
        /\ \A p \in Packages : p # Call.pkg => npmDir'[p] = npmDir[p]
    BY <1>3, <1>5
  <2>3. options.recurse => Call.next = Len(Dependencies[Call.pkg]) + 1
    BY <1>1, <1>3, DependencyFacts
  <2> QED BY <1>1, <1>2, <1>5, <2>1, <2>2, <2>3, GoToInv
<1>6. CASE Reject /\ UNCHANGED npmDir
  BY <1>1, <1>3, <1>4, <1>6, RejectInv
<1> QED BY <1>5, <1>6 DEF Prepare

LEMMA PackInv ==
  ASSUME Inv, Pack
  PROVE  Inv'
<1>1. /\ Running /\ Call.at = "pack"
      /\ UNCHANGED <<otherVars, visited, jobVars>>
  BY DEF Pack, Waits, Running
<1>2. UNCHANGED <<run, options, diskVars, visited, jobVars>>
  BY <1>1 DEF otherVars
<1>3. /\ CallInv(Call) /\ TargetsInv(Call) /\ npmDir \in [Packages -> {"none", "empty", "tarball"}]
      /\ Call.pkg \in Packages
  BY <1>1, CallFacts
<1>4. /\ ~ Working(Call.pkg) /\ Call.pkg \in Jsii
      /\ options.recurse => Call.next = Len(Dependencies[Call.pkg]) + 1
  BY <1>1, <1>3 DEF TargetsInv, CallInv
<1>5. CASE GoTo("load") /\ npmDir' = [npmDir EXCEPT ![Call.pkg] = "tarball"]
  <2>1. /\ npmDir' \in [Packages -> {"none", "empty", "tarball"}]
        /\ \A p \in Packages : p # Call.pkg => npmDir'[p] = npmDir[p]
        /\ npmDir'[Call.pkg] = "tarball"
    BY <1>3, <1>5
  <2> QED BY <1>1, <1>2, <1>4, <1>5, <2>1, GoToInv
<1>6. CASE Throw /\ UNCHANGED npmDir
  BY <1>1, <1>2, <1>4, <1>6, ThrowInv
<1> QED BY <1>5, <1>6 DEF Pack

LEMMA AwaitTargetsInv ==
  ASSUME Inv, AwaitTargets
  PROVE  Inv'
<1>1. /\ Running /\ Call.at = "targets"
      /\ UNCHANGED <<otherVars, visited, npmDir, jobVars>>
  BY DEF AwaitTargets, Waits, Running
<1>2. UNCHANGED <<run, options, diskVars, visited, npmDir, jobVars>>
  BY <1>1 DEF otherVars
<1>3. /\ CallInv(Call) /\ npmDir \in [Packages -> {"none", "empty", "tarball"}]
      /\ Call.pkg \in Packages /\ npmDir[Call.pkg] = "tarball"
  BY <1>1, CallFacts
<1>4. Call.pkg \in Jsii /\ (options.recurse => Call.next = Len(Dependencies[Call.pkg]) + 1)
  BY <1>1, <1>3 DEF CallInv
<1>5. CASE Done(Call.pkg) /\ GoTo("remove")
  BY <1>1, <1>2, <1>3, <1>4, <1>5, GoToInv
<1>6. CASE Failed(Call.pkg) /\ Throw
  BY <1>1, <1>2, <1>6, ThrowInv
<1> QED BY <1>5, <1>6 DEF AwaitTargets, Done, Failed

LEMMA RemoveNpmDirInv ==
  ASSUME Inv, RemoveNpmDir
  PROVE  Inv'
<1>1. /\ Running /\ Call.at = "remove"
      /\ npmDir' = [npmDir EXCEPT ![Call.pkg] = "none"]
      /\ IF Call.error THEN Reject ELSE ReturnCall
      /\ UNCHANGED <<otherVars, visited, jobVars>>
  BY DEF RemoveNpmDir, Waits, Running
<1>2. /\ TargetsInv(Call) /\ npmDir \in [Packages -> {"none", "empty", "tarball"}]
      /\ Call.pkg \in Packages
  BY <1>1, CallFacts
<1>3. \A p \in Packages : p # Call.pkg => npmDir[p] = "none"
  BY <1>1 DEF Inv, NpmDirInv, Running
<1>4. /\ npmDir' \in [Packages -> {"none", "empty", "tarball"}]
      /\ \A p \in Packages : npmDir'[p] = "none"
  BY <1>1, <1>2, <1>3
<1>5. IF Call.error THEN Working(Call.pkg) => Failed(Call.pkg) ELSE Done(Call.pkg)
  BY <1>1, <1>2 DEF TargetsInv
<1>6. ASSUME NEW p \in Packages, Working(p)
      PROVE  Done(p) \/ Failed(p)
  <2>1. npmDir[p] = "tarball" \/ Done(p) \/ Failed(p)
    BY <1>6 DEF Inv, NpmDirInv
  <2> QED BY <1>3, <1>5, <1>6, <2>1
<1>7. CASE Call.error
  BY <1>1, <1>4, <1>6, <1>7, RejectInv
<1>8. CASE ~ Call.error
  BY <1>1, <1>4, <1>5, <1>6, <1>8, ReturnInv
<1> QED BY <1>7, <1>8

(* The call of a dependency that was not visited. *)
LEMMA PushedStack ==
  ASSUME NEW s \in Seq(Calls), s # << >>, NEW c \in Calls, NEW d \in Calls
  PROVE  /\ Append(Front(s) \o <<c>>, d) \in Seq(Calls)
         /\ Len(Append(Front(s) \o <<c>>, d)) = Len(s) + 1
         /\ DOMAIN Append(Front(s) \o <<c>>, d) = 1 .. Len(s) + 1
         /\ Append(Front(s) \o <<c>>, d)[Len(s) + 1] = d
         /\ Append(Front(s) \o <<c>>, d)[Len(s)] = c
         /\ \A i \in 1 .. Len(s) - 1 : Append(Front(s) \o <<c>>, d)[i] = s[i]
<1> DEFINE u == Front(s) \o <<c>>
<1>1. /\ u \in Seq(Calls) /\ Len(u) = Len(s) /\ u[Len(s)] = c
      /\ \A i \in 1 .. Len(s) - 1 : u[i] = s[i]
  BY ReplacedStack
<1>2. Len(s) \in Nat \ {0}
  BY EmptySeq, LenProperties
<1> HIDE DEF u
<1>3. /\ Append(u, d) \in Seq(Calls) /\ Len(Append(u, d)) = Len(u) + 1
      /\ DOMAIN Append(u, d) = 1 .. Len(u) + 1
      /\ Append(u, d)[Len(u) + 1] = d
      /\ \A i \in 1 .. Len(u) : Append(u, d)[i] = u[i]
  BY <1>1, Appended
<1>4. Append(u, d)[Len(s)] = c /\ \A i \in 1 .. Len(s) - 1 : Append(u, d)[i] = s[i]
  BY <1>1, <1>2, <1>3
<1> QED BY <1>1, <1>3, <1>4 DEF u

LEMMA PushInv ==
  ASSUME Inv, Running, NEW c \in Calls, NEW d \in Packages, d \notin visited,
         c.pkg = Call.pkg, c.at = "deps", Call.at = "deps", c.next = Call.next + 1, ~ c.error,
         Call.next <= Len(Dependencies[Call.pkg]), d = Dependencies[Call.pkg][Call.next],
         NEW n \in Nat, n = Len(stack),
         stack' \in Seq(Calls), Len(stack') = n + 1, DOMAIN stack' = 1 .. n + 1,
         stack'[n + 1] = CallOf(d), stack'[n] = c, \A i \in 1 .. n - 1 : stack'[i] = stack[i],
         visited' = visited \cup {d},
         UNCHANGED <<otherVars, process, npmDir, jobVars>>
  PROVE  Inv'
<1>1. UNCHANGED <<run, process, options, version, out, npmDir, codeDir, target, unwritten>>
  BY DEF otherVars, diskVars, jobVars
<1>2. /\ TypeOK /\ stack # << >> /\ n \in Nat \ {0} /\ DOMAIN stack = 1 .. n
      /\ stack \in Seq(Calls) /\ Call = stack[n] /\ Call.pkg \in Packages
      /\ \A i \in 1 .. n : CallInv(stack[i])
      /\ \A i, j \in 1 .. n : stack[i].pkg = stack[j].pkg => i = j
      /\ \A i \in 1 .. n - 1 :
           /\ stack[i].at = "deps" /\ stack[i].next > 1
           /\ Dependencies[stack[i].pkg][stack[i].next - 1] = stack[i + 1].pkg
      /\ visited \subseteq Packages
      /\ Call.next \in 1 .. Len(Dependencies[Call.pkg]) + 1
  BY TopCall DEF Inv, StackInv, TypeOK
<1>3. /\ CallOf(d) \in Calls /\ CallOf(d).pkg = d /\ CallOf(d).at = "read"
      /\ CallOf(d).next = 1 /\ CallOf(d).error = FALSE
  BY DEF CallOf, Calls
<1>6. /\ stack' \in Seq(Calls) /\ Len(stack') = n + 1 /\ DOMAIN stack' = 1 .. n + 1
      /\ stack'[n + 1] = CallOf(d) /\ stack'[n] = c
      /\ \A i \in 1 .. n - 1 : stack'[i] = stack[i]
  OBVIOUS
<1>7. ASSUME NEW i \in 1 .. n + 1
      PROVE  \/ i = n + 1 /\ stack'[i] = CallOf(d)
             \/ i = n /\ stack'[i] = c
             \/ i \in 1 .. n - 1 /\ stack'[i] = stack[i]
  BY <1>2, <1>6
<1>8. \A i \in 1 .. n : stack'[i].pkg = stack[i].pkg
  <2> SUFFICES ASSUME NEW i \in 1 .. n PROVE stack'[i].pkg = stack[i].pkg
    OBVIOUS
  <2>1. CASE i = n
    BY <1>2, <1>6, <2>1
  <2>2. CASE i # n
    <3>1. i \in 1 .. n - 1
      BY <1>2, <2>2
    <3> QED BY <1>6, <3>1
  <2> QED BY <2>1, <2>2
<1>9. \A p : (Working(p)' <=> Working(p)) /\ (Done(p)' <=> Done(p)) /\ (Failed(p)' <=> Failed(p))
  BY <1>1, SameTargets
<1>10. /\ c.next \in 1 .. Len(Dependencies[c.pkg]) + 1
       /\ 1 \in 1 .. Len(Dependencies[d]) + 1
  <2>1. Len(Dependencies[Call.pkg]) \in Nat /\ Len(Dependencies[d]) \in Nat
    BY <1>2, DependencyFacts
  <2>2. c.next \in 1 .. Len(Dependencies[Call.pkg]) + 1
    BY <1>2, <2>1
  <2> QED BY <2>1, <2>2
<1>11. TypeOK'
  <2>1. ASSUME NEW i \in DOMAIN stack'
        PROVE  stack'[i].next \in 1 .. Len(Dependencies[stack'[i].pkg]) + 1
    <3>1. i \in 1 .. n + 1
      BY <1>6
    <3>2. CASE i \in 1 .. n - 1 /\ stack'[i] = stack[i]
      <4>1. i \in DOMAIN stack
        BY <1>2, <3>2
      <4> QED BY <1>2, <3>2, <4>1 DEF TypeOK
    <3> QED BY <1>3, <1>7, <1>10, <3>1, <3>2
  <2>2. visited' \subseteq Packages
    BY <1>2
  <2> QED BY <1>1, <1>2, <1>6, <2>1, <2>2 DEF TypeOK
<1>12. StackInv'
  <2>1. visited \subseteq visited' /\ d \in visited' /\ options' = options
    BY <1>1
  <2>2. Call.pkg \in visited /\ Call.pkg \in Jsii
        /\ \A k \in 1 .. Call.next - 1 : Dependencies[Call.pkg][k] \in visited
    <3>1. CallInv(stack[n])
      BY <1>2
    <3> QED BY <1>2, <3>1 DEF CallInv
  <2>3. \A k \in 1 .. c.next - 1 : Dependencies[c.pkg][k] \in visited'
    <3>1. ASSUME NEW k \in 1 .. Call.next PROVE Dependencies[Call.pkg][k] \in visited'
      <4>1. k \in 1 .. Call.next - 1 \/ k = Call.next
        BY <1>2
      <4> QED BY <2>1, <2>2, <4>1
    <3>2. c.next - 1 = Call.next
      BY <1>2
    <3> QED BY <3>1, <3>2
  <2>4. ASSUME NEW i \in 1 .. n + 1 PROVE CallInv(stack[i])'
    <3>1. CASE stack'[i] = CallOf(d)
      <4>1. /\ stack'[i].pkg \in visited' /\ stack'[i].at = "read" /\ stack'[i].next = 1
            /\ stack'[i].error = FALSE
        BY <1>3, <2>1, <3>1
      <4>2. 1 .. stack'[i].next - 1 = 1 .. 0
        BY <4>1
      <4> QED BY <4>1, <4>2 DEF CallInv
    <3>2. CASE stack'[i] = c
      BY <2>1, <2>2, <2>3, <3>2 DEF CallInv
    <3>3. CASE i \in 1 .. n - 1 /\ stack'[i] = stack[i]
      <4>1. CallInv(stack[i])
        BY <1>2, <3>3
      <4> QED BY <2>1, <3>3, <4>1 DEF CallInv
    <3> QED BY <1>7, <3>1, <3>2, <3>3
  <2>5. \A i \in 1 .. n : stack'[i].pkg \in visited
    BY <1>2, <1>8 DEF CallInv
  <2>6. \A i, j \in 1 .. n + 1 : stack'[i].pkg = stack'[j].pkg => i = j
    <3>1. \A i \in 1 .. n + 1 : i \in 1 .. n \/ i = n + 1
      BY <1>2
    <3>2. stack'[n + 1].pkg \notin visited
      BY <1>3, <1>6
    <3>3. \A i, j \in 1 .. n : stack'[i].pkg = stack'[j].pkg => i = j
      BY <1>2, <1>8
    <3> QED BY <2>5, <3>1, <3>2, <3>3
  <2>7. ASSUME NEW i \in 1 .. n
        PROVE  /\ stack'[i].at = "deps" /\ stack'[i].next > 1
               /\ Dependencies[stack'[i].pkg][stack'[i].next - 1] = stack'[i + 1].pkg
    <3>1. CASE i = n
      <4>1. stack'[i] = c /\ stack'[i + 1].pkg = d /\ c.next - 1 = Call.next /\ c.next > 1
        BY <1>2, <1>3, <1>6, <3>1
      <4> QED BY <4>1
    <3>2. CASE i # n
      <4>1. i \in 1 .. n - 1 /\ i + 1 \in 1 .. n /\ stack'[i] = stack[i]
        BY <1>2, <1>6, <3>2
      <4>2. stack'[i + 1].pkg = stack[i + 1].pkg
        BY <1>8, <4>1
      <4> QED BY <1>2, <4>1, <4>2
    <3> QED BY <3>1, <3>2
  <2>8. stack' # << >> /\ Len(stack') - 1 = n
    BY <1>2, <1>6, EmptySeq
  <2> QED BY <1>6, <2>4, <2>6, <2>7, <2>8 DEF StackInv
<1>13. JobsInv'
  <2>1. \A p \in Packages : Working(p)' => p \in visited' \cap Jsii
    BY <1>9 DEF Inv, JobsInv
  <2>2. ~ Working(d)
    BY DEF Inv, JobsInv
  <2>3. ~ Working(Call.pkg)
    <3>1. TargetsInv(Call)
      BY CallFacts
    <3> QED BY <3>1 DEF TargetsInv
  <2>4. ASSUME NEW i \in 1 .. n + 1 PROVE TargetsInv(stack[i])'
    <3>1. CASE stack'[i] = CallOf(d)
      BY <1>3, <1>9, <2>2, <3>1 DEF TargetsInv
    <3>2. CASE stack'[i] = c
      BY <1>9, <2>3, <3>2 DEF TargetsInv
    <3>3. CASE i \in 1 .. n - 1 /\ stack'[i] = stack[i]
      <4>1. i \in DOMAIN stack
        BY <1>2, <3>3
      <4>2. TargetsInv(stack[i])
        BY <4>1 DEF Inv, JobsInv
      <4> QED BY <1>1, <3>3, <4>2 DEF TargetsInv, Working, Done, Failed
    <3> QED BY <1>7, <3>1, <3>2, <3>3
  <2>5. ASSUME NEW p \in visited' \cap Jsii PROVE Done(p)' \/ OnStack(p)'
    <3>1. CASE p = d
      <4>1. n + 1 \in DOMAIN stack'
        BY <1>2, <1>6
      <4>2. stack'[n + 1].pkg = p
        BY <1>3, <1>6, <3>1
      <4> QED BY <4>1, <4>2 DEF OnStack
    <3>2. CASE p \in visited \cap Jsii
      <4>1. Done(p) \/ \E i \in 1 .. n : stack[i].pkg = p
        BY <1>2, <3>2 DEF Inv, JobsInv, OnStack
      <4>2. CASE \E i \in 1 .. n : stack[i].pkg = p
        <5>1. PICK i \in 1 .. n : stack[i].pkg = p
          BY <4>2
        <5>2. i \in DOMAIN stack'
          BY <1>2, <1>6
        <5>3. stack'[i].pkg = p
          BY <1>8, <5>1
        <5> QED BY <5>2, <5>3 DEF OnStack
      <4> QED BY <1>9, <4>1, <4>2
    <3> QED BY <3>1, <3>2
  <2>6. process' # "done"
    BY <1>1 DEF Running
  <2> QED BY <1>6, <2>1, <2>4, <2>5, <2>6 DEF JobsInv
<1>14. NpmDirInv'
  <2>1. Call' = CallOf(d)
    BY <1>2, <1>6 DEF Call, Last
  <2>2. \A p \in Packages : npmDir[p] = "none"
    BY NoDirectoryYet
  <2>3. \A p \in Packages : Working(p) => npmDir[p] = "tarball" \/ Done(p) \/ Failed(p)
    BY DEF Inv, NpmDirInv
  <2> QED BY <1>1, <1>3, <1>9, <2>1, <2>2, <2>3 DEF NpmDirInv
<1>15. OutInv' /\ CodeDirInv' /\ DependenciesFirst'
  BY <1>1, <1>9 DEF Inv, OutInv, JobOut, CodeDirInv, JobDir, DependenciesFirst
<1> QED BY <1>11, <1>12, <1>13, <1>14, <1>15 DEF Inv

LEMMA VisitDependencyInv ==
  ASSUME Inv, VisitDependency
  PROVE  Inv'
<1> DEFINE d == Dependencies[Call.pkg][Call.next]
           c == [Call EXCEPT !.next = Call.next + 1]
<1>1. /\ Running /\ Call.at = "deps" /\ options.recurse
      /\ Call.next <= Len(Dependencies[Call.pkg])
      /\ UNCHANGED <<otherVars, npmDir, jobVars>>
  BY DEF VisitDependency, Waits, Running
<1>2. \/ /\ stack' = IF d \in visited THEN Front(stack) \o <<c>>
                     ELSE Append(Front(stack) \o <<c>>, CallOf(d))
         /\ visited' = visited \cup {d}
         /\ UNCHANGED process
      \/ Reject /\ UNCHANGED visited
  BY DEF VisitDependency
<1>3. /\ stack # << >> /\ stack \in Seq(Calls)
      /\ Call \in Calls /\ Call.pkg \in Packages /\ CallInv(Call) /\ TargetsInv(Call)
      /\ Call.next \in 1 .. Len(Dependencies[Call.pkg]) + 1
      /\ npmDir \in [Packages -> {"none", "empty", "tarball"}]
  BY <1>1, CallFacts
<1>4. Len(Dependencies[Call.pkg]) \in Nat /\ d \in Packages
  BY <1>1, <1>3, DependencyFacts
<1>5. c \in Calls /\ c.pkg = Call.pkg /\ c.at = "deps" /\ c.next = Call.next + 1 /\ ~ c.error
  BY <1>1, <1>3 DEF Calls, CallInv
<1>6. /\ \A p \in Packages : npmDir[p] = "none"
      /\ \A p \in Packages : Working(p) => Done(p) \/ Failed(p)
  BY <1>1, NoDirectoryYet
<1> HIDE DEF c
<1>7. CASE Reject /\ UNCHANGED visited
  BY <1>1, <1>3, <1>6, <1>7, RejectInv
<1>8. CASE d \in visited /\ stack' = Front(stack) \o <<c>> /\ UNCHANGED <<process, visited>>
  <2>1. CallInv(c)
    <3>1. \A k \in 1 .. c.next - 1 : k \in 1 .. Call.next - 1 \/ k = Call.next
      BY <1>3, <1>5
    <3> QED BY <1>1, <1>3, <1>5, <1>8, <3>1 DEF CallInv
  <2>2. TargetsInv(c) /\ ~ Working(c.pkg)
    BY <1>1, <1>3, <1>5 DEF TargetsInv
  <2>3. c.next \in 1 .. Len(Dependencies[c.pkg]) + 1
    BY <1>1, <1>3, <1>4, <1>5
  <2>4. /\ UNCHANGED <<run, process, options, diskVars, visited, npmDir, jobVars>>
        /\ npmDir' \in [Packages -> {"none", "empty", "tarball"}]
        /\ \A p \in Packages : p # c.pkg => npmDir'[p] = npmDir[p]
        /\ npmDir'[c.pkg] = "none"
    BY <1>1, <1>3, <1>5, <1>6, <1>8 DEF otherVars
  <2> QED BY <1>1, <1>5, <1>8, <2>1, <2>2, <2>3, <2>4, QuietStepInv
<1>9. CASE /\ d \notin visited /\ stack' = Append(Front(stack) \o <<c>>, CallOf(d))
           /\ visited' = visited \cup {d} /\ UNCHANGED process
  <2>1. CallOf(d) \in Calls
    BY <1>4 DEF CallOf, Calls
  <2>2. PICK n \in Nat : n = Len(stack)
    BY <1>3, LenProperties
  <2> HIDE DEF d
  <2>3. /\ stack' \in Seq(Calls) /\ Len(stack') = n + 1 /\ DOMAIN stack' = 1 .. n + 1
        /\ stack'[n + 1] = CallOf(d) /\ stack'[n] = c
        /\ \A i \in 1 .. n - 1 : stack'[i] = stack[i]
    <3> DEFINE t == Append(Front(stack) \o <<c>>, CallOf(d))
    <3>1. /\ t \in Seq(Calls) /\ Len(t) = Len(stack) + 1 /\ DOMAIN t = 1 .. Len(stack) + 1
          /\ t[Len(stack) + 1] = CallOf(d) /\ t[Len(stack)] = c
          /\ \A i \in 1 .. Len(stack) - 1 : t[i] = stack[i]
      <4>1. stack \in Seq(Calls) /\ stack # << >> /\ c \in Calls /\ CallOf(d) \in Calls
        BY <1>3, <1>5, <2>1
      <4> QED BY <4>1, PushedStack
    <3> QED BY <1>9, <2>2, <3>1
  <2>4. UNCHANGED <<otherVars, process, npmDir, jobVars>> /\ visited' = visited \cup {d}
    BY <1>1, <1>9
  <2>5. d = Dependencies[Call.pkg][Call.next]
    BY DEF d
  <2>6. /\ c \in Calls /\ d \in Packages /\ d \notin visited
        /\ c.pkg = Call.pkg /\ c.at = "deps" /\ Call.at = "deps" /\ c.next = Call.next + 1 /\ ~ c.error
        /\ Call.next <= Len(Dependencies[Call.pkg])
    BY <1>1, <1>4, <1>5, <1>9
  <2> QED BY <1>1, <2>2, <2>3, <2>4, <2>5, <2>6, PushInv
<1>10. d \in visited => visited \cup {d} = visited
  OBVIOUS
<1> QED BY <1>2, <1>7, <1>8, <1>9, <1>10

(* The targets start once the package's dependencies are built. *)
LEMMA StartTargetsInv ==
  ASSUME Inv, StartTargets
  PROVE  Inv'
<1> DEFINE q == Call.pkg
           c == [Call EXCEPT !.at = "targets"]
<1>1. /\ Running /\ Call.at = "load"
      /\ UNCHANGED <<otherVars, visited, npmDir, codeDir, unwritten>>
  BY DEF StartTargets, Waits, Running
<1>2. UNCHANGED <<run, options, diskVars, version, out, visited, npmDir, codeDir, unwritten>>
  BY <1>1 DEF otherVars, diskVars
<1>3. /\ stack # << >> /\ Call \in Calls /\ q \in Packages /\ CallInv(Call) /\ TargetsInv(Call)
      /\ Call.next \in 1 .. Len(Dependencies[q]) + 1
      /\ npmDir[q] = "tarball"
  BY <1>1, CallFacts
<1>4. /\ ~ Working(q) /\ q \in Jsii /\ q \in visited
      /\ options.recurse => Call.next = Len(Dependencies[q]) + 1
      /\ \A k \in 1 .. Call.next - 1 : Dependencies[q][k] \in visited
  BY <1>1, <1>3 DEF TargetsInv, CallInv
<1>5. CASE Throw /\ UNCHANGED target
  BY <1>1, <1>2, <1>4, <1>5, ThrowInv DEF jobVars
<1>6. CASE /\ GoTo("targets")
           /\ target' = [j \in Jobs |-> IF j \notin JobsOf(q) THEN target[j]
                                        ELSE IF options.codeOnly THEN "check" ELSE "mkdtemp"]
  <2>1. c \in Calls /\ c.pkg = q /\ c.at = "targets" /\ c.next = Call.next /\ c.error = Call.error
    BY <1>3, CallGoesTo
  <2>2. stack' = Front(stack) \o <<c>> /\ UNCHANGED process
    BY <1>6 DEF GoTo
  <2> HIDE DEF c
  <2>3. CallInv(c)
    BY <1>1, <1>3, <1>4, <2>1 DEF CallInv
  <2>4. c.next \in 1 .. Len(Dependencies[c.pkg]) + 1 /\ UNCHANGED <<process, options, visited>>
    BY <1>2, <1>3, <2>1, <2>2
  <2>5. /\ StackInv' /\ stack' \in Seq(Calls) /\ Call' = c
        /\ \A i \in DOMAIN stack' : stack'[i].next \in 1 .. Len(Dependencies[stack'[i].pkg]) + 1
        /\ \A i \in DOMAIN stack' :
              /\ i \in DOMAIN stack /\ stack'[i].pkg = stack[i].pkg
              /\ stack'[i] = c \/ (stack'[i] = stack[i] /\ stack[i].pkg # c.pkg)
        /\ \A p \in Packages : OnStack(p)' <=> OnStack(p)
    BY <1>1, <2>1, <2>2, <2>3, <2>4, StepOfCall
  <2>6. \A j \in Jobs : target[j] = target'[j] \/
          (j \in JobsOf(q) /\ target'[j] = IF options.codeOnly THEN "check" ELSE "mkdtemp")
    BY <1>6
  <2>7. \A j \in JobsOf(q) : target[j] = "idle"
    BY <1>4 DEF Working
  <2>8. ASSUME NEW p \in Packages, p # q
        PROVE  (Working(p)' <=> Working(p)) /\ (Done(p)' <=> Done(p)) /\ (Failed(p)' <=> Failed(p))
    <3>1. \A j \in JobsOf(p) : target'[j] = target[j]
      BY <1>3, <2>6, <2>8, JobFacts
    <3> QED BY <3>1 DEF Working, Done, Failed
  <2>9. ASSUME NEW p \in Packages, Done(p) PROVE Done(p)'
    <3>1. CASE p = q
      BY <2>7, <2>9, <3>1 DEF Done
    <3> QED BY <2>8, <2>9, <3>1
  <2>10. TypeOK'
    <3>1. target' \in [Jobs -> Phases]
      BY <1>6 DEF Inv, TypeOK, Phases
    <3> QED BY <1>2, <2>2, <2>5, <3>1 DEF Inv, TypeOK
  <2>11. JobsInv'
    <3>1. \A p \in Packages : Working(p)' => p \in visited' \cap Jsii
      BY <1>2, <1>4, <2>8 DEF Inv, JobsInv
    <3>2. ASSUME NEW i \in DOMAIN stack' PROVE TargetsInv(stack[i])'
      <4>1. CASE stack'[i] = c
        BY <2>1, <4>1 DEF TargetsInv
      <4>2. CASE stack'[i] = stack[i] /\ stack[i].pkg # q
        <5>1. TargetsInv(stack[i]) /\ stack[i].pkg \in Packages
          BY <1>1, <1>3, <2>5, TopCall DEF Inv, JobsInv
        <5>2. stack'[i].pkg \in Packages /\ stack'[i].pkg # q
          BY <4>2, <5>1
        <5>3. /\ Working(stack[i].pkg)' <=> Working(stack[i].pkg)
              /\ Done(stack[i].pkg)' <=> Done(stack[i].pkg)
              /\ Failed(stack[i].pkg)' <=> Failed(stack[i].pkg)
          BY <2>8, <4>2, <5>1, <5>2
        <5> QED BY <4>2, <5>1, <5>3 DEF TargetsInv
      <4> QED BY <2>1, <2>5, <4>1, <4>2
    <3>3. \A p \in visited' \cap Jsii : Done(p)' \/ OnStack(p)'
      <4>1. \A p \in visited \cap Jsii : p \in Packages /\ (Done(p) \/ OnStack(p))
        BY <1>1 DEF Inv, JobsInv, TypeOK
      <4> QED BY <1>2, <2>5, <2>9, <4>1
    <3>4. process' # "done"
      BY <1>1, <2>2 DEF Running
    <3> QED BY <3>1, <3>2, <3>3, <3>4 DEF JobsInv
  <2>12. NpmDirInv'
    <3>1. Running'
      BY <1>1, <2>2 DEF Running
    <3>2. \A p \in Packages : npmDir[p] # "none" => p = q
      BY <1>1 DEF Inv, NpmDirInv, Running
    <3>3. ASSUME NEW p \in Packages, Working(p)'
          PROVE  npmDir[p] = "tarball" \/ Done(p)' \/ Failed(p)'
      <4>1. CASE p # q
        BY <2>8, <3>3, <4>1 DEF Inv, NpmDirInv
      <4> QED BY <1>3, <4>1
    <3> QED BY <1>2, <1>3, <2>1, <2>5, <3>1, <3>2, <3>3 DEF NpmDirInv
  <2>13. OutInv'
    <3> SUFFICES ASSUME NEW j \in Jobs PROVE JobOut(j)'
      BY DEF OutInv
    <3> QED BY <1>2, <2>6 DEF Inv, OutInv, JobOut
  <2>14. CodeDirInv'
    <3> SUFFICES ASSUME NEW j \in Jobs PROVE JobDir(j)'
      BY DEF CodeDirInv
    <3>1. JobDir(j)
      BY DEF Inv, CodeDirInv
    <3>2. CASE target'[j] = target[j]
      BY <1>2, <2>2, <3>1, <3>2 DEF JobDir
    <3>3. CASE j \in JobsOf(q) /\ target'[j] = IF options.codeOnly THEN "check" ELSE "mkdtemp"
      <4>1. j \notin codeDir
        BY <1>1, <2>7, <3>1, <3>3 DEF JobDir, Running
      <4> QED BY <1>2, <3>3, <4>1 DEF JobDir
    <3> QED BY <2>6, <3>2, <3>3
  <2>15. DependenciesFirst'
    <3> SUFFICES ASSUME options.recurse, NEW p \in Packages, Working(p)',
                        NEW i \in DOMAIN Dependencies[p], Dependencies[p][i] \in Jsii
                 PROVE  Done(Dependencies[p][i])
      <4>1. \A p \in Packages : \A i \in DOMAIN Dependencies[p] : Dependencies[p][i] \in Packages
        BY DependencyFacts
      <4> QED BY <1>2, <2>9, <4>1 DEF DependenciesFirst
    <3>1. CASE p # q
      BY <2>8, <3>1 DEF Inv, DependenciesFirst
    <3>2. CASE p = q
      <4>1. i \in 1 .. Call.next - 1
        BY <1>3, <1>4, <3>2, DependencyFacts
      <4>2. Dependencies[q][i] \in visited \cap Jsii
        BY <1>4, <3>2, <4>1
      <4>3. ~ OnStack(Dependencies[q][i])
        BY <1>1, <3>2, NoCircle DEF OnStack
      <4> QED BY <1>1, <3>2, <4>2, <4>3 DEF Inv, JobsInv
    <3> QED BY <3>1, <3>2
  <2> QED BY <2>5, <2>10, <2>11, <2>12, <2>13, <2>14, <2>15 DEF Inv
<1> QED BY <1>5, <1>6 DEF StartTargets

-----------------------------------------------------------------------------
(* The steps of the targets. *)

(* A step of target j from a phase in which it works to phase x, which     *)
(* leaves the other targets alone.                                         *)
LEMMA TargetStepInv ==
  ASSUME Inv, Running, NEW j \in Jobs, target[j] \notin {"idle", "done", "failed"},
         NEW x \in Phases \ {"idle"}, target' = [target EXCEPT ![j] = x],
         UNCHANGED restOfRun,
         out' \in [Jobs -> [Files -> 0 .. MaxVersion]],
         codeDir' \subseteq Jobs,
         unwritten' \in [Jobs -> SUBSET Files],
         \A k \in Jobs : k # j =>
           /\ out'[k] = out[k] /\ unwritten'[k] = unwritten[k]
           /\ k \in codeDir' <=> k \in codeDir,
         JobOut(j)', JobDir(j)'
  PROVE  Inv'
<1>1. UNCHANGED <<run, process, options, version, visited, stack, npmDir>>
  BY DEF restOfRun
<1>2. /\ target \in [Jobs -> Phases] /\ target'[j] = x
      /\ \A k \in Jobs : k # j => target'[k] = target[k]
  BY DEF Inv, TypeOK
<1>3. TypeOK'
  BY <1>1, <1>2 DEF Inv, TypeOK
<1>4. ASSUME NEW p \in Packages
      PROVE  /\ Working(p)' => Working(p)
             /\ Done(p) => Done(p)'
             /\ Failed(p) => Failed(p)'
  <2>1. \A k \in JobsOf(p) : k \in Jobs /\ (k = j \/ target'[k] = target[k])
    BY <1>2, JobFacts
  <2>2. Working(p)' => Working(p)
    BY <2>1 DEF Working
  <2>3. Done(p) => Done(p)'
    BY <2>1 DEF Done
  <2>4. Failed(p) => Failed(p)'
    BY <2>1 DEF Failed
  <2> QED BY <2>2, <2>3, <2>4
<1>5. StackInv'
  BY <1>1 DEF Inv, StackInv, CallInv, Running
<1>6. JobsInv'
  <2>1. \A p \in Packages : Working(p)' => p \in visited' \cap Jsii
    BY <1>1, <1>4 DEF Inv, JobsInv
  <2>2. ASSUME NEW i \in DOMAIN stack' PROVE TargetsInv(stack[i])'
    <3>1. i \in DOMAIN stack /\ stack' = stack
      BY <1>1
    <3>2. stack[i].pkg \in Packages /\ TargetsInv(stack[i])
      BY <3>1, TopCall DEF Inv, JobsInv, StackInv
    <3>3. /\ Working(stack[i].pkg)' => Working(stack[i].pkg)
          /\ Done(stack[i].pkg) => Done(stack[i].pkg)'
          /\ Failed(stack[i].pkg) => Failed(stack[i].pkg)'
      BY <1>4, <3>1, <3>2
    <3> QED BY <3>1, <3>2, <3>3 DEF TargetsInv
  <2>3. \A p \in visited' \cap Jsii : Done(p)' \/ OnStack(p)'
    <3>1. \A p \in visited \cap Jsii : p \in Packages /\ (Done(p) \/ OnStack(p))
      BY DEF Inv, JobsInv, TypeOK
    <3>2. \A p \in Packages : OnStack(p)' <=> OnStack(p)
      BY <1>1 DEF OnStack
    <3> QED BY <1>1, <1>4, <3>1, <3>2
  <2>4. process' # "done"
    BY <1>1 DEF Running
  <2> QED BY <2>1, <2>2, <2>3, <2>4 DEF JobsInv
<1>7. NpmDirInv'
  <2>1. Call' = Call /\ (Running' <=> Running)
    BY <1>1 DEF Call, Running
  <2> QED BY <1>1, <1>4, <2>1 DEF Inv, NpmDirInv
<1>8. ASSUME NEW k \in Jobs PROVE JobOut(k)' /\ JobDir(k)'
  <2>1. CASE k # j
    BY <1>1, <1>2, <2>1 DEF Inv, OutInv, JobOut, CodeDirInv, JobDir
  <2> QED BY <2>1
<1>9. DependenciesFirst'
  <2>1. \A p \in Packages : \A i \in DOMAIN Dependencies[p] : Dependencies[p][i] \in Packages
    BY DependencyFacts
  <2> QED BY <1>1, <1>4, <2>1 DEF Inv, DependenciesFirst
<1> QED BY <1>3, <1>5, <1>6, <1>7, <1>8, <1>9 DEF Inv, OutInv, CodeDirInv

LEMMA JobTypes ==
  ASSUME Inv, NEW j \in Jobs
  PROVE  /\ out \in [Jobs -> [Files -> 0 .. MaxVersion]] /\ codeDir \subseteq Jobs
         /\ unwritten \in [Jobs -> SUBSET Files] /\ target \in [Jobs -> Phases]
         /\ version[j[1]] \in 0 .. MaxVersion
         /\ JobOut(j) /\ JobDir(j)
<1>1. version[j[1]] \in 1 .. MaxVersion
  BY JobFacts DEF Inv, TypeOK
<1>2. version[j[1]] \in 0 .. MaxVersion
  BY <1>1, BoundsAssumption
<1> QED BY <1>2 DEF Inv, TypeOK, OutInv, CodeDirInv

LEMMA FailJobInv ==
  ASSUME Inv, Running, NEW j \in Jobs, target[j] \notin {"idle", "done", "failed"},
         FailJob(j), UNCHANGED restOfRun
  PROVE  Inv'
<1>1. target' = [target EXCEPT ![j] = "failed"] /\ UNCHANGED <<out, codeDir, unwritten>>
  BY DEF FailJob, Become
<1>2. JobDir(j) /\ UNCHANGED <<process, options>>
  BY JobTypes DEF restOfRun
<1>3. target'[j] = "failed"
  BY <1>1, JobTypes
<1>4. target[j] \in {"mkdtemp", "check", "copy", "save", "build", "clean"}
  BY JobTypes DEF Phases
<1>5. JobOut(j)' /\ JobDir(j)'
  BY <1>1, <1>2, <1>3, <1>4 DEF JobOut, JobDir
<1>6. /\ "failed" \in Phases \ {"idle"}
      /\ out' \in [Jobs -> [Files -> 0 .. MaxVersion]] /\ codeDir' \subseteq Jobs
      /\ unwritten' \in [Jobs -> SUBSET Files]
      /\ \A k \in Jobs : k # j =>
           /\ out'[k] = out[k] /\ unwritten'[k] = unwritten[k]
           /\ k \in codeDir' <=> k \in codeDir
  BY <1>1, JobTypes DEF Phases
<1> QED BY <1>1, <1>5, <1>6, TargetStepInv

(* The phase of a target changes, and only that. *)
LEMMA BecomeInv ==
  ASSUME Inv, Running, NEW j \in Jobs, target[j] \notin {"idle", "done", "failed"},
         NEW x \in Phases \ {"idle"}, Become(j, x), UNCHANGED <<restOfRun, out, codeDir, unwritten>>,
         (target' = [target EXCEPT ![j] = x] /\ target'[j] = x) => JobOut(j)' /\ JobDir(j)'
  PROVE  Inv'
<1>1. target' = [target EXCEPT ![j] = x] /\ UNCHANGED restOfRun /\ UNCHANGED <<out, codeDir, unwritten>>
  BY DEF Become
<1>2. target'[j] = x
  BY <1>1, JobTypes
<1>3. /\ out' \in [Jobs -> [Files -> 0 .. MaxVersion]] /\ codeDir' \subseteq Jobs
      /\ unwritten' \in [Jobs -> SUBSET Files]
      /\ \A k \in Jobs : k # j =>
           /\ out'[k] = out[k] /\ unwritten'[k] = unwritten[k]
           /\ k \in codeDir' <=> k \in codeDir
  BY <1>1, JobTypes
<1> QED BY <1>1, <1>2, <1>3, TargetStepInv

LEMMA MakeCodeDirInv ==
  ASSUME Inv, NEW j \in Jobs, MakeCodeDir(j)
  PROVE  Inv'
<1>1. Running /\ target[j] = "mkdtemp" /\ UNCHANGED restOfRun
  BY DEF MakeCodeDir, At, Running
<1>2. CASE Become(j, "check") /\ codeDir' = codeDir \cup {j} /\ UNCHANGED <<out, unwritten>>
  <2>1. target' = [target EXCEPT ![j] = "check"] /\ target'[j] = "check"
    BY <1>2, JobTypes DEF Become
  <2>2. ~ options.codeOnly /\ UNCHANGED options
    BY <1>1, JobTypes DEF JobDir, restOfRun
  <2>3. JobOut(j)' /\ JobDir(j)'
    BY <2>1, <2>2 DEF JobOut, JobDir
  <2>4. /\ "check" \in Phases \ {"idle"}
        /\ out' \in [Jobs -> [Files -> 0 .. MaxVersion]] /\ codeDir' \subseteq Jobs
        /\ unwritten' \in [Jobs -> SUBSET Files]
        /\ \A k \in Jobs : k # j =>
             /\ out'[k] = out[k] /\ unwritten'[k] = unwritten[k]
             /\ k \in codeDir' <=> k \in codeDir
    BY <1>2, JobTypes DEF Phases
  <2> QED BY <1>1, <2>1, <2>3, <2>4, TargetStepInv
<1>3. CASE FailJob(j)
  BY <1>1, <1>3, FailJobInv
<1> QED BY <1>2, <1>3 DEF MakeCodeDir

LEMMA GenerateInv ==
  ASSUME Inv, NEW j \in Jobs, Generate(j)
  PROVE  Inv'
<1> DEFINE x == IF ~ options.force /\ UpToDate(j) THEN "done" ELSE "copy"
<1>1. Running /\ target[j] = "check" /\ UNCHANGED restOfRun
  BY DEF Generate, At, Running
<1>2. CASE /\ Become(j, x) /\ unwritten' = [unwritten EXCEPT ![j] = Files]
           /\ UNCHANGED <<out, codeDir>>
  <2>1. x \in Phases \ {"idle"} /\ x \in {"done", "copy"}
    BY DEF Phases
  <2>2. (x = "done" => ~ options.force /\ UpToDate(j))
    OBVIOUS
  <2>3. target' = [target EXCEPT ![j] = x] /\ UNCHANGED <<process, options, version>>
    BY <1>1, <1>2 DEF Become, restOfRun
  <2> HIDE DEF x
  <2>4. target'[j] = x /\ unwritten'[j] = Files
    BY <1>2, <2>3, JobTypes
  <2>5. JobOut(j)'
    <3>1. CASE x = "done"
      BY <1>2, <2>2, <2>3, <2>4, <3>1 DEF JobOut, UpToDate
    <3>2. CASE x = "copy"
      BY <1>2, <2>3, <2>4, <3>2 DEF JobOut
    <3> QED BY <2>1, <3>1, <3>2
  <2>6. JobDir(j)'
    <3>1. JobDir(j)
      BY JobTypes
    <3>2. x = "done" => options.codeOnly
      BY <2>2 DEF UpToDate
    <3> QED BY <1>1, <1>2, <2>1, <2>3, <2>4, <3>1, <3>2 DEF JobDir
  <2>7. /\ out' \in [Jobs -> [Files -> 0 .. MaxVersion]] /\ codeDir' \subseteq Jobs
        /\ unwritten' \in [Jobs -> SUBSET Files]
        /\ \A k \in Jobs : k # j =>
             /\ out'[k] = out[k] /\ unwritten'[k] = unwritten[k]
             /\ k \in codeDir' <=> k \in codeDir
    BY <1>2, JobTypes
  <2> QED BY <1>1, <2>1, <2>3, <2>5, <2>6, <2>7, TargetStepInv
<1>3. CASE FailJob(j)
  BY <1>1, <1>3, FailJobInv
<1> QED BY <1>2, <1>3 DEF Generate

LEMMA CopyTarballInv ==
  ASSUME Inv, NEW j \in Jobs, CopyTarball(j)
  PROVE  Inv'
<1>1. Running /\ target[j] = "copy" /\ UNCHANGED restOfRun
  BY DEF CopyTarball, At, Running
<1>2. CASE Become(j, "save") /\ UNCHANGED <<out, codeDir, unwritten>>
  <2>1. JobOut(j) /\ JobDir(j) /\ "save" \in Phases \ {"idle"}
    BY JobTypes DEF Phases
  <2>2. target'[j] = "save" => JobOut(j)' /\ JobDir(j)'
    BY <1>1, <1>2, <2>1 DEF JobOut, JobDir, restOfRun
  <2> QED BY <1>1, <1>2, <2>1, <2>2, BecomeInv
<1>3. CASE FailJob(j)
  BY <1>1, <1>3, FailJobInv
<1> QED BY <1>2, <1>3 DEF CopyTarball

LEMMA WriteFileInv ==
  ASSUME Inv, NEW j \in Jobs, NEW f \in Files, WriteFile(j, f)
  PROVE  Inv'
<1>1. Running /\ target[j] \in {"save", "build"} /\ UNCHANGED restOfRun
  BY DEF WriteFile, Writes, At, Running
<1>2. CASE /\ out' = [out EXCEPT ![j][f] = version[j[1]]]
           /\ unwritten' = [unwritten EXCEPT ![j] = @ \ {f}]
           /\ UNCHANGED <<codeDir, target>>
  <2>1. /\ target' = [target EXCEPT ![j] = target[j]] /\ target[j] \in Phases \ {"idle"}
        /\ UNCHANGED <<process, options, version>>
    BY <1>1, <1>2, JobTypes DEF restOfRun, Phases
  <2>2. /\ out'[j][f] = version[j[1]] /\ \A g \in Files : g # f => out'[j][g] = out[j][g]
        /\ unwritten'[j] = unwritten[j] \ {f} /\ target'[j] = target[j]
    BY <1>2, JobTypes
  <2>3. JobOut(j)'
    <3>1. \A g \in Files \ unwritten[j] : out[j][g] = version[j[1]]
      BY <1>1, JobTypes DEF JobOut
    <3>2. \A g \in Files \ unwritten'[j] : out'[j][g] = version'[j[1]]
      BY <2>1, <2>2, <3>1
    <3> QED BY <1>1, <2>2, <3>2 DEF JobOut
  <2>4. JobDir(j)'
    <3>1. JobDir(j)
      BY JobTypes
    <3> QED BY <1>2, <2>1, <3>1 DEF JobDir
  <2>5. /\ out' \in [Jobs -> [Files -> 0 .. MaxVersion]] /\ codeDir' \subseteq Jobs
        /\ unwritten' \in [Jobs -> SUBSET Files]
        /\ \A k \in Jobs : k # j =>
             /\ out'[k] = out[k] /\ unwritten'[k] = unwritten[k]
             /\ k \in codeDir' <=> k \in codeDir
    BY <1>2, JobTypes
  <2> QED BY <1>1, <2>1, <2>3, <2>4, <2>5, TargetStepInv
<1>3. CASE FailJob(j)
  BY <1>1, <1>3, FailJobInv
<1> QED BY <1>2, <1>3 DEF WriteFile

LEMMA SaveCodeInv ==
  ASSUME Inv, NEW j \in Jobs, SaveCode(j)
  PROVE  Inv'
<1>1. Running /\ target[j] = "save" /\ ~ options.codeOnly /\ UNCHANGED restOfRun
  BY DEF SaveCode, At, Running
<1>2. CASE Become(j, "build") /\ UNCHANGED <<out, codeDir, unwritten>>
  <2>1. JobOut(j) /\ JobDir(j) /\ "build" \in Phases \ {"idle"}
    BY JobTypes DEF Phases
  <2>2. target'[j] = "build" => JobOut(j)' /\ JobDir(j)'
    BY <1>1, <1>2, <2>1 DEF JobOut, JobDir, restOfRun
  <2> QED BY <1>1, <1>2, <2>1, <2>2, BecomeInv
<1>3. CASE FailJob(j)
  BY <1>1, <1>3, FailJobInv
<1> QED BY <1>2, <1>3 DEF SaveCode

LEMMA FinishWritingInv ==
  ASSUME Inv, NEW j \in Jobs, FinishWriting(j)
  PROVE  Inv'
<1> DEFINE x == IF options.codeOnly \/ ~ options.clean THEN "done" ELSE "clean"
<1>1. /\ Running /\ target[j] \in {"save", "build"} /\ unwritten[j] = {} /\ UNCHANGED restOfRun
      /\ Become(j, x) /\ UNCHANGED <<out, codeDir, unwritten>>
  BY DEF FinishWriting, Writes, At, Running
<1>2. x \in Phases \ {"idle"} /\ x \in {"done", "clean"}
  BY DEF Phases
<1>3. /\ x = "clean" => ~ options.codeOnly
      /\ x = "done" => options.codeOnly \/ ~ options.clean
  OBVIOUS
<1> HIDE DEF x
<1>4. JobOut(j) /\ JobDir(j)
  BY JobTypes
<1>5. ASSUME target'[j] = x PROVE JobOut(j)' /\ JobDir(j)'
  <2>1. \A f \in Files : out[j][f] = version[j[1]]
    BY <1>1, <1>4 DEF JobOut
  <2>2. "main" \in Files /\ "rest" \in Files /\ UNCHANGED <<process, options, version>>
    BY <1>1 DEF Files, restOfRun
  <2>3. JobOut(j)'
    BY <1>1, <1>2, <1>5, <2>1, <2>2 DEF JobOut
  <2>4. JobDir(j)'
    BY <1>1, <1>2, <1>3, <1>4, <1>5, <2>2 DEF JobDir, Running
  <2> QED BY <2>3, <2>4
<1> QED BY <1>1, <1>2, <1>5, BecomeInv

LEMMA RemoveCodeDirInv ==
  ASSUME Inv, NEW j \in Jobs, RemoveCodeDir(j)
  PROVE  Inv'
<1>1. Running /\ target[j] = "clean" /\ UNCHANGED restOfRun
  BY DEF RemoveCodeDir, At, Running
<1>2. CASE Become(j, "done") /\ codeDir' = codeDir \ {j} /\ UNCHANGED <<out, unwritten>>
  <2>1. target' = [target EXCEPT ![j] = "done"] /\ target'[j] = "done"
    BY <1>2, JobTypes DEF Become
  <2>2. JobOut(j) /\ "main" \in Files /\ "rest" \in Files /\ UNCHANGED <<options, version>>
    BY <1>1, JobTypes DEF restOfRun, Files
  <2>3. JobOut(j)' /\ JobDir(j)'
    BY <1>1, <1>2, <2>1, <2>2 DEF JobOut, JobDir
  <2>4. /\ "done" \in Phases \ {"idle"}
        /\ out' \in [Jobs -> [Files -> 0 .. MaxVersion]] /\ codeDir' \subseteq Jobs
        /\ unwritten' \in [Jobs -> SUBSET Files]
        /\ \A k \in Jobs : k # j =>
             /\ out'[k] = out[k] /\ unwritten'[k] = unwritten[k]
             /\ k \in codeDir' <=> k \in codeDir
    BY <1>2, JobTypes DEF Phases
  <2> QED BY <1>1, <2>1, <2>3, <2>4, TargetStepInv
<1>3. CASE FailJob(j)
  BY <1>1, <1>3, FailJobInv
<1> QED BY <1>2, <1>3 DEF RemoveCodeDir

-----------------------------------------------------------------------------
(* The invariant, of all programs. *)

LEMMA NextInv ==
  ASSUME Inv, [Next]_vars
  PROVE  Inv'
<1>1. CASE Start
  BY <1>1, StartInv
<1>2. CASE Kill
  BY <1>2, KillInv
<1>3. CASE PackageStep
  BY <1>3, ReadPackageInv, VisitDependencyInv, PrepareInv, PackInv, StartTargetsInv,
     AwaitTargetsInv, RemoveNpmDirInv DEF PackageStep
<1>4. ASSUME NEW j \in Jobs, TargetStep(j)
      PROVE  Inv'
  BY <1>4, MakeCodeDirInv, GenerateInv, CopyTarballInv, WriteFileInv, SaveCodeInv,
     FinishWritingInv, RemoveCodeDirInv DEF TargetStep
<1>5. CASE UNCHANGED vars
  <2>1. UNCHANGED <<run, process, options, version, out, visited, stack, npmDir, codeDir, target, unwritten>>
    BY <1>5 DEF vars, diskVars, jobVars
  <2>2. (\A p : (Working(p)' <=> Working(p)) /\ (Done(p)' <=> Done(p)) /\ (Failed(p)' <=> Failed(p)))
    BY <2>1, SameTargets
  <2>3. TypeOK' /\ StackInv' /\ DependenciesFirst'
    BY <2>1, <2>2 DEF Inv, TypeOK, StackInv, CallInv, Running, DependenciesFirst
  <2>4. JobsInv'
    BY <2>1 DEF Inv, JobsInv, TargetsInv, OnStack, Running, Working, Done, Failed
  <2>5. NpmDirInv'
    BY <2>1, <2>2 DEF Inv, NpmDirInv, Running, Call
  <2>6. OutInv' /\ CodeDirInv'
    BY <2>1 DEF Inv, OutInv, JobOut, CodeDirInv, JobDir
  <2> QED BY <2>3, <2>4, <2>5, <2>6 DEF Inv
<1> QED BY <1>1, <1>2, <1>3, <1>4, <1>5 DEF Next

LEMMA Invariance == Spec => []Inv
<1>1. Init => Inv
  BY InitInv
<1>2. Inv /\ [Next]_vars => Inv'
  BY NextInv
<1> QED BY <1>1, <1>2, PTL DEF Spec

(* With the recurse option, and dependencies without a circle, the targets *)
(* of a package are started only after all targets of its jsii             *)
(* dependencies are done, whatever was visited before and by whom.         *)
THEOREM DependenciesAreBuiltFirst == Spec => []DependenciesFirst
<1>1. Inv => DependenciesFirst
  BY DEF Inv
<1> QED BY <1>1, Invariance, PTL

(* A run that ends with success has built every jsii package it visited,   *)
(* from its present source where code is not taken for up to date by the   *)
(* file with the fingerprint, and no target ever misses the tarball before *)
(* another one of its package failed.                                      *)
THEOREM SuccessMeansComplete == Spec => []SuccessIsComplete
<1>1. Inv => SuccessIsComplete
  <2> SUFFICES ASSUME Inv PROVE SuccessIsComplete
    OBVIOUS
  <2>1. ASSUME process = "done", NEW p \in visited \cap Jsii, NEW j \in JobsOf(p)
        PROVE  /\ Done(p)
               /\ out[j]["main"] = version[p]
               /\ j[2] \notin Fingerprinted \/ options.force \/ ~ options.codeOnly
                    => out[j]["rest"] = version[p]
    <3>1. Done(p) /\ target[j] = "done"
      BY <2>1 DEF Inv, JobsInv, Done
    <3>2. j \in Jobs /\ j[1] = p
      BY PackagesAssumption, JobFacts
    <3>3. JobOut(j)
      BY <3>2 DEF Inv, OutInv
    <3> QED BY <3>1, <3>2, <3>3 DEF JobOut
  <2>2. ASSUME process = "done", NEW p \in visited \cap Jsii PROVE Done(p)
    BY <2>2 DEF Inv, JobsInv
  <2>3. ASSUME NEW j \in Jobs, target[j] = "copy", npmDir[j[1]] # "tarball"
        PROVE  \E k \in JobsOf(j[1]) : target[k] = "failed"
    <3>1. j[1] \in Packages /\ Working(j[1]) /\ ~ Done(j[1])
      BY <2>3, JobFacts DEF Working, Done
    <3> QED BY <2>3, <3>1 DEF Inv, NpmDirInv, Failed
  <2> QED BY <2>1, <2>2, <2>3 DEF SuccessIsComplete
<1> QED BY <1>1, Invariance, PTL

(* With the clean option, a run that exits by itself leaves no tarball     *)
(* behind, whatever failed, and a successful one no directory of code.     *)
THEOREM DirectoriesAreRemoved == Spec => []TempDirsAreRemoved
<1>1. Inv => TempDirsAreRemoved
  <2> SUFFICES ASSUME Inv PROVE TempDirsAreRemoved
    OBVIOUS
  <2>1. process \in {"done", "failed"} => \A p \in Packages : npmDir[p] = "none"
    BY DEF Inv, NpmDirInv, Running
  <2>2. ASSUME process = "done", options.clean, NEW j \in codeDir PROVE FALSE
    <3>1. j \in Jobs /\ JobDir(j)
      BY DEF Inv, TypeOK, CodeDirInv
    <3>2. target[j] # "done" /\ target[j] # "idle"
      BY <2>2, <3>1 DEF JobDir
    <3>3. j[1] \in Packages /\ j \in JobsOf(j[1]) /\ Working(j[1]) /\ ~ Done(j[1])
      BY <3>1, <3>2, JobFacts DEF Working, Done
    <3> QED BY <2>2, <3>3 DEF Inv, JobsInv
  <2> QED BY <2>1, <2>2 DEF TempDirsAreRemoved
<1> QED BY <1>1, Invariance, PTL
=============================================================================
