------------------------ MODULE ModuleLoading_proofs ------------------------
(***************************************************************************)
(* Proofs about the loading of modules, for any modules, dependencies and  *)
(* faults, and any number of loads under way.                              *)
(***************************************************************************)
EXTENDS ModuleLoading, SequenceLemmas

Active(s) == loads[s] # NoLoad

(* What a load knows of its module: what it took for success is there, and *)
(* the one that runs a module's code is the one that installed it.         *)
LoadsInv ==
  /\ assemblies \subseteq installed
  /\ \A s \in Slots : Active(s) /\ loads[s].ok => loads[s].mod \in assemblies
  /\ \A s \in Slots : At(s, "run") => loads[s].mod \in installed
  /\ CodeRunsOnce

(* The client waits for one load at a time, that of its innermost call. *)
AwaitedInv ==
  /\ \A s \in Slots : Active(s) /\ loads[s].awaited =>
       walk # << >> /\ Top.sent /\ Top.mod = loads[s].mod
  /\ \A s, t \in Slots :
       Active(s) /\ Active(t) /\ loads[s].awaited /\ loads[t].awaited => s = t

(* What a call of loadModule has looked at is loaded, or being loaded by   *)
(* the call above it.                                                      *)
Visited(i, d) ==
  \/ d \in walk[i].todo
  \/ d \in loaded
  \/ i + 1 \in DOMAIN walk /\ walk[i + 1].mod = d
WalkInv ==
  lang # "dotnet" =>
    /\ \A i \in DOMAIN walk : \A d \in Deps[walk[i].mod] : Visited(i, d)
    /\ \A s \in Slots : Active(s) => Deps[loads[s].mod] \subseteq loaded

Inv ==
  /\ TypeOK
  /\ LoadsInv
  /\ AwaitedInv
  /\ WalkInv
  /\ LoadedIsInKernel

-----------------------------------------------------------------------------
LEMMA InitInv == Init => Inv
<1> SUFFICES ASSUME Init PROVE Inv
  OBVIOUS
<1>1. walk = << >> /\ walk \in Seq(Calls) /\ DOMAIN walk = {}
  BY EmptySeq, LenProperties DEF Init
<1>2. \A s \in Slots : ~ Active(s) /\ loads[s] = NoLoad
  BY DEF Init, Active
<1>3. TypeOK
  BY <1>1 DEF Init, TypeOK
<1>4. LoadsInv /\ AwaitedInv
  BY <1>2 DEF Init, LoadsInv, AwaitedInv, CodeRunsOnce, At, Active
<1>5. WalkInv /\ LoadedIsInKernel
  BY <1>1, <1>2 DEF Init, WalkInv, LoadedIsInKernel
<1> QED BY <1>3, <1>4, <1>5 DEF Inv

(* What is on top of the stack of calls, and below it. *)
LEMMA TopCall ==
  ASSUME TypeOK, walk # << >>
  PROVE  /\ Len(walk) \in Nat \ {0}
         /\ DOMAIN walk = 1 .. Len(walk)
         /\ Top = walk[Len(walk)]
         /\ Top \in Calls
         /\ Front(walk) \in Seq(Calls)
         /\ Len(Front(walk)) = Len(walk) - 1
         /\ DOMAIN Front(walk) = 1 .. Len(walk) - 1
         /\ \A i \in 1 .. Len(walk) - 1 : Front(walk)[i] = walk[i]
<1>1. walk \in Seq(Calls) /\ Len(walk) \in Nat \ {0} /\ DOMAIN walk = 1 .. Len(walk)
  BY EmptySeq, LenProperties DEF TypeOK
<1>2. /\ Front(walk) \in Seq(Calls) /\ Top \in Calls
      /\ Len(Front(walk)) = Len(walk) - 1
      /\ \A i \in 1 .. Len(walk) - 1 : Front(walk)[i] = walk[i]
  BY <1>1, FrontLast DEF TypeOK, Top
<1>3. DOMAIN Front(walk) = 1 .. Len(walk) - 1
  BY <1>2, LenProperties
<1> QED BY <1>1, <1>2, <1>3 DEF Top, Last

(* A load that is under way. *)
LEMMA ActiveLoad ==
  ASSUME TypeOK, NEW s \in Slots
  PROVE  /\ Active(s) => loads[s] \in Loads /\ loads[s].mod \in Modules
         /\ \A step \in Steps : At(s, step) <=> Active(s) /\ loads[s].at = step
BY DEF TypeOK, Active, At, Loads, Steps

-----------------------------------------------------------------------------
(* The client's steps. *)

LEMMA TouchInv ==
  ASSUME Inv, NEW m \in Modules, Touch(m)
  PROVE  Inv'
<1>1. /\ walk = << >> /\ walk' = <<Call(m)>>
      /\ nested' \in BOOLEAN
      /\ UNCHANGED <<lang, loaded, requested, installed, assemblies, tagged, loads>>
  BY DEF Touch, kernelVars
<1>2. Call(m) \in Calls /\ Call(m).mod = m /\ Call(m).todo = Deps[m]
  BY DepsAssumption DEF Call, Calls
<1>3. walk' \in Seq(Calls) /\ DOMAIN walk' = {1} /\ walk'[1] = Call(m)
  BY <1>1, <1>2
<1>4. TypeOK'
  BY <1>1, <1>3 DEF Inv, TypeOK
<1>5. LoadsInv' /\ LoadedIsInKernel'
  BY <1>1 DEF Inv, LoadsInv, LoadedIsInKernel, CodeRunsOnce, At, Active
<1>6. AwaitedInv'
  BY <1>1 DEF Inv, AwaitedInv, Active
<1>7. WalkInv'
  BY <1>1, <1>2, <1>3 DEF Inv, WalkInv, Visited, Active
<1> QED BY <1>4, <1>5, <1>6, <1>7 DEF Inv

LEMMA VisitDependencyInv ==
  ASSUME Inv, VisitDependency
  PROVE  Inv'
<1>1. /\ walk # << >> /\ ~ Top.sent
      /\ UNCHANGED <<lang, nested, loaded, requested, installed, assemblies, tagged, loads>>
  BY DEF VisitDependency, Walking, Top, kernelVars
<1> DEFINE n == Len(walk)
<1>2. /\ TypeOK
      /\ n \in Nat \ {0} /\ DOMAIN walk = 1 .. n
      /\ Top = walk[n] /\ Top \in Calls
      /\ Front(walk) \in Seq(Calls) /\ Len(Front(walk)) = n - 1
      /\ \A i \in 1 .. n - 1 : Front(walk)[i] = walk[i]
  BY <1>1, TopCall DEF Inv
<1>3. PICK d \in Top.todo :
        LET rest == Append(Front(walk), [Top EXCEPT !.todo = @ \ {d}])
        IN  walk' = IF d \in loaded THEN rest ELSE Append(rest, Call(d))
  BY DEF VisitDependency
<1>4. d \in Modules /\ Top.mod \in Modules /\ Top.todo \subseteq Modules
  BY <1>2, <1>3 DEF Calls
<1> DEFINE top  == [Top EXCEPT !.todo = @ \ {d}]
           rest == Append(Front(walk), top)
<1>5. /\ top \in Calls /\ top.mod = Top.mod /\ top.todo = Top.todo \ {d}
      /\ Call(d) \in Calls /\ Call(d).mod = d /\ Call(d).todo = Deps[d]
  BY <1>2, <1>4, DepsAssumption DEF Calls, Call
<1> HIDE DEF top
<1>6. /\ rest \in Seq(Calls) /\ Len(rest) = n /\ DOMAIN rest = 1 .. n /\ rest[n] = top
      /\ \A i \in 1 .. n - 1 : rest[i] = walk[i]
  <2>1. walk \in Seq(Calls) /\ walk # << >> /\ top \in Calls
    BY <1>1, <1>2, <1>5 DEF TypeOK
  <2>2. /\ Append(Front(walk), top) \in Seq(Calls)
        /\ Len(Append(Front(walk), top)) = Len(walk)
        /\ DOMAIN Append(Front(walk), top) = 1 .. Len(walk)
        /\ Append(Front(walk), top)[Len(walk)] = top
        /\ \A i \in 1 .. Len(walk) - 1 : Append(Front(walk), top)[i] = walk[i]
    BY <2>1, LastReplaced
  <2> QED BY <2>2
<1>7. walk' = IF d \in loaded THEN rest ELSE Append(rest, Call(d))
  BY <1>3 DEF top
<1> HIDE DEF rest
<1>8. /\ Append(rest, Call(d)) \in Seq(Calls) /\ Len(Append(rest, Call(d))) = n + 1
       /\ Append(rest, Call(d))[n + 1] = Call(d)
       /\ \A i \in 1 .. n : Append(rest, Call(d))[i] = rest[i]
  BY <1>5, <1>6, Appended
<1>9. /\ walk' \in Seq(Calls) /\ Len(walk') = IF d \in loaded THEN n ELSE n + 1
      /\ walk'[n] = top
      /\ \A i \in 1 .. n - 1 : walk'[i] = walk[i]
      /\ d \notin loaded => walk'[n + 1] = Call(d)
  <2>1. CASE d \in loaded
    BY <1>6, <1>7, <2>1
  <2>2. CASE d \notin loaded
    <3>1. walk' = Append(rest, Call(d)) /\ n \in 1 .. n /\ \A i \in 1 .. n - 1 : i \in 1 .. n
      BY <1>2, <1>7, <2>2
    <3> QED BY <1>6, <1>8, <2>2, <3>1
  <2> QED BY <2>1, <2>2
<1>10. DOMAIN walk' = 1 .. Len(walk')
  BY <1>9, LenProperties
<1>11. TypeOK'
  BY <1>1, <1>9 DEF Inv, TypeOK
<1>12. LoadsInv' /\ LoadedIsInKernel'
  BY <1>1 DEF Inv, LoadsInv, LoadedIsInKernel, CodeRunsOnce, At, Active
<1>13. AwaitedInv'
  BY <1>1 DEF Inv, AwaitedInv, Active
<1>14. WalkInv'
  <2> SUFFICES ASSUME lang # "dotnet", NEW i \in DOMAIN walk', NEW e \in Deps[walk'[i].mod]
               PROVE  Visited(i, e)'
    BY <1>1 DEF Inv, WalkInv, Active
  <2>1. CASE i \in 1 .. n - 1
    <3>1. Visited(i, e)
      BY <1>2, <1>9, <2>1 DEF Inv, WalkInv
    <3>2. i + 1 \in DOMAIN walk' /\ walk'[i + 1].mod = walk[i + 1].mod
      BY <1>2, <1>5, <1>9, <1>10, <2>1
    <3>3. walk'[i] = walk[i]
      BY <1>9, <2>1
    <3> QED BY <1>1, <3>1, <3>2, <3>3 DEF Visited
  <2>2. CASE i = n
    <3>1. walk'[n] = top /\ e \in Deps[Top.mod]
      BY <1>5, <1>9, <2>2
    <3>2. Visited(n, e) /\ n + 1 \notin DOMAIN walk
      BY <1>2, <3>1 DEF Inv, WalkInv
    <3>3. e \in Top.todo \/ e \in loaded
      BY <1>2, <3>2 DEF Visited
    <3>4. CASE e = d /\ d \notin loaded
      <4>1. n + 1 \in DOMAIN walk' /\ walk'[n + 1].mod = d
        BY <1>2, <1>5, <1>9, <1>10, <3>4
      <4> QED BY <2>2, <3>4, <4>1 DEF Visited
    <3> QED BY <1>1, <1>5, <2>2, <3>1, <3>3, <3>4 DEF Visited
  <2>3. CASE i = n + 1
    <3>1. walk'[i] = Call(d)
      BY <1>2, <1>9, <1>10, <2>3
    <3> QED BY <1>5, <3>1 DEF Visited
  <2> QED BY <1>2, <1>9, <1>10, <2>1, <2>2, <2>3
<1> QED BY <1>11, <1>12, <1>13, <1>14 DEF Inv

(* The innermost call returns: its module counts as loaded. *)
LEMMA ReturnWalk ==
  ASSUME TypeOK, walk # << >>, Return(Top.mod), NEW i \in DOMAIN walk', NEW d, Visited(i, d),
         d \in Modules
  PROVE  Visited(i, d)'
<1>1. /\ Len(walk) \in Nat \ {0} /\ DOMAIN walk = 1 .. Len(walk)
      /\ Top = walk[Len(walk)]
      /\ walk' = Front(walk) /\ loaded' = loaded \cup {Top.mod}
      /\ DOMAIN walk' = 1 .. Len(walk) - 1
      /\ \A j \in 1 .. Len(walk) - 1 : walk'[j] = walk[j]
  BY TopCall DEF Return
<1>2. walk'[i] = walk[i] /\ i \in 1 .. Len(walk) - 1
  BY <1>1
<1>3. CASE i = Len(walk) - 1
  BY <1>1, <1>2, <1>3 DEF Visited
<1>4. CASE i # Len(walk) - 1
  <2>1. i + 1 \in DOMAIN walk' /\ walk'[i + 1] = walk[i + 1]
    BY <1>1, <1>2, <1>4
  <2> QED BY <1>1, <1>2, <2>1 DEF Visited
<1> QED BY <1>3, <1>4

LEMMA SkipRequestedInv ==
  ASSUME Inv, SkipRequested
  PROVE  Inv'
<1>1. /\ lang = "dotnet" /\ walk # << >> /\ ~ Top.sent
      /\ walk' = Front(walk) /\ loaded' = loaded \cup {Top.mod}
      /\ UNCHANGED <<lang, nested, requested, installed, assemblies, tagged, loads>>
  BY DEF SkipRequested, Walking, Top, Return, kernelVars
<1>2. Front(walk) \in Seq(Calls) /\ Top.mod \in Modules
  BY <1>1, TopCall DEF Inv, Calls
<1>3. TypeOK'
  BY <1>1, <1>2 DEF Inv, TypeOK
<1>4. LoadsInv' /\ LoadedIsInKernel' /\ WalkInv'
  BY <1>1 DEF Inv, LoadsInv, LoadedIsInKernel, WalkInv, CodeRunsOnce, At, Active
<1>5. AwaitedInv'
  BY <1>1 DEF Inv, AwaitedInv, Active
<1> QED BY <1>3, <1>4, <1>5 DEF Inv

LEMMA SendLoadInv ==
  ASSUME Inv, NEW s \in Slots, SendLoad(s)
  PROVE  Inv'
<1> DEFINE load == [at |-> "check", mod |-> Top.mod, awaited |-> ~ nested,
                    staged |-> FALSE, ok |-> FALSE]
           sent == [Top EXCEPT !.sent = TRUE]
<1>1. /\ walk # << >> /\ ~ Top.sent /\ Top.todo = {} /\ loads[s] = NoLoad
      /\ loads' = [loads EXCEPT ![s] = load]
      /\ walk' = IF nested THEN << >> ELSE Append(Front(walk), sent)
      /\ requested' = requested \cup {Top.mod}
      /\ UNCHANGED <<lang, nested, loaded, installed, assemblies, tagged>>
  BY DEF SendLoad, Walking, Top
<1>2. /\ TypeOK
      /\ Len(walk) \in Nat \ {0} /\ DOMAIN walk = 1 .. Len(walk)
      /\ Top = walk[Len(walk)] /\ Top \in Calls
  BY <1>1, TopCall DEF Inv
<1>3. sent \in Calls /\ sent.mod = Top.mod /\ sent.todo = Top.todo /\ sent.sent /\ Top.mod \in Modules
  BY <1>2 DEF Calls
<1>4. load \in Loads /\ load.mod = Top.mod /\ load.at = "check" /\ load.ok = FALSE
      /\ load.awaited = ~ nested
  BY <1>2, <1>3 DEF Loads, Steps, TypeOK
<1> HIDE DEF load, sent
<1>5. \A t \in Slots : loads'[t] = IF t = s THEN load ELSE loads[t]
  BY <1>1, <1>2 DEF TypeOK
<1>6. /\ walk' \in Seq(Calls)
      /\ ~ nested => /\ Len(walk') = Len(walk) /\ DOMAIN walk' = 1 .. Len(walk)
                     /\ walk'[Len(walk)] = sent
                     /\ \A i \in 1 .. Len(walk) - 1 : walk'[i] = walk[i]
  <2>1. walk \in Seq(Calls) /\ << >> \in Seq(Calls)
    BY <1>2 DEF TypeOK
  <2>2. Append(Front(walk), sent) \in Seq(Calls)
        /\ Len(Append(Front(walk), sent)) = Len(walk)
        /\ DOMAIN Append(Front(walk), sent) = 1 .. Len(walk)
        /\ Append(Front(walk), sent)[Len(walk)] = sent
        /\ \A i \in 1 .. Len(walk) - 1 : Append(Front(walk), sent)[i] = walk[i]
    BY <1>1, <1>3, <2>1, LastReplaced
  <2>3. CASE nested
    BY <1>1, <2>1, <2>3
  <2>4. CASE ~ nested
    <3>1. walk' = Append(Front(walk), sent)
      BY <1>1, <2>4
    <3> QED BY <2>2, <3>1
  <2> QED BY <2>3, <2>4
<1>7. TypeOK'
  <2>1. loads' \in [Slots -> Loads \cup {NoLoad}]
    BY <1>1, <1>2, <1>4 DEF TypeOK
  <2> QED BY <1>1, <1>2, <1>3, <1>6, <2>1 DEF TypeOK
<1>8. load # NoLoad
  BY <1>4 DEF NoLoad
<1>9. \A t \in Slots : Active(t)' <=> t = s \/ Active(t)
  BY <1>5, <1>8 DEF Active
<1>10. \A t \in Slots : At(t, "run")' <=> At(t, "run")
  BY <1>1, <1>4, <1>5 DEF At
<1>11. LoadsInv'
  <2>1. \A t \in Slots : At(t, "run") => t # s
    BY <1>1 DEF At
  <2>2. CodeRunsOnce'
    BY <1>1, <1>5, <1>10, <2>1 DEF Inv, LoadsInv, CodeRunsOnce
  <2>3. \A t \in Slots : Active(t)' /\ loads'[t].ok => loads'[t].mod \in assemblies
    BY <1>4, <1>5, <1>9 DEF Inv, LoadsInv
  <2>4. \A t \in Slots : At(t, "run")' => loads'[t].mod \in installed
    BY <1>5, <1>10, <2>1 DEF Inv, LoadsInv
  <2> QED BY <1>1, <2>2, <2>3, <2>4 DEF Inv, LoadsInv
<1>12. AwaitedInv'
  <2>1. \A t \in Slots : Active(t) => ~ loads[t].awaited
    BY <1>1 DEF Inv, AwaitedInv
  <2>2. \A t \in Slots : Active(t)' /\ loads'[t].awaited => t = s /\ ~ nested
    BY <1>4, <1>5, <1>9, <2>1
  <2>3. ~ nested => walk' # << >> /\ Top' = sent
    <3>1. ~ nested => Last(walk') = walk'[Len(walk)] /\ Len(walk') # 0
      BY <1>2, <1>6 DEF Last
    <3> QED BY <1>6, <3>1, EmptySeq DEF Top
  <2> QED BY <1>3, <1>4, <1>5, <2>2, <2>3 DEF AwaitedInv
<1>13. WalkInv'
  <2> SUFFICES ASSUME lang # "dotnet"
               PROVE  /\ \A i \in DOMAIN walk' : \A d \in Deps[walk'[i].mod] : Visited(i, d)'
                      /\ \A t \in Slots : Active(t)' => Deps[loads'[t].mod] \subseteq loaded
    BY <1>1 DEF WalkInv
  <2>1. ASSUME NEW i \in DOMAIN walk', NEW d \in Deps[walk'[i].mod]
        PROVE  Visited(i, d)'
    <3>1. CASE nested
      BY <1>1, <2>1, <3>1
    <3>2. CASE ~ nested
      <4>1. i \in DOMAIN walk /\ walk'[i].mod = walk[i].mod /\ walk'[i].todo = walk[i].todo
        BY <1>2, <1>3, <1>6, <2>1, <3>2
      <4>2. Visited(i, d)
        BY <2>1, <4>1 DEF Inv, WalkInv
      <4>3. \A j \in DOMAIN walk : j \in DOMAIN walk' /\ walk'[j].mod = walk[j].mod
        BY <1>2, <1>3, <1>6, <3>2
      <4> QED BY <1>1, <4>1, <4>2, <4>3 DEF Visited
    <3> QED BY <3>1, <3>2
  <2>2. Deps[Top.mod] \subseteq loaded
    <3>1. \A d \in Deps[Top.mod] : Visited(Len(walk), d)
      BY <1>2 DEF Inv, WalkInv
    <3> QED BY <1>1, <1>2, <3>1 DEF Visited
  <2>3. ASSUME NEW t \in Slots, Active(t)' PROVE Deps[loads'[t].mod] \subseteq loaded
    BY <1>4, <1>5, <1>9, <2>2, <2>3 DEF Inv, WalkInv
  <2> QED BY <2>1, <2>3
<1>14. LoadedIsInKernel'
  BY <1>1 DEF Inv, LoadedIsInKernel
<1> QED BY <1>7, <1>11, <1>12, <1>13, <1>14 DEF Inv

-----------------------------------------------------------------------------
(* A step of one load. *)

(* A load that goes on: what it may change for the client's sake is its    *)
(* own state, and what is in the kernel only grows.                        *)
LEMMA ProgressInv ==
  ASSUME Inv, NEW s \in Slots, Active(s), NEW l \in Loads,
         loads' = [loads EXCEPT ![s] = l],
         l.mod = loads[s].mod, l.awaited = loads[s].awaited,
         installed \subseteq installed', assemblies \subseteq assemblies',
         installed' \subseteq Modules, assemblies' \subseteq Modules, tagged' \subseteq Modules,
         UNCHANGED clientVars,
         LoadsInv', LoadedIsInKernel'
  PROVE  Inv'
<1>1. /\ TypeOK
      /\ \A t \in Slots : loads'[t] = IF t = s THEN l ELSE loads[t]
      /\ UNCHANGED <<lang, walk, nested, loaded, requested>>
  BY DEF Inv, TypeOK, clientVars
<1>2. TypeOK'
  BY <1>1 DEF TypeOK
<1>3. \A t \in Slots : Active(t)' <=> Active(t)
  BY <1>1 DEF Active, Loads, NoLoad, Steps
<1>4. \A t \in Slots : loads'[t].mod = loads[t].mod /\ loads'[t].awaited = loads[t].awaited
  BY <1>1
<1>5. AwaitedInv'
  BY <1>1, <1>3, <1>4 DEF Inv, AwaitedInv, Top
<1>6. WalkInv'
  BY <1>1, <1>3, <1>4 DEF Inv, WalkInv, Visited
<1> QED BY <1>2, <1>5, <1>6 DEF Inv

(* A step of a load that is not at its module's code, and only moves on.   *)
LEMMA MovesOnInv ==
  ASSUME Inv, NEW s \in Slots, Active(s), NEW l \in Loads,
         loads' = [loads EXCEPT ![s] = l],
         l.mod = loads[s].mod, l.awaited = loads[s].awaited,
         l.at # "run", l.ok => loads[s].ok,
         UNCHANGED <<clientVars, installed, assemblies, tagged>>
  PROVE  Inv'
<1>1. /\ TypeOK
      /\ \A t \in Slots : loads'[t] = IF t = s THEN l ELSE loads[t]
  BY DEF Inv, TypeOK
<1>2. \A t \in Slots : Active(t)' <=> Active(t)
  BY <1>1 DEF Active, Loads, NoLoad, Steps
<1>3. \A t \in Slots : At(t, "run")' => At(t, "run") /\ loads'[t] = loads[t]
  BY <1>1 DEF At
<1>4. CodeRunsOnce'
  BY <1>3 DEF Inv, LoadsInv, CodeRunsOnce
<1>5. LoadsInv'
  BY <1>1, <1>2, <1>3, <1>4 DEF Inv, LoadsInv
<1>6. LoadedIsInKernel'
  BY DEF Inv, LoadedIsInKernel, clientVars
<1> QED BY <1>1, <1>5, <1>6, ProgressInv DEF Inv, TypeOK

LEMMA CheckInv ==
  ASSUME Inv, NEW s \in Slots, Check(s)
  PROVE  Inv'
<1> DEFINE step == IF loads[s].mod \in installed THEN "lookUp" ELSE "extract"
           l == [loads[s] EXCEPT !.at = step]
<1>1. /\ Active(s) /\ loads[s] \in Loads
      /\ loads' = [loads EXCEPT ![s].at = step]
      /\ UNCHANGED <<clientVars, installed, assemblies, tagged>>
  BY ActiveLoad DEF Check, At, Goes, Active, Inv
<1>2. step \in Steps /\ step # "run"
  BY DEF Steps
<1> HIDE DEF step
<1>3. /\ l \in Loads /\ l.mod = loads[s].mod /\ l.awaited = loads[s].awaited
      /\ l.ok = loads[s].ok /\ l.at # "run"
  BY <1>1, <1>2 DEF Loads
<1>4. loads' = [loads EXCEPT ![s] = l]
  BY <1>1
<1> HIDE DEF l
<1> QED BY <1>1, <1>3, <1>4, MovesOnInv

LEMMA ExtractInv ==
  ASSUME Inv, NEW s \in Slots, Extract(s)
  PROVE  Inv'
<1>1. PICK step \in {"move", "cleanUp"} :
        loads' = [loads EXCEPT ![s].at = step, ![s].staged = TRUE]
  BY DEF Extract
<1> DEFINE l == [loads[s] EXCEPT !.at = step, !.staged = TRUE]
<1>2. /\ Active(s) /\ loads[s] \in Loads
      /\ UNCHANGED <<clientVars, installed, assemblies, tagged>>
  BY ActiveLoad DEF Extract, At, Active, Inv
<1>3. /\ l \in Loads /\ l.mod = loads[s].mod /\ l.awaited = loads[s].awaited
      /\ l.ok = loads[s].ok /\ l.at # "run"
  BY <1>2 DEF Loads, Steps
<1>4. loads' = [loads EXCEPT ![s] = l]
  BY <1>1
<1> HIDE DEF l
<1> QED BY <1>2, <1>3, <1>4, MovesOnInv

LEMMA MoveInv ==
  ASSUME Inv, NEW s \in Slots, Move(s)
  PROVE  Inv'
<1>1. /\ TypeOK /\ Active(s) /\ loads[s] \in Loads /\ loads[s].at = "move"
      /\ UNCHANGED <<clientVars, assemblies, tagged>>
  BY ActiveLoad DEF Move, At, Active, Inv
<1>2. CASE loads[s].mod \in installed
  <2> DEFINE l == [loads[s] EXCEPT !.at = "cleanUp", !.ok = FALSE]
  <2>1. loads' = [loads EXCEPT ![s] = l] /\ installed' = installed
    BY <1>2 DEF Move, Fails
  <2>2. /\ l \in Loads /\ l.mod = loads[s].mod /\ l.awaited = loads[s].awaited
        /\ l.ok = FALSE /\ l.at # "run"
    BY <1>1 DEF Loads, Steps
  <2> HIDE DEF l
  <2> QED BY <1>1, <2>1, <2>2, MovesOnInv
<1>3. CASE loads[s].mod \notin installed
  <2> DEFINE l == [loads[s] EXCEPT !.at = "run"]
             m == loads[s].mod
  <2>1. loads' = [loads EXCEPT ![s] = l] /\ installed' = installed \cup {m}
    BY <1>3 DEF Move, Goes
  <2>2. /\ l \in Loads /\ l.mod = m /\ l.awaited = loads[s].awaited
        /\ l.ok = loads[s].ok /\ l.at = "run" /\ m \in Modules
    BY <1>1 DEF Loads, Steps
  <2> HIDE DEF l
  <2>3. \A t \in Slots : loads'[t] = IF t = s THEN l ELSE loads[t]
    BY <1>1, <2>1 DEF TypeOK
  <2>4. \A t \in Slots : At(t, "run")' => t = s \/ (At(t, "run") /\ loads'[t] = loads[t])
    BY <2>3 DEF At
  <2>5. m \notin assemblies /\ \A t \in Slots : At(t, "run") => loads[t].mod # m
    BY <1>3 DEF Inv, LoadsInv
  <2>6. CodeRunsOnce'
    BY <1>1, <2>2, <2>3, <2>4, <2>5 DEF Inv, LoadsInv, CodeRunsOnce
  <2>7. \A t \in Slots : Active(t)' => Active(t)
    BY <1>1, <2>3 DEF Active
  <2>8. \A t \in Slots : Active(t)' /\ loads'[t].ok => loads'[t].mod \in assemblies'
    BY <1>1, <2>2, <2>3, <2>7 DEF Inv, LoadsInv
  <2>9. \A t \in Slots : At(t, "run")' => loads'[t].mod \in installed'
    BY <2>1, <2>2, <2>3, <2>4 DEF Inv, LoadsInv
  <2>10. LoadsInv'
    BY <1>1, <2>1, <2>6, <2>8, <2>9 DEF Inv, LoadsInv
  <2>11. LoadedIsInKernel'
    BY <1>1 DEF Inv, LoadedIsInKernel, clientVars
  <2> QED BY <1>1, <2>1, <2>2, <2>10, <2>11, ProgressInv DEF TypeOK
<1> QED BY <1>2, <1>3

LEMMA RunInv ==
  ASSUME Inv, NEW s \in Slots, Run(s)
  PROVE  Inv'
<1> DEFINE m == loads[s].mod
<1>1. /\ TypeOK /\ Active(s) /\ loads[s] \in Loads /\ At(s, "run")
      /\ UNCHANGED <<clientVars, installed>>
  BY ActiveLoad DEF Run, At, Active, Inv
<1>2. PICK ok \in BOOLEAN :
        /\ loads' = [loads EXCEPT ![s].at = "cleanUp", ![s].ok = ok]
        /\ assemblies' \in {assemblies, assemblies \cup {m}}
        /\ ok => assemblies' = assemblies \cup {m}
        /\ tagged' \in {tagged, tagged \cup {m}}
  BY DEF Run, Fails
<1> DEFINE l == [loads[s] EXCEPT !.at = "cleanUp", !.ok = ok]
<1>3. /\ l \in Loads /\ l.mod = m /\ l.awaited = loads[s].awaited
      /\ l.ok = ok /\ l.at = "cleanUp" /\ m \in Modules
  BY <1>1 DEF Loads, Steps
<1>4. loads' = [loads EXCEPT ![s] = l]
  BY <1>2
<1> HIDE DEF l
<1>5. \A t \in Slots : loads'[t] = IF t = s THEN l ELSE loads[t]
  BY <1>1, <1>4 DEF TypeOK
<1>6. \A t \in Slots : At(t, "run")' => t # s /\ At(t, "run") /\ loads'[t] = loads[t]
  BY <1>3, <1>5 DEF At
<1>7. \A t \in Slots : At(t, "run")' => loads'[t].mod # m
  BY <1>1, <1>6 DEF Inv, LoadsInv, CodeRunsOnce
<1>8. CodeRunsOnce'
  BY <1>2, <1>6, <1>7 DEF Inv, LoadsInv, CodeRunsOnce
<1>9. \A t \in Slots : Active(t)' => Active(t)
  BY <1>1, <1>5 DEF Active
<1>10. \A t \in Slots : Active(t)' /\ loads'[t].ok => loads'[t].mod \in assemblies'
  BY <1>2, <1>3, <1>5, <1>9 DEF Inv, LoadsInv
<1>11. \A t \in Slots : At(t, "run")' => loads'[t].mod \in installed'
  BY <1>1, <1>6 DEF Inv, LoadsInv
<1>12. assemblies' \subseteq installed'
  BY <1>1, <1>2 DEF Inv, LoadsInv
<1>13. LoadsInv'
  BY <1>8, <1>10, <1>11, <1>12 DEF LoadsInv
<1>14. LoadedIsInKernel'
  <2>1. lang # "dotnet" => Deps[m] \subseteq assemblies
    BY <1>1 DEF Inv, WalkInv, LoadedIsInKernel
  <2> QED BY <1>1, <1>2, <2>1 DEF Inv, LoadedIsInKernel, clientVars
<1>15. tagged' \subseteq Modules /\ assemblies' \subseteq Modules
  BY <1>1, <1>2, <1>3 DEF TypeOK
<1> QED BY <1>1, <1>2, <1>3, <1>4, <1>13, <1>14, <1>15, ProgressInv DEF TypeOK

(* A load that ends, and the client that may be waiting for it. *)
LEMMA SettleInv ==
  ASSUME Inv, NEW s \in Slots, Active(s), NEW ok \in BOOLEAN, Settle(s, ok),
         ok => loads[s].mod \in assemblies,
         UNCHANGED <<lang, nested, requested, installed, assemblies, tagged>>
  PROVE  Inv'
<1> DEFINE m == loads[s].mod
<1>1. /\ TypeOK /\ loads[s] \in Loads /\ m \in Modules
      /\ loads' = [loads EXCEPT ![s] = NoLoad]
  BY ActiveLoad DEF Settle, Inv
<1>2. \A t \in Slots : loads'[t] = IF t = s THEN NoLoad ELSE loads[t]
  BY <1>1 DEF TypeOK
<1>3. \A t \in Slots : Active(t)' => t # s /\ Active(t) /\ loads'[t] = loads[t]
  BY <1>2 DEF Active
<1>4. \A t \in Slots : At(t, "run")' => At(t, "run") /\ loads'[t] = loads[t]
  BY <1>2, <1>3 DEF At, Active
<1>5. LoadsInv'
  <2>1. CodeRunsOnce'
    BY <1>4 DEF Inv, LoadsInv, CodeRunsOnce
  <2> QED BY <1>3, <1>4, <2>1 DEF Inv, LoadsInv
<1>6. \/ UNCHANGED <<walk, loaded>> /\ ~ loads[s].awaited
      \/ walk' = << >> /\ loaded' = loaded
      \/ ok /\ walk # << >> /\ m = Top.mod /\ Return(Top.mod)
  BY DEF Settle, Inv, AwaitedInv
<1>7. \A t \in Slots : Active(t)' /\ loads[s].awaited => ~ loads'[t].awaited
  BY <1>3 DEF Inv, AwaitedInv
<1>8. CASE UNCHANGED <<walk, loaded>> /\ ~ loads[s].awaited
  <2>1. TypeOK'
    BY <1>1, <1>8 DEF TypeOK
  <2>2. AwaitedInv'
    BY <1>3, <1>8 DEF Inv, AwaitedInv, Top
  <2>3. WalkInv'
    BY <1>3, <1>8 DEF Inv, WalkInv, Visited
  <2>4. LoadedIsInKernel'
    BY <1>8 DEF Inv, LoadedIsInKernel
  <2> QED BY <1>5, <2>1, <2>2, <2>3, <2>4 DEF Inv
<1>9. CASE walk' = << >> /\ loaded' = loaded /\ loads[s].awaited
  <2>1. walk' \in Seq(Calls) /\ DOMAIN walk' = {}
    BY <1>9, EmptySeq, LenProperties
  <2>2. TypeOK'
    BY <1>1, <1>9, <2>1 DEF TypeOK
  <2>3. AwaitedInv'
    BY <1>7, <1>9 DEF AwaitedInv
  <2>4. WalkInv'
    BY <1>3, <1>9, <2>1 DEF Inv, WalkInv
  <2>5. LoadedIsInKernel'
    BY <1>9 DEF Inv, LoadedIsInKernel
  <2> QED BY <1>5, <2>2, <2>3, <2>4, <2>5 DEF Inv
<1>10. CASE ok /\ walk # << >> /\ m = Top.mod /\ Return(Top.mod) /\ loads[s].awaited
  <2>1. /\ walk' \in Seq(Calls) /\ loaded' = loaded \cup {m}
        /\ DOMAIN walk' \subseteq DOMAIN walk
        /\ \A i \in DOMAIN walk' : walk'[i] = walk[i] /\ walk[i] \in Calls
    <3>1. walk \in Seq(Calls) /\ \A i \in DOMAIN walk : walk[i] \in Calls
      BY <1>1, LenProperties DEF TypeOK
    <3> QED BY <1>1, <1>10, <3>1, TopCall DEF Return
  <2>2. TypeOK'
    BY <1>1, <2>1 DEF TypeOK
  <2>3. AwaitedInv'
    BY <1>7, <1>10 DEF AwaitedInv
  <2>4. WalkInv'
    <3> SUFFICES ASSUME lang # "dotnet"
                 PROVE  /\ \A i \in DOMAIN walk' : \A d \in Deps[walk'[i].mod] : Visited(i, d)'
                        /\ \A t \in Slots : Active(t)' => Deps[loads'[t].mod] \subseteq loaded'
      BY DEF WalkInv
    <3>1. ASSUME NEW i \in DOMAIN walk', NEW d \in Deps[walk'[i].mod]
          PROVE  Visited(i, d)'
      <4>1. Visited(i, d)
        BY <2>1, <3>1 DEF Inv, WalkInv
      <4>2. d \in Modules
        BY <2>1, <3>1, DepsAssumption DEF Calls
      <4> QED BY <1>1, <1>10, <3>1, <4>1, <4>2, ReturnWalk
    <3> QED BY <1>3, <2>1, <3>1 DEF Inv, WalkInv
  <2>5. LoadedIsInKernel'
    BY <1>10, <2>1 DEF Inv, LoadedIsInKernel
  <2> QED BY <1>5, <2>2, <2>3, <2>4, <2>5 DEF Inv
<1> QED BY <1>6, <1>8, <1>9, <1>10 DEF Settle

LEMMA SettlingInv ==
  ASSUME Inv, NEW s \in Slots, LookUp(s) \/ CleanUp(s)
  PROVE  Inv'
<1>1. Active(s) /\ loads[s] \in Loads
  BY ActiveLoad DEF LookUp, CleanUp, At, Active, Inv
<1>2. CASE LookUp(s)
  <2> DEFINE ok == loads[s].mod \in assemblies
  <2>1. ok \in BOOLEAN /\ (ok => loads[s].mod \in assemblies)
    OBVIOUS
  <2>2. Settle(s, ok) /\ UNCHANGED <<lang, nested, requested, installed, assemblies, tagged>>
    BY <1>2 DEF LookUp
  <2> HIDE DEF ok
  <2> QED BY <1>1, <2>1, <2>2, SettleInv
<1>3. CASE CleanUp(s)
  <2>1. loads[s].ok \in BOOLEAN /\ (loads[s].ok => loads[s].mod \in assemblies)
    BY <1>1 DEF Loads, Inv, LoadsInv
  <2> QED BY <1>1, <1>3, <2>1, SettleInv DEF CleanUp
<1> QED BY <1>2, <1>3

-----------------------------------------------------------------------------
LEMMA NextInv == Inv /\ [Next]_vars => Inv'
<1> SUFFICES ASSUME Inv, [Next]_vars PROVE Inv'
  OBVIOUS
<1>1. CASE \E m \in Modules : Touch(m)
  BY <1>1, TouchInv
<1>2. CASE ClientStep
  BY <1>2, VisitDependencyInv, SendLoadInv, SkipRequestedInv DEF ClientStep
<1>3. CASE \E s \in Slots : KernelStep(s)
  BY <1>3, CheckInv, ExtractInv, MoveInv, RunInv, SettlingInv DEF KernelStep
<1>4. CASE UNCHANGED vars
  BY <1>4 DEF vars, clientVars, kernelVars, Inv, TypeOK, LoadsInv, AwaitedInv, WalkInv,
              LoadedIsInKernel, CodeRunsOnce, Active, At, Visited, Top
<1> QED BY <1>1, <1>2, <1>3, <1>4 DEF Next

LEMMA Invariance == Spec => []Inv
BY InitInv, NextInv, PTL DEF Spec

(* Every variable has its type. *)
THEOREM LoadingTypesHold == Spec => []TypeOK
<1>1. Inv => TypeOK
  BY DEF Inv
<1> QED BY <1>1, Invariance, PTL

(* What the Java or the Python library takes for loaded is in the kernel,  *)
(* with all it depends on.                                                 *)
THEOREM LoadedModulesAreInKernel == Spec => []LoadedIsInKernel
<1>1. Inv => LoadedIsInKernel
  BY DEF Inv
<1> QED BY <1>1, Invariance, PTL

(* No module's code is run by a second load. *)
THEOREM CodeIsRunOnce == Spec => []CodeRunsOnce
<1>1. Inv => CodeRunsOnce
  BY DEF Inv, LoadsInv
<1> QED BY <1>1, Invariance, PTL
=============================================================================
