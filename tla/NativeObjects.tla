--------------------------- MODULE NativeObjects ---------------------------
(***************************************************************************)
(* Object identity across the language boundary: the kernel's ObjectTable  *)
(* and the map from references to native objects that each client library  *)
(* keeps (JsiiEngine.objects in Java, ReferenceMap in .NET, _reference_map *)
(* in Python).                                                             *)
(*                                                                         *)
(* The program creates objects of jsii classes and of subclasses of them;  *)
(* while a JavaScript constructor runs it may pass objects out to native   *)
(* code - the one it constructs included - and native code may construct   *)
(* further objects.  `building' is the stack of constructions (last        *)
(* element on top).                                                        *)
(***************************************************************************)
EXTENDS ObjectTable, SequencesExt

CONSTANTS
  Natives, \* native objects
  Pure,    \* those of no jsii class, which implement a jsii interface
  NoNative,
  Langs    \* client libraries

ASSUME NoNativeAssumption == NoNative \notin Natives
ASSUME PureAssumption     == Pure \subseteq Natives
ASSUME LangsAssumption    == Langs \subseteq {"java", "dotnet", "python"}

VARIABLES
  lang,      \* the client library the program is written with
  made,      \* JavaScript objects that exist
  overrider, \* the native object that the overrides of an object call back
  refs,      \* the client's map from references to native objects
  given,     \* the native objects the program was given for a reference
  born,      \* native objects that exist
  failed,    \* native objects whose constructor threw
  building   \* constructions that are under way

nativeVars == <<lang, made, overrider, refs, given, born, failed, building>>
identityVars == <<tableVars, nativeVars>>

(* A construction is in the JavaScript constructor ("kernel"), or, where   *)
(* that matters, back in the native one ("init", Python).                  *)
Constructions == [obj : Objs, native : Natives, phase : {"kernel", "init"}]

TypeOK ==
  /\ TableTypeOK
  /\ lang \in Langs
  /\ made \subseteq Objs
  /\ overrider \in [Objs -> Natives \cup {NoNative}]
  /\ refs \in [Oids -> Natives \cup {NoNative}]
  /\ given \in [Oids -> SUBSET Natives]
  /\ born \subseteq Natives
  /\ failed \subseteq born
  /\ building \in Seq(Constructions)
  /\ lang # "python" => \A i \in DOMAIN building : building[i].phase = "kernel"

Init ==
  /\ TableInit
  /\ lang \in Langs
  /\ made = {}
  /\ overrider = [o \in Objs |-> NoNative]
  /\ refs = [i \in Oids |-> NoNative]
  /\ given = [i \in Oids |-> {}]
  /\ born = {}
  /\ failed = {}
  /\ building = << >>

-----------------------------------------------------------------------------
Building(phase) == building # << >> /\ Last(building).phase = phase
InBuilding(n)   == \E i \in DOMAIN building : building[i].native = n

(* Mutant: the reference map keeps the entry it has. *)
AdoptIfAbsent(i, n) ==
  /\ refs' = [refs EXCEPT ![i] = IF @ = NoNative THEN n ELSE @]
  /\ given' = [given EXCEPT ![i] = @ \cup {n}]

(* The client takes n for the native object of reference i. *)
Adopt(i, n) ==
  /\ refs' = [refs EXCEPT ![i] = n]
  /\ given' = [given EXCEPT ![i] = @ \cup {n}]

(* The sandbox makes an object of its own. *)
SandboxNew(o) ==
  /\ o \notin made
  /\ made' = made \cup {o}
  /\ UNCHANGED <<tableVars, lang, overrider, refs, given, born, failed, building>>

(* new Foo(...) in the native program: the create request. *)
StartCreate(o, n) ==
  /\ o \notin made /\ n \notin born \cup Pure
  /\ made' = made \cup {o}
  /\ born' = born \cup {n}
  /\ building' = Append(building, [obj |-> o, native |-> n, phase |-> "kernel"])
  /\ UNCHANGED <<tableVars, lang, overrider, refs, given, failed>>

(* A result, or an argument of a callback, is an object the client has an  *)
(* instance of.                                                            *)
PassKnown(o) ==
  /\ o \in made
  /\ RegisterObject(o)
  /\ refs[RefOf(o)] # NoNative
  /\ given' = [given EXCEPT ![RefOf(o)] = @ \cup {refs[RefOf(o)]}]
  /\ UNCHANGED <<lang, made, overrider, refs, born, failed, building>>

(* Mutant: the map is not looked at. *)
PassAlwaysUnknown(o, n) ==
  /\ o \in made /\ n \notin born \cup Pure
  /\ RegisterObject(o)
  /\ Adopt(RefOf(o), n)
  /\ born' = born \cup {n}
  /\ UNCHANGED <<lang, made, overrider, failed, building>>

(* Otherwise the client makes a proxy, and (not in Python) registers it. *)
PassUnknown(o, n) ==
  /\ o \in made /\ n \notin born \cup Pure
  /\ RegisterObject(o)
  /\ refs[RefOf(o)] = NoNative
  /\ IF lang = "python"
     THEN /\ given' = [given EXCEPT ![RefOf(o)] = @ \cup {n}]
          /\ UNCHANGED refs
     ELSE Adopt(RefOf(o), n)
  /\ born' = born \cup {n}
  /\ UNCHANGED <<lang, made, overrider, failed, building>>

(* Mutant: every client registers the native object as late as Python. *)
FinishCreateLate(overridden) ==
  /\ Building("kernel")
  /\ RegisterObject(Last(building).obj)
  /\ overrider' = IF overridden
                  THEN [overrider EXCEPT ![Last(building).obj] = Last(building).native]
                  ELSE overrider
  /\ building' = [building EXCEPT ![Len(building)].phase = "init"]
  /\ UNCHANGED <<lang, made, refs, given, born, failed>>

(* The JavaScript constructor returns, the object is registered (unless it *)
(* was passed out before) and its overrides are installed.  Java and .NET  *)
(* register the native object where they read the response; Python does so *)
(* when the outermost native constructor has returned.                     *)
FinishCreate(overridden) ==
  /\ Building("kernel")
  /\ LET o == Last(building).obj
         n == Last(building).native IN
       /\ RegisterObject(o)
       /\ overrider' = IF overridden THEN [overrider EXCEPT ![o] = n] ELSE overrider
       /\ IF lang = "python"
          THEN /\ building' = [building EXCEPT ![Len(building)].phase = "init"]
               /\ UNCHANGED <<refs, given>>
          ELSE /\ building' = Front(building)
               /\ Adopt(RefOf(o), n)
  /\ UNCHANGED <<lang, made, born, failed>>

(* Python: JSIIMeta.__call__ registers what __init__ has initialized. *)
FinishInit ==
  /\ Building("init")
  /\ Adopt(tag[Last(building).obj], Last(building).native)
  /\ building' = Front(building)
  /\ UNCHANGED <<tableVars, lang, made, overrider, born, failed>>

(* The JavaScript constructor, or the native one, throws. *)
FailConstruction ==
  /\ building # << >>
  /\ building' = Front(building)
  /\ failed' = failed \cup {Last(building).native}
  /\ UNCHANGED <<tableVars, lang, made, overrider, refs, given, born>>

(* An override is rejected (a method that is a property of the class, or a *)
(* property that is a method): the object was registered, and the          *)
(* overrides before it are installed.                                      *)
FailOverrides(overridden) ==
  /\ Building("kernel")
  /\ LET o == Last(building).obj IN
       /\ RegisterObject(o)
       /\ overrider' = IF overridden
                       THEN [overrider EXCEPT ![o] = Last(building).native]
                       ELSE overrider
  /\ building' = Front(building)
  /\ failed' = failed \cup {Last(building).native}
  /\ UNCHANGED <<lang, made, refs, given, born>>

(* Mutant: the native object is not looked up in the map. *)
PassNativeAgain(n, o) ==
  /\ n \in Pure /\ o \notin made
  /\ made' = made \cup {o}
  /\ born' = born \cup {n}
  /\ RegisterObject(o)
  /\ overrider' = [overrider EXCEPT ![o] = n]
  /\ Adopt(RefOf(o), n)
  /\ UNCHANGED <<lang, failed, building>>

(* The program passes an object of no jsii class, which implements an      *)
(* interface: the client makes an empty JavaScript object that calls back. *)
(* Java looks the native object up in its map first; Python means to, but  *)
(* marks it with another attribute than the one it looks for.              *)
PassNative(n, o) ==
  /\ lang # "dotnet"
  /\ n \in Pure /\ o \notin made
  /\ lang = "java" => \A i \in Oids : refs[i] # n
  /\ made' = made \cup {o}
  /\ born' = born \cup {n}
  /\ RegisterObject(o)
  /\ overrider' = [overrider EXCEPT ![o] = n]
  /\ Adopt(RefOf(o), n)
  /\ UNCHANGED <<lang, failed, building>>

(* The program has the kernel forget an object (JsiiClient.deleteObject,    *)
(* Client.Delete, jsii.kernel.delete); no client library does so by        *)
(* itself, and none drops its own entry.                                   *)
Delete(i) == DeleteObject(i) /\ UNCHANGED nativeVars

Next ==
  \/ \E o \in Objs : SandboxNew(o) \/ PassKnown(o)
  \/ \E o \in Objs, n \in Natives :
       StartCreate(o, n) \/ PassUnknown(o, n) \/ PassNative(n, o)
  \/ \E overridden \in BOOLEAN : FinishCreate(overridden) \/ FailOverrides(overridden)
  \/ FinishInit
  \/ FailConstruction
  \/ \E i \in Oids : Delete(i)

Spec == Init /\ [][Next]_identityVars

-----------------------------------------------------------------------------
(* A callback finds the native object whose override it is: the reference  *)
(* the overrides of an object carry leads to the native object that was    *)
(* constructed with them, even if the JavaScript constructor passed the    *)
(* object out before, and the client made a proxy of it.                   *)
OverridesReachTheirNative ==
  \A o \in Objs :
    overrider[o] # NoNative /\ overrider[o] \notin failed /\ ~ InBuilding(overrider[o])
      => tag[o] # 0 /\ refs[tag[o]] = overrider[o]

(* The native object of a reference changes only where the construction of *)
(* its object comes to an end.                                             *)
StableReference ==
  \A i \in Oids : refs[i] # NoNative /\ refs'[i] # refs[i]
                    => building # << >> /\ tag[Last(building).obj] = i
ReferencesStable == [][StableReference]_identityVars

(* A native object stands for one JavaScript object, however often it is   *)
(* passed to the kernel; Python makes a new one each time.                 *)
OneReferencePerNative ==
  lang # "python" =>
  \A i, j \in Oids : refs[i] # NoNative /\ refs[i] = refs[j] => i = j

(* The program is always given the same native object for a reference.     *)
NativeIdentity ==
  \A i \in Oids : \A n, m \in given[i] : n = m
=============================================================================
