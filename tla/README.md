# A verification of jsii

jsii lets programs in Java, Python and .NET use JavaScript classes. A compiler
checks a TypeScript module and describes its types in a `.jsii` file (the
assembly); `jsii-pacmak` generates a package for each language from it; at run
time a program of that language starts a `jsii-runtime` process and creates,
calls and implements JavaScript objects over its stdin and stdout. This
directory holds TLA+ specifications of the system, translated from the source,
TLC configurations that check them on small instances, and theorems checked by
TLAPS.

Paths below are relative to `packages/` unless they start with `src/`.

## 1. Inventory

### The runtime: two processes and a pipe

| Part | Code | State | Operations |
| --- | --- | --- | --- |
| Host loop | `jsii-runtime/lib/host.ts`, `in-out.ts` | the JavaScript call stack (handlers blocked in `read`), the `setImmediate` queue, promises an `end` or `load` waits for | `run`, `processRequest`, `callbackHandler` |
| Stdio | `jsii-runtime/lib/sync-stdio.ts` | `inputQueue`, `currentLine` | `readLine`, `writeLine` |
| Kernel | `jsii-kernel/lib/kernel.ts` | `assemblies`, `cbs`, `waiting`, `promises`, `nextid`, `syncInProgress`, `installDir` | `load create del get set sget sset invoke sinvoke begin end callbacks complete naming stats` |
| Object table | `jsii-kernel/lib/objects.ts` | `objects`, `nextid`, the tag on every object | `registerObject findObject deleteObject` |
| Serialization | `jsii-kernel/lib/serialization.ts` | none | `serializationType`, eleven serializers |
| Java client | `jsii-java-runtime/project/.../jsii` | the thread's stack of requests and callbacks, `objects`, `loadedModules` | `JsiiClient`'s requests, `requestResponse`, `processAllPendingCallbacks`, `handleCallback`, `loadModule`, `registerObject`, `nativeFromObjRef`, `nativeToObjRef`, `createNewObject` |
| Python client | `jsii-python-runtime/src/jsii` | `_refs`, the loaded assemblies (import system) | `_callback_till_result`, `ainvoke`, `resolve`, `JSIIMeta.__call__` |
| .NET client | `jsii-dotnet-runtime/src/Amazon.JSII.Runtime` | `ReferenceMap`, `LoadedPackageSet`, `ProcessedAssemblies` | `Send`, `TryDeserialize`, `GetOrCreateNativeReference`, `Load` |

The client writes a request line and blocks until it reads the response. The
host reads a line, runs the kernel operation, writes the response and schedules
its next read. Sandbox code (the jsii module) that calls a method the native
program overrides makes the kernel *call back*: for a sync override
`callbackHandler` writes a `{"callback"}` line and reads requests, processing
each, until the `{"complete"}` line of that callback; for an async override the
callback is queued in `cbs`, and the client fetches it with `callbacks` and
answers it with `complete` between its `begin` and its `end`.

What is hard here: two call stacks in two processes that must nest in each
other with no request ids on the wire; continuations of async methods that the
event loop runs between requests; guards kept in one field; errors that leave
half of an operation done; a client or runtime that ends while the other is in
the middle of a call. What makes it correct:

* every response and completion is read by the call it belongs to;
* callbacks are delivered once, and every async method that waits for one
  is resumed;
* every call of the program returns, and the runtime ends with the program;
* a reference means one object for ever, and one native object in each client;
* a callback reaches the native object whose override it is;
* a module that counts as loaded is loaded, after its dependencies, once.

### The compiler and the tools around assemblies

| Part | Code | State | What makes it correct |
| --- | --- | --- | --- |
| Compiler | `jsii/lib/assembler.ts`, `validator.ts`, `compiler.ts`, `project-info.ts` | the dependencies, `_types`, the deferred checks, diagnostics, the `.jsii` file, the exit status | the order of visits and checks does not matter; what is accepted obeys the rules of every target language; the exit status tells what was written |
| Spec | `jsii-spec/lib` | none (types of the `.jsii` file) | - |
| Reflection | `jsii-reflect/lib` | assemblies and roots of a type system | one assembly object per name, that of the version the compiler used; inherited members are found; a member is no more stable than its type |
| Diff | `jsii-diff/lib`, `bin` | the pairs of types being compared | an accepted new version is usable wherever the old one was |
| Pacmak | `jsii-pacmak/bin`, `lib` | visited packages, temporary directories, running builds | each package is built once, after its dependencies; failures are retried and reported; nothing uses a directory that was removed |
| Targets | `jsii-pacmak/lib/targets` | the writer's open file and indentation | what is said to override does; proxies leave nothing abstract; a struct carries the same values in each language; a Python class is emitted after what it names; every package that is named is declared |
| CodeMaker | `codemaker/lib` | files, current file, indentation | text lands in the file that is open, excluded files are not written |
| JSON model, analyzers | `jsii-dotnet-jsonmodel`, `jsii-dotnet-analyzers` | none | - |
| ASCII tree, build tools, superchain, scripts | | none | - |

The compiler feeds the others: `jsii` loads `package.json` and the assemblies
of the dependencies, visits every exported declaration, runs the checks that
had to wait for other types, validates, and writes `.jsii`; `jsii-reflect`
loads that file and those of the dependencies again, and the generators walk it.
The visits run side by side, as each `await`s at every type it names, and push
deferred checks in whatever order they come to them; `pacmak` builds targets
side by side. The rest is sequential. What is hard is the order of deferred
work, recursion over type graphs, two walks over dependencies that must find
the same packages, rules that are stated once in the compiler and relied upon
in three generators, and failures half way.

## 2. Modules

| Module | Stands for | State and actions |
| --- | --- | --- |
| `RuntimeWire` | the two pipes (`in-out.ts`), the protocol (`jsii-kernel/lib/api.ts`) | `toHost`, `toClient` are sequences of lines, `eof` says that the client closed its end; a `rid` on requests and responses is a history value that no code reads |
| `KernelHost` | `host.ts` with the callback, promise and guard state of `kernel.ts` | `hstack` is the JavaScript stack, a frame for each handler or sandbox code that runs; `imm` the `setImmediate` queue; one action per way a line is read, per thing sandbox code does, per event loop step |
| `JavaClient` | `JsiiRuntime.java`, `JsiiEngine.java`, `JsiiClient.java` | `cstack` is the thread's stack: a frame per request that waits and per callback that runs; an async call holds the set of callbacks it fetched and has yet to run (`todo`), in the order of their ids; actions start calls, read lines, run pending callbacks, exit |
| `AnyClient` | any program at the other end | the runtime process on its own (`ProcessSpec`); the client writes any request or completion at any time and closes its pipe at any time |
| `RpcStack` | what the protocol promises | one stack of open calls and whose turn it is |
| `JsiiRuntime` | `JavaClient` and `KernelHost` joined by the pipes | adds the end of the runtime as the client sees it, the fairness, and the mapping to `RpcStack` |
| `ObjectTable` | `objects.ts`, `del` | `objects`, `tag`, `nextOid` |
| `NativeObjects` | `_create` in the kernel; `JsiiEngine.java`, `ReferenceMap.cs` and `DeputyBase.cs`, `_reference_map.py` and `_runtime.py` | the stack of constructions under way (`building`), the client's reference map (`refs`), which native object overrides which JavaScript object (`overrider`); uses `ObjectTable` |
| `ModuleLoading` | `Kernel.load`, `JsiiEngine.loadModule`, `JsiiTypeAttributeBase.Load`, `LoadPackage`, `JSIIAssembly.load` | the walk of nested `loadModule` calls, the load operations by the `await` each is suspended at, `node_modules`, `assemblies` |
| `Overrides` | the override loop of `_create`, `_findInvokeTarget`, `_findPropertyTarget`; `discoverOverrides` (Java), `GetOverrides` (.NET), `_get_overides` (Python) | a jsii class, the native classes below it, the bag of overrides that is sent (`todo`), what the object has under each name (`own`) and under each super name (`saved`), the stack of calls between program and sandbox |
| `Packaging` | `jsii-pacmak.ts`, `generateCode`, `save`, `upToDate` of the Sphinx generator, CodeMaker's `save` | the calls of `buildPackage` (`stack`), what each target of each package is at (`target`), temporary and output directories; a step per `await` |
| `Serialization` | `serialization.ts`, `_toSandbox`, `_fromSandbox`, argument validation in `kernel.ts` | `registered`, the type each object is known by; conversions are operators on a value, a type and `registered`; `Create` and `Return` change it |
| `TypeSystem` | the lookups of `jsii-reflect` | none; a type system is a function from names to declarations |
| `Diff` | `jsii-diff`'s comparison | `released`, the last release; `Release` replaces it by any release that is accepted |
| `JsiiSpec` | `jsii-spec/lib/assembly.ts` | none; types, members and references as records |
| `Dependencies` | `project-info.ts`, `_toDependencies` and `_buildDependencyClosure` of the assembler, `type-system.ts` of jsii-reflect, `findModule` of the generators | `checkout` (`package.json` and what is installed), `projectInfo` |
| `Assembler` | `assembler.ts` | `stage` (how far each visit is), `types`, `deferred`, `scan` and `invoked` (the loops of `callDeferredsInOrder`), `diags`, `phase`; an action per stretch of a visit between two `await`s, per deferred check, per end of a pass |
| `Validator` | `validator.ts` | none; the errors of an assembly, and the `overrides` that are added to it |
| `Compilation` | what the compiler promises | `status`, `assembly`: a program is accepted with what its declarations mean, or rejected |
| `Compiler` | `compiler.ts`, `bin/jsii.ts` | `file`, `exit`; loads, configures, assembles, emits, exits; extends `Compilation`, whose variables its actions set; `NeverStuck` and `ExitTells` |
| `Generator` | `generator.ts` | none; overloads, and what is collected along the bases |
| `JavaTarget`, `DotNetTarget`, `PythonTarget` | `targets/java.ts`, `targets/dotnet/dotnetgenerator.ts`, `targets/python.ts` | none; the members of the generated classes, interfaces, proxies |
| `PythonModule` | the writer classes of `python.ts` | none; nesting, order and scopes of the generated Python, and its import |
| `StructTarget` | structs in Java, C#, Python and in `serialization.ts` | none; who can be built of which values, what is sent, what arrives |
| `PackageTargets` | imports, `pom.xml`, the `.csproj` | none; the packages that generated code names and declares, and those that jsii-reflect loads for it (`LoadedSystem`) |
| `Generation` | all of these after `Compiler` | none; the properties |
| `SequenceLemmas` | facts about `Append`, `Front`, `Last`, `Tail`, `FlattenSeq`, least numbers and recursive functions the proofs cite | |
| `KernelHost_proofs`, `JsiiRuntime_proofs`, `NativeObjects_proofs`, `ModuleLoading_proofs`, `Overrides_proofs`, `Packaging_proofs`, `Compiler_proofs` | the theorems, see section 4 | |
| `MC*` | instances for TLC | |

Operators whose comment begins with "Mutant" are plausible bugs. They are not
part of a specification; each is substituted for the operator after it to see
that a property notices.

### Abstractions that a reader should know

* **Sandbox code is arbitrary.** A sync operation calls any number of sync
  overrides and returns or throws; an async method calls overrides, suspends
  and settles at will. It does not spawn async work that nobody returns to the
  kernel. `MaxId` bounds the ids `nextid` hands out, and so all of it.
* **Frames, not code.** A JavaScript or Java frame is a record of what it waits
  for. `del`, `naming` and `stats` answer at once and run no sandbox code; they
  are left out of `KernelHost`. (`del` is in `ObjectTable`.)
* An invocation of an async method is a key of `promises` from the moment it is
  entered; `registered` maps the promise ids that `begin` hands out, after the
  method returned (`kernel.ts:299`), to invocations. A method that throws gets none.
* A completion settles the promise of one override. Whether the method awaited
  that one, several or another is the method's business: `Settle` lets it go on
  or not, and it must go on if none of its overrides is left.
* `Native = {"unmapped"}` lets a fetched callback return what the Java object
  mapper cannot convert: the exception is no `JsiiException`, so it leaves
  `jsiiAsyncCall` with the batch uncompleted (`JsiiEngine.java:409`). The run has
  `Native = {}`; the theorems say what holds with it.
* A response that is written to a closed pipe is absorbed.
* Awaits that are settled already are collapsed: a method that returns is
  settled, waits for its overrides, waits for a timer, or is `ready` to go on
  at the next microtask.
* node exits when its event loop is empty. stdin is read with `readSync`, which
  keeps nothing alive: a host that waits for a promise nobody will settle exits.
* In `NativeObjects` the Java constructor's code after `super()` is not
  modelled (the object is registered by then), Python's data types and enums
  are not (they are passed by value). No client library sends `del` by itself;
  the program may (`JsiiClient.deleteObject` and its like).
* In `Packaging`, removing the temporary directory does not fail, and the output
  directory of a target has the file with the fingerprint and the others.
* In `Serialization` null and undefined are one value, and the JSON of a
  converted value is that value. A reference carries what it leads to and the
  type it was registered as, which is what `findObject` finds. Arrays, maps and
  dates have no identity: passed by reference they are registered anew.
  `Set` and `Map` objects, malformed tokens and `overrides` are left out.
  Required properties are looked for in an object and in its prototypes, as
  `validateRequiredProps` does with `in`; serialized are the object's own.
* In `Diff` a type system is closed and nothing is skipped: the ignore file, the
  other default stability and `--experimental-errors` are left out, as is the
  exit status 0 when one of the assemblies cannot be loaded.
* A *program* is what the type checker shows of it: declarations with kinds,
  modifiers, bases, members and types. Names are strings with a set of styles
  (`Style`), so that case conversion is a property of a name, never a
  computation. TypeScript's own errors are not modelled: what it refuses the
  instances leave out or the properties exclude by name (`DeclarationsAgree`,
  `DeclaresAll`). Documentation, stability, literate sources, namespaces that
  are no types, source locations and the texts of diagnostics are left out.
* A visit of a declaration is atomic up to each type it has to resolve. The
  visits of different declarations interleave in every order at these points,
  which is more than `Promise.all` over awaited calls does.
* *Generated code* is a set of members with names, erased parameters, modifiers;
  for Python, a sequence of classes with scopes. What is generated is modelled,
  how it is printed is not.
* A union is compared as a set of types: TypeScript lists it in one order for
  each set of types of a program, so that within a program the validator's
  comparison of lists is the same. Another compilation, of a dependency, may have
  another order; that is left out.
* A package has a name, a two-part version and a set of versions it asks for;
  every version of a package has the same types.
* `ModuleLoading` has one version per package: a second version is an error
  before anything changes. Opening `installDir` cannot race, as a callback
  needs a loaded module. `fs.move` in one file system is one `rename`.

## 3. Runs

All runs are exhaustive over the bounds in their `.cfg`.

| Run | Question | Bounds, and why they are enough |
| --- | --- | --- |
| `host_any_client` | What does the runtime process guarantee whatever the client writes, including completions nobody waits for and ends in the middle of everything? | `MaxId = 3` ids: an async method, its override and a second one; one request id, one line under way at a time. All frames can occur at the bottom, in a callback and in a continuation. |
| `java_protocol` | Do a program and the runtime agree on what is open, does every call return? | `MaxId = 4`: a method with two overrides and a nested sync callback, or two nested methods; three calls open in the client, 8 requests. `Sandbox = {"taskSync"}`: continuations may call sync overrides; no timers, which may turn for ever. |
| `starved_end` | *violated:* `RuntimeOutlivesProgram` with timers | One method, one override. |
| `natives` | Does an id mean one object for ever, does each client keep one native object per reference, and does each callback find it? | Four objects for three ids, deletions at any time; nested and failing constructions, objects passed out by their own constructor, objects the sandbox makes, a pure native object; all three client libraries. Three ids let one be deleted, one be under construction and one be passed out. |
| `loading` | Is what counts as loaded loaded, in order and once? | Modules `a`, `b`, `c` where `c` needs `a` and `b`, and `b` needs `a`; two loads at a time, which is what a refused one and an accepted one need; every fault. |
| `dispatch` | Does a super request reach the class's own code, a sandbox access the override? | A member of every sort (method or property, declared or private, on the object, the prototype or nowhere) next to a declared method; one or two native classes that define any of them; calls four deep. Two native classes distinguish the most derived from the others; a super call out of an override out of a super call is four deep. |
| `python_overrides` | *violated:* `NoDuplicates` in Python | As `dispatch`. |
| `values` | Do values go out and come back the same, does only what conforms come in, whatever was returned before? | A class, a subclass with an interface, an unrelated interface, structs, an enum; an object of each class and two literal ones; empty and other arrays and maps of them; 25 types, each also optional, with unions, and structs with and without required properties, one of which an object inherits from its class; all lists of up to three arguments for five parameter lists. Every reachable registration is visited, and in each all values are tried at all types. |
| `async_arguments` | *violated:* `AsyncArgumentsTravel` | As `values`. |
| `packaging` | Are packages built once, after their dependencies, and is success reported only when everything is there? | Three packages in a triangle (one is needed twice) and one that is not jsii's; a target with a tarball and a target with a fingerprint; two runs, any operation fails, killed anywhere; a build, a code-only run with dependencies, a forced one without. The second run meets every state of the disk the first can leave. |
| `diff` | Is a release that is accepted usable wherever the last one was? | A library of two structs that refer to each other and extend one another, an enum, an interface, two classes; 114 releases that vary parameter lists, types in both positions, struct fields, kinds of members, stability and bases; each is compared with each. Values are built two structs deep, which passes the cycle once; up to three arguments. |
| `compiler` | Does the order of visits and checks matter, and is what is generated for an accepted program usable? | 1,296 programs of one to five declarations over a dependency with a struct, an interface and a class, in seven families: structs and interfaces over erased, missing and foreign bases, some of a package further away; classes with constructors, statics and parameter properties; methods whose last parameter is lifted; names; a base that is no class; hierarchies of abstract classes and interfaces with overloads; nested types; and six small programs in 2,184 checkouts each (peers and dependencies that agree or not, five versions of a package, two of them 0.x, bundled packages, `tsconfig.json` of one's own). Every order of visits and of checks. Five declarations allow a chain of three with a type nested in it and a struct beside it. |

### What the properties say

`OneDriver`: at any time at most one thing will make the host read its next
top-level request. `CallbackIdsUnique`: a callback is
queued or handed out, not both. `CallbacksCompleteOnce`: it leaves the kernel
only when it was handed out and the kernel accepts its `complete`, and never
returns; one whose result does not convert can be completed again.
`AwaitsSomething`: a suspended method waits for a callback that exists.
`EndsAgree`: both stacks, with the lines under way taken into account, list the
same open calls in the same order, and the line a process reads next is the one
its innermost call waits for. `CallbacksAccountedFor`: exactly one place of the
client or the wire is responsible for each callback that was handed out, and a
program that is back in its own code has none queued.
`CallsReturn`, `RuntimeStops`: liveness. `CallsNest`: `JsiiRuntime`
implements `RpcStack`.

`TableMatchesTags`, `ReferencesKeepMeaning`: the table and the tags are two
halves of one bijection, and no step makes an id mean another object.
`OverridesReachTheirNative`: the reference that overrides carry leads to the
native object that was constructed with them. `ReferencesStable`: the native
object of a reference changes only at the end of the construction of its
object. `OneReferencePerNative`: a native object has one reference (not in
Python, which marks objects with `__jsii__type__` and looks for
`__jsii_type__`, `_kernel/__init__.py`).

`LoadedIsInKernel`: what a client takes for loaded the kernel has, with all that
it depends on (Java and Python; .NET notes a package before it asks).
`CodeRunsOnce`: a module's code never runs for a second time, which would leave
constructors without tags. `WalkEnds`: liveness.

`SuperNeverBounces`: a request of the program on a member that the class
implements runs the class's code, whatever was overridden and however deep.
`AccessIsVirtual`: sandbox code that uses a declared member runs the native
code if and only if a native class redefines it, and private methods stay
private.

`RoundTrips`: a value that conforms to a type (a reference definition from the
table in `serialization.ts`) can be returned and, sent back, is the same object
or an equal value. It is claimed as long as no object of an exported class went
out as an interface it does not declare: from then on the kernel refuses it
where its class is expected. `AcceptedConforms`: what comes in conforms, json
excepted and as long as no object without an exported class is known as one; and
validation and conversion together accept a call exactly if its arguments fit,
so that the index slip in `_validateMethodArguments` (`kernel.ts:704` reads
`params[j]` for `args[j]`) has no effect. `IdentityKept`: a known object keeps
its reference and its type, also when a conversion fails.

`DependenciesFirst` (of `Packaging`): nothing of a package is generated before
its dependencies are built. `SuccessIsComplete`: exit status 0 means that all
visited packages are built from the present source, and a target misses the
tarball only if a sibling failed before. `TempDirsAreRemoved`: with the option
`clean` (`--no-clean` is to leave the directories) no run that exits by itself
leaves a tarball, and no successful one any temporary directory. `RunEnds`.

`CallersUnaffected`: what a program may pass to a stable member is
accepted by every release that jsii-diff accepts, and what it gets is what it
takes it for. It is stated on values (`ValuesOf`, `Belongs`), which know
nothing of how types are compared. Three things jsii-diff does not look at are
excluded by name: a type that loses a base (`BasesKept`), a variadic method that
gains a parameter before the rest (`Judged`), a constructor that is hidden.
`AssignableIsGreatest`: assuming the pairs that are being checked yields the
largest relation the fields justify, not less (a struct that refers to itself
is assignable to itself) and not more.

`ImplementsCompilation`: the compiler implements `Compilation`: whatever the
order, a program is accepted exactly if its declarations obey the rules
(`WellFormed`, stated on declarations and their ancestors, without visits,
deferreds or dereferences), and the assembly has the types they mean; an
interface is a struct exactly if all that it extends are, and a class has the
constructor of its nearest ancestor with one. `NeverStuck`: no pass over the
deferred checks ends without having run one, which would be an exception.
`ExitTells`: a process that exits with success wrote the assembly (but after an
exception of the assembler, see below).

`OverridesExist`: every `@Override` and every `override` of the generated Java
and C# has a declaration above with the same erased parameters that may be
overridden, in every class and proxy. `ProxiesComplete`: a proxy implements all
that is inherited along any path, each overload of it in Java.
`PythonArgumentsDistinct`: the parameters of a Python method have different
names and are passed by their own. `PythonModuleImports`: the module is
generated, and each class statement finds what it names; for modules whose
nested types are of the modest sort that the comment lists (for the others see
below). `LoadedTypesAgree`: what jsii-reflect loads for the generators has the
version that the compiler used. `DependenciesDeclared`: generated packages
declare every package that their code names. `StructsTravel`: the four ways in
which the properties of a struct are gathered lead to the same struct: the same
values can be built, arrive, and are equal.

### Fairness

`WF(HostStep)`: the runtime is one thread that node schedules whenever it has
work, and the sandbox code is finite (`MaxId`). `WF(ClientGoesOn)`: a native
thread that is not blocked goes on, and an override returns; nothing obliges the
program to start another call or to exit. Timers are excluded where liveness is
checked, because a method may set one for ever. In `ModuleLoading`,
`WF(ClientStep)` is straight-line client code and `WF(KernelStep(s))` is file
operations that finish. In `Packaging`, `WF(PackageStep)` and `WF(TargetStep(j))`
are processes and file operations that end, one way or the other.

### Findings

Each violated run is a behaviour of the code that contradicts what the code's
own comments say.

1. `starved_end`: `begin` and `complete` are answered one event loop turn later,
   so that continuations can queue their callbacks; a method that takes longer
   queues them when the client no longer asks. The host waits in `end`, its
   event loop is empty, and node exits under the client (`host.ts:94`).
2. `python_overrides`: `_get_overides` appends an override for each native class
   times each jsii class or interface that has the member, and the kernel
   refuses duplicates (`_kernel/__init__.py:70`, `kernel.ts:473`).
3. `async_arguments`: the arguments of an async override are converted as if
   they came from the client, so objects, structs and enum members are refused
   (`kernel.ts:625`).

More were met on the way and checked with the same modules, without a run
of their own:

* `_ensureSync` keeps one flag; the end of a nested sync operation clears it for
  the outer ones, and async methods begin inside a sync operation
  (`kernel.ts:928`, `NoBeginInsideSync` of `KernelHost`);
* `load` takes a directory for a loaded module: after a module's code threw, the
  second load fails with a TypeError (`kernel.ts:95`, `LookUpFindsAssembly` of
  `ModuleLoading`);
* after `del` an object that is passed out again gets the id of the registration
  that is gone, which `findObject` then refuses (`objects.ts:92`);
* `_defineOverridenProperty` saves only descriptors of the object itself, so that
  an override of an accessor on the prototype reads `undefined` from super
  (`kernel.ts:536`, `SuperPropertyIsSaved` of `Overrides`);
* a private property whose value is falsy is replaced by an override of a method
  of its name (`kernel.ts:587`, `PrivatesAreSkipped`);
* Python's `resolve` looks a reference up and never stores what it made
  (`_reference_map.py:103`, `NativeIdentity` of `NativeObjects`);
* `jsii-pacmak --no-clean` says that it retains the directory of the tarball and
  removes it (`jsii-pacmak.ts:160`, `RetainedWithoutClean` of `Packaging`);
* an array or a date returned as an interface or a struct is registered as one,
  where the table says that it is refused; an enum member comes in as a member
  of whatever enum its token names (`serialization.ts:203`);
* the files of a generator are written in any order, and `upToDate` looks at one
  of them: after a code-only run that ended between two writes the rest is never
  written (`codemaker.ts:38`, `sphinx.ts:51`, `UpToDateIsComplete` of
  `Packaging`);
* jsii-diff "will assert that code written against version A of a library will
  still typecheck when compiled against version B" (`jsii-diff/README.md:34`),
  and compares no bases: a class that keeps its members and loses its base class
  or an interface is accepted, and can no longer be passed where it could
  (`classes-ifaces.ts:15`, `CodeStillTypechecks` of `Diff`);
* `findParam` returns the rest for every later index, so that `m(...xs)` may
  become `m(x, ...xs)`, which `m()` no longer fits (`classes-ifaces.ts:178`,
  `CallersUnaffected` without `Judged`);
* a constructor that is removed is not reported (`classes-ifaces.ts:28`);
* the interfaces of a class do not include those that its interfaces extend, so
  that `extends` misses them (`class.ts:85` of jsii-reflect).

In the compiler and the generators:

* an exception of the assembler is only logged: its diagnostics are lost and the
  process exits with success and with no assembly, or that of an earlier run
  (`compiler.ts:170`); that is why `ExitTells` excludes the phase `thrown`;
* the error of dependencies in conflicting versions is reported after errors
  were counted: `.jsii` is written and the process fails (`assembler.ts:117`);
* `_buildDependencyClosure` says that it merges the closures of all dependencies
  and merges their direct `dependencies` (`assembler.ts:1358`), so that it ends
  two levels down; a generator that meets a type from further away throws in
  `findModule`. `DependenciesDeclared` does not reach it only because such a
  type cannot be exposed without a warning;
* a package that is a peer and no dependency is let pass by the compiler and is
  neither in `dependencies` nor in the closure (`assembler.ts:241`);
* `package.json` is rewritten by the peer fix even if loading fails afterwards;
* the compiler keeps the last of two versions of a package, the type system the
  first, and throws if it meets another (`project-info.ts:184`,
  `type-system.ts`);
* the validator compares a member with the nearest base class or the first
  interface that declares it, a method that overrides a base class with no
  interface, an inherited method that implements an interface with nothing;
  "overrides win over implementations" holds for methods, for properties it is
  the other way round (`validator.ts:169`); constructors are not looked at when
  references are checked;
* a struct of which no value was given is sent as `{}` by Java, which the kernel
  takes for no argument (`serialization.ts:289`): a required parameter whose
  struct is all optional is refused from Java and accepted from Python;
* Java makes the names of methods safe in classes and proxies and not in
  interfaces (`java.ts:401`); a static method that hides another is given
  `@Override`; the setters of a union of two lists erase to the same;
* C#'s `isMemberDefinedOnAncestor` looks for a property whatever it is asked for
  (`dotnetgenerator.ts:391`); an optional variadic parameter is no `params`; the
  namespace of a foreign type is looked up under the own assembly's name
  (`dotnettyperesolver.ts:51`);
* Python: the lift check covers methods, not constructors, whose clashing
  argument is renamed in the signature and not where it is passed
  (`python.ts:425`); a struct that inherits another along two paths gets its
  keywords twice; a nested type that extends one of an outer level makes the
  generator throw, and so does a class that implements its own nested interface
  and a type that is nested in a struct; the proxy of a nested interface or
  abstract class, and a nested struct that extends its sibling, are looked up
  by names that the module does not have; `interface X extends S, T` where `T`
  extends `S` has no method resolution order.

`shell` returns the promise of a process from inside `try`, so that its retries
never happen (`util.ts:68`); no caller asks for them.

## 4. Theorems

All theorems hold for every value of the constants under the assumptions that
the modules name (`MaxId`, `MaxRid`, `MaxLines`... are naturals, most of them
positive; objects, modules, packages, members are arbitrary sets). `tlapm`
checks them to the last leaf. Each rests on an invariant that every
step keeps, and which is stronger than what it is for.

### The runtime process: `KernelHost_proofs`

About `AnyClient!ProcessSpec`, the runtime with a client that writes anything.

* `TypesHold`: `[]ProcessTypeOK` is inductive by itself: every handler
  answers with what it took from a frame or a line.
* `OneDriverHolds`: `[]OneDriver` is inductive together with the types. The
  proof says for each handler which frames stay below it (`Below`): either it
  was what would read the next request and hands that over, or the frame at
  the bottom still is.
* `CallbackIdsAreUnique`, `CallbacksAreCompletedOnce`: what a step may do to the
  callbacks is one of four things (`QueueNext`, `FetchAll`, `DropOne`,
  `KeepAll`), and ids only grow. The only step that drops one is the completion
  of a callback that was fetched, by a request that names it and whose result
  converts.
* `NoWakeupIsLost`: `[]AwaitsSomething`. `Settle` wakes a method at the latest
  when it completes its last outstanding callback.

### Program and runtime: `JsiiRuntime_proofs`

About `JsiiRuntime!Spec`, the Java client and the runtime joined by the pipes.

* `EndsAlwaysAgree`: `[]EndsAgree`. `Inv` says of each process what its stack
  may look like (`HostInv`, `ClientInv`: which kinds of frames are at the bottom,
  and which may be above which), and of both together that the wire has one of
  three shapes (`Agree`): no line under way, equal stacks, and it is the
  client's turn exactly if no handler is busy; one line to the runtime, with the
  client one request ahead or one completion behind; one line to the client,
  with the runtime one callback ahead or one answer behind. `EndsAgree` alone is
  not inductive: it speaks of the first line only and says nothing of whose turn
  it is. A step is then described by what it does to the wire and to its own
  stack, by one of a few kinds of events (`HostEvent`, `ClientEvent`), and each
  kind keeps the agreement.
* `CallsAlwaysNest`: `CallsNest`, the refinement of `RpcStack`. The initial
  states map to initial states, and each kind of event opens the next item,
  closes the last one, passes the turn, or stutters (`NestsStep`).

* `CallbacksAreAccountedFor`: `[]CallbacksAccountedFor`. The promise is about
  two processes and what is between them, and says nothing of what keeps it; the
  inductive invariant `CallbackInv`, together with `Inv`, does:
  - `Ledger`: each callback that the runtime waits for is held by exactly one
    frame of the client's stack, or is `UnderWay` (a completion on its way to the
    runtime, the refusal or the list of callbacks on its way back), never both;
  - `CallsFit`: the calls on the client's stack have different request numbers,
    and the runtime serves each as what it is, whether the request is on its
    stack, with an immediate, or left to a promise; without it an answer could
    be taken for the answer to another request;
  - `AnswerInv`: what an answer under way tells of the runtime: a list of
    callbacks left the queue empty, an answered `begin` is no longer promised;
  - `Covered`: a queued callback belongs to a method that threw, to one that is
    still beginning, or the client `Fetches` before it is back in its code;
  - `OwnersInv`: owners and registered promises are ids that were handed out.

  Each step of the client passes a callback from one holder to the next or to
  the wire (`ProgramKeepsBooks`); a step of the runtime is described by how its
  stack, its set of waiting callbacks and its queue move (`HostStackMoves`,
  `BooksMove`, `QueueMoves`), and `HostKeepsBooks` follows from these. At the
  end `PlacesCounted` turns "exactly one" into the sum of cardinalities.

The first two have the hypothesis `Orderly`: if continuations of async methods call sync
overrides (`"taskSync"`), then they are not resumed by timers, and sync
overrides make no async calls (`Native = {}`). It is the least that can be
asked: TLC violates `EndsAgree` with `Sandbox = {"timer", "taskSync"}` and with
`Sandbox = {"taskSync"}, Native = {"nestedAsync"}`. In both a continuation runs
when the client is not waiting, and writes a `{"callback"}` line that the next
request of the client meets. Every other combination, all timers included, is
covered. The third needs `Prompt`, that no continuation is resumed by a timer
and that sync overrides make no async calls (which implies `Orderly`), and that
overrides return what converts (`"unmapped" \notin Native`): otherwise a fetched
batch is left behind. TLC refutes it without either half of `Prompt`. With `Sandbox = {"timer"}` a continuation that a
timer resumes while the client waits for `end` queues a callback that nobody
fetches: the promise is settled, the call returns, and the override never runs.
With `Native = {"nestedAsync"}` the `begin` of a nested async call is run by a
`callbackHandler` and refused afterwards, so that its promise stays registered
and its callback queued when the program is back in its code.

### Objects: `NativeObjects_proofs`

About `ObjectTable` and `NativeObjects`.

* `TagsMatch`, `ReferencesKeepTheirMeaning`: the table with registrations and
  deletions. `TableInv` adds that ids not yet handed out mean nothing and that
  no two objects have one tag.
* `IdentityTypesHold`, `CallbacksReachTheirNative`, `ReferencesAreStable`,
  `NativesHaveOneReference`: the three client libraries. The invariant adds that
  constructions under way are of different objects and natives, that a native
  object under construction has no reference yet, and that those in `refs`
  are born.

### Loading: `ModuleLoading_proofs`

* `LoadedModulesAreInKernel`, `CodeIsRunOnce`, `LoadingTypesHold`: for any
  modules, dependencies, number of loads side by side and faults. `LoadsInv`
  says that the load which runs a module's code is the one that moved it into
  place; `AwaitedInv` that the client waits for the load of its innermost call
  only; `WalkInv` that a dependency a call has looked at is loaded or being
  loaded by the call above it. .NET is left out of the last, as it notes a
  package before it asks. The dependencies need no order here: a circle makes
  the walk go on for ever and nothing is loaded.

### Overrides: `Overrides_proofs`

* `SuperReachesTheClass`, `AccessesAreVirtual`, `OverrideTypesHold`: for any
  class, native classes and list of overrides, and calls of any depth. The
  invariant says that until the list is dealt with each redefined member is a
  callback or still in the list (`ListInv`), that nothing else becomes one
  (`CallbackInv`), and that no call is open before the object is created
  (`StackInv`).

### Packaging: `Packaging_proofs`

* `DependenciesAreBuiltFirst`, `SuccessMeansComplete`, `DirectoriesAreRemoved`:
  for any packages, targets, options, number of runs, failures and kills. `Inv`
  says that the calls on the stack wait each for the next one, that only the
  innermost has a directory, and what a target at each stage has written.
* `AcyclicAssumption` is needed for `DependenciesFirst`: in a circle
  `buildPackage` skips a package that is visited and not yet built. jsii
  packages are in no circle, as each was compiled against the assemblies of its
  dependencies. The assumption says that every set of packages has one that
  needs none of the others; the set of calls on the stack is the one in
  question.

### The compiler: `Compiler_proofs`

* `ExitCodeTells`: `[]ExitTells`, for any program and checkout, from what each
  phase says of `file`, `exit` and the errors counted (`OutcomeInv`).
* `DeferredsAreNotStuck`: `[]NeverStuck` for every program with a
  `height` of its types that decreases from a type to those it extends or
  implements (`Ordered`). The least deferred check in this order can always run,
  so a pass that skipped them all found none. The hypothesis is needed: a class
  `A` that implements `B`, while `B` implements `A`, passes the type checker, and
  makes the compiler throw "Could not invoke any more deferreds, cyclic
  dependency?" (`assembler.ts:1291`). `Ordered` speaks of `program` and
  `Foreign` only, which no step changes.
* `CompilationIsImplemented`: `ImplementsCompilation`, the refinement of
  `Compilation`, for every program with such a height, over dependencies that
  are sound. Two more hypotheses say what others see to. `ForeignSound`, of what
  is loaded: no loaded type has the name of one of the program's (names begin
  with the package's), what a loaded type extends is loaded too
  (`project-info.ts` loads the dependencies of dependencies), and a struct has
  no methods and extends structs (the compiler that wrote it saw to that).
  `ProgramTyped`, of the type checker: a class extends one class at most, an enum
  none, and modifiers are Booleans. All of them hold in every state of the seven
  families of programs of `MCCompiler`.

  The promise speaks of recursive readings of the program (`IsStruct`,
  `InheritedInitializer`, `Ancestors`); the assembler settles types one check at
  a time, in any order that the passes allow. Along the height, each reading is
  the only function that satisfies its equation (`FixedPoint`, for functions
  that look down; `StructReading`, `InitializersAre`, `AncestorsAre`). Then every
  check has a `Duty`, what it must find of the program whenever it is invoked,
  and the invariant keeps the books. `KindInv`: if there is no error and no check
  is left that tells, all that is extended or implemented is there and of the
  right kind. If that is so (`AllHold`), `BooksInv`: a type is as it was visited
  and a check is left to settle it, or it is final (`SettledInv`); who refers to a
  type that is to be settled waits for it (`Waits`), and so no check reads what
  is not final; and the visits so far are free of errors exactly if none was
  reported and every deferred check has done its duty (`Clean <=> NoneFound`),
  which is kept because each check, with those that it defers in turn, tells its
  duty (`ChecksTell`). `ThrownInv`: if not, what throws was not well-formed
  anyway. At the end nothing is deferred, so that no error means that every
  declaration obeys (`RelationsTold`), and every type is the one that its
  declaration means.
  A class or interface may wait on two checks that both settle it. A struct that is
  settled again must stay what it is, so the invariant asks of a final struct with
  such a check left that its properties were readonly already, or that an error
  was reported.

`SequenceLemmas` holds what the provers need to know about stacks, and
`LeastNumber`, by which statements about recursive functions on the naturals are
proved (`FlattenExists`, `FixedPoint`): the library's induction takes an
operator, but the least counterexample needs only a set.

### What is only model-checked

* Liveness, for which the prover has no rules for `ENABLED`: `CallsReturn`,
  `RuntimeStops`, `WalkEnds`, `RunEnds`.
* `RoundTrips`, `AcceptedConforms`, `IdentityKept` and the properties of `Diff`:
  conversions and comparisons recurse over types and values with RECURSIVE
  operators, which the prover cannot use.
* The properties of `Generation`: they compare what three generators collect
  from a program, by walks of their own, with what the languages require of the
  sum, and are checked on the 1,296 programs of the run, six of them in 2,184 checkouts.
* The violated properties, which are counterexamples.

## 5. Not modelled

Strings and JSON (a line is a record), logging and tracing, source maps, stack
traces, the child process's stderr, the handshake's version check, the `.NET`
JSON classes, Ruby, and everything that builds the repository itself.

Of the compiler: watch mode, in which an older compilation can write its
assembly after a newer one (`compiler.ts:135`), documentation and literate
sources, the contents of `tsconfig.json`, negated types and other syntax that
the type checker resolves before the assembler sees it. Of the generators: the
text they write, names and escapes, casts, documentation, README and Sphinx;
CodeMaker's open file and indentation. Of jsii-reflect: several roots that are
loaded side by side into one type system, as `jsii-tree` does. Of the runtime
libraries: the conversions of the clients, the protocol clients of Python and
.NET, and the framing of lines (`sync-stdio.ts`).

## 6. Plan

1. *(done)* Runtime protocol, object identity with deletions, module loading,
   overrides, and the first theorems.
2. *(done)* `Serialization` with argument validation, against a reference
   definition of the table in the source.
3. *(done)* `Diff` on a `TypeSystem` module, `Packaging`.
4. *(done)* The compiler from `package.json` to exit against an abstract promise,
   and the generators of three languages after it.
5. The converters of the clients (`JsiiObjectMapper`, `FrameworkToJsiiConverter`,
   `_make_reference_for_native`) on the values of `Serialization`; Python's and
   .NET's protocol clients next to Java's; `Stdio`, framing under short reads.
6. The watch loop; CodeMaker's open file; `@subclassable` in `Diff`.

Theorems to come: the properties of `Generation` that follow from what the
compiler promises, `LoadedTypesAgree` and `OverridesExist` first.

At most a dozen runs are kept, one for each question. Single-component
violations give way to the runs of new modules when these need room, and
their findings then stay in this text.
