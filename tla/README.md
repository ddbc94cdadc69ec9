# go-vmnet in TLA+

go-vmnet loads .NET assemblies and runs their methods in a Go interpreter. This
directory models the parts of it that are hard to test: what concurrent calls do
to shared state, how control unwinds, what a crash leaves behind, where a long
sequence of legal calls leads, and what is computed from arguments nobody wrote
a test for. The modules are translated from the Go
source; `PROJECT.json` names, for each definition, the lines it stands for, for
each property a mutation of the code that breaks it, and for the violated runs the
lines that promise otherwise.

1. [Inventory](#inventory) of the system
2. [Modules](#modules): what each models and how it corresponds to the code
3. [Runs](#runs): instances, bounds, and what they show
4. [Fairness](#fairness)
5. [Proofs](#proofs)
6. [Disagreements](#disagreements) between the code and what is said of it
7. [Not modelled](#not-modelled)
8. [Plan](#plan)

To check: `tlc -config X.cfg M` for the pairs under `runs` in `PROJECT.json`;
`tlapm M.tla` for the modules whose name ends in `Proofs`.

## Inventory

An `Assembly` (assembly.go) holds one loaded .dll: its metadata, caches of built
types, methods and explicit implementations, and links to the assemblies it
depends on. A call from the host makes a `Machine` (internal/interpreter), which
runs IR built from the method's IL, one Go goroutine per host call, one Go stack
frame per .NET frame. The class library is a table of natives (internal/bcl);
natives that call back into methods go through the Machine. `VM` (vm.go,
nuget.go) restores NuGet packages into a cache on disk and links their
assemblies. Assemblies say they are safe for concurrent use, so everything
reachable from one, and from a static field, is shared.

| component | state | operations | hard part | correct means |
|---|---|---|---|---|
| type initialisation: `interpreter/statics.go`, `runtime/class.go` | a `sync.Once` and its error per type; the set of initialisers a Machine is running | static access, `EnsureCctor`, `runCctor` | nesting, recursion, two goroutines, failure, panic | once; statics complete when seen; nobody waits for ever |
| exception handling: `interpreter/exceptions.go`, `eval.go` | the instruction pointer and the `unwind` slot of a frame | raise, leave, endfinally, endfilter, rethrow | nested regions, transfers that replace transfers | finally blocks run; the interrupted transfer resumes |
| call chain: `interpreter/calls.go`, `eval.go`, `async.go`, `reflection.go` | frames, active resolvers, instruction counter, the error in flight | call, return, natives that call back, host entry | errors through native layers, limits, panics | limits stop the run; resolvers are restored |
| virtual dispatch: `calls.go`, `assembly.go` | none: a walk by name | `Machine.call` | hiding, explicit implementations, failures to build | the method of the CLI's slot runs |
| value types: `eval.go`, `runtime/struct.go` | pointers to `Struct` in slots and on the stack | load, store, address, call | aliasing over a sequence of instructions | copies are independent |
| type resolution: `assembly.go` | type and implementation caches, dependencies, shared index | `resolveTypeByFullName`, `resolveExplicitImpl`, `WithDependencies` | races to build, recursion, stale misses, cycles | one type per declaration; the right declaration |
| values computed once: `bcl/system_lazy.go` and others | value and mutex | `Value`, `GetOrAdd`, ... | factories that re-enter, throw | one factory; no mutex left locked |
| statics and synchronisation natives: `runtime/class.go`, `bcl/system_interlocked.go`, ... | the field and `staticsMu` | load, store, address, Interlocked, Monitor | word-by-word copies, read-modify-write | an atomic register |
| collections and linked lists: `bcl/system_collections.go`, `system_hashset.go`, `system_sortedlist.go`, `system_queue.go`, `system_linkedlist.go`, ... | elements in storage order, an index of keys; head, tail, count; the enumerator | add, insert, remove, clear, enumerate | changes during an enumeration, nodes a program keeps | a sequence, a set or a function |
| SQLite and ADO.NET: `bcl/system_data_sqlite.go` | connection, transaction, command and reader objects over `database/sql` | open, begin, commit, execute, read, dispose, in any order | the database fails anywhere | rows are what was committed; the reader tells them |
| streams and readers: `bcl/system_io.go`, `system_io_streamreader.go`, `system_io_stringreader.go` | bytes and a position; runes and a position | read, write, seek, set the length, close, make a reader | positions outside the bytes, short reads, line endings | the bytes last written, each read once |
| package cache: `nuget/cache.go` | files | load, store, fetch | two processes, kills | never a partial package |
| package graph: `nuget/resolver.go`, `nuget.go` | manifest, lockfile, loaded assemblies | add, restore, load | conflicts, diamonds, cycles, failures | locked closure, all of it loaded |
| readers and builders: `pe`, `metadata`, `il`, `ir` | none after construction | decode, translate | widths, offsets, regions that end at an edge | inverse of the encoding; the code means its source |
| interpreter's arithmetic, casts, equality, overloads, type names: `interpreter/arithmetic.go`, `typecheck.go`, `assembly.go` | none | per instruction or call site | boundaries of widths, null and boxed arguments, names as text | the instruction set's and the type system's |
| LINQ and sorting: `interpreter/linq*.go`, `array_sort.go` | none: every operator materialises its sequence | over 60 operators | ties, empty sequences, delegates that raise | what .NET documents of each |
| expression trees: `interpreter/exprcompile.go`, `exprvisitor.go` | environment of an evaluation | evaluate, type, visit | order, assignments, finally | C#'s meaning of the tree |
| reflection and attributes: `interpreter/reflection.go`, `customattributes.go`, `bcl/system_reflection.go` | native objects that remember what was asked | look up members, invoke, enums, attributes | positions across metadata tables | the declarations |
| strings, spans and arrays: `bcl/system_string.go`, `system_span.go`, `system_array.go`, ... | one object each | over 100 natives | edges, overlaps, formats | the characters and elements in their places |
| the rest of the class library | one object each | over 1,100 natives | wording, culture, parsing | .NET's contract |
| checker, bindgen, migrate, command line | none | one pass each | – | – |

Interactions: type initialisation runs inside any instruction that touches a
static and calls methods, which may raise, hit limits or panic; natives call
methods with a mutex held (`Lazy`, `ConcurrentDictionary`); resolution hands
types with their `Once` to several goroutines, so one type built twice would be
initialised twice; loading the package graph makes the dependency links that
resolution walks.

The hazards, each with its line and the properties meant to catch it, are in
`PROJECT.json`.

## Modules

Where a module has an abstract counterpart, the detailed one is shown to
implement it. Modules named MC... give the constants of instances. The
components that interact meet in CallChain (natives and static initialisers as
activations), in TypeInit (initialisers that start one another) and in IRCode
(decoder, builder and interpreter loop). **MCRuntime**, **MCNuGet**,
**MCLibrary** and **MCAlgorithms** put components beside each other that share no
state, one per behaviour, as a choice of the initial state. A module ending in Proofs holds the
theorems about the modules it extends.

**TypeInit** (abstract: **TypeInitAbs**). Per type a `Once` (fresh, running,
done) and its recorded error, per goroutine a stack of initialisers and the
Machine's `cctorsRunning` set. Actions are the steps of `staticType`, `runCctor`
and `EnsureCctor`: entering the Once, returning early for a type this Machine is
already initialising, blocking, finishing with or without an error, a limit, a
panic that `Machine.Invoke` recovers. What the statics contain is abstracted to
whether the initialiser is finished. TypeInitAbs initialises a type in one step,
with one outcome.

**ExceptionUnwind**. One frame: instruction pointer, the single `unwind` slot,
the exception. `Methods` is a constant, a set of IR bodies with handler tables;
`FrameStep` is the interpreter loop on one instruction: `Dispatch` is
`dispatchException`, `LeaveThrough` and `ResumeDispatch` with the actions named
EndFinally and EndFilter are `ir.Leave`, `resumeAfterFinally` and
`resumeAfterFilter`. Which exception a catch takes is a parameter. `conts` and `caught` record, for the
properties alone, what each finally or filter interrupted and each catch took.

**CallChain**. A stack of activations of methods and of the four kinds of native
that call back (an async state machine, a struct constructor, a static
initialiser, reflective construction), the resolvers of the active assembly, the
error in flight and how it is wrapped, the counter of instructions. Every way
out of `invoke` is an action: return, exception, limit, panic. A method's
protected regions are abstracted to at most one try with a catch or a finally;
ExceptionUnwind has the rest. `GoStack` activations fill the stack of the goroutine,
which ends the host's process (`Overflow`).

**VirtualDispatch**. A program says what each class of a chain declares under
one name; the actions are the four attempts of `Machine.call` in order. `Target`
is the method that the CLI's slots select. Overload scoring is abstracted to
whether a lone candidate fits the arguments. Not admitted: an interface whose
method has the name and arity of one of System.Object's.

**StructValues** (abstract: **ValueSemantics**). Slots (locals, arguments, a
static field, an outer struct with a struct field), operand stacks and addresses
hold pointers to Structs; a Struct is named after a place that leads to it, so
the state is finite. One action per instruction that loads, stores, addresses,
passes or returns a struct, cloning exactly where the code does. In
ValueSemantics a struct is its contents. `leaked` records, for the properties, that a
struct has been written while another slot or operand held it, or that a slot has been
assigned while an address within it was held. Boxed structs are left out.

**TypeResolve**. Several goroutines, each with the Go call stack of
`resolveTypeByFullName`, `buildType` or `resolveExplicitImpl`, over the caches,
`deps` and the index that the assemblies of a package graph share. Reading a
cache, building and storing are separate steps, as they are in the code; locks
cover each alone.

**OnceCompute** (abstract: **OnceMap**). `Lazy`, `ThreadLocal` and
`ConcurrentDictionary`: mutex, value, and the goroutines' stacks of operations,
whose factories use other containers, throw and catch. The action `Catch` lets
any factory catch what it called, which is more than C# programs do. OnceMap
reads and writes a cell in one step.

**SharedStatics** (abstract: **Register**). One static field, of a number or an
object type, whose Values are copied word by word in any order; `staticsMu` with
readers, a writer that announces itself and waits for them; and the operations
through the field's address, which take no lock. `raced` records whether an
address was ever used while another operation was at work.

**LinkedList** (abstract: **NodeLists**). Nodes with list, prev, next and value
for two lists, and each native as one action; NodeLists keeps sequences.
`KeepsNodes` says whether programs use a node after clearing its list.

**Collections** (abstract: **CollectionContract**). Eleven kinds of collection,
each stored as the code stores it (a slice, keys in the order of insertion with
an index, a sorted slice), and one enumerator, which may be a live index or a
snapshot. The contract is a sequence, a set or a function and an answer to each
call; the answers include which exception, and which failures no program can
catch.

**AdoNet**. A connection, one command, its transactions and a reader, used in any
order, each native one action that asks the database one or more times; any of
these may fail. Rows are numbers in words of `Words` values, for the conversions
between Go's int64 and the program's Int32.

**Streams**. The bytes, the position and the file of a MemoryStream or
FileStream, and a log of what was written and cut; the StringReader that any
StreamReader is made of; and the loop that empties a stream of the plugin's own,
whose Read answers with as much as it likes. Bytes and characters are the same
small numbers.

**NuGetCache**. Files and inodes: a name may point to an inode that another
process still writes to. One action per system call of `Cache.Load`, `Store` and
`Fetch`; a process may be killed between any two. The download is one action.
`clashed` records the packages that two processes ever stored at once.

**NuGetGraph**. `Add`, `Restore` with the recursive resolver and its unification
of versions, the lockfile, and `LoadPackage`'s recursive load, each of which may
fail half-way. The feed (packages, versions, dependencies, whether a package has
an assembly) is chosen initially.

The following modules have no variables. The code they model computes an answer
from its arguments; each has the code's functions as operators of the same
names, a set of tasks (all small arguments), and a `...Standard(task, answer)`
that says what is promised without the code's loops and tables.

**Queries**: the operators of LINQ and the sorting natives, with delegates as
functions that may raise. **Arithmetic**: every arithmetic, comparison and
conversion opcode and the numeric natives, with integers of `Bits` bits and
floats of halves that are rounded, overflow to infinities and include NaN, but have one
precision and one zero. **ILOpcodes** and **IRCode**: the opcode table, the decoder,
the builder and the loop over instructions; the reference is a language of
statements with `Emit`, what a C# compiler makes of it, and `Means`, what it
means. **TypeNames**: types as text, written by the builder, completed by a
running frame, taken apart by reflection, against types as trees. **Overloads**:
the scores of `pickMethodOverload`, casts, assignability, equality and hashes,
against a small type system. **Metadata**: PE sections, heaps, tables, coded
indices, signatures, constants and attributes, against a writer; a byte has
`Byte` values, so that every width's limit is met by a few rows. **Expressions**:
evaluation, static type and visiting of expression trees. **Reflection**: members,
parameters, enums, attributes and relations of types over four assemblies,
against the declarations. **Texts**: strings, formats, StringBuilder, spans and
arrays, where a text is a sequence of code points.

## Runs

Every run is exhaustive for its instance. Each property of a passing run has a
mutation of the code (`PROJECT.json`, `mutants`) that makes the same run fail; a
property that is a conjunction of named parts (`StaticsAreWhole`, `UnwindInv`,
`HandlersRunInOrder`, `ErrorsAreNotLost`, `ResolveInv`, `RightDeclaration`,
`StaticsInv`, `GraphInv`, `CacheInv`, `StructuresAreSound`) has one for most of
its parts. The type invariants of TypeInit, OnceCompute, CallChain, NuGetCache,
NuGetGraph, SharedStatics, StructValues, TypeResolve, AdoNet, LinkedList, Collections,
Streams and ExceptionUnwind are proved; those of the other modules are parts of what the runs check. The
times are those of two workers.

| run | instance | states, time | shows |
|---|---|---|---|
| runtime | initialisers: 2 goroutines, 3 types, a nested, a recursive and a shared dependency, one that may panic; a field: 2 calls, of either type, at most 2 increments; a frame: 14 methods with the shapes the C# compiler emits, three with stray terminators, every call may raise one of two types or fail | 121,000, 1 min | the Onces and the reentrancy sets agree; no half-initialised statics are seen but after a panic; every access is answered and outcomes are final; TypeInitAbs is implemented; the field is an atomic register, no update is lost, accesses return; the right handlers run, in order, the interrupted transfer resumes, no finally is skipped, unwinding ends; `FrameInv`, the invariant of the proofs, holds in the 14 methods |
| typeinit_deadlock | mutually dependent types | – | violated: two goroutines wait for ever |
| call_chain | 2 assemblies, depth 1, 3 instructions, all four natives, a Go stack of 6 activations | 616,000, 45 s | resolvers are restored, depth is bounded since the host or a reflective construction began, limits abort, exceptions and finally blocks are not lost except where listed below, the host gets its answer unless reflective constructions fill the Go stack |
| structs | caller and callee, a local and an argument each, an element of a List, a stack of 2 | 183,000, 1 min | slots never share a Struct; ValueSemantics is implemented until a struct leaks |
| struct_arguments | the same without the List | – | violated: a callee that writes its by-value parameter writes the caller's local |
| type_resolve | 2 goroutines, 5 assemblies, base and field types in others, native types, one explicit implementation, an index that answers early | 56,000, 25 s | one type per declaration, complete layouts, an assembly's own type before any other, the index's only for an assembly that has none below it, the cached implementation is current, calls return |
| package_cycle | two packages that depend on each other | – | violated: a name neither declares fills the Go stack |
| once | 2 goroutines, two Lazys, a ThreadLocal and a dictionary in a chain, 2 operations each, a factory that throws | 178,000, 3 min | one factory per container, no mutex left, OnceMap is implemented, operations return |
| nuget | the cache: 2 processes, 2 packages of 2 blocks, one in common, killed anywhere; the graph: 3 packages in 2 versions, 1,350 feeds, restored and loaded again and again | 1,110,000, 80 s | no partial entry, whole packages, unless two processes stored the package at once; a download is returned whatever happens to its file; the lockfile is closed and serves the manifest; loading attaches all of it; both end |
| library | a collection of each kind, 3 keys, 2 values, at most 3 elements, one enumerator; 2 linked lists, 4 nodes; one database, one transaction, 2 rows; a stream of 3 bytes changed twice, readers of all its line endings, a plugin's stream of 5 bytes | 1,790,000, 3 min | CollectionContract and NodeLists are implemented; storage stays in order; enumerations miss and repeat nothing; rows are what was committed, and readers tell them; bytes are the last written; readers lose nothing |
| stream_read | a plugin's stream of 5 bytes that may answer short, asked for 2 at a time | – | violated: the reader ends at the first short answer |
| algorithms | all tasks of the ten families (for call sites: all programs of 4 classes that a compiler accepts) | 2,970,000, 2 min | each answer is the standard's; the right method runs |

Why the bounds are enough. Two goroutines are what a race over one Once, cache
entry or mutex takes; that a third adds nothing is proved for the safety of
TypeInit, NuGetCache and OnceCompute. Three types give a chain, a diamond and a
self-reference. In CallChain the limit of one nested call is reached from every
native in two assemblies, and errors travel one activation at a time, so a
longer chain repeats the pairs; `MaxInstrs` lets a method work, fail in a
handler and run out. `GoStack` stands for the Go stack: within the limits of one
construction the chain stays below it (`CallChainAssumption`), and constructions by
reflection, each of which starts to count anew, reach it. `MaxFrames` of TypeResolve is
the Go stack's room there, which only `package_cycle` reaches; that no other look-up does,
for any instance without such a ring, is `StacksSuffice`. Two
operands are what an instruction on structs takes; in `structs` a method
that has put a struct into a collection calls none (`Bounded`), and static fields
(`Shared`), with which it takes five minutes, are left to the theorems, which are about any slots. Two words make a copy that can be torn. Two blocks make a file that can
be partial, four inodes let each process create, replace and re-create. Four
nodes in two lists give a head, a middle and a tail, and a node of the wrong
list. Four classes give a gap on either side of two declarations, and the
theorem about them has no bound. Integers of 2 to 6 bits keep the order of the
widths of .NET (each kind is narrower than the next, a float holds less than the
longest integer), and the tasks go through all operands, so every boundary is
met. Three elements of a sequence give a tie with something on either side; the
tables of Metadata have row counts at, below and above each limit. Where a theorem is listed below, the bound no
longer matters.

Deadlock checking is off in seven runs: in `call_chain` a single call is followed to
its end, in `once` the calls are bounded (`MaxCalls`), in `library` the operations are
(`MaxItems`, `MaxOpens`, `MaxChanges`), `algorithms` and `stream_read` end with the
answer, in `package_cycle` with the full stack, and `typeinit_deadlock` is about a
liveness property that a deadlock would hide.

Some properties hold only under an exception that is part of the property:
`raced`, `clashed`, `leaked`, `MayDrop`, `NestsSuspension`, `NestsCatch`, `Plain`. Each names the
circumstance in which the code breaks the promise, as narrowly as TLC let us;
[Disagreements](#disagreements) lists them.

## Fairness

| specification | fairness | why |
|---|---|---|
| TypeInit, TypeResolve | weak, per goroutine | the Go scheduler runs every runnable goroutine; a `sync.Once` releases all its waiters at once, and the lock sections of TypeResolve are single steps |
| OnceCompute, SharedStatics | strong, per goroutine | a goroutine that waits for a mutex is repeatedly, not continually, able to take it; Go's starvation mode hands the mutex to a waiter, and a writer of an RWMutex that announced itself holds off new readers |
| ExceptionUnwind (`FairFrameSpec`) | weak, of the steps within the method | the interpreter loop does not stop on its own |
| CallChain | weak, of the next step | the same; one goroutine |
| NuGetGraph | weak, of the work in progress, not of the user's requests | one goroutine of Go code |
| NuGetCache, StructValues, VirtualDispatch, and what `library` and `algorithms` put together | none | no liveness is claimed; NuGetCache's HTTP client has no timeout; the rest answers in one step |

## Proofs

TLAPS checks the following for every value of the constants that satisfies the
named assumption of the module (`TypeInitAssumption` and so on: the constants
have their types, and the None-like values are none of the real ones).

**TypeInitProofs.** `IInv` is types; a Once runs exactly while one Machine lists
the type (`RunningIsOwned`); the entries of a stack are distinct types that this
Machine runs, each started by the one below it (`CallChains`); a done Once
without an error has finished statics unless its initialiser can panic
(`Settled`). Without `CallChains` the invariant is not inductive: an early
return is harmless only because the type is on this goroutine's own stack.
From it follow `WholeStatics` (the property of the run), `NeverWaitsForItself`,
`OutcomeIsFinal`, and `NoDeadlock`, whose own hypothesis is that the static reads of initialisers are
well-founded: a set of goroutines that wait only for each other would give a set
of types with no minimal one. `Refinement` shows that each step of `staticType` and
`runCctor` is a step of TypeInitAbs or stutters; the nested initialisers a
goroutine is in are no part of what TypeInitAbs sees.

**CallChainProofs.** `IInv` is that the resolvers saved in the activations chain
back to the host's (`Chained`). `ResolversAreRestored` follows;
`DepthIsBounded` maps the methods active since the host or the last reflective
construction into `0..MaxDepth` by an injection, since their depths rise
strictly (`RisingOf`). `NoErrorIsLost` goes through every action for each of the
three properties of `ErrorsAreNotLost`. It needs two facts more: native
callers have no handlers (`NativesAreOpen`), and a host's call begins without an
error (`Fresh`).

**SharedStaticsProofs.** `FieldIInv` says who holds `staticsMu` and how, and, until an
address is used against another access, that the field is what the operations
that returned have made, but for the words that the one at work has already
replaced (`Accounted`). Without `Accounted` nothing follows at a writer's return.
`StaticsStayWhole` is the property of the run and `FieldIsARegister` the
refinement of Register; a writer that has replaced its first word counts as done
there, for any number of words and calls.

**TypeResolveProofs.** `IInv` is about what each frame of the Go stack knows: the
assembly itself and the dependencies before the one being asked do not have the
type (`Sought`), a type under construction is the own assembly's or, as a last
resort, the index's (`Building`), the frame above is for the question the frame
below waits for, and what is returned answers it (`ReturnsAreRight`). It holds
for cyclic dependencies and any number of goroutines. `LookupsEndRight`
(`RightDeclaration`, the property of the run) and `LayoutsAreComplete` follow. It does
not say that a dependency's type comes before the index's: that is false, since a
dependency falls back to the index before the next one is asked (`DependenciesComeFirst`, see [below](#disagreements)).
All of them assume `~AttachLate`: a host attaches dependencies before the first
call. The code does not enforce it, and without it the statements are false: the
caches remember misses.

`ResolutionIsSound` is `ResolveInv`, the invariant of the run. Its parts, and that the
Go stack does not overflow, rest on an invariant each, all named in TypeResolve. `ImplsAreCurrent`: the
classes a walk has been at are the first k above the receiver's, all
different, and none but the last may have the method (`WalkKnows`); a walk that
meets a class again has therefore been at all there are. `ZeroValuesAreMade`: a
frame at depth d is about a struct whose fields nest at most `MaxDepth - d` deep
(`ZerosAreMade`). `StacksSuffice`: the k-th frame is about a look-up that needs no
more than the `MaxFrames + 1 - k` frames there still are (`FramesFit`). The last two
are false for some instances and have a hypothesis: `StructsAreShallow`, no struct
nests deeper than `maxValueTypeDepth`; and, for the stack, `StackSuffices`, no chain of look-ups
through packages, bases and fields is longer than the stack, in particular none
leads back to its start. `ResolutionIsSound` needs the first only: it holds for packages
in cycles. Both are computed from the declarations, and from `deps` and
the index, not from the run; in the run's instance TLC finds them, and the three
invariants, true in every state (they take too long to be in the cfg). The
ancestors, the nesting and the look-ups are defined by recursion over numbers; the
module proves what such a definition yields from the least number principle
(`Counting`, `Iterates`), which needs no operator as a parameter.

Two theorems hold with late attaching as well: `TypeCorrect`, and `EachTypeIsOne`
(`OneTypeForAll`): whoever builds, and whatever is attached meanwhile, the Type
that is handed out is the one that is cached, for ever.

**NuGetProofs, the cache.** `CacheIsSound` is the cache's property of the run: a
package that no two processes stored at the same time has no partial entry
(`CrashSafety`) and what Fetch returns of it is whole (`WholePackages`), with any
number of processes, packages and blocks. `IInv`
adds to the two that an inode has one name, that a process writes to no other
package's file, and that without a clash the inode of a `.tmp` name has exactly
one writer and holds what this writer has written.

**NuGetProofs, the graph.** `PackagesFitTogether`: the lockfile is closed and
serves the manifest (`LockInv`), a load attaches all of it (`LoadIsComplete`), for
every set of ids, feed and history of requests, whatever fails half-way.
`LockfileIsEnough`: no dependency of a locked package is reported as not locked.
The invariant `GraphIInv` says of both walks that nothing is forgotten: what a
resolved package asks for has a sufficient version, or an activation for that
package still has it before it (`NothingForgotten`; `NothingUnlinked` of the
load). The point is the walk that comes back to a package it is in the middle of
with a higher version: the activation above has the new dependencies before it,
and the one below goes on with the old ones, which nothing needs any more.
`NuGetGraphAssumption` is that a feed serves a package under its own id
and that versions are positive. That a lockfile can be written in order
(`CanBeSorted`) is a lemma of its own: a bijection of a finite set of ids with
numbers, sorted by an injective key.

**LibraryProofs, values computed once.** `IInv` (`Invariance`): a mutex is held exactly while a factory of its
container is on a stack, at most one, and the slot it computes is empty. Hence
one factory at a time, no mutex left behind whatever fails, and the refinement
`ContainersAreAtomic`, step by step, for any containers and factories.

**LibraryProofs, ADO.NET.** `AdoInv` ties each live transaction to the rows it has
pending, each stored row to the transaction or the command that stored it, and a
reader to the rows its statement saw. `TransactionsAreAllOrNothing` and
`ReadersTellWhatWasStored` hold for any number of transactions, rows, reopened
databases and failures.

**LibraryProofs, linked lists.** `ChainInv`: what an enumeration of a list meets is
the list's chain, a sequence of distinct nodes in which each links to the one after
and the one before, head and tail are its ends, and `count` is its length. A node
that is in no list has no links (`NewNodesAreFree`): without that a node added for the
second time would bring its old neighbours with it, which is why the theorems are
about programs that keep no node across `Clear` (`KeepsNodes = FALSE`; see
[below](#disagreements)). An enumeration follows links, and `WalkIsTheChain` shows where it
gets. Adding is at an end; taking out has four cases, first, last, both and inside.
`ListsAreChains` is `ListInv`; `ListsAreSequences` is the refinement of NodeLists,
where an operation inserts into or takes out of a sequence.

**LibraryProofs, collections.** `StoreInv` says how each kind keeps its elements:
distinct keys, sorted ones, the two halves of a SortedList of one length. For the
binary search of the sorted kinds, `BisectionFinds`: in an increasing sequence it ends
at the key or where the key belongs, for every interval it can be in, by the
interval of least length for which it would not. So inserting keeps the order.
`EnumInv` says what an enumerator has shown: the first `Shown` elements as long
as nothing was changed behind it, and of a copy, elements at rising places of it.
`CollectionsKeepTheContract` goes through the operations of the eleven kinds: each
does to the abstract content (list, set, map, stack or queue) what CollectionContract
says, and answers so. A map's keys and values beside each other stand for a function
(`MapOf`), and removing an element from both is removing the key from it.

**LibraryProofs, streams.** `StreamInv`: every byte of the buffer, and every zero
beyond its end, is what the history of writes and cuts says of that place;
a byte beyond the end matters, since a later write makes it one of the gap.
`ReaderInv`: what the reader was asked for so far divides what it has passed into
pieces, one for each call, each what the call gave, but for the one ending of a line.
A "\r" at the end of what is known is the case to look at. `PluginInv`: as
long as the bytes of a plugin's stream are being read, their number is a multiple of
the chunk, so that a reader that ends early has just had a short answer.

**LibraryProofs, the four parts.** `LibraryInv` is the invariants of the four
together. A step of one leaves the variables of the others alone, and so their
invariants; `LibraryIsSound`, `LibraryKeepsLists`, `LibraryKeepsTheContract` and
`LibraryKeepsRows` are the properties of the run `library`, for all constants that satisfy
`LibraryAssumption`: keys are integers, contents and pieces are sequences of them,
the number of nodes is finite, a chunk is not empty, and bounds are naturals.

**StructValuesProofs.** `SlotsStaySeparate`: no two slots share a Struct. The
invariant adds only that owned slots hold a Struct or nothing: operands may be
shared with anything, since each store clones. Most of the proof shows that
renaming Structs after each step is injective.

The second part is about what a program sees. `HeapInv` says where slots,
operands and passed addresses lead, and which frames have locals; `TypeCorrect`
follows. `ValuesAreImplemented` is the refinement: each instruction is one of
ValueSemantics, or changes nothing seen. It is a theorem about
the whole specification: programs write structs through parameters and keep addresses
as they like, and each step refines until the first that `leaked` names, a struct
written while it is held elsewhere or a slot assigned while an address within it is
held. From then on it is false (see Disagreements). Until then (`LeakInv`)
`AddressesLead` is invariant as well: an
address leads into the Struct its slot holds now. `Becoming` shows that naming the
Structs anew, as each step does in the end, changes none of the contents
(`SlotView`, `StackView`, `RefView`); what remains is a lemma per instruction on
the heap before the renaming. `StructValuesAssumption` asks that the marks for no
number and no item are no number and no item.

**InterpreterProofs, exception handling.** `HandlersResume` (`UnwindInv`) and
`HandlersInOrder` (`HandlersRunInOrder`): both properties that `runtime` checks
of a frame but termination, for every method that is `WellFormed`, every set of exception types
and whatever raises or fails where. `WellFormed` is what ECMA-335 I.12.4.2 demands
of a method: two clauses are apart, one is in one region of the other, or they are
alternatives of one try; control falls and branches into tries only, leaves get
out of tries and catches only, and endfinally and endfilter are in their own body.
The code checks none of it, since a compiler sees to it; the run assumes it of its
14 methods (`MethodsAreWellFormed`), and the three with stray terminators stay with
TLC.

The frame has one slot for an interrupted transfer. `SlotIsLocal` says that it
belongs to a clause c and a place o which c guards, and that the body that runs is
c's or has c inside. Hence a finally around the end of a body is around o as well,
comes after c in the order of the candidates and is still pending: none is
skipped, even where one transfer has overwritten another. That it is the right
transfer needs `OneSuspended`: unless a try lies in the body of a finally, fault or
filter, one transfer is suspended at a time, and it is the slot's. `CatchIsCurrent`
is the same of the one `currentException`, unless catches nest. `StepKinds` sorts
the steps of a valid method into eight kinds; every later lemma is a case per kind.

**InterpreterProofs, virtual dispatch.** `DispatchIsRight`, for chains of any length: in a
program without hiding, fitting overloads, re-implementation and broken bodies
(`Plain`) the method the CLI selects runs. The loop invariant, `NoneBelow`, is
that no class behind the walk declares the name.

**InterpreterProofs, arithmetic.** `ArithmeticIsStandard`: what `ArithmeticIsTheCLIs`
finds for the edge values of small integers and floats holds for integers of any widths,
floats of any mantissa and any largest number, every value, every set of references and
structs of any fields. The
standard is stated without the code's formulas: a wrapped result lies in its kind and
differs from the exact one by a multiple of 2^w, a quotient is characterised by
its remainder, an operand's bit by its division. The lemmas are therefore about
`Signed` and `Unsigned` (`SignedHolds`, `Wraps`), division towards zero, and the
bits of a sum of powers, by induction on their number over a recursive function. A float
result is the exact one, rounded: `RoundedIsNearest` says that the code's is the nearest
number of halves, the even one of two, or an infinity from halfway between the largest
and the next on; the rest (`SumsAreStandard` to `RestsAreStandard`) is infinities, zeros
and NaN case by case. The standard leaves out what the code is known to do otherwise: the
unordered comparisons of NaN, the least integer by -1,
`conv.r.un` of negatives and the checks of `.ovf`. The
hypothesis, `Widths`, says that the kinds have widths, that an I4 is narrower than an
I8, that NaN is no integer, that Infinity is a positive number of halves and that no object is the null reference, and recalls
2^(n+1) = 2 * 2^n, the definition of a power, which the provers know of numerals
only. NaN is an integer in the run, -1000, but none that a float of it can be.

Only model-checked: liveness (the prover has neither ENABLED nor fairness); ExceptionUnwind
on methods that are not well formed; what StructValues does after a leak; and the other
modules of `algorithms`, which compute over data with RECURSIVE operators: the provers
can use neither those nor the library's induction theorems.

## Disagreements

Four runs find the code at odds with what the repository says of it; `findings` in
`PROJECT.json` quotes each promise in full.

- `typeinit_deadlock`: two goroutines which enter mutually dependent types from different
  ends wait for ever, although an Assembly is "safe for concurrent use"
  (assembly.go:19-20).
- `package_cycle`: packages that depend on each other ask each other without end for a
  name neither declares, although "a dependency cycle terminates cleanly rather than
  recursing forever" (nuget-support.md:114-115).
- `struct_arguments`: a by-value argument shares its Struct with the caller's local,
  although Clone is called for "Machine.invoke's argument setup" (struct.go:41-46).
- `stream_read`: a StreamReader over a plugin's stream ends at the first Read that answers
  short, although the stream is said to be read "until it reports 0 bytes read"
  (calls.go:856).

The following, too, differ from what a comment, a document or .NET's contract
as the repository states it says. Each can be seen by the change in the last
column: a property of the module that is in no cfg, a property without one of
its exceptions, or another value of a constant.

| where | what happens | to see it |
|---|---|---|
| TypeInit | a panic completes the Once without an error (class.go:184); the next access sees partial statics | drop the exception for `Panics` from `NoPartialStatics` |
| TypeInit | one call's limit is cached and fails later calls | `LimitStaysInItsCall` |
| ExceptionUnwind | try/finally, or a filter, within a finally overwrites the one `unwind` slot: the outer transfer is lost | `ResumesWhatItInterrupted` without `NestsSuspension` |
| ExceptionUnwind | a finally that a caught exception cut short leaves its transfer in the slot, and a later endfinally goes on with it | `FirstMatchingCatch`, `FaultOnlyForExceptions` and `RethrowsItsOwn` without `NestsSuspension` |
| ExceptionUnwind | after a try/catch within a catch, rethrow raises the inner exception ("a narrow known gap", frame.go:26) | `RethrowsItsOwn` without `NestsCatch` |
| CallChain | reflective construction starts again at depth 0 with a fresh budget (eval.go:250), so a constructor that constructs its own type fills the Go stack and ends the process, which the limits are to prevent "deterministically and recoverably" (security.md:21-24) | `HostSurvives` |
| CallChain | depth, array and string limits, and limits a static initialiser wrapped, become a faulted task, and the run goes on | `LimitsAbort` without the task clause of `MayDrop` |
| CallChain | `new T()` of a struct drops what its constructor threw | `ExceptionsAreHandled` without "ctor" |
| CallChain | an exception through a static initialiser is wrapped as another error and skips finally blocks | `FinallyRuns` with `err.kind = "managed"` for `err = Err("managed")` |
| VirtualDispatch | a callvirt of a non-virtual or hidden method runs the derived class's; a fitting overload is taken for an override; a base's explicit implementation wins over a derived class's own; an override that does not build is replaced by the base's method | `RightMethodRuns` without one conjunct of `Plain` each |
| StructValues | elements of collections and operands share their Struct as arguments do; an address stays with a Struct that its variable has left | `ImplementsValues`, `AddressesFollowTheirSlot` without `leaked` |
| TypeResolve | the index is asked by the first dependency before the second one is asked, although it is "an absolute last resort" behind the whole chain of dependencies (assembly.go:53-55) | `DependenciesComeFirst` |
| TypeResolve | a remembered miss outlives the dependency that would have helped, although the look-up is "a pure function of the loaded metadata, which never changes" (assembly.go:83-86); a Type built without its base stays, too | `AttachLate = TRUE`: `ImplCacheIsCurrent` |
| TypeResolve | a struct's static field of its own type starts as Null, not as "a real zero-valued struct" (assembly.go:2613-2619) | `OwnTypeDefaultsAreZero` |
| OnceCompute | a GetOrAdd factory that uses its own dictionary waits for itself, as do two factories that cross, although the sandbox "reliably stops a buggy or accidentally-adversarial plugin from hanging" its host (security.md:118-119) | `Body <- Reentrant`: `OperationsReturn` |
| OnceCompute | a Lazy's factory that threw runs again | `FactoryRunsOnce` |
| OnceCompute | concurrent calls share one ThreadLocal cell | `OwnValue` |
| SharedStatics | ldsflda and Interlocked go past the lock: a reader sees half of a write, an update is lost | `ReadsAreWhole`, `NoUpdateIsLost` without `raced` |
| – | Monitor.Enter and Exit change nothing, so lock excludes nobody | – |
| NuGetCache | two processes share one `.tmp` name, and one that dies leaves a partial package under the final name, which "a crash mid-write can never" do (cache.go:31-33) | `StoredEntriesAreWhole` |
| Arithmetic | `cgt.un`, `clt.un` and the `.un` branches on floats answer as the ordered comparisons when an operand is NaN; they are listed as having "real execution semantics" (supported-il.md:77-82) | `ComparisonsAreTheCLIs` of MCAlgorithms |
| LinkedList | removing a node of a cleared list makes Count −1 | `KeepsNodes = TRUE`: `TypeOK`, `CountIsLength` |
| NuGetGraph | what lies behind a package without an assembly is not loaded (nuget.go:175) | `ClosureIsLoaded` with `loaded[lp.id] # "no"` |
| NuGetGraph | a dependency whose id is spelled in another case resolves and is then reported as not locked (nuget.go:167) | `DependenciesAreLocked` without its second disjunct |

The modules that compute answers leave the following cases out of their tasks, or
name them in their standard: there the code differs from .NET, and in the first
five from its own comments.

- Overloads: two parameters of one type parameter with arguments of different
  run-time kinds, and a boxed number for an interface parameter, are refused as if
  no overload fitted, because `box` leaves a number as it is (builder.go:352-356)
  while the comment (assembly.go:388-420) says boxing always makes an object.
- Texts: `#` of a custom format is a digit that is always shown
  (system_string.go:936 says it is optional).
- Expressions: a block's variable that has a value already is not reset
  (system_linq_expressions.go:121-128).
- Reflection: `IsSubclassOf(typeof(object))` is false for a class whose bases are
  all the plugin's (reflection.go:746-752 says true for any class).
- CancellationTokenSource (in no module): "nothing in vmnet ever runs two call chains
  concurrently" (system_cancellationtoken.go:28) against assembly.go:19-20;
  `CancelAfter` does nothing and a registered callback never runs.
- Overloads, further: byte and int, boxed enums, `M(string)` and `M(T)` of a generic
  class, `M(object, A[])` and `M(A, A)`, `ref` and value, and a host's null are picked
  by declaration order; delegates may be cast to anything, strings and arrays to no
  interface; a delegate, a byte or a reference does not equal itself; -0.0 equals 0.0
  but hashes differently.
- Arithmetic: `conv.r.un` is signed, `.ovf` is unchecked, dividing by zero is
  no exception a program can catch, the smallest integer by -1 wraps, `Math.Abs` of a
  long goes through a float, NaN compares equal, a delegate compared with null fails.
- TypeNames: `IsGenericType` of an array answers for its element; `Name` of a closed
  type has its arguments; `typeof(T)` of a class's parameter is empty where the
  receiver is no object.
- Queries: operators run at once, not when enumerated; `Sum` wraps; `ToDictionary`
  overwrites; a failing list or dictionary is no exception a program can catch.
- Metadata: constants of type char from 0x8000 on are negative; enum arguments of
  attributes are read as four bytes; arrays of several dimensions and function
  pointers are refused; an RVA behind a section's raw data reads what follows.
- Expressions, further: arguments before the object, the right side before the member;
  assignments of a lambda invoked in place are lost; some overloads of `Block` and
  `Call`; the visitor passes over Try and ArrayIndex; evaluation costs no
  instructions of `MaxInstructions`.
- Reflection, further: members of base types are not listed; `GetInterfaces` is not
  transitive; closed names are compared without opening them; a derived class's
  field that hides a base's shares its slot; parameter lists that do not parse
  shift the rows behind them; `Enum.Parse` wraps and knows no lists of flags; only
  attributes of types are seen, and a failing attribute constructor is dropped.
- Texts, further: `IndexOf` and `LastIndexOf` ignore some of their arguments and take
  a StringComparison for a start; `Split` by several characters splits nothing;
  replacing "" inserts everywhere; only `Trim` knows blanks beyond ASCII; `Length` counts
  code points; `Array.Resize` fills with null; `Buffer.BlockCopy` counts elements.
- Collections: changing a collection does not end its enumerations; a key of several
  fields is a text joined by commas that are not escaped, so two keys may be one
  (system_collections.go:890-995).
- AdoNet: Close keeps the database, so a transaction and a reader live on where .NET
  rolls back; a command of a finished transaction commits by itself; Commit after
  Rollback succeeds; a fetch's error ends the rows without a word; `HasRows` is false
  before the first Read; one named parameter makes all of them named.
- Streams: a negative Position is accepted, and a later call panics; `CopyTo` from
  behind the end panics; writing after Close works and never reaches the file; a
  reader of a stream positioned behind its end reads it from the start, and no
  reader moves its stream.

## Not modelled

`PROJECT.json` lists every component with the reason. The checker, the binding
generator, the migration advisor and the command line make one pass over their
input and keep nothing; the natives written for particular libraries (Dapper,
Open XML) stand for single methods; XML is a sequential walk over a tree that
Go's parser made; regular expressions, dates, numbers as text, colours, files,
archives and HTTP are passed to Go's libraries. Benchmarks, examples and
templates only use the public API, whose values and options are conversions and
constructors. Within the modelled components, `note` in `PROJECT.json` says what
is left out. Formatting is modelled in Texts as far as characters move; wording
and culture are left out throughout.

Three hazards have no property. An error that is no managed exception passes every
finally by: ExceptionUnwind ends the frame with it, and its properties excuse it. Monitor's Enter and Exit, and the flag of a
CancellationTokenSource, are not synchronised: a property of mutual exclusion is
false as soon as it is written. An exception within an exception filter would
need the two-pass search of the CLI, over all frames, to compare with.

## Plan

The extension of the model is done as far as the code's own logic goes: what is
left is listed above. Left to prove: the modules of `algorithms`, whose RECURSIVE
operators would first become recursive functions, about which TypeResolveProofs
shows how to reason; what StructValues keeps of a program's values after a leak; and
of TypeResolve with late attaching, that a type is cached for an assembly that declares
it only.
