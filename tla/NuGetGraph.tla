----------------------------- MODULE NuGetGraph -----------------------------
(***************************************************************************)
(* From the manifest to a loaded assembly with its dependencies:           *)
(* NuGetManager.Add and Restore, Resolver.Resolve, BuildLockFile,          *)
(* VM.LoadPackage and loadLockedPackage (nuget.go, internal/nuget).        *)
(*                                                                         *)
(* The feed offers every package in every version; what a version is like  *)
(* (the id its nuspec gives, whether an asset can be selected, the         *)
(* dependencies that apply) is feed[key][version].  Versions are numbers,  *)
(* in the order CompareVersions puts them.  A package id comes in several  *)
(* spellings, the same to ToLower and EqualFold (Key), different to ==.    *)
(* The recursion of visit and of loadLockedPackage is the sequence stack   *)
(* of activations, each with the dependencies it has yet to go through.    *)
(***************************************************************************)
EXTENDS Naturals, Sequences, SequencesExt

CONSTANTS Alphabet, \* the spellings of package ids, in the order of sort.Strings
          Key,      \* Key[id]: the id in lower case
          Feeds,    \* the contents the feed may have: what it publishes, by key and version
          Direct,   \* dependencies Add may be asked to record
          NoPackage \* no package

Ids == ToSet(Alphabet)
Keys == {Key[id] : id \in Ids}

Dependency == [id : Ids, version : Nat \ {0}]
Package == [id : Ids, version : Nat \ {0}, asset : BOOLEAN, deps : Seq(Ids)]

\* A feed serves a package, in whatever spelling, under its own id.
ASSUME NuGetGraphAssumption ==
    /\ Alphabet \in Seq(Ids)
    /\ NoPackage \notin Ids \cup Package
    /\ Direct \subseteq Dependency
    /\ \A f \in Feeds, k \in Keys : \A v \in DOMAIN f[k] :
          /\ v \in Nat \ {0}
          /\ f[k][v] \in [id : {id \in Ids : Key[id] = k}, asset : BOOLEAN, deps : Seq(Dependency)]

VARIABLES feed,      \* what is published
          manifest,  \* vmnet.json: the direct dependencies, in order
          phase,     \* what the program is doing
          stack,     \* activations of visit or of loadLockedPackage
          versions,  \* Resolve's versions, by key; 0 is no entry
          resolved,  \* Resolve's result, by key
          lock,      \* vmnet.lock.json: the set of locked packages
          loaded,    \* LoadPackage's memo: no, nil or asm, by spelling
          attached   \* WithDependencies calls: <<dependent, dependency>>

graph == <<feed, manifest, phase, stack, versions, resolved, lock, loaded, attached>>

AtRest == {"idle", "restored", "restoreFailed", "loaded", "loadFailed"}

GraphInit ==
    /\ feed \in Feeds
    /\ manifest = <<>>
    /\ phase = "idle"
    /\ stack = <<>>
    /\ versions = [k \in Keys |-> 0]
    /\ resolved = [k \in Keys |-> NoPackage]
    /\ lock = {}
    /\ loaded = [id \in Ids |-> "no"]
    /\ attached = {}

Activation(id, deps) == [id |-> id, deps |-> deps]
Activations == [id : Ids \cup {NoPackage}, deps : Seq([id : Ids, version : Nat])]
Top == Last(stack)
Busy == stack # <<>> /\ Top.deps # <<>>
Next1 == Head(Top.deps)

\* Mutant: the loop does not move on.
GoneNowhere == stack

\* The innermost activation is done with its first dependency.
Advanced(s) == Append(Front(s), [Last(s) EXCEPT !.deps = Tail(@)])
GoneOn == Advanced(stack)

\* Mutant: the error is recorded and the walk goes on.
FailGoesOn(p) ==
    /\ phase' = p
    /\ UNCHANGED stack

Fail(p) ==
    /\ phase' = p
    /\ stack' = <<>>

-----------------------------------------------------------------------------
(* NuGetManager.Add, Manifest.Add                                          *)

Add(d) ==
    /\ phase \in AtRest
    /\ manifest' =
          IF \E i \in DOMAIN manifest : Key[manifest[i].id] = Key[d.id]
          THEN [i \in DOMAIN manifest |->
                  IF Key[manifest[i].id] = Key[d.id]
                  THEN [manifest[i] EXCEPT !.version = d.version] ELSE manifest[i]]
          ELSE Append(manifest, d)
    /\ phase' = "idle"
    /\ UNCHANGED <<feed, stack, versions, resolved, lock, loaded, attached>>

-----------------------------------------------------------------------------
(* NuGetManager.Restore, Resolver.Resolve                                  *)

\* Mutant: only the first direct dependency is visited.
RestoreBeginsFirst ==
    /\ phase \in AtRest
    /\ phase' = "resolving"
    /\ stack' = <<Activation(NoPackage, SubSeq(manifest, 1, IF manifest = <<>> THEN 0 ELSE 1))>>
    /\ versions' = [k \in Keys |-> 0]
    /\ resolved' = [k \in Keys |-> NoPackage]
    /\ UNCHANGED <<feed, manifest, lock, loaded, attached>>

RestoreBegins ==
    /\ phase \in AtRest
    /\ phase' = "resolving"
    /\ stack' = <<Activation(NoPackage, manifest)>>
    /\ versions' = [k \in Keys |-> 0]
    /\ resolved' = [k \in Keys |-> NoPackage]
    /\ UNCHANGED <<feed, manifest, lock, loaded, attached>>

Visiting == phase = "resolving" /\ Busy

\* Ids on the chain from a direct dependency down to here.
OnChain(id) == \E i \in 2..Len(stack) : Key[stack[i].id] = Key[id]

VisitCycle ==
    /\ Visiting
    /\ OnChain(Next1.id)
    /\ Fail("restoreFailed")
    /\ UNCHANGED <<feed, manifest, versions, resolved, lock, loaded, attached>>

\* Mutant: the first version seen wins.
VisitKnownFirstWins ==
    /\ Visiting
    /\ ~OnChain(Next1.id)
    /\ versions[Key[Next1.id]] > 0
    /\ stack' = GoneOn
    /\ UNCHANGED <<feed, manifest, phase, versions, resolved, lock, loaded, attached>>

\* Already resolved at an equal or newer version.
VisitKnown ==
    /\ Visiting
    /\ ~OnChain(Next1.id)
    /\ versions[Key[Next1.id]] >= Next1.version
    /\ stack' = GoneOn
    /\ UNCHANGED <<feed, manifest, phase, versions, resolved, lock, loaded, attached>>

\* The package is not published, cannot be fetched or is no package.
VisitFails ==
    /\ Visiting
    /\ ~OnChain(Next1.id)
    /\ versions[Key[Next1.id]] < Next1.version
    /\ versions' = [versions EXCEPT ![Key[Next1.id]] = Next1.version]
    /\ Fail("restoreFailed")
    /\ UNCHANGED <<feed, manifest, resolved, lock, loaded, attached>>

\* What Resolve records of a package.
Resolved(k, v) ==
    LET pkg == feed[k][v]
    IN  [id |-> pkg.id, version |-> v, asset |-> pkg.asset,
         deps |-> [i \in DOMAIN pkg.deps |-> pkg.deps[i].id]]

VisitPackage ==
    /\ Visiting
    /\ ~OnChain(Next1.id)
    /\ versions[Key[Next1.id]] < Next1.version
    /\ Next1.version \in DOMAIN feed[Key[Next1.id]]
    /\ LET k == Key[Next1.id]
       IN  /\ versions' = [versions EXCEPT ![k] = Next1.version]
           /\ resolved' = [resolved EXCEPT ![k] = Resolved(k, Next1.version)]
           /\ stack' = Append(GoneOn, Activation(Next1.id, feed[k][Next1.version].deps))
    /\ UNCHANGED <<feed, manifest, phase, lock, loaded, attached>>

\* visit returns to the loop of its caller.
VisitReturns ==
    /\ phase = "resolving"
    /\ Len(stack) > 1 /\ Top.deps = <<>>
    /\ stack' = Front(stack)
    /\ UNCHANGED <<feed, manifest, phase, versions, resolved, lock, loaded, attached>>

\* The same ids in the order of sort.Strings.
Position(id) == CHOOSE i \in DOMAIN Alphabet : Alphabet[i] = id
InOrder(ids, f) ==
    \A i, j \in DOMAIN ids : i < j => Position(ids[f[i]]) <= Position(ids[f[j]])
Sorted(ids) ==
    LET f == CHOOSE g \in Surjection(DOMAIN ids, DOMAIN ids) : InOrder(ids, g)
    IN  [i \in DOMAIN ids |-> ids[f[i]]]

\* BuildLockFile and WriteLockFile.
Locked(rp) == [rp EXCEPT !.deps = Sorted(@)]

RestoreWrites ==
    /\ phase = "resolving"
    /\ Len(stack) = 1 /\ Top.deps = <<>>
    /\ lock' = {Locked(resolved[k]) : k \in {j \in Keys : resolved[j] # NoPackage}}
    /\ phase' = "restored"
    /\ stack' = <<>>
    /\ UNCHANGED <<feed, manifest, versions, resolved, loaded, attached>>

-----------------------------------------------------------------------------
(* VM.LoadPackage, loadLockedPackage                                       *)

\* The names of a lock entry's dependencies: no version goes with them.
Named(ids) == [i \in DOMAIN ids |-> [id |-> ids[i], version |-> 0]]

LoadBegins(id) ==
    /\ phase \in AtRest
    /\ phase' = "loading"
    /\ stack' = <<Activation(NoPackage, Named(<<id>>))>>
    /\ loaded' = [i \in Ids |-> "no"]
    /\ attached' = {}
    /\ UNCHANGED <<feed, manifest, versions, resolved, lock>>

Loading == phase = "loading" /\ Busy

\* Mutant: packages without an asset are passed over.
FoundWithAsset(id) == {lp \in lock : lp.id = id /\ lp.asset}

\* The lock entry of exactly this spelling.
Found(id) == {lp \in lock : lp.id = id}

\* Mutant: a dependency found in the memo is not attached again.
AttachNot(id) == attached

\* The dependency's assembly, if it has one, becomes one of the dependent's.
Attach(id) ==
    IF Top.id # NoPackage /\ loaded[id] = "asm" THEN attached \cup {<<Top.id, id>>} ELSE attached

LoadMemoised ==
    /\ Loading
    /\ loaded[Next1.id] # "no"
    /\ stack' = GoneOn
    /\ attached' = Attach(Next1.id)
    /\ UNCHANGED <<feed, manifest, phase, versions, resolved, lock, loaded>>

LoadNotLocked ==
    /\ Loading
    /\ loaded[Next1.id] = "no" /\ Found(Next1.id) = {}
    /\ Fail("loadFailed")
    /\ UNCHANGED <<feed, manifest, versions, resolved, lock, loaded, attached>>

\* NoPackage of its own to load: its dependencies are not looked at either.
LoadNoAsset ==
    /\ Loading
    /\ loaded[Next1.id] = "no"
    /\ \E lp \in Found(Next1.id) : ~lp.asset
    /\ loaded' = [loaded EXCEPT ![Next1.id] = "nil"]
    /\ stack' = GoneOn
    /\ UNCHANGED <<feed, manifest, phase, versions, resolved, lock, attached>>

\* Not in the cache, not readable, or the locked asset is missing.
LoadFails ==
    /\ Loading
    /\ loaded[Next1.id] = "no"
    /\ \E lp \in Found(Next1.id) : lp.asset
    /\ Fail("loadFailed")
    /\ UNCHANGED <<feed, manifest, versions, resolved, lock, loaded, attached>>

\* Mutant: the dependencies of a dependency are not walked.
LoadAssemblyShallow ==
    /\ Loading
    /\ loaded[Next1.id] = "no"
    /\ \E lp \in Found(Next1.id) :
          /\ lp.asset
          /\ stack' = Append(stack, Activation(Next1.id, IF Top.id = NoPackage THEN Named(lp.deps) ELSE <<>>))
    /\ loaded' = [loaded EXCEPT ![Next1.id] = "asm"]
    /\ UNCHANGED <<feed, manifest, phase, versions, resolved, lock, attached>>

LoadAssembly ==
    /\ Loading
    /\ loaded[Next1.id] = "no"
    /\ \E lp \in Found(Next1.id) :
          /\ lp.asset
          /\ stack' = Append(stack, Activation(Next1.id, Named(lp.deps)))
    /\ loaded' = [loaded EXCEPT ![Next1.id] = "asm"]
    /\ UNCHANGED <<feed, manifest, phase, versions, resolved, lock, attached>>

\* The dependent attaches what it gets back and goes on.
LoadReturns ==
    /\ phase = "loading"
    /\ Len(stack) > 1 /\ Top.deps = <<>>
    /\ LET caller == stack[Len(stack) - 1]
       IN  /\ stack' = Advanced(Front(stack))
           /\ attached' = IF caller.id # NoPackage
                          THEN attached \cup {<<caller.id, Top.id>>} ELSE attached
    /\ UNCHANGED <<feed, manifest, phase, versions, resolved, lock, loaded>>

LoadEnds ==
    /\ phase = "loading"
    /\ Len(stack) = 1 /\ Top.deps = <<>>
    /\ phase' = IF \E id \in Ids : loaded[id] = "asm" THEN "loaded" ELSE "loadFailed"
    /\ stack' = <<>>
    /\ UNCHANGED <<feed, manifest, versions, resolved, lock, loaded, attached>>

-----------------------------------------------------------------------------
Work ==
    \/ VisitCycle
    \/ VisitKnown
    \/ VisitFails
    \/ VisitPackage
    \/ VisitReturns
    \/ RestoreWrites
    \/ LoadMemoised
    \/ LoadNotLocked
    \/ LoadNoAsset
    \/ LoadFails
    \/ LoadAssembly
    \/ LoadReturns
    \/ LoadEnds

GraphNext ==
    \/ \E d \in Direct : Add(d)
    \/ RestoreBegins
    \/ \E id \in Ids : LoadBegins(id)
    \/ Work

GraphSpec == GraphInit /\ [][GraphNext]_graph

\* A restore or a load that has begun goes on.
FairGraphSpec == GraphSpec /\ WF_graph(Work)

-----------------------------------------------------------------------------
GraphTypes ==
    /\ manifest \in Seq(Dependency)
    /\ phase \in AtRest \cup {"resolving", "loading"}
    /\ phase \in AtRest <=> stack = <<>>
    /\ stack \in Seq(Activations)
    /\ versions \in [Keys -> Nat]
    /\ resolved \in [Keys -> Package \cup {NoPackage}]
    /\ lock \subseteq Package
    /\ loaded \in [Ids -> {"no", "nil", "asm"}]
    /\ attached \subseteq Ids \X Ids

\* The locked versions satisfy one another: whatever a locked package depends
\* on is locked as well, at the version it asks for or a newer one, however
\* often a version was replaced on the way (resolver.go:21-24).
LockIsClosed ==
    \A lp \in lock :
        LET deps == feed[Key[lp.id]][lp.version].deps
        IN  \A i \in DOMAIN deps :
               \E other \in lock :
                  Key[other.id] = Key[deps[i].id] /\ other.version >= deps[i].version

\* ... and so are the direct dependencies, and no package is locked twice.
LockServesManifest ==
    phase = "restored" =>
        /\ \A i \in DOMAIN manifest :
              \E lp \in lock :
                 Key[lp.id] = Key[manifest[i].id] /\ lp.version >= manifest[i].version
        /\ \A a, b \in lock : Key[a.id] = Key[b.id] => a = b

\* The lockfile is consistent: it serves what the manifest asks for, once each, and
\* whatever that depends on, at a version all its dependents accept.
LockInv ==
    /\ GraphTypes
    /\ LockIsClosed
    /\ LockServesManifest

\* A dependency of a locked package is never reported as missing from the
\* lockfile: Restore has computed the whole graph LoadPackage walks.  What may be
\* missing is the dependent's spelling of an id that its own package spells in
\* another case.
DependenciesAreLocked ==
    [][phase = "loading" /\ Top.id # NoPackage /\ Busy /\ loaded[Next1.id] = "no"
          => \/ Found(Next1.id) # {}
             \/ \E lp \in lock : lp.id # Next1.id /\ Key[lp.id] = Key[Next1.id]]_graph

\* Every assembly that was loaded has all its loaded dependencies attached,
\* through diamonds and cycles: the memo is filled before they are walked.
AllAttached ==
    phase = "loaded" =>
        \A lp \in lock : loaded[lp.id] = "asm" =>
            \A dep \in ToSet(lp.deps) : loaded[dep] = "asm" => <<lp.id, dep>> \in attached

\* LoadPackage loads the "full transitive dependency closure" (nuget.go:109-114)
\* of the packages with an assembly: what such a package of the closure depends on
\* was loaded or has nothing to load.  Behind a package without an assembly of its
\* own nothing is looked at.
ClosureIsLoaded ==
    phase = "loaded" =>
        \A lp \in lock : loaded[lp.id] = "asm" =>
            \A dep \in ToSet(lp.deps) : loaded[dep] # "no"

\* A load that succeeds is complete: everything with an assembly that the packages
\* with an assembly need was loaded and is attached to what needs it.
LoadIsComplete == AllAttached /\ ClosureIsLoaded

\* What is locked fits together, and what is loaded is whole.
GraphInv == LockInv /\ LoadIsComplete

-----------------------------------------------------------------------------
(* Why a walk leaves nothing out: an invariant that is inductive           *)

\* What the activations from the second on have still to do, by the id they are for.
Outer == 2..Len(stack)
Pending(j, d) == d \in ToSet(stack[j].deps)

\* Each walk starts from an activation that is for no package.
Rooted ==
    phase \in {"resolving", "loading"} =>
        /\ stack # <<>> /\ stack[1].id = NoPackage
        /\ \A j \in Outer : stack[j].id \in Ids

\* A key has a version if and only if it has a package: that version of it, which
\* is published.
ResolvedIsPublished ==
    phase = "resolving" =>
        /\ \A k \in Keys : versions[k] > 0 <=> resolved[k] # NoPackage
        /\ \A k \in Keys : resolved[k] # NoPackage =>
              versions[k] \in DOMAIN feed[k] /\ resolved[k] = Resolved(k, versions[k])

\* What a resolved package or the manifest asks for has been found, or an activation
\* has it before it.
NothingForgotten ==
    phase = "resolving" =>
        /\ \A k \in Keys : resolved[k] # NoPackage =>
              \A d \in ToSet(feed[k][versions[k]].deps) :
                 \/ versions[Key[d.id]] >= d.version
                 \/ \E j \in Outer : Key[stack[j].id] = k /\ Pending(j, d)
        /\ \A d \in ToSet(manifest) : versions[Key[d.id]] >= d.version \/ Pending(1, d)

\* The lockfile tells what is published, of one version of each package.
LockIsPublished ==
    /\ \A lp \in lock :
          LET k == Key[lp.id]
          IN  /\ lp.version \in DOMAIN feed[k]
              /\ ToSet(lp.deps) = {d.id : d \in ToSet(feed[k][lp.version].deps)}
    /\ \A a, b \in lock : Key[a.id] = Key[b.id] => a = b

\* An activation loads the dependencies of a locked package whose assembly the memo
\* has, and the next one is for the dependency it has got to.
LoadsInPlace ==
    phase = "loading" =>
        /\ \A j \in Outer :
              /\ loaded[stack[j].id] = "asm"
              /\ \E lp \in lock : lp.id = stack[j].id
                    /\ \A d \in ToSet(stack[j].deps) : d.id \in ToSet(lp.deps)
        /\ \A j \in 1..(Len(stack) - 1) :
              stack[j].deps # <<>> /\ Head(stack[j].deps).id = stack[j + 1].id

\* The dependent is done with the dependency.
Linked(id, dep) ==
    loaded[dep] # "no" /\ (loaded[dep] = "asm" => <<id, dep>> \in attached)

\* A dependency of a loaded assembly is loaded and attached, or waits to be.
NothingUnlinked ==
    phase \in {"loading", "loaded"} =>
        \A lp \in lock : loaded[lp.id] = "asm" =>
            \A dep \in ToSet(lp.deps) :
               \/ Linked(lp.id, dep)
               \/ \E j \in Outer : /\ stack[j].id = lp.id
                                   /\ \E d \in ToSet(stack[j].deps) : d.id = dep

GraphIInv ==
    /\ feed \in Feeds
    /\ GraphTypes
    /\ Rooted
    /\ ResolvedIsPublished
    /\ NothingForgotten
    /\ LockIsPublished
    /\ LockIsClosed
    /\ LockServesManifest
    /\ LoadsInPlace
    /\ NothingUnlinked

\* Restoring and loading come to an end, whatever conflicts and cycles there are.
WorkEnds == (phase \in {"resolving", "loading"}) ~> (phase \in AtRest)
=============================================================================
