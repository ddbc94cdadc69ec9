---------------------------- MODULE NuGetProofs ----------------------------
(***************************************************************************)
(* The package cache is crash-safe for every number of processes, packages *)
(* and blocks, except for packages that two processes stored at one time.  *)
(*                                                                         *)
(* For every feed, the lockfile that Restore writes is closed under        *)
(* dependencies, and a load that succeeds has attached all of them.        *)
(***************************************************************************)
EXTENDS NuGetCache, NuGetGraph, SequenceTheorems, WellFoundedInduction, TLAPS

\* An empty cache satisfies the invariant.
LEMMA InitIInv == Init => IInv
BY NuGetCacheAssumption
   DEF Init, IInv, TypeOK, NoCorruptEntry, OneName, OwnPackage, Alone, Storing, OwnTmp,
       Resting, Whole, disk

\* No other process stores the package that p stores without a clash.
LEMMA Apart ==
    ASSUME IInv, NEW p \in Procs, NEW q \in Procs, p # q,
           Storing(p), Storing(q), want[p] \notin clashed
    PROVE  want[p] # want[q]
BY DEF IInv, Alone

\* The steps that leave the disk alone keep the invariant.
LEMMA QuietSteps ==
    ASSUME IInv, NEW p \in Procs,
           \/ \E k \in Packages : FetchBegins(p, k)
           \/ LoadHit(p) \/ LoadMiss(p) \/ DownloadFails(p) \/ Downloads(p)
           \/ Closes(p) \/ WriteFails(p) \/ Crash(p)
    PROVE  IInv'
<1> USE NuGetCacheAssumption
<1>1. content' = content /\ entry' = entry /\ tmp' = tmp /\ clashed' = clashed
  BY DEF FetchBegins, LoadHit, LoadMiss, DownloadFails, Downloads, Closes, WriteFails, Crash, disk
<1>2. NoCorruptEntry' /\ OneName'
  BY <1>1 DEF IInv, NoCorruptEntry, OneName, Whole
<1>own. OwnPackage' /\ Alone'
  <2>1. \A q \in Procs : fd'[q] # None => fd'[q] = fd[q] /\ want'[q] = want[q]
    BY DEF FetchBegins, LoadHit, LoadMiss, DownloadFails, Downloads, Closes, WriteFails, Crash,
           disk, IInv, TypeOK, Resting
  <2>2. \A q \in Procs : pc'[q] \in {"write", "rename"} =>
            pc[q] \in {"write", "rename"} /\ want'[q] = want[q]
    BY DEF FetchBegins, LoadHit, LoadMiss, DownloadFails, Downloads, Closes, WriteFails, Crash,
           disk, IInv, TypeOK, Resting, Becomes
  <2>3. QED
    BY <1>1, <2>1, <2>2 DEF IInv, OwnPackage, Alone, Storing
<1>3. CASE \E k \in Packages : FetchBegins(p, k)
  BY <1>1, <1>2, <1>own, <1>3 DEF IInv, TypeOK, OwnTmp, FetchBegins, Becomes, Resting, Whole
<1>4. CASE LoadHit(p)
  <2>1. /\ want[p] \in Packages /\ entry[want[p]] \in Inodes
        /\ want[p] \notin clashed => content[entry[want[p]]] = Whole
    BY <1>4 DEF IInv, TypeOK, NoCorruptEntry, LoadHit, Resting
  <2>2. TypeOK'
    BY <1>1, <1>4, <2>1 DEF IInv, TypeOK, LoadHit, Becomes, Resting
  <2>3. OwnTmp'
    BY <1>1, <1>4, <2>1 DEF IInv, TypeOK, OwnTmp, LoadHit, Becomes, Resting, Whole
  <2>4. QED
    BY <1>2, <1>own, <2>2, <2>3 DEF IInv
<1>5. CASE LoadMiss(p)
  BY <1>1, <1>2, <1>own, <1>5 DEF IInv, TypeOK, OwnTmp, LoadMiss, Becomes, Resting, Whole
<1>6. CASE DownloadFails(p)
  BY <1>1, <1>2, <1>own, <1>6 DEF IInv, TypeOK, OwnTmp, DownloadFails, Becomes, Resting, Whole
<1>7. CASE Downloads(p)
  BY <1>1, <1>2, <1>own, <1>7 DEF IInv, TypeOK, OwnTmp, Downloads, Becomes, Resting, Whole
<1>8. CASE Closes(p)
  <2>1. want[p] \notin clashed =>
            fd[p] \in Inodes /\ tmp[want[p]] = fd[p] /\ content[fd[p]] = Whole
    BY <1>8 DEF IInv, TypeOK, OwnTmp, Closes, Whole
  <2>2. TypeOK'
    BY <1>1, <1>8 DEF IInv, TypeOK, Closes, Becomes, Resting
  <2>3. OwnTmp'
    BY <1>1, <1>8, <2>1 DEF IInv, TypeOK, OwnTmp, Closes, Becomes, Whole
  <2>4. QED
    BY <1>2, <1>own, <2>2, <2>3 DEF IInv
<1>9. CASE WriteFails(p)
  BY <1>1, <1>2, <1>own, <1>9 DEF IInv, TypeOK, OwnTmp, WriteFails, Becomes, Resting, Whole
<1>10. CASE Crash(p)
  BY <1>1, <1>2, <1>own, <1>10 DEF IInv, TypeOK, OwnTmp, Crash, Becomes, Resting, Whole
<1>11. QED
  BY <1>3, <1>4, <1>5, <1>6, <1>7, <1>8, <1>9, <1>10

\* Emptying a .tmp hurts no entry, and no other writer unless it is a clash.
LEMMA OpenTmpStep ==
    ASSUME IInv, NEW p \in Procs, OpenTmp(p)
    PROVE  IInv'
<1> USE NuGetCacheAssumption
<1>1. PICK i \in Inodes :
        /\ i = tmp[want[p]] \/ (tmp[want[p]] = None /\ Free(i))
        /\ tmp' = [tmp EXCEPT ![want[p]] = i]
        /\ content' = [content EXCEPT ![i] = {}]
        /\ fd' = [fd EXCEPT ![p] = i]
  BY DEF OpenTmp
<1>2. /\ pc[p] = "store"
      /\ pc' = [pc EXCEPT ![p] = "write"]
      /\ pos' = [pos EXCEPT ![p] = 0]
      /\ entry' = entry /\ want' = want /\ data' = data
      /\ want[p] \in Packages
      /\ clashed' = IF Clash(p) THEN clashed \cup {want[p]} ELSE clashed
  BY DEF OpenTmp, Becomes, IInv, TypeOK, Resting
<1>3. \A k \in Packages : entry[k] # i /\ (k # want[p] => tmp[k] # i)
  BY <1>1, <1>2 DEF IInv, OneName, Free
<1>4. \A q \in Procs : want[q] \in Packages /\ want[q] # want[p] => fd[q] # i
  BY <1>1, <1>2 DEF IInv, TypeOK, OwnPackage, Free
<1>5. /\ clashed \subseteq clashed'
      /\ \A k \in Packages : k # want[p] /\ k \in clashed' => k \in clashed
  BY <1>2
<1>6. /\ tmp'[want[p]] = i /\ fd'[p] = i /\ pc'[p] = "write" /\ pos'[p] = 0
      /\ \A k \in Packages : k # want[p] => tmp'[k] = tmp[k]
      /\ \A q \in Procs : q # p => fd'[q] = fd[q] /\ pc'[q] = pc[q] /\ pos'[q] = pos[q]
      /\ content'[i] = {}
      /\ \A j \in Inodes : j # i => content'[j] = content[j]
  BY <1>1, <1>2 DEF IInv, TypeOK
<1>7. TypeOK'
  <2>1. clashed' \subseteq Packages
    BY <1>2 DEF IInv, TypeOK
  <2>2. QED
    BY <1>1, <1>2, <2>1 DEF IInv, TypeOK, Resting
<1>8. NoCorruptEntry'
  BY <1>2, <1>3, <1>5, <1>6 DEF IInv, TypeOK, NoCorruptEntry, Whole
<1>9. OneName'
  BY <1>2, <1>3, <1>6 DEF IInv, OneName
<1>10. OwnPackage'
  <2> SUFFICES ASSUME NEW q \in Procs, NEW k \in Packages, fd'[q] # None, k # want[q]
               PROVE  entry[k] # fd'[q] /\ tmp'[k] # fd'[q]
    BY <1>2 DEF OwnPackage
  <2>1. CASE q = p
    BY <1>3, <1>6, <2>1
  <2>2. CASE q # p
    <3>1. want[q] \in Packages
      BY <1>6, <2>2 DEF IInv, TypeOK, Resting
    <3>2. CASE k = want[p]
      BY <1>4, <1>6, <2>2, <3>1, <3>2 DEF IInv, OwnPackage
    <3>3. CASE k # want[p]
      BY <1>6, <2>2, <3>3 DEF IInv, OwnPackage
    <3>4. QED
      BY <3>2, <3>3
  <2>3. QED
    BY <2>1, <2>2
<1>11. Alone'
  <2> SUFFICES ASSUME NEW q \in Procs, NEW r \in Procs, q # r,
                      Storing(q)', Storing(r)', want[q] = want[r]
               PROVE  want[q] \in clashed'
    BY <1>2 DEF Alone
  <2>1. CASE q = p \/ r = p
    BY <1>2, <1>6, <2>1 DEF Storing, Clash
  <2>2. CASE q # p /\ r # p
    BY <1>5, <1>6, <2>2 DEF IInv, Alone, Storing
  <2>3. QED
    BY <2>1, <2>2
<1>12. OwnTmp'
  <2> SUFFICES ASSUME NEW q \in Procs
               PROVE  /\ pc'[q] \in {"store", "write", "rename"} => data[q] = Whole
                      /\ want[q] \notin clashed' =>
                           /\ pc'[q] = "write" =>
                                tmp'[want[q]] = fd'[q] /\ content'[fd'[q]] = 1..pos'[q]
                           /\ pc'[q] = "rename" =>
                                tmp'[want[q]] # None /\ content'[tmp'[want[q]]] = Whole
                           /\ pc'[q] = "done" => data[q] = Whole
    BY <1>2 DEF OwnTmp, Whole
  <2>1. CASE q = p
    <3>1. 1..0 = {} /\ data[p] = Whole
      BY <1>2 DEF IInv, OwnTmp
    <3>2. QED
      BY <1>6, <2>1, <3>1
  <2>2. CASE q # p
    <3>1. CASE Storing(q) /\ want[q] \notin clashed'
      <4>1. want[q] # want[p] /\ want[q] \in Packages /\ want[q] \notin clashed
        BY <1>2, <1>5, <2>2, <3>1 DEF Clash, Storing, Resting, IInv, TypeOK
      <4>2. tmp'[want[q]] = tmp[want[q]] /\ tmp[want[q]] # i /\ tmp[want[q]] \in Inodes
        BY <1>3, <1>6, <3>1, <4>1 DEF IInv, TypeOK, OwnTmp, Storing
      <4>3. content'[tmp[want[q]]] = content[tmp[want[q]]]
        BY <1>6, <4>2
      <4>4. QED
        BY <1>6, <2>2, <3>1, <4>1, <4>2, <4>3 DEF IInv, OwnTmp, Storing
    <3>2. CASE ~(Storing(q) /\ want[q] \notin clashed')
      BY <1>5, <1>6, <2>2, <3>2 DEF IInv, OwnTmp, Storing
    <3>3. QED
      BY <3>1, <3>2
  <2>3. QED
    BY <2>1, <2>2
<1>13. QED
  BY <1>7, <1>8, <1>9, <1>10, <1>11, <1>12 DEF IInv

\* A block arrives in the writer's file, which is no file of another package and,
\* without a clash, neither an entry nor another writer's.
LEMMA WriteBlockStep ==
    ASSUME IInv, NEW p \in Procs, WriteBlock(p)
    PROVE  IInv'
<1> USE NuGetCacheAssumption
<1>1. /\ pc[p] = "write" /\ pos[p] \in 0..Blocks /\ pos[p] < Blocks
      /\ content' = [content EXCEPT ![fd[p]] = @ \cup {pos[p] + 1}]
      /\ pos' = [pos EXCEPT ![p] = @ + 1]
      /\ entry' = entry /\ tmp' = tmp /\ pc' = pc /\ want' = want /\ data' = data /\ fd' = fd
      /\ clashed' = clashed
      /\ want[p] \in Packages /\ fd[p] \in Inodes
      /\ want[p] \notin clashed => tmp[want[p]] = fd[p] /\ content[fd[p]] = 1..pos[p]
  BY DEF WriteBlock, IInv, TypeOK, OwnTmp, Resting
<1>2. 1..pos[p] \cup {pos[p] + 1} = 1..(pos[p] + 1) /\ pos[p] + 1 \in 0..Blocks
  BY <1>1
<1>3. /\ want[p] \notin clashed => content'[fd[p]] = 1..(pos[p] + 1)
      /\ \A i \in Inodes : i # fd[p] => content'[i] = content[i]
  BY <1>1, <1>2 DEF IInv, TypeOK
<1>4. TypeOK'
  <2>1. content[fd[p]] \cup {pos[p] + 1} \in SUBSET Whole
    BY <1>1 DEF IInv, TypeOK, Whole
  <2>2. content' \in [Inodes -> SUBSET Whole]
    BY <1>1, <2>1 DEF IInv, TypeOK
  <2>3. pos' \in [Procs -> 0..Blocks]
    BY <1>1, <1>2 DEF IInv, TypeOK
  <2>4. QED
    BY <1>1, <2>2, <2>3 DEF IInv, TypeOK
<1>5. NoCorruptEntry'
  <2>1. \A k \in Packages : entry[k] # None /\ k \notin clashed =>
            entry[k] # fd[p] /\ entry[k] \in Inodes
    BY <1>1 DEF IInv, TypeOK, OneName, OwnPackage
  <2>2. QED
    BY <1>1, <1>3, <2>1 DEF IInv, NoCorruptEntry, Whole
<1>6. OneName' /\ OwnPackage' /\ Alone'
  BY <1>1 DEF IInv, OneName, OwnPackage, Alone, Storing
<1>7. OwnTmp'
  <2> SUFFICES ASSUME NEW q \in Procs
               PROVE  /\ pc[q] \in {"store", "write", "rename"} => data[q] = Whole
                      /\ want[q] \notin clashed =>
                           /\ pc[q] = "write" =>
                                tmp[want[q]] = fd[q] /\ content'[fd[q]] = 1..pos'[q]
                           /\ pc[q] = "rename" =>
                                tmp[want[q]] # None /\ content'[tmp[want[q]]] = Whole
                           /\ pc[q] = "done" => data[q] = Whole
    <3>1. tmp' = tmp /\ pc' = pc /\ want' = want /\ data' = data /\ fd' = fd
          /\ clashed' = clashed
      BY <1>1
    <3>2. QED
      BY <3>1 DEF OwnTmp, Whole
  <2>1. CASE q = p
    BY <1>1, <1>3, <2>1 DEF IInv, TypeOK, OwnTmp
  <2>2. CASE q # p
    <3>1. pos'[q] = pos[q]
      BY <1>1, <2>2 DEF IInv, TypeOK
    <3>2. CASE Storing(q) /\ want[q] \notin clashed
      <4>1. want[q] # want[p] /\ want[q] \in Packages
        <5>1. Storing(p)
          BY <1>1 DEF Storing
        <5>2. QED
          BY <2>2, <3>2, <5>1, Apart DEF Resting, Storing, IInv, TypeOK
      <4>2. tmp[want[q]] # fd[p] /\ tmp[want[q]] \in Inodes
        BY <1>1, <3>2, <4>1 DEF IInv, TypeOK, OwnTmp, OwnPackage, Storing
      <4>3. content'[tmp[want[q]]] = content[tmp[want[q]]]
        BY <1>3, <4>2
      <4>4. QED
        BY <3>1, <3>2, <4>3 DEF IInv, OwnTmp, Storing
    <3>3. CASE ~(Storing(q) /\ want[q] \notin clashed)
      BY <3>1, <3>3 DEF IInv, OwnTmp, Storing
    <3>4. QED
      BY <3>2, <3>3
  <2>3. QED
    BY <2>1, <2>2
<1>8. QED
  BY <1>4, <1>5, <1>6, <1>7 DEF IInv

\* The entry becomes the .tmp, which without a clash its writer had to itself and
\* completed.
LEMMA RenameStep ==
    ASSUME IInv, NEW p \in Procs, Rename(p)
    PROVE  IInv'
<1> USE NuGetCacheAssumption
<1>1. /\ pc[p] = "rename" /\ pc' = [pc EXCEPT ![p] = "done"]
      /\ content' = content /\ want' = want /\ data' = data /\ fd' = fd /\ pos' = pos
      /\ clashed' = clashed /\ want[p] \in Packages /\ data[p] = Whole /\ fd[p] = None
      /\ want[p] \notin clashed => content[tmp[want[p]]] = Whole
  BY DEF Rename, Becomes, IInv, TypeOK, OwnTmp, Resting
<1>2. pc'[p] = "done" /\ \A q \in Procs : q # p => pc'[q] = pc[q]
  BY <1>1 DEF IInv, TypeOK
<1>3. Alone'
  BY <1>1, <1>2 DEF IInv, Alone, Storing
<1>4. CASE entry' = entry /\ tmp' = tmp
  <2>1. TypeOK' /\ NoCorruptEntry' /\ OneName' /\ OwnPackage'
    BY <1>1, <1>4 DEF IInv, TypeOK, NoCorruptEntry, OneName, OwnPackage, Resting, Whole
  <2>2. OwnTmp'
    BY <1>1, <1>4 DEF IInv, TypeOK, OwnTmp, Whole
  <2>3. QED
    BY <1>3, <2>1, <2>2 DEF IInv
<1>5. CASE /\ tmp[want[p]] # None
           /\ entry' = [entry EXCEPT ![want[p]] = tmp[want[p]]]
           /\ tmp' = [tmp EXCEPT ![want[p]] = None]
  <2>1. TypeOK'
    BY <1>1, <1>5 DEF IInv, TypeOK, Resting
  <2>2. /\ entry'[want[p]] = tmp[want[p]] /\ tmp'[want[p]] = None
        /\ \A k \in Packages : k # want[p] => entry'[k] = entry[k] /\ tmp'[k] = tmp[k]
    BY <1>1, <1>5 DEF IInv, TypeOK
  <2>3. NoCorruptEntry'
    BY <1>1, <2>2 DEF IInv, NoCorruptEntry, Whole
  <2>4. OneName'
    BY <1>1, <1>5, <2>2 DEF IInv, OneName
  <2>5. OwnPackage'
    BY <1>1, <1>5, <2>2 DEF IInv, OwnPackage
  <2>6. OwnTmp'
    <3> SUFFICES ASSUME NEW q \in Procs
                 PROVE  /\ pc'[q] \in {"store", "write", "rename"} => data[q] = Whole
                        /\ want[q] \notin clashed =>
                             /\ pc'[q] = "write" =>
                                  tmp'[want[q]] = fd[q] /\ content[fd[q]] = 1..pos[q]
                             /\ pc'[q] = "rename" =>
                                  tmp'[want[q]] # None /\ content[tmp'[want[q]]] = Whole
                             /\ pc'[q] = "done" => data[q] = Whole
      <4>1. /\ content' = content /\ want' = want /\ data' = data /\ fd' = fd
            /\ pos' = pos /\ clashed' = clashed
        BY <1>1
      <4>2. QED
        BY <4>1 DEF OwnTmp, Whole
    <3>1. CASE q = p
      BY <1>1, <1>2, <3>1
    <3>2. CASE q # p
      <4>1. CASE Storing(q) /\ want[q] \notin clashed
        <5>1. Storing(p)
          BY <1>1 DEF Storing
        <5>2. want[q] # want[p] /\ want[q] \in Packages
          BY <3>2, <4>1, <5>1, Apart DEF Resting, Storing, IInv, TypeOK
        <5>3. QED
          BY <1>2, <2>2, <3>2, <4>1, <5>2 DEF IInv, OwnTmp, Storing
      <4>2. CASE ~(Storing(q) /\ want[q] \notin clashed)
        BY <1>2, <3>2, <4>2 DEF IInv, OwnTmp, Storing
      <4>3. QED
        BY <4>1, <4>2
    <3>3. QED
      BY <3>1, <3>2
  <2>7. QED
    BY <1>3, <2>1, <2>3, <2>4, <2>5, <2>6 DEF IInv
<1>6. QED
  BY <1>4, <1>5 DEF Rename

\* The invariant is inductive.
THEOREM StepIInv == IInv /\ [Next]_vars => IInv'
<1> SUFFICES ASSUME IInv, [Next]_vars PROVE IInv'
  OBVIOUS
<1>1. CASE UNCHANGED vars
  BY <1>1 DEF vars, IInv, TypeOK, NoCorruptEntry, OneName, OwnPackage, Alone, Storing, OwnTmp,
              Resting, Whole
<1>2. ASSUME NEW p \in Procs, Step(p) PROVE IInv'
  BY <1>2, QuietSteps, OpenTmpStep, WriteBlockStep, RenameStep DEF Step
<1>3. QED
  BY <1>1, <1>2 DEF Next

\* Every reachable state satisfies the invariant.
THEOREM Invariance == Spec => []IInv
<1>1. IInv /\ [Next]_vars => IInv'
  BY StepIInv
<1>2. QED
  BY <1>1, InitIInv, PTL DEF Spec

\* A crash at any point, in any process, leaves no corrupt cache entry behind
\* (cache.go:31-33), unless two processes stored that package at the same time.
THEOREM CrashSafety == Spec => []NoCorruptEntry
<1>1. IInv => NoCorruptEntry
  BY DEF IInv
<1>2. QED
  BY <1>1, Invariance, PTL

\* With the same exception a Fetch that succeeds returns the whole package, from
\* the network or from the cache.
THEOREM WholePackages == Spec => []FetchIsWhole
<1>1. IInv => FetchIsWhole
  BY DEF IInv, OwnTmp, FetchIsWhole
<1>2. QED
  BY <1>1, Invariance, PTL

\* The two together: what a crash or a race of other packages leaves behind, or hands
\* to a caller, is never a part of a package.
THEOREM CacheIsSound == Spec => []CacheInv
<1>1. NoCorruptEntry /\ FetchIsWhole => CacheInv
  BY DEF CacheInv
<1>2. QED
  BY <1>1, CrashSafety, WholePackages, PTL

-----------------------------------------------------------------------------
(* Sequences of dependencies                                               *)

\* The elements of a sequence that has a first one.
LEMMA Remaining ==
    ASSUME NEW S, NEW s \in Seq(S), s # <<>>
    PROVE  /\ Head(s) \in S /\ Tail(s) \in Seq(S)
           /\ Head(s) \in ToSet(s)
           /\ \A d \in ToSet(s) : d = Head(s) \/ d \in ToSet(Tail(s))
           /\ ToSet(Tail(s)) \subseteq ToSet(s)
<1>1. Len(s) \in Nat \ {0} /\ 1 \in DOMAIN s /\ s[1] = Head(s)
  BY EmptySeq, HeadTailProperties
<1>2. Tail(s) \in Seq(S) /\ Len(Tail(s)) = Len(s) - 1
        /\ \A i \in 1..Len(Tail(s)) : Tail(s)[i] = s[i + 1]
  BY HeadTailProperties
<1>3. \A d \in ToSet(s) : d = Head(s) \/ d \in ToSet(Tail(s))
  <2> SUFFICES ASSUME NEW i \in DOMAIN s, i # 1 PROVE s[i] \in ToSet(Tail(s))
    BY <1>1 DEF ToSet
  <2>1. i - 1 \in 1..Len(Tail(s)) /\ Tail(s)[i - 1] = s[(i - 1) + 1]
    BY <1>1, <1>2
  <2>2. DOMAIN Tail(s) = 1..Len(Tail(s)) /\ (i - 1) + 1 = i
    BY <1>2
  <2>3. QED
    BY <2>1, <2>2 DEF ToSet
<1>4. ToSet(Tail(s)) \subseteq ToSet(s)
  <2> SUFFICES ASSUME NEW i \in DOMAIN Tail(s) PROVE Tail(s)[i] \in ToSet(s)
    BY DEF ToSet
  <2>1. i \in 1..Len(Tail(s)) /\ i + 1 \in DOMAIN s
    BY <1>1, <1>2
  <2>2. QED
    BY <1>2, <2>1 DEF ToSet
<1>5. Head(s) \in S
  BY <1>1
<1>6. QED
  BY <1>1, <1>2, <1>3, <1>4, <1>5 DEF ToSet

\* The least of some numbers.
LEMMA LeastNumber ==
    ASSUME NEW S \in SUBSET Nat, S # {}
    PROVE  \E p \in S : \A q \in S : p <= q
<1>1. PICK p \in S : \A q \in S : ~(<<q, p>> \in OpToRel(<, Nat))
  BY NatLessThanWellFounded, WFMin
<1>2. \A q \in S : p <= q
  <2> SUFFICES ASSUME NEW q \in S PROVE p <= q
    OBVIOUS
  <2>1. <<q, p>> \in Nat \X Nat /\ ~(<<q, p>>[1] < <<q, p>>[2])
    BY <1>1 DEF OpToRel
  <2> QED BY <2>1
<1> QED BY <1>2

\* The order of numbers.
LEMMA Orders ==
    ASSUME NEW a \in Nat, NEW b \in Nat
    PROVE  /\ a < b \/ b <= a
           /\ \A c \in Nat : a < b /\ b <= c => a <= c
           /\ a <= a
OBVIOUS

\* A sequence of numbers can be put in order.
LEMMA InsertInOrder ==
    ASSUME NEW n \in Nat, NEW g \in [1..(n + 1) -> Nat], NEW f \in [1..n -> 1..n],
           \A w \in 1..n : \E v \in 1..n : f[v] = w,
           \A i, j \in 1..n : i < j => g[f[i]] <= g[f[j]]
    PROVE  \E h \in [1..(n + 1) -> 1..(n + 1)] :
              /\ \A w \in 1..(n + 1) : \E v \in 1..(n + 1) : h[v] = w
              /\ \A i, j \in 1..(n + 1) : i < j => g[h[i]] <= g[h[j]]
<1>1. g[n + 1] \in Nat
  OBVIOUS
<1>0. \A i \in 1..n : f[i] \in 1..n /\ f[i] \in 1..(n + 1) /\ g[f[i]] \in Nat
  <2>1. \A w \in 1..n : w \in 1..(n + 1)
    OBVIOUS
  <2>2. \A w \in 1..(n + 1) : g[w] \in Nat
    OBVIOUS
  <2>3. QED
    BY <2>1, <2>2
<1>2. PICK p \in 1..(n + 1) :
         /\ p = n + 1 \/ (p \in 1..n /\ g[n + 1] < g[f[p]])
         /\ \A q \in 1..n : q < p => g[f[q]] <= g[n + 1]
  <2> DEFINE Later == {p \in 1..(n + 1) : p = n + 1 \/ g[n + 1] < g[f[p]]}
  <2>1. n + 1 \in Later
    OBVIOUS
  <2>2. Later \subseteq 1..(n + 1)
    OBVIOUS
  <2>3. \A p \in 1..(n + 1) : p \in Later <=> p = n + 1 \/ g[n + 1] < g[f[p]]
    OBVIOUS
  <2> HIDE DEF Later
  <2>4. Later # {} /\ Later \in SUBSET Nat
    BY <2>1, <2>2
  <2>5. PICK p \in Later : \A q \in Later : p <= q
    BY <2>4, LeastNumber
  <2>6. p \in 1..(n + 1) /\ (p = n + 1 \/ g[n + 1] < g[f[p]])
    BY <2>2, <2>3, <2>5
  <2>7. ASSUME NEW q \in 1..n, q < p PROVE g[f[q]] <= g[n + 1]
    <3>1. q \in 1..(n + 1) /\ q # n + 1 /\ q \notin Later
      BY <2>5, <2>6, <2>7
    <3>2. ~(g[n + 1] < g[f[q]])
      BY <2>3, <3>1
    <3>3. g[f[q]] \in Nat
      BY <1>0
    <3>4. QED
      BY <1>1, <3>2, <3>3, Orders
  <2>8. p = n + 1 \/ p \in 1..n
    BY <2>6
  <2>9. QED
    BY <2>6, <2>7, <2>8
<1>3. \A i \in 1..n : i < p => g[f[i]] <= g[n + 1]
  BY <1>2
<1>4. \A i \in 1..n : i >= p => g[n + 1] <= g[f[i]]
  <2> SUFFICES ASSUME NEW i \in 1..n, i >= p PROVE g[n + 1] <= g[f[i]]
    OBVIOUS
  <2>1. p \in 1..n /\ g[n + 1] < g[f[p]]
    BY <1>2
  <2>2. i = p \/ p < i
    BY <2>1
  <2>3. g[f[p]] \in Nat /\ g[f[i]] \in Nat
    BY <1>0, <2>1
  <2>4. CASE p < i
    <3>1. g[f[p]] <= g[f[i]]
      BY <2>1, <2>4
    <3>2. g[n + 1] < g[f[p]] /\ g[f[p]] <= g[f[i]] => g[n + 1] <= g[f[i]]
      BY <1>1, <2>3, Orders
    <3>3. QED
      BY <2>1, <3>1, <3>2
  <2>5. CASE i = p
    BY <1>1, <2>1, <2>3, <2>5, Orders
  <2>6. QED
    BY <2>2, <2>4, <2>5
<1> DEFINE h == [i \in 1..(n + 1) |-> IF i < p THEN f[i] ELSE IF i = p THEN n + 1 ELSE f[i - 1]]
<1>5. /\ h \in [1..(n + 1) -> 1..(n + 1)]
      /\ \A i \in 1..(n + 1) :
            h[i] = IF i < p THEN f[i] ELSE IF i = p THEN n + 1 ELSE f[i - 1]
  <2>1. \A i \in 1..(n + 1) :
           (IF i < p THEN f[i] ELSE IF i = p THEN n + 1 ELSE f[i - 1]) \in 1..(n + 1)
    <3> SUFFICES ASSUME NEW i \in 1..(n + 1)
                 PROVE  (IF i < p THEN f[i] ELSE IF i = p THEN n + 1 ELSE f[i - 1]) \in 1..(n + 1)
      OBVIOUS
    <3>1. CASE i < p
      <4>1. i \in 1..n
        BY <1>2, <3>1
      <4>2. QED
        BY <1>0, <3>1, <4>1
    <3>2. CASE i = p
      BY <3>2
    <3>3. CASE i > p
      <4>1. i - 1 \in 1..n /\ ~(i < p) /\ i # p
        BY <1>2, <3>3
      <4>2. QED
        BY <1>0, <4>1
    <3>4. QED
      BY <1>2, <3>1, <3>2, <3>3
  <2>2. QED
    BY <2>1
<1> HIDE DEF h
<1>6. ASSUME NEW w \in 1..(n + 1) PROVE \E v \in 1..(n + 1) : h[v] = w
  <2>1. CASE w = n + 1
    <3>1. ~(p < p)
      BY <1>2
    <3>2. h[p] = n + 1
      BY <1>2, <1>5, <3>1
    <3>3. QED
      BY <1>2, <2>1, <3>2
  <2>2. CASE w # n + 1
    <3>1. PICK v \in 1..n : f[v] = w
      BY <2>2
    <3>2. v < p => h[v] = w /\ v \in 1..(n + 1)
      BY <1>5, <3>1
    <3>3. v >= p => h[v + 1] = f[(v + 1) - 1] /\ v + 1 \in 1..(n + 1)
      BY <1>2, <1>5
    <3>4. (v + 1) - 1 = v /\ (v < p \/ v >= p)
      BY <1>2
    <3>5. QED
      BY <3>1, <3>2, <3>3, <3>4
  <2>3. QED
    BY <2>1, <2>2
<1>7. ASSUME NEW i \in 1..(n + 1), NEW j \in 1..(n + 1), i < j PROVE g[h[i]] <= g[h[j]]
  <2>1. CASE j < p
    <3>1. i \in 1..n /\ j \in 1..n /\ i < p
      BY <1>2, <1>7, <2>1
    <3>2. h[i] = f[i] /\ h[j] = f[j]
      BY <1>5, <2>1, <3>1
    <3>3. QED
      BY <1>7, <3>1, <3>2
  <2>2. CASE j = p
    <3>1. i \in 1..n /\ i < p /\ j # i /\ ~(j < p)
      BY <1>2, <1>7, <2>2
    <3>2. h[i] = f[i] /\ h[j] = n + 1
      BY <1>5, <2>2, <3>1
    <3>3. QED
      BY <1>3, <3>1, <3>2
  <2>3. CASE j > p
    <3>1. j - 1 \in 1..n /\ h[j] = f[j - 1] /\ j - 1 >= p
      BY <1>2, <1>5, <2>3
    <3>2. CASE i < p
      <4>1. i \in 1..n /\ h[i] = f[i] /\ i < j - 1
        BY <1>2, <1>5, <3>1, <3>2
      <4>2. QED
        BY <3>1, <4>1
    <3>3. CASE i = p
      <4>1. h[i] = n + 1
        BY <1>5, <3>3
      <4>2. QED
        BY <1>4, <3>1, <4>1
    <3>4. CASE i > p
      <4>1. i - 1 \in 1..n /\ h[i] = f[i - 1] /\ i - 1 < j - 1
        BY <1>2, <1>5, <1>7, <3>4
      <4>2. QED
        BY <3>1, <4>1
    <3>5. QED
      BY <1>2, <3>2, <3>3, <3>4
  <2>4. QED
    BY <1>2, <2>1, <2>2, <2>3
<1>8. QED
  BY <1>5, <1>6, <1>7

\* Any number of numbers can, one inserted after the other.
LEMMA CanBeSorted ==
    ASSUME NEW n \in Nat, NEW g \in [1..n -> Nat]
    PROVE  \E f \in [1..n -> 1..n] :
              /\ \A w \in 1..n : \E v \in 1..n : f[v] = w
              /\ \A i, j \in 1..n : i < j => g[f[i]] <= g[f[j]]
<1> DEFINE Sortable(k, c) == \E f \in [1..k -> 1..k] :
              /\ \A w \in 1..k : \E v \in 1..k : f[v] = w
              /\ \A i, j \in 1..k : i < j => c[f[i]] <= c[f[j]]
           Bad == {k \in Nat : \E c \in [1..k -> Nat] : ~Sortable(k, c)}
<1>1. SUFFICES Bad = {}
  OBVIOUS
<1>2. SUFFICES ASSUME Bad # {} PROVE FALSE
  OBVIOUS
<1>3. PICK k \in Bad : \A l \in Bad : k <= l
  <2>1. Bad \in SUBSET Nat
    OBVIOUS
  <2> HIDE DEF Bad
  <2>2. QED
    BY <1>2, <2>1, LeastNumber
<1>4. k \in Nat /\ \A l \in Nat : l < k => l \notin Bad
  <2>1. k \in Nat
    OBVIOUS
  <2> HIDE DEF Bad
  <2>2. QED
    BY <1>3, <2>1
<1>5. PICK c \in [1..k -> Nat] : ~Sortable(k, c)
  BY <1>3
<1>6. k # 0
  <2> SUFFICES ASSUME k = 0 PROVE FALSE
    OBVIOUS
  <2>1. 1..k = {} /\ [x \in 1..k |-> x] \in [1..k -> 1..k]
    OBVIOUS
  <2>2. QED
    BY <1>5, <2>1
<1>7. PICK m \in Nat : k = m + 1
  BY <1>4, <1>6
<1> DEFINE b == [i \in 1..m |-> c[i]]
<1>8. Sortable(m, b)
  <2>1. m \notin Bad
    <3> HIDE DEF Bad
    <3>1. QED
      BY <1>4, <1>7
  <2>2. b \in [1..m -> Nat]
    BY <1>5, <1>7
  <2> HIDE DEF b, Sortable
  <2>3. QED
    BY <2>1, <2>2
<1>9. PICK f \in [1..m -> 1..m] :
              /\ \A w \in 1..m : \E v \in 1..m : f[v] = w
              /\ \A i, j \in 1..m : i < j => b[f[i]] <= b[f[j]]
  BY <1>8
<1>10. \A i, j \in 1..m : i < j => c[f[i]] <= c[f[j]]
  <2>1. \A i \in 1..m : b[f[i]] = c[f[i]]
    OBVIOUS
  <2>2. QED
    BY <1>9, <2>1
<1>11. Sortable(m + 1, c)
  <2>1. c \in [1..(m + 1) -> Nat]
    BY <1>5, <1>7
  <2>2. QED
    BY <1>9, <1>10, <2>1, InsertInOrder
<1>12. QED
  BY <1>5, <1>7, <1>11

\* Sorting keeps the elements.
LEMMA SortedElements ==
    ASSUME NEW ids \in Seq(Ids)
    PROVE  Sorted(ids) \in Seq(Ids) /\ ToSet(Sorted(ids)) = ToSet(ids)
<1> DEFINE n == Len(ids)
           g == [i \in 1..n |-> Position(ids[i])]
<1>1. n \in Nat /\ DOMAIN ids = 1..n /\ \A i \in 1..n : ids[i] \in Ids
  OBVIOUS
<1>2. \A i \in 1..n : Position(ids[i]) \in Nat
  <2> SUFFICES ASSUME NEW id \in Ids PROVE Position(id) \in Nat
    BY <1>1
  <2>1. DOMAIN Alphabet \subseteq Nat /\ \E i \in DOMAIN Alphabet : Alphabet[i] = id
    BY NuGetGraphAssumption DEF Ids, ToSet
  <2>2. QED
    BY <2>1 DEF Position
<1>3. g \in [1..n -> Nat]
  BY <1>2
<1>4. PICK f \in [1..n -> 1..n] :
              /\ \A w \in 1..n : \E v \in 1..n : f[v] = w
              /\ \A i, j \in 1..n : i < j => g[f[i]] <= g[f[j]]
  <2> HIDE DEF g
  <2>1. QED
    BY <1>1, <1>3, CanBeSorted
<1>5. f \in Surjection(DOMAIN ids, DOMAIN ids)
  BY <1>1, <1>4 DEF Surjection
<1>6. InOrder(ids, f)
  BY <1>1, <1>4 DEF InOrder
<1> DEFINE h == CHOOSE x \in Surjection(DOMAIN ids, DOMAIN ids) : InOrder(ids, x)
<1>7. h \in Surjection(DOMAIN ids, DOMAIN ids)
  BY <1>5, <1>6
<1>8. h \in [1..n -> 1..n] /\ \A w \in 1..n : \E v \in 1..n : h[v] = w
  <2> HIDE DEF h
  <2>1. QED
    BY <1>1, <1>7 DEF Surjection
<1>9. Sorted(ids) = [i \in 1..n |-> ids[h[i]]]
  BY <1>1 DEF Sorted
<1> HIDE DEF h
<1>10. Sorted(ids) \in Seq(Ids) /\ DOMAIN Sorted(ids) = 1..n
  BY <1>1, <1>8, <1>9
<1>11. \A x \in ToSet(Sorted(ids)) : x \in ToSet(ids)
  BY <1>1, <1>8, <1>9, <1>10 DEF ToSet
<1>12. \A x \in ToSet(ids) : x \in ToSet(Sorted(ids))
  <2> SUFFICES ASSUME NEW w \in 1..n PROVE ids[w] \in ToSet(Sorted(ids))
    BY <1>1 DEF ToSet
  <2>1. PICK v \in 1..n : h[v] = w
    BY <1>8
  <2>2. QED
    BY <1>9, <1>10, <2>1 DEF ToSet
<1>13. QED
  BY <1>10, <1>11, <1>12

\* A sequence without its last element.
LEMMA FrontElements ==
    ASSUME NEW S, NEW s \in Seq(S), s # <<>>
    PROVE  /\ Len(s) \in Nat \ {0} /\ Last(s) = s[Len(s)] /\ Last(s) \in S
           /\ Front(s) \in Seq(S) /\ Len(Front(s)) = Len(s) - 1
           /\ \A i \in 1..(Len(s) - 1) : Front(s)[i] = s[i]
<1>1. Len(s) \in Nat \ {0} /\ \A i \in 1..Len(s) : s[i] \in S
  BY EmptySeq, ElementOfSeq
<1>2. \A i \in 1..(Len(s) - 1) : s[i] \in S
  BY <1>1
<1>3. 1 \in Int /\ Len(s) - 1 \in Int
  BY <1>1
<1>4. Front(s) \in Seq(S) /\ Len(Front(s)) = Len(s) - 1 /\ \A i \in 1..(Len(s) - 1) : Front(s)[i] = s[i]
  <2> DEFINE n == Len(s) - 1
  <2>1. n \in Nat /\ \A i \in 1..n : s[i] \in S
    BY <1>1, <1>2
  <2>2. Front(s) = SubSeq(s, 1, n)
    BY DEF Front
  <2> HIDE DEF n
  <2>3. /\ SubSeq(s, 1, n) \in Seq(S)
        /\ Len(SubSeq(s, 1, n)) = IF 1 <= n THEN n - 1 + 1 ELSE 0
        /\ \A i \in 1..(n - 1 + 1) : SubSeq(s, 1, n)[i] = s[1 + i - 1]
    BY <1>3, <2>1, SubSeqProperties
  <2>4. (IF 1 <= n THEN n - 1 + 1 ELSE 0) = n /\ n - 1 + 1 = n /\ \A i \in 1..n : 1 + i - 1 = i
    BY <2>1
  <2>5. /\ Front(s) \in Seq(S) /\ Len(Front(s)) = n
        /\ \A i \in 1..n : Front(s)[i] = s[i]
    BY <2>2, <2>3, <2>4
  <2>6. QED
    BY <2>5 DEF n
<1>5. QED
  BY <1>1, <1>4 DEF Last

\* An activation that has gone on has one dependency less to go through.
LEMMA AdvancedElements ==
    ASSUME NEW s \in Seq(Activations), s # <<>>, Last(s).deps # <<>>
    PROVE  /\ Head(Last(s).deps) \in [id : Ids, version : Nat]
           /\ Advanced(s) \in Seq(Activations) /\ Advanced(s) # <<>>
           /\ Len(Advanced(s)) = Len(s) /\ Len(s) \in Nat \ {0}
           /\ \A j \in 1..(Len(s) - 1) : Advanced(s)[j] = s[j]
           /\ \A j \in 1..Len(s) :
                 /\ Advanced(s)[j].id = s[j].id
                 /\ ToSet(Advanced(s)[j].deps) \subseteq ToSet(s[j].deps)
                 /\ \A d \in ToSet(s[j].deps) :
                       \/ d \in ToSet(Advanced(s)[j].deps)
                       \/ j = Len(s) /\ d = Head(Last(s).deps)
<1> DEFINE n == Len(s)
           D == [id : Ids, version : Nat]
           a == [Last(s) EXCEPT !.deps = Tail(@)]
<1>1. /\ n \in Nat \ {0} /\ Last(s) = s[n] /\ Last(s) \in Activations
      /\ Front(s) \in Seq(Activations) /\ Len(Front(s)) = n - 1
      /\ \A j \in 1..(n - 1) : Front(s)[j] = s[j]
  BY FrontElements
<1>2. Last(s).deps \in Seq(D)
  BY <1>1 DEF Activations
<1>3. /\ Head(Last(s).deps) \in D /\ Tail(Last(s).deps) \in Seq(D)
      /\ \A d \in ToSet(Last(s).deps) : d = Head(Last(s).deps) \/ d \in ToSet(Tail(Last(s).deps))
      /\ ToSet(Tail(Last(s).deps)) \subseteq ToSet(Last(s).deps)
  BY <1>2, Remaining
<1>4. a \in Activations /\ a.id = Last(s).id /\ a.deps = Tail(Last(s).deps)
  BY <1>1, <1>3 DEF Activations
<1>5. /\ Advanced(s) \in Seq(Activations) /\ Advanced(s) # <<>>
      /\ Len(Advanced(s)) = (n - 1) + 1
      /\ \A j \in 1..(n - 1) : Advanced(s)[j] = Front(s)[j]
      /\ Advanced(s)[(n - 1) + 1] = a
  <2> HIDE DEF a, n
  <2>1. Advanced(s) = Append(Front(s), a)
    BY DEF Advanced, a
  <2>2. QED
    BY <1>1, <1>4, <2>1, AppendProperties
<1>6. (n - 1) + 1 = n
  BY <1>1
<1> HIDE DEF a, n
<1>7. \A j \in 1..(n - 1) : Advanced(s)[j] = s[j]
  BY <1>1, <1>5
<1>8. Advanced(s)[n] = a
  BY <1>5, <1>6
<1>9. ASSUME NEW j \in 1..n
      PROVE  /\ Advanced(s)[j].id = s[j].id
             /\ ToSet(Advanced(s)[j].deps) \subseteq ToSet(s[j].deps)
             /\ \A d \in ToSet(s[j].deps) :
                   \/ d \in ToSet(Advanced(s)[j].deps)
                   \/ j = n /\ d = Head(Last(s).deps)
  <2>1. CASE j = n
    BY <1>1, <1>3, <1>4, <1>8, <2>1
  <2>2. CASE j # n
    <3>1. j \in 1..(n - 1)
      BY <1>1, <2>2
    <3>2. QED
      BY <1>7, <3>1
  <2>3. QED
    BY <2>1, <2>2
<1>10. QED
  BY <1>1, <1>3, <1>5, <1>6, <1>7, <1>9 DEF n

\* What the feed tells of a package is what is locked of it.
LEMMA PublishedPackage ==
    ASSUME feed \in Feeds, NEW k \in Keys, NEW v \in DOMAIN feed[k]
    PROVE  /\ v \in Nat \ {0}
           /\ feed[k][v].deps \in Seq(Dependency)
           /\ Resolved(k, v) \in Package /\ Resolved(k, v) # NoPackage
           /\ Locked(Resolved(k, v)) \in Package
           /\ Locked(Resolved(k, v)).version = v /\ Key[Locked(Resolved(k, v)).id] = k
           /\ Locked(Resolved(k, v)).id \in Ids
           /\ ToSet(Locked(Resolved(k, v)).deps) = {d.id : d \in ToSet(feed[k][v].deps)}
<1> DEFINE pkg == feed[k][v]
           names == [i \in DOMAIN pkg.deps |-> pkg.deps[i].id]
<1>1. /\ v \in Nat \ {0} /\ pkg.id \in Ids /\ Key[pkg.id] = k /\ pkg.asset \in BOOLEAN
      /\ pkg.deps \in Seq(Dependency)
  <2>1. pkg \in [id : {id \in Ids : Key[id] = k}, asset : BOOLEAN, deps : Seq(Dependency)]
    BY NuGetGraphAssumption
  <2>2. v \in Nat \ {0}
    BY NuGetGraphAssumption
  <2> HIDE DEF pkg
  <2>3. QED
    BY <2>1, <2>2
<1> HIDE DEF pkg
<1>2. names \in Seq(Ids) /\ DOMAIN names = DOMAIN pkg.deps
  <2>1. Len(pkg.deps) \in Nat /\ DOMAIN pkg.deps = 1..Len(pkg.deps)
          /\ \A i \in 1..Len(pkg.deps) : pkg.deps[i] \in Dependency
    BY <1>1
  <2>2. \A i \in 1..Len(pkg.deps) : pkg.deps[i].id \in Ids
    BY <2>1 DEF Dependency
  <2>3. QED
    BY <2>1, <2>2
<1>3. Resolved(k, v) = [id |-> pkg.id, version |-> v, asset |-> pkg.asset, deps |-> names]
  BY DEF Resolved, pkg
<1>4. ToSet(names) = {d.id : d \in ToSet(pkg.deps)}
  <2> HIDE DEF names
  <2>1. \A i \in DOMAIN pkg.deps : names[i] = pkg.deps[i].id
    BY DEF names
  <2>2. QED
    BY <1>2, <2>1 DEF ToSet
<1> HIDE DEF names
<1>5. Sorted(names) \in Seq(Ids) /\ ToSet(Sorted(names)) = ToSet(names)
  BY <1>2, SortedElements
<1>6. Resolved(k, v) \in Package
  BY <1>1, <1>2, <1>3 DEF Package
<1>7. Locked(Resolved(k, v)) = [id |-> pkg.id, version |-> v, asset |-> pkg.asset, deps |-> Sorted(names)]
  BY <1>3 DEF Locked
<1>8. Locked(Resolved(k, v)) \in Package
  BY <1>1, <1>5, <1>7 DEF Package
<1>9. QED
  BY <1>1, <1>4, <1>5, <1>6, <1>7, <1>8, NuGetGraphAssumption DEF pkg

-----------------------------------------------------------------------------
(* Every step of Restore and LoadPackage keeps GraphIInv                   *)

\* Before anything is restored nothing is locked.
LEMMA GraphStarts == GraphInit => GraphIInv
<1> SUFFICES ASSUME GraphInit PROVE GraphIInv
  OBVIOUS
<1>1. GraphTypes
  <2>1. manifest \in Seq(Dependency) /\ stack \in Seq(Activations)
    BY EmptySeq DEF GraphInit
  <2>2. QED
    BY <2>1 DEF GraphInit, GraphTypes, AtRest
<1>2. QED
  BY <1>1 DEF GraphInit, GraphIInv, Rooted, ResolvedIsPublished, NothingForgotten, LockIsPublished,
              LockIsClosed, LockServesManifest, LoadsInPlace, NothingUnlinked

\* What is locked stays sound while the lockfile is left alone.
LEMMA LockStays ==
    ASSUME GraphIInv, feed' = feed, lock' = lock
    PROVE  LockIsPublished' /\ LockIsClosed'
BY DEF GraphIInv, LockIsPublished, LockIsClosed

\* The resting states ask nothing of the walks; only a lockfile just written is to serve
\* the manifest, and only a load that has succeeded is to be whole.
LEMMA Rests ==
    ASSUME GraphIInv, feed' = feed, lock' = lock, GraphTypes',
           phase' \in {"idle", "restoreFailed", "loadFailed"}
    PROVE  GraphIInv'
BY LockStays DEF GraphIInv, Rooted, ResolvedIsPublished, NothingForgotten, LockServesManifest,
                 LoadsInPlace, NothingUnlinked

\* Add writes the manifest only.
LEMMA AddKeeps ==
    ASSUME GraphIInv, NEW d \in Direct, Add(d)
    PROVE  GraphIInv'
<1>1. d \in Dependency /\ manifest \in Seq(Dependency)
  BY NuGetGraphAssumption DEF GraphIInv, GraphTypes
<1>2. manifest' \in Seq(Dependency)
  <2>1. CASE \E i \in DOMAIN manifest : Key[manifest[i].id] = Key[d.id]
    <3> DEFINE raised(i) == IF Key[manifest[i].id] = Key[d.id]
                            THEN [manifest[i] EXCEPT !.version = d.version] ELSE manifest[i]
    <3>1. manifest' = [i \in DOMAIN manifest |-> raised(i)]
      BY <2>1 DEF Add
    <3>2. Len(manifest) \in Nat /\ DOMAIN manifest = 1..Len(manifest)
            /\ \A i \in DOMAIN manifest : manifest[i] \in Dependency
      BY <1>1
    <3>3. \A i \in DOMAIN manifest : raised(i) \in Dependency
      BY <1>1, <3>2 DEF Dependency
    <3> HIDE DEF raised
    <3>4. QED
      BY <3>1, <3>2, <3>3
  <2>2. CASE ~ \E i \in DOMAIN manifest : Key[manifest[i].id] = Key[d.id]
    <3>1. manifest' = Append(manifest, d)
      BY <2>2 DEF Add
    <3>2. QED
      BY <1>1, <3>1, AppendProperties
  <2>3. QED
    BY <2>1, <2>2
<1>3. GraphTypes'
  BY <1>2 DEF Add, GraphIInv, GraphTypes, AtRest
<1>4. QED
  BY <1>3, Rests DEF Add

\* An activation that stands for the caller begins a walk.
LEMMA RestoreBeginsKeeps ==
    ASSUME GraphIInv, RestoreBegins
    PROVE  GraphIInv'
<1>1. /\ stack' \in Seq(Activations) /\ stack' # <<>> /\ Len(stack') = 1
      /\ stack'[1].id = NoPackage /\ stack'[1].deps = manifest
  <2>1. manifest \in Seq([id : Ids, version : Nat])
    <3>1. manifest \in Seq(Dependency)
      BY DEF GraphIInv, GraphTypes
    <3>2. Dependency \subseteq [id : Ids, version : Nat]
      BY DEF Dependency
    <3>3. QED
      BY <3>1, <3>2, SeqMonotonic
  <2> DEFINE a == Activation(NoPackage, manifest)
  <2>2. a \in Activations /\ a.id = NoPackage /\ a.deps = manifest
    BY <2>1 DEF Activations, Activation
  <2>3. stack' = <<a>>
    BY DEF RestoreBegins
  <2> HIDE DEF a
  <2>4. QED
    BY <2>2, <2>3
<1>2. GraphTypes'
  BY <1>1 DEF RestoreBegins, GraphIInv, GraphTypes, AtRest
<1>3. \A j \in Outer' : FALSE
  BY <1>1 DEF Outer
<1>4. LockIsPublished' /\ LockIsClosed'
  BY LockStays DEF RestoreBegins
<1>5. Rooted' /\ ResolvedIsPublished'
  BY <1>1, <1>3 DEF RestoreBegins, Rooted, ResolvedIsPublished
<1>6. NothingForgotten'
  <2>1. \A k \in Keys : resolved'[k] = NoPackage
    BY DEF RestoreBegins
  <2>2. \A d \in ToSet(manifest') : d \in ToSet(stack'[1].deps)
    BY <1>1 DEF RestoreBegins
  <2>3. QED
    BY <2>1, <2>2 DEF NothingForgotten, Pending
<1>7. QED
  BY <1>2, <1>4, <1>5, <1>6
     DEF RestoreBegins, GraphIInv, LockServesManifest, LoadsInPlace, NothingUnlinked

\* A failure ends the walk: nothing of it is relied upon later.
LEMMA FailureKeeps ==
    ASSUME GraphIInv, VisitCycle \/ VisitFails \/ LoadNotLocked \/ LoadFails
    PROVE  GraphIInv'
<1>1. /\ stack' = <<>> /\ stack' \in Seq(Activations)
      /\ phase' \in {"restoreFailed", "loadFailed"}
  BY EmptySeq DEF VisitCycle, VisitFails, LoadNotLocked, LoadFails, Fail
<1>2. versions' \in [Keys -> Nat]
  <2>1. CASE VisitFails
    <3>1. /\ stack \in Seq(Activations) /\ stack # <<>> /\ Last(stack).deps # <<>>
          /\ versions \in [Keys -> Nat]
      BY <2>1 DEF VisitFails, Visiting, Busy, Top, GraphIInv, GraphTypes
    <3>2. Next1 \in [id : Ids, version : Nat]
      BY <3>1, AdvancedElements DEF Next1, Top
    <3>3. QED
      BY <2>1, <3>1, <3>2 DEF VisitFails
  <2>2. CASE VisitCycle \/ LoadNotLocked \/ LoadFails
    BY <2>2 DEF VisitCycle, LoadNotLocked, LoadFails, GraphIInv, GraphTypes
  <2>3. QED
    BY <2>1, <2>2
<1>3. GraphTypes'
  BY <1>1, <1>2 DEF VisitCycle, VisitFails, LoadNotLocked, LoadFails, GraphIInv, GraphTypes, AtRest
<1>4. feed' = feed /\ lock' = lock
  BY DEF VisitCycle, VisitFails, LoadNotLocked, LoadFails
<1>5. QED
  BY <1>1, <1>3, <1>4, Rests

\* The walk has got to a dependency, and goes on to what is behind it.
LEMMA GoneOnElements ==
    ASSUME GraphIInv, Busy
    PROVE  /\ Next1 \in [id : Ids, version : Nat] /\ Key[Next1.id] \in Keys
           /\ stack \in Seq(Activations) /\ stack # <<>> /\ Top = stack[Len(stack)]
           /\ GoneOn \in Seq(Activations) /\ GoneOn # <<>>
           /\ Len(GoneOn) = Len(stack) /\ Len(stack) \in Nat \ {0}
           /\ \A j \in 1..(Len(stack) - 1) : GoneOn[j] = stack[j]
           /\ \A j \in 1..Len(stack) :
                 /\ GoneOn[j].id = stack[j].id
                 /\ ToSet(GoneOn[j].deps) \subseteq ToSet(stack[j].deps)
                 /\ \A d \in ToSet(stack[j].deps) :
                       d \in ToSet(GoneOn[j].deps) \/ (j = Len(stack) /\ d = Next1)
<1>1. stack \in Seq(Activations) /\ stack # <<>> /\ Last(stack).deps # <<>>
  BY DEF GraphIInv, GraphTypes, Busy, Top
<1>2. Next1 = Head(Last(stack).deps) /\ Top = stack[Len(stack)]
  BY DEF Next1, Top, Last
<1>3. Next1 \in [id : Ids, version : Nat] /\ Key[Next1.id] \in Keys
  BY <1>1, <1>2, AdvancedElements DEF Keys
<1>4. /\ GoneOn \in Seq(Activations) /\ GoneOn # <<>>
      /\ Len(GoneOn) = Len(stack) /\ Len(stack) \in Nat \ {0}
      /\ \A j \in 1..(Len(stack) - 1) : GoneOn[j] = stack[j]
  BY <1>1, AdvancedElements DEF GoneOn
<1>5. \A j \in 1..Len(stack) :
         /\ GoneOn[j].id = stack[j].id
         /\ ToSet(GoneOn[j].deps) \subseteq ToSet(stack[j].deps)
         /\ \A d \in ToSet(stack[j].deps) :
               d \in ToSet(GoneOn[j].deps) \/ (j = Len(stack) /\ d = Head(Last(stack).deps))
  BY <1>1, AdvancedElements DEF GoneOn
<1>6. QED
  BY <1>1, <1>2, <1>3, <1>4, <1>5

\* What a dependency asks for is resolved: nothing is forgotten when it is passed.
LEMMA VisitKnownKeeps ==
    ASSUME GraphIInv, VisitKnown
    PROVE  GraphIInv'
<1>1. Busy /\ phase = "resolving" /\ phase' = "resolving" /\ stack' = GoneOn
  BY DEF VisitKnown, Visiting
<1>2. /\ feed' = feed /\ manifest' = manifest /\ versions' = versions
      /\ resolved' = resolved /\ lock' = lock /\ loaded' = loaded /\ attached' = attached
  BY DEF VisitKnown
<1>3. GraphTypes'
  BY <1>1, <1>2, GoneOnElements DEF GraphIInv, GraphTypes, AtRest
<1>4. Rooted'
  BY <1>1, GoneOnElements DEF GraphIInv, Rooted, Outer
<1>5. ResolvedIsPublished'
  BY <1>1, <1>2 DEF GraphIInv, ResolvedIsPublished, Resolved
<1>6. versions[Key[Next1.id]] >= Next1.version
  BY DEF VisitKnown
<1>7. NothingForgotten'
  <2>1. ASSUME NEW k \in Keys, resolved[k] # NoPackage, NEW d \in ToSet(feed[k][versions[k]].deps)
        PROVE  \/ versions[Key[d.id]] >= d.version
               \/ \E j \in Outer' : Key[stack'[j].id] = k /\ d \in ToSet(stack'[j].deps)
    <3>1. CASE versions[Key[d.id]] >= d.version
      BY <3>1
    <3>2. CASE \E j \in Outer : Key[stack[j].id] = k /\ d \in ToSet(stack[j].deps)
      <4>1. PICK j \in Outer : Key[stack[j].id] = k /\ d \in ToSet(stack[j].deps)
        BY <3>2
      <4>2. j \in Outer' /\ j \in 1..Len(stack) /\ stack'[j].id = stack[j].id
        BY <1>1, GoneOnElements DEF Outer
      <4>3. d \in ToSet(stack'[j].deps) \/ d = Next1
        BY <1>1, <4>1, <4>2, GoneOnElements
      <4>4. QED
        BY <1>6, <4>1, <4>2, <4>3
    <3>3. QED
      BY <1>1, <2>1, <3>1, <3>2 DEF GraphIInv, NothingForgotten, Pending
  <2>2. ASSUME NEW d \in ToSet(manifest)
        PROVE  versions[Key[d.id]] >= d.version \/ d \in ToSet(stack'[1].deps)
    <3>1. 1 \in 1..Len(stack)
      BY <1>1, GoneOnElements
    <3>2. CASE d \in ToSet(stack[1].deps)
      BY <1>1, <1>6, <3>1, <3>2, GoneOnElements
    <3>3. QED
      BY <1>1, <3>2 DEF GraphIInv, NothingForgotten, Pending
  <2>3. QED
    BY <1>2, <2>1, <2>2 DEF NothingForgotten, Pending
<1>8. LockIsPublished' /\ LockIsClosed'
  BY <1>2, LockStays
<1>9. QED
  BY <1>1, <1>2, <1>3, <1>4, <1>5, <1>7, <1>8
     DEF GraphIInv, LockServesManifest, LoadsInPlace, NothingUnlinked

\* An activation with nothing left to do has nothing to forget.
LEMMA VisitReturnsKeeps ==
    ASSUME GraphIInv, VisitReturns
    PROVE  GraphIInv'
<1>1. /\ phase = "resolving" /\ phase' = "resolving" /\ Len(stack) > 1 /\ Top.deps = <<>>
      /\ stack' = Front(stack)
  BY DEF VisitReturns
<1>2. /\ feed' = feed /\ manifest' = manifest /\ versions' = versions
      /\ resolved' = resolved /\ lock' = lock /\ loaded' = loaded /\ attached' = attached
  BY DEF VisitReturns
<1>3. stack \in Seq(Activations) /\ stack # <<>>
  BY <1>1 DEF GraphIInv, GraphTypes, AtRest
<1>4. /\ stack' \in Seq(Activations) /\ Len(stack') = Len(stack) - 1 /\ Len(stack) \in Nat
      /\ \A i \in 1..(Len(stack) - 1) : stack'[i] = stack[i]
      /\ stack' # <<>> /\ 1 \in 1..(Len(stack) - 1)
  BY <1>1, <1>3, FrontElements, EmptySeq
<1>5. \A d : d \notin ToSet(stack[Len(stack)].deps)
  BY <1>1 DEF Top, Last, ToSet
<1>6. \A j \in 1..Len(stack) : j = Len(stack) \/ j \in 1..(Len(stack) - 1)
  BY <1>4
<1>7. GraphTypes'
  BY <1>1, <1>2, <1>4 DEF GraphIInv, GraphTypes, AtRest
<1>8. Rooted'
  <2>1. \A j \in Outer' : j \in Outer /\ stack'[j] = stack[j]
    BY <1>4 DEF Outer
  <2>2. QED
    BY <1>1, <1>4, <2>1 DEF GraphIInv, Rooted
<1>9. ResolvedIsPublished'
  BY <1>1, <1>2 DEF GraphIInv, ResolvedIsPublished, Resolved
<1>10. NothingForgotten'
  <2>1. ASSUME NEW k \in Keys, NEW d, \E j \in Outer : Key[stack[j].id] = k /\ d \in ToSet(stack[j].deps)
        PROVE  \E j \in Outer' : Key[stack'[j].id] = k /\ d \in ToSet(stack'[j].deps)
    <3>1. PICK j \in Outer : Key[stack[j].id] = k /\ d \in ToSet(stack[j].deps)
      BY <2>1
    <3>2. j # Len(stack)
      BY <1>5, <3>1
    <3>4. j \in 1..Len(stack)
      BY <1>4 DEF Outer
    <3>3. j \in Outer' /\ stack'[j] = stack[j]
      BY <1>4, <3>2, <3>4 DEF Outer
    <3>5. QED
      BY <3>1, <3>3
  <2>2. stack'[1] = stack[1]
    BY <1>4
  <2>3. QED
    BY <1>1, <1>2, <2>1, <2>2 DEF GraphIInv, NothingForgotten, Pending
<1>11. LockIsPublished' /\ LockIsClosed'
  BY <1>2, LockStays
<1>12. QED
  BY <1>1, <1>2, <1>7, <1>8, <1>9, <1>10, <1>11
     DEF GraphIInv, LockServesManifest, LoadsInPlace, NothingUnlinked

\* The dependencies of what is resolved now are all before its activation.
LEMMA VisitPackageKeeps ==
    ASSUME GraphIInv, VisitPackage
    PROVE  GraphIInv'
<1> DEFINE k == Key[Next1.id]
           v == Next1.version
           a == Activation(Next1.id, feed[k][v].deps)
<1>1. /\ Busy /\ phase = "resolving" /\ phase' = "resolving" /\ versions[k] < v
      /\ v \in DOMAIN feed[k] /\ stack' = Append(GoneOn, a)
      /\ versions' = [versions EXCEPT ![k] = v]
      /\ resolved' = [resolved EXCEPT ![k] = Resolved(k, v)]
  BY DEF VisitPackage, Visiting
<1>2. feed' = feed /\ manifest' = manifest /\ lock' = lock /\ loaded' = loaded /\ attached' = attached
  BY DEF VisitPackage
<1>3. k \in Keys /\ Next1.id \in Ids /\ v \in Nat
  BY <1>1, GoneOnElements
<1>4. /\ v > 0 /\ feed[k][v].deps \in Seq(Dependency)
      /\ Resolved(k, v) \in Package /\ Resolved(k, v) # NoPackage
  BY <1>1, <1>3, PublishedPackage DEF GraphIInv
<1>5. a \in Activations /\ a.id = Next1.id /\ a.deps = feed[k][v].deps
  <2>1. Dependency \subseteq [id : Ids, version : Nat]
    BY DEF Dependency
  <2>2. feed[k][v].deps \in Seq([id : Ids, version : Nat])
    BY <1>4, <2>1, SeqMonotonic
  <2> HIDE DEF k, v
  <2>3. QED
    BY <1>3, <2>2 DEF Activation, Activations
<1> HIDE DEF a, k, v
<1>6. /\ versions \in [Keys -> Nat] /\ resolved \in [Keys -> Package \cup {NoPackage}]
      /\ versions' \in [Keys -> Nat] /\ resolved' \in [Keys -> Package \cup {NoPackage}]
      /\ versions'[k] = v /\ resolved'[k] = Resolved(k, v)
      /\ \A x \in Keys : x # k => versions'[x] = versions[x] /\ resolved'[x] = resolved[x]
  BY <1>1, <1>3, <1>4 DEF GraphIInv, GraphTypes
<1>7. \A x \in Keys : versions[x] \in Nat /\ versions'[x] \in Nat /\ versions'[x] >= versions[x]
  <2> SUFFICES ASSUME NEW x \in Keys
               PROVE  versions[x] \in Nat /\ versions'[x] \in Nat /\ versions'[x] >= versions[x]
    OBVIOUS
  <2>1. CASE x = k
    BY <1>1, <1>3, <1>6, <2>1
  <2>2. CASE x # k
    BY <1>6, <2>2
  <2>3. QED
    BY <2>1, <2>2
<1>8. /\ stack' \in Seq(Activations) /\ stack' # <<>> /\ Len(stack') = Len(stack) + 1
      /\ Len(stack) \in Nat \ {0} /\ stack'[Len(stack) + 1] = a
      /\ \A j \in 1..Len(stack) : stack'[j] = GoneOn[j]
  <2>1. GoneOn \in Seq(Activations) /\ Len(GoneOn) = Len(stack) /\ Len(stack) \in Nat \ {0}
    BY <1>1, GoneOnElements
  <2>2. QED
    BY <1>1, <1>5, <2>1, AppendProperties
<1>9. ASSUME NEW j \in 1..Len(stack), NEW d \in ToSet(stack[j].deps)
      PROVE  stack'[j].id = stack[j].id /\ (d \in ToSet(stack'[j].deps) \/ d = Next1)
  BY <1>1, <1>8, GoneOnElements
<1>10. GraphTypes'
  BY <1>1, <1>2, <1>6, <1>8 DEF GraphIInv, GraphTypes, AtRest
<1>11. Rooted'
  <2>1. stack'[1].id = NoPackage
    <3>1. 1 \in 1..Len(stack) /\ GoneOn[1].id = stack[1].id
      BY <1>1, <1>8, GoneOnElements
    <3>2. QED
      BY <1>1, <1>8, <3>1 DEF GraphIInv, Rooted
  <2>2. ASSUME NEW j \in Outer' PROVE stack'[j].id \in Ids
    <3>1. CASE j = Len(stack) + 1
      BY <1>3, <1>5, <1>8, <3>1
    <3>2. CASE j # Len(stack) + 1
      <4>1. j \in Outer /\ j \in 1..Len(stack)
        BY <1>8, <3>2 DEF Outer
      <4>2. stack'[j].id = stack[j].id
        BY <1>1, <1>8, <4>1, GoneOnElements
      <4>3. QED
        BY <1>1, <4>1, <4>2 DEF GraphIInv, Rooted
    <3>3. QED
      BY <3>1, <3>2
  <2>3. QED
    BY <1>8, <2>1, <2>2 DEF Rooted
<1>12. ResolvedIsPublished'
  <2>1. ASSUME NEW x \in Keys
        PROVE  /\ versions'[x] > 0 <=> resolved'[x] # NoPackage
               /\ resolved'[x] # NoPackage =>
                     versions'[x] \in DOMAIN feed[x] /\ resolved'[x] = Resolved(x, versions'[x])
    <3>1. CASE x = k
      BY <1>1, <1>4, <1>6, <3>1
    <3>2. CASE x # k
      BY <1>1, <1>6, <3>2 DEF GraphIInv, ResolvedIsPublished
    <3>3. QED
      BY <3>1, <3>2
  <2>2. \A x, y : Resolved(x, y)' = Resolved(x, y)
    BY <1>2 DEF Resolved
  <2>3. QED
    BY <1>2, <2>1 DEF ResolvedIsPublished, Resolved
<1>13. ASSUME NEW d, Key[d.id] \in Keys, d.version \in Nat, versions[Key[d.id]] >= d.version
       PROVE  versions'[Key[d.id]] >= d.version
  BY <1>7, <1>13
<1>14. versions'[Key[Next1.id]] >= Next1.version
  BY <1>3, <1>6 DEF k, v
<1>15. NothingForgotten'
  <2>1. ASSUME NEW x \in Keys, resolved'[x] # NoPackage, NEW d \in ToSet(feed[x][versions'[x]].deps)
        PROVE  \/ versions'[Key[d.id]] >= d.version
               \/ \E j \in Outer' : Key[stack'[j].id] = x /\ d \in ToSet(stack'[j].deps)
    <3>1. CASE x = k
      <4>1. Len(stack) + 1 \in Outer'
        BY <1>8 DEF Outer
      <4>2. Key[stack'[Len(stack) + 1].id] = x /\ d \in ToSet(stack'[Len(stack) + 1].deps)
        BY <1>5, <1>6, <1>8, <2>1, <3>1 DEF k
      <4>3. QED
        BY <4>1, <4>2
    <3>2. CASE x # k
      <4>1. resolved[x] # NoPackage /\ versions'[x] = versions[x] /\ versions[x] \in DOMAIN feed[x]
        BY <1>1, <1>6, <2>1, <3>2 DEF GraphIInv, ResolvedIsPublished
      <4>2. feed[x][versions[x]].deps \in Seq(Dependency)
        BY <4>1, PublishedPackage DEF GraphIInv
      <4>3. d \in Dependency
        BY <2>1, <4>1, <4>2 DEF ToSet
      <4>4. Key[d.id] \in Keys /\ d.version \in Nat
        BY <4>3 DEF Dependency, Keys
      <4>5. CASE versions[Key[d.id]] >= d.version
        BY <1>13, <4>4, <4>5
      <4>6. CASE \E j \in Outer : Key[stack[j].id] = x /\ d \in ToSet(stack[j].deps)
        <5>1. PICK j \in Outer : Key[stack[j].id] = x /\ d \in ToSet(stack[j].deps)
          BY <4>6
        <5>2. j \in Outer' /\ j \in 1..Len(stack)
          BY <1>8 DEF Outer
        <5>3. stack'[j].id = stack[j].id /\ (d \in ToSet(stack'[j].deps) \/ d = Next1)
          BY <1>9, <5>1, <5>2
        <5>4. QED
          BY <1>14, <5>1, <5>2, <5>3
      <4>7. \/ versions[Key[d.id]] >= d.version
            \/ \E j \in Outer : Key[stack[j].id] = x /\ d \in ToSet(stack[j].deps)
        <5>1. d \in ToSet(feed[x][versions[x]].deps)
          BY <2>1, <4>1
        <5>2. QED
          BY <1>1, <4>1, <5>1 DEF GraphIInv, NothingForgotten, Pending
      <4>8. QED
        BY <4>5, <4>6, <4>7
    <3>3. QED
      BY <3>1, <3>2
  <2>2. ASSUME NEW d \in ToSet(manifest)
        PROVE  versions'[Key[d.id]] >= d.version \/ d \in ToSet(stack'[1].deps)
    <3>1. 1 \in 1..Len(stack)
      BY <1>8
    <3>2. d \in Dependency
      BY DEF GraphIInv, GraphTypes, ToSet
    <3>3. Key[d.id] \in Keys /\ d.version \in Nat
      BY <3>2 DEF Dependency, Keys
    <3>4. CASE d \in ToSet(stack[1].deps)
      <4>1. d \in ToSet(stack'[1].deps) \/ d = Next1
        BY <1>9, <3>1, <3>4
      <4>2. QED
        BY <1>14, <4>1
    <3>5. CASE versions[Key[d.id]] >= d.version
      BY <1>13, <3>3, <3>5
    <3>6. QED
      BY <1>1, <3>4, <3>5 DEF GraphIInv, NothingForgotten, Pending
  <2>3. QED
    BY <1>2, <2>1, <2>2 DEF NothingForgotten, Pending
<1>16. LockIsPublished' /\ LockIsClosed'
  BY <1>2, LockStays
<1>17. QED
  BY <1>1, <1>2, <1>10, <1>11, <1>12, <1>15, <1>16
     DEF GraphIInv, LockServesManifest, LoadsInPlace, NothingUnlinked

\* When nothing is pending any more, what is resolved is closed under dependencies.
LEMMA RestoreWritesKeeps ==
    ASSUME GraphIInv, RestoreWrites
    PROVE  GraphIInv'
<1> DEFINE P(k) == Locked(resolved[k])
           There == {k \in Keys : resolved[k] # NoPackage}
<1>1. /\ phase = "resolving" /\ phase' = "restored" /\ Len(stack) = 1 /\ Top.deps = <<>>
      /\ lock' = {P(k) : k \in There} /\ stack' = <<>>
  BY DEF RestoreWrites
<1>2. /\ feed' = feed /\ manifest' = manifest /\ versions' = versions
      /\ resolved' = resolved /\ loaded' = loaded /\ attached' = attached
  BY DEF RestoreWrites
<1>3. ASSUME NEW k \in There
      PROVE  /\ versions[k] \in DOMAIN feed[k] /\ P(k) \in Package /\ P(k).version = versions[k]
             /\ Key[P(k).id] = k /\ feed[k][versions[k]].deps \in Seq(Dependency)
             /\ ToSet(P(k).deps) = {d.id : d \in ToSet(feed[k][versions[k]].deps)}
  <2>1. versions[k] \in DOMAIN feed[k] /\ resolved[k] = Resolved(k, versions[k])
    BY <1>1 DEF GraphIInv, ResolvedIsPublished
  <2>2. k \in Keys /\ feed \in Feeds
    BY DEF GraphIInv
  <2> DEFINE v == versions[k]
             p == Locked(Resolved(k, v))
  <2>3. P(k) = p /\ v \in DOMAIN feed[k]
    BY <2>1
  <2> HIDE DEF P, There, v
  <2>4. /\ p \in Package /\ p.version = v /\ Key[p.id] = k /\ feed[k][v].deps \in Seq(Dependency)
        /\ ToSet(p.deps) = {d.id : d \in ToSet(feed[k][v].deps)}
    BY <2>2, <2>3, PublishedPackage
  <2> HIDE DEF p
  <2>5. QED
    BY <2>3, <2>4 DEF v
<1>4. \A lp \in lock' : \E k \in There : lp = P(k)
  BY <1>1
<1>5. \A k \in There : P(k) \in lock'
  BY <1>1
<1>6. \A d : d \notin ToSet(stack[1].deps)
  BY <1>1 DEF Top, Last, ToSet
<1>7. \A k \in Keys : versions[k] > 0 => k \in There
  BY <1>1 DEF GraphIInv, ResolvedIsPublished
<1>8. Outer = {}
  BY <1>1 DEF Outer
<1>9. \A k \in There : \A d \in ToSet(feed[k][versions[k]].deps) : versions[Key[d.id]] >= d.version
  BY <1>1, <1>8 DEF GraphIInv, NothingForgotten
<1>10. \A d \in ToSet(manifest) : versions[Key[d.id]] >= d.version
  BY <1>1, <1>6 DEF GraphIInv, NothingForgotten, Pending
<1> HIDE DEF P, There
<1>11. ASSUME NEW d \in Dependency, versions[Key[d.id]] >= d.version
       PROVE  \E other \in lock' : Key[other.id] = Key[d.id] /\ other.version >= d.version
  <2>1. Key[d.id] \in Keys /\ d.version \in Nat \ {0}
    BY DEF Dependency, Keys
  <2>2. versions[Key[d.id]] \in Nat
    BY <2>1 DEF GraphIInv, GraphTypes
  <2>3. versions[Key[d.id]] > 0
    BY <1>11, <2>1, <2>2
  <2>4. Key[d.id] \in There
    BY <1>7, <2>1, <2>3
  <2>5. QED
    BY <1>3, <1>5, <1>11, <2>4
<1>12. GraphTypes'
  <2>1. lock' \subseteq Package /\ stack' \in Seq(Activations)
    BY <1>1, <1>3, <1>4, EmptySeq
  <2>2. QED
    BY <1>1, <1>2, <2>1 DEF GraphIInv, GraphTypes, AtRest
<1>13. LockIsPublished'
  <2>1. ASSUME NEW lp \in lock'
        PROVE  /\ lp.version \in DOMAIN feed[Key[lp.id]]
               /\ ToSet(lp.deps) = {d.id : d \in ToSet(feed[Key[lp.id]][lp.version].deps)}
    <3>1. PICK k \in There : lp = P(k)
      BY <1>4
    <3>2. QED
      BY <1>3, <3>1
  <2>2. ASSUME NEW x \in lock', NEW y \in lock', Key[x.id] = Key[y.id] PROVE x = y
    <3>1. PICK k \in There : x = P(k)
      BY <1>4
    <3>2. PICK l \in There : y = P(l)
      BY <1>4
    <3>3. QED
      BY <1>3, <2>2, <3>1, <3>2
  <2>3. QED
    BY <1>2, <2>1, <2>2 DEF LockIsPublished
<1>14. LockIsClosed'
  <2>1. ASSUME NEW lp \in lock', NEW i \in DOMAIN feed[Key[lp.id]][lp.version].deps
        PROVE  LET d == feed[Key[lp.id]][lp.version].deps[i]
               IN  \E other \in lock' : Key[other.id] = Key[d.id] /\ other.version >= d.version
    <3>1. PICK k \in There : lp = P(k)
      BY <1>4
    <3> DEFINE s == feed[k][versions[k]].deps
    <3>2. s \in Seq(Dependency) /\ feed[Key[lp.id]][lp.version].deps = s
      BY <1>3, <3>1
    <3>3. \A d \in ToSet(s) : versions[Key[d.id]] >= d.version
      BY <1>9
    <3> HIDE DEF s
    <3>4. i \in DOMAIN s /\ s[i] \in Dependency /\ s[i] \in ToSet(s)
      BY <2>1, <3>2 DEF ToSet
    <3>5. \E other \in lock' : Key[other.id] = Key[s[i].id] /\ other.version >= s[i].version
      BY <1>11, <3>3, <3>4
    <3>6. QED
      BY <3>2, <3>5
  <2>2. QED
    BY <1>2, <2>1 DEF LockIsClosed
<1>15. LockServesManifest'
  <2>1. ASSUME NEW i \in DOMAIN manifest
        PROVE  \E lp \in lock' : Key[lp.id] = Key[manifest[i].id] /\ lp.version >= manifest[i].version
    <3>1. manifest[i] \in Dependency /\ manifest[i] \in ToSet(manifest)
      BY DEF GraphIInv, GraphTypes, ToSet
    <3>2. QED
      BY <1>10, <1>11, <3>1
  <2>2. \A x, y \in lock' : Key[x.id] = Key[y.id] => x = y
    BY <1>13 DEF LockIsPublished
  <2>3. QED
    BY <1>2, <2>1, <2>2 DEF LockServesManifest
<1>16. feed' \in Feeds
  BY <1>2 DEF GraphIInv
<1>17. Rooted' /\ ResolvedIsPublished' /\ NothingForgotten' /\ LoadsInPlace' /\ NothingUnlinked'
  BY <1>1 DEF Rooted, ResolvedIsPublished, NothingForgotten, LoadsInPlace, NothingUnlinked
<1>18. QED
  BY <1>12, <1>13, <1>14, <1>15, <1>16, <1>17 DEF GraphIInv

\* The names of a lock entry's dependencies, as dependencies.
LEMMA NamedElements ==
    ASSUME NEW ids \in Seq(Ids)
    PROVE  /\ Named(ids) \in Seq([id : Ids, version : Nat])
           /\ \A d \in ToSet(Named(ids)) : d.id \in ToSet(ids)
           /\ \A id \in ToSet(ids) : \E d \in ToSet(Named(ids)) : d.id = id
<1>1. Len(ids) \in Nat /\ DOMAIN ids = 1..Len(ids) /\ \A i \in 1..Len(ids) : ids[i] \in Ids
  OBVIOUS
<1>2. Named(ids) = [i \in 1..Len(ids) |-> [id |-> ids[i], version |-> 0]]
  BY <1>1 DEF Named
<1>3. Named(ids) \in Seq([id : Ids, version : Nat]) /\ DOMAIN Named(ids) = 1..Len(ids)
  BY <1>1, <1>2
<1>4. \A i \in 1..Len(ids) : Named(ids)[i].id = ids[i]
  BY <1>2
<1>5. QED
  BY <1>1, <1>3, <1>4 DEF ToSet

\* The first call begins with nothing loaded.
LEMMA LoadBeginsKeeps ==
    ASSUME GraphIInv, NEW id \in Ids, LoadBegins(id)
    PROVE  GraphIInv'
<1> DEFINE a == Activation(NoPackage, Named(<<id>>))
<1>1. a \in Activations /\ a.id = NoPackage
  <2>1. <<id>> \in Seq(Ids)
    OBVIOUS
  <2>2. Named(<<id>>) \in Seq([id : Ids, version : Nat])
    BY <2>1, NamedElements
  <2>3. QED
    BY <2>2 DEF Activation, Activations
<1>2. stack' = <<a>> /\ phase' = "loading" /\ loaded' = [i \in Ids |-> "no"] /\ attached' = {}
  BY DEF LoadBegins
<1>3. /\ feed' = feed /\ manifest' = manifest /\ versions' = versions
      /\ resolved' = resolved /\ lock' = lock
  BY DEF LoadBegins
<1> HIDE DEF a
<1>4. stack' \in Seq(Activations) /\ stack' # <<>> /\ stack'[1].id = NoPackage /\ Len(stack') = 1
  BY <1>1, <1>2
<1>5. Outer' = {} /\ 1..(Len(stack') - 1) = {}
  BY <1>4 DEF Outer
<1>6. GraphTypes'
  BY <1>2, <1>3, <1>4 DEF GraphIInv, GraphTypes, AtRest
<1>7. Rooted'
  BY <1>4, <1>5 DEF Rooted
<1>8. LoadsInPlace'
  BY <1>5 DEF LoadsInPlace
<1>9. NothingUnlinked'
  <2>1. \A lp \in lock' : loaded'[lp.id] = "no"
    BY <1>2, <1>3 DEF GraphIInv, GraphTypes, Package
  <2>2. QED
    BY <2>1 DEF NothingUnlinked
<1>10. LockIsPublished' /\ LockIsClosed'
  BY <1>3, LockStays
<1>11. QED
  BY <1>2, <1>3, <1>6, <1>7, <1>8, <1>9, <1>10
     DEF GraphIInv, ResolvedIsPublished, NothingForgotten, LockServesManifest

\* Passing a dependency keeps every activation in its place.
LEMMA GoneOnInPlace ==
    ASSUME GraphIInv, Busy, phase = "loading", phase' = "loading", stack' = GoneOn, lock' = lock,
           \A id \in Ids : loaded[id] = "asm" => loaded'[id] = "asm"
    PROVE  Rooted' /\ LoadsInPlace'
<1>1. /\ stack' # <<>> /\ Len(stack') = Len(stack) /\ Len(stack) \in Nat \ {0}
      /\ \A j \in 1..(Len(stack) - 1) : stack'[j] = stack[j]
      /\ \A j \in 1..Len(stack) : /\ stack'[j].id = stack[j].id
                                  /\ ToSet(stack'[j].deps) \subseteq ToSet(stack[j].deps)
  BY GoneOnElements
<1>2. Outer' = Outer /\ Outer \subseteq 1..Len(stack) /\ 1 \in 1..Len(stack)
  BY <1>1 DEF Outer
<1>3. /\ stack[1].id = NoPackage
      /\ \A j \in Outer : stack[j].id \in Ids
  BY DEF GraphIInv, Rooted
<1>4. Rooted'
  BY <1>1, <1>2, <1>3 DEF Rooted
<1>5. ASSUME NEW j \in Outer
      PROVE  /\ loaded'[stack'[j].id] = "asm"
             /\ \E lp \in lock : lp.id = stack'[j].id
                   /\ \A d \in ToSet(stack'[j].deps) : d.id \in ToSet(lp.deps)
  <2>1. /\ loaded[stack[j].id] = "asm"
        /\ \E lp \in lock : lp.id = stack[j].id
              /\ \A d \in ToSet(stack[j].deps) : d.id \in ToSet(lp.deps)
    BY DEF GraphIInv, LoadsInPlace
  <2>2. QED
    BY <1>1, <1>2, <1>3, <2>1
<1>6. ASSUME NEW j \in 1..(Len(stack) - 1)
      PROVE  stack'[j].deps # <<>> /\ Head(stack'[j].deps).id = stack'[j + 1].id
  <2>1. j + 1 \in 1..Len(stack)
    BY <1>1
  <2>2. stack'[j] = stack[j] /\ stack'[j + 1].id = stack[j + 1].id
    BY <1>1, <2>1
  <2>3. stack[j].deps # <<>> /\ Head(stack[j].deps).id = stack[j + 1].id
    BY DEF GraphIInv, LoadsInPlace
  <2>4. QED
    BY <2>2, <2>3
<1>7. QED
  BY <1>1, <1>2, <1>4, <1>5, <1>6 DEF LoadsInPlace

\* What an activation waits for it waits for still, but for the dependency it has passed.
LEMMA GoneOnPending ==
    ASSUME GraphIInv, Busy, phase = "loading", stack' = GoneOn,
           NEW id, NEW dep, \E j \in Outer : stack[j].id = id /\ \E d \in ToSet(stack[j].deps) : d.id = dep
    PROVE  \/ \E j \in Outer' : stack'[j].id = id /\ \E d \in ToSet(stack'[j].deps) : d.id = dep
           \/ Top.id = id /\ Top.id # NoPackage /\ Next1.id = dep
<1>1. PICK j \in Outer : stack[j].id = id /\ \E d \in ToSet(stack[j].deps) : d.id = dep
  OBVIOUS
<1>2. PICK d \in ToSet(stack[j].deps) : d.id = dep
  BY <1>1
<1>3. /\ Len(stack') = Len(stack) /\ Len(stack) \in Nat \ {0} /\ Top = stack[Len(stack)]
      /\ \A i \in 1..Len(stack) :
           /\ stack'[i].id = stack[i].id
           /\ \A e \in ToSet(stack[i].deps) :
                 e \in ToSet(stack'[i].deps) \/ (i = Len(stack) /\ e = Next1)
  BY GoneOnElements
<1>4. j \in Outer' /\ j \in 1..Len(stack)
  BY <1>3 DEF Outer
<1>5. stack[j].id \in Ids /\ stack[j].id # NoPackage
  BY NuGetGraphAssumption DEF GraphIInv, Rooted
<1>6. CASE d \in ToSet(stack'[j].deps)
  BY <1>1, <1>2, <1>3, <1>4, <1>6
<1>7. CASE j = Len(stack) /\ d = Next1
  BY <1>1, <1>2, <1>3, <1>5, <1>7
<1>8. QED
  BY <1>2, <1>3, <1>4, <1>6, <1>7

\* What the memo has is attached to the dependent.
LEMMA LoadMemoisedKeeps ==
    ASSUME GraphIInv, LoadMemoised
    PROVE  GraphIInv'
<1>1. /\ Busy /\ phase = "loading" /\ phase' = "loading" /\ stack' = GoneOn
      /\ loaded[Next1.id] # "no" /\ attached' = Attach(Next1.id)
  BY DEF LoadMemoised, Loading
<1>2. /\ feed' = feed /\ manifest' = manifest /\ versions' = versions
      /\ resolved' = resolved /\ lock' = lock /\ loaded' = loaded
  BY DEF LoadMemoised
<1>3. Next1.id \in Ids /\ GoneOn \in Seq(Activations) /\ Top \in Activations /\ GoneOn # <<>>
  <2>1. /\ Next1 \in [id : Ids, version : Nat] /\ stack \in Seq(Activations) /\ Top = stack[Len(stack)]
        /\ Len(stack) \in Nat \ {0} /\ GoneOn \in Seq(Activations) /\ GoneOn # <<>>
    BY <1>1, GoneOnElements
  <2>2. QED
    BY <2>1
<1>4. GraphTypes'
  <2>1. attached' \subseteq Ids \X Ids
    BY <1>1, <1>3 DEF Attach, Activations, GraphIInv, GraphTypes
  <2>2. QED
    BY <1>1, <1>2, <1>3, <2>1 DEF GraphIInv, GraphTypes, AtRest
<1>5. Rooted' /\ LoadsInPlace'
  BY <1>1, <1>2, GoneOnInPlace
<1>6. attached \subseteq attached'
  BY <1>1 DEF Attach
<1>7. ASSUME NEW lp \in lock, loaded[lp.id] = "asm", NEW dep \in ToSet(lp.deps)
      PROVE  \/ Linked(lp.id, dep)'
             \/ \E j \in Outer' : stack'[j].id = lp.id /\ \E d \in ToSet(stack'[j].deps) : d.id = dep
  <2>1. CASE Linked(lp.id, dep)
    BY <1>2, <1>6, <2>1 DEF Linked
  <2>2. CASE Top.id = lp.id /\ Top.id # NoPackage /\ Next1.id = dep
    BY <1>1, <1>2, <2>2 DEF Linked, Attach
  <2>3. CASE \E j \in Outer : stack[j].id = lp.id /\ \E d \in ToSet(stack[j].deps) : d.id = dep
    BY <1>1, <2>2, <2>3, GoneOnPending
  <2>4. QED
    BY <1>1, <1>7, <2>1, <2>3 DEF GraphIInv, NothingUnlinked
<1>8. NothingUnlinked'
  BY <1>2, <1>7 DEF NothingUnlinked, Linked
<1>9. LockIsPublished' /\ LockIsClosed'
  BY <1>2, LockStays
<1>10. QED
  BY <1>1, <1>2, <1>4, <1>5, <1>8, <1>9
     DEF GraphIInv, ResolvedIsPublished, NothingForgotten, LockServesManifest

\* A package without an assembly needs no link.
LEMMA LoadNoAssetKeeps ==
    ASSUME GraphIInv, LoadNoAsset
    PROVE  GraphIInv'
<1>1. /\ Busy /\ phase = "loading" /\ phase' = "loading" /\ stack' = GoneOn
      /\ loaded[Next1.id] = "no" /\ loaded' = [loaded EXCEPT ![Next1.id] = "nil"]
  BY DEF LoadNoAsset, Loading
<1>2. /\ feed' = feed /\ manifest' = manifest /\ versions' = versions
      /\ resolved' = resolved /\ lock' = lock /\ attached' = attached
  BY DEF LoadNoAsset
<1>3. Next1.id \in Ids /\ GoneOn \in Seq(Activations) /\ GoneOn # <<>>
  BY <1>1, GoneOnElements
<1>4. /\ loaded \in [Ids -> {"no", "nil", "asm"}] /\ loaded' \in [Ids -> {"no", "nil", "asm"}]
      /\ loaded'[Next1.id] = "nil"
      /\ \A id \in Ids : id # Next1.id => loaded'[id] = loaded[id]
  BY <1>1, <1>3 DEF GraphIInv, GraphTypes
<1>5. GraphTypes'
  BY <1>1, <1>2, <1>3, <1>4 DEF GraphIInv, GraphTypes, AtRest
<1>6. Rooted' /\ LoadsInPlace'
  BY <1>1, <1>2, <1>4, GoneOnInPlace
<1>7. ASSUME NEW lp \in lock, loaded'[lp.id] = "asm", NEW dep \in ToSet(lp.deps)
      PROVE  \/ Linked(lp.id, dep)'
             \/ \E j \in Outer' : stack'[j].id = lp.id /\ \E d \in ToSet(stack'[j].deps) : d.id = dep
  <2>1. lp.id \in Ids /\ dep \in Ids
    BY DEF GraphIInv, GraphTypes, Package, ToSet
  <2>2. loaded[lp.id] = "asm"
    BY <1>4, <1>7, <2>1
  <2>3. CASE Linked(lp.id, dep)
    BY <1>1, <1>2, <1>4, <2>1, <2>3 DEF Linked
  <2>4. CASE Next1.id = dep
    BY <1>4, <2>4 DEF Linked
  <2>5. CASE \E j \in Outer : stack[j].id = lp.id /\ \E d \in ToSet(stack[j].deps) : d.id = dep
    BY <1>1, <2>4, <2>5, GoneOnPending
  <2>6. QED
    BY <1>1, <2>2, <2>3, <2>5 DEF GraphIInv, NothingUnlinked
<1>8. NothingUnlinked'
  BY <1>2, <1>7 DEF NothingUnlinked, Linked
<1>9. LockIsPublished' /\ LockIsClosed'
  BY <1>2, LockStays
<1>10. QED
  BY <1>1, <1>2, <1>5, <1>6, <1>8, <1>9
     DEF GraphIInv, ResolvedIsPublished, NothingForgotten, LockServesManifest

\* What has just been loaded has all its dependencies before its activation.
LEMMA LoadAssemblyKeeps ==
    ASSUME GraphIInv, LoadAssembly
    PROVE  GraphIInv'
<1>1. PICK new \in lock : /\ new.id = Next1.id
                          /\ stack' = Append(stack, Activation(Next1.id, Named(new.deps)))
  BY DEF LoadAssembly, Found
<1> DEFINE a == Activation(Next1.id, Named(new.deps))
           n == Len(stack)
<1>2. /\ Busy /\ phase = "loading" /\ phase' = "loading"
      /\ loaded[Next1.id] = "no" /\ loaded' = [loaded EXCEPT ![Next1.id] = "asm"]
  BY DEF LoadAssembly, Loading
<1>3. /\ feed' = feed /\ manifest' = manifest /\ versions' = versions
      /\ resolved' = resolved /\ lock' = lock /\ attached' = attached
  BY DEF LoadAssembly
<1>4. new.id \in Ids /\ new.deps \in Seq(Ids) /\ Next1.id \in Ids
  BY <1>1 DEF GraphIInv, GraphTypes, Package
<1>5. /\ a \in Activations /\ a.id = Next1.id
      /\ \A d \in ToSet(a.deps) : d.id \in ToSet(new.deps)
      /\ \A id \in ToSet(new.deps) : \E d \in ToSet(a.deps) : d.id = id
  <2>1. /\ Named(new.deps) \in Seq([id : Ids, version : Nat])
        /\ \A d \in ToSet(Named(new.deps)) : d.id \in ToSet(new.deps)
        /\ \A id \in ToSet(new.deps) : \E d \in ToSet(Named(new.deps)) : d.id = id
    BY <1>4, NamedElements
  <2>2. QED
    BY <1>4, <2>1 DEF Activation, Activations
<1> HIDE DEF a, n
<1>6. /\ loaded \in [Ids -> {"no", "nil", "asm"}] /\ loaded' \in [Ids -> {"no", "nil", "asm"}]
      /\ loaded'[Next1.id] = "asm"
      /\ \A id \in Ids : id # Next1.id => loaded'[id] = loaded[id]
  BY <1>2, <1>4 DEF GraphIInv, GraphTypes
<1>7. stack \in Seq(Activations) /\ n \in Nat \ {0} /\ Top = stack[n] /\ Next1 = Head(stack[n].deps)
        /\ stack[n].deps # <<>>
  <2>1. stack \in Seq(Activations) /\ n \in Nat \ {0} /\ Top = stack[n]
    BY <1>2, GoneOnElements DEF n
  <2>2. QED
    BY <1>2, <2>1 DEF Busy, Next1
<1>8. /\ stack' \in Seq(Activations) /\ stack' # <<>> /\ Len(stack') = n + 1
      /\ \A j \in 1..n : stack'[j] = stack[j]
      /\ stack'[n + 1] = a
  BY <1>1, <1>5, <1>7, AppendProperties DEF a, n
<1>9. /\ \A j \in Outer : j \in Outer' /\ j \in 1..n /\ stack'[j] = stack[j]
      /\ \A j \in Outer' : j \in Outer \/ j = n + 1
      /\ n + 1 \in Outer' /\ 1 \in 1..n
  BY <1>7, <1>8 DEF Outer, n
<1>10. /\ stack[1].id = NoPackage
       /\ \A j \in Outer : stack[j].id \in Ids
  BY <1>2 DEF GraphIInv, Rooted
<1>11. GraphTypes'
  BY <1>2, <1>3, <1>6, <1>8 DEF GraphIInv, GraphTypes, AtRest
<1>12. Rooted'
  <2>1. ASSUME NEW j \in Outer' PROVE stack'[j].id \in Ids
    BY <1>4, <1>5, <1>8, <1>9, <1>10
  <2>2. stack'[1].id = NoPackage
    BY <1>8, <1>9, <1>10
  <2>3. QED
    BY <1>8, <2>1, <2>2 DEF Rooted
<1>13. LoadsInPlace'
  <2>1. ASSUME NEW j \in Outer'
        PROVE  /\ loaded'[stack'[j].id] = "asm"
               /\ \E lp \in lock : lp.id = stack'[j].id
                     /\ \A d \in ToSet(stack'[j].deps) : d.id \in ToSet(lp.deps)
    <3>1. CASE j \in Outer
      <4>1. /\ loaded[stack[j].id] = "asm"
            /\ \E lp \in lock : lp.id = stack[j].id
                  /\ \A d \in ToSet(stack[j].deps) : d.id \in ToSet(lp.deps)
        BY <1>2, <3>1 DEF GraphIInv, LoadsInPlace
      <4>2. stack'[j] = stack[j] /\ stack[j].id \in Ids /\ stack[j].id # Next1.id
        BY <1>2, <1>9, <1>10, <3>1, <4>1
      <4>3. QED
        BY <1>6, <4>1, <4>2
    <3>2. CASE j = n + 1
      <4>1. stack'[j] = a
        BY <1>8, <3>2
      <4>2. new \in lock /\ new.id = a.id
        BY <1>1, <1>5
      <4>3. QED
        BY <1>5, <1>6, <4>1, <4>2
    <3>3. QED
      BY <1>9, <3>1, <3>2
  <2>2. ASSUME NEW j \in 1..n
        PROVE  stack'[j].deps # <<>> /\ Head(stack'[j].deps).id = stack'[j + 1].id
    <3>1. CASE j = n
      BY <1>5, <1>7, <1>8, <3>1
    <3>2. CASE j # n
      <4>1. j \in 1..(n - 1) /\ j + 1 \in 1..n
        BY <1>7, <3>2
      <4>2. stack[j].deps # <<>> /\ Head(stack[j].deps).id = stack[j + 1].id
        BY <1>2, <4>1 DEF GraphIInv, LoadsInPlace, n
      <4>3. QED
        BY <1>8, <4>1, <4>2
    <3>3. QED
      BY <3>1, <3>2
  <2>3. (n + 1) - 1 = n
    BY <1>7
  <2>4. QED
    BY <1>3, <1>8, <2>1, <2>2, <2>3 DEF LoadsInPlace
<1>14. ASSUME NEW lp \in lock, loaded'[lp.id] = "asm", NEW dep \in ToSet(lp.deps)
       PROVE  \/ Linked(lp.id, dep)'
              \/ \E j \in Outer' : stack'[j].id = lp.id /\ \E d \in ToSet(stack'[j].deps) : d.id = dep
  <2>1. lp.id \in Ids /\ dep \in Ids
    BY DEF GraphIInv, GraphTypes, Package, ToSet
  <2>2. CASE lp.id = Next1.id
    <3>1. lp = new
      BY <1>1, <2>2 DEF GraphIInv, LockIsPublished
    <3>2. stack'[n + 1].id = lp.id /\ \E d \in ToSet(stack'[n + 1].deps) : d.id = dep
      BY <1>1, <1>5, <1>8, <1>14, <3>1
    <3>3. QED
      BY <1>9, <3>2
  <2>3. CASE lp.id # Next1.id
    <3>1. loaded[lp.id] = "asm"
      BY <1>6, <1>14, <2>1, <2>3
    <3>2. CASE Linked(lp.id, dep)
      BY <1>2, <1>3, <1>6, <2>1, <3>2 DEF Linked
    <3>3. CASE \E j \in Outer : stack[j].id = lp.id /\ \E d \in ToSet(stack[j].deps) : d.id = dep
      BY <1>9, <3>3
    <3>4. QED
      BY <1>2, <3>1, <3>2, <3>3 DEF GraphIInv, NothingUnlinked
  <2>4. QED
    BY <2>2, <2>3
<1>15. NothingUnlinked'
  BY <1>3, <1>14 DEF NothingUnlinked, Linked
<1>16. LockIsPublished' /\ LockIsClosed'
  BY <1>3, LockStays
<1>17. QED
  BY <1>2, <1>3, <1>11, <1>12, <1>13, <1>15, <1>16
     DEF GraphIInv, ResolvedIsPublished, NothingForgotten, LockServesManifest

\* The dependent attaches the assembly that its dependency's activation is for.
LEMMA LoadReturnsKeeps ==
    ASSUME GraphIInv, LoadReturns
    PROVE  GraphIInv'
<1> DEFINE n == Len(stack) - 1
           s == Front(stack)
<1>1. /\ phase = "loading" /\ phase' = "loading" /\ Len(stack) > 1 /\ Top.deps = <<>>
      /\ stack' = Advanced(s)
      /\ attached' = IF stack[n].id # NoPackage
                     THEN attached \cup {<<stack[n].id, Top.id>>} ELSE attached
  BY DEF LoadReturns
<1>2. /\ feed' = feed /\ manifest' = manifest /\ versions' = versions
      /\ resolved' = resolved /\ lock' = lock /\ loaded' = loaded
  BY DEF LoadReturns
<1>3. stack \in Seq(Activations) /\ stack # <<>>
  BY <1>1 DEF GraphIInv, GraphTypes, AtRest
<1>4. /\ Len(stack) \in Nat /\ n \in Nat \ {0} /\ Len(stack) = n + 1 /\ Top = stack[n + 1]
      /\ s \in Seq(Activations) /\ Len(s) = n /\ \A i \in 1..n : s[i] = stack[i]
  <2>1. /\ s \in Seq(Activations) /\ Len(s) = n /\ Len(stack) \in Nat
        /\ \A i \in 1..n : s[i] = stack[i]
    BY <1>3, FrontElements
  <2>2. n \in Nat \ {0} /\ Len(stack) = n + 1
    BY <1>1, <2>1
  <2>3. QED
    BY <2>1, <2>2 DEF Top, Last
<1> HIDE DEF n, s
<1>5. s # <<>> /\ Last(s) = stack[n]
  <2>1. s # <<>>
    BY <1>4
  <2>2. QED
    BY <1>4, <2>1 DEF Last
<1>6. /\ \A j \in 2..n + 1 : j \in Outer
      /\ \A j \in Outer : j = n + 1 \/ (j \in 1..n /\ j \in 2..n)
  BY <1>4 DEF Outer
<1>7. stack[n].deps # <<>> /\ Head(stack[n].deps).id = Top.id
  <2>1. n \in 1..(Len(stack) - 1)
    BY <1>4
  <2>2. QED
    BY <1>1, <1>4, <2>1 DEF GraphIInv, LoadsInPlace
<1>8. n + 1 \in Outer /\ Top.id \in Ids /\ loaded[Top.id] = "asm"
  <2>1. n + 1 \in Outer
    BY <1>4 DEF Outer
  <2>2. QED
    BY <1>1, <1>4, <2>1 DEF GraphIInv, Rooted, LoadsInPlace
<1>9. /\ stack' \in Seq(Activations) /\ stack' # <<>> /\ Len(stack') = n
      /\ \A j \in 1..(n - 1) : stack'[j] = stack[j]
      /\ \A j \in 1..n :
            /\ stack'[j].id = stack[j].id
            /\ ToSet(stack'[j].deps) \subseteq ToSet(stack[j].deps)
            /\ \A d \in ToSet(stack[j].deps) :
                  d \in ToSet(stack'[j].deps) \/ (j = n /\ d = Head(stack[n].deps))
  <2>1. /\ stack' \in Seq(Activations) /\ stack' # <<>> /\ Len(stack') = n
        /\ \A j \in 1..(n - 1) : stack'[j] = s[j]
        /\ \A j \in 1..n :
              /\ stack'[j].id = s[j].id
              /\ ToSet(stack'[j].deps) \subseteq ToSet(s[j].deps)
              /\ \A d \in ToSet(s[j].deps) :
                    d \in ToSet(stack'[j].deps) \/ (j = n /\ d = Head(Last(s).deps))
    <3>1. Last(s).deps # <<>> /\ s \in Seq(Activations) /\ Len(s) = n
      BY <1>4, <1>5, <1>7
    <3> HIDE DEF n, s
    <3>2. /\ Advanced(s) \in Seq(Activations) /\ Advanced(s) # <<>> /\ Len(Advanced(s)) = Len(s)
          /\ \A j \in 1..(Len(s) - 1) : Advanced(s)[j] = s[j]
          /\ \A j \in 1..Len(s) :
                /\ Advanced(s)[j].id = s[j].id
                /\ ToSet(Advanced(s)[j].deps) \subseteq ToSet(s[j].deps)
                /\ \A d \in ToSet(s[j].deps) :
                      d \in ToSet(Advanced(s)[j].deps) \/ (j = Len(s) /\ d = Head(Last(s).deps))
      BY <1>5, <3>1, AdvancedElements
    <3>3. QED
      BY <1>1, <3>1, <3>2
  <2>2. \A j \in 1..(n - 1) : j \in 1..n
    BY <1>4
  <2>3. QED
    BY <1>4, <1>5, <2>1, <2>2
<1>10. Outer' = 2..n
  BY <1>9 DEF Outer
<1>11. 1 \in 1..n
  BY <1>4
<1>12. GraphTypes'
  <2>1. stack[n].id \in Ids \cup {NoPackage}
    <3>1. n \in 1..Len(stack)
      BY <1>4
    <3>2. stack[n] \in Activations
      BY <1>3, <3>1, ElementOfSeq
    <3>3. QED
      BY <3>2 DEF Activations
  <2>2. attached' \subseteq Ids \X Ids
    BY <1>1, <1>8, <2>1 DEF GraphIInv, GraphTypes
  <2>3. QED
    BY <1>1, <1>2, <1>9, <2>2 DEF GraphIInv, GraphTypes, AtRest
<1>13. /\ stack[1].id = NoPackage
       /\ \A j \in Outer : stack[j].id \in Ids /\ loaded[stack[j].id] = "asm"
  BY <1>1 DEF GraphIInv, Rooted, LoadsInPlace
<1>14. \A j \in 2..n : j \in Outer /\ j \in 1..n
  BY <1>4 DEF Outer
<1>15. Rooted'
  BY <1>9, <1>10, <1>11, <1>13, <1>14 DEF Rooted
<1>16. LoadsInPlace'
  <2>1. ASSUME NEW j \in 2..n
        PROVE  /\ loaded[stack'[j].id] = "asm"
               /\ \E lp \in lock : lp.id = stack'[j].id
                     /\ \A d \in ToSet(stack'[j].deps) : d.id \in ToSet(lp.deps)
    <3>1. \E lp \in lock : lp.id = stack[j].id
              /\ \A d \in ToSet(stack[j].deps) : d.id \in ToSet(lp.deps)
      BY <1>1, <1>14 DEF GraphIInv, LoadsInPlace
    <3>2. QED
      BY <1>9, <1>13, <1>14, <3>1
  <2>2. ASSUME NEW j \in 1..(n - 1)
        PROVE  stack'[j].deps # <<>> /\ Head(stack'[j].deps).id = stack'[j + 1].id
    <3>1. j + 1 \in 1..n /\ j \in 1..(Len(stack) - 1)
      BY <1>4
    <3>2. stack[j].deps # <<>> /\ Head(stack[j].deps).id = stack[j + 1].id
      BY <1>1, <3>1 DEF GraphIInv, LoadsInPlace
    <3>3. QED
      BY <1>9, <3>1, <3>2
  <2>3. QED
    BY <1>2, <1>9, <1>10, <2>1, <2>2 DEF LoadsInPlace
<1>17. ASSUME NEW lp \in lock, loaded[lp.id] = "asm", NEW dep \in ToSet(lp.deps)
       PROVE  \/ Linked(lp.id, dep)'
              \/ \E j \in Outer' : stack'[j].id = lp.id /\ \E d \in ToSet(stack'[j].deps) : d.id = dep
  <2>1. CASE Linked(lp.id, dep)
    BY <1>1, <1>2, <2>1 DEF Linked
  <2>2. CASE \E j \in Outer : stack[j].id = lp.id /\ \E d \in ToSet(stack[j].deps) : d.id = dep
    <3>1. PICK j \in Outer : stack[j].id = lp.id /\ \E d \in ToSet(stack[j].deps) : d.id = dep
      BY <2>2
    <3>2. PICK d \in ToSet(stack[j].deps) : d.id = dep
      BY <3>1
    <3>3. j # n + 1
      BY <1>1, <1>4, <3>2 DEF ToSet
    <3>4. j \in 2..n /\ j \in 1..n
      BY <1>6, <3>3
    <3>5. CASE d \in ToSet(stack'[j].deps)
      BY <1>9, <1>10, <3>1, <3>2, <3>4, <3>5
    <3>6. CASE j = n /\ d = Head(stack[n].deps)
      <4>1. dep = Top.id /\ stack[n].id = lp.id /\ lp.id # NoPackage
        BY <1>7, <1>13, <3>1, <3>2, <3>6, NuGetGraphAssumption
      <4>2. <<lp.id, dep>> \in attached' /\ loaded'[dep] = "asm"
        BY <1>1, <1>2, <1>8, <4>1
      <4>3. QED
        BY <4>2 DEF Linked
    <3>7. QED
      BY <1>9, <3>4, <3>5, <3>6
  <2>3. QED
    BY <1>1, <1>17, <2>1, <2>2 DEF GraphIInv, NothingUnlinked
<1>18. NothingUnlinked'
  BY <1>2, <1>17 DEF NothingUnlinked, Linked
<1>19. LockIsPublished' /\ LockIsClosed'
  BY <1>2, LockStays
<1>20. QED
  BY <1>1, <1>2, <1>12, <1>15, <1>16, <1>18, <1>19
     DEF GraphIInv, ResolvedIsPublished, NothingForgotten, LockServesManifest

\* When the first call returns nothing is pending any more.
LEMMA LoadEndsKeeps ==
    ASSUME GraphIInv, LoadEnds
    PROVE  GraphIInv'
<1>1. /\ phase = "loading" /\ phase' \in {"loaded", "loadFailed"} /\ Len(stack) = 1 /\ stack' = <<>>
  BY DEF LoadEnds
<1>2. /\ feed' = feed /\ manifest' = manifest /\ versions' = versions
      /\ resolved' = resolved /\ lock' = lock /\ loaded' = loaded /\ attached' = attached
  BY DEF LoadEnds
<1>3. Outer = {}
  BY <1>1 DEF Outer
<1>4. GraphTypes'
  <2>1. stack' \in Seq(Activations)
    BY <1>1, EmptySeq
  <2>2. QED
    BY <1>1, <1>2, <2>1 DEF GraphIInv, GraphTypes, AtRest
<1>5. \A lp \in lock : loaded[lp.id] = "asm" => \A dep \in ToSet(lp.deps) : Linked(lp.id, dep)
  BY <1>1, <1>3 DEF GraphIInv, NothingUnlinked
<1>6. NothingUnlinked'
  BY <1>2, <1>5 DEF NothingUnlinked, Linked
<1>7. LockIsPublished' /\ LockIsClosed'
  BY <1>2, LockStays
<1>8. QED
  BY <1>1, <1>2, <1>4, <1>6, <1>7
     DEF GraphIInv, Rooted, ResolvedIsPublished, NothingForgotten, LockServesManifest, LoadsInPlace

\* The invariant is inductive.
LEMMA GraphStepKeeps == GraphIInv /\ [GraphNext]_graph => GraphIInv'
<1> SUFFICES ASSUME GraphIInv, [GraphNext]_graph PROVE GraphIInv'
  OBVIOUS
<1>1. CASE \E d \in Direct : Add(d)
  BY <1>1, AddKeeps
<1>2. CASE RestoreBegins
  BY <1>2, RestoreBeginsKeeps
<1>3. CASE \E id \in Ids : LoadBegins(id)
  BY <1>3, LoadBeginsKeeps
<1>4. CASE VisitCycle \/ VisitFails \/ LoadNotLocked \/ LoadFails
  BY <1>4, FailureKeeps
<1>5. CASE VisitKnown \/ VisitPackage \/ VisitReturns \/ RestoreWrites
  BY <1>5, VisitKnownKeeps, VisitPackageKeeps, VisitReturnsKeeps, RestoreWritesKeeps
<1>6. CASE LoadMemoised \/ LoadNoAsset \/ LoadAssembly \/ LoadReturns \/ LoadEnds
  BY <1>6, LoadMemoisedKeeps, LoadNoAssetKeeps, LoadAssemblyKeeps, LoadReturnsKeeps, LoadEndsKeeps
<1>7. CASE UNCHANGED graph
  <2>1. /\ feed' = feed /\ manifest' = manifest /\ phase' = phase /\ stack' = stack /\ versions' = versions
        /\ resolved' = resolved /\ lock' = lock /\ loaded' = loaded /\ attached' = attached
    BY <1>7 DEF graph
  <2>2. GraphTypes' /\ Rooted' /\ LockServesManifest' /\ LockIsPublished' /\ LockIsClosed'
    BY <2>1, LockStays DEF GraphIInv, GraphTypes, Rooted, LockServesManifest, Outer
  <2>3. ResolvedIsPublished' /\ LoadsInPlace'
    BY <2>1 DEF GraphIInv, ResolvedIsPublished, Resolved, LoadsInPlace, Outer
  <2>4. NothingForgotten'
    BY <2>1 DEF GraphIInv, NothingForgotten, Outer, Pending
  <2>5. NothingUnlinked'
    BY <2>1 DEF GraphIInv, NothingUnlinked, Outer, Linked
  <2>6. QED
    BY <2>1, <2>2, <2>3, <2>4, <2>5 DEF GraphIInv
<1>8. QED
  BY <1>1, <1>2, <1>3, <1>4, <1>5, <1>6, <1>7 DEF GraphNext, Work

\* Every reachable state satisfies the invariant.
LEMMA GraphInvariance == GraphSpec => []GraphIInv
BY GraphStarts, GraphStepKeeps, PTL DEF GraphSpec

\* The lockfile is consistent and a successful load complete.
THEOREM PackagesFitTogether == GraphSpec => []GraphInv
<1>1. GraphIInv => GraphInv
  <2> SUFFICES ASSUME GraphIInv PROVE GraphInv
    OBVIOUS
  <2>1. LockInv
    BY DEF GraphIInv, LockInv
  <2>2. phase = "loaded" => Outer = {}
    <3>1. phase = "loaded" => stack = <<>>
      BY DEF GraphIInv, GraphTypes, AtRest
    <3>2. stack = <<>> => Outer = {}
      BY DEF Outer
    <3>3. QED
      BY <3>1, <3>2
  <2>3. AllAttached /\ ClosureIsLoaded
    BY <2>2 DEF GraphIInv, NothingUnlinked, Linked, AllAttached, ClosureIsLoaded
  <2>4. QED
    BY <2>1, <2>3 DEF GraphInv, LoadIsComplete
<1>2. QED
  BY <1>1, GraphInvariance, PTL

\* The lockfile has every dependency of what is being loaded.
THEOREM LockfileIsEnough == GraphSpec => DependenciesAreLocked
<1>1. ASSUME GraphIInv, phase = "loading", Top.id # NoPackage, Busy
      PROVE  \/ Found(Next1.id) # {}
             \/ \E lp \in lock : lp.id # Next1.id /\ Key[lp.id] = Key[Next1.id]
  <2> DEFINE n == Len(stack)
  <2>1. n \in Nat \ {0} /\ Top = stack[n] /\ stack \in Seq(Activations) /\ stack # <<>>
    BY <1>1, GoneOnElements
  <2>2. n \in Outer
    <3>1. stack[1].id = NoPackage
      BY <1>1 DEF GraphIInv, Rooted
    <3>2. n # 1
      BY <1>1, <2>1, <3>1
    <3>3. Outer = 2..n
      BY DEF Outer
    <3> HIDE DEF n
    <3>4. n \in 2..n
      BY <2>1, <3>2
    <3>5. QED
      BY <3>3, <3>4
  <2>3. Next1 \in ToSet(stack[n].deps)
    <3>1. stack[n].deps \in Seq([id : Ids, version : Nat]) /\ stack[n].deps # <<>>
      <4>1. stack[n] \in Activations
        BY <2>1, ElementOfSeq
      <4>2. QED
        BY <1>1, <2>1, <4>1 DEF Activations, Busy
    <3>2. Next1 = Head(stack[n].deps)
      BY <2>1 DEF Next1
    <3> HIDE DEF n
    <3>3. QED
      BY <3>1, <3>2, Remaining
  <2>4. PICK lp \in lock : lp.id = stack[n].id /\ \A d \in ToSet(stack[n].deps) : d.id \in ToSet(lp.deps)
    BY <1>1, <2>2 DEF GraphIInv, LoadsInPlace
  <2> DEFINE deps == feed[Key[lp.id]][lp.version].deps
  <2>5. ToSet(lp.deps) = {d.id : d \in ToSet(deps)}
    BY <1>1 DEF GraphIInv, LockIsPublished
  <2>6. \A i \in DOMAIN deps : \E other \in lock : Key[other.id] = Key[deps[i].id]
    BY <1>1 DEF GraphIInv, LockIsClosed
  <2> HIDE DEF deps, n
  <2>7. PICK i \in DOMAIN deps : deps[i].id = Next1.id
    BY <2>3, <2>4, <2>5 DEF ToSet
  <2>8. PICK other \in lock : Key[other.id] = Key[deps[i].id]
    BY <2>6
  <2>9. QED
    BY <2>7, <2>8 DEF Found
<1>2. GraphIInv /\ [GraphNext]_graph =>
         [phase = "loading" /\ Top.id # NoPackage /\ Busy /\ loaded[Next1.id] = "no"
          => \/ Found(Next1.id) # {}
             \/ \E lp \in lock : lp.id # Next1.id /\ Key[lp.id] = Key[Next1.id]]_graph
  BY <1>1
<1>3. QED
  BY <1>2, GraphInvariance, PTL DEF GraphSpec, DependenciesAreLocked
=============================================================================
