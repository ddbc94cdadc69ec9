----------------------------- MODULE NuGetCache -----------------------------
(***************************************************************************)
(* The on-disk package cache (internal/nuget/cache.go): Fetch, Load and    *)
(* Store of several processes (`vmnet restore`, Go programs) that share a  *)
(* cache directory, any of which may be killed between two system calls.   *)
(*                                                                         *)
(* The file system is a set of inodes, each with the set of the package's  *)
(* blocks that have been written to it, and the two names of every cache   *)
(* entry: the .nupkg path and its ".tmp".  A descriptor goes on writing to *)
(* its inode wherever the names point meanwhile.  A published package      *)
(* never changes, so all writers write the same blocks.                    *)
(***************************************************************************)
EXTENDS Naturals

CONSTANTS Procs,      \* processes using the cache
          Packages,   \* id@version keys
          Uses,       \* Uses[p]: the packages that process p fetches
          Blocks,     \* length of a .nupkg, written front to back
          Inodes,     \* inode numbers
          None        \* no inode, no package

ASSUME NuGetCacheAssumption ==
    /\ Uses \in [Procs -> SUBSET Packages]
    /\ Blocks \in Nat \ {0}
    /\ None \notin Inodes

VARIABLES content, \* blocks in each inode
          entry,   \* inode of <id>.<version>.nupkg, per package
          tmp,     \* inode of <id>.<version>.nupkg.tmp, per package
          pc,      \* where each process is in Fetch
          want,    \* the package it fetches
          data,    \* blocks of the package in its memory
          fd,      \* inode it writes to
          pos,     \* blocks it has written
          clashed  \* packages two processes ever stored at the same time

disk == <<content, entry, tmp>>
vars == <<content, entry, tmp, pc, want, data, fd, pos, clashed>>

Whole == 1..Blocks
Resting == {"idle", "done", "failed"}

Init ==
    /\ content = [i \in Inodes |-> {}]
    /\ entry = [k \in Packages |-> None]
    /\ tmp = [k \in Packages |-> None]
    /\ pc = [p \in Procs |-> "idle"]
    /\ want = [p \in Procs |-> None]
    /\ data = [p \in Procs |-> {}]
    /\ fd = [p \in Procs |-> None]
    /\ pos = [p \in Procs |-> 0]
    /\ clashed = {}

Becomes(p, l) == pc' = [pc EXCEPT ![p] = l]

\* Neither named nor open: the file system may hand it out again.
Free(i) ==
    /\ \A k \in Packages : entry[k] # i /\ tmp[k] # i
    /\ \A p \in Procs : fd[p] # i

-----------------------------------------------------------------------------
(* Fetch up to the point where the bytes are there.                        *)

FetchBegins(p, k) ==
    /\ pc[p] \in Resting
    /\ k \in Uses[p]
    /\ Becomes(p, "load")
    /\ want' = [want EXCEPT ![p] = k]
    /\ data' = [data EXCEPT ![p] = {}]
    /\ UNCHANGED <<disk, fd, pos, clashed>>

\* Load: whatever the entry holds now is taken for the package.
LoadHit(p) ==
    /\ pc[p] = "load"
    /\ entry[want[p]] # None
    /\ data' = [data EXCEPT ![p] = content[entry[want[p]]]]
    /\ Becomes(p, "done")
    /\ UNCHANGED <<disk, want, fd, pos, clashed>>

LoadMiss(p) ==
    /\ pc[p] = "load"
    /\ entry[want[p]] = None
    /\ Becomes(p, "download")
    /\ UNCHANGED <<disk, want, data, fd, pos, clashed>>

DownloadFails(p) ==
    /\ pc[p] = "download"
    /\ Becomes(p, "failed")
    /\ UNCHANGED <<disk, want, data, fd, pos, clashed>>

\* Mutant: the body is cut off at a limit nobody reports.
DownloadsTruncated(p) ==
    /\ pc[p] = "download"
    /\ data' = [data EXCEPT ![p] = Whole \ {Blocks}]
    /\ Becomes(p, "store")
    /\ UNCHANGED <<disk, want, fd, pos, clashed>>

\* Client.Download returns the whole body or an error.
Downloads(p) ==
    /\ pc[p] = "download"
    /\ data' = [data EXCEPT ![p] = Whole]
    /\ Becomes(p, "store")
    /\ UNCHANGED <<disk, want, fd, pos, clashed>>

-----------------------------------------------------------------------------
(* Store: os.WriteFile to the .tmp, then os.Rename over the entry.         *)

Storing(p) == pc[p] \in {"write", "rename"}

\* Whether another process is at this moment storing the package p is to store.
Clash(p) == \E q \in Procs \ {p} : Storing(q) /\ want[q] = want[p]

\* Mutant: written in place, the way WriteLockFile and WriteManifest do.
OpenInPlace(p) ==
    /\ pc[p] = "store"
    /\ \E i \in Inodes :
          /\ i = entry[want[p]] \/ (entry[want[p]] = None /\ Free(i))
          /\ entry' = [entry EXCEPT ![want[p]] = i]
          /\ content' = [content EXCEPT ![i] = {}]
          /\ fd' = [fd EXCEPT ![p] = i]
    /\ pos' = [pos EXCEPT ![p] = 0]
    /\ clashed' = IF Clash(p) THEN clashed \cup {want[p]} ELSE clashed
    /\ Becomes(p, "write")
    /\ UNCHANGED <<tmp, want, data>>

\* open(O_CREATE|O_TRUNC): a .tmp left behind or in use is emptied and shared.
OpenTmp(p) ==
    /\ pc[p] = "store"
    /\ \E i \in Inodes :
          /\ i = tmp[want[p]] \/ (tmp[want[p]] = None /\ Free(i))
          /\ tmp' = [tmp EXCEPT ![want[p]] = i]
          /\ content' = [content EXCEPT ![i] = {}]
          /\ fd' = [fd EXCEPT ![p] = i]
    /\ pos' = [pos EXCEPT ![p] = 0]
    /\ clashed' = IF Clash(p) THEN clashed \cup {want[p]} ELSE clashed
    /\ Becomes(p, "write")
    /\ UNCHANGED <<entry, want, data>>

WriteBlock(p) ==
    /\ pc[p] = "write"
    /\ pos[p] < Blocks
    /\ content' = [content EXCEPT ![fd[p]] = @ \cup {pos[p] + 1}]
    /\ pos' = [pos EXCEPT ![p] = @ + 1]
    /\ UNCHANGED <<entry, tmp, pc, want, data, fd, clashed>>

Closes(p) ==
    /\ pc[p] = "write"
    /\ pos[p] = Blocks
    /\ fd' = [fd EXCEPT ![p] = None]
    /\ Becomes(p, "rename")
    /\ UNCHANGED <<disk, want, data, pos, clashed>>

\* A full disk or an unusable directory: Fetch has its bytes and drops the error.
WriteFails(p) ==
    /\ pc[p] \in {"store", "write"}
    /\ fd' = [fd EXCEPT ![p] = None]
    /\ Becomes(p, "done")
    /\ UNCHANGED <<disk, want, data, pos, clashed>>

\* The entry becomes what the .tmp names; if that is gone, or the rename fails
\* for another reason, nothing happens and the error is dropped too.
Rename(p) ==
    /\ pc[p] = "rename"
    /\ \/ /\ tmp[want[p]] # None
          /\ entry' = [entry EXCEPT ![want[p]] = tmp[want[p]]]
          /\ tmp' = [tmp EXCEPT ![want[p]] = None]
       \/ UNCHANGED <<entry, tmp>>
    /\ Becomes(p, "done")
    /\ UNCHANGED <<content, want, data, fd, pos, clashed>>

\* The process is killed; its files stay as they are.
Crash(p) ==
    /\ pc[p] \notin Resting
    /\ Becomes(p, "idle")
    /\ data' = [data EXCEPT ![p] = {}]
    /\ fd' = [fd EXCEPT ![p] = None]
    /\ UNCHANGED <<disk, want, pos, clashed>>

-----------------------------------------------------------------------------
Step(p) ==
    \/ \E k \in Packages : FetchBegins(p, k)
    \/ LoadHit(p)
    \/ LoadMiss(p)
    \/ DownloadFails(p)
    \/ Downloads(p)
    \/ OpenTmp(p)
    \/ WriteBlock(p)
    \/ Closes(p)
    \/ WriteFails(p)
    \/ Rename(p)
    \/ Crash(p)

Next == \E p \in Procs : Step(p)

Spec == Init /\ [][Next]_vars

-----------------------------------------------------------------------------
TypeOK ==
    /\ content \in [Inodes -> SUBSET Whole]
    /\ entry \in [Packages -> Inodes \cup {None}]
    /\ tmp \in [Packages -> Inodes \cup {None}]
    /\ pc \in [Procs -> Resting \cup {"load", "download", "store", "write", "rename"}]
    /\ want \in [Procs -> Packages \cup {None}]
    /\ \A p \in Procs : pc[p] \notin Resting => want[p] \in Uses[p]
    /\ data \in [Procs -> SUBSET Whole]
    /\ fd \in [Procs -> Inodes \cup {None}]
    /\ \A p \in Procs : pc[p] = "write" <=> fd[p] # None
    /\ pos \in [Procs -> 0..Blocks]
    /\ clashed \subseteq Packages

\* What a crash mid-write "can never leave" behind (cache.go:31-33): an entry
\* under its final name that is not the whole package.  The one exception is a
\* package that two processes once stored at the same time: they share its .tmp.
NoCorruptEntry ==
    \A k \in Packages : entry[k] # None /\ k \notin clashed => content[entry[k]] = Whole

\* Whoever gets a package out of Fetch gets all of it, with the same exception.
FetchIsWhole ==
    \A p \in Procs : pc[p] = "done" /\ want[p] \notin clashed => data[p] = Whole

\* Violated: "a crash mid-write can never leave a corrupt cache entry that looks
\* valid" (cache.go:31-33).  Once nobody is at work on a package any more, its entry is whole,
\* whoever was killed or failed while storing it.
StoredEntriesAreWhole ==
    \A k \in Packages :
        entry[k] # None /\ (\A p \in Procs : want[p] = k => pc[p] \in Resting)
            => content[entry[k]] = Whole

\* The promise of the cache: no entry, and nothing Fetch returns, is a part of a
\* package, unless two processes once stored it at the same time.
CacheInv == NoCorruptEntry /\ FetchIsWhole

-----------------------------------------------------------------------------
(* Why the entries are whole as long as nobody else stores the same one.   *)

\* Every inode is in use for one thing, with one name.
OneName ==
    /\ \A j, k \in Packages : entry[j] # None => entry[j] # tmp[k]
    /\ \A j, k \in Packages : j # k /\ entry[j] # None => entry[j] # entry[k]
    /\ \A j, k \in Packages : j # k /\ tmp[j] # None => tmp[j] # tmp[k]

\* What a process writes to is no file of another package.
OwnPackage ==
    \A p \in Procs, k \in Packages :
        fd[p] # None /\ k # want[p] => entry[k] # fd[p] /\ tmp[k] # fd[p]

\* Two processes that store the same package at once have clashed.
Alone ==
    \A p, q \in Procs :
        p # q /\ Storing(p) /\ Storing(q) /\ want[p] = want[q] => want[p] \in clashed

\* Without a clash a writer has its .tmp to itself, and it holds what the writer
\* has written.
OwnTmp ==
    \A p \in Procs :
        /\ pc[p] \in {"store", "write", "rename"} => data[p] = Whole
        /\ want[p] \notin clashed =>
              /\ pc[p] = "write" =>
                    tmp[want[p]] = fd[p] /\ content[fd[p]] = 1..pos[p]
              /\ pc[p] = "rename" =>
                    tmp[want[p]] # None /\ content[tmp[want[p]]] = Whole
              /\ pc[p] = "done" => data[p] = Whole

IInv ==
    /\ TypeOK
    /\ NoCorruptEntry
    /\ OneName
    /\ OwnPackage
    /\ Alone
    /\ OwnTmp
=============================================================================
