------------------------------ MODULE MCLibrary ------------------------------
(***************************************************************************)
(* Four parts of the class library that share nothing, each on its own:    *)
(* a collection of three keys and two values; two linked lists with four   *)
(* nodes that are added to either, and two values, so that a value may be  *)
(* in a list twice; a database with one transaction, two rows at most and  *)
(* Int32 values of a range of Words around zero; a stream of three bytes,  *)
(* changed twice, and a plugin's stream of five, read by two.              *)
(***************************************************************************)
EXTENDS AdoNet, TLC

CONSTANTS Keys, Data, MaxItems, Lists, Nodes, Nil, NoData, Contents, Pieces, Size, Chunk, MaxLength, MaxChanges

\* Keys are numbers, for some collections order them.
ASSUME LibraryAssumption ==
    /\ Keys \subseteq Int /\ MaxItems \in Nat
    /\ IsFiniteSet(Nodes) /\ Nil \notin Nodes /\ Nil \notin Lists /\ NoData \notin Data
    /\ Contents \subseteq Seq(Int) /\ Pieces \subseteq Seq(Int)
    /\ Size \in Nat /\ Chunk \in Nat \ {0} /\ MaxLength \in Nat /\ MaxChanges \in Nat

\* Line endings of each kind, next to each other and at the end, a byte order mark.
SomeContents == {<<239, 13, 10>>, <<13, 10, 97>>, <<97, 13, 98>>, <<10, 13, 13>>}
SomePieces == {<<>>, <<98>>, <<13, 10>>}

VARIABLES part, kind, ordered, items, vals, en, seen, intact, call, head, tail, count, value, list, prev, next,
          buf, pos, shut, disk, wrote, last, runes, at, heard, left, all, reading

coll == <<kind, ordered, items, vals, en, seen, intact, call>>
chains == <<head, tail, count, value, list, prev, next>>
bytes == <<buf, pos, shut, disk, wrote, last, runes, at, heard, left, all, reading>>

K == INSTANCE Collections
L == INSTANCE LinkedList WITH KeepsNodes <- FALSE
Str == INSTANCE Streams WITH closed <- shut, log <- wrote

NoCollection == kind = "List" /\ ordered

Inits ==
    /\ part \in {"collection", "linked", "sqlite", "stream"}
    /\ K!Init /\ (part # "collection" => NoCollection)
    /\ L!Init /\ AdoInit
    /\ Str!Init /\ (part # "stream" => buf = <<>> /\ reading = "no")

Collection == part = "collection" /\ K!Next /\ UNCHANGED <<part, chains, avars, bytes>>
Linked == part = "linked" /\ L!Next /\ UNCHANGED <<part, coll, avars, bytes>>
Sqlite == part = "sqlite" /\ AdoNext /\ UNCHANGED <<part, coll, chains, bytes>>
Stream == part = "stream" /\ Str!Next /\ UNCHANGED <<part, coll, chains, avars>>

Parts == Inits /\ [][Collection \/ Linked \/ Sqlite \/ Stream]_<<part, coll, chains, avars, bytes>>

\* The chains are the sequences of nodes that the class promises.
ImplementsLists ==
    /\ L!Promise!Init
    /\ [][part = "linked" => [L!Promise!Next]_chains]_chains

\* A collection does to its elements what the contract of its kind says, and
\* answers so.
ImplementsContract ==
    /\ K!Promise!CInit
    /\ [][part = "collection" => [K!Promise!CNext]_coll]_coll

\* A linked list is a well formed chain; a collection is stored as its kind
\* demands, and an enumeration of one misses nothing, and shows nothing twice or
\* removed; a transaction holds the rows inserted for it; a stream has the bytes
\* last written, and a reader of one loses none.
StructuresAreSound ==
    /\ part = "linked" => L!ListInv
    /\ part = "collection" => K!CollectionsInv /\ K!EnumerationsAreFaithful
    /\ part = "sqlite" => AdoInv
    /\ part = "stream" => Str!BytesAreTheLastWritten /\ Str!ReadersLoseNothing /\ Str!OnlyShortReadsEnd
=============================================================================
