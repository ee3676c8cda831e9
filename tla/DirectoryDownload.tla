-------------------------- MODULE DirectoryDownload --------------------------
(***************************************************************************)
(* The download of one directory: ScanOperation with the walker of         *)
(* utility/directory_traversal.hpp lists the remote tree, then             *)
(* BulkDownloadOperation makes the directories and downloads the files of  *)
(* the list one by one (backend/sftp/scan_operation.cpp and                *)
(* bulk_download_operation.cpp).  OperationQueue lets the second begin     *)
(* when the first is over.                                                 *)
(*                                                                         *)
(* A path is a sequence of names; local paths are relative to the target   *)
(* directory, which is <<>>.  The content of a file is its remote path and *)
(* the number of its bytes.  A step is one call of work(), or one phase of *)
(* work() of the nested DownloadOperation, which has its default options:  *)
(* it does not overwrite, and it removes its part file.                    *)
(***************************************************************************)
EXTENDS Integers, Sequences, FiniteSets, SequencesExt, FiniteSetsExt

CONSTANTS
    Trees,      \* the remote trees considered: nodes by their path
    PartOf(_),  \* the name of the part file of a name
    BufferSize, \* bytes a read returns at most
    Faults      \* what may go wrong

Root == <<"root">>
NodeTypes == {"dir", "file", "link", "other"}
Parent(p) == Front(p)

\* Every node but the root is in a directory of the tree, none is called "."
\* or "..", and no link leads to a link or to a directory it is in.
IsTree(t) ==
    /\ IsFiniteSet(DOMAIN t)
    /\ Root \in DOMAIN t /\ t[Root].type = "dir"
    /\ \A p \in DOMAIN t :
           /\ p \in Seq(STRING) /\ p # <<>> /\ Head(p) = Head(Root)
           /\ Last(p) \notin {".", ".."}
           /\ t[p].type \in NodeTypes /\ t[p].size \in Nat
           /\ p # Root => Parent(p) \in DOMAIN t /\ t[Parent(p)].type = "dir"
           /\ t[p].type = "link" =>
                  /\ t[p].target \in DOMAIN t /\ t[t[p].target].type # "link"
                  /\ ~IsPrefix(t[p].target, p)

ASSUME DirectoryAssumption ==
    /\ \A t \in Trees : IsTree(t)
    /\ \A t \in Trees : \A p \in DOMAIN t, q \in DOMAIN t :
           t[p].type = "dir" => Last(p) # PartOf(Last(q))
    /\ BufferSize \in Nat \ {0}
    /\ Faults \subseteq {"stream", "remove", "create", "cancel"}

VARIABLES
    tree,         \* the remote tree at the beginning
    present,      \* paths of it that still exist
    local,        \* the target directory: what there is at each path
    scan,         \* state_ of the scan
    entries,      \* the walker's entries_, then the bulk download's
    scanIndex,    \* the walker's currentIndex_
    totalBytes,   \* totalBytes_
    bulk,         \* state_ of the bulk download
    listed,       \* the bulk download has the entries
    bulkIndex,    \* its currentIndex_
    currentBytes, \* its currentBytes_
    current,      \* currentDownload_
    happened      \* history: the faults that occurred

scanVars == <<scan, entries, scanIndex, totalBytes, listed>>
bulkVars == <<bulk, bulkIndex, currentBytes, current>>
world == <<tree, present>>
vars == <<world, local, scanVars, bulkVars, happened>>

OperationStates == {"NotStarted", "Running", "Completed", "Failed", "Canceled"}
Over(state) == state \in {"Completed", "Failed", "Canceled"}

NoParent == -1
RootEntry == [path |-> Root, type |-> "dir", size |-> 0, parent |-> NoParent]

NoDownload == [state |-> "None", of |-> <<>>, size |-> 0, received |-> 0]
Opened(p) == [state |-> "NotStarted", of |-> p, size |-> tree[p].size, received |-> 0]

Directory == [type |-> "dir", of |-> <<>>, bytes |-> 0]
ForeignFile == [type |-> "file", of |-> <<>>, bytes |-> 0]
Downloaded(of, bytes) == [type |-> "file", of |-> of, bytes |-> bytes]

Init ==
    /\ tree \in Trees /\ present = DOMAIN tree
    /\ local \in {[q \in {} |-> Directory], [q \in {<<>>} |-> Directory]}
    /\ scan = "NotStarted" /\ entries = <<RootEntry>> /\ scanIndex = 0 /\ totalBytes = 0
    /\ bulk = "NotStarted" /\ listed = FALSE /\ bulkIndex = 0 /\ currentBytes = 0
    /\ current = NoDownload
    /\ happened = {}

-----------------------------------------------------------------------------
(* The entries: indices count from 0, as in the code.                      *)

Entry(es, i) == es[i + 1]
Indices(es) == 0..(Len(es) - 1)

\* The path of an entry is that of its parent, followed by its own.
FullPath(es, i) ==
    LET path[j \in Indices(es)] ==
            IF Entry(es, j).parent = NoParent THEN Entry(es, j).path
            ELSE path[Entry(es, j).parent] \o Entry(es, j).path
    IN  path[i]

\* Faulty: the root's own path is kept.
FullPathRelativeToNothing(es, i) == FullPath(es, i)

\* The same, relative to entry 0.
FullPathRelative(es, i) ==
    LET path[j \in Indices(es)] ==
            IF Entry(es, j).parent \in {NoParent, 0} THEN Entry(es, j).path
            ELSE path[Entry(es, j).parent] \o Entry(es, j).path
    IN  path[i]

\* Index in the list of the first entry with one of these paths, or 0.
Find(list, paths) == SelectInSeq(list, LAMBDA e : e.path \in paths)
Dots == {<<".">>, <<"..">>}
Drop(list, i) == IF i = 0 THEN list ELSE RemoveAt(list, i)

\* Faulty: "." and ".." are taken to be in front.
MoveEntriesWithoutFirstTwo(es, list, parent) ==
    LET kept == IF Find(list, Dots) = 0 THEN list ELSE SubSeq(list, 3, Len(list))
    IN  es \o [i \in DOMAIN kept |-> [kept[i] EXCEPT !.parent = parent]]

\* The listing without the first of "." and "..", and then without the other.
MoveEntries(es, list, parent) ==
    LET one == Find(list, Dots)
        two == IF one = 0 THEN 0 ELSE Find(list, Dots \ {list[one].path})
        kept == Drop(Drop(list, two), one)
    IN  es \o [i \in DOMAIN kept |-> [kept[i] EXCEPT !.parent = parent]]

\* The walk passes over regular files.
NextToScan(es, from) ==
    Min({i \in from..Len(es) : i = Len(es) \/ Entry(es, i).type # "file"})

\* It counts the bytes of those it passes over.
BytesOf(es, from, to) == MapThenSumSet(LAMBDA i : Entry(es, i).size, from..(to - 1))

-----------------------------------------------------------------------------
(* The server: it follows links and lists a directory in any order, with   *)
(* or without "." and "..".                                                *)

Follow(p) == IF p \in present /\ tree[p].type = "link" THEN tree[p].target ELSE p
Resolve(p) ==
    LET real[n \in 0..Len(p)] == IF n = 0 THEN <<>> ELSE Follow(Append(real[n - 1], p[n]))
    IN  real[Len(p)]

Is(type, p) == Resolve(p) \in present /\ tree[Resolve(p)].type = type

Children(p) == {q \in present : q # Root /\ Parent(q) = p}
Listed(q) == [path |-> <<Last(q)>>, type |-> tree[q].type, size |-> tree[q].size, parent |-> NoParent]
DotEntry(d) == [path |-> d, type |-> "dir", size |-> 0, parent |-> NoParent]
Listings(p) ==
    UNION {SetToSeqs({Listed(q) : q \in Children(p)} \union {DotEntry(d) : d \in dots})
               : dots \in SUBSET Dots}

-----------------------------------------------------------------------------
(* ScanOperation.                                                          *)

ScanStarts ==
    /\ scan = "NotStarted"
    /\ scan' = "Running"
    /\ UNCHANGED <<world, local, entries, scanIndex, totalBytes, listed, bulkVars, happened>>

Scanning == scan = "Running" /\ scanIndex < Len(entries)

\* walk(): one directory is listed.
ScanWalks ==
    /\ Scanning
    /\ LET p == FullPath(entries, scanIndex)
       IN  /\ Is("dir", p)
           /\ \E list \in Listings(Resolve(p)) :
                  entries' = MoveEntries(entries, list, scanIndex)
    /\ scanIndex' = NextToScan(entries', scanIndex + 1)
    /\ totalBytes' = totalBytes + BytesOf(entries', scanIndex + 1, scanIndex')
    /\ UNCHANGED <<world, local, scan, listed, bulkVars, happened>>

\* What is not a directory cannot be listed.
ScanFails ==
    /\ Scanning
    /\ scan' = "Failed"
    /\ \/ ~Is("dir", FullPath(entries, scanIndex)) /\ UNCHANGED happened
       \/ "stream" \in Faults /\ happened' = happened \union {"stream"}
    /\ UNCHANGED <<world, local, entries, scanIndex, totalBytes, listed, bulkVars>>

\* The queue hands the entries over, if the bulk download is still there.
ScanCompletes ==
    /\ scan = "Running" /\ scanIndex >= Len(entries)
    /\ scan' = "Completed"
    /\ listed' = ~Over(bulk)
    /\ UNCHANGED <<world, local, entries, scanIndex, totalBytes, bulkVars, happened>>

CancelScan ==
    /\ "cancel" \in Faults
    /\ ~Over(scan)
    /\ scan' = "Canceled"
    /\ UNCHANGED <<world, local, entries, scanIndex, totalBytes, listed, bulkVars, happened>>

-----------------------------------------------------------------------------
(* The local file system.                                                  *)

Exists(q) == q \in DOMAIN local
With(q, f) == [r \in DOMAIN local \union {q} |-> IF r = q THEN f ELSE local[r]]
Without(q) == [r \in DOMAIN local \ {q} |-> local[r]]

Ancestry(q) == {SubSeq(q, 1, n) : n \in 0..Len(q)}

\* create_directories(): also the directories above, unless one is a file.
MayMake(q) == \A r \in Ancestry(q) : Exists(r) => local[r].type = "dir"
Made(q) == [r \in DOMAIN local \union Ancestry(q) |-> IF Exists(r) THEN local[r] ELSE Directory]

-----------------------------------------------------------------------------
(* BulkDownloadOperation.                                                  *)

BulkFails(left) ==
    /\ bulk' = "Failed"
    /\ local' = left
    /\ current' = NoDownload
    /\ UNCHANGED <<world, scanVars, bulkIndex, currentBytes>>

MayStart == bulk = "NotStarted" /\ Over(scan)

\* Without entries there is nothing to do.
BulkHasNothingToDo ==
    /\ MayStart /\ ~listed
    /\ bulk' = "Completed"
    /\ UNCHANGED <<world, local, scanVars, bulkIndex, currentBytes, current, happened>>

BulkStarts ==
    /\ MayStart /\ listed
    /\ MayMake(<<>>)
    /\ local' = Made(<<>>)
    /\ bulkIndex' = 1
    /\ bulk' = "Running"
    /\ UNCHANGED <<world, scanVars, currentBytes, current, happened>>

BulkCannotStart ==
    /\ MayStart /\ listed
    /\ ~MayMake(<<>>)
    /\ BulkFails(local)
    /\ UNCHANGED happened

BulkEnds ==
    /\ bulk = "Running" /\ bulkIndex = Len(entries)
    /\ bulk' = "Completed"
    /\ UNCHANGED <<world, local, scanVars, bulkIndex, currentBytes, current, happened>>

At(type) ==
    /\ bulk = "Running" /\ bulkIndex < Len(entries)
    /\ Entry(entries, bulkIndex).type = type
LocalPath == FullPathRelative(entries, bulkIndex)

\* Faulty: the directory is made again and again.
BulkMakesDirectoryOnly ==
    /\ At("dir")
    /\ MayMake(LocalPath)
    /\ local' = Made(LocalPath)
    /\ UNCHANGED <<world, scanVars, bulk, bulkIndex, currentBytes, current, happened>>

BulkMakesDirectory ==
    /\ At("dir")
    /\ MayMake(LocalPath)
    /\ local' = Made(LocalPath)
    /\ bulkIndex' = bulkIndex + 1
    /\ UNCHANGED <<world, scanVars, bulk, currentBytes, current, happened>>

BulkCannotMakeDirectory ==
    /\ At("dir")
    /\ ~MayMake(LocalPath)
    /\ BulkFails(local)
    /\ UNCHANGED happened

BulkOpensFile ==
    /\ At("file") /\ current = NoDownload
    /\ LET p == FullPath(entries, bulkIndex)
       IN  Is("file", p) /\ current' = Opened(Resolve(p))
    /\ UNCHANGED <<world, local, scanVars, bulk, bulkIndex, currentBytes, happened>>

BulkCannotOpenFile ==
    /\ At("file") /\ current = NoDownload
    /\ \/ ~Is("file", FullPath(entries, bulkIndex)) /\ UNCHANGED happened
       \/ "stream" \in Faults /\ happened' = happened \union {"stream"}
    /\ BulkFails(local)

\* Links and what is neither file nor directory are passed over.
BulkSkips ==
    /\ bulk = "Running" /\ bulkIndex < Len(entries)
    /\ Entry(entries, bulkIndex).type \notin {"dir", "file"}
    /\ bulkIndex' = bulkIndex + 1
    /\ UNCHANGED <<world, local, scanVars, bulk, currentBytes, current, happened>>

-----------------------------------------------------------------------------
(* The nested DownloadOperation.                                           *)

PartPath == Append(Front(LocalPath), PartOf(Last(LocalPath)))

\* A file that exists may not be overwritten.
Blocked == Exists(LocalPath)

MayOpenPart ==
    /\ Exists(Parent(PartPath)) /\ local[Parent(PartPath)].type = "dir"
    /\ Exists(PartPath) => local[PartPath].type = "file"

\* prepare(): the part file is created or emptied.
DownloadPrepares ==
    /\ At("file") /\ current.state = "NotStarted"
    /\ ~Blocked /\ MayOpenPart
    /\ local' = With(PartPath, Downloaded(current.of, 0))
    /\ current' = [current EXCEPT !.state = "Running"]
    /\ UNCHANGED <<world, scanVars, bulk, bulkIndex, currentBytes, happened>>

\* readOnce(), with the progress reported to the bulk download.
DownloadReads(n) ==
    /\ At("file") /\ current.state = "Running"
    /\ current.received + n <= current.size
    /\ current' = [current EXCEPT !.received = @ + n]
    /\ local' = With(PartPath, Downloaded(current.of, current'.received))
    /\ currentBytes' = currentBytes + current'.received
    /\ UNCHANGED <<world, scanVars, bulk, bulkIndex, happened>>

\* finalize(): the part file is renamed and the next entry is up.
DownloadFinalizes ==
    /\ At("file") /\ current.state = "Running"
    /\ current.received = current.size
    /\ ~Blocked
    /\ local' = [q \in (DOMAIN local \ {PartPath}) \union {LocalPath} |->
                    IF q = LocalPath THEN local[PartPath] ELSE local[q]]
    /\ current' = NoDownload
    /\ bulkIndex' = bulkIndex + 1
    /\ UNCHANGED <<world, scanVars, bulk, currentBytes, happened>>

\* Faulty: the part file stays.
CleanedUpNot == local

\* cleanup(): the part file is removed, whoever wrote it.
CleanedUp == IF Exists(PartPath) THEN Without(PartPath) ELSE local

DownloadFails ==
    /\ At("file") /\ current.state \in {"NotStarted", "Running"}
    /\ \/ /\ UNCHANGED happened
          /\ \/ Blocked /\ (current.state = "Running" => current.received = current.size)
             \/ current.state = "NotStarted" /\ ~MayOpenPart
       \/ "stream" \in Faults /\ happened' = happened \union {"stream"}
    /\ BulkFails(CleanedUp)

\* The queue drops the operation, and with it the nested one.
CancelBulk ==
    /\ "cancel" \in Faults
    /\ ~Over(bulk)
    /\ bulk' = "Canceled"
    /\ local' = IF current = NoDownload THEN local ELSE CleanedUp
    /\ current' = NoDownload
    /\ UNCHANGED <<world, scanVars, bulkIndex, currentBytes, happened>>

-----------------------------------------------------------------------------
(* The rest of the world.                                                  *)

\* Somebody removes a part of the remote tree.
OthersRemove ==
    /\ "remove" \in Faults \ happened
    /\ \E p \in present : present' = {q \in present : ~IsPrefix(p, q)}
    /\ happened' = happened \union {"remove"}
    /\ UNCHANGED <<tree, local, scanVars, bulkVars>>

\* Another program creates a file where the download wants to put something.
OthersCreate ==
    /\ "create" \in Faults \ happened
    /\ \E p \in DOMAIN tree :
           LET q == Tail(p)
           IN  /\ ~Exists(q)
               /\ q # <<>> => Exists(Parent(q)) /\ local[Parent(q)].type = "dir"
               /\ local' = With(q, ForeignFile)
    /\ happened' = happened \union {"create"}
    /\ UNCHANGED <<world, scanVars, bulkVars>>

-----------------------------------------------------------------------------
ScanWork == ScanStarts \/ ScanWalks \/ ScanFails \/ ScanCompletes

DownloadWork ==
    \/ DownloadPrepares
    \/ \E n \in 1..BufferSize : DownloadReads(n)
    \/ DownloadFinalizes
    \/ DownloadFails

BulkWork ==
    \/ BulkHasNothingToDo \/ BulkStarts \/ BulkCannotStart \/ BulkEnds
    \/ BulkMakesDirectory \/ BulkCannotMakeDirectory
    \/ BulkOpensFile \/ BulkCannotOpenFile \/ BulkSkips
    \/ DownloadWork

Next ==
    \/ ScanWork \/ BulkWork
    \/ CancelScan \/ CancelBulk
    \/ OthersRemove \/ OthersCreate

Spec == Init /\ [][Next]_vars

\* The queue goes on calling work().
FairSpec == Spec /\ WF_vars(ScanWork) /\ WF_vars(BulkWork)

-----------------------------------------------------------------------------
FilePaths == {p \in DOMAIN tree : tree[p].type = "file"}
IsPlain == \A p \in DOMAIN tree : tree[p].type \in {"dir", "file"}

(* Every variable has its type; parents come before their entries, and a   *)
(* nested download is open only while the bulk download is at a file.      *)
DirectoryTypeOK ==
    /\ tree \in Trees /\ present \subseteq DOMAIN tree
    /\ \A q \in DOMAIN local :
           /\ local[q].type \in {"dir", "file"}
           /\ local[q].of \in FilePaths \union {<<>>} /\ local[q].bytes \in Nat
    /\ {scan, bulk} \subseteq OperationStates
    /\ \A i \in Indices(entries) :
           /\ Entry(entries, i).type \in NodeTypes /\ Entry(entries, i).size \in Nat
           /\ Entry(entries, i).parent \in -1..(i - 1)
    /\ scanIndex \in 0..Len(entries) /\ bulkIndex \in 0..Len(entries)
    /\ totalBytes \in Nat /\ currentBytes \in Nat
    /\ listed \in BOOLEAN /\ listed => scan = "Completed"
    /\ current.state \in {"None", "NotStarted", "Running"}
    /\ current # NoDownload => At("file") /\ current.of \in FilePaths
    /\ current.received \in 0..current.size
    /\ happened \subseteq Faults

(* At any time of the scan every entry leads, over its parents, to a node  *)
(* of the remote tree with its name, type and size, whatever the order of  *)
(* the listings; and the parents are never files.                          *)
EntriesNameTheTree ==
    "remove" \notin happened =>
        \A i \in Indices(entries) \ {0} :
            LET e == Entry(entries, i)
                p == Resolve(FullPath(entries, e.parent)) \o e.path
            IN  /\ Is("dir", FullPath(entries, e.parent))
                /\ p \in DOMAIN tree /\ tree[p].type = e.type /\ tree[p].size = e.size

(* A completed scan of a tree that nobody changed has every node exactly   *)
(* once, and the total is the sum of the sizes of all files.               *)
ListingIsComplete ==
    scan = "Completed" /\ "remove" \notin happened /\ IsPlain =>
        /\ {FullPath(entries, i) : i \in Indices(entries)} = DOMAIN tree
        /\ Len(entries) = Cardinality(DOMAIN tree)
        /\ totalBytes = MapThenSumSet(LAMBDA p : tree[p].size, FilePaths)

(* When scan and bulk download are completed, the target has every         *)
(* directory and every whole file of the remote tree at its place, and     *)
(* whatever was downloaded is at the place of its original.                *)
MirrorsRemote ==
    scan = "Completed" /\ bulk = "Completed" /\ listed /\ "remove" \notin happened =>
        /\ \A p \in DOMAIN tree : tree[p].type \in {"dir", "file"} =>
               /\ Exists(Tail(p))
               /\ local[Tail(p)] = IF tree[p].type = "dir" THEN Directory
                                   ELSE Downloaded(p, tree[p].size)
        /\ \A q \in DOMAIN local : local[q].of # <<>> => Resolve(Root \o q) = local[q].of

(* However the download ends, no file is left that has only a part of its  *)
(* bytes.                                                                  *)
NothingTornIsLeft ==
    Over(bulk) => \A q \in DOMAIN local :
        local[q].of # <<>> => local[q].bytes = tree[local[q].of].size

(* A tree of files and directories that nobody touches is downloaded       *)
(* without a failure, also into a directory that exists.                   *)
NothingFailsWithoutAReason ==
    scan = "Failed" \/ bulk = "Failed" => happened # {} \/ ~IsPlain

(* A file that another program puts into the target is neither replaced    *)
(* nor removed.                                                            *)
ForeignFilesSurvive ==
    [][\A q \in DOMAIN local : local[q] = ForeignFile =>
           q \in DOMAIN local' /\ local'[q] = ForeignFile]_vars

(* A directory download comes to its end.                                  *)
EveryDirectoryEnds == <>(Over(scan) /\ Over(bulk))

(* Links and special files are passed over: an untouched download does not *)
(* fail because of them.                                                   *)
UnsupportedIsSkipped ==
    scan = "Failed" \/ bulk = "Failed" => happened # {}

(* The bytes reported as downloaded are never more than the total.         *)
ProgressStaysWithinTotal == bulk = "Running" => currentBytes <= totalBytes
=============================================================================
