------------------------ MODULE DirectoryDownloadProofs ------------------------
(***************************************************************************)
(* The safety properties of the download of a directory, for every remote   *)
(* tree, every order of its listings and any interruption.                  *)
(***************************************************************************)
EXTENDS DirectoryDownload, SequenceTheorems, FiniteSetTheorems, WellFoundedInduction, TLAPS

-----------------------------------------------------------------------------
(* Only the part file of the nested download is incomplete. *)

Whole(q) == local[q].of # <<>> => local[q].bytes = tree[local[q].of].size

TurnInv ==
    /\ listed => scan = "Completed"
    /\ bulk = "Running" => listed

NestedInv ==
    /\ DOMAIN current = {"state", "of", "size", "received"}
    /\ current = NoDownload
       \/ /\ At("file") /\ current.state \in {"NotStarted", "Running"}
          /\ current.size = tree[current.of].size
    /\ current.state = "NotStarted" => current.received = 0
    /\ current.state = "Running" =>
           PartPath \in DOMAIN local /\ local[PartPath] = Downloaded(current.of, current.received)
    /\ \A q \in DOMAIN local : Whole(q) \/ (current.state = "Running" /\ q = PartPath)

TornInv == TurnInv /\ NestedInv

\* The scan does nothing to the bulk download, which has not begun.
LEMMA ScanLeavesNested ==
  ASSUME TornInv, ScanWork \/ CancelScan
  PROVE  TornInv'
  <1>1. UNCHANGED <<tree, local, bulk, bulkIndex, current>>
    BY DEF ScanWork, ScanStarts, ScanWalks, ScanFails, ScanCompletes, CancelScan, world, bulkVars
  <1>2. scan # "Completed"
    BY DEF ScanWork, ScanStarts, ScanWalks, ScanFails, ScanCompletes, CancelScan, Scanning, Over
  <1>3. bulk # "Running" /\ ~listed /\ current = NoDownload
    BY <1>2 DEF TornInv, TurnInv, NestedInv, At
  <1>4. TurnInv'
    BY <1>1, <1>3
       DEF ScanWork, ScanStarts, ScanWalks, ScanFails, ScanCompletes, CancelScan, TurnInv
  <1>5. NestedInv'
    BY <1>1, <1>3 DEF TornInv, NestedInv, NoDownload, Whole
  <1> QED
    BY <1>4, <1>5 DEF TornInv

\* Directories are whole, and so is what was before.
LEMMA MadeWhole ==
  ASSUME NestedInv, current = NoDownload, UNCHANGED <<tree, current>>,
         local' = local \/ (\E q : local' = Made(q))
  PROVE  NestedInv'
  <1>1. ASSUME NEW r \in DOMAIN local' PROVE Whole(r)'
    <2>1. \A s \in DOMAIN local : Whole(s)
      BY DEF NestedInv, NoDownload
    <2>2. local'[r] = Directory \/ (r \in DOMAIN local /\ local'[r] = local[r])
      BY <1>1 DEF Made, Exists
    <2> QED
      BY <2>1, <2>2 DEF Whole, Directory
  <1> QED
    BY <1>1 DEF NestedInv, NoDownload

LEMMA CleanedUpWhole ==
  ASSUME NestedInv, UNCHANGED tree, current' = NoDownload,
         local' = CleanedUp \/ (current = NoDownload /\ local' = local)
  PROVE  NestedInv'
  <1>1. ASSUME NEW r \in DOMAIN local' PROVE Whole(r)'
    <2>1. r \in DOMAIN local /\ local'[r] = local[r] /\ Whole(r)
      BY <1>1 DEF NestedInv, NoDownload, CleanedUp, Without, Exists
    <2> QED
      BY <2>1 DEF Whole
  <1> QED
    BY <1>1 DEF NestedInv, NoDownload

LEMMA BulkLeavesNested ==
  ASSUME TornInv, BulkWork \/ CancelBulk
  PROVE  TornInv'
  <1>1. UNCHANGED <<tree, entries, scan, listed>> /\ (bulk' = "Running" => listed)
    BY DEF BulkWork, BulkHasNothingToDo, BulkStarts, BulkCannotStart, BulkEnds, BulkMakesDirectory,
           BulkCannotMakeDirectory, BulkOpensFile, BulkCannotOpenFile, BulkSkips, DownloadWork,
           DownloadPrepares, DownloadReads, DownloadFinalizes, DownloadFails, CancelBulk, BulkFails,
           MayStart, TornInv, TurnInv, world, scanVars
  <1>2. TurnInv'
    BY <1>1 DEF TornInv, TurnInv
  <1>3. CASE BulkHasNothingToDo \/ BulkStarts \/ BulkEnds \/ BulkMakesDirectory \/ BulkSkips
    <2>1. current = NoDownload
      BY <1>3 DEF BulkHasNothingToDo, BulkStarts, BulkEnds, BulkMakesDirectory, BulkSkips, MayStart, At,
                  TornInv, NestedInv
    <2>2. current' = current /\ (local' = local \/ \E q : local' = Made(q))
      BY <1>3 DEF BulkHasNothingToDo, BulkStarts, BulkEnds, BulkMakesDirectory, BulkSkips
    <2> QED
      BY <1>1, <1>2, <2>1, <2>2, MadeWhole DEF TornInv
  <1>4. CASE BulkCannotStart \/ BulkCannotMakeDirectory \/ BulkCannotOpenFile
    <2>1. current = NoDownload /\ current' = NoDownload /\ local' = local
      BY <1>4 DEF BulkCannotStart, BulkCannotMakeDirectory, BulkCannotOpenFile, BulkFails, MayStart, At,
                  TornInv, NestedInv
    <2> QED
      BY <1>1, <1>2, <2>1, MadeWhole DEF TornInv
  <1>5. CASE DownloadFails \/ CancelBulk
    <2>1. current' = NoDownload /\ (local' = CleanedUp \/ (current = NoDownload /\ local' = local))
      BY <1>5 DEF DownloadFails, CancelBulk, BulkFails
    <2> QED
      BY <1>1, <1>2, <2>1, CleanedUpWhole DEF TornInv
  <1>6. CASE BulkOpensFile
    <2>1. /\ current' = Opened(Resolve(FullPath(entries, bulkIndex)))
          /\ At("file")' /\ local' = local /\ current = NoDownload
      BY <1>1, <1>6 DEF BulkOpensFile, At
    <2>2. /\ DOMAIN current' = DOMAIN NoDownload /\ current'.received = 0
          /\ current'.state = "NotStarted" /\ current'.size = tree'[current'.of].size
      BY <1>1, <2>1 DEF Opened, NoDownload
    <2>3. ASSUME NEW q \in DOMAIN local' PROVE Whole(q)'
      BY <1>1, <2>1, <2>3 DEF Whole, TornInv, NestedInv, NoDownload
    <2> QED
      BY <1>2, <2>1, <2>2, <2>3 DEF TornInv, NestedInv, NoDownload
  <1>7. CASE DownloadPrepares \/ \E n \in 1..BufferSize : DownloadReads(n)
    <2> DEFINE Goal == /\ current.state \in {"NotStarted", "Running"} /\ current # NoDownload
                       /\ current'.state = "Running" /\ current'.of = current.of
                       /\ current'.size = current.size /\ DOMAIN current' = DOMAIN current
                       /\ local' = With(PartPath, Downloaded(current'.of, current'.received))
    <2>0. current.state # "None" => current # NoDownload
      BY DEF NoDownload
    <2>a. DOMAIN current = DOMAIN NoDownload
      BY DEF TornInv, NestedInv, NoDownload
    <2>b. ASSUME DownloadPrepares PROVE Goal
      BY <2>0, <2>a, <2>b DEF DownloadPrepares, NoDownload, TornInv, NestedInv
    <2>c. ASSUME NEW n \in 1..BufferSize, DownloadReads(n) PROVE Goal
      BY <2>0, <2>a, <2>c DEF DownloadReads, NoDownload
    <2>1. Goal
      BY <1>7, <2>b, <2>c
    <2>2. At("file")' /\ PartPath' = PartPath
      BY <1>1, <1>7 DEF DownloadPrepares, DownloadReads, At, PartPath, LocalPath
    <2>3. ASSUME NEW q \in DOMAIN local', q # PartPath PROVE Whole(q)'
      <3>1. q \in DOMAIN local /\ local'[q] = local[q]
        BY <2>1, <2>3 DEF With
      <3> QED
        BY <1>1, <2>3, <3>1 DEF Whole, TornInv, NestedInv
    <2>4. PartPath \in DOMAIN local' /\ local'[PartPath] = Downloaded(current'.of, current'.received)
      BY <2>1 DEF With
    <2> QED
      BY <1>1, <1>2, <2>1, <2>2, <2>3, <2>4 DEF TornInv, NestedInv
  <1>8. CASE DownloadFinalizes
    <2>1. current.state = "Running" /\ current.received = current.size /\ current' = NoDownload
      BY <1>8 DEF DownloadFinalizes
    <2>2. current # NoDownload
      BY <2>1 DEF NoDownload
    <2>3. ASSUME NEW q \in DOMAIN local' PROVE Whole(q)'
      <3>1. CASE q = LocalPath
        <4>1. local'[q] = Downloaded(current.of, current.received)
          BY <1>8, <2>1, <2>3, <3>1 DEF DownloadFinalizes, TornInv, NestedInv
        <4> QED
          BY <1>1, <2>1, <2>2, <4>1 DEF Whole, Downloaded, TornInv, NestedInv
      <3>2. CASE q # LocalPath
        <4>1. q \in DOMAIN local /\ q # PartPath /\ local'[q] = local[q]
          BY <1>8, <2>3, <3>2 DEF DownloadFinalizes
        <4> QED
          BY <1>1, <4>1 DEF Whole, TornInv, NestedInv
      <3> QED
        BY <3>1, <3>2
    <2> QED
      BY <1>2, <2>1, <2>3 DEF TornInv, NestedInv, NoDownload
  <1> QED
    BY <1>2, <1>3, <1>4, <1>5, <1>6, <1>7, <1>8 DEF BulkWork, DownloadWork, TornInv

LEMMA TornStep == TornInv /\ [Next]_vars => TornInv'
  <1> SUFFICES ASSUME TornInv, [Next]_vars PROVE TornInv'
    OBVIOUS
  <1>1. CASE UNCHANGED vars
    BY <1>1 DEF vars, world, scanVars, bulkVars, TornInv, TurnInv, NestedInv, Whole, At, PartPath, LocalPath
  <1>2. CASE OthersRemove
    BY <1>2 DEF OthersRemove, scanVars, bulkVars, TornInv, TurnInv, NestedInv, Whole, At, PartPath, LocalPath
  <1>3. CASE OthersCreate
    <2>1. PICK p : ~Exists(p) /\ local' = With(p, ForeignFile)
      BY <1>3 DEF OthersCreate
    <2>2. UNCHANGED <<tree, scan, listed, bulk, current, PartPath, entries, bulkIndex>>
      BY <1>3 DEF OthersCreate, world, scanVars, bulkVars, PartPath, LocalPath
    <2>3. ASSUME NEW q \in DOMAIN local PROVE q \in DOMAIN local' /\ local'[q] = local[q]
      BY <2>1, <2>3 DEF With, Exists
    <2>4. ASSUME NEW q \in DOMAIN local' \ DOMAIN local PROVE Whole(q)'
      BY <2>1, <2>4 DEF With, Whole, ForeignFile
    <2>5. ASSUME NEW q \in DOMAIN local, Whole(q) PROVE Whole(q)'
      BY <2>2, <2>3, <2>5 DEF Whole
    <2>6. At("file")' = At("file")
      BY <2>2 DEF At
    <2> QED
      BY <2>2, <2>3, <2>4, <2>5, <2>6 DEF TornInv, TurnInv, NestedInv
  <1> QED
    BY <1>1, <1>2, <1>3, ScanLeavesNested, BulkLeavesNested DEF Next

(* However the download ends, nothing torn is left: whatever is cancelled,  *)
(* removed remotely or put in its way, no file in the target has only a     *)
(* part of its bytes when the bulk download is over.                        *)
THEOREM NothingTorn == Spec => []NothingTornIsLeft
  <1>1. Init => TornInv
    BY DEF Init, TornInv, TurnInv, NestedInv, NoDownload, Directory, Whole
  <1>2. TornInv => NothingTornIsLeft
    BY DEF TornInv, NestedInv, NothingTornIsLeft, At, Over, Whole, NoDownload
  <1> QED
    BY <1>1, <1>2, TornStep, PTL DEF Spec


\* Every set of naturals that is not empty has a least element.
LEMMA LeastNat ==
  ASSUME NEW S \in SUBSET Nat, S # {}
  PROVE  \E n \in S : \A k \in S : n <= k
  <1>1. IsWellFoundedOn(OpToRel(<, Nat), Nat)
    BY NatLessThanWellFounded
  <1>2. PICK n \in S : \A k \in S : ~(<<k, n>> \in OpToRel(<, Nat))
    BY <1>1, WFMin
  <1>3. ASSUME NEW k \in S PROVE n <= k
    <2>1. k \in Nat /\ n \in Nat /\ ~(k < n)
      BY <1>2, <1>3 DEF OpToRel
    <2> QED
      BY <2>1
  <1> QED
    BY <1>3

-----------------------------------------------------------------------------
(* What the recursive functions of the paths compute. *)

\* A name by itself is a path.
LEMMA Single ==
  ASSUME NEW S, NEW e \in S
  PROVE  <<e>> \in Seq(S)
  OBVIOUS

\* A path is its directory and its name.
LEMMA FrontAndLast ==
  ASSUME NEW p \in Seq(STRING), p # <<>>
  PROVE  /\ Last(p) \in STRING /\ Front(p) \in Seq(STRING)
         /\ Len(p) \in Nat \ {0} /\ Len(Front(p)) = Len(p) - 1
         /\ p = Append(Front(p), Last(p))
  <1> DEFINE m == Len(p) - 1
             up == SubSeq(p, 1, m)
             q == Append(up, Last(p))
  <1>1. Len(p) \in Nat \ {0} /\ m \in Nat /\ m \in Int /\ 1 \in Int
    BY EmptySeq
  <1>2. Last(p) \in STRING
    BY <1>1, ElementOfSeq DEF Last
  <1>3. \A k \in 1..m : p[k] \in STRING
    BY <1>1, ElementOfSeq
  <1>4. up \in Seq(STRING) /\ Len(up) = m /\ \A k \in 1..m : up[k] = p[k]
    <2> HIDE DEF m
    <2>1. /\ SubSeq(p, 1, m) \in Seq(STRING) /\ Len(SubSeq(p, 1, m)) = IF 1 <= m THEN m - 1 + 1 ELSE 0
          /\ \A k \in 1..(m - 1 + 1) : SubSeq(p, 1, m)[k] = p[1 + k - 1]
      BY <1>1, <1>3, SubSeqProperties
    <2> QED
      BY <1>1, <2>1
  <1>5. q \in Seq(STRING) /\ Len(q) = Len(p) /\ \A k \in 1..Len(p) : q[k] = p[k]
    <2>1. up \in Seq(STRING) /\ Len(up) \in Nat
      BY <1>1, <1>4
    <2> HIDE DEF up, q
    <2>2. /\ q \in Seq(STRING) /\ Len(q) = Len(up) + 1 /\ q[Len(up) + 1] = Last(p)
          /\ \A k \in 1..Len(up) : q[k] = up[k]
      BY <1>2, <2>1, AppendProperties DEF q
    <2> QED
      BY <1>1, <1>4, <2>2 DEF Last
  <1>6. p = q
    <2> HIDE DEF q
    <2> QED
      BY <1>5, SeqEqual
  <1> QED
    BY <1>1, <1>2, <1>4, <1>6 DEF Front

EntryRecords == [path : Seq(STRING), type : NodeTypes, size : Nat, parent : Int]

EntryListed(es, i) ==
    /\ Entry(es, i).parent \in 0..(i - 1)
    /\ \E name \in STRING : Entry(es, i).path = <<name>>

\* The list of entries: parents come before their entries.
IsListing(es) ==
    /\ es \in Seq(EntryRecords)
    /\ Len(es) > 0 /\ es[1] = RootEntry
    /\ \A i \in Indices(es) \ {0} : EntryListed(es, i)

LEMMA RootIsPath ==
  ASSUME NEW es, IsListing(es)
  PROVE  Root \in Seq(STRING)
  <1>1. RootEntry \in EntryRecords
    BY DEF IsListing
  <1> QED
    BY <1>1 DEF RootEntry, EntryRecords

\* The paths of the first n entries; under "top" they end.
PathsOf(es, tops, n, f) ==
    f = [j \in 0..(n - 1) |->
            IF Entry(es, j).parent \in tops THEN Entry(es, j).path
            ELSE f[Entry(es, j).parent] \o Entry(es, j).path]

LEMMA PathsExist ==
  ASSUME NEW es, IsListing(es), NEW tops, NoParent \in tops
  PROVE  \E f : PathsOf(es, tops, Len(es), f)
  <1> DEFINE Missing == {n \in 0..Len(es) : ~ \E f : PathsOf(es, tops, n, f)}
  <1>0. Len(es) \in Nat
    BY LenProperties DEF IsListing
  <1> SUFFICES ASSUME Missing # {} PROVE FALSE
    BY <1>0
  <1>s. Missing \in SUBSET Nat
    OBVIOUS
  <1>1. PICK n \in Missing : \A k \in Missing : n <= k
    <2> HIDE DEF Missing
    <2> QED
      BY <1>s, LeastNat
  <1>2. n # 0
    <2>1. PathsOf(es, tops, 0, [j \in {} |-> 0])
      BY DEF PathsOf
    <2> QED
      BY <1>1, <2>1
  <1>3. PICK f : PathsOf(es, tops, n - 1, f)
    BY <1>0, <1>1, <1>2
  <1> DEFINE g == [j \in 0..(n - 1) |->
                       IF j < n - 1 THEN f[j]
                       ELSE IF Entry(es, j).parent \in tops THEN Entry(es, j).path
                       ELSE f[Entry(es, j).parent] \o Entry(es, j).path]
  <1>4. ASSUME NEW j \in 0..(n - 1)
        PROVE  g[j] = IF Entry(es, j).parent \in tops THEN Entry(es, j).path
                      ELSE g[Entry(es, j).parent] \o Entry(es, j).path
    <2>1. Entry(es, j).parent \in tops \/ (j # 0 /\ Entry(es, j).parent \in 0..(j - 1))
      BY <1>0, <1>1, <1>4 DEF IsListing, EntryListed, Indices, Entry, RootEntry
    <2>2. Entry(es, j).parent \notin tops => g[Entry(es, j).parent] = f[Entry(es, j).parent]
      BY <1>0, <1>1, <1>4, <2>1
    <2>3. CASE j < n - 1
      <3>1. j \in 0..((n - 1) - 1)
        BY <1>0, <1>1, <1>4, <2>3
      <3>2. f[j] = IF Entry(es, j).parent \in tops THEN Entry(es, j).path
                   ELSE f[Entry(es, j).parent] \o Entry(es, j).path
        BY <1>3, <3>1 DEF PathsOf
      <3>3. g[j] = f[j]
        BY <1>4, <2>3
      <3> HIDE DEF g
      <3> QED
        BY <2>2, <3>2, <3>3
    <2>4. CASE ~(j < n - 1)
      BY <1>4, <2>2, <2>4
    <2> QED
      BY <2>3, <2>4
  <1>5. PathsOf(es, tops, n, g)
    BY <1>4 DEF PathsOf
  <1> QED
    BY <1>1, <1>5

LEMMA FullPathIs ==
  ASSUME NEW es, IsListing(es)
  PROVE  /\ FullPath(es, 0) = Root
         /\ \A i \in Indices(es) \ {0} :
                FullPath(es, i) = FullPath(es, Entry(es, i).parent) \o Entry(es, i).path
  <1> DEFINE F == CHOOSE f : f = [j \in Indices(es) |->
                      IF Entry(es, j).parent = NoParent THEN Entry(es, j).path
                      ELSE f[Entry(es, j).parent] \o Entry(es, j).path]
  <1>1. PICK f : PathsOf(es, {NoParent}, Len(es), f)
    BY PathsExist
  <1>2. f = [j \in Indices(es) |-> IF Entry(es, j).parent = NoParent THEN Entry(es, j).path
                      ELSE f[Entry(es, j).parent] \o Entry(es, j).path]
    BY <1>1 DEF PathsOf, Indices
  <1>3. F = [j \in Indices(es) |-> IF Entry(es, j).parent = NoParent THEN Entry(es, j).path
                      ELSE F[Entry(es, j).parent] \o Entry(es, j).path]
    BY <1>2
  <1>4. \A i : FullPath(es, i) = F[i]
    BY DEF FullPath
  <1> HIDE DEF F
  <1>5. 0 \in Indices(es) /\ Entry(es, 0) = RootEntry
    BY LenProperties DEF IsListing, Indices, Entry
  <1>6. FullPath(es, 0) = Root
    BY <1>3, <1>4, <1>5 DEF RootEntry
  <1>7. ASSUME NEW i \in Indices(es) \ {0}
        PROVE  FullPath(es, i) = FullPath(es, Entry(es, i).parent) \o Entry(es, i).path
    <2>1. Entry(es, i).parent # NoParent
      BY <1>7, LenProperties DEF IsListing, EntryListed, NoParent, Indices
    <2> QED
      BY <1>3, <1>4, <2>1
  <1> QED
    BY <1>6, <1>7

LEMMA FullPathRelativeIs ==
  ASSUME NEW es, IsListing(es), NEW i \in Indices(es) \ {0}
  PROVE  FullPathRelative(es, i) =
             IF Entry(es, i).parent = 0 THEN Entry(es, i).path
             ELSE FullPathRelative(es, Entry(es, i).parent) \o Entry(es, i).path
  <1> DEFINE F == CHOOSE f : f = [j \in Indices(es) |->
                      IF Entry(es, j).parent \in {NoParent, 0} THEN Entry(es, j).path
                      ELSE f[Entry(es, j).parent] \o Entry(es, j).path]
  <1>1. PICK f : PathsOf(es, {NoParent, 0}, Len(es), f)
    BY PathsExist
  <1>2. f = [j \in Indices(es) |-> IF Entry(es, j).parent \in {NoParent, 0} THEN Entry(es, j).path
                      ELSE f[Entry(es, j).parent] \o Entry(es, j).path]
    BY <1>1 DEF PathsOf, Indices
  <1>3. F = [j \in Indices(es) |-> IF Entry(es, j).parent \in {NoParent, 0} THEN Entry(es, j).path
                      ELSE F[Entry(es, j).parent] \o Entry(es, j).path]
    BY <1>2
  <1>4. \A j : FullPathRelative(es, j) = F[j]
    BY DEF FullPathRelative
  <1> HIDE DEF F
  <1>5. Entry(es, i).parent # NoParent
    BY LenProperties DEF IsListing, EntryListed, NoParent, Indices
  <1> QED
    BY <1>3, <1>4, <1>5

\* Every path is that of the parent with the name of the entry.
LEMMA FullPathAppends ==
  ASSUME NEW es, IsListing(es)
  PROVE  /\ FullPath(es, 0) = Root
         /\ \A i \in Indices(es) : FullPath(es, i) \in Seq(STRING)
         /\ \A i \in Indices(es) \ {0} : \E name \in STRING :
                /\ Entry(es, i).path = <<name>>
                /\ FullPath(es, i) = Append(FullPath(es, Entry(es, i).parent), name)
  <1> DEFINE Bad == {i \in Indices(es) : FullPath(es, i) \notin Seq(STRING)}
  <1>0. Len(es) \in Nat /\ Indices(es) \subseteq Nat
    BY LenProperties DEF IsListing, Indices
  <1>1. ASSUME NEW i \in Indices(es) \ {0}, FullPath(es, Entry(es, i).parent) \in Seq(STRING)
        PROVE  /\ FullPath(es, i) \in Seq(STRING)
               /\ \E name \in STRING :
                    /\ Entry(es, i).path = <<name>>
                    /\ FullPath(es, i) = Append(FullPath(es, Entry(es, i).parent), name)
    <2>1. PICK name \in STRING : Entry(es, i).path = <<name>>
      BY DEF IsListing, EntryListed
    <2>2. FullPath(es, i) = FullPath(es, Entry(es, i).parent) \o <<name>>
      BY <2>1, FullPathIs
    <2> DEFINE up == FullPath(es, Entry(es, i).parent)
    <2>3. up \in Seq(STRING)
      BY <1>1
    <2> HIDE DEF up
    <2>4. Append(up, name) \in Seq(STRING) /\ Append(up, name) = up \o <<name>>
      BY <2>3, AppendProperties, AppendIsConcat
    <2> QED
      BY <2>1, <2>2, <2>4 DEF up
  <1>2. Bad = {}
    <2> SUFFICES ASSUME Bad # {} PROVE FALSE
      OBVIOUS
    <2>s. Bad \in SUBSET Nat
      BY <1>0
    <2>1. PICK i \in Bad : \A k \in Bad : i <= k
      <3> HIDE DEF Bad
      <3> QED
        BY <2>s, LeastNat
    <2>2. i # 0
      <3>1. FullPath(es, 0) = Root /\ Root \in Seq(STRING)
        BY FullPathIs, RootIsPath
      <3> QED
        BY <2>1, <3>1
    <2>3. Entry(es, i).parent \in Indices(es) /\ Entry(es, i).parent < i
      BY <1>0, <2>1, <2>2 DEF IsListing, EntryListed, Indices
    <2>4. FullPath(es, Entry(es, i).parent) \in Seq(STRING)
      BY <1>0, <2>1, <2>3
    <2> QED
      BY <1>1, <2>1, <2>2, <2>4
  <1>3. ASSUME NEW i \in Indices(es) \ {0} PROVE Entry(es, i).parent \in Indices(es)
    BY <1>0, <1>3 DEF IsListing, EntryListed, Indices
  <1> QED
    BY <1>1, <1>2, <1>3, FullPathIs

\* A list that grows at its end changes no path.
LEMMA FullPathStays ==
  ASSUME NEW es, IsListing(es), NEW more, IsListing(more),
         Indices(es) \subseteq Indices(more),
         \A i \in Indices(es) : Entry(more, i) = Entry(es, i)
  PROVE  \A i \in Indices(es) : FullPath(more, i) = FullPath(es, i)
  <1> DEFINE Bad == {i \in Indices(es) : FullPath(more, i) # FullPath(es, i)}
  <1> SUFFICES ASSUME Bad # {} PROVE FALSE
    OBVIOUS
  <1>0. Len(es) \in Nat /\ Bad \in SUBSET Nat
    BY LenProperties DEF IsListing, Indices
  <1>1. PICK i \in Bad : \A k \in Bad : i <= k
    <2> HIDE DEF Bad
    <2> QED
      BY <1>0, LeastNat
  <1>2. i # 0
    BY <1>1, FullPathIs
  <1>3. Entry(es, i).parent \in Indices(es) /\ Entry(es, i).parent < i
    BY <1>0, <1>1, <1>2 DEF IsListing, EntryListed, Indices
  <1>4. FullPath(more, Entry(es, i).parent) = FullPath(es, Entry(es, i).parent)
    BY <1>0, <1>1, <1>3 DEF Indices
  <1> QED
    BY <1>1, <1>2, <1>4, FullPathIs

\* A relative path misses the root only.
LEMMA RelativeIs ==
  ASSUME NEW es, IsListing(es)
  PROVE  \A i \in Indices(es) \ {0} :
             /\ FullPathRelative(es, i) \in Seq(STRING) /\ FullPathRelative(es, i) # <<>>
             /\ FullPath(es, i) = Root \o FullPathRelative(es, i)
  <1> DEFINE Good(i) == /\ FullPathRelative(es, i) \in Seq(STRING) /\ FullPathRelative(es, i) # <<>>
                        /\ FullPath(es, i) = Root \o FullPathRelative(es, i)
             Bad == {i \in Indices(es) \ {0} : ~Good(i)}
  <1> SUFFICES ASSUME Bad # {} PROVE FALSE
    OBVIOUS
  <1>0. Len(es) \in Nat /\ Bad \in SUBSET Nat
    BY LenProperties DEF IsListing, Indices
  <1>1. PICK i \in Bad : \A k \in Bad : i <= k
    <2> HIDE DEF Bad
    <2> QED
      BY <1>0, LeastNat
  <1>2. i \in Indices(es) \ {0} /\ ~Good(i)
    BY <1>1
  <1>3. PICK name \in STRING : /\ Entry(es, i).path = <<name>>
                               /\ FullPath(es, i) = Append(FullPath(es, Entry(es, i).parent), name)
    BY <1>2, FullPathAppends
  <1> DEFINE p == Entry(es, i).parent
  <1>4. p \in Indices(es) /\ p < i
    <2>1. p \in 0..(i - 1) /\ i \in 0..(Len(es) - 1)
      BY <1>2 DEF IsListing, EntryListed, Indices
    <2> HIDE DEF p
    <2> QED
      BY <1>0, <2>1 DEF Indices
  <1>5. <<name>> \in Seq(STRING) /\ Root \in Seq(STRING)
    BY <1>3, Single, RootIsPath
  <1>6. FullPathRelative(es, i) = IF p = 0 THEN <<name>> ELSE FullPathRelative(es, p) \o <<name>>
    BY <1>2, <1>3, FullPathRelativeIs
  <1>7. CASE p = 0
    <2>1. FullPath(es, i) = Root \o <<name>>
      BY <1>3, <1>5, <1>7, FullPathIs, AppendIsConcat
    <2> QED
      BY <1>2, <1>5, <1>6, <1>7, <2>1
  <1>8. CASE p # 0
    <2>1. Good(p)
      <3>1. ~(i <= p) /\ p \in Indices(es) \ {0}
        BY <1>0, <1>4, <1>8, <1>2 DEF Indices
      <3>2. p \notin Bad
        <4> HIDE DEF Bad, p
        <4> QED
          BY <1>1, <3>1
      <3> HIDE DEF Good, p
      <3> QED
        BY <3>1, <3>2
    <2> DEFINE r == FullPathRelative(es, p)
    <2>2. r \in Seq(STRING) /\ FullPath(es, p) = Root \o r
      BY <2>1
    <2>3. FullPathRelative(es, i) = r \o <<name>>
      BY <1>6, <1>8
    <2> HIDE DEF r
    <2>4. r \o <<name>> \in Seq(STRING) /\ r \o <<name>> # <<>>
      BY <1>5, <2>2, ConcatProperties, ConcatSimplifications
    <2>5. Append(Root \o r, name) = Root \o (r \o <<name>>)
      <3>1. Root \o r \in Seq(STRING)
        BY <1>5, <2>2, ConcatProperties
      <3>2. Append(Root \o r, name) = (Root \o r) \o <<name>>
        BY <1>3, <3>1, AppendIsConcat
      <3>3. (Root \o r) \o <<name>> = Root \o (r \o <<name>>)
        BY <1>5, <2>2, ConcatAssociative
      <3> QED
        BY <3>2, <3>3
    <2> QED
      BY <1>2, <1>3, <2>2, <2>3, <2>4, <2>5
  <1> QED
    BY <1>7, <1>8

-----------------------------------------------------------------------------
(* How the server resolves a path. *)

\* What the first n names of a path lead to.
RealOf(p, n, f) ==
    f = [k \in 0..n |-> IF k = 0 THEN <<>> ELSE Follow(Append(f[k - 1], p[k]))]

LEMMA RealExists ==
  ASSUME NEW p, NEW m \in Nat
  PROVE  \E f : RealOf(p, m, f)
  <1> DEFINE Missing == {n \in 0..m : ~ \E f : RealOf(p, n, f)}
  <1> SUFFICES ASSUME Missing # {} PROVE FALSE
    OBVIOUS
  <1>s. Missing \in SUBSET Nat
    OBVIOUS
  <1>1. PICK n \in Missing : \A k \in Missing : n <= k
    <2> HIDE DEF Missing
    <2> QED
      BY <1>s, LeastNat
  <1>2. n # 0
    <2>1. RealOf(p, 0, [k \in 0..0 |-> <<>>])
      BY DEF RealOf
    <2> QED
      BY <1>1, <2>1
  <1>3. PICK f : RealOf(p, n - 1, f)
    BY <1>1, <1>2
  <1> DEFINE g == [k \in 0..n |-> IF k < n THEN f[k] ELSE Follow(Append(f[n - 1], p[n]))]
  <1>4. ASSUME NEW k \in 0..n
        PROVE  g[k] = IF k = 0 THEN <<>> ELSE Follow(Append(g[k - 1], p[k]))
    <2>1. n \in Nat \ {0}
      BY <1>1, <1>2
    <2>2. CASE k < n
      <3>1. k \in 0..(n - 1)
        BY <1>4, <2>1, <2>2
      <3>2. f[k] = IF k = 0 THEN <<>> ELSE Follow(Append(f[k - 1], p[k]))
        BY <1>3, <3>1 DEF RealOf
      <3>3. g[k] = f[k] /\ (k # 0 => g[k - 1] = f[k - 1])
        BY <1>4, <2>1, <2>2
      <3> HIDE DEF g
      <3> QED
        BY <3>2, <3>3
    <2>3. CASE ~(k < n)
      <3>1. k = n
        BY <1>4, <2>1, <2>3
      <3>2. g[n] = Follow(Append(f[n - 1], p[n])) /\ g[n - 1] = f[n - 1]
        BY <2>1
      <3> HIDE DEF g
      <3> QED
        BY <1>2, <3>1, <3>2
    <2> QED
      BY <2>2, <2>3
  <1>5. RealOf(p, n, g)
    BY <1>4 DEF RealOf
  <1> QED
    BY <1>1, <1>5

\* The function that Resolve chooses.
LEMMA RealIs ==
  ASSUME NEW p \in Seq(STRING)
  PROVE  \E f : RealOf(p, Len(p), f) /\ Resolve(p) = f[Len(p)]
  <1> DEFINE F == CHOOSE f : f = [k \in 0..Len(p) |->
                      IF k = 0 THEN <<>> ELSE Follow(Append(f[k - 1], p[k]))]
  <1>1. PICK f : RealOf(p, Len(p), f)
    BY RealExists, LenProperties
  <1>2. f = [k \in 0..Len(p) |-> IF k = 0 THEN <<>> ELSE Follow(Append(f[k - 1], p[k]))]
    BY <1>1 DEF RealOf
  <1>3. F = [k \in 0..Len(p) |-> IF k = 0 THEN <<>> ELSE Follow(Append(F[k - 1], p[k]))]
    BY <1>2
  <1>4. Resolve(p) = F[Len(p)]
    BY DEF Resolve
  <1> HIDE DEF F
  <1> QED
    BY <1>3, <1>4 DEF RealOf

\* It goes along the path name by name.
LEMMA ResolveAppends ==
  /\ Resolve(<<>>) = <<>>
  /\ \A p \in Seq(STRING), name \in STRING :
         Resolve(Append(p, name)) = Follow(Append(Resolve(p), name))
  <1>1. Resolve(<<>>) = <<>>
    <2>1. <<>> \in Seq(STRING) /\ Len(<<>>) = 0
      BY EmptySeq
    <2>2. PICK f : RealOf(<<>>, 0, f) /\ Resolve(<<>>) = f[0]
      BY <2>1, RealIs
    <2> QED
      BY <2>2 DEF RealOf
  <1>2. ASSUME NEW p \in Seq(STRING), NEW name \in STRING
        PROVE  Resolve(Append(p, name)) = Follow(Append(Resolve(p), name))
    <2> DEFINE q == Append(p, name)
               m == Len(p)
    <2>1. /\ m \in Nat /\ q \in Seq(STRING) /\ Len(q) = m + 1 /\ q[m + 1] = name
          /\ \A k \in 1..m : q[k] = p[k]
      BY <1>2, AppendProperties, LenProperties
    <2>2. PICK f : RealOf(p, m, f) /\ Resolve(p) = f[m]
      BY RealIs
    <2>3. PICK g : RealOf(q, m + 1, g) /\ Resolve(q) = g[m + 1]
      BY <2>1, RealIs
    <2> HIDE DEF q, m
    <2>4. \A k \in 0..m : g[k] = f[k]
      <3> DEFINE Bad == {k \in 0..m : g[k] # f[k]}
      <3> SUFFICES ASSUME Bad # {} PROVE FALSE
        OBVIOUS
      <3>s. Bad \in SUBSET Nat
        BY <2>1
      <3>1. PICK k \in Bad : \A j \in Bad : k <= j
        <4> HIDE DEF Bad
        <4> QED
          BY <3>s, LeastNat
      <3>2. f[k] = IF k = 0 THEN <<>> ELSE Follow(Append(f[k - 1], p[k]))
        BY <2>1, <2>2, <3>1 DEF RealOf
      <3>3. g[k] = IF k = 0 THEN <<>> ELSE Follow(Append(g[k - 1], q[k]))
        BY <2>1, <2>3, <3>1 DEF RealOf
      <3>4. k # 0 => k - 1 \in 0..m /\ k - 1 \notin Bad /\ q[k] = p[k]
        BY <2>1, <3>1
      <3> QED
        BY <3>1, <3>2, <3>3, <3>4
    <2>5. g[m + 1] = Follow(Append(g[m], name))
      BY <2>1, <2>3 DEF RealOf
    <2> QED
      BY <2>1, <2>2, <2>3, <2>4, <2>5 DEF q
  <1> QED
    BY <1>1, <1>2

-----------------------------------------------------------------------------
(* Nodes of the remote tree. *)

\* What DirectoryAssumption says of a node.
LEMMA NodeOK ==
  ASSUME tree \in Trees
  PROVE  /\ IsFiniteSet(DOMAIN tree) /\ Root \in DOMAIN tree /\ tree[Root].type = "dir"
         /\ \A p \in DOMAIN tree :
                /\ p \in Seq(STRING) /\ p # <<>> /\ Head(p) = "root" /\ <<Last(p)>> \notin Dots
                /\ tree[p].type \in NodeTypes /\ tree[p].size \in Nat
                /\ tree[p].type = "link" => tree[p].target \in DOMAIN tree
                /\ p # Root => /\ Parent(p) \in DOMAIN tree /\ tree[Parent(p)].type = "dir"
                               /\ Last(p) \in STRING /\ Parent(p) \in Seq(STRING)
                               /\ p = Append(Parent(p), Last(p)) /\ Len(Parent(p)) = Len(p) - 1
                               /\ Len(p) \in Nat
  <1>0. IsTree(tree)
    BY DirectoryAssumption
  <1>1. ASSUME NEW p \in DOMAIN tree
        PROVE  /\ Last(p) \in STRING /\ Parent(p) \in Seq(STRING) /\ Len(p) \in Nat
               /\ p = Append(Parent(p), Last(p)) /\ Len(Parent(p)) = Len(p) - 1
    BY <1>0, <1>1, FrontAndLast DEF IsTree, Parent
  <1>2. ASSUME NEW p \in DOMAIN tree PROVE <<Last(p)>> \notin Dots
    BY <1>0, <1>2 DEF IsTree, Dots
  <1>3. \A p \in DOMAIN tree : Head(p) = "root"
    <2>1. Head(Root) = "root"
      BY DEF Root
    <2> QED
      BY <1>0, <2>1 DEF IsTree
  <1> QED
    BY <1>0, <1>1, <1>2, <1>3 DEF IsTree

\* A directory or file of an untouched tree is where its path says.
LEMMA ResolveDirect ==
  ASSUME tree \in Trees
  PROVE  \A p \in DOMAIN tree : tree[p].type # "link" => Resolve(p) = p
  <1> DEFINE Bad == {p \in DOMAIN tree : tree[p].type # "link" /\ Resolve(p) # p}
             Lengths == {Len(p) : p \in Bad}
  <1> SUFFICES ASSUME Bad # {} PROVE FALSE
    OBVIOUS
  <1>0. \A p \in Bad : Len(p) \in Nat
    BY NodeOK, LenProperties
  <1>s. Lengths \in SUBSET Nat /\ Lengths # {}
    BY <1>0
  <1>1. PICK n \in Lengths : \A k \in Lengths : n <= k
    <2> HIDE DEF Lengths
    <2> QED
      BY <1>s, LeastNat
  <1>2. PICK p \in Bad : Len(p) = n
    BY <1>1
  <1>3. p = Root
    <2> SUFFICES ASSUME p # Root PROVE FALSE
      OBVIOUS
    <2>1. /\ Parent(p) \in DOMAIN tree /\ tree[Parent(p)].type = "dir" /\ Last(p) \in STRING
          /\ Parent(p) \in Seq(STRING) /\ p = Append(Parent(p), Last(p))
          /\ Len(Parent(p)) = Len(p) - 1
      BY <1>2, NodeOK
    <2>2. Parent(p) \notin Bad
      BY <1>0, <1>1, <1>2, <2>1
    <2>3. Resolve(Parent(p)) = Parent(p)
      BY <2>1, <2>2
    <2>4. Resolve(p) = Follow(p)
      BY <2>1, <2>3, ResolveAppends
    <2> QED
      BY <1>2, <2>4 DEF Follow
  <1>4. Root = Append(<<>>, "root") /\ "root" \in STRING
    <2>1. Root \in Seq(STRING) /\ Root # <<>>
      BY NodeOK
    <2>2. Head(Root) \in STRING
      BY <2>1, HeadTailProperties
    <2> QED
      BY <2>2 DEF Root
  <1>5. Resolve(Root) = Follow(Root)
    BY <1>4, ResolveAppends, EmptySeq
  <1> QED
    BY <1>2, <1>3, <1>5 DEF Follow

-----------------------------------------------------------------------------
(* What the walk appends: the children of the directory, without the dots. *)

LEMMA ImageIsFinite ==
  ASSUME NEW S, IsFiniteSet(S), NEW f, f = [x \in S |-> f[x]]
  PROVE  IsFiniteSet({f[x] : x \in S})
  <1>1. f \in Surjection(S, {f[x] : x \in S})
    BY DEF Surjection
  <1> QED
    BY <1>1, FS_Surjection

\* A sequence of all elements of a set has each of them once.
LEMMA Enumerates ==
  ASSUME NEW S, IsFiniteSet(S), NEW list \in SetToSeqs(S)
  PROVE  /\ list \in Seq(S)
         /\ \A i, j \in 1..Len(list) : list[i] = list[j] => i = j
         /\ \A e \in S : \E i \in 1..Len(list) : list[i] = e
  <1> DEFINE n == Cardinality(S)
  <1>1. n \in Nat
    BY FS_CardinalityType
  <1>2. list \in [1..n -> S] /\ \A i, j \in 1..n : i # j => list[i] # list[j]
    BY DEF SetToSeqs
  <1>3. IsFiniteSet(1..n) /\ Cardinality(1..n) = n
    <2> HIDE DEF n
    <2> QED
      BY <1>1, FS_Interval
  <1>4. list \in Injection(1..n, S)
    BY <1>2 DEF Injection, IsInjective
  <1>5. list \in Surjection(1..n, S)
    BY <1>3, <1>4, FS_Injection
  <1>6. \A e \in S : \E i \in 1..n : list[i] = e
    BY <1>5 DEF Surjection
  <1> HIDE DEF n
  <1>7. list \in Seq(S) /\ Len(list) = n
    BY <1>1, <1>2
  <1> QED
    BY <1>2, <1>6, <1>7

LEMMA Removed ==
  ASSUME NEW S, NEW s \in Seq(S), NEW i \in 1..Len(s)
  PROVE  /\ RemoveAt(s, i) \in Seq(S) /\ Len(RemoveAt(s, i)) = Len(s) - 1
         /\ \A k \in 1..(Len(s) - 1) : RemoveAt(s, i)[k] = IF k < i THEN s[k] ELSE s[k + 1]
  <1> DEFINE a == SubSeq(s, 1, i - 1)
             b == SubSeq(s, i + 1, Len(s))
  <1>1. Len(s) \in Nat /\ i \in Nat \ {0} /\ i <= Len(s) /\ \A k \in 1..Len(s) : s[k] \in S
    BY LenProperties, ElementOfSeq
  <1>2. a \in Seq(S) /\ Len(a) = i - 1 /\ \A k \in 1..(i - 1) : a[k] = s[k]
    <2>1. \A k \in 1..(i - 1) : s[k] \in S
      BY <1>1
    <2> DEFINE m == i - 1
    <2>2. m \in Nat
      BY <1>1
    <2> HIDE DEF m
    <2>3. /\ SubSeq(s, 1, m) \in Seq(S) /\ Len(SubSeq(s, 1, m)) = IF 1 <= m THEN m - 1 + 1 ELSE 0
          /\ \A k \in 1..(m - 1 + 1) : SubSeq(s, 1, m)[k] = s[1 + k - 1]
      BY <2>1, <2>2, SubSeqProperties DEF m
    <2> QED
      BY <1>1, <2>2, <2>3 DEF m
  <1>3. b \in Seq(S) /\ Len(b) = Len(s) - i /\ \A k \in 1..(Len(s) - i) : b[k] = s[i + k]
    <2>1. \A k \in (i + 1)..Len(s) : s[k] \in S
      BY <1>1
    <2> DEFINE m == i + 1
               n == Len(s)
    <2>2. m \in Nat /\ n \in Nat /\ m \in Int /\ n \in Int
      BY <1>1
    <2>3. \A k \in m..n : s[k] \in S
      BY <2>1
    <2> HIDE DEF m, n
    <2>4. /\ SubSeq(s, m, n) \in Seq(S) /\ Len(SubSeq(s, m, n)) = IF m <= n THEN n - m + 1 ELSE 0
          /\ \A k \in 1..(n - m + 1) : SubSeq(s, m, n)[k] = s[m + k - 1]
      BY <2>2, <2>3, SubSeqProperties
    <2> QED
      BY <1>1, <2>2, <2>4 DEF m, n
  <1> HIDE DEF a, b
  <1>4. /\ a \o b \in Seq(S) /\ Len(a \o b) = Len(a) + Len(b)
        /\ \A k \in 1..(Len(a) + Len(b)) : (a \o b)[k] = IF k <= Len(a) THEN a[k] ELSE b[k - Len(a)]
    BY <1>2, <1>3, ConcatProperties
  <1>5. RemoveAt(s, i) = a \o b
    BY DEF RemoveAt, a, b
  <1>6. ASSUME NEW k \in 1..(Len(s) - 1)
        PROVE  (a \o b)[k] = IF k < i THEN s[k] ELSE s[k + 1]
    <2>1. k \in 1..(Len(a) + Len(b))
      BY <1>1, <1>2, <1>3
    <2>2. CASE k < i
      BY <1>1, <1>2, <1>4, <2>1, <2>2
    <2>3. CASE ~(k < i)
      <3>1. k - (i - 1) \in 1..(Len(s) - i) /\ i + (k - (i - 1)) = k + 1
        BY <1>1, <2>3
      <3>2. (a \o b)[k] = b[k - (i - 1)]
        BY <1>1, <1>2, <1>4, <2>1, <2>3
      <3> QED
        BY <1>3, <2>3, <3>1, <3>2
    <2> QED
      BY <2>2, <2>3
  <1> QED
    BY <1>1, <1>2, <1>3, <1>4, <1>5, <1>6

LEMMA FindIs ==
  ASSUME NEW S, NEW list \in Seq(S), NEW paths
  PROVE  \/ /\ Find(list, paths) = 0
            /\ \A k \in 1..Len(list) : list[k].path \notin paths
         \/ /\ Find(list, paths) \in 1..Len(list) /\ list[Find(list, paths)].path \in paths
            /\ \A k \in 1..Len(list) : list[k].path \in paths => Find(list, paths) <= k
  <1> DEFINE I == {k \in 1..Len(list) : list[k].path \in paths}
  <1>1. Find(list, paths) = IF I # {} THEN Min(I) ELSE 0
    BY DEF Find, SelectInSeq
  <1>2. CASE I = {}
    BY <1>1, <1>2
  <1>3. CASE I # {}
    <2>1. I \in SUBSET Nat
      BY LenProperties
    <2>2. \E n \in I : \A k \in I : n <= k
      <3> HIDE DEF I
      <3> QED
        BY <1>3, <2>1, LeastNat
    <2>3. Min(I) \in I /\ \A k \in I : Min(I) <= k
      <3> HIDE DEF I
      <3> QED
        BY <2>2 DEF Min
    <2> QED
      BY <1>1, <1>3, <2>3
  <1> QED
    BY <1>2, <1>3

\* A listing without its dot entries.
KeptOf(list) ==
    LET one == Find(list, Dots)
        two == IF one = 0 THEN 0 ELSE Find(list, Dots \ {list[one].path})
    IN  Drop(Drop(list, two), one)

HasDotsOnce(list) ==
    \A i, j \in 1..Len(list) : list[i].path = list[j].path /\ list[i].path \in Dots => i = j

\* The entries are those of the list but for the dots.
Keeps(kept, list) ==
    /\ \A k \in 1..Len(kept) : \E i \in 1..Len(list) : kept[k] = list[i] /\ list[i].path \notin Dots
    /\ \A i \in 1..Len(list) : list[i].path \notin Dots => \E k \in 1..Len(kept) : kept[k] = list[i]
    /\ (\A i, j \in 1..Len(list) : list[i] = list[j] => i = j) =>
           \A k, l \in 1..Len(kept) : kept[k] = kept[l] => k = l

LEMMA KeptIs ==
  ASSUME NEW S, NEW list \in Seq(S), HasDotsOnce(list)
  PROVE  KeptOf(list) \in Seq(S) /\ Keeps(KeptOf(list), list)
  <1> DEFINE one == Find(list, Dots)
             rest == Dots \ {list[one].path}
             two == IF one = 0 THEN 0 ELSE Find(list, rest)
             n == Len(list)
             kept == Drop(Drop(list, two), one)
             Goal == /\ kept \in Seq(S)
                     /\ \A k \in 1..Len(kept) : \E i \in 1..n : kept[k] = list[i] /\ list[i].path \notin Dots
                     /\ \A i \in 1..n : list[i].path \notin Dots =>
                            \E k \in 1..Len(kept) : kept[k] = list[i]
                     /\ (\A i, j \in 1..n : list[i] = list[j] => i = j) =>
                            \A k, l \in 1..Len(kept) : kept[k] = kept[l] => k = l
  <1>0. n \in Nat
    BY LenProperties
  <1>1. \/ one = 0 /\ \A k \in 1..n : list[k].path \notin Dots
        \/ /\ one \in 1..n /\ list[one].path \in Dots
           /\ \A k \in 1..n : list[k].path \in Dots => one <= k
    BY FindIs
  <1>2. \/ Find(list, rest) = 0 /\ \A k \in 1..n : list[k].path \notin rest
        \/ /\ Find(list, rest) \in 1..n /\ list[Find(list, rest)].path \in rest
    <2> HIDE DEF rest
    <2> QED
      BY FindIs
  <1>u. \A i, j \in 1..n : list[i].path = list[j].path /\ list[i].path \in Dots => i = j
    BY DEF HasDotsOnce
  <1>3. KeptOf(list) = kept
    BY DEF KeptOf
  <1> SUFFICES Goal
    <2> HIDE DEF kept
    <2> QED
      BY <1>3 DEF Keeps
  <1>4. CASE one = 0
    <2>1. kept = list
      BY <1>4 DEF Drop
    <2>2. \A k \in 1..n : list[k].path \notin Dots
      BY <1>1, <1>4
    <2> HIDE DEF kept, one
    <2> QED
      BY <2>1, <2>2
  <1>5. CASE one # 0 /\ two = 0
    <2>1. one \in 1..n /\ list[one].path \in Dots
      BY <1>1, <1>5
    <2>2. \A k \in 1..n : k # one => list[k].path \notin Dots
      BY <1>2, <1>5, <1>u, <2>1
    <2>3. kept = RemoveAt(list, one)
      BY <1>5 DEF Drop
    <2> HIDE DEF kept, one, two
    <2>4. /\ kept \in Seq(S) /\ Len(kept) = n - 1
          /\ \A k \in 1..(n - 1) : kept[k] = IF k < one THEN list[k] ELSE list[k + 1]
      BY <2>1, <2>3, Removed
    <2>5. ASSUME NEW k \in 1..Len(kept)
          PROVE  \E i \in 1..n : kept[k] = list[i] /\ list[i].path \notin Dots
      <3> DEFINE i == IF k < one THEN k ELSE k + 1
      <3>1. i \in 1..n /\ i # one /\ kept[k] = list[i]
        BY <1>0, <2>1, <2>4, <2>5
      <3> HIDE DEF i
      <3> QED
        BY <2>2, <3>1
    <2>6. ASSUME NEW i \in 1..n, list[i].path \notin Dots
          PROVE  \E k \in 1..Len(kept) : kept[k] = list[i]
      <3> DEFINE k == IF i < one THEN i ELSE i - 1
      <3>1. k \in 1..(n - 1) /\ kept[k] = list[i]
        BY <1>0, <2>1, <2>4, <2>6
      <3> HIDE DEF k
      <3> QED
        BY <2>4, <3>1
    <2>7. ASSUME \A i, j \in 1..n : list[i] = list[j] => i = j,
                 NEW k \in 1..Len(kept), NEW l \in 1..Len(kept), kept[k] = kept[l]
          PROVE  k = l
      BY <1>0, <2>1, <2>4, <2>7
    <2> QED
      BY <2>4, <2>5, <2>6, <2>7
  <1>6. CASE one # 0 /\ two # 0
    <2>1. /\ one \in 1..n /\ list[one].path \in Dots
          /\ \A k \in 1..n : list[k].path \in Dots => one <= k
      BY <1>1, <1>6
    <2>2. two \in 1..n /\ list[two].path \in Dots /\ list[two].path # list[one].path
      BY <1>2, <1>6
    <2>3. one < two
      BY <2>1, <2>2
    <2>4. ASSUME NEW k \in 1..n, k # one, k # two PROVE list[k].path \notin Dots
      <3>1. ~(list[k].path = list[one].path) /\ ~(list[k].path = list[two].path)
        BY <1>u, <2>1, <2>2, <2>4
      <3> QED
        BY <2>1, <2>2, <3>1 DEF Dots
    <2> DEFINE mid == RemoveAt(list, two)
    <2>5. kept = RemoveAt(mid, one)
      BY <1>6 DEF Drop
    <2> HIDE DEF kept, one, two, mid
    <2>6. /\ mid \in Seq(S) /\ Len(mid) = n - 1
          /\ \A k \in 1..(n - 1) : mid[k] = IF k < two THEN list[k] ELSE list[k + 1]
      BY <2>2, Removed DEF mid
    <2>7. one \in 1..Len(mid) /\ n - 1 - 1 = n - 2
      BY <1>0, <2>1, <2>2, <2>3, <2>6
    <2>8. /\ kept \in Seq(S) /\ Len(kept) = n - 2
          /\ \A k \in 1..(n - 2) : kept[k] = IF k < one THEN mid[k] ELSE mid[k + 1]
      <3>1. /\ kept \in Seq(S) /\ Len(kept) = Len(mid) - 1
            /\ \A k \in 1..(Len(mid) - 1) : kept[k] = IF k < one THEN mid[k] ELSE mid[k + 1]
        BY <2>5, <2>6, <2>7, Removed
      <3> QED
        BY <2>6, <2>7, <3>1
    <2>9. ASSUME NEW k \in 1..(n - 2)
          PROVE  kept[k] = list[IF k < one THEN k ELSE IF k + 1 < two THEN k + 1 ELSE k + 2]
      <3>1. k \in Nat /\ one \in Nat /\ two \in Nat /\ 1 <= k /\ k <= n - 2 /\ one < two /\ two <= n
        BY <1>0, <2>1, <2>2, <2>3, <2>9
      <3>2. k \in 1..(n - 1) /\ k + 1 \in 1..(n - 1)
        BY <1>0, <3>1
      <3>3. /\ mid[k] = IF k < two THEN list[k] ELSE list[k + 1]
            /\ mid[k + 1] = IF k + 1 < two THEN list[k + 1] ELSE list[(k + 1) + 1]
        BY <2>6, <3>2
      <3>4. kept[k] = IF k < one THEN mid[k] ELSE mid[k + 1]
        BY <2>8, <2>9
      <3>5. (k + 1) + 1 = k + 2 /\ (k < one => k < two)
        BY <3>1
      <3> QED
        BY <3>3, <3>4, <3>5
    <2>10. ASSUME NEW k \in 1..Len(kept)
           PROVE  \E i \in 1..n : kept[k] = list[i] /\ list[i].path \notin Dots
      <3> DEFINE i == IF k < one THEN k ELSE IF k + 1 < two THEN k + 1 ELSE k + 2
      <3>1. i \in 1..n /\ i # one /\ i # two
        BY <1>0, <2>1, <2>2, <2>3, <2>8, <2>10
      <3>2. kept[k] = list[i]
        BY <2>8, <2>9, <2>10
      <3> HIDE DEF i
      <3> QED
        BY <2>4, <3>1, <3>2
    <2>11. ASSUME NEW i \in 1..n, list[i].path \notin Dots
           PROVE  \E k \in 1..Len(kept) : kept[k] = list[i]
      <3> DEFINE k == IF i < one THEN i ELSE IF i < two THEN i - 1 ELSE i - 2
      <3>1. i # one /\ i # two
        BY <2>1, <2>2, <2>11
      <3>2. /\ k \in 1..(n - 2)
            /\ (IF k < one THEN k ELSE IF k + 1 < two THEN k + 1 ELSE k + 2) = i
        BY <1>0, <2>1, <2>2, <2>3, <3>1
      <3> HIDE DEF k
      <3>3. kept[k] = list[i]
        BY <2>9, <3>2
      <3> QED
        BY <2>8, <3>2, <3>3
    <2>12. ASSUME \A i, j \in 1..n : list[i] = list[j] => i = j,
                  NEW k \in 1..Len(kept), NEW l \in 1..Len(kept), kept[k] = kept[l]
           PROVE  k = l
      <3> DEFINE at(m) == IF m < one THEN m ELSE IF m + 1 < two THEN m + 1 ELSE m + 2
      <3>1. at(k) \in 1..n /\ at(l) \in 1..n /\ (at(k) = at(l) => k = l)
        BY <1>0, <2>1, <2>2, <2>3, <2>8, <2>12
      <3>2. kept[k] = list[at(k)] /\ kept[l] = list[at(l)]
        BY <2>8, <2>9, <2>12
      <3> HIDE DEF at
      <3> QED
        BY <2>12, <3>1, <3>2
    <2> QED
      BY <2>8, <2>10, <2>11, <2>12
  <1> QED
    BY <1>4, <1>5, <1>6

\* The entry of a child under its parent's index.
ChildEntry(q, parent) == [Listed(q) EXCEPT !.parent = parent]

\* What is appended are the entries of the children, each once.
Appends(new, p, parent) ==
    /\ \A k \in 1..Len(new) : \E q \in Children(p) : new[k] = ChildEntry(q, parent)
    /\ \A q \in Children(p) : \E k \in 1..Len(new) : new[k] = ChildEntry(q, parent)
    /\ \A k, l \in 1..Len(new) : new[k] = new[l] => k = l

LEMMA WalkAppends ==
  ASSUME tree \in Trees, present \subseteq DOMAIN tree, NEW p, NEW list \in Listings(p),
         NEW es \in Seq(EntryRecords), NEW parent \in Nat
  PROVE  \E new \in Seq(EntryRecords) :
             MoveEntries(es, list, parent) = es \o new /\ Appends(new, p, parent)
  <1>1. PICK dots \in SUBSET Dots :
            list \in SetToSeqs({Listed(q) : q \in Children(p)} \union {DotEntry(d) : d \in dots})
    BY DEF Listings
  <1> DEFINE C == Children(p)
             S == {Listed(q) : q \in C} \union {DotEntry(d) : d \in dots}
             kept == KeptOf(list)
             new == [i \in DOMAIN kept |-> [kept[i] EXCEPT !.parent = parent]]
  <1>2. IsFiniteSet(S)
    <2>1. IsFiniteSet(C)
      BY NodeOK, FS_Subset DEF Children
    <2>2. IsFiniteSet(Dots)
      <3>1. Dots = {<<".">>} \union {<<"..">>}
        BY DEF Dots
      <3>2. IsFiniteSet({<<".">>}) /\ IsFiniteSet({<<"..">>})
        BY FS_Singleton
      <3> QED
        BY <3>1, <3>2, FS_Union
    <2>3. IsFiniteSet(dots)
      BY <2>2, FS_Subset
    <2> DEFINE f == [q \in C |-> Listed(q)]
               g == [d \in dots |-> DotEntry(d)]
    <2>4. /\ {f[q] : q \in C} = {Listed(q) : q \in C}
          /\ {g[d] : d \in dots} = {DotEntry(d) : d \in dots}
      OBVIOUS
    <2>5. f = [q \in C |-> f[q]] /\ g = [d \in dots |-> g[d]]
      OBVIOUS
    <2> HIDE DEF f, g
    <2>6. IsFiniteSet({f[q] : q \in C}) /\ IsFiniteSet({g[d] : d \in dots})
      BY <2>1, <2>3, <2>5, ImageIsFinite
    <2> QED
      BY <2>4, <2>6, FS_Union
  <1>3. ASSUME NEW q \in C
        PROVE  q \in DOMAIN tree /\ q # Root /\ Parent(q) = p /\ Last(q) \in STRING
               /\ <<Last(q)>> \in Seq(STRING) /\ <<Last(q)>> \notin Dots /\ q = Append(p, Last(q))
               /\ tree[q].type \in NodeTypes /\ tree[q].size \in Nat
    <2>1. q \in DOMAIN tree /\ q # Root /\ Parent(q) = p
      BY <1>3 DEF Children
    <2>2. Last(q) \in STRING /\ q = Append(Parent(q), Last(q)) /\ <<Last(q)>> \notin Dots
          /\ tree[q].type \in NodeTypes /\ tree[q].size \in Nat
      BY <2>1, NodeOK
    <2> QED
      BY <2>1, <2>2, Single
  <1>4. /\ list \in Seq(S) /\ \A i, j \in 1..Len(list) : list[i] = list[j] => i = j
        /\ \A e \in S : \E i \in 1..Len(list) : list[i] = e
    <2>1. list \in SetToSeqs(S)
      BY <1>1
    <2> HIDE DEF S
    <2> QED
      BY <1>2, <2>1, Enumerates
  <1>5. ASSUME NEW a \in S, NEW b \in S, a.path = b.path, a.path \in Dots PROVE a = b
    <2>1. (\E d \in dots : a = DotEntry(d)) /\ (\E d \in dots : b = DotEntry(d))
      BY <1>3, <1>5 DEF Listed
    <2> QED
      BY <1>5, <2>1 DEF DotEntry
  <1>6. \A i \in 1..Len(list) : list[i] \in S
    <2> HIDE DEF S
    <2> QED
      BY <1>4, ElementOfSeq
  <1>7. \A i, j \in 1..Len(list) : list[i].path = list[j].path /\ list[i].path \in Dots => i = j
    <2> HIDE DEF S
    <2> QED
      BY <1>4, <1>5, <1>6
  <1>8. /\ kept \in Seq(S)
        /\ \A k \in 1..Len(kept) : \E i \in 1..Len(list) : kept[k] = list[i] /\ list[i].path \notin Dots
        /\ \A i \in 1..Len(list) : list[i].path \notin Dots => \E k \in 1..Len(kept) : kept[k] = list[i]
        /\ \A k, l \in 1..Len(kept) : kept[k] = kept[l] => k = l
    <2> HIDE DEF S
    <2> QED
      <3>1. list \in Seq(S) /\ HasDotsOnce(list)
        BY <1>4, <1>7 DEF HasDotsOnce
      <3>2. kept \in Seq(S) /\ Keeps(kept, list)
        BY <3>1, KeptIs
      <3> HIDE DEF kept
      <3> QED
        BY <1>4, <3>2 DEF Keeps
  <1>9. ASSUME NEW k \in 1..Len(kept) PROVE \E q \in C : kept[k] = Listed(q)
    <2>1. PICK i \in 1..Len(list) : kept[k] = list[i] /\ list[i].path \notin Dots
      BY <1>8, <1>9
    <2>2. list[i] \in S
      BY <1>6
    <2>3. \A d \in dots : DotEntry(d).path \in Dots
      BY DEF DotEntry
    <2> QED
      BY <2>1, <2>2, <2>3
  <1>10. Len(kept) \in Nat /\ DOMAIN kept = 1..Len(kept)
    <2> HIDE DEF S, kept
    <2> QED
      BY <1>8, LenProperties
  <1>11. ASSUME NEW k \in 1..Len(kept) PROVE \E q \in C : new[k] = ChildEntry(q, parent)
    BY <1>9, <1>10, <1>11 DEF ChildEntry
  <1>12. ASSUME NEW q \in C PROVE ChildEntry(q, parent) \in EntryRecords
    <2>1. <<Last(q)>> \in Seq(STRING) /\ tree[q].type \in NodeTypes /\ tree[q].size \in Nat
      BY <1>3, <1>12, Zenon
    <2>2. parent \in Int
      OBVIOUS
    <2> QED
      BY <2>1, <2>2 DEF ChildEntry, Listed, EntryRecords
  <1>13. new \in Seq(EntryRecords) /\ Len(new) = Len(kept)
    <2>1. \A k \in 1..Len(kept) : new[k] \in EntryRecords
      BY <1>11, <1>12
    <2>2. DOMAIN new = 1..Len(kept) /\ new = [k \in 1..Len(kept) |-> new[k]]
      BY <1>10
    <2> HIDE DEF new, kept
    <2> QED
      BY <1>10, <2>1, <2>2
  <1>14. ASSUME NEW q \in C PROVE \E k \in 1..Len(new) : new[k] = ChildEntry(q, parent)
    <2>1. PICK i \in 1..Len(list) : list[i] = Listed(q)
      BY <1>4, <1>14
    <2>2. list[i].path \notin Dots
      BY <1>3, <2>1 DEF Listed
    <2>3. PICK k \in 1..Len(kept) : kept[k] = Listed(q)
      BY <1>8, <2>1, <2>2
    <2> QED
      BY <1>10, <1>13, <2>3 DEF ChildEntry
  <1>15. ASSUME NEW k \in 1..Len(kept), NEW l \in 1..Len(kept), new[k] = new[l] PROVE k = l
    <2>1. PICK q \in C : kept[k] = Listed(q)
      BY <1>9
    <2>2. PICK r \in C : kept[l] = Listed(r)
      BY <1>9
    <2>3. <<Last(q)>> = <<Last(r)>>
      <3>1. new[k].path = kept[k].path /\ new[l].path = kept[l].path
        BY <1>10, <2>1, <2>2 DEF Listed
      <3> QED
        BY <1>15, <2>1, <2>2, <3>1 DEF Listed
    <2>4. q = r
      BY <1>3, <2>3
    <2> QED
      BY <1>8, <2>1, <2>2, <2>4
  <1>16. MoveEntries(es, list, parent) = es \o new
    BY DEF MoveEntries, KeptOf
  <1> HIDE DEF new, kept, S
  <1> QED
    BY <1>11, <1>13, <1>14, <1>15, <1>16 DEF Appends

-----------------------------------------------------------------------------
(* Sums over finite sets, as the folds of the community modules compute      *)
(* them: by taking away one element after the other.                        *)

\* Among finite sets there is a smallest one.
LEMMA SmallestSet ==
  ASSUME NEW X, X # {}, \A s \in X : IsFiniteSet(s)
  PROVE  \E s \in X : \A t \in X : Cardinality(s) <= Cardinality(t)
  <1> DEFINE Sizes == {Cardinality(s) : s \in X}
  <1>1. Sizes \in SUBSET Nat /\ Sizes # {}
    BY FS_CardinalityType
  <1>2. PICK n \in Sizes : \A k \in Sizes : n <= k
    <2> HIDE DEF Sizes
    <2> QED
      BY <1>1, LeastNat
  <1> QED
    BY <1>2

Chosen(s) == CHOOSE x \in s : TRUE

LEMMA WithoutChosen ==
  ASSUME NEW s, IsFiniteSet(s), s # {}
  PROVE  /\ Chosen(s) \in s /\ IsFiniteSet(s \ {Chosen(s)})
         /\ Cardinality(s) \in Nat /\ Cardinality(s \ {Chosen(s)}) = Cardinality(s) - 1
  <1>1. Chosen(s) \in s
    BY DEF Chosen
  <1> QED
    BY <1>1, FS_RemoveElement, FS_CardinalityType

\* f sums up w over each of the sets.
SumsOf(w, sets, f) ==
    f = [s \in sets |-> IF s = {} THEN 0 ELSE w[Chosen(s)] + f[s \ {Chosen(s)}]]

LEMMA SumsExist ==
  ASSUME NEW S, IsFiniteSet(S), NEW w
  PROVE  \E f : SumsOf(w, SUBSET S, f)
  <1> DEFINE Small(n) == {s \in SUBSET S : Cardinality(s) <= n}
             Missing == {n \in Nat : ~ \E f : SumsOf(w, Small(n), f)}
  <1>0. \A s \in SUBSET S : IsFiniteSet(s) /\ Cardinality(s) \in Nat
    BY FS_Subset, FS_CardinalityType
  <1>1. Missing = {}
    <2> SUFFICES ASSUME Missing # {} PROVE FALSE
      OBVIOUS
    <2>1. Missing \in SUBSET Nat
      OBVIOUS
    <2>2. PICK n \in Missing : \A k \in Missing : n <= k
      <3> HIDE DEF Missing
      <3> QED
        BY <2>1, LeastNat
    <2>3. n # 0
      <3>1. \A s \in Small(0) : s = {}
        BY <1>0, FS_EmptySet
      <3>2. SumsOf(w, Small(0), [s \in Small(0) |-> 0])
        <4> HIDE DEF Small
        <4> QED
          BY <3>1 DEF SumsOf
      <3> QED
        BY <2>2, <3>2
    <2>4. n \in Nat /\ n - 1 \in Nat /\ n - 1 \notin Missing
      <3>1. n \in Nat
        BY <2>2
      <3>2. n - 1 \in Nat /\ ~(n <= n - 1)
        BY <2>3, <3>1
      <3> HIDE DEF Missing
      <3> QED
        BY <2>2, <3>1, <3>2
    <2>5. PICK f : SumsOf(w, Small(n - 1), f)
      BY <2>4
    <2> DEFINE g == [s \in Small(n) |-> IF s = {} THEN 0 ELSE w[Chosen(s)] + f[s \ {Chosen(s)}]]
    <2>6. ASSUME NEW s \in Small(n), s # {}
          PROVE  s \ {Chosen(s)} \in Small(n) /\ s \ {Chosen(s)} \in Small(n - 1)
      BY <1>0, <2>4, <2>6, WithoutChosen
    <2>7. ASSUME NEW s \in Small(n - 1) PROVE s \in Small(n) /\ g[s] = f[s]
      <3>1. s \in Small(n)
        BY <1>0, <2>4, <2>7
      <3> HIDE DEF Small
      <3> QED
        BY <2>5, <2>7, <3>1 DEF SumsOf
    <2>8. SumsOf(w, Small(n), g)
      <3> HIDE DEF Small
      <3>1. \A s \in Small(n) : s # {} => g[s \ {Chosen(s)}] = f[s \ {Chosen(s)}]
        BY <2>6, <2>7
      <3>2. \A s \in Small(n) : g[s] = IF s = {} THEN 0 ELSE w[Chosen(s)] + g[s \ {Chosen(s)}]
        BY <3>1
      <3>3. g = [s \in Small(n) |-> g[s]]
        OBVIOUS
      <3> HIDE DEF g
      <3> QED
        BY <3>2, <3>3 DEF SumsOf
    <2> QED
      BY <2>2, <2>8
  <1>2. Cardinality(S) \in Nat /\ Small(Cardinality(S)) = SUBSET S
    BY FS_Subset, FS_CardinalityType
  <1>3. Cardinality(S) \notin Missing
    BY <1>1
  <1> QED
    BY <1>2, <1>3

LEMMA SumsAgree ==
  ASSUME NEW S, IsFiniteSet(S), NEW T, NEW w, NEW f, NEW g,
         SumsOf(w, SUBSET S, f), SumsOf(w, SUBSET T, g)
  PROVE  \A s \in SUBSET S : s \subseteq T => f[s] = g[s]
  <1> DEFINE Bad == {s \in SUBSET S : s \subseteq T /\ f[s] # g[s]}
  <1> SUFFICES ASSUME Bad # {} PROVE FALSE
    OBVIOUS
  <1>1. \A s \in Bad : IsFiniteSet(s)
    BY FS_Subset
  <1>2. PICK s \in Bad : \A t \in Bad : Cardinality(s) <= Cardinality(t)
    <2> HIDE DEF Bad
    <2> QED
      BY <1>1, SmallestSet
  <1> DEFINE r == s \ {Chosen(s)}
  <1>3. /\ f[s] = IF s = {} THEN 0 ELSE w[Chosen(s)] + f[r]
        /\ g[s] = IF s = {} THEN 0 ELSE w[Chosen(s)] + g[r]
    BY <1>2 DEF SumsOf
  <1>4. s # {} => r \in SUBSET S /\ r \subseteq T /\ r \notin Bad
    <2>1. s # {} => Cardinality(s) \in Nat /\ Cardinality(r) = Cardinality(s) - 1
      BY <1>1, <1>2, WithoutChosen
    <2>2. s # {} => ~(Cardinality(s) <= Cardinality(r))
      <3> HIDE DEF r
      <3> QED
        BY <2>1
    <2> QED
      BY <1>2, <2>2
  <1>5. s # {} => f[r] = g[r]
    BY <1>4
  <1> QED
    BY <1>2, <1>3, <1>5

Total(w, S) == (CHOOSE f : SumsOf(w, SUBSET S, f))[S]

LEMMA TotalIs ==
  ASSUME NEW S, IsFiniteSet(S), NEW w, NEW f, SumsOf(w, SUBSET S, f)
  PROVE  \A s \in SUBSET S : Total(w, s) = f[s]
  <1> SUFFICES ASSUME NEW s \in SUBSET S PROVE Total(w, s) = f[s]
    OBVIOUS
  <1>1. IsFiniteSet(s)
    BY FS_Subset
  <1> DEFINE g == CHOOSE h : SumsOf(w, SUBSET s, h)
  <1>2. SumsOf(w, SUBSET s, g)
    BY <1>1, SumsExist
  <1> HIDE DEF g
  <1>3. g[s] = f[s]
    BY <1>1, <1>2, SumsAgree
  <1> QED
    BY <1>3 DEF Total, g

LEMMA TotalSteps ==
  ASSUME NEW S, IsFiniteSet(S), NEW w
  PROVE  /\ S = {} => Total(w, S) = 0
         /\ S # {} => Total(w, S) = w[Chosen(S)] + Total(w, S \ {Chosen(S)})
  <1>1. PICK f : SumsOf(w, SUBSET S, f)
    BY SumsExist
  <1>2. f[S] = IF S = {} THEN 0 ELSE w[Chosen(S)] + f[S \ {Chosen(S)}]
    BY <1>1 DEF SumsOf
  <1>3. Total(w, S) = f[S] /\ Total(w, S \ {Chosen(S)}) = f[S \ {Chosen(S)}]
    BY <1>1, TotalIs
  <1> QED
    BY <1>2, <1>3

LEMMA TotalIsNat ==
  ASSUME NEW S, IsFiniteSet(S), NEW w, \A x \in S : w[x] \in Nat
  PROVE  \A s \in SUBSET S : Total(w, s) \in Nat
  <1> DEFINE Bad == {s \in SUBSET S : Total(w, s) \notin Nat}
  <1> SUFFICES ASSUME Bad # {} PROVE FALSE
    OBVIOUS
  <1>1. \A s \in Bad : IsFiniteSet(s)
    BY FS_Subset
  <1>2. PICK s \in Bad : \A t \in Bad : Cardinality(s) <= Cardinality(t)
    <2> HIDE DEF Bad
    <2> QED
      BY <1>1, SmallestSet
  <1> DEFINE r == s \ {Chosen(s)}
  <1>3. /\ s = {} => Total(w, s) = 0
        /\ s # {} => Total(w, s) = w[Chosen(s)] + Total(w, r)
    BY <1>1, <1>2, TotalSteps
  <1>4. s # {} => r \in SUBSET S /\ r \notin Bad /\ Chosen(s) \in S
    <2>1. s # {} => Cardinality(s) \in Nat /\ Cardinality(r) = Cardinality(s) - 1 /\ Chosen(s) \in s
      BY <1>1, <1>2, WithoutChosen
    <2>2. s # {} => ~(Cardinality(s) <= Cardinality(r))
      <3> HIDE DEF r
      <3> QED
        BY <2>1
    <2> QED
      BY <1>2, <2>1, <2>2
  <1>5. s # {} => Total(w, r) \in Nat /\ w[Chosen(s)] \in Nat
    BY <1>4
  <1> QED
    BY <1>2, <1>3, <1>5

\* Whatever element is taken away.
LEMMA TotalAdds ==
  ASSUME NEW S, IsFiniteSet(S), NEW w, \A x \in S : w[x] \in Nat
  PROVE  \A s \in SUBSET S : \A x \in s : Total(w, s) = Total(w, s \ {x}) + w[x]
  <1> DEFINE Good(s) == \A x \in s : Total(w, s) = Total(w, s \ {x}) + w[x]
             Bad == {s \in SUBSET S : ~Good(s)}
  <1> SUFFICES ASSUME Bad # {} PROVE FALSE
    OBVIOUS
  <1>1. \A s \in Bad : IsFiniteSet(s)
    BY FS_Subset
  <1>2. PICK s \in Bad : \A t \in Bad : Cardinality(s) <= Cardinality(t)
    <2> HIDE DEF Bad
    <2> QED
      BY <1>1, SmallestSet
  <1>3. PICK x \in s : Total(w, s) # Total(w, s \ {x}) + w[x]
    BY <1>2
  <1> DEFINE c == Chosen(s)
  <1>4. /\ s \in SUBSET S /\ s # {} /\ IsFiniteSet(s) /\ c \in s
        /\ Total(w, s) = w[c] + Total(w, s \ {c})
    BY <1>1, <1>2, <1>3, TotalSteps, WithoutChosen
  <1> HIDE DEF c
  <1>5. w[c] \in Nat /\ w[x] \in Nat
        /\ Total(w, s \ {c}) \in Nat /\ Total(w, s \ {x}) \in Nat /\ Total(w, s \ {c, x}) \in Nat
    BY <1>3, <1>4, TotalIsNat
  <1>6. c # x
    BY <1>3, <1>4, <1>5
  <1>7. ASSUME NEW y \in s PROVE Good(s \ {y})
    <2>1. Cardinality(s) \in Nat /\ Cardinality(s \ {y}) = Cardinality(s) - 1
      BY <1>4, <1>7, FS_RemoveElement, FS_CardinalityType
    <2>2. ~(Cardinality(s) <= Cardinality(s \ {y}))
      BY <2>1
    <2> QED
      BY <1>2, <1>4, <2>2
  <1>8. Total(w, s \ {c}) = Total(w, (s \ {c}) \ {x}) + w[x]
    <2>1. Good(s \ {c}) /\ x \in s \ {c}
      BY <1>4, <1>6, <1>7
    <2> QED
      BY <2>1
  <1>9. Total(w, s \ {x}) = Total(w, (s \ {x}) \ {c}) + w[c]
    <2>1. Good(s \ {x}) /\ c \in s \ {x}
      BY <1>4, <1>6, <1>7
    <2> QED
      BY <2>1
  <1> DEFINE left == Total(w, s \ {c, x})
             withoutC == Total(w, s \ {c})
             withoutX == Total(w, s \ {x})
  <1>10. (s \ {c}) \ {x} = s \ {c, x} /\ (s \ {x}) \ {c} = s \ {c, x}
    OBVIOUS
  <1>11. withoutC = left + w[x] /\ withoutX = left + w[c]
    BY <1>8, <1>9, <1>10
  <1>12. Total(w, s) = w[c] + withoutC /\ Total(w, s) # withoutX + w[x] /\ left \in Nat
    BY <1>3, <1>4, <1>5
  <1> HIDE DEF left, withoutC, withoutX
  <1> QED
    BY <1>5, <1>11, <1>12

LEMMA TotalJoins ==
  ASSUME NEW S, IsFiniteSet(S), NEW w, \A x \in S : w[x] \in Nat, NEW A \in SUBSET S
  PROVE  \A B \in SUBSET S : A \cap B = {} => Total(w, A \union B) = Total(w, A) + Total(w, B)
  <1> DEFINE Bad == {B \in SUBSET S : A \cap B = {} /\ Total(w, A \union B) # Total(w, A) + Total(w, B)}
  <1> SUFFICES ASSUME Bad # {} PROVE FALSE
    OBVIOUS
  <1>1. \A B \in Bad : IsFiniteSet(B)
    BY FS_Subset
  <1>2. PICK B \in Bad : \A t \in Bad : Cardinality(B) <= Cardinality(t)
    <2> HIDE DEF Bad
    <2> QED
      BY <1>1, SmallestSet
  <1>3. B \in SUBSET S /\ A \cap B = {} /\ Total(w, A \union B) # Total(w, A) + Total(w, B)
    BY <1>2
  <1>4. B # {}
    <2> SUFFICES ASSUME B = {} PROVE FALSE
      OBVIOUS
    <2>1. Total(w, B) = 0 /\ A \union B = A
      BY <1>1, <1>2, TotalSteps
    <2>2. Total(w, A) \in Nat
      BY TotalIsNat
    <2> QED
      BY <1>3, <2>1, <2>2
  <1>5. PICK x : x \in B
    BY <1>4
  <1> DEFINE C == B \ {x}
  <1>6. C \in SUBSET S /\ C \notin Bad /\ A \cap C = {}
    <2>1. Cardinality(B) \in Nat /\ Cardinality(C) = Cardinality(B) - 1
      BY <1>1, <1>2, <1>5, FS_RemoveElement, FS_CardinalityType
    <2>2. ~(Cardinality(B) <= Cardinality(C))
      <3> HIDE DEF C
      <3> QED
        BY <2>1
    <2> QED
      BY <1>2, <1>3, <2>2
  <1>7. Total(w, A \union C) = Total(w, A) + Total(w, C)
    BY <1>6
  <1>8. (A \union B) \ {x} = A \union C /\ A \union B \in SUBSET S /\ x \in A \union B
    BY <1>3, <1>5
  <1>9. Total(w, A \union B) = Total(w, (A \union B) \ {x}) + w[x] /\ Total(w, B) = Total(w, C) + w[x]
    BY <1>3, <1>5, <1>8, TotalAdds
  <1> DEFINE joined == Total(w, A \union C)
             left == Total(w, C)
  <1>10. Total(w, A \union B) = joined + w[x] /\ Total(w, B) = left + w[x] /\ joined = Total(w, A) + left
    BY <1>7, <1>8, <1>9
  <1>11. w[x] \in Nat /\ left \in Nat /\ Total(w, A) \in Nat
    BY <1>3, <1>5, <1>6, TotalIsNat
  <1> HIDE DEF joined, left
  <1> QED
    BY <1>3, <1>10, <1>11

\* The sum is the same over another set with the same weights.
LEMMA TotalMoves ==
  ASSUME NEW S, IsFiniteSet(S), NEW w, \A x \in S : w[x] \in Nat,
         NEW T, IsFiniteSet(T), NEW v, NEW g,
         \A x \in S : g[x] \in T /\ v[g[x]] = w[x],
         \A x, y \in S : g[x] = g[y] => x = y,
         \A z \in T : \E x \in S : g[x] = z
  PROVE  Total(v, T) = Total(w, S)
  <1> DEFINE Image(s) == {g[x] : x \in s}
             Bad == {s \in SUBSET S : Total(v, Image(s)) # Total(w, s)}
  <1>0. \A z \in T : v[z] \in Nat
    OBVIOUS
  <1>1. Bad = {}
    <2> SUFFICES ASSUME Bad # {} PROVE FALSE
      OBVIOUS
    <2>1. \A s \in Bad : IsFiniteSet(s)
      BY FS_Subset
    <2>2. PICK s \in Bad : \A t \in Bad : Cardinality(s) <= Cardinality(t)
      <3> HIDE DEF Bad
      <3> QED
        BY <2>1, SmallestSet
    <2>3. s \in SUBSET S /\ Total(v, Image(s)) # Total(w, s) /\ Image(s) \in SUBSET T
      BY <2>2
    <2>4. s # {}
      <3> SUFFICES ASSUME s = {} PROVE FALSE
        OBVIOUS
      <3>1. Image(s) = {}
        OBVIOUS
      <3>2. Total(w, {}) = 0 /\ Total(v, {}) = 0
        BY FS_EmptySet, TotalSteps
      <3> QED
        BY <2>3, <3>1, <3>2
    <2>5. PICK x : x \in s
      BY <2>4
    <2> DEFINE r == s \ {x}
    <2>6. r \in SUBSET S /\ r \notin Bad
      <3>1. Cardinality(s) \in Nat /\ Cardinality(r) = Cardinality(s) - 1
        BY <2>1, <2>2, <2>5, FS_RemoveElement, FS_CardinalityType
      <3>2. ~(Cardinality(s) <= Cardinality(r))
        <4> HIDE DEF r
        <4> QED
          BY <3>1
      <3> QED
        BY <2>2, <2>3, <3>2
    <2>7. Total(v, Image(r)) = Total(w, r)
      BY <2>6
    <2>8. Image(s) \ {g[x]} = Image(r) /\ g[x] \in Image(s)
      BY <2>3, <2>5
    <2>9. Total(w, s) = Total(w, r) + w[x]
      BY <2>3, <2>5, TotalAdds
    <2>10. Total(v, Image(s)) = Total(v, Image(s) \ {g[x]}) + v[g[x]]
      <3> HIDE DEF Image
      <3> QED
        BY <1>0, <2>3, <2>8, TotalAdds
    <2>11. v[g[x]] = w[x]
      BY <2>3, <2>5
    <2> HIDE DEF Image, r
    <2> QED
      BY <2>3, <2>7, <2>8, <2>9, <2>10, <2>11
  <1>2. Image(S) = T
    OBVIOUS
  <1> HIDE DEF Image
  <1> QED
    BY <1>1, <1>2

-----------------------------------------------------------------------------
(* The scan: the list has the children of every directory that was walked. *)

Untouched == "remove" \notin happened

\* The entry is that of a child of its parent's directory.
NamesAChild(i) ==
    LET parent == Entry(entries, i).parent
    IN  \E q \in Children(Resolve(FullPath(entries, parent))) :
            Entry(entries, i) = ChildEntry(q, parent)

\* The directory of the entry was listed.
IsWalked(i) ==
    /\ Is("dir", FullPath(entries, i))
    /\ \A q \in Children(Resolve(FullPath(entries, i))) :
           \E k \in Indices(entries) \ {0} : Entry(entries, k) = ChildEntry(q, i)

ListInv ==
    /\ tree \in Trees /\ present \subseteq DOMAIN tree
    /\ Untouched => present = DOMAIN tree
    /\ IsListing(entries) /\ scanIndex \in 0..Len(entries)
    /\ scan = "Completed" => scanIndex = Len(entries)

ScanInv ==
    /\ ListInv
    /\ \A i \in Indices(entries) \ {0} : Entry(entries, i).parent < scanIndex
    /\ \A i, k \in Indices(entries) \ {0} : Entry(entries, i) = Entry(entries, k) => i = k
    /\ Untouched =>
           /\ \A i \in Indices(entries) \ {0} : NamesAChild(i)
           /\ \A i \in Indices(entries) :
                  i < scanIndex /\ Entry(entries, i).type # "file" => IsWalked(i)

LEMMA NextIs ==
  ASSUME NEW es \in Seq(EntryRecords), NEW from \in 0..Len(es)
  PROVE  /\ NextToScan(es, from) \in from..Len(es)
         /\ \A i \in Indices(es) :
                from <= i /\ i < NextToScan(es, from) => Entry(es, i).type = "file"
         /\ NextToScan(es, from) < Len(es) => Entry(es, NextToScan(es, from)).type # "file"
  <1> DEFINE I == {i \in from..Len(es) : i = Len(es) \/ Entry(es, i).type # "file"}
  <1>1. Len(es) \in Nat
    BY LenProperties
  <1>2. I \in SUBSET Nat /\ Len(es) \in I
    BY <1>1
  <1>3. Min(I) \in I /\ \A k \in I : Min(I) <= k
    <2> HIDE DEF I
    <2>1. \E n \in I : \A k \in I : n <= k
      BY <1>2, LeastNat
    <2> QED
      BY <2>1 DEF Min
  <1>4. NextToScan(es, from) = Min(I)
    BY DEF NextToScan
  <1> DEFINE m == Min(I)
  <1>5. ASSUME NEW i \in Indices(es), from <= i, i < m PROVE Entry(es, i).type = "file"
    <2> HIDE DEF m
    <2>1. m \in Nat /\ m <= Len(es)
      BY <1>1, <1>3 DEF m
    <2>2. i \in from..Len(es) /\ i # Len(es) /\ ~(m <= i)
      BY <1>1, <1>5, <2>1 DEF Indices
    <2>3. i \notin I
      <3> HIDE DEF I
      <3> QED
        BY <1>3, <2>2 DEF m
    <2> QED
      BY <2>2, <2>3
  <1>6. m < Len(es) => Entry(es, m).type # "file"
    <2>1. m = Len(es) \/ Entry(es, m).type # "file"
      BY <1>3
    <2> QED
      BY <1>1, <2>1
  <1> QED
    BY <1>3, <1>4, <1>5, <1>6

\* A tree that stays is resolved and listed as before.
LEMMA ServerStays ==
  ASSUME UNCHANGED <<tree, present>>
  PROVE  /\ \A p : Resolve(p)' = Resolve(p) /\ Children(p)' = Children(p)
         /\ \A p, type : Is(type, p)' = Is(type, p)
         /\ \A q, parent : ChildEntry(q, parent)' = ChildEntry(q, parent)
  <1>1. \A p : Resolve(p)' = Resolve(p)
    BY DEF Resolve, Follow
  <1>2. \A p, type : Is(type, p)' = Is(type, p)
    BY <1>1 DEF Is
  <1> QED
    BY <1>1, <1>2 DEF Children, ChildEntry, Listed

\* Walking one directory.
LEMMA WalkKeeps ==
  ASSUME ScanInv, ScanWalks
  PROVE  ScanInv'
  <1>1. /\ UNCHANGED <<tree, present, happened, scan>> /\ scan = "Running"
        /\ scanIndex \in Nat /\ scanIndex < Len(entries) /\ Len(entries) \in Nat
        /\ Indices(entries) = 0..(Len(entries) - 1)
    BY LenProperties DEF ScanWalks, Scanning, world, ScanInv, ListInv, IsListing, Indices
  <1>d. PICK dir : dir = Resolve(FullPath(entries, scanIndex))
    OBVIOUS
  <1>2. Is("dir", FullPath(entries, scanIndex))
    BY DEF ScanWalks
  <1>3. PICK list \in Listings(dir) : entries' = MoveEntries(entries, list, scanIndex)
    BY <1>d DEF ScanWalks
  <1>4. PICK new \in Seq(EntryRecords) :
            /\ entries' = entries \o new
            /\ \A k \in 1..Len(new) : \E q \in Children(dir) : new[k] = ChildEntry(q, scanIndex)
            /\ \A q \in Children(dir) : \E k \in 1..Len(new) : new[k] = ChildEntry(q, scanIndex)
            /\ \A k, l \in 1..Len(new) : new[k] = new[l] => k = l
    <2>1. tree \in Trees /\ present \subseteq DOMAIN tree /\ entries \in Seq(EntryRecords)
      BY DEF ScanInv, ListInv, IsListing
    <2>2. \E new \in Seq(EntryRecords) :
              MoveEntries(entries, list, scanIndex) = entries \o new /\ Appends(new, dir, scanIndex)
      BY <1>1, <1>3, <2>1, WalkAppends
    <2> QED
      BY <1>3, <2>2 DEF Appends
  <1> DEFINE n == Len(entries)
             m == Len(new)
  <1>5. /\ m \in Nat /\ entries' \in Seq(EntryRecords) /\ Len(entries') = n + m
        /\ \A k \in 1..(n + m) : entries'[k] = IF k <= n THEN entries[k] ELSE new[k - n]
    BY <1>4, ConcatProperties, LenProperties DEF ScanInv, ListInv, IsListing
  <1>6. /\ Indices(entries') = 0..(n + m - 1)
        /\ \A i \in 0..(n - 1) : Entry(entries', i) = Entry(entries, i)
        /\ \A i \in n..(n + m - 1) : i - n + 1 \in 1..m /\ Entry(entries', i) = new[i - n + 1]
    <2>1. Indices(entries') = 0..(n + m - 1)
      BY <1>5 DEF Indices
    <2> HIDE DEF n, m
    <2>2. n \in Nat
      BY <1>1 DEF n
    <2>3. ASSUME NEW i \in 0..(n - 1) PROVE Entry(entries', i) = Entry(entries, i)
      BY <1>5, <2>2, <2>3 DEF Entry
    <2>4. ASSUME NEW i \in n..(n + m - 1)
          PROVE  i - n + 1 \in 1..m /\ Entry(entries', i) = new[i - n + 1]
      <3>1. i - n + 1 \in 1..m /\ i + 1 \in 1..(n + m) /\ ~(i + 1 <= n) /\ (i + 1) - n = i - n + 1
        BY <1>5, <2>2, <2>4
      <3> QED
        BY <1>5, <3>1 DEF Entry
    <2> QED
      BY <2>1, <2>3, <2>4
  <1>7. \A i \in n..(n + m - 1) : \E q \in Children(dir) : Entry(entries', i) = ChildEntry(q, scanIndex)
    <2> HIDE DEF n, m
    <2> QED
      BY <1>4, <1>6 DEF m
  <1>8. \A q \in Children(dir) : \E i \in n..(n + m - 1) : Entry(entries', i) = ChildEntry(q, scanIndex)
    <2> SUFFICES ASSUME NEW q \in Children(dir)
                 PROVE  \E i \in n..(n + m - 1) : Entry(entries', i) = ChildEntry(q, scanIndex)
      OBVIOUS
    <2>1. PICK k \in 1..m : new[k] = ChildEntry(q, scanIndex)
      BY <1>4
    <2> DEFINE i == n + k - 1
    <2>2. i \in n..(n + m - 1) /\ i - n + 1 = k
      BY <1>1, <1>5
    <2> HIDE DEF i
    <2> QED
      BY <1>6, <2>1, <2>2
  <1>9. IsListing(entries')
    <2>1. entries'[1] = RootEntry /\ Len(entries') > 0
      BY <1>1, <1>5 DEF ScanInv, ListInv, IsListing
    <2>2. ASSUME NEW i \in Indices(entries') \ {0} PROVE EntryListed(entries', i)
      <3>1. CASE i \in 0..(n - 1)
        <4>1. i \in Indices(entries) \ {0}
          BY <1>1, <2>2, <3>1
        <4>2. EntryListed(entries, i)
          BY <4>1 DEF ScanInv, ListInv, IsListing
        <4> QED
          BY <1>6, <3>1, <4>2 DEF EntryListed
      <3>2. CASE i \in n..(n + m - 1)
        <4>1. PICK q \in Children(dir) : Entry(entries', i) = ChildEntry(q, scanIndex)
          BY <1>7, <3>2
        <4>2. q \in DOMAIN tree /\ q # Root
          BY <4>1 DEF Children, ScanInv, ListInv
        <4>3. Last(q) \in STRING
          BY <4>2, NodeOK DEF ScanInv, ListInv
        <4>4. Entry(entries', i).parent = scanIndex /\ Entry(entries', i).path = <<Last(q)>>
          BY <4>1 DEF ChildEntry, Listed
        <4>5. scanIndex \in 0..(i - 1)
          BY <1>1, <3>2
        <4> QED
          BY <4>3, <4>4, <4>5 DEF EntryListed
      <3> QED
        BY <1>1, <1>5, <1>6, <2>2, <3>1, <3>2
    <2> QED
      BY <1>5, <2>1, <2>2 DEF IsListing
  <1>10. \A i \in Indices(entries) : FullPath(entries', i) = FullPath(entries, i)
    <2>1. Indices(entries) \subseteq Indices(entries')
      BY <1>1, <1>5, <1>6
    <2>2. IsListing(entries)
      BY DEF ScanInv, ListInv
    <2> QED
      BY <1>1, <1>6, <1>9, <2>1, <2>2, FullPathStays
  <1>11. /\ scanIndex' \in (scanIndex + 1)..Len(entries')
         /\ \A i \in Indices(entries') :
               scanIndex + 1 <= i /\ i < scanIndex' => Entry(entries', i).type = "file"
    <2>1. scanIndex' = NextToScan(entries', scanIndex + 1)
      BY DEF ScanWalks
    <2>2. scanIndex + 1 \in 0..Len(entries')
      BY <1>1, <1>5
    <2> QED
      BY <1>5, <2>1, <2>2, NextIs
  <1>12. ListInv'
    <2>1. scanIndex' \in 0..Len(entries')
      BY <1>1, <1>5, <1>11
    <2> QED
      BY <1>1, <1>9, <2>1 DEF ScanInv, ListInv, Untouched
  <1>13. \A i \in 0..(n - 1) : i # 0 => Entry(entries', i).parent < scanIndex
    BY <1>1, <1>6 DEF ScanInv
  <1>14. \A i \in n..(n + m - 1) : Entry(entries', i).parent = scanIndex
    BY <1>7 DEF ChildEntry, Listed
  <1>15. \A i \in Indices(entries') : i \in 0..(n - 1) \/ i \in n..(n + m - 1)
    BY <1>1, <1>5, <1>6
  <1>16. \A i \in Indices(entries') \ {0} : (Entry(entries, i).parent < scanIndex)'
    <2>1. scanIndex < scanIndex'
      BY <1>1, <1>5, <1>11
    <2>2. scanIndex' \in Nat /\ \A i \in Indices(entries') \ {0} : Entry(entries', i).parent \in Nat
      <3>1. \A i \in Indices(entries') \ {0} : Entry(entries', i).parent \in 0..(i - 1)
        BY <1>9 DEF IsListing, EntryListed
      <3> QED
        BY <1>1, <1>5, <1>6, <1>11, <3>1
    <2>3. ASSUME NEW i \in Indices(entries') \ {0} PROVE Entry(entries', i).parent < scanIndex'
      <3>1. CASE i \in 0..(n - 1)
        <4>1. Entry(entries', i).parent < scanIndex /\ Entry(entries', i).parent \in Nat
          BY <1>13, <2>2, <2>3, <3>1
        <4> QED
          BY <1>1, <2>1, <2>2, <4>1
      <3>2. CASE i \in n..(n + m - 1)
        BY <1>14, <2>1, <3>2
      <3> QED
        BY <1>15, <2>3, <3>1, <3>2
    <2> QED
      BY <2>3
  <1>17. \A i, k \in Indices(entries') \ {0} : Entry(entries', i) = Entry(entries', k) => i = k
    <2> SUFFICES ASSUME NEW i \in Indices(entries') \ {0}, NEW k \in Indices(entries') \ {0},
                        Entry(entries', i) = Entry(entries', k)
                 PROVE  i = k
      OBVIOUS
    <2>1. CASE i \in 0..(n - 1) /\ k \in 0..(n - 1)
      BY <1>1, <1>6, <2>1 DEF ScanInv
    <2>2. CASE i \in n..(n + m - 1) /\ k \in n..(n + m - 1)
      <3>1. i - n + 1 \in 1..m /\ k - n + 1 \in 1..m /\ new[i - n + 1] = new[k - n + 1]
        BY <1>6, <2>2
      <3>2. i - n + 1 = k - n + 1
        BY <1>4, <3>1
      <3> QED
        BY <1>1, <1>5, <2>2, <3>2
    <2>3. CASE i \in 0..(n - 1) /\ k \in n..(n + m - 1)
      BY <1>1, <1>13, <1>14, <2>3
    <2>4. CASE i \in n..(n + m - 1) /\ k \in 0..(n - 1)
      BY <1>1, <1>13, <1>14, <2>4
    <2> QED
      BY <1>15, <2>1, <2>2, <2>3, <2>4
  <1>18. ASSUME Untouched', NEW i \in Indices(entries') \ {0} PROVE NamesAChild(i)'
    <2>1. CASE i \in 0..(n - 1)
      <3>1. Untouched /\ i \in Indices(entries) \ {0}
        BY <1>1, <1>18, <2>1 DEF Untouched
      <3>2. NamesAChild(i)
        BY <3>1 DEF ScanInv
      <3>3. Entry(entries, i).parent \in 0..(i - 1)
        BY <3>1 DEF ScanInv, ListInv, IsListing, EntryListed
      <3>4. Entry(entries', i) = Entry(entries, i)
            /\ FullPath(entries', Entry(entries, i).parent) = FullPath(entries, Entry(entries, i).parent)
        BY <1>1, <1>6, <1>10, <2>1, <3>3
      <3> QED
        BY <1>1, <3>2, <3>4, ServerStays DEF NamesAChild
    <2>2. CASE i \in n..(n + m - 1)
      <3>1. PICK q \in Children(dir) : Entry(entries', i) = ChildEntry(q, scanIndex)
        BY <1>7, <2>2
      <3>2. Entry(entries', i).parent = scanIndex
        BY <1>14, <2>2
      <3>3. FullPath(entries', scanIndex) = FullPath(entries, scanIndex)
        BY <1>1, <1>10
      <3> QED
        BY <1>1, <1>d, <3>1, <3>2, <3>3, ServerStays DEF NamesAChild
    <2> QED
      BY <1>15, <1>18, <2>1, <2>2
  <1>19. ASSUME Untouched', NEW i \in Indices(entries'), i < scanIndex', Entry(entries', i).type # "file"
         PROVE  IsWalked(i)'
    <2>1. i \in 0..scanIndex
      <3>1. ~(scanIndex + 1 <= i) /\ i \in Nat
        BY <1>5, <1>6, <1>11, <1>19
      <3> QED
        BY <1>1, <3>1
    <2>2. i \in Indices(entries) /\ FullPath(entries', i) = FullPath(entries, i)
      BY <1>1, <1>10, <2>1
    <2>3. /\ Is("dir", FullPath(entries, i))
          /\ \A q \in Children(Resolve(FullPath(entries, i))) :
                 \E k \in Indices(entries') \ {0} : Entry(entries', k) = ChildEntry(q, i)
      <3>1. CASE i = scanIndex
        <4>1. n..(n + m - 1) \subseteq Indices(entries') \ {0}
          BY <1>1, <1>5, <1>6
        <4> QED
          BY <1>2, <1>8, <1>d, <3>1, <4>1
      <3>2. CASE i # scanIndex
        <4>1. i < scanIndex /\ Untouched /\ Entry(entries, i).type # "file"
          BY <1>1, <1>6, <1>19, <2>1, <2>2, <3>2 DEF Untouched
        <4>2. IsWalked(i)
          BY <2>2, <4>1 DEF ScanInv
        <4>3. \A k \in Indices(entries) \ {0} :
                  k \in Indices(entries') \ {0} /\ Entry(entries', k) = Entry(entries, k)
          BY <1>1, <1>5, <1>6
        <4> QED
          BY <4>2, <4>3 DEF IsWalked
      <3> QED
        BY <3>1, <3>2
    <2> QED
      BY <1>1, <2>2, <2>3, ServerStays DEF IsWalked
  <1> QED
    BY <1>12, <1>16, <1>17, <1>18, <1>19 DEF ScanInv

\* Nothing else touches the list, and only OthersRemove the tree.
LEMMA ListStays ==
  ASSUME ScanInv, UNCHANGED <<tree, entries, scanIndex>>,
         present' \subseteq present, Untouched' => Untouched /\ present' = present,
         scan' = "Completed" => scanIndex = Len(entries)
  PROVE  ScanInv'
  <1>1. ListInv'
    BY DEF ScanInv, ListInv
  <1>2. ASSUME Untouched'
        PROVE  /\ \A i \in Indices(entries) \ {0} : NamesAChild(i)'
               /\ \A i \in Indices(entries) :
                      i < scanIndex /\ Entry(entries, i).type # "file" => IsWalked(i)'
    <2>1. Untouched /\ UNCHANGED <<tree, present>>
      BY <1>2
    <2>2. \A i : NamesAChild(i)' = NamesAChild(i) /\ IsWalked(i)' = IsWalked(i)
      BY <2>1, ServerStays DEF NamesAChild, IsWalked
    <2> QED
      BY <2>1, <2>2 DEF ScanInv
  <1> QED
    BY <1>1, <1>2 DEF ScanInv

LEMMA ScanStep == ScanInv /\ [Next]_vars => ScanInv'
  <1> SUFFICES ASSUME ScanInv, [Next]_vars PROVE ScanInv'
    OBVIOUS
  <1>0. scanIndex \in 0..Len(entries) /\ Len(entries) \in Nat
        /\ (scan = "Completed" => scanIndex = Len(entries))
    BY LenProperties DEF ScanInv, ListInv, IsListing
  <1>1. CASE UNCHANGED vars
    BY <1>0, <1>1, ListStays DEF vars, world, scanVars, Untouched
  <1>2. CASE ScanStarts \/ ScanFails \/ ScanCompletes \/ CancelScan
    <2>1. UNCHANGED <<tree, present, entries, scanIndex>> /\ (Untouched' => Untouched)
          /\ (scan' = "Completed" => scanIndex = Len(entries))
      BY <1>0, <1>2 DEF ScanStarts, ScanFails, ScanCompletes, CancelScan, world, Untouched
    <2> QED
      BY <2>1, ListStays
  <1>3. CASE BulkWork \/ CancelBulk \/ OthersCreate
    <2>1. UNCHANGED <<tree, present, entries, scanIndex, scan>> /\ (Untouched' => Untouched)
      BY <1>3
         DEF BulkWork, BulkHasNothingToDo, BulkStarts, BulkCannotStart, BulkEnds, BulkMakesDirectory,
             BulkCannotMakeDirectory, BulkOpensFile, BulkCannotOpenFile, BulkSkips, DownloadWork,
             DownloadPrepares, DownloadReads, DownloadFinalizes, DownloadFails, CancelBulk, BulkFails,
             OthersCreate, world, scanVars, Untouched
    <2> QED
      BY <1>0, <2>1, ListStays
  <1>4. CASE OthersRemove
    <2>1. UNCHANGED <<tree, entries, scanIndex, scan>> /\ ~Untouched' /\ present' \subseteq present
      BY <1>4 DEF OthersRemove, scanVars, Untouched
    <2> QED
      BY <1>0, <2>1, ListStays
  <1> QED
    BY <1>1, <1>2, <1>3, <1>4, WalkKeeps DEF Next, ScanWork

\* A complete list leads to every directory and file of the tree.
LEMMA ListLeadsEverywhere ==
  ASSUME ScanInv, scan = "Completed", Untouched
  PROVE  \A p \in DOMAIN tree : tree[p].type \in {"dir", "file"} =>
             \E i \in Indices(entries) :
                 /\ FullPath(entries, i) = p
                 /\ Entry(entries, i).type = tree[p].type
                 /\ i # 0 => Entry(entries, i).size = tree[p].size
  <1> DEFINE Leads(p) == \E i \in Indices(entries) :
                             /\ FullPath(entries, i) = p
                             /\ Entry(entries, i).type = tree[p].type
                             /\ i # 0 => Entry(entries, i).size = tree[p].size
             Bad == {p \in DOMAIN tree : tree[p].type \in {"dir", "file"} /\ ~Leads(p)}
             Lengths == {Len(p) : p \in Bad}
  <1> SUFFICES ASSUME Bad # {} PROVE FALSE
    OBVIOUS
  <1>0. tree \in Trees /\ present = DOMAIN tree /\ IsListing(entries) /\ scanIndex = Len(entries)
    BY DEF ScanInv, ListInv
  <1>1. \A p \in Bad : Len(p) \in Nat
    BY <1>0, NodeOK, LenProperties
  <1>2. Lengths \in SUBSET Nat /\ Lengths # {}
    BY <1>1
  <1>3. PICK n \in Lengths : \A k \in Lengths : n <= k
    <2> HIDE DEF Lengths
    <2> QED
      BY <1>2, LeastNat
  <1>4. PICK p \in Bad : Len(p) = n
    BY <1>3
  <1>5. p \in DOMAIN tree /\ tree[p].type \in {"dir", "file"} /\ ~Leads(p)
    BY <1>4
  <1>6. p # Root
    <2>1. 0 \in Indices(entries) /\ Entry(entries, 0) = RootEntry /\ FullPath(entries, 0) = Root
      <3>1. FullPath(entries, 0) = Root
        BY <1>0, FullPathIs
      <3>2. Len(entries) \in Nat /\ Len(entries) > 0 /\ entries[1] = RootEntry
        BY <1>0, LenProperties DEF IsListing
      <3> QED
        BY <3>1, <3>2 DEF Indices, Entry
    <2>2. tree[Root].type = "dir"
      BY <1>0, NodeOK
    <2>3. Leads(Root)
      BY <2>1, <2>2 DEF RootEntry
    <2> HIDE DEF Leads
    <2> QED
      BY <1>5, <2>3
  <1>7. /\ Parent(p) \in DOMAIN tree /\ tree[Parent(p)].type = "dir"
        /\ p = Append(Parent(p), Last(p)) /\ Len(Parent(p)) = Len(p) - 1 /\ Len(p) \in Nat
    BY <1>0, <1>5, <1>6, NodeOK
  <1>8. PICK i \in Indices(entries) : FullPath(entries, i) = Parent(p) /\ Entry(entries, i).type = "dir"
    <2>1. Parent(p) \notin Bad
      BY <1>3, <1>4, <1>7
    <2> QED
      BY <1>7, <2>1
  <1>9. Resolve(FullPath(entries, i)) = Parent(p)
    BY <1>0, <1>7, <1>8, ResolveDirect
  <1>10. PICK k \in Indices(entries) \ {0} : Entry(entries, k) = ChildEntry(p, i)
    <2>1. i < scanIndex
      BY <1>0, <1>8, LenProperties DEF Indices, IsListing
    <2>2. IsWalked(i)
      BY <1>8, <2>1 DEF ScanInv
    <2>3. p \in Children(Parent(p))
      BY <1>0, <1>5, <1>6 DEF Children
    <2> QED
      BY <1>9, <2>2, <2>3 DEF IsWalked
  <1>11. /\ Entry(entries, k).path = <<Last(p)>> /\ Entry(entries, k).type = tree[p].type
         /\ Entry(entries, k).size = tree[p].size /\ Entry(entries, k).parent = i
    BY <1>10 DEF ChildEntry, Listed
  <1>12. FullPath(entries, k) = p
    <2>1. PICK name \in STRING : /\ Entry(entries, k).path = <<name>>
                                 /\ FullPath(entries, k) = Append(FullPath(entries, i), name)
      BY <1>0, <1>10, <1>11, FullPathAppends
    <2>2. name = Last(p)
      BY <1>11, <2>1
    <2> QED
      BY <1>7, <1>8, <2>1, <2>2
  <1> QED
    BY <1>5, <1>10, <1>11, <1>12

-----------------------------------------------------------------------------
(* Where the entries lead. *)

Splits(s, x, t, y) == Append(s, x) = Append(t, y) => s = t /\ x = y

LEMMA AppendSplits == \A s, t \in Seq(STRING) : \A x, y : Splits(s, x, t, y)
  <1> SUFFICES ASSUME NEW s \in Seq(STRING), NEW t \in Seq(STRING), NEW x, NEW y,
                      Append(s, x) = Append(t, y)
               PROVE  s = t /\ x = y
    BY DEF Splits
  <1> DEFINE A == STRING \union {x, y}
  <1>1. s \in Seq(A) /\ t \in Seq(A) /\ x \in A /\ y \in A
    BY SeqMonotonic
  <1> HIDE DEF A
  <1>2. /\ Len(Append(s, x)) = Len(s) + 1 /\ \A i \in 1..Len(s) : Append(s, x)[i] = s[i]
        /\ Append(s, x)[Len(s) + 1] = x
    BY <1>1, AppendProperties
  <1>3. /\ Len(Append(t, y)) = Len(t) + 1 /\ \A i \in 1..Len(t) : Append(t, y)[i] = t[i]
        /\ Append(t, y)[Len(t) + 1] = y
    BY <1>1, AppendProperties
  <1>4. Len(s) \in Nat /\ Len(t) \in Nat
    BY LenProperties
  <1>5. Len(s) = Len(t)
    BY <1>2, <1>3, <1>4
  <1>6. s = t
    BY <1>2, <1>3, <1>5, SeqEqual
  <1> QED
    BY <1>2, <1>3, <1>6

Place(i) == FullPathRelative(entries, i)
Origin(i) == Resolve(FullPath(entries, i))

\* The node q is the one of the entry i.
IsNodeOf(q, i) ==
    LET parent == Entry(entries, i).parent
    IN  /\ q \in DOMAIN tree /\ Last(q) \in STRING
        /\ Entry(entries, i).type = tree[q].type /\ Entry(entries, i).size = tree[q].size
        /\ parent \in Indices(entries)
        /\ Parent(q) = Origin(parent)
        /\ FullPath(entries, i) = Append(FullPath(entries, parent), Last(q))
        /\ tree[q].type # "link" => Origin(i) = q

LEMMA EntryNode ==
  ASSUME ScanInv, Untouched, NEW i \in Indices(entries) \ {0}
  PROVE  \E q : IsNodeOf(q, i)
  <1>0. tree \in Trees /\ present = DOMAIN tree /\ IsListing(entries) /\ Len(entries) \in Nat
    BY LenProperties DEF ScanInv, ListInv, IsListing
  <1> DEFINE parent == Entry(entries, i).parent
  <1>1. PICK q \in Children(Origin(parent)) : Entry(entries, i) = ChildEntry(q, parent)
    BY DEF ScanInv, NamesAChild, Origin
  <1>2. /\ q \in DOMAIN tree /\ q # Root /\ Parent(q) = Origin(parent)
        /\ Last(q) \in STRING /\ q = Append(Parent(q), Last(q))
    BY <1>0, <1>1, NodeOK DEF Children
  <1>3. /\ Entry(entries, i).type = tree[q].type /\ Entry(entries, i).size = tree[q].size
        /\ Entry(entries, i).path = <<Last(q)>>
    BY <1>1 DEF ChildEntry, Listed
  <1>4. parent \in Indices(entries)
    BY <1>0 DEF IsListing, EntryListed, Indices
  <1>5. FullPath(entries, i) = Append(FullPath(entries, parent), Last(q))
    <2>1. PICK name \in STRING : /\ Entry(entries, i).path = <<name>>
                                 /\ FullPath(entries, i) = Append(FullPath(entries, parent), name)
      BY <1>0, FullPathAppends
    <2>2. name = Last(q)
      BY <1>3, <2>1
    <2> QED
      BY <2>1, <2>2
  <1>6. Origin(i) = Follow(q)
    <2>1. FullPath(entries, parent) \in Seq(STRING)
      BY <1>0, <1>4, FullPathAppends
    <2>2. Resolve(Append(FullPath(entries, parent), Last(q)))
              = Follow(Append(Resolve(FullPath(entries, parent)), Last(q)))
      BY <1>2, <2>1, ResolveAppends
    <2> QED
      BY <1>2, <1>5, <2>2 DEF Origin
  <1>7. tree[q].type # "link" => Origin(i) = q
    BY <1>6 DEF Follow
  <1> QED
    BY <1>2, <1>3, <1>4, <1>5, <1>7 DEF IsNodeOf

\* The path of an entry splits where its relative path does.
LEMMA PlaceSplits ==
  ASSUME ScanInv, Untouched, NEW i \in Indices(entries) \ {0}, NEW q, IsNodeOf(q, i)
  PROVE  /\ Place(i) \in Seq(STRING) /\ Front(Place(i)) \in Seq(STRING)
         /\ Place(i) = Append(Front(Place(i)), Last(q)) /\ Last(Place(i)) = Last(q)
         /\ FullPath(entries, Entry(entries, i).parent) = Root \o Front(Place(i))
  <1> DEFINE parent == Entry(entries, i).parent
             up == Front(Place(i))
             name == Last(Place(i))
  <1>0. IsListing(entries)
    BY DEF ScanInv, ListInv
  <1>1. /\ Place(i) \in Seq(STRING) /\ Place(i) # <<>>
        /\ FullPath(entries, i) = Root \o Place(i)
    BY <1>0, RelativeIs DEF Place
  <1>2. up \in Seq(STRING) /\ name \in STRING /\ Place(i) = Append(up, name)
    BY <1>1, FrontAndLast
  <1>3. Root \in Seq(STRING) /\ FullPath(entries, parent) \in Seq(STRING)
    BY <1>0, RootIsPath, FullPathAppends DEF IsNodeOf
  <1> HIDE DEF up, name
  <1>4. Root \o up \in Seq(STRING) /\ Root \o Append(up, name) = Append(Root \o up, name)
    <2>1. Root \o up \in Seq(STRING) /\ <<name>> \in Seq(STRING)
      BY <1>2, <1>3, ConcatProperties, Single
    <2>2. Append(up, name) = up \o <<name>> /\ Append(Root \o up, name) = (Root \o up) \o <<name>>
      BY <1>2, <2>1, AppendIsConcat
    <2> QED
      BY <1>2, <1>3, <2>1, <2>2, ConcatAssociative
  <1>5. Append(Root \o up, name) = Append(FullPath(entries, parent), Last(q))
    BY <1>1, <1>2, <1>4 DEF IsNodeOf
  <1>6. Root \o up = FullPath(entries, parent) /\ name = Last(q)
    <2>1. Splits(Root \o up, name, FullPath(entries, parent), Last(q))
      BY <1>3, <1>4, AppendSplits
    <2> QED
      BY <1>5, <2>1 DEF Splits
  <1> QED
    BY <1>1, <1>2, <1>6 DEF up, name

\* No file has the name of the part file of another one in its directory.
PartNamesAreFree ==
    \A t \in Trees : \A p, q \in DOMAIN t :
        t[p].type = "file" /\ t[q].type = "file" /\ Parent(p) = Parent(q) =>
            Last(p) # PartOf(Last(q))

LEMMA PartIsFree ==
  ASSUME PartNamesAreFree, ScanInv, Untouched,
         NEW i \in Indices(entries) \ {0}, Entry(entries, i).type = "file",
         NEW b \in Indices(entries) \ {0}, Entry(entries, b).type = "file"
  PROVE  Place(i) # Append(Front(Place(b)), PartOf(Last(Place(b))))
  <1> SUFFICES ASSUME Place(i) = Append(Front(Place(b)), PartOf(Last(Place(b)))) PROVE FALSE
    OBVIOUS
  <1>1. PICK q : IsNodeOf(q, i)
    BY EntryNode
  <1>2. PICK r : IsNodeOf(r, b)
    BY EntryNode
  <1>3. /\ Front(Place(i)) \in Seq(STRING) /\ Place(i) = Append(Front(Place(i)), Last(q))
        /\ FullPath(entries, Entry(entries, i).parent) = Root \o Front(Place(i))
    BY <1>1, PlaceSplits
  <1>4. /\ Front(Place(b)) \in Seq(STRING) /\ Last(Place(b)) = Last(r)
        /\ FullPath(entries, Entry(entries, b).parent) = Root \o Front(Place(b))
    BY <1>2, PlaceSplits
  <1>5. Front(Place(i)) = Front(Place(b)) /\ Last(q) = PartOf(Last(r))
    <2>1. Splits(Front(Place(i)), Last(q), Front(Place(b)), PartOf(Last(r)))
      BY <1>3, <1>4, AppendSplits
    <2> QED
      BY <1>3, <1>4, <2>1 DEF Splits
  <1>6. Parent(q) = Parent(r)
    BY <1>1, <1>2, <1>3, <1>4, <1>5 DEF IsNodeOf, Origin
  <1> QED
    BY <1>1, <1>2, <1>5, <1>6 DEF IsNodeOf, PartNamesAreFree, ScanInv, ListInv

-----------------------------------------------------------------------------
(* The bulk download: what is behind it is in the target. *)

\* The entry was downloaded.
IsDone(i) ==
    /\ Entry(entries, i).type = "dir" =>
           Place(i) \in DOMAIN local /\ local[Place(i)] = Directory
    /\ Entry(entries, i).type = "file" =>
           Place(i) \in DOMAIN local /\ local[Place(i)] = Downloaded(Origin(i), Entry(entries, i).size)

\* Whatever was downloaded is where it belongs, but for the part file.
IsPlaced(q) ==
    local[q].of # <<>> =>
        Resolve(Root \o q) = local[q].of \/ (current.state = "Running" /\ q = PartPath)

UnderWay == listed /\ bulk \in {"Running", "Completed"}

Mirrored ==
    /\ bulkIndex \in 1..Len(entries)
    /\ bulk = "Completed" => bulkIndex = Len(entries) /\ current = NoDownload
    /\ <<>> \in DOMAIN local /\ local[<<>>] = Directory
    /\ \A i \in Indices(entries) \ {0} : i < bulkIndex => IsDone(i)
    /\ \A q \in DOMAIN local : IsPlaced(q)
    /\ current # NoDownload => current.of = Origin(bulkIndex)

MirrorInv ==
    /\ \A q \in DOMAIN local : local[q].type = "dir" => local[q] = Directory
    /\ bulk = "NotStarted" => \A q \in DOMAIN local : local[q].of = <<>>
    /\ UnderWay /\ Untouched => Mirrored

LEMMA PlacesStay ==
  ASSUME UNCHANGED <<tree, present, entries>>
  PROVE  /\ \A i : Place(i)' = Place(i) /\ Origin(i)' = Origin(i)
         /\ \A p : Resolve(p)' = Resolve(p)
  <1>1. \A p : Resolve(p)' = Resolve(p)
    BY ServerStays
  <1> QED
    BY <1>1 DEF Place, Origin

\* A bulk download that is not under way has nothing to show.
LEMMA NotUnderWay ==
  ASSUME MirrorInv, ~(UnderWay' /\ Untouched'), bulk' = "NotStarted" => bulk = "NotStarted",
         \A q \in DOMAIN local' : q \in DOMAIN local /\ local'[q] = local[q]
  PROVE  MirrorInv'
  BY DEF MirrorInv

LEMMA ScanLeavesMirror ==
  ASSUME MirrorInv, TornInv, ScanWork \/ CancelScan
  PROVE  MirrorInv'
  <1>1. UNCHANGED <<local, bulk>>
    BY DEF ScanWork, ScanStarts, ScanWalks, ScanFails, ScanCompletes, CancelScan, bulkVars
  <1>2. scan # "Completed"
    BY DEF ScanWork, ScanStarts, ScanWalks, ScanFails, ScanCompletes, CancelScan, Scanning, Over
  <1>3. bulk # "Running" /\ ~listed
    BY <1>2 DEF TornInv, TurnInv
  <1>4. listed' => ~Over(bulk)
    BY <1>3 DEF ScanWork, ScanStarts, ScanWalks, ScanFails, ScanCompletes, CancelScan
  <1>5. ~UnderWay'
    BY <1>1, <1>3, <1>4 DEF UnderWay, Over
  <1> QED
    BY <1>1, <1>5, NotUnderWay

LEMMA EndLeavesMirror ==
  ASSUME MirrorInv, BulkHasNothingToDo \/ BulkCannotStart \/ BulkCannotMakeDirectory
                    \/ BulkCannotOpenFile \/ DownloadFails \/ CancelBulk
  PROVE  MirrorInv'
  <1>1. bulk' # "NotStarted" /\ ~UnderWay'
    BY DEF BulkHasNothingToDo, BulkCannotStart, BulkCannotMakeDirectory, BulkCannotOpenFile,
           DownloadFails, CancelBulk, BulkFails, UnderWay, scanVars
  <1>2. local' = local \/ local' = CleanedUp
    BY DEF BulkHasNothingToDo, BulkCannotStart, BulkCannotMakeDirectory, BulkCannotOpenFile,
           DownloadFails, CancelBulk, BulkFails
  <1>3. \A q \in DOMAIN local' : q \in DOMAIN local /\ local'[q] = local[q]
    BY <1>2 DEF CleanedUp, Without
  <1> QED
    BY <1>1, <1>3, NotUnderWay

\* What is behind the bulk download is neither the part file nor the next entry.
LEMMA DoneIsNotPart ==
  ASSUME PartNamesAreFree, ScanInv, Untouched, MirrorInv, UnderWay, At("file"),
         Exists(PartPath) => local[PartPath].type = "file",
         NEW i \in Indices(entries) \ {0}, i < bulkIndex, Entry(entries, i).type \in {"dir", "file"}
  PROVE  Place(i) # PartPath
  <1>0. Mirrored /\ IsDone(i)
    BY DEF MirrorInv, Mirrored
  <1>1. CASE Entry(entries, i).type = "dir"
    <2>1. Exists(Place(i)) /\ local[Place(i)].type = "dir"
      BY <1>0, <1>1 DEF IsDone, Exists, Directory
    <2> QED
      BY <2>1
  <1>2. CASE Entry(entries, i).type = "file"
    <2>1. bulkIndex \in Indices(entries) \ {0}
      <3>1. Len(entries) \in Nat /\ bulkIndex \in 1..Len(entries) /\ bulkIndex < Len(entries)
        BY <1>0, LenProperties DEF At, Mirrored, ScanInv, ListInv, IsListing
      <3> QED
        BY <3>1 DEF Indices
    <2>2. Place(i) # Append(Front(Place(bulkIndex)), PartOf(Last(Place(bulkIndex))))
      BY <1>2, <2>1, PartIsFree DEF At
    <2> QED
      BY <2>2 DEF PartPath, LocalPath, Place
  <1> QED
    BY <1>1, <1>2

\* The part file is written.
LEMMA PartLeavesMirror ==
  ASSUME PartNamesAreFree, ScanInv, Untouched, MirrorInv, UnderWay, At("file"), current # NoDownload,
         Exists(PartPath) => local[PartPath].type = "file",
         UNCHANGED <<tree, present, entries, bulk, bulkIndex>>,
         current'.state = "Running", current'.of = current.of,
         NEW bytes, local' = With(PartPath, Downloaded(current.of, bytes))
  PROVE  MirrorInv'
  <1>0. Mirrored /\ bulk = "Running"
    BY DEF MirrorInv, At
  <1>1. UNCHANGED PartPath /\ \A i : UNCHANGED <<Place(i), Origin(i)>>
    BY PlacesStay DEF PartPath, LocalPath
  <1>2. ASSUME NEW q \in DOMAIN local, q # PartPath PROVE q \in DOMAIN local' /\ local'[q] = local[q]
    BY <1>2 DEF With
  <1>3. DOMAIN local' = DOMAIN local \union {PartPath}
        /\ local'[PartPath] = Downloaded(current.of, bytes)
    BY DEF With
  <1>4. ASSUME NEW i \in Indices(entries) \ {0}, i < bulkIndex PROVE IsDone(i)'
    <2>1. IsDone(i)
      BY <1>0, <1>4 DEF Mirrored
    <2>2. Entry(entries, i).type \in {"dir", "file"} => Place(i) # PartPath
      BY <1>4, DoneIsNotPart
    <2> QED
      BY <1>1, <1>2, <2>1, <2>2 DEF IsDone
  <1>5. ASSUME NEW q \in DOMAIN local' PROVE IsPlaced(q)'
    <2>1. CASE q = PartPath
      BY <1>1, <2>1 DEF IsPlaced
    <2>2. CASE q # PartPath
      <3>1. q \in DOMAIN local /\ local'[q] = local[q] /\ IsPlaced(q)
        BY <1>0, <1>2, <1>3, <1>5, <2>2 DEF Mirrored
      <3>2. Resolve(Root \o q)' = Resolve(Root \o q)
        BY PlacesStay
      <3> QED
        BY <2>2, <3>1, <3>2 DEF IsPlaced
    <2> QED
      BY <2>1, <2>2
  <1>6. <<>> \in DOMAIN local' /\ local'[<<>>] = Directory
    <2>1. <<>> # PartPath
      BY <1>0 DEF Mirrored, Exists, Directory
    <2> QED
      BY <1>0, <1>2, <2>1 DEF Mirrored
  <1>7. Mirrored'
    BY <1>0, <1>1, <1>4, <1>5, <1>6 DEF Mirrored
  <1>8. \A q \in DOMAIN local' : local'[q].type = "dir" => local'[q] = Directory
    BY <1>2, <1>3 DEF MirrorInv, Downloaded
  <1> QED
    BY <1>0, <1>7, <1>8 DEF MirrorInv

\* The part file is renamed.
LEMMA RenameLeavesMirror ==
  ASSUME PartNamesAreFree, ScanInv, Untouched, MirrorInv, TornInv, UnderWay, DownloadFinalizes
  PROVE  MirrorInv'
  <1>0. /\ Mirrored /\ bulk = "Running" /\ Len(entries) \in Nat /\ IsListing(entries)
        /\ bulkIndex \in Indices(entries) \ {0} /\ bulkIndex \in Nat
        /\ Entry(entries, bulkIndex).type = "file" /\ bulkIndex + 1 \in 1..Len(entries)
    <2>1. /\ Mirrored /\ bulk = "Running" /\ Len(entries) \in Nat /\ IsListing(entries)
          /\ bulkIndex \in 1..Len(entries) /\ bulkIndex < Len(entries)
          /\ Entry(entries, bulkIndex).type = "file"
      BY LenProperties DEF MirrorInv, Mirrored, DownloadFinalizes, At, ScanInv, ListInv, IsListing
    <2> QED
      BY <2>1 DEF Indices
  <1>1. /\ UNCHANGED <<tree, present, entries, bulk>> /\ bulkIndex' = bulkIndex + 1
        /\ current' = NoDownload /\ current.state = "Running" /\ current.received = current.size
    BY DEF DownloadFinalizes, world, scanVars
  <1>2. /\ current # NoDownload /\ current.of = Origin(bulkIndex) /\ At("file")
        /\ local[PartPath] = Downloaded(Origin(bulkIndex), current.size)
        /\ current.size = tree[Origin(bulkIndex)].size
        /\ Exists(PartPath) /\ local[PartPath].type = "file"
    <2>1. current # NoDownload
      BY <1>1 DEF NoDownload
    <2>2. current.of = Origin(bulkIndex)
      BY <1>0, <2>1 DEF Mirrored
    <2> QED
      BY <1>1, <2>1, <2>2 DEF TornInv, NestedInv, Exists, Downloaded
  <1>3. current.size = Entry(entries, bulkIndex).size
    <2>1. PICK q : IsNodeOf(q, bulkIndex)
      BY <1>0, EntryNode
    <2> QED
      BY <1>0, <1>2, <2>1 DEF IsNodeOf
  <1>4. LocalPath = Place(bulkIndex) /\ ~Exists(Place(bulkIndex))
    BY DEF LocalPath, Place, DownloadFinalizes, Blocked
  <1>5. /\ DOMAIN local' = (DOMAIN local \ {PartPath}) \union {Place(bulkIndex)}
        /\ local'[Place(bulkIndex)] = local[PartPath]
        /\ \A q \in DOMAIN local' : q # Place(bulkIndex) => local'[q] = local[q]
    BY <1>4 DEF DownloadFinalizes
  <1>6. ASSUME NEW q \in DOMAIN local, q # PartPath PROVE q \in DOMAIN local' /\ local'[q] = local[q]
    BY <1>4, <1>5, <1>6 DEF Exists
  <1>7. \A i : UNCHANGED <<Place(i), Origin(i)>>
    BY <1>1, PlacesStay
  <1>8. ASSUME NEW i \in Indices(entries) \ {0}, i < bulkIndex + 1 PROVE IsDone(i)'
    <2>1. CASE i = bulkIndex
      BY <1>0, <1>1, <1>2, <1>3, <1>5, <1>7, <2>1 DEF IsDone
    <2>2. CASE i < bulkIndex
      <3>1. IsDone(i)
        BY <1>0, <1>8, <2>2 DEF Mirrored
      <3>2. Entry(entries, i).type \in {"dir", "file"} => Place(i) # PartPath
        BY <1>2, <1>8, <2>2, DoneIsNotPart
      <3> QED
        BY <1>1, <1>6, <1>7, <3>1, <3>2 DEF IsDone
    <2>3. i \in Int
      BY <1>0, <1>8 DEF Indices
    <2> QED
      BY <1>0, <1>8, <2>1, <2>2, <2>3
  <1>9. ASSUME NEW q \in DOMAIN local' PROVE IsPlaced(q)'
    <2>0. Resolve(Root \o q)' = Resolve(Root \o q)
      BY <1>1, PlacesStay
    <2>1. CASE q = Place(bulkIndex)
      <3>1. FullPath(entries, bulkIndex) = Root \o Place(bulkIndex)
        BY <1>0, RelativeIs DEF Place
      <3>2. Resolve(Root \o q) = local'[q].of
        BY <1>2, <1>5, <2>1, <3>1 DEF Origin, Downloaded
      <3> QED
        BY <2>0, <3>2 DEF IsPlaced
    <2>2. CASE q # Place(bulkIndex)
      <3>1. q \in DOMAIN local /\ q # PartPath /\ local'[q] = local[q] /\ IsPlaced(q)
        BY <1>0, <1>5, <1>9, <2>2 DEF Mirrored
      <3> QED
        BY <2>0, <3>1 DEF IsPlaced
    <2> QED
      BY <2>1, <2>2
  <1>10. <<>> \in DOMAIN local' /\ local'[<<>>] = Directory
    <2>1. <<>> # PartPath
      BY <1>0, <1>2 DEF Mirrored, Directory
    <2> QED
      BY <1>0, <1>6, <2>1 DEF Mirrored
  <1>11. Mirrored'
    <2>1. bulk' # "Completed" /\ Indices(entries)' = Indices(entries)
      BY <1>0, <1>1
    <2>2. \A i \in Indices(entries) \ {0} : i < bulkIndex' => IsDone(i)'
      BY <1>1, <1>8
    <2> QED
      BY <1>0, <1>1, <1>9, <1>10, <2>1, <2>2 DEF Mirrored
  <1>12. \A q \in DOMAIN local' : local'[q].type = "dir" => local'[q] = Directory
    <2>1. local'[Place(bulkIndex)].type = "file"
      BY <1>2, <1>5
    <2> QED
      BY <1>5, <2>1 DEF MirrorInv
  <1> QED
    BY <1>0, <1>1, <1>11, <1>12 DEF MirrorInv

\* Directories are made, and nothing else changes in the target.
LEMMA MadeAll ==
  ASSUME MirrorInv, NEW p \in Seq(STRING), MayMake(p), local' = Made(p)
  PROVE  /\ p \in DOMAIN local' /\ local'[p] = Directory
         /\ \A q \in DOMAIN local : q \in DOMAIN local' /\ local'[q] = local[q]
         /\ \A q \in DOMAIN local' : local'[q] = Directory \/ (q \in DOMAIN local /\ local'[q] = local[q])
         /\ \A q \in DOMAIN local' : local'[q].type = "dir" => local'[q] = Directory
  <1>1. p \in Ancestry(p)
    <2>0. Len(p) \in Nat
      BY LenProperties
    <2>1. SubSeq(p, 1, Len(p)) = p
      <3>0. \A k \in 1..Len(p) : p[k] \in STRING
        BY ElementOfSeq
      <3>1. /\ SubSeq(p, 1, Len(p)) \in Seq(STRING)
            /\ Len(SubSeq(p, 1, Len(p))) = IF 1 <= Len(p) THEN Len(p) - 1 + 1 ELSE 0
            /\ \A k \in 1..(Len(p) - 1 + 1) : SubSeq(p, 1, Len(p))[k] = p[1 + k - 1]
        BY <2>0, <3>0, SubSeqProperties
      <3>2. Len(SubSeq(p, 1, Len(p))) = Len(p)
            /\ \A k \in 1..Len(p) : SubSeq(p, 1, Len(p))[k] = p[k]
        BY <2>0, <3>1
      <3> QED
        BY <3>1, <3>2, SeqEqual
    <2>2. PICK n \in 0..Len(p) : SubSeq(p, 1, n) = p
      <3>1. Len(p) \in 0..Len(p)
        BY <2>0
      <3> QED
        BY <2>1, <3>1, Zenon
    <2> QED
      BY <2>2 DEF Ancestry
  <1>2. Exists(p) => local[p] = Directory
    BY <1>1 DEF MayMake, MirrorInv, Exists
  <1> QED
    BY <1>1, <1>2 DEF Made, Exists, MirrorInv

\* What was there stays, and what comes was not downloaded.
LEMMA OthersLeaveMirror ==
  ASSUME ScanInv, MirrorInv, UNCHANGED <<tree, present, entries, listed, current>>,
         Untouched' => Untouched, bulk' = "NotStarted" => bulk = "NotStarted",
         \A q \in DOMAIN local : q \in DOMAIN local' /\ local'[q] = local[q],
         \A q \in DOMAIN local' \ DOMAIN local : local'[q].of = <<>>,
         \A q \in DOMAIN local' : local'[q].type = "dir" => local'[q] = Directory,
         UnderWay' /\ Untouched' =>
             /\ UnderWay /\ bulkIndex' \in Nat /\ bulkIndex \in Nat
             /\ bulkIndex' = bulkIndex
                \/ /\ bulk = "Running" /\ current = NoDownload
                   /\ bulkIndex' = bulkIndex + 1 /\ bulkIndex < Len(entries)
                   /\ Entry(entries, bulkIndex).type = "dir" =>
                          Place(bulkIndex) \in DOMAIN local' /\ local'[Place(bulkIndex)] = Directory
                   /\ Entry(entries, bulkIndex).type # "file"
             /\ bulk' = bulk \/ (bulk' = "Completed" /\ bulkIndex' = Len(entries) /\ current = NoDownload)
  PROVE  MirrorInv'
  <1>1. bulk' = "NotStarted" => \A q \in DOMAIN local' : local'[q].of = <<>>
    BY DEF MirrorInv
  <1>2. ASSUME UnderWay', Untouched' PROVE Mirrored'
    <2>0. /\ Mirrored /\ Untouched /\ Len(entries) \in Nat
          /\ bulkIndex \in 1..Len(entries) /\ bulkIndex' \in Nat
      BY <1>2, LenProperties DEF MirrorInv, Mirrored, ScanInv, ListInv, IsListing
    <2>1. \A i : UNCHANGED <<Place(i), Origin(i), Entry(entries, i)>>
      BY PlacesStay
    <2>2. ASSUME NEW i \in Indices(entries) \ {0}, i < bulkIndex PROVE IsDone(i)'
      BY <2>0, <2>1, <2>2 DEF Mirrored, IsDone
    <2>3. ASSUME NEW i \in Indices(entries) \ {0}, i < bulkIndex' PROVE IsDone(i)'
      <3>1. CASE i < bulkIndex
        BY <2>2, <3>1
      <3>2. CASE ~(i < bulkIndex)
        <4>1. i \in Int
          BY <2>0, <2>3 DEF Indices
        <4>2. i = bulkIndex /\ Entry(entries, i).type # "file"
              /\ (Entry(entries, i).type = "dir" => Place(i) \in DOMAIN local' /\ local'[Place(i)] = Directory)
          BY <1>2, <2>0, <2>3, <3>2, <4>1
        <4> QED
          BY <2>1, <4>2 DEF IsDone
      <3> QED
        BY <3>1, <3>2
    <2>4. PartPath' = PartPath \/ current.state # "Running"
      <3>1. bulkIndex' = bulkIndex \/ current = NoDownload
        BY <1>2
      <3> QED
        BY <3>1 DEF PartPath, LocalPath, NoDownload
    <2>5. ASSUME NEW q \in DOMAIN local' PROVE IsPlaced(q)'
      <3>1. CASE q \in DOMAIN local
        <4>1. IsPlaced(q) /\ local'[q] = local[q] /\ Resolve(Root \o q)' = Resolve(Root \o q)
          BY <2>0, <3>1, PlacesStay DEF Mirrored
        <4> QED
          BY <2>4, <4>1 DEF IsPlaced
      <3>2. CASE q \notin DOMAIN local
        BY <2>5, <3>2 DEF IsPlaced
      <3> QED
        BY <3>1, <3>2
    <2>6. bulkIndex' \in 1..Len(entries)
          /\ (bulk' = "Completed" => bulkIndex' = Len(entries) /\ current = NoDownload)
      BY <1>2, <2>0 DEF Mirrored
    <2>7. current # NoDownload => current.of = Origin(bulkIndex')
      BY <1>2, <2>0 DEF Mirrored
    <2>8. \A i \in Indices(entries) \ {0} : i < bulkIndex' => IsDone(i)'
      BY <2>3
    <2>9. <<>> \in DOMAIN local' /\ local'[<<>>] = Directory
      BY <2>0 DEF Mirrored
    <2>10. Indices(entries)' = Indices(entries) /\ (current # NoDownload => current'.of = Origin(bulkIndex)')
      BY <2>7, PlacesStay DEF Origin
    <2> QED
      BY <2>5, <2>6, <2>8, <2>9, <2>10 DEF Mirrored
  <1> QED
    BY <1>1, <1>2 DEF MirrorInv

\* The bulk download begins with the target directory.
LEMMA StartLeavesMirror ==
  ASSUME ScanInv, MirrorInv, TornInv, BulkStarts
  PROVE  MirrorInv'
  <1>1. /\ UNCHANGED <<tree, present, entries, listed, happened, current>> /\ bulk = "NotStarted"
        /\ bulk' = "Running" /\ bulkIndex' = 1 /\ MayMake(<<>>) /\ local' = Made(<<>>)
        /\ Len(entries) \in Nat /\ Len(entries) > 0
    BY LenProperties DEF BulkStarts, MayStart, world, scanVars, ScanInv, ListInv, IsListing
  <1>2. current = NoDownload
    BY <1>1 DEF TornInv, NestedInv, At
  <1>3. <<>> \in Seq(STRING)
    BY EmptySeq
  <1>4. /\ <<>> \in DOMAIN local' /\ local'[<<>>] = Directory
        /\ \A q \in DOMAIN local' : local'[q] = Directory \/ (q \in DOMAIN local /\ local'[q] = local[q])
        /\ \A q \in DOMAIN local' : local'[q].type = "dir" => local'[q] = Directory
    BY <1>1, <1>3, MadeAll
  <1>5. \A q \in DOMAIN local' : local'[q].of = <<>>
    BY <1>1, <1>4 DEF MirrorInv, Directory
  <1>6. Mirrored'
    <2>1. \A i \in Indices(entries)' \ {0} : ~(i < bulkIndex')
      BY <1>1 DEF Indices
    <2> QED
      BY <1>1, <1>2, <1>4, <1>5, <2>1 DEF Mirrored, IsPlaced
  <1> QED
    BY <1>1, <1>4, <1>6 DEF MirrorInv

\* The remote file of the next entry is opened.
LEMMA OpenLeavesMirror ==
  ASSUME MirrorInv, BulkOpensFile
  PROVE  MirrorInv'
  <1>1. /\ UNCHANGED <<tree, present, entries, listed, happened, local, bulk, bulkIndex>>
        /\ bulk = "Running" /\ current.state = "None" /\ current'.state = "NotStarted"
        /\ current'.of = Origin(bulkIndex)
    BY DEF BulkOpensFile, At, world, scanVars, NoDownload, Opened, Origin
  <1>2. ASSUME UnderWay', Untouched' PROVE Mirrored'
    <2>0. Mirrored
      BY <1>1, <1>2 DEF MirrorInv, UnderWay, Untouched
    <2>1. \A i : UNCHANGED <<Place(i), Origin(i), Entry(entries, i)>>
      BY <1>1, PlacesStay
    <2>2. \A i \in Indices(entries) \ {0} : i < bulkIndex => IsDone(i)'
      BY <1>1, <2>0, <2>1 DEF Mirrored, IsDone
    <2>3. ASSUME NEW q \in DOMAIN local PROVE IsPlaced(q)'
      <3>1. Resolve(Root \o q)' = Resolve(Root \o q)
        BY <1>1, PlacesStay
      <3> QED
        BY <1>1, <2>0, <2>3, <3>1 DEF Mirrored, IsPlaced
    <2> QED
      BY <1>1, <2>0, <2>1, <2>2, <2>3 DEF Mirrored
  <1> QED
    BY <1>1, <1>2 DEF MirrorInv

\* Directories are made, links are passed over, and the last entry is the end.
LEMMA AdvanceLeavesMirror ==
  ASSUME ScanInv, MirrorInv, TornInv, BulkEnds \/ BulkMakesDirectory \/ BulkSkips
  PROVE  MirrorInv'
  <1>1. /\ UNCHANGED <<tree, present, entries, listed, current>> /\ (Untouched' => Untouched)
        /\ bulk = "Running" /\ UnderWay /\ current = NoDownload
        /\ IsListing(entries) /\ Len(entries) \in Nat
    BY LenProperties
       DEF BulkEnds, BulkMakesDirectory, BulkSkips, At, world, scanVars, Untouched, UnderWay,
           TornInv, TurnInv, NestedInv, ScanInv, ListInv, IsListing
  <1>2. Untouched => bulkIndex \in 1..Len(entries)
    BY <1>1 DEF MirrorInv, Mirrored
  <1>3. CASE BulkEnds
    <2>1. UNCHANGED <<local, bulkIndex>> /\ bulk' = "Completed" /\ bulkIndex = Len(entries)
      BY <1>3 DEF BulkEnds
    <2>2. \A q \in DOMAIN local' : local'[q].type = "dir" => local'[q] = Directory
      BY <2>1 DEF MirrorInv
    <2> QED
      BY <1>1, <1>2, <2>1, <2>2, OthersLeaveMirror
  <1>4. CASE BulkMakesDirectory
    <2>1. /\ bulk' = bulk /\ bulkIndex' = bulkIndex + 1 /\ bulkIndex < Len(entries)
          /\ Entry(entries, bulkIndex).type = "dir"
          /\ MayMake(Place(bulkIndex)) /\ local' = Made(Place(bulkIndex))
      BY <1>4 DEF BulkMakesDirectory, At, LocalPath, Place
    <2>2. CASE ~Untouched
      <3>1. /\ \A q \in DOMAIN local : q \in DOMAIN local' /\ local'[q] = local[q]
            /\ \A q \in DOMAIN local' \ DOMAIN local : local'[q] = Directory
        BY <2>1 DEF Made, Exists
      <3>2. \A q \in DOMAIN local' : local'[q].type = "dir" => local'[q] = Directory
        BY <3>1 DEF MirrorInv
      <3> QED
        BY <1>1, <2>1, <2>2, <3>1, <3>2, OthersLeaveMirror DEF Directory
    <2>3. CASE Untouched
      <3>1. bulkIndex \in Indices(entries) \ {0} /\ bulkIndex \in Nat
        BY <1>1, <1>2, <2>1, <2>3 DEF Indices
      <3>2. Place(bulkIndex) \in Seq(STRING)
        BY <1>1, <3>1, RelativeIs DEF Place
      <3>3. /\ Place(bulkIndex) \in DOMAIN local' /\ local'[Place(bulkIndex)] = Directory
            /\ \A q \in DOMAIN local : q \in DOMAIN local' /\ local'[q] = local[q]
            /\ \A q \in DOMAIN local' : local'[q] = Directory \/ (q \in DOMAIN local /\ local'[q] = local[q])
            /\ \A q \in DOMAIN local' : local'[q].type = "dir" => local'[q] = Directory
        BY <2>1, <3>2, MadeAll
      <3>4. \A q \in DOMAIN local' \ DOMAIN local : local'[q].of = <<>>
        BY <3>3 DEF Directory
      <3> QED
        BY <1>1, <2>1, <3>1, <3>3, <3>4, OthersLeaveMirror
    <2> QED
      BY <2>2, <2>3
  <1>5. CASE BulkSkips
    <2>1. /\ UNCHANGED <<local, bulk>> /\ bulkIndex' = bulkIndex + 1 /\ bulkIndex < Len(entries)
          /\ Entry(entries, bulkIndex).type \notin {"dir", "file"}
      BY <1>5 DEF BulkSkips
    <2>2. \A q \in DOMAIN local' : local'[q].type = "dir" => local'[q] = Directory
      BY <2>1 DEF MirrorInv
    <2> QED
      BY <1>1, <1>2, <2>1, <2>2, OthersLeaveMirror
  <1> QED
    BY <1>3, <1>4, <1>5

LEMMA TailOfRoot ==
  ASSUME NEW q \in Seq(STRING), Root \in Seq(STRING)
  PROVE  Tail(Root \o q) = q
  <1>1. Len(Root) = 1
    BY DEF Root
  <1>2. /\ Root \o q \in Seq(STRING) /\ Len(Root \o q) = 1 + Len(q) /\ Len(q) \in Nat
        /\ \A i \in 1..(1 + Len(q)) : (Root \o q)[i] = IF i <= 1 THEN Root[i] ELSE q[i - 1]
    <2>1. /\ Root \o q \in Seq(STRING) /\ Len(Root \o q) = Len(Root) + Len(q)
          /\ \A i \in 1..(Len(Root) + Len(q)) :
                 (Root \o q)[i] = IF i <= Len(Root) THEN Root[i] ELSE q[i - Len(Root)]
      BY ConcatProperties
    <2>2. Len(q) \in Nat
      BY LenProperties
    <2> QED
      BY <1>1, <2>1, <2>2
  <1>3. Root \o q # <<>>
    BY <1>2, EmptySeq
  <1> DEFINE t == Tail(Root \o q)
  <1>4. t \in Seq(STRING) /\ Len(t) = Len(q) /\ \A i \in 1..Len(q) : t[i] = (Root \o q)[i + 1]
    BY <1>2, <1>3, HeadTailProperties
  <1> HIDE DEF t
  <1>5. ASSUME NEW i \in 1..Len(q) PROVE t[i] = q[i]
    <2>1. i + 1 \in 1..(1 + Len(q)) /\ ~(i + 1 <= 1) /\ (i + 1) - 1 = i
      BY <1>2, <1>5
    <2> QED
      BY <1>2, <1>4, <1>5, <2>1
  <1> QED
    BY <1>4, <1>5, SeqEqual DEF t

\* In the beginning there is the root.
LEMMA InitScan == Init => ScanInv
  <1> SUFFICES ASSUME Init PROVE ScanInv
    OBVIOUS
  <1>1. tree \in Trees /\ present = DOMAIN tree /\ entries = <<RootEntry>> /\ scanIndex = 0
        /\ scan = "NotStarted"
    BY DEF Init
  <1>2. Root \in Seq(STRING)
    BY <1>1, NodeOK
  <1>3. RootEntry \in EntryRecords
    BY <1>2 DEF RootEntry, EntryRecords, NodeTypes, NoParent
  <1>4. entries \in Seq(EntryRecords) /\ Len(entries) = 1 /\ entries[1] = RootEntry
    BY <1>1, <1>3, Single
  <1>5. Indices(entries) \ {0} = {} /\ IsListing(entries)
    BY <1>4 DEF Indices, IsListing
  <1>6. \A i \in Indices(entries) : ~(i < scanIndex)
    BY <1>1, <1>4 DEF Indices
  <1> QED
    BY <1>1, <1>4, <1>5, <1>6 DEF ScanInv, ListInv

LEMMA MirrorStep ==
  ASSUME PartNamesAreFree
  PROVE  ScanInv /\ TornInv /\ MirrorInv /\ [Next]_vars => MirrorInv'
  <1> SUFFICES ASSUME ScanInv, TornInv, MirrorInv, [Next]_vars PROVE MirrorInv'
    OBVIOUS
  <1>0. UnderWay /\ Untouched => bulkIndex \in Nat
    <2>1. Len(entries) \in Nat
      BY LenProperties DEF ScanInv, ListInv, IsListing
    <2> QED
      BY <2>1 DEF MirrorInv, Mirrored
  <1>1. CASE UNCHANGED vars
    <2>1. /\ UNCHANGED <<tree, present, entries, listed, current, local, bulk, bulkIndex>>
          /\ (Untouched' => Untouched) /\ (UnderWay' => UnderWay)
      BY <1>1 DEF vars, world, scanVars, bulkVars, Untouched, UnderWay
    <2>2. \A q \in DOMAIN local' : local'[q].type = "dir" => local'[q] = Directory
      BY <2>1 DEF MirrorInv
    <2> QED
      BY <1>0, <2>1, <2>2, OthersLeaveMirror
  <1>2. CASE OthersRemove
    <2>1. UNCHANGED <<local, bulk>> /\ ~Untouched'
      BY <1>2 DEF OthersRemove, bulkVars, Untouched
    <2> QED
      BY <2>1, NotUnderWay
  <1>3. CASE OthersCreate
    <2>1. PICK p : ~Exists(p) /\ local' = With(p, ForeignFile)
      BY <1>3 DEF OthersCreate
    <2>2. /\ UNCHANGED <<tree, present, entries, listed, current, bulk, bulkIndex>>
          /\ (Untouched' => Untouched) /\ (UnderWay' => UnderWay)
      BY <1>3 DEF OthersCreate, world, scanVars, bulkVars, Untouched, UnderWay
    <2>3. \A q \in DOMAIN local : q \in DOMAIN local' /\ local'[q] = local[q]
      BY <2>1 DEF With, Exists
    <2>4. \A q \in DOMAIN local' \ DOMAIN local : local'[q] = ForeignFile
      BY <2>1 DEF With, Exists
    <2>5. \A q \in DOMAIN local' \ DOMAIN local : local'[q].of = <<>> /\ local'[q].type # "dir"
      BY <2>4 DEF ForeignFile
    <2>6. \A q \in DOMAIN local' : local'[q].type = "dir" => local'[q] = Directory
      BY <2>3, <2>5 DEF MirrorInv
    <2> QED
      BY <1>0, <2>2, <2>3, <2>5, <2>6, OthersLeaveMirror
  <1>4. CASE DownloadPrepares \/ \E n \in 1..BufferSize : DownloadReads(n)
    <2>1. /\ UNCHANGED <<tree, present, entries, listed, happened, bulk, bulkIndex>>
          /\ At("file") /\ current # NoDownload /\ current'.state = "Running"
          /\ current'.of = current.of
          /\ \E bytes : local' = With(PartPath, Downloaded(current.of, bytes))
          /\ (Exists(PartPath) => local[PartPath].type = "file")
      <3>1. DOMAIN current = DOMAIN NoDownload
        BY DEF TornInv, NestedInv, NoDownload
      <3>2. ASSUME current.state # "None" PROVE current # NoDownload
        BY <3>2 DEF NoDownload
      <3>3. current.state = "Running" => Exists(PartPath) /\ local[PartPath].type = "file"
        BY DEF TornInv, NestedInv, Exists, Downloaded
      <3> QED
        BY <1>4, <3>1, <3>2, <3>3
           DEF DownloadPrepares, DownloadReads, MayOpenPart, world, scanVars, NoDownload
    <2>2. UnderWay
      BY <2>1 DEF At, UnderWay, TornInv, TurnInv
    <2>3. CASE Untouched
      BY <2>1, <2>2, <2>3, PartLeavesMirror
    <2>4. CASE ~Untouched
      <3>1. ~Untouched' /\ bulk' # "NotStarted"
        BY <2>1, <2>4 DEF Untouched, At
      <3>2. \A q \in DOMAIN local' : local'[q].type = "dir" => local'[q] = Directory
        BY <2>1 DEF With, Downloaded, MirrorInv
      <3> QED
        BY <3>1, <3>2 DEF MirrorInv
    <2> QED
      BY <2>3, <2>4
  <1>5. CASE DownloadFinalizes
    <2>1. UnderWay
      BY <1>5 DEF DownloadFinalizes, At, UnderWay, TornInv, TurnInv
    <2>2. CASE Untouched
      BY <1>5, <2>1, <2>2, RenameLeavesMirror
    <2>3. CASE ~Untouched
      <3>1. ~Untouched' /\ bulk' # "NotStarted"
        BY <1>5, <2>3 DEF DownloadFinalizes, At, Untouched
      <3>2. local[PartPath].type = "file"
        BY <1>5 DEF DownloadFinalizes, TornInv, NestedInv, Downloaded
      <3>3. \A q \in DOMAIN local' : local'[q].type = "dir" => local'[q] = Directory
        BY <1>5, <3>2 DEF DownloadFinalizes, MirrorInv
      <3> QED
        BY <3>1, <3>3 DEF MirrorInv
    <2> QED
      BY <2>2, <2>3
  <1> QED
    BY <1>1, <1>2, <1>3, <1>4, <1>5, ScanLeavesMirror, EndLeavesMirror, StartLeavesMirror,
       OpenLeavesMirror, AdvanceLeavesMirror
    DEF Next, BulkWork, DownloadWork

LEMMA MirrorsWhenOver ==
  ASSUME ScanInv, TornInv, MirrorInv
  PROVE  MirrorsRemote
  <1> SUFFICES ASSUME scan = "Completed", bulk = "Completed", listed, Untouched
               PROVE  /\ \A p \in DOMAIN tree : tree[p].type \in {"dir", "file"} =>
                             /\ Exists(Tail(p))
                             /\ local[Tail(p)] = IF tree[p].type = "dir" THEN Directory
                                                 ELSE Downloaded(p, tree[p].size)
                      /\ \A q \in DOMAIN local : local[q].of # <<>> => Resolve(Root \o q) = local[q].of
    BY DEF MirrorsRemote, Untouched
  <1>0. /\ Mirrored /\ tree \in Trees /\ IsListing(entries) /\ Len(entries) \in Nat
        /\ bulkIndex = Len(entries) /\ current = NoDownload
    BY LenProperties DEF MirrorInv, Mirrored, UnderWay, ScanInv, ListInv, IsListing
  <1>1. ASSUME NEW p \in DOMAIN tree, tree[p].type \in {"dir", "file"}
        PROVE  /\ Exists(Tail(p))
               /\ local[Tail(p)] = IF tree[p].type = "dir" THEN Directory ELSE Downloaded(p, tree[p].size)
    <2>1. PICK i \in Indices(entries) : /\ FullPath(entries, i) = p
                                        /\ Entry(entries, i).type = tree[p].type
                                        /\ i # 0 => Entry(entries, i).size = tree[p].size
      BY <1>1, ListLeadsEverywhere
    <2>2. CASE i = 0
      <3>1. p = Root /\ tree[p].type = "dir"
        BY <1>0, <2>1, <2>2, FullPathIs, NodeOK
      <3>2. Tail(Root) = <<>>
        BY DEF Root
      <3> QED
        BY <1>0, <3>1, <3>2 DEF Mirrored, Exists
    <2>3. CASE i # 0
      <3>1. IsDone(i)
        BY <1>0, <2>1, <2>3 DEF Mirrored, Indices
      <3>2. Place(i) \in Seq(STRING) /\ p = Root \o Place(i)
        BY <1>0, <2>1, <2>3, RelativeIs DEF Place
      <3>3. Tail(p) = Place(i)
        <4>1. Tail(Root \o Place(i)) = Place(i)
          BY <1>0, <3>2, RootIsPath, TailOfRoot
        <4> QED
          BY <3>2, <4>1
      <3>4. tree[p].type = "file" => Origin(i) = p
        BY <1>0, <1>1, <2>1, ResolveDirect DEF Origin
      <3> QED
        BY <1>1, <2>1, <2>3, <3>1, <3>3, <3>4 DEF IsDone, Exists
    <2> QED
      BY <2>2, <2>3
  <1>2. ASSUME NEW q \in DOMAIN local, local[q].of # <<>> PROVE Resolve(Root \o q) = local[q].of
    BY <1>0, <1>2 DEF Mirrored, IsPlaced, NoDownload
  <1> QED
    BY <1>1, <1>2

(* A directory is mirrored: when scan and bulk download are completed and    *)
(* nobody removed anything remotely, every directory and every whole file   *)
(* of the tree is at its place in the target, whatever the order of the     *)
(* listings, whoever else creates files there, and whatever links there     *)
(* are.  No file may have the name of the part file of another one in its   *)
(* directory: it would be overwritten.                                      *)
THEOREM DownloadMirrors ==
  ASSUME PartNamesAreFree
  PROVE  Spec => []MirrorsRemote
  <1>1. Init => ScanInv
    BY InitScan
  <1>2. Init => TornInv
    BY DEF Init, TornInv, TurnInv, NestedInv, NoDownload, Directory, Whole
  <1>3. Init => MirrorInv
    BY DEF Init, MirrorInv, UnderWay, Directory
  <1>4. ScanInv /\ TornInv /\ MirrorInv => MirrorsRemote
    BY MirrorsWhenOver
  <1>5. ScanInv /\ TornInv /\ MirrorInv /\ [Next]_vars => ScanInv' /\ TornInv' /\ MirrorInv'
    BY ScanStep, TornStep, MirrorStep
  <1> QED
    BY <1>1, <1>2, <1>3, <1>4, <1>5, PTL DEF Spec

-----------------------------------------------------------------------------
(* The listing: every node once, and the bytes of all files. *)

SizeOf(es) == [i \in Indices(es) |-> Entry(es, i).size]

LEMMA SizesAreNat ==
  ASSUME NEW es \in Seq(EntryRecords)
  PROVE  \A i \in Indices(es) : SizeOf(es)[i] \in Nat
  <1> SUFFICES ASSUME NEW i \in Indices(es) PROVE SizeOf(es)[i] \in Nat
    OBVIOUS
  <1>1. Entry(es, i) \in EntryRecords
    <2>1. i + 1 \in 1..Len(es)
      BY LenProperties DEF Indices
    <2> QED
      BY <2>1, ElementOfSeq DEF Entry
  <1> QED
    BY <1>1 DEF SizeOf, EntryRecords

LEMMA BytesAre ==
  ASSUME NEW es, NEW from \in Int, NEW to \in Int, from..(to - 1) \subseteq Indices(es)
  PROVE  BytesOf(es, from, to) = Total(SizeOf(es), from..(to - 1))
  <1> DEFINE S == from..(to - 1)
             F == CHOOSE f : f = [s \in SUBSET S |->
                      IF s = {} THEN 0 ELSE Entry(es, Chosen(s)).size + f[s \ {Chosen(s)}]]
  <1>0. IsFiniteSet(S)
    BY FS_Interval
  <1>1. \A s \in SUBSET S : s # {} => Chosen(s) \in S /\ SizeOf(es)[Chosen(s)] = Entry(es, Chosen(s)).size
    <2> SUFFICES ASSUME NEW s \in SUBSET S, s # {}
                 PROVE  Chosen(s) \in S /\ SizeOf(es)[Chosen(s)] = Entry(es, Chosen(s)).size
      OBVIOUS
    <2> HIDE DEF S
    <2>1. Chosen(s) \in S
      BY <1>0, FS_Subset, WithoutChosen
    <2> QED
      BY <2>1 DEF SizeOf, S
  <1>2. BytesOf(es, from, to) = F[S]
    BY DEF BytesOf, MapThenSumSet, MapThenFoldSet, Chosen
  <1> HIDE DEF S
  <1>3. PICK f : SumsOf(SizeOf(es), SUBSET S, f)
    BY <1>0, SumsExist
  <1>4. f = [s \in SUBSET S |-> IF s = {} THEN 0 ELSE Entry(es, Chosen(s)).size + f[s \ {Chosen(s)}]]
    BY <1>1, <1>3 DEF SumsOf
  <1>5. F = [s \in SUBSET S |-> IF s = {} THEN 0 ELSE Entry(es, Chosen(s)).size + F[s \ {Chosen(s)}]]
    BY <1>4
  <1> HIDE DEF F
  <1>6. SumsOf(SizeOf(es), SUBSET S, F)
    BY <1>1, <1>5 DEF SumsOf
  <1>7. Total(SizeOf(es), S) = F[S]
    BY <1>0, <1>6, TotalIs
  <1> QED
    BY <1>2, <1>7 DEF S

FilesBefore(es, n) == {i \in Indices(es) : i < n /\ Entry(es, i).type = "file"}

\* The files the walk passed over are counted.
CountInv ==
    /\ scanIndex < Len(entries) => Entry(entries, scanIndex).type # "file"
    /\ totalBytes = Total(SizeOf(entries), FilesBefore(entries, scanIndex))

LEMMA WalkExtends ==
  ASSUME ScanInv, ScanWalks
  PROVE  /\ entries' \in Seq(EntryRecords) /\ Len(entries') \in Nat /\ Len(entries) <= Len(entries')
         /\ \A i \in Indices(entries) : i \in Indices(entries') /\ Entry(entries', i) = Entry(entries, i)
  <1>0. tree \in Trees /\ present \subseteq DOMAIN tree /\ entries \in Seq(EntryRecords)
        /\ scanIndex \in Nat /\ Len(entries) \in Nat
    BY LenProperties DEF ScanInv, ListInv, IsListing
  <1>1. PICK list \in Listings(Resolve(FullPath(entries, scanIndex))) :
            entries' = MoveEntries(entries, list, scanIndex)
    BY DEF ScanWalks
  <1>2. PICK new \in Seq(EntryRecords) : entries' = entries \o new
    BY <1>0, <1>1, WalkAppends
  <1>3. /\ entries' \in Seq(EntryRecords) /\ Len(entries') = Len(entries) + Len(new)
        /\ \A k \in 1..(Len(entries) + Len(new)) :
               entries'[k] = IF k <= Len(entries) THEN entries[k] ELSE new[k - Len(entries)]
    BY <1>0, <1>2, ConcatProperties
  <1>4. Len(new) \in Nat
    BY LenProperties
  <1>5. ASSUME NEW i \in Indices(entries)
        PROVE  i \in Indices(entries') /\ Entry(entries', i) = Entry(entries, i)
    <2>1. i + 1 \in 1..(Len(entries) + Len(new)) /\ i + 1 <= Len(entries) /\ i \in 0..(Len(entries') - 1)
      BY <1>0, <1>3, <1>4, <1>5 DEF Indices
    <2>2. entries'[i + 1] = entries[i + 1]
      BY <1>3, <2>1
    <2> QED
      BY <2>1, <2>2 DEF Entry, Indices
  <1> QED
    BY <1>0, <1>3, <1>4, <1>5

LEMMA WalkCounts ==
  ASSUME ScanInv, ScanInv', CountInv, ScanWalks
  PROVE  CountInv'
  <1>1. /\ scanIndex \in Nat /\ scanIndex < Len(entries) /\ Len(entries) \in Nat
        /\ scanIndex' = NextToScan(entries', scanIndex + 1)
        /\ totalBytes' = totalBytes + BytesOf(entries', scanIndex + 1, scanIndex')
        /\ entries \in Seq(EntryRecords)
    BY LenProperties DEF ScanWalks, Scanning, ScanInv, ListInv, IsListing
  <1>2. /\ entries' \in Seq(EntryRecords) /\ Len(entries') \in Nat /\ Len(entries) <= Len(entries')
        /\ \A i \in Indices(entries) : i \in Indices(entries') /\ Entry(entries', i) = Entry(entries, i)
    BY WalkExtends
  <1>3. /\ scanIndex' \in (scanIndex + 1)..Len(entries')
        /\ \A i \in Indices(entries') :
               scanIndex + 1 <= i /\ i < scanIndex' => Entry(entries', i).type = "file"
        /\ scanIndex' < Len(entries') => Entry(entries', scanIndex').type # "file"
    <2>1. scanIndex + 1 \in 0..Len(entries')
      BY <1>1, <1>2
    <2> QED
      BY <1>1, <1>2, <2>1, NextIs
  <1> DEFINE A == FilesBefore(entries, scanIndex)
             B == (scanIndex + 1)..(scanIndex' - 1)
             w == SizeOf(entries')
  <1>4. PICK next \in Nat : next = scanIndex' /\ scanIndex + 1 <= next /\ next <= Len(entries')
    BY <1>1, <1>2, <1>3
  <1>5. B = (scanIndex + 1)..(next - 1) /\ B \subseteq Indices(entries') /\ IsFiniteSet(Indices(entries'))
    <2>1. B = (scanIndex + 1)..(next - 1)
      BY <1>4
    <2>2. (scanIndex + 1)..(next - 1) \subseteq 0..(Len(entries') - 1)
      BY <1>1, <1>2, <1>4
    <2>3. IsFiniteSet(0..(Len(entries') - 1))
      BY <1>2, FS_Interval
    <2> QED
      BY <2>1, <2>2, <2>3 DEF Indices
  <1>6. A \subseteq Indices(entries') /\ A \cap B = {}
    <2>1. A \subseteq Indices(entries) /\ \A i \in A : i < scanIndex /\ i \in Int
      BY <1>1 DEF FilesBefore, Indices
    <2>2. \A i \in B : i \in Int /\ ~(i < scanIndex)
      BY <1>1, <1>4, <1>5
    <2> QED
      BY <1>2, <2>1, <2>2
  <1>7. FilesBefore(entries', next) = A \union B
    <2>1. ASSUME NEW i \in FilesBefore(entries', next) PROVE i \in A \union B
      <3>1. i \in Indices(entries') /\ i \in Int /\ 0 <= i /\ i < next /\ Entry(entries', i).type = "file"
        BY <1>2, <2>1 DEF FilesBefore, Indices
      <3>2. CASE i < scanIndex
        <4>1. i \in Indices(entries)
          BY <1>1, <3>1, <3>2 DEF Indices
        <4> QED
          BY <1>2, <3>1, <3>2, <4>1 DEF FilesBefore
      <3>3. i # scanIndex
        <4>1. scanIndex \in Indices(entries) /\ Entry(entries, scanIndex).type # "file"
          BY <1>1 DEF CountInv, Indices
        <4> QED
          BY <1>2, <3>1, <4>1
      <3>4. CASE ~(i < scanIndex)
        <4>1. i \in (scanIndex + 1)..(next - 1)
          BY <1>1, <1>4, <3>1, <3>3, <3>4
        <4> QED
          BY <1>5, <4>1
      <3> QED
        BY <3>2, <3>4
    <2>2. ASSUME NEW i \in A PROVE i \in FilesBefore(entries', next)
      <3>1. i \in Indices(entries) /\ i \in Int /\ i < scanIndex /\ Entry(entries, i).type = "file"
        BY <1>1, <2>2 DEF FilesBefore, Indices
      <3>2. i < next
        BY <1>1, <1>4, <3>1
      <3> QED
        BY <1>2, <3>1, <3>2 DEF FilesBefore
    <2>3. ASSUME NEW i \in B PROVE i \in FilesBefore(entries', next)
      <3>1. i \in Indices(entries') /\ i \in (scanIndex + 1)..(next - 1)
        BY <1>5, <2>3
      <3>2. scanIndex + 1 <= i /\ i < next
        BY <1>1, <1>4, <3>1
      <3> QED
        BY <1>3, <1>4, <3>1, <3>2 DEF FilesBefore
    <2> HIDE DEF A, B
    <2> QED
      BY <2>1, <2>2, <2>3
  <1>8. BytesOf(entries', scanIndex + 1, next) = Total(w, B)
    BY <1>1, <1>4, <1>5, BytesAre
  <1>9. Total(w, A) = Total(SizeOf(entries), A)
    <2>1. IsFiniteSet(A) /\ \A i \in A : i \in Indices(entries) /\ SizeOf(entries)[i] \in Nat
      BY <1>1, <1>5, <1>6, FS_Subset, SizesAreNat DEF FilesBefore
    <2>2. \A i \in A : w[i] = SizeOf(entries)[i]
      BY <1>2, <2>1 DEF SizeOf
    <2> DEFINE g == [i \in A |-> i]
    <2> HIDE DEF A, w
    <2>3. /\ \A i \in A : g[i] \in A /\ w[g[i]] = SizeOf(entries)[i]
          /\ \A i, k \in A : g[i] = g[k] => i = k
          /\ \A k \in A : \E i \in A : g[i] = k
      BY <2>2
    <2> HIDE DEF g
    <2> QED
      BY <2>1, <2>3, TotalMoves
  <1>10. Total(w, A \union B) = Total(w, A) + Total(w, B)
    <2>1. \A i \in Indices(entries') : w[i] \in Nat
      BY <1>2, SizesAreNat
    <2> DEFINE S == Indices(entries')
    <2>2. A \in SUBSET S /\ B \in SUBSET S /\ IsFiniteSet(S)
      BY <1>5, <1>6
    <2> HIDE DEF A, B, w, S
    <2>3. \A i \in S : w[i] \in Nat
      BY <2>1 DEF S
    <2>4. \A C \in SUBSET S : A \cap C = {} => Total(w, A \union C) = Total(w, A) + Total(w, C)
      BY <2>2, <2>3, TotalJoins
    <2> QED
      BY <1>6, <2>2, <2>4
  <1>11. totalBytes' = Total(SizeOf(entries)', FilesBefore(entries, scanIndex)')
    <2>1. totalBytes = Total(SizeOf(entries), A)
      BY DEF CountInv
    <2>2. totalBytes' = totalBytes + BytesOf(entries', scanIndex + 1, next)
      BY <1>1, <1>4
    <2>3. totalBytes' = Total(w, FilesBefore(entries', next))
      <3> HIDE DEF A, B, w
      <3> QED
        BY <1>7, <1>8, <1>9, <1>10, <2>1, <2>2
    <2> QED
      BY <1>4, <2>3 DEF SizeOf, FilesBefore
  <1> QED
    BY <1>3, <1>11 DEF CountInv

LEMMA CountStep == ScanInv /\ CountInv /\ [Next]_vars => CountInv'
  <1> SUFFICES ASSUME ScanInv, CountInv, [Next]_vars PROVE CountInv'
    OBVIOUS
  <1>1. CASE ScanWalks
    BY <1>1, ScanStep, WalkCounts
  <1>2. CASE ~ScanWalks
    <2>1. UNCHANGED <<entries, scanIndex, totalBytes>>
      BY <1>2
         DEF Next, vars, world, scanVars, ScanWork, ScanStarts, ScanFails, ScanCompletes, CancelScan,
             BulkWork, BulkHasNothingToDo, BulkStarts, BulkCannotStart, BulkEnds, BulkMakesDirectory,
             BulkCannotMakeDirectory, BulkOpensFile, BulkCannotOpenFile, BulkSkips, DownloadWork,
             DownloadPrepares, DownloadReads, DownloadFinalizes, DownloadFails, CancelBulk, BulkFails,
             OthersCreate, OthersRemove
    <2> QED
      BY <2>1 DEF CountInv
  <1> QED
    BY <1>1, <1>2

\* Without links every entry has the path of its node.
LEMMA EntryIsNode ==
  ASSUME ScanInv, Untouched, IsPlain
  PROVE  \A i \in Indices(entries) \ {0} :
             LET q == FullPath(entries, i)
                 parent == Entry(entries, i).parent
             IN  /\ q \in DOMAIN tree /\ Entry(entries, i) = ChildEntry(q, parent)
                 /\ parent \in Indices(entries) /\ parent < i /\ FullPath(entries, parent) = Parent(q)
  <1> DEFINE Leads(i) == FullPath(entries, i) \in DOMAIN tree
             Bad == {i \in Indices(entries) : ~Leads(i)}
  <1>0. tree \in Trees /\ present = DOMAIN tree /\ IsListing(entries) /\ Len(entries) \in Nat
    BY LenProperties DEF ScanInv, ListInv, IsListing
  <1>1. ASSUME NEW i \in Indices(entries) \ {0}, Leads(Entry(entries, i).parent)
        PROVE  /\ Leads(i) /\ Entry(entries, i) = ChildEntry(FullPath(entries, i), Entry(entries, i).parent)
               /\ FullPath(entries, Entry(entries, i).parent) = Parent(FullPath(entries, i))
    <2> DEFINE parent == Entry(entries, i).parent
    <2>1. Resolve(FullPath(entries, parent)) = FullPath(entries, parent)
      BY <1>0, <1>1, ResolveDirect DEF IsPlain
    <2>2. PICK q \in Children(FullPath(entries, parent)) : Entry(entries, i) = ChildEntry(q, parent)
      BY <1>1, <2>1 DEF ScanInv, NamesAChild
    <2>3. q \in DOMAIN tree /\ q # Root /\ Parent(q) = FullPath(entries, parent)
      BY <1>0, <2>2 DEF Children
    <2>4. q = Append(FullPath(entries, parent), Last(q))
      BY <1>0, <2>3, NodeOK
    <2>5. FullPath(entries, i) = q
      <3>1. PICK name \in STRING : /\ Entry(entries, i).path = <<name>>
                                   /\ FullPath(entries, i) = Append(FullPath(entries, parent), name)
        BY <1>0, FullPathAppends
      <3>2. name = Last(q)
        BY <2>2, <3>1 DEF ChildEntry, Listed
      <3> QED
        BY <2>4, <3>1, <3>2
    <2> QED
      BY <2>2, <2>3, <2>5
  <1>2. \A i \in Indices(entries) \ {0} :
            Entry(entries, i).parent \in Indices(entries) /\ Entry(entries, i).parent < i
    BY <1>0 DEF IsListing, EntryListed, Indices
  <1>3. Bad = {}
    <2> SUFFICES ASSUME Bad # {} PROVE FALSE
      OBVIOUS
    <2>1. Bad \in SUBSET Nat
      BY <1>0 DEF Indices
    <2>2. PICK i \in Bad : \A k \in Bad : i <= k
      <3> HIDE DEF Bad
      <3> QED
        BY <2>1, LeastNat
    <2>3. i # 0
      BY <1>0, <2>2, FullPathIs, NodeOK
    <2>4. i \in Indices(entries) \ {0} /\ ~Leads(i) /\ i \in Nat
      BY <2>1, <2>2, <2>3
    <2>5. Entry(entries, i).parent \notin Bad
      <3>1. Entry(entries, i).parent \in Nat /\ ~(i <= Entry(entries, i).parent)
        BY <1>0, <1>2, <2>4 DEF Indices
      <3> HIDE DEF Bad
      <3> QED
        BY <2>2, <3>1
    <2>6. Leads(Entry(entries, i).parent)
      BY <1>2, <2>4, <2>5
    <2> HIDE DEF Leads
    <2> QED
      BY <1>1, <2>4, <2>6
  <1>4. \A i \in Indices(entries) \ {0} : Leads(i) /\ Leads(Entry(entries, i).parent)
    BY <1>2, <1>3
  <1> QED
    BY <1>1, <1>2, <1>4

\* No two entries have the same path.
LEMMA PathsDiffer ==
  ASSUME ScanInv, Untouched, IsPlain
  PROVE  \A i, k \in Indices(entries) : FullPath(entries, i) = FullPath(entries, k) => i = k
  <1> DEFINE Twin(i) == \E k \in Indices(entries) : k # i /\ FullPath(entries, i) = FullPath(entries, k)
             Bad == {i \in Indices(entries) : Twin(i)}
  <1> SUFFICES ASSUME Bad # {} PROVE FALSE
    OBVIOUS
  <1>0. IsListing(entries) /\ Len(entries) \in Nat
    BY LenProperties DEF ScanInv, ListInv, IsListing
  <1>s. Bad \in SUBSET Nat
    BY <1>0 DEF Indices
  <1>1. PICK i \in Bad : \A k \in Bad : i <= k
    <2> HIDE DEF Bad
    <2> QED
      BY <1>s, LeastNat
  <1>2. PICK k \in Indices(entries) : k # i /\ FullPath(entries, i) = FullPath(entries, k)
    BY <1>1
  <1>3. \A n \in Indices(entries) \ {0} : FullPath(entries, n) # Root
    <2> SUFFICES ASSUME NEW n \in Indices(entries) \ {0}, FullPath(entries, n) = Root PROVE FALSE
      OBVIOUS
    <2> DEFINE q == FullPathRelative(entries, n)
    <2>1. q \in Seq(STRING) /\ q # <<>> /\ Root \o q = Root
      BY <1>0, RelativeIs
    <2> HIDE DEF q
    <2>2. Tail(Root \o q) = q
      BY <1>0, <2>1, RootIsPath, TailOfRoot
    <2>3. Tail(Root) = <<>>
      BY DEF Root
    <2> QED
      BY <2>1, <2>2, <2>3
  <1>4. FullPath(entries, 0) = Root
    BY <1>0, FullPathIs
  <1>5. i \in Indices(entries) \ {0} /\ k \in Indices(entries) \ {0}
    BY <1>1, <1>2, <1>3, <1>4
  <1> DEFINE q == FullPath(entries, i)
             up == Entry(entries, i).parent
             above == Entry(entries, k).parent
  <1>6. /\ Entry(entries, i) = ChildEntry(q, up) /\ FullPath(entries, up) = Parent(q)
        /\ up \in Indices(entries) /\ up < i
        /\ Entry(entries, k) = ChildEntry(q, above) /\ FullPath(entries, above) = Parent(q)
        /\ above \in Indices(entries)
    BY <1>2, <1>5, EntryIsNode
  <1>7. up = above
    <2>1. up \notin Bad
      <3>1. up \in Nat /\ i \in Nat /\ ~(i <= up)
        BY <1>0, <1>5, <1>6 DEF Indices
      <3> HIDE DEF Bad
      <3> QED
        BY <1>1, <3>1
    <2> QED
      BY <1>6, <2>1
  <1>8. Entry(entries, i) = Entry(entries, k)
    BY <1>6, <1>7
  <1> QED
    BY <1>2, <1>5, <1>8 DEF ScanInv

LEMMA CompleteWhenWalked ==
  ASSUME ScanInv, CountInv
  PROVE  ListingIsComplete
  <1> SUFFICES ASSUME scan = "Completed", Untouched, IsPlain
               PROVE  /\ {FullPath(entries, i) : i \in Indices(entries)} = DOMAIN tree
                      /\ Len(entries) = Cardinality(DOMAIN tree)
                      /\ totalBytes = MapThenSumSet(LAMBDA p : tree[p].size, FilePaths)
    BY DEF ListingIsComplete, Untouched
  <1> DEFINE g == [i \in Indices(entries) |-> FullPath(entries, i)]
  <1>0. /\ tree \in Trees /\ IsListing(entries) /\ Len(entries) \in Nat /\ Len(entries) > 0
        /\ scanIndex = Len(entries) /\ entries[1] = RootEntry /\ entries \in Seq(EntryRecords)
    BY LenProperties DEF ScanInv, ListInv, IsListing
  <1>1. 0 \in Indices(entries) /\ FullPath(entries, 0) = Root /\ Root \in DOMAIN tree
        /\ Entry(entries, 0).type = "dir"
    <2>1. FullPath(entries, 0) = Root /\ Root \in DOMAIN tree
      BY <1>0, FullPathIs, NodeOK
    <2>2. 0 \in Indices(entries)
      BY <1>0 DEF Indices
    <2>3. Entry(entries, 0).type = "dir"
      BY <1>0 DEF Entry, RootEntry
    <2> QED
      BY <2>1, <2>2, <2>3
  <1>2. \A i \in Indices(entries) : FullPath(entries, i) \in DOMAIN tree
    BY <1>1, EntryIsNode
  <1>3. \A p \in DOMAIN tree : \E i \in Indices(entries) : FullPath(entries, i) = p
    BY ListLeadsEverywhere DEF IsPlain
  <1>4. {FullPath(entries, i) : i \in Indices(entries)} = DOMAIN tree
    BY <1>2, <1>3
  <1>5. \A i, k \in Indices(entries) : FullPath(entries, i) = FullPath(entries, k) => i = k
    BY PathsDiffer
  <1>6. Len(entries) = Cardinality(DOMAIN tree)
    <2>1. IsFiniteSet(Indices(entries)) /\ Cardinality(Indices(entries)) = Len(entries)
      <3> DEFINE last == Len(entries) - 1
      <3>1. last \in Nat /\ 0 \in Int /\ last \in Int /\ last + 1 = Len(entries)
            /\ Indices(entries) = 0..last
        BY <1>0 DEF Indices
      <3> HIDE DEF last
      <3>2. IsFiniteSet(0..last) /\ Cardinality(0..last) = IF 0 > last THEN 0 ELSE last - 0 + 1
        BY <3>1, FS_Interval
      <3> QED
        BY <3>1, <3>2
    <2>2. g \in Bijection(Indices(entries), DOMAIN tree)
      BY <1>2, <1>3, <1>5 DEF Bijection, Injection, IsInjective, Surjection
    <2>3. ExistsBijection(Indices(entries), DOMAIN tree)
      BY <2>2 DEF ExistsBijection
    <2> QED
      BY <2>1, <2>3, FS_Bijection
  <1>7. totalBytes = MapThenSumSet(LAMBDA p : tree[p].size, FilePaths)
    <2> DEFINE S == FilesBefore(entries, scanIndex)
               w == SizeOf(entries)
               v == [p \in DOMAIN tree |-> tree[p].size]
    <2>1. S = {i \in Indices(entries) : Entry(entries, i).type = "file"}
      BY <1>0 DEF FilesBefore, Indices
    <2>2. /\ IsFiniteSet(S) /\ \A i \in S : i \in Indices(entries) /\ w[i] \in Nat
          /\ IsFiniteSet(FilePaths)
      <3>1. IsFiniteSet(Indices(entries)) /\ IsFiniteSet(DOMAIN tree)
        BY <1>0, FS_Interval, NodeOK DEF Indices
      <3> QED
        BY <1>0, <3>1, FS_Subset, SizesAreNat DEF FilesBefore, FilePaths
    <2>3. \A i \in S : g[i] \in FilePaths /\ v[g[i]] = w[i]
      <3> SUFFICES ASSUME NEW i \in S PROVE g[i] \in FilePaths /\ v[g[i]] = w[i]
        OBVIOUS
      <3>1. i \in Indices(entries) \ {0} /\ Entry(entries, i).type = "file"
        BY <1>1, <2>1
      <3>2. /\ FullPath(entries, i) \in DOMAIN tree
            /\ Entry(entries, i) = ChildEntry(FullPath(entries, i), Entry(entries, i).parent)
        BY <3>1, EntryIsNode
      <3>3. Entry(entries, i).type = tree[FullPath(entries, i)].type
            /\ Entry(entries, i).size = tree[FullPath(entries, i)].size
        BY <3>2 DEF ChildEntry, Listed
      <3> QED
        BY <3>1, <3>2, <3>3 DEF FilePaths, SizeOf
    <2>4. \A i, k \in S : g[i] = g[k] => i = k
      BY <1>5, <2>2
    <2>5. \A p \in FilePaths : \E i \in S : g[i] = p
      <3> SUFFICES ASSUME NEW p \in FilePaths PROVE \E i \in S : g[i] = p
        OBVIOUS
      <3>1. p \in DOMAIN tree /\ tree[p].type = "file"
        BY DEF FilePaths
      <3>2. PICK i \in Indices(entries) : FullPath(entries, i) = p /\ Entry(entries, i).type = "file"
        BY <3>1, ListLeadsEverywhere
      <3> QED
        BY <2>1, <3>2
    <2>6. Total(v, FilePaths) = Total(w, S)
      <3> HIDE DEF S, w, v, g
      <3> QED
        BY <2>2, <2>3, <2>4, <2>5, TotalMoves
    <2>7. totalBytes = Total(w, S)
      BY DEF CountInv
    <2>8. MapThenSumSet(LAMBDA p : tree[p].size, FilePaths) = Total(v, FilePaths)
      <3> DEFINE F == CHOOSE f : f = [s \in SUBSET FilePaths |->
                          IF s = {} THEN 0 ELSE tree[Chosen(s)].size + f[s \ {Chosen(s)}]]
      <3>1. MapThenSumSet(LAMBDA p : tree[p].size, FilePaths) = F[FilePaths]
        BY DEF MapThenSumSet, MapThenFoldSet, Chosen
      <3>2. \A s \in SUBSET FilePaths : s # {} => v[Chosen(s)] = tree[Chosen(s)].size
        <4> SUFFICES ASSUME NEW s \in SUBSET FilePaths, s # {}
                     PROVE  v[Chosen(s)] = tree[Chosen(s)].size
          OBVIOUS
        <4>1. Chosen(s) \in FilePaths
          BY <2>2, FS_Subset, WithoutChosen
        <4> QED
          BY <4>1 DEF FilePaths
      <3> HIDE DEF v
      <3>3. PICK f : SumsOf(v, SUBSET FilePaths, f)
        BY <2>2, SumsExist
      <3>4. f = [s \in SUBSET FilePaths |->
                    IF s = {} THEN 0 ELSE tree[Chosen(s)].size + f[s \ {Chosen(s)}]]
        BY <3>2, <3>3 DEF SumsOf
      <3>5. F = [s \in SUBSET FilePaths |->
                    IF s = {} THEN 0 ELSE tree[Chosen(s)].size + F[s \ {Chosen(s)}]]
        BY <3>4
      <3> HIDE DEF F
      <3>6. SumsOf(v, SUBSET FilePaths, F)
        BY <3>2, <3>5 DEF SumsOf
      <3>7. Total(v, FilePaths) = F[FilePaths]
        BY <2>2, <3>6, TotalIs
      <3> QED
        BY <3>1, <3>7
    <2> QED
      BY <2>6, <2>7, <2>8
  <1> QED
    BY <1>4, <1>6, <1>7

LEMMA InitCounts == Init => CountInv
  <1> SUFFICES ASSUME Init PROVE CountInv
    OBVIOUS
  <1>1. /\ scanIndex = 0 /\ totalBytes = 0 /\ Len(entries) \in Nat
        /\ Len(entries) > 0 /\ entries[1] = RootEntry
    BY InitScan, LenProperties DEF Init, ScanInv, ListInv, IsListing
  <1>2. FilesBefore(entries, scanIndex) = {}
    BY <1>1 DEF FilesBefore, Indices
  <1>3. Total(SizeOf(entries), {}) = 0
    BY FS_EmptySet, TotalSteps
  <1>4. Entry(entries, 0).type = "dir"
    BY <1>1 DEF Entry, RootEntry
  <1> QED
    BY <1>1, <1>2, <1>3, <1>4 DEF CountInv

(* The listing is complete: the scan of a tree of files and directories     *)
(* that nobody touches has every node exactly once, in whatever order the   *)
(* server lists them, and the total is the number of the bytes of all       *)
(* files.                                                                   *)
THEOREM ListingHasTheTree == Spec => []ListingIsComplete
  <1>1. Init => ScanInv /\ CountInv
    BY InitScan, InitCounts
  <1>2. ScanInv /\ CountInv => ListingIsComplete
    BY CompleteWhenWalked
  <1>3. ScanInv /\ CountInv /\ [Next]_vars => ScanInv' /\ CountInv'
    BY ScanStep, CountStep
  <1> QED
    BY <1>1, <1>2, <1>3, PTL DEF Spec

LEMMA EntriesAreNamed ==
  ASSUME ScanInv
  PROVE  EntriesNameTheTree
  <1> SUFFICES ASSUME Untouched, NEW i \in Indices(entries) \ {0}
               PROVE  LET e == Entry(entries, i)
                          p == Resolve(FullPath(entries, e.parent)) \o e.path
                      IN  /\ Is("dir", FullPath(entries, e.parent))
                          /\ p \in DOMAIN tree /\ tree[p].type = e.type /\ tree[p].size = e.size
    BY DEF EntriesNameTheTree, Untouched
  <1> DEFINE parent == Entry(entries, i).parent
             dir == Resolve(FullPath(entries, parent))
  <1>0. tree \in Trees /\ present = DOMAIN tree
    BY DEF ScanInv, ListInv
  <1>1. PICK q \in Children(dir) : Entry(entries, i) = ChildEntry(q, parent)
    BY DEF ScanInv, NamesAChild
  <1>2. /\ q \in DOMAIN tree /\ Parent(q) = dir /\ dir \in DOMAIN tree /\ tree[dir].type = "dir"
        /\ dir \in Seq(STRING) /\ Last(q) \in STRING /\ q = Append(dir, Last(q))
    BY <1>0, <1>1, NodeOK DEF Children
  <1>3. /\ Entry(entries, i).path = <<Last(q)>> /\ Entry(entries, i).type = tree[q].type
        /\ Entry(entries, i).size = tree[q].size
    BY <1>1 DEF ChildEntry, Listed
  <1>4. Is("dir", FullPath(entries, parent))
    BY <1>0, <1>2 DEF Is
  <1>5. dir \o <<Last(q)>> = q
    <2> HIDE DEF dir
    <2> QED
      BY <1>2, AppendIsConcat
  <1> QED
    BY <1>2, <1>3, <1>4, <1>5

(* Every entry leads to a node: at any time of the scan of a tree from which *)
(* nobody removes anything, every entry names a child of the directory its   *)
(* parents lead to, over whatever links, with its type and its size.         *)
THEOREM EntriesLeadToNodes == Spec => []EntriesNameTheTree
  <1>1. ScanInv => EntriesNameTheTree
    BY EntriesAreNamed
  <1> QED
    BY <1>1, InitScan, ScanStep, PTL DEF Spec
=============================================================================
