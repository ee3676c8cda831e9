----------------------- MODULE DownloadOperationProofs -----------------------
(***************************************************************************)
(* Theorems about downloads.  What is left on the disk is argued about in  *)
(* three steps: who is at work (a strand lets one operation work), which   *)
(* node of the file system belongs to whom (an operation that has the part *)
(* file open keeps its node), and, with one download at a time, how much   *)
(* of the remote file is in it.                                            *)
(***************************************************************************)
EXTENDS DownloadOperation, SequenceTheorems, FiniteSetTheorems, TLAPS

-----------------------------------------------------------------------------
(* Constants and the file system. *)

LEMMA Constants ==
  /\ IsFiniteSet(Operations) /\ Cardinality(Operations) \in Nat /\ Operations = 1..Cardinality(Operations)
  /\ Operations \subseteq Nat \ {0} /\ None \notin Operations
  /\ Nodes = 1..(Cardinality(Operations) + 3) /\ NoNode \notin Nodes /\ Nodes \subseteq Nat
  /\ Sizes \subseteq Nat /\ BufferSize \in Nat \ {0}
  <1>1. IsFiniteSet(Operations) /\ Operations = 1..Cardinality(Operations) /\ Cardinality(Operations) \in Nat
    BY DownloadAssumption, FS_CardinalityType DEF DownloadAssumption
  <1> QED
    BY <1>1, DownloadAssumption DEF DownloadAssumption, Nodes, None, NoNode

LEMMA AtMostOneMore ==
  ASSUME NEW S, IsFiniteSet(S), NEW n \in Nat, Cardinality(S) <= n, NEW x
  PROVE  IsFiniteSet(S \cup {x}) /\ Cardinality(S \cup {x}) <= n + 1 /\ Cardinality(S \cup {x}) \in Nat
  <1>1. IsFiniteSet(S \cup {x}) /\ Cardinality(S) \in Nat
    BY FS_AddElement, FS_CardinalityType
  <1>2. Cardinality(S \cup {x}) = IF x \in S THEN Cardinality(S) ELSE Cardinality(S) + 1
    BY FS_AddElement
  <1> QED
    BY <1>1, <1>2

\* A node is free when the part file or the local file is not there.
LEMMA FreeNodeIsFree ==
  ASSUME part = NoNode \/ (final = NoNode /\ foreign = NoNode)
  PROVE  FreeNode \in Nodes /\ FreeNode \notin InUse
  <1> DEFINE D == {p \in Operations : file[p].open}
             N == {file[o].node : o \in D}
             f == [o \in D |-> file[o].node]
             n == Cardinality(Operations)
  <1>1. IsFiniteSet(D) /\ Cardinality(D) <= n /\ Cardinality(D) \in Nat /\ n \in Nat
    <2>1. D \in SUBSET Operations
      OBVIOUS
    <2> HIDE DEF D
    <2> QED
      BY <2>1, Constants, FS_Subset, FS_CardinalityType
  <1>2. f \in Surjection(D, N)
    BY DEF Surjection
  <1> HIDE DEF D, f
  <1>3. IsFiniteSet(N) /\ Cardinality(N) <= n /\ Cardinality(N) \in Nat
    <2> HIDE DEF N
    <2>1. IsFiniteSet(N) /\ Cardinality(N) <= Cardinality(D)
      BY <1>1, <1>2, FS_Surjection
    <2> QED
      BY <1>1, <2>1, FS_CardinalityType
  <1> DEFINE A == N \cup {final}
             B == A \cup {foreign}
             C == N \cup {part}
  <1>4. IsFiniteSet(B) /\ Cardinality(B) <= n + 2 /\ Cardinality(B) \in Nat
    <2> HIDE DEF N, n
    <2>1. IsFiniteSet(A) /\ Cardinality(A) <= n + 1
      BY <1>1, <1>3, AtMostOneMore
    <2>2. n + 1 \in Nat /\ n + 1 + 1 = n + 2
      BY <1>1
    <2> HIDE DEF A
    <2>3. IsFiniteSet(B) /\ Cardinality(B) <= n + 1 + 1 /\ Cardinality(B) \in Nat
      BY <2>1, <2>2, AtMostOneMore
    <2> QED
      BY <2>2, <2>3
  <1>5. IsFiniteSet(C) /\ Cardinality(C) <= n + 1 /\ Cardinality(C) \in Nat
    <2> HIDE DEF N, n
    <2> QED
      BY <1>1, <1>3, AtMostOneMore
  <1>6. IsFiniteSet(Nodes) /\ Cardinality(Nodes) = n + 3
    BY <1>1, Constants, FS_Interval
  <1>7. InUse \cap Nodes \subseteq B \/ InUse \cap Nodes \subseteq C
    BY Constants DEF InUse, D
  <1> HIDE DEF A, B, C, N, n
  <1>8. ~(Nodes \subseteq B) /\ ~(Nodes \subseteq C)
    <2>1. ASSUME NEW S, IsFiniteSet(S), Cardinality(S) <= n + 2, Cardinality(S) \in Nat, Nodes \subseteq S
          PROVE  FALSE
      <3>1. Cardinality(Nodes) <= Cardinality(S)
        BY <2>1, FS_Subset
      <3> QED
        BY <1>1, <1>6, <2>1, <3>1
    <2> QED
      BY <1>1, <1>4, <1>5, <2>1
  <1>9. \E k \in Nodes : k \notin InUse
    BY <1>7, <1>8
  <1> QED
    BY <1>9 DEF FreeNode

LEMMA WrittenBytes ==
  ASSUME NEW S, 0 \in S, NEW bytes \in Seq(S), NEW pos \in Nat, NEW new \in Seq(S)
  PROVE  LET w == Written(bytes, pos, new)
         IN  /\ w \in Seq(S)
             /\ Len(w) = IF Len(bytes) > pos + Len(new) THEN Len(bytes) ELSE pos + Len(new)
             /\ \A i \in 1..Len(w) : w[i] = IF i > pos /\ i <= pos + Len(new) THEN new[i - pos]
                                            ELSE IF i <= Len(bytes) THEN bytes[i] ELSE 0
  <1> DEFINE n == IF Len(bytes) > pos + Len(new) THEN Len(bytes) ELSE pos + Len(new)
             at(i) == IF i > pos /\ i <= pos + Len(new) THEN new[i - pos]
                      ELSE IF i <= Len(bytes) THEN bytes[i] ELSE 0
             w == Written(bytes, pos, new)
  <1>1. n \in Nat /\ w = [i \in 1..n |-> at(i)]
    BY LenProperties DEF Written
  <1>2. \A i \in 1..Len(new) : new[i] \in S
    BY ElementOfSeq
  <1>3. \A i \in 1..Len(bytes) : bytes[i] \in S
    BY ElementOfSeq
  <1>4. ASSUME NEW i \in 1..n PROVE at(i) \in S
    <2>1. Len(new) \in Nat /\ Len(bytes) \in Nat /\ i \in Nat /\ i >= 1
      BY <1>1, LenProperties
    <2>2. CASE i > pos /\ i <= pos + Len(new)
      <3>1. i - pos \in 1..Len(new)
        BY <2>1, <2>2
      <3> QED
        BY <1>2, <2>2, <3>1
    <2>3. CASE ~(i > pos /\ i <= pos + Len(new)) /\ i <= Len(bytes)
      BY <1>3, <2>1, <2>3
    <2>4. CASE ~(i > pos /\ i <= pos + Len(new)) /\ ~(i <= Len(bytes))
      BY <2>4
    <2> QED
      BY <2>2, <2>3, <2>4
  <1> HIDE DEF at
  <1>5. w \in [1..n -> S]
    BY <1>1, <1>4
  <1>6. w \in Seq(S) /\ Len(w) = n
    <2> HIDE DEF w, n
    <2> QED
      BY <1>1, <1>5, SeqDef, LenProperties
  <1>7. \A i \in 1..n : w[i] = at(i)
    BY <1>1
  <1> QED
    BY <1>6, <1>7 DEF at

\* Bytes of the remote file.
LEMMA RemoteBytes ==
  ASSUME size \in Nat, NEW at \in Nat, NEW n \in Nat, at + n <= size
  PROVE  LET new == SubSeq(Remote, at + 1, at + n)
         IN  new \in Seq(0..size) /\ Len(new) = n /\ \A i \in 1..n : new[i] = at + i
  <1>1. \A i \in (at + 1)..(at + n) : i \in 1..size /\ i \in 0..size
    OBVIOUS
  <1>2. \A i \in (at + 1)..(at + n) : Remote[i] = i /\ Remote[i] \in 0..size
    BY <1>1 DEF Remote
  <1> DEFINE new == SubSeq(Remote, at + 1, at + n)
  <1>3. /\ new \in Seq(0..size) /\ Len(new) = IF at + 1 <= at + n THEN at + n - (at + 1) + 1 ELSE 0
        /\ \A i \in 1..(at + n - (at + 1) + 1) : new[i] = Remote[at + 1 + i - 1]
    BY <1>2, SubSeqProperties
  <1> HIDE DEF new
  <1>4. Len(new) = n
    BY <1>3
  <1>5. ASSUME NEW i \in 1..n PROVE new[i] = at + i
    <2>1. i \in 1..(at + n - (at + 1) + 1) /\ at + 1 + i - 1 = at + i /\ at + i \in (at + 1)..(at + n)
      OBVIOUS
    <2> QED
      BY <1>2, <1>3, <2>1
  <1> QED
    BY <1>3, <1>4, <1>5 DEF new

LEMMA ShortenedBytes ==
  ASSUME NEW S, NEW bytes \in Seq(S), NEW n \in Int, n <= Len(bytes)
  PROVE  LET s == SubSeq(bytes, 1, n)
         IN  /\ s \in Seq(S) /\ Len(s) = IF 1 <= n THEN n ELSE 0
             /\ \A i \in 1..Len(s) : s[i] = bytes[i]
  <1>1. Len(bytes) \in Nat /\ \A i \in 1..Len(bytes) : bytes[i] \in S
    BY LenProperties, ElementOfSeq
  <1>2. \A i \in 1..n : bytes[i] \in S
    BY <1>1
  <1> DEFINE s == SubSeq(bytes, 1, n)
  <1>3. /\ s \in Seq(S) /\ Len(s) = IF 1 <= n THEN n - 1 + 1 ELSE 0
        /\ \A i \in 1..(n - 1 + 1) : s[i] = bytes[1 + i - 1]
    BY <1>2, SubSeqProperties
  <1> HIDE DEF s
  <1> QED
    BY <1>3 DEF s

-----------------------------------------------------------------------------
(* Who is at work. *)

FileState == [open : BOOLEAN, node : Nodes \cup {NoNode}, pos : Nat, app : BOOLEAN, unflushed : 0..BufferSize]

\* A phase of work() fails.
Failing(o) ==
    working = o /\ state[o] \in {"Preparing", "Running", "Finalizing", "Renaming"} /\ Fail(o)

Preparing(o) == PrepareAnew(o) \/ PrepareComplete(o) \/ PrepareContinues(o)

\* The steps, with those that fail taken together.
LEMMA Steps ==
  ASSUME [Next]_vars
  PROVE  \/ UNCHANGED vars
         \/ OthersCreate \/ Crash
         \/ \E o \in Operations :
               \/ BeginWork(o) \/ Failing(o) \/ Preparing(o) \/ ReadEnds(o) \/ ReadCannotWrite(o)
               \/ \E n \in 1..BufferSize : ReadWrites(o, n)
               \/ Finalize(o) \/ FinalizeCannotFlush(o) \/ Rename(o) \/ Destroy(o) \/ Cancel(o)
  <1>1. ASSUME NEW o \in Operations,
               \/ PrepareFails(o) \/ PrepareCompleteReserving(o) \/ ReadFails(o) \/ FinalizeFails(o) \/ RenameFails(o)
        PROVE  Failing(o)
    BY <1>1 DEF PrepareFails, PrepareCompleteReserving, MayPrepare, ReadFails, FinalizeFails, RenameFails, Failing
  <1> QED
    BY <1>1 DEF Next, Work, Preparing

WorkInv ==
    /\ \A o \in Operations :
          state[o] \in {"Preparing", "Finalizing", "Renaming", "Completed", "Failed", "Canceled"} => working = o
    /\ \A o \in Operations :
          outcome[o] = "None" <=> state[o] \in {"NotStarted", "Preparing", "Running", "Finalizing", "Renaming"}
    /\ \A o \in Operations : outcome[o] = "Lost" => state[o] = "Destroyed"

OpenInv == \A o \in Operations : file[o].open => file[o].node \in Nodes

BaseInv == TypeOK /\ WorkInv /\ OpenInv

LEMMA Typed ==
  ASSUME TypeOK
  PROVE  /\ size \in Nat /\ 0 \in 0..size /\ 0 \in 0..BufferSize /\ BufferSize \in Nat
         /\ Closed \in FileState /\ Closed.open = FALSE
         /\ \A o \in Operations : file[o] \in FileState
         /\ \A n \in Nodes : nodes[n] \in Seq(0..size) /\ Len(nodes[n]) \in Nat
         /\ file \in [Operations -> FileState]
  <1>1. size \in Nat /\ BufferSize \in Nat /\ file \in [Operations -> FileState]
    BY Constants DEF TypeOK, FileState
  <1>2. \A n \in Nodes : nodes[n] \in Seq(0..size)
    BY DEF TypeOK
  <1> QED
    BY <1>1, <1>2, LenProperties DEF Closed, FileState

LEMMA OpenedFile ==
  ASSUME NEW n \in Nodes, NEW at \in Nat
  PROVE  /\ LET f == Opened(n, at, TRUE)
            IN  f \in FileState /\ f.open /\ f.node = n /\ f.pos = at /\ f.app
         /\ LET f == Opened(n, at, FALSE)
            IN  f \in FileState /\ f.open /\ f.node = n /\ f.pos = at /\ ~f.app
  <1>1. 0 \in 0..BufferSize
    BY Constants
  <1> QED
    BY <1>1 DEF Opened, FileState

\* The states and outcomes after a step of one operation.
LEMMA Moved ==
  ASSUME BaseInv, NEW o \in Operations, NEW s \in DownloadStates, state' = [state EXCEPT ![o] = s]
  PROVE  /\ state' \in [Operations -> DownloadStates] /\ state'[o] = s
         /\ \A p \in Operations : p # o => state'[p] = state[p]
  BY DEF BaseInv, TypeOK

LEMMA WorkMoved ==
  ASSUME BaseInv, NEW o \in Operations, NEW s \in DownloadStates, state' = [state EXCEPT ![o] = s],
         \/ outcome' = outcome /\ outcome[o] = "None"
              /\ s \in {"Preparing", "Running", "Finalizing", "Renaming"}
         \/ outcome' = outcome /\ outcome[o] # "None" /\ s = "Destroyed"
         \/ outcome' = [outcome EXCEPT ![o] = s] /\ s \in {"Completed", "Failed", "Canceled"},
         \A p \in Operations \ {o} :
            state[p] \in {"Preparing", "Finalizing", "Renaming", "Completed", "Failed", "Canceled"} => working' = p,
         s \in {"Preparing", "Finalizing", "Renaming", "Completed", "Failed", "Canceled"} => working' = o
  PROVE  /\ WorkInv' /\ state' \in [Operations -> DownloadStates]
         /\ outcome' \in [Operations -> {"None", "Completed", "Failed", "Canceled", "Lost"}]
  <1>1. /\ state' \in [Operations -> DownloadStates] /\ state'[o] = s
        /\ \A p \in Operations : p # o => state'[p] = state[p]
    BY Moved
  <1>2. /\ outcome' \in [Operations -> {"None", "Completed", "Failed", "Canceled", "Lost"}]
        /\ \A p \in Operations : p # o => outcome'[p] = outcome[p]
        /\ outcome'[o] = IF s \in {"Completed", "Failed", "Canceled"} THEN s ELSE outcome[o]
    BY DEF BaseInv, TypeOK
  <1>3. outcome[o] = "Lost" => state[o] = "Destroyed"
    BY DEF BaseInv, WorkInv
  <1>4. outcome'[o] = "Lost" => s = "Destroyed"
    BY <1>2
  <1>5. outcome'[o] = "None" <=> s \in {"NotStarted", "Preparing", "Running", "Finalizing", "Renaming"}
    BY <1>2
  <1> QED
    BY <1>1, <1>2, <1>4, <1>5 DEF BaseInv, WorkInv

\* Only the operation at work is in a state of work().
LEMMA OthersRest ==
  ASSUME BaseInv, NEW o \in Operations, working = o \/ working = None, NEW p \in Operations \ {o}
  PROVE  state[p] \notin {"Preparing", "Finalizing", "Renaming", "Completed", "Failed", "Canceled"}
  BY Constants DEF BaseInv, WorkInv

\* What prepare() may open: the part file, emptied or continued, or nothing.
Preparation(o, f, bytes, from) ==
    /\ f \in FileState /\ bytes \in Seq(0..size) /\ from \in 0..size
    /\ \/ f = Closed
       \/ /\ f.open /\ ~f.app /\ f.pos = 0 /\ bytes = <<>> /\ from = 0
          /\ f.node \in Nodes /\ (IF part = NoNode THEN f.node \notin InUse ELSE f.node = part)
       \/ /\ f.open /\ f.app /\ options.tryContinue
          /\ part # NoNode /\ f.node = part /\ part \in Nodes
          /\ bytes = nodes[part] /\ from = Len(bytes) /\ f.pos = from
    /\ Prepared(o, f, bytes, from)

LEMMA PreparationFound ==
  ASSUME TypeOK, NEW o \in Operations, Preparing(o)
  PROVE  /\ working = o /\ state[o] = "Preparing" /\ (final = NoNode \/ options.mayOverwrite)
         /\ \E f, bytes, from : Preparation(o, f, bytes, from)
  <1>1. working = o /\ state[o] = "Preparing" /\ (final = NoNode \/ options.mayOverwrite)
    BY DEF Preparing, PrepareAnew, PrepareComplete, PrepareContinues, MayPrepare
  <1>2. <<>> \in Seq(0..size) /\ 0 \in 0..size
    BY Typed, EmptySeq
  <1>3. CASE PrepareAnew(o)
    <2> DEFINE f == Opened(Truncated, 0, FALSE)
    <2>1. Prepared(o, f, <<>>, 0)
      BY <1>3 DEF PrepareAnew
    <2>2. /\ Truncated \in Nodes /\ IF part = NoNode THEN Truncated \notin InUse ELSE Truncated = part
      BY FreeNodeIsFree DEF Truncated, TypeOK
    <2>3. f \in FileState /\ f.open /\ f.node = Truncated /\ f.pos = 0 /\ ~f.app
      BY ZenonT(60), <2>2, OpenedFile
    <2> HIDE DEF f
    <2>4. Preparation(o, f, <<>>, 0)
      BY <1>2, <2>1, <2>2, <2>3 DEF Preparation
    <2> QED
      BY <1>1, <2>4
  <1>4. CASE PrepareComplete(o)
    <2>1. Prepared(o, Closed, <<>>, 0)
      BY <1>4 DEF PrepareComplete
    <2>2. Preparation(o, Closed, <<>>, 0)
      BY <1>2, <2>1, Typed DEF Preparation
    <2> QED
      BY <1>1, <2>2
  <1>5. CASE PrepareContinues(o)
    <2> DEFINE bytes == nodes[part]
               f == Opened(part, Len(bytes), TRUE)
    <2>1. Prepared(o, f, bytes, Len(bytes)) /\ Existing < size
      BY <1>5 DEF PrepareContinues
    <2>2. options.tryContinue /\ part # NoNode /\ Len(bytes) < size
      BY <2>1, Typed DEF Existing
    <2>3. part \in Nodes /\ bytes \in Seq(0..size) /\ Len(bytes) \in Nat
      BY <2>2, Typed DEF TypeOK
    <2>4. Len(bytes) \in 0..size
      BY <2>2, <2>3, Typed
    <2>5. f \in FileState /\ f.open /\ f.node = part /\ f.pos = Len(bytes) /\ f.app
      BY <2>3, OpenedFile
    <2> HIDE DEF f
    <2>6. Preparation(o, f, bytes, Len(bytes))
      BY <2>1, <2>2, <2>3, <2>4, <2>5 DEF Preparation
    <2> QED
      BY <1>1, <2>6
  <1> QED
    BY <1>3, <1>4, <1>5 DEF Preparing

\* Reserving space makes the file as long as the remote file.
LEMMA ReservedBytes ==
  ASSUME TypeOK, NEW f \in FileState, NEW bytes \in Seq(0..size)
  PROVE  /\ Reserved(f, bytes) \in Seq(0..size)
         /\ ~options.reserveSpace => Reserved(f, bytes) = bytes
         /\ options.reserveSpace /\ f.open /\ ~f.app /\ bytes = <<>> => Len(Reserved(f, bytes)) = size
  <1>1. size \in Nat /\ 0 \in 0..size /\ Len(bytes) \in Nat
    BY Typed, LenProperties
  <1>2. <<0>> \in Seq(0..size) /\ Len(<<0>>) = 1
    BY <1>1
  <1>3. CASE options.reserveSpace /\ size # 0 /\ f.open
    <2> DEFINE at == IF f.app THEN Len(bytes) ELSE size - 1
    <2>1. at \in Nat /\ Reserved(f, bytes) = Written(bytes, at, <<0>>)
      BY <1>1, <1>3 DEF Reserved
    <2> HIDE DEF at
    <2>2. /\ Reserved(f, bytes) \in Seq(0..size)
          /\ Len(Reserved(f, bytes)) = IF Len(bytes) > at + 1 THEN Len(bytes) ELSE at + 1
      <3> DEFINE new == <<0>>
                 S == 0..size
      <3>1. new \in Seq(S) /\ Len(new) = 1 /\ 0 \in S /\ bytes \in Seq(S)
        BY <1>1, <1>2
      <3>2. Reserved(f, bytes) = Written(bytes, at, new)
        BY <2>1
      <3> HIDE DEF new, S
      <3>3. /\ Written(bytes, at, new) \in Seq(S)
            /\ Len(Written(bytes, at, new)) = IF Len(bytes) > at + Len(new) THEN Len(bytes) ELSE at + Len(new)
        BY <2>1, <3>1, WrittenBytes
      <3> QED
        BY <3>1, <3>2, <3>3 DEF S
    <2>3. ~f.app /\ bytes = <<>> => at = size - 1 /\ Len(bytes) = 0
      BY DEF at
    <2> QED
      BY <1>1, <1>3, <2>2, <2>3
  <1>4. CASE ~(options.reserveSpace /\ size # 0 /\ f.open)
    <2>1. Reserved(f, bytes) = bytes
      BY <1>4 DEF Reserved
    <2> QED
      BY <1>4, <2>1
  <1> QED
    BY <1>3, <1>4

\* The part of TypeOK and WorkInv that a phase of work() leaves to show.
LEMMA BaseKept ==
  ASSUME BaseInv, WorkInv', state' \in [Operations -> DownloadStates],
         outcome' \in [Operations -> {"None", "Completed", "Failed", "Canceled", "Lost"}],
         working' \in Operations \cup {None}, UNCHANGED <<options, size>>, happened' \subseteq Faults,
         file' \in [Operations -> FileState],
         \A p \in Operations : file'[p].open => state'[p] \in {"Running", "Finalizing"}, OpenInv',
         fileSize' \in [Operations -> {0, size}], offset' \in [Operations -> 0..size],
         nodes' \in [Nodes -> Seq(0..size)], part' \in Nodes \cup {NoNode},
         final' \in Nodes \cup {NoNode}, foreign' \in Nodes \cup {NoNode}
  PROVE  BaseInv'
  BY DEF BaseInv, TypeOK, FileState, OpenInv

\* Files after one of them is set.
LEMMA FileSet ==
  ASSUME BaseInv, NEW o \in Operations, NEW f \in FileState, file' = [file EXCEPT ![o] = f],
         NEW s \in DownloadStates, state' = [state EXCEPT ![o] = s],
         f.open => s \in {"Running", "Finalizing"} /\ f.node \in Nodes
  PROVE  /\ file' \in [Operations -> FileState] /\ file'[o] = f
         /\ \A p \in Operations : p # o => file'[p] = file[p]
         /\ \A p \in Operations : file'[p].open => state'[p] \in {"Running", "Finalizing"}
         /\ OpenInv'
  <1>1. file \in [Operations -> FileState]
    BY Typed DEF BaseInv
  <1>2. /\ file' \in [Operations -> FileState] /\ file'[o] = f
        /\ \A p \in Operations : p # o => file'[p] = file[p]
    BY <1>1
  <1>3. state'[o] = s /\ \A p \in Operations : p # o => state'[p] = state[p]
    BY Moved
  <1>4. \A p \in Operations : file[p].open => state[p] \in {"Running", "Finalizing"}
    BY DEF BaseInv, TypeOK
  <1>5. \A p \in Operations : file[p].open => file[p].node \in Nodes
    BY DEF BaseInv, OpenInv
  <1> QED
    BY <1>2, <1>3, <1>4, <1>5 DEF OpenInv

\* A phase that neither opens nor closes a file.
LEMMA FilesLeft ==
  ASSUME BaseInv, NEW o \in Operations, file' = file, NEW s \in DownloadStates, state' = [state EXCEPT ![o] = s],
         file[o].open => s \in {"Running", "Finalizing"}
  PROVE  /\ file' \in [Operations -> FileState] /\ OpenInv'
         /\ \A p \in Operations : file'[p].open => state'[p] \in {"Running", "Finalizing"}
  <1>1. state'[o] = s /\ \A p \in Operations : p # o => state'[p] = state[p]
    BY Moved
  <1> QED
    BY <1>1, Typed DEF BaseInv, TypeOK, OpenInv

LEMMA BytesSet ==
  ASSUME TypeOK, NEW k, NEW bytes \in Seq(0..size), nodes' = [nodes EXCEPT ![k] = bytes]
  PROVE  nodes' \in [Nodes -> Seq(0..size)]
  BY DEF TypeOK

LEMMA BeginWorkBase ==
  ASSUME BaseInv, NEW o \in Operations, BeginWork(o)
  PROVE  BaseInv'
  <1> DEFINE s == IF state[o] = "NotStarted" THEN "Preparing" ELSE state[o]
  <1>1. /\ working = None /\ working' = o /\ state[o] # "Destroyed" /\ state' = [state EXCEPT ![o] = s]
        /\ UNCHANGED <<options, size, happened, outcome, file, fileSize, offset, nodes, part, final, foreign>>
    BY DEF BeginWork, Turn, Unfinished, local
  <1>2. state[o] \in {"NotStarted", "Running"} /\ outcome[o] = "None"
    BY <1>1, Constants DEF BaseInv, WorkInv, TypeOK, DownloadStates
  <1>3. s \in {"Preparing", "Running"} /\ (file[o].open => s = "Running")
    BY <1>2 DEF BaseInv, TypeOK
  <1> HIDE DEF s
  <1>4. s \in DownloadStates
    BY <1>3 DEF DownloadStates
  <1>5. WorkInv' /\ state' \in [Operations -> DownloadStates]
    BY <1>1, <1>2, <1>3, <1>4, OthersRest, WorkMoved DEF BaseInv, TypeOK
  <1>6. /\ file' \in [Operations -> FileState] /\ OpenInv'
        /\ \A p \in Operations : file'[p].open => state'[p] \in {"Running", "Finalizing"}
    BY <1>1, <1>3, <1>4, FilesLeft
  <1> QED
    BY <1>1, <1>5, <1>6, BaseKept DEF BaseInv, TypeOK

LEMMA FailingBase ==
  ASSUME BaseInv, NEW o \in Operations, Failing(o)
  PROVE  BaseInv'
  <1>1. /\ working = o /\ state' = [state EXCEPT ![o] = "Failed"] /\ outcome' = [outcome EXCEPT ![o] = "Failed"]
        /\ file' = [file EXCEPT ![o] = Closed] /\ part' \in {part, NoNode}
        /\ UNCHANGED <<options, size, happened, working, fileSize, offset, nodes, final, foreign>>
    BY DEF Failing, Fail, PartAfterCleanup
  <1>2. "Failed" \in DownloadStates /\ Closed \in FileState /\ ~Closed.open
    BY Typed DEF DownloadStates, BaseInv
  <1>3. /\ WorkInv' /\ state' \in [Operations -> DownloadStates]
        /\ outcome' \in [Operations -> {"None", "Completed", "Failed", "Canceled", "Lost"}]
    BY <1>1, <1>2, OthersRest, WorkMoved
  <1>4. /\ file' \in [Operations -> FileState] /\ OpenInv'
        /\ \A p \in Operations : file'[p].open => state'[p] \in {"Running", "Finalizing"}
    BY <1>1, <1>2, FileSet
  <1> QED
    BY <1>1, <1>3, <1>4, BaseKept DEF BaseInv, TypeOK

LEMMA PreparingBase ==
  ASSUME BaseInv, NEW o \in Operations, Preparing(o)
  PROVE  BaseInv'
  <1>1. working = o /\ state[o] = "Preparing"
    BY PreparationFound DEF BaseInv
  <1>2. PICK f, bytes, from : Preparation(o, f, bytes, from)
    BY PreparationFound DEF BaseInv
  <1>3. /\ state' = [state EXCEPT ![o] = "Running"] /\ fileSize' = [fileSize EXCEPT ![o] = size]
        /\ file' = [file EXCEPT ![o] = f] /\ offset' = [offset EXCEPT ![o] = from]
        /\ nodes' = nodes \/ nodes' = [nodes EXCEPT ![f.node] = Reserved(f, bytes)]
        /\ part' = IF f.open THEN f.node ELSE part
        /\ UNCHANGED <<options, size, happened, outcome, working, final, foreign>>
    BY <1>2 DEF Preparation, Prepared
  <1>4. /\ f \in FileState /\ bytes \in Seq(0..size) /\ from \in 0..size /\ (f.open => f.node \in Nodes)
    BY <1>2, Typed DEF Preparation, BaseInv
  <1>5. "Running" \in DownloadStates /\ outcome[o] = "None"
    BY <1>1 DEF DownloadStates, BaseInv, WorkInv
  <1>6. WorkInv' /\ state' \in [Operations -> DownloadStates]
    BY <1>1, <1>3, <1>5, OthersRest, WorkMoved
  <1>7. /\ file' \in [Operations -> FileState] /\ OpenInv'
        /\ \A p \in Operations : file'[p].open => state'[p] \in {"Running", "Finalizing"}
    BY <1>3, <1>4, <1>5, FileSet
  <1>8. nodes' \in [Nodes -> Seq(0..size)]
    <2>1. Reserved(f, bytes) \in Seq(0..size)
      BY <1>4, ReservedBytes DEF BaseInv
    <2> QED
      BY <1>3, <2>1, BytesSet DEF BaseInv, TypeOK
  <1>9. fileSize' \in [Operations -> {0, size}] /\ offset' \in [Operations -> 0..size]
    BY <1>3, <1>4 DEF BaseInv, TypeOK
  <1>10. part' \in Nodes \cup {NoNode}
    BY <1>3, <1>4 DEF BaseInv, TypeOK
  <1> QED
    BY <1>1, <1>3, <1>6, <1>7, <1>8, <1>9, <1>10, BaseKept DEF BaseInv, TypeOK

LEMMA ReadEndsBase ==
  ASSUME BaseInv, NEW o \in Operations, ReadEnds(o)
  PROVE  BaseInv'
  <1>1. /\ working = o /\ state[o] = "Running" /\ state' = [state EXCEPT ![o] = "Finalizing"]
        /\ UNCHANGED <<options, size, happened, outcome, working, file, fileSize, offset, nodes, part, final, foreign>>
    BY DEF ReadEnds, local
  <1>2. "Finalizing" \in DownloadStates /\ outcome[o] = "None"
    BY <1>1 DEF DownloadStates, BaseInv, WorkInv
  <1>3. WorkInv' /\ state' \in [Operations -> DownloadStates]
    BY <1>1, <1>2, OthersRest, WorkMoved
  <1>4. /\ file' \in [Operations -> FileState] /\ OpenInv'
        /\ \A p \in Operations : file'[p].open => state'[p] \in {"Running", "Finalizing"}
    BY <1>1, <1>2, FilesLeft
  <1> QED
    BY <1>1, <1>3, <1>4, BaseKept DEF BaseInv, TypeOK

LEMMA ReadCannotWriteBase ==
  ASSUME BaseInv, NEW o \in Operations, ReadCannotWrite(o)
  PROVE  BaseInv'
  <1>1. /\ working = o /\ state[o] = "Running" /\ state' = [state EXCEPT ![o] = "Finalizing"]
        /\ file' = [file EXCEPT ![o] = Closed] /\ part' \in {part, NoNode}
        /\ "disk" \in Faults /\ happened' = happened \cup {"disk"}
        /\ UNCHANGED <<options, size, outcome, working, fileSize, offset, nodes, final, foreign>>
    BY DEF ReadCannotWrite, PartAfterCleanup
  <1>2. "Finalizing" \in DownloadStates /\ outcome[o] = "None" /\ Closed \in FileState /\ ~Closed.open
    BY <1>1, Typed DEF DownloadStates, BaseInv, WorkInv
  <1>3. WorkInv' /\ state' \in [Operations -> DownloadStates]
    BY <1>1, <1>2, OthersRest, WorkMoved
  <1>4. /\ file' \in [Operations -> FileState] /\ OpenInv'
        /\ \A p \in Operations : file'[p].open => state'[p] \in {"Running", "Finalizing"}
    BY <1>1, <1>2, FileSet
  <1>5. happened' \subseteq Faults
    BY <1>1 DEF BaseInv, TypeOK
  <1> QED
    BY <1>1, <1>3, <1>4, <1>5, BaseKept DEF BaseInv, TypeOK

LEMMA PositionMoved ==
  ASSUME NEW f \in FileState, NEW pos \in Nat, NEW u \in 0..BufferSize
  PROVE  LET g == [f EXCEPT !.pos = pos, !.unflushed = u]
         IN  g \in FileState /\ g.node = f.node /\ g.open = f.open /\ g.app = f.app /\ g.pos = pos
  <1> DEFINE h == [f EXCEPT !.pos = pos]
  <1>1. h \in FileState /\ h.node = f.node /\ h.open = f.open /\ h.app = f.app /\ h.pos = pos
    BY DEF FileState
  <1> HIDE DEF h
  <1> DEFINE g == [h EXCEPT !.unflushed = u]
  <1>2. g \in FileState /\ g.node = h.node /\ g.open = h.open /\ g.app = h.app /\ g.pos = h.pos
    BY <1>1 DEF FileState
  <1> HIDE DEF g
  <1>3. g = [f EXCEPT !.pos = pos, !.unflushed = u]
    BY DEF g, h
  <1> QED
    BY <1>1, <1>2, <1>3

\* A read of n bytes and what becomes of them.
LEMMA WroteFound ==
  ASSUME BaseInv, NEW o \in Operations, NEW n \in 1..BufferSize, ReadWrites(o, n)
  PROVE  LET k   == file[o].node
             at  == WritePosition(file[o])
             new == SubSeq(Remote, offset[o] + 1, offset[o] + n)
         IN  /\ working = o /\ state[o] = "Running" /\ file[o].open /\ k \in Nodes /\ at \in Nat
             /\ offset[o] \in Nat /\ offset[o] + n <= size /\ n \in Nat /\ n >= 1
             /\ new \in Seq(0..size) /\ Len(new) = n /\ \A i \in 1..n : new[i] = offset[o] + i
             /\ nodes' = [nodes EXCEPT ![k] = Written(nodes[k], at, new)]
             /\ nodes[k] \in Seq(0..size) /\ Written(nodes[k], at, new) \in Seq(0..size)
             /\ file' = [file EXCEPT ![o] = [file[o] EXCEPT !.pos = at + n, !.unflushed = n]]
             /\ [file[o] EXCEPT !.pos = at + n, !.unflushed = n] \in FileState
             /\ offset' = [offset EXCEPT ![o] = @ + n]
             /\ \/ state' = [state EXCEPT ![o] = "Running"] /\ working' = None /\ at + n < fileSize[o]
                \/ state' = [state EXCEPT ![o] = "Finalizing"] /\ working' = o /\ ~(at + n < fileSize[o])
             /\ UNCHANGED <<options, size, happened, outcome, fileSize, part, final, foreign>>
  <1> DEFINE k == file[o].node
             at == WritePosition(file[o])
             new == SubSeq(Remote, offset[o] + 1, offset[o] + n)
             g == [file[o] EXCEPT !.pos = at + n, !.unflushed = n]
  <1>1. working = o /\ state[o] = "Running" /\ file[o].open /\ offset[o] + n <= size /\ Wrote(o, n, at + n < fileSize[o])
    BY DEF ReadWrites, MayRead
  <1>2. k \in Nodes /\ n \in Nat /\ n >= 1
    BY <1>1, Constants DEF BaseInv, OpenInv
  <1>3. nodes[k] \in Seq(0..size) /\ Len(nodes[k]) \in Nat /\ file[o] \in FileState /\ size \in Nat /\ 0 \in 0..size
    BY <1>2, Typed DEF BaseInv
  <1>4. at \in Nat
    BY <1>3 DEF WritePosition, FileState
  <1>5. offset[o] \in 0..size
    BY DEF BaseInv, TypeOK
  <1>6. offset[o] \in Nat
    BY <1>3, <1>5
  <1>7. new \in Seq(0..size) /\ Len(new) = n /\ \A i \in 1..n : new[i] = offset[o] + i
    BY <1>1, <1>2, <1>3, <1>6, RemoteBytes
  <1>8. /\ nodes' = [nodes EXCEPT ![k] = Written(@, at, new)]
        /\ file' = [file EXCEPT ![o].pos = at + n, ![o].unflushed = n]
        /\ offset' = [offset EXCEPT ![o] = @ + n]
        /\ state' = [state EXCEPT ![o] = IF at + n < fileSize[o] THEN "Running" ELSE "Finalizing"]
        /\ working' = IF at + n < fileSize[o] THEN None ELSE o
        /\ UNCHANGED <<options, size, happened, outcome, fileSize, part, final, foreign>>
    BY <1>1 DEF Wrote
  <1>9. Written(nodes[k], at, new) \in Seq(0..size)
    <2> HIDE DEF new, at, k
    <2> QED
      BY <1>3, <1>4, <1>7, WrittenBytes
  <1>10. file' = [file EXCEPT ![o] = g]
    <2> HIDE DEF at
    <2> QED
      BY <1>8, Typed DEF BaseInv
  <1>11. g \in FileState
    <2>1. at + n \in Nat /\ n \in 0..BufferSize
      BY <1>2, <1>4, Constants
    <2> HIDE DEF at
    <2> QED
      BY <1>3, <2>1, PositionMoved
  <1>12. \/ state' = [state EXCEPT ![o] = "Running"] /\ working' = None /\ at + n < fileSize[o]
         \/ state' = [state EXCEPT ![o] = "Finalizing"] /\ working' = o /\ ~(at + n < fileSize[o])
    BY <1>8
  <1>13. nodes' = [nodes EXCEPT ![k] = Written(nodes[k], at, new)]
    BY <1>8
  <1> HIDE DEF g, at, new, k
  <1> QED
    BY <1>1, <1>2, <1>3, <1>4, <1>6, <1>7, <1>8, <1>9, <1>10, <1>11, <1>12, <1>13 DEF g, at, new, k

LEMMA ReadWritesBase ==
  ASSUME BaseInv, NEW o \in Operations, NEW n \in 1..BufferSize, ReadWrites(o, n)
  PROVE  BaseInv'
  <1> DEFINE k == file[o].node
             at == WritePosition(file[o])
             new == SubSeq(Remote, offset[o] + 1, offset[o] + n)
             bytes == Written(nodes[k], at, new)
             g == [file[o] EXCEPT !.pos = at + n, !.unflushed = n]
  <1>1. /\ working = o /\ state[o] = "Running" /\ file[o].open /\ k \in Nodes
        /\ nodes' = [nodes EXCEPT ![k] = bytes] /\ bytes \in Seq(0..size)
        /\ file' = [file EXCEPT ![o] = g] /\ g \in FileState
        /\ \/ state' = [state EXCEPT ![o] = "Running"] /\ working' = None
           \/ state' = [state EXCEPT ![o] = "Finalizing"] /\ working' = o
        /\ UNCHANGED <<options, size, happened, outcome, fileSize, part, final, foreign>>
    BY WroteFound
  <1>2. g.node = k
    BY Typed DEF BaseInv, FileState
  <1>3. offset' \in [Operations -> 0..size]
    <2>1. /\ offset' = [offset EXCEPT ![o] = @ + n] /\ offset[o] \in Nat /\ offset[o] + n <= size
          /\ n \in Nat
      BY WroteFound
    <2>2. offset[o] + n \in 0..size
      BY <2>1, Typed DEF BaseInv
    <2> QED
      BY <2>1, <2>2 DEF BaseInv, TypeOK
  <1> HIDE DEF g, bytes, k
  <1>4. PICK s \in {"Running", "Finalizing"} : /\ state' = [state EXCEPT ![o] = s]
                                               /\ working' \in {None, o} /\ (s = "Finalizing" => working' = o)
    BY <1>1
  <1>5. s \in DownloadStates /\ outcome[o] = "None"
    BY <1>1, <1>4 DEF DownloadStates, BaseInv, WorkInv
  <1>6. WorkInv' /\ state' \in [Operations -> DownloadStates]
    BY <1>1, <1>4, <1>5, OthersRest, WorkMoved
  <1>7. /\ file' \in [Operations -> FileState] /\ OpenInv'
        /\ \A p \in Operations : file'[p].open => state'[p] \in {"Running", "Finalizing"}
    BY <1>1, <1>2, <1>4, <1>5, FileSet
  <1>8. nodes' \in [Nodes -> Seq(0..size)]
    BY <1>1, BytesSet DEF BaseInv
  <1> QED
    BY <1>1, <1>3, <1>4, <1>6, <1>7, <1>8, BaseKept DEF BaseInv, TypeOK

\* finalize() closes the file, whose last bytes may be lost.
LEMMA FinalizeBase ==
  ASSUME BaseInv, NEW o \in Operations, Finalize(o) \/ FinalizeCannotFlush(o)
  PROVE  BaseInv'
  <1>1. /\ working = o /\ state[o] = "Finalizing" /\ state' = [state EXCEPT ![o] = "Renaming"]
        /\ file' = [file EXCEPT ![o] = Closed]
        /\ UNCHANGED <<options, size, outcome, working, fileSize, offset, part, final, foreign>>
    BY DEF Finalize, FinalizeCannotFlush, Finalized
  <1>2. "Renaming" \in DownloadStates /\ outcome[o] = "None" /\ Closed \in FileState /\ ~Closed.open
    BY <1>1, Typed DEF DownloadStates, BaseInv, WorkInv
  <1>3. WorkInv' /\ state' \in [Operations -> DownloadStates]
    BY <1>1, <1>2, OthersRest, WorkMoved
  <1>4. /\ file' \in [Operations -> FileState] /\ OpenInv'
        /\ \A p \in Operations : file'[p].open => state'[p] \in {"Running", "Finalizing"}
    BY <1>1, <1>2, FileSet
  <1>5. nodes' \in [Nodes -> Seq(0..size)] /\ happened' \subseteq Faults
    <2>1. CASE Finalize(o)
      BY <2>1 DEF Finalize, BaseInv, TypeOK
    <2>2. CASE FinalizeCannotFlush(o)
      <3> DEFINE k == file[o].node
                 less == Len(nodes[k]) - file[o].unflushed
      <3>1. /\ file[o].open /\ nodes' = [nodes EXCEPT ![k] = SubSeq(nodes[k], 1, less)]
            /\ "disk" \in Faults /\ happened' = happened \cup {"disk"}
        BY <2>2 DEF FinalizeCannotFlush
      <3>2. k \in Nodes
        BY <3>1 DEF BaseInv, OpenInv
      <3>3. nodes[k] \in Seq(0..size) /\ Len(nodes[k]) \in Nat /\ file[o].unflushed \in Nat
        BY <3>2, Typed, Constants DEF BaseInv, FileState
      <3>4. less \in Int /\ less <= Len(nodes[k])
        BY <3>3
      <3> HIDE DEF less
      <3>5. SubSeq(nodes[k], 1, less) \in Seq(0..size)
        BY <3>3, <3>4, ShortenedBytes
      <3> QED
        BY <3>1, <3>5, BytesSet DEF BaseInv, TypeOK
    <2> QED
      BY <2>1, <2>2
  <1> QED
    BY <1>1, <1>3, <1>4, <1>5, BaseKept DEF BaseInv, TypeOK

LEMMA RenameBase ==
  ASSUME BaseInv, NEW o \in Operations, Rename(o)
  PROVE  BaseInv'
  <1>1. /\ working = o /\ state[o] = "Renaming" /\ final' = part /\ part' = NoNode
        /\ UNCHANGED <<options, size, happened, working, file, fileSize, offset, nodes, foreign>>
    BY DEF Rename
  <1>2. PICK s \in {"Completed", "Failed"} :
            state' = [state EXCEPT ![o] = s] /\ outcome' = [outcome EXCEPT ![o] = s]
    BY DEF Rename
  <1>3. s \in DownloadStates /\ ~file[o].open
    BY <1>1 DEF DownloadStates, BaseInv, TypeOK
  <1>4. /\ WorkInv' /\ state' \in [Operations -> DownloadStates]
        /\ outcome' \in [Operations -> {"None", "Completed", "Failed", "Canceled", "Lost"}]
    BY <1>1, <1>2, <1>3, OthersRest, WorkMoved
  <1>5. /\ file' \in [Operations -> FileState] /\ OpenInv'
        /\ \A p \in Operations : file'[p].open => state'[p] \in {"Running", "Finalizing"}
    BY <1>1, <1>2, <1>3, FilesLeft
  <1> QED
    BY <1>1, <1>4, <1>5, BaseKept DEF BaseInv, TypeOK

LEMMA DestroyBase ==
  ASSUME BaseInv, NEW o \in Operations, Destroy(o)
  PROVE  BaseInv'
  <1>1. /\ working = o /\ state[o] \in {"Completed", "Failed", "Canceled"} /\ working' = None
        /\ state' = [state EXCEPT ![o] = "Destroyed"] /\ part' \in {part, NoNode}
        /\ UNCHANGED <<options, size, happened, outcome, file, fileSize, offset, nodes, final, foreign>>
    BY DEF Destroy, PartAfterCleanup
  <1>2. "Destroyed" \in DownloadStates /\ ~file[o].open /\ outcome[o] # "None"
    BY <1>1 DEF DownloadStates, BaseInv, TypeOK, WorkInv
  <1>3. /\ WorkInv' /\ state' \in [Operations -> DownloadStates]
        /\ outcome' \in [Operations -> {"None", "Completed", "Failed", "Canceled", "Lost"}]
    BY <1>1, <1>2, OthersRest, WorkMoved
  <1>4. /\ file' \in [Operations -> FileState] /\ OpenInv'
        /\ \A p \in Operations : file'[p].open => state'[p] \in {"Running", "Finalizing"}
    BY <1>1, <1>2, FilesLeft
  <1> QED
    BY <1>1, <1>3, <1>4, BaseKept DEF BaseInv, TypeOK

LEMMA CancelBase ==
  ASSUME BaseInv, NEW o \in Operations, Cancel(o)
  PROVE  BaseInv'
  <1>1. /\ working = None /\ working' = o /\ state' = [state EXCEPT ![o] = "Canceled"]
        /\ outcome' = [outcome EXCEPT ![o] = "Canceled"]
        /\ file' = [file EXCEPT ![o] = Closed] /\ part' \in {part, NoNode}
        /\ UNCHANGED <<options, size, happened, fileSize, offset, nodes, final, foreign>>
    BY DEF Cancel, PartAfterCleanup
  <1>2. "Canceled" \in DownloadStates /\ Closed \in FileState /\ ~Closed.open
    BY Typed DEF DownloadStates, BaseInv
  <1>3. /\ WorkInv' /\ state' \in [Operations -> DownloadStates]
        /\ outcome' \in [Operations -> {"None", "Completed", "Failed", "Canceled", "Lost"}]
    BY <1>1, <1>2, OthersRest, WorkMoved
  <1>4. /\ file' \in [Operations -> FileState] /\ OpenInv'
        /\ \A p \in Operations : file'[p].open => state'[p] \in {"Running", "Finalizing"}
    BY <1>1, <1>2, FileSet
  <1> QED
    BY <1>1, <1>3, <1>4, BaseKept DEF BaseInv, TypeOK

LEMMA OthersCreateBase ==
  ASSUME BaseInv, OthersCreate
  PROVE  BaseInv'
  <1>1. /\ final' = FreeNode /\ foreign' = FreeNode /\ FreeNode \in Nodes
        /\ nodes' = [nodes EXCEPT ![FreeNode] = <<0>>]
        /\ happened' = happened \/ ("race" \in Faults /\ happened' = happened \cup {"race"})
        /\ UNCHANGED <<options, size, state, outcome, working, file, fileSize, offset, part>>
    BY FreeNodeIsFree DEF OthersCreate
  <1>2. <<0>> \in Seq(0..size)
    BY Typed DEF BaseInv
  <1>3. nodes' \in [Nodes -> Seq(0..size)] /\ happened' \subseteq Faults
    BY <1>1, <1>2, BytesSet DEF BaseInv, TypeOK
  <1>4. WorkInv' /\ OpenInv'
    BY <1>1 DEF BaseInv, WorkInv, OpenInv
  <1> QED
    BY <1>1, <1>3, <1>4, BaseKept, Typed DEF BaseInv, TypeOK

LEMMA CrashBase ==
  ASSUME BaseInv, Crash
  PROVE  BaseInv'
  <1>1. /\ state' = [o \in Operations |-> IF state[o] = "NotStarted" THEN "NotStarted" ELSE "Destroyed"]
        /\ outcome' = [o \in Operations |->
                          IF state[o] # "NotStarted" /\ outcome[o] = "None" THEN "Lost" ELSE outcome[o]]
        /\ working' = None /\ file' = [o \in Operations |-> Closed]
        /\ UNCHANGED <<options, size, happened, fileSize, offset, part, final, foreign>>
    BY DEF Crash
  <1>2. state' \in [Operations -> DownloadStates]
    BY <1>1 DEF DownloadStates
  <1>3. outcome' \in [Operations -> {"None", "Completed", "Failed", "Canceled", "Lost"}]
    BY <1>1 DEF BaseInv, TypeOK
  <1>4. WorkInv'
    <2>1. ASSUME NEW o \in Operations PROVE state[o] = "NotStarted" => outcome[o] = "None"
      BY DEF BaseInv, WorkInv
    <2>2. ASSUME NEW o \in Operations
          PROVE  /\ state'[o] \in {"NotStarted", "Destroyed"}
                 /\ outcome'[o] = "None" <=> state'[o] = "NotStarted"
      BY <1>1, <2>1
    <2> QED
      BY <1>1, <2>2 DEF WorkInv
  <1>5. /\ file' \in [Operations -> FileState] /\ \A o \in Operations : ~file'[o].open
    BY <1>1, Typed DEF BaseInv
  <1>6. nodes' \in [Nodes -> Seq(0..size)]
    <2>1. PICK kept \in 0..size :
             nodes' = IF part = NoNode THEN nodes
                      ELSE [nodes EXCEPT ![part] = SubSeq(@, 1, IF kept < Len(@) THEN kept ELSE Len(@))]
      BY DEF Crash
    <2>2. CASE part = NoNode
      BY <2>1, <2>2 DEF BaseInv, TypeOK
    <2>3. CASE part # NoNode
      <3> DEFINE n == IF kept < Len(nodes[part]) THEN kept ELSE Len(nodes[part])
      <3>1. nodes' = [nodes EXCEPT ![part] = SubSeq(nodes[part], 1, n)]
        BY <2>1, <2>3
      <3>2. nodes[part] \in Seq(0..size) /\ Len(nodes[part]) \in Nat
        BY <2>3, Typed DEF BaseInv, TypeOK
      <3>3. n \in Int /\ n <= Len(nodes[part])
        BY <3>2, Typed DEF BaseInv
      <3> HIDE DEF n
      <3>4. SubSeq(nodes[part], 1, n) \in Seq(0..size)
        BY <3>2, <3>3, ShortenedBytes
      <3> QED
        BY <3>1, <3>4, BytesSet DEF BaseInv
    <2> QED
      BY <2>2, <2>3
  <1>7. OpenInv' /\ \A p \in Operations : file'[p].open => state'[p] \in {"Running", "Finalizing"}
    BY <1>5 DEF OpenInv
  <1> QED
    BY <1>1, <1>2, <1>3, <1>4, <1>5, <1>6, <1>7, BaseKept DEF BaseInv, TypeOK

LEMMA BaseStep == BaseInv /\ [Next]_vars => BaseInv'
  <1> SUFFICES ASSUME BaseInv, [Next]_vars PROVE BaseInv'
    OBVIOUS
  <1>1. CASE UNCHANGED vars
    BY <1>1 DEF vars, BaseInv, TypeOK, WorkInv, OpenInv
  <1> QED
    BY <1>1, Steps, OthersCreateBase, CrashBase, BeginWorkBase, FailingBase, PreparingBase, ReadEndsBase,
       ReadCannotWriteBase, ReadWritesBase, FinalizeBase, RenameBase, DestroyBase, CancelBase

LEMMA BaseInitOK == Init => BaseInv
  <1> SUFFICES ASSUME Init PROVE BaseInv
    OBVIOUS
  <1>1. size \in Nat /\ 0 \in 0..BufferSize /\ <<>> \in Seq(0..size)
    BY Constants, EmptySeq DEF Init
  <1>2. Closed \in FileState /\ ~Closed.open
    BY <1>1 DEF Closed, FileState
  <1>3. /\ state \in [Operations -> DownloadStates] /\ \A o \in Operations : state[o] = "NotStarted"
        /\ outcome \in [Operations -> {"None", "Completed", "Failed", "Canceled", "Lost"}]
        /\ \A o \in Operations : outcome[o] = "None"
        /\ file \in [Operations -> FileState] /\ \A o \in Operations : ~file[o].open
    BY <1>2 DEF Init, DownloadStates
  <1>4. WorkInv /\ OpenInv
    BY <1>3 DEF WorkInv, OpenInv
  <1>5. /\ fileSize \in [Operations -> {0, size}] /\ offset \in [Operations -> 0..size]
        /\ nodes \in [Nodes -> Seq(0..size)]
        /\ options \in Options /\ size \in Sizes /\ happened \subseteq Faults
        /\ working = None /\ part = NoNode /\ final = NoNode /\ foreign = NoNode
    BY <1>1 DEF Init
  <1> QED
    BY <1>3, <1>4, <1>5 DEF BaseInv, TypeOK, FileState

(* Types: every state a download goes through is one the code knows, and a *)
(* file is open only while its operation reads.                            *)
THEOREM DownloadTypeCorrect == Spec => []TypeOK
  <1>1. BaseInv => TypeOK
    BY DEF BaseInv
  <1> QED
    BY <1>1, BaseStep, BaseInitOK, PTL DEF Spec

-----------------------------------------------------------------------------
(* The part file is cleaned up. *)

\* A part file that is to be cleaned up has an operation that will do it,
\* or the program died over it.
CleanInv ==
    options.doCleanup /\ part # NoNode =>
        \E o \in Operations : state[o] \in {"Running", "Finalizing", "Renaming"} \/ outcome[o] = "Lost"

LEMMA CleanStep == BaseInv /\ CleanInv /\ [Next]_vars => CleanInv'
  <1> SUFFICES ASSUME BaseInv, CleanInv, [Next]_vars, options'.doCleanup, part' # NoNode
               PROVE  \E o \in Operations : state'[o] \in {"Running", "Finalizing", "Renaming"} \/ outcome'[o] = "Lost"
    BY DEF CleanInv
  <1> USE DEF CleanInv
  <1>1. CASE UNCHANGED vars
    BY <1>1 DEF vars
  <1>2. CASE OthersCreate
    BY <1>2 DEF OthersCreate
  <1>3. CASE Crash
    <2>1. /\ \A p \in Operations :
                outcome'[p] = IF state[p] # "NotStarted" /\ outcome[p] = "None" THEN "Lost" ELSE outcome[p]
          /\ UNCHANGED <<options, part>>
      BY <1>3 DEF Crash
    <2>2. PICK p \in Operations : state[p] \in {"Running", "Finalizing", "Renaming"} \/ outcome[p] = "Lost"
      BY <2>1
    <2> QED
      BY <2>1, <2>2 DEF BaseInv, WorkInv
  <1>4. ASSUME NEW o \in Operations, BeginWork(o)
        PROVE  \E p \in Operations : state'[p] \in {"Running", "Finalizing", "Renaming"} \/ outcome'[p] = "Lost"
    <2>1. /\ state' = [state EXCEPT ![o] = IF @ = "NotStarted" THEN "Preparing" ELSE @]
          /\ UNCHANGED <<options, part, outcome>>
      BY <1>4 DEF BeginWork, local
    <2>2. PICK p \in Operations : state[p] \in {"Running", "Finalizing", "Renaming"} \/ outcome[p] = "Lost"
      BY <2>1
    <2>3. state[p] # "NotStarted" => state'[p] = state[p]
      BY <2>1 DEF BaseInv, TypeOK
    <2> QED
      BY <2>1, <2>2, <2>3
  <1>5. ASSUME NEW o \in Operations,
               \/ Preparing(o) \/ ReadEnds(o) \/ ReadCannotWrite(o) \/ \E n \in 1..BufferSize : ReadWrites(o, n)
               \/ Finalize(o) \/ FinalizeCannotFlush(o)
        PROVE  \E p \in Operations : state'[p] \in {"Running", "Finalizing", "Renaming"} \/ outcome'[p] = "Lost"
    <2>1. ASSUME Preparing(o) PROVE state' = [state EXCEPT ![o] = "Running"]
      BY <2>1, PreparationFound DEF BaseInv, Preparation, Prepared
    <2>2. \E s \in {"Running", "Finalizing", "Renaming"} : state' = [state EXCEPT ![o] = s]
      BY <1>5, <2>1, WroteFound DEF ReadEnds, ReadCannotWrite, Finalize, FinalizeCannotFlush
    <2> QED
      BY <2>2 DEF BaseInv, TypeOK
  <1>6. ASSUME NEW o \in Operations, Failing(o) \/ Rename(o) \/ Destroy(o) \/ Cancel(o)
        PROVE  FALSE
    BY <1>6 DEF Failing, Fail, Rename, Destroy, Cancel, PartAfterCleanup
  <1> QED
    BY <1>1, <1>2, <1>3, <1>4, <1>5, <1>6, Steps

(* With doCleanup no part file is left once every operation is over,       *)
(* unless the program died: also when operations that run in parallel or   *)
(* are cancelled share it.                                                 *)
THEOREM NoPartFileIsLeft == Spec => []PartIsCleanedUp
  <1>1. Init => CleanInv
    BY DEF Init, CleanInv
  <1>2. BaseInv /\ CleanInv => PartIsCleanedUp
    BY DEF CleanInv, PartIsCleanedUp, Unfinished
  <1> QED
    BY <1>1, <1>2, BaseStep, BaseInitOK, CleanStep, PTL DEF Spec

-----------------------------------------------------------------------------
(* The file of another program survives. *)

\* No operation has the other program's file.
Apart ==
    foreign # NoNode => part # foreign /\ \A o \in Operations : file[o].open => file[o].node # foreign

\* Between the check and the renaming there is no local file.
Survives ==
    "race" \notin happened /\ ~options.mayOverwrite =>
        /\ foreign # NoNode => final = foreign /\ nodes[foreign] = <<0>>
        /\ \A o \in Operations : state[o] = "Renaming" => final = NoNode

ForeignInv == Apart /\ Survives

\* A step that leaves the local file and what belongs to the other program.
LEMMA ForeignKept ==
  ASSUME BaseInv, ForeignInv, UNCHANGED <<options, foreign, final>>, happened \subseteq happened',
         part' \in {part, NoNode}, foreign # NoNode => nodes'[foreign] = nodes[foreign],
         \A o \in Operations : file'[o].open => file[o].open /\ file'[o].node = file[o].node,
         \A o \in Operations : state'[o] = "Renaming" =>
                state[o] = "Renaming" \/ final = NoNode \/ options.mayOverwrite
  PROVE  ForeignInv'
  <1>1. Apart'
    BY DEF ForeignInv, Apart
  <1>2. Survives'
    BY DEF ForeignInv, Survives
  <1> QED
    BY <1>1, <1>2 DEF ForeignInv

\* The same for a step of one operation that at most closes its file.
LEMMA ForeignKeptBy ==
  ASSUME BaseInv, ForeignInv, UNCHANGED <<options, foreign, final>>, happened \subseteq happened',
         part' \in {part, NoNode}, foreign # NoNode => nodes'[foreign] = nodes[foreign],
         NEW o \in Operations, NEW s \in DownloadStates, state' = [state EXCEPT ![o] = s],
         s = "Renaming" => final = NoNode \/ options.mayOverwrite,
         file' = file \/ file' = [file EXCEPT ![o] = Closed]
  PROVE  ForeignInv'
  <1>1. state'[o] = s /\ \A p \in Operations : p # o => state'[p] = state[p]
    BY Moved
  <1>2. \A p \in Operations : file'[p].open => file[p].open /\ file'[p].node = file[p].node
    BY Typed DEF BaseInv
  <1> QED
    BY <1>1, <1>2, ForeignKept

LEMMA ForeignStep == BaseInv /\ ForeignInv /\ [Next]_vars => ForeignInv'
  <1> SUFFICES ASSUME BaseInv, ForeignInv, [Next]_vars PROVE ForeignInv'
    OBVIOUS
  <1>1. CASE UNCHANGED vars
    BY <1>1 DEF vars, ForeignInv, Apart, Survives
  <1>2. CASE OthersCreate
    <2>1. /\ final' = FreeNode /\ foreign' = FreeNode /\ FreeNode \in Nodes /\ FreeNode \notin InUse
          /\ nodes' = [nodes EXCEPT ![FreeNode] = <<0>>]
          /\ IF \E o \in Operations : state[o] = "Renaming"
             THEN happened' = happened \cup {"race"} ELSE UNCHANGED happened
          /\ UNCHANGED <<options, state, file, part>>
      BY <1>2, FreeNodeIsFree DEF OthersCreate
    <2>2. Apart'
      BY <2>1 DEF Apart, InUse
    <2>3. nodes'[foreign'] = <<0>>
      BY <2>1 DEF BaseInv, TypeOK
    <2>4. Survives'
      BY <2>1, <2>3 DEF Survives
    <2> QED
      BY <2>2, <2>4 DEF ForeignInv
  <1>3. CASE Crash
    <2>1. /\ \A o \in Operations : state'[o] \in {"NotStarted", "Destroyed"} /\ ~file'[o].open
          /\ UNCHANGED <<options, happened, part, final, foreign>>
          /\ nodes' = nodes \/ \E bytes : nodes' = [nodes EXCEPT ![part] = bytes]
      BY <1>3 DEF Crash, Closed
    <2>2. foreign # NoNode => nodes'[foreign] = nodes[foreign]
      BY <2>1 DEF ForeignInv, Apart, BaseInv, TypeOK
    <2> QED
      BY <2>1, <2>2, ForeignKept
  <1>4. ASSUME NEW o \in Operations, BeginWork(o) PROVE ForeignInv'
    <2>1. /\ state' = [state EXCEPT ![o] = IF @ = "NotStarted" THEN "Preparing" ELSE @]
          /\ UNCHANGED <<options, happened, file, nodes, part, final, foreign>>
      BY <1>4 DEF BeginWork, local
    <2>2. \A p \in Operations : state'[p] = "Renaming" => state[p] = "Renaming"
      BY <2>1 DEF BaseInv, TypeOK
    <2> QED
      BY <2>1, <2>2, ForeignKept
  <1>5. ASSUME NEW o \in Operations, Failing(o) \/ ReadEnds(o) \/ ReadCannotWrite(o) \/ Destroy(o) \/ Cancel(o)
        PROVE  ForeignInv'
    <2>1. /\ \E s \in {"Failed", "Finalizing", "Destroyed", "Canceled"} : state' = [state EXCEPT ![o] = s]
          /\ file' = file \/ file' = [file EXCEPT ![o] = Closed]
          /\ part' \in {part, NoNode} /\ happened \subseteq happened'
          /\ UNCHANGED <<options, nodes, final, foreign>>
      BY <1>5 DEF Failing, Fail, ReadEnds, ReadCannotWrite, Destroy, Cancel, PartAfterCleanup, local
    <2> QED
      BY <2>1, ForeignKeptBy DEF DownloadStates
  <1>6. ASSUME NEW o \in Operations, Preparing(o) PROVE ForeignInv'
    <2>1. PICK f, bytes, from : Preparation(o, f, bytes, from)
      BY <1>6, PreparationFound DEF BaseInv
    <2>2. /\ state' = [state EXCEPT ![o] = "Running"] /\ file' = [file EXCEPT ![o] = f]
          /\ nodes' = IF f.open THEN [nodes EXCEPT ![f.node] = Reserved(f, bytes)] ELSE nodes
          /\ part' = IF f.open THEN f.node ELSE part
          /\ UNCHANGED <<options, happened, final, foreign>>
      BY <2>1 DEF Preparation, Prepared
    <2>3. f.open /\ foreign # NoNode => f.node # foreign
      BY <2>1, Typed DEF Preparation, InUse, ForeignInv, Apart, BaseInv
    <2>4. file'[o] = f /\ \A p \in Operations : p # o => file'[p] = file[p]
      BY <2>2, Typed DEF BaseInv
    <2>5. state'[o] = "Running" /\ \A p \in Operations : p # o => state'[p] = state[p]
      BY <2>2, Moved DEF DownloadStates
    <2>6. Apart'
      BY <2>2, <2>3, <2>4 DEF ForeignInv, Apart
    <2>7. foreign # NoNode => nodes'[foreign] = nodes[foreign]
      BY <2>2, <2>3 DEF BaseInv, TypeOK
    <2>8. Survives'
      BY <2>2, <2>5, <2>7 DEF ForeignInv, Survives
    <2> QED
      BY <2>6, <2>8 DEF ForeignInv
  <1>7. ASSUME NEW o \in Operations, NEW n \in 1..BufferSize, ReadWrites(o, n) PROVE ForeignInv'
    <2> DEFINE k == file[o].node
               g == [file[o] EXCEPT !.pos = WritePosition(file[o]) + n, !.unflushed = n]
    <2>1. /\ file[o].open /\ file' = [file EXCEPT ![o] = g] /\ \E b : nodes' = [nodes EXCEPT ![k] = b]
          /\ \E s \in {"Running", "Finalizing"} : state' = [state EXCEPT ![o] = s]
          /\ UNCHANGED <<options, happened, part, final, foreign>>
      BY ZenonT(60), <1>7, WroteFound
    <2>2. g.node = k
      BY Typed DEF BaseInv, FileState
    <2> HIDE DEF g
    <2>3. \A p \in Operations : file'[p].open => file[p].open /\ file'[p].node = file[p].node
      BY <2>1, <2>2, Typed DEF BaseInv
    <2>4. foreign # NoNode => nodes'[foreign] = nodes[foreign]
      BY <2>1 DEF ForeignInv, Apart, BaseInv, TypeOK
    <2>5. \A p \in Operations : state'[p] = "Renaming" => state[p] = "Renaming"
      BY <2>1 DEF BaseInv, TypeOK
    <2> QED
      BY <2>1, <2>3, <2>4, <2>5, ForeignKept
  <1>8. ASSUME NEW o \in Operations, Finalize(o) \/ FinalizeCannotFlush(o) PROVE ForeignInv'
    <2>1. /\ state' = [state EXCEPT ![o] = "Renaming"] /\ file' = [file EXCEPT ![o] = Closed]
          /\ final = NoNode \/ options.mayOverwrite
          /\ happened \subseteq happened' /\ UNCHANGED <<options, part, final, foreign>>
          /\ nodes' = nodes \/ (file[o].open /\ \E b : nodes' = [nodes EXCEPT ![file[o].node] = b])
      BY <1>8 DEF Finalize, FinalizeCannotFlush, Finalized
    <2>2. foreign # NoNode => nodes'[foreign] = nodes[foreign]
      BY <2>1 DEF ForeignInv, Apart, BaseInv, TypeOK
    <2> QED
      BY <2>1, <2>2, ForeignKeptBy DEF DownloadStates
  <1>9. ASSUME NEW o \in Operations, Rename(o) PROVE ForeignInv'
    <2>1. /\ working = o /\ state[o] = "Renaming" /\ final' = part /\ part' = NoNode
          /\ UNCHANGED <<options, happened, file, nodes, foreign>>
          /\ \E s \in {"Completed", "Failed"} : state' = [state EXCEPT ![o] = s]
      BY <1>9 DEF Rename
    <2>2. \A p \in Operations : state'[p] # "Renaming"
      <3>1. \A p \in Operations \ {o} : state[p] # "Renaming"
        BY <2>1, OthersRest
      <3> QED
        BY <2>1, <3>1 DEF BaseInv, TypeOK
    <2>3. Apart'
      BY <2>1 DEF ForeignInv, Apart
    <2>4. Survives'
      BY <2>1, <2>2 DEF ForeignInv, Survives
    <2> QED
      BY <2>3, <2>4 DEF ForeignInv
  <1> QED
    BY <1>1, <1>2, <1>3, <1>4, <1>5, <1>6, <1>7, <1>8, <1>9, Steps

(* A file that another program put at the local path is not replaced       *)
(* unless the options allow it, however many downloads run in parallel,    *)
(* fail or are lost, unless it comes between the last check and the        *)
(* renaming.                                                               *)
THEOREM ForeignFileIsKept == Spec => []ForeignFileSurvives
  <1>1. Init => ForeignInv
    BY DEF Init, ForeignInv, Apart, Survives
  <1>2. ForeignInv => ForeignFileSurvives
    BY DEF ForeignInv, Survives, ForeignFileSurvives, AlwaysSurvives
  <1> QED
    BY <1>1, <1>2, BaseStep, BaseInitOK, ForeignStep, PTL DEF Spec

-----------------------------------------------------------------------------
(* With one download at a time, a completed file is whole. *)

Begun(o) == state[o] \in {"Preparing", "Running", "Finalizing", "Renaming", "Completed", "Failed"}

\* An operation begins when those before it are gone.
OneByOne == \A o, p \in Operations : Begun(o) /\ p < o => state[p] = "Destroyed"

\* The part file, the local file and an open file are not mixed up.
Disjoint ==
    /\ part # NoNode => part # final
    /\ \A o \in Operations : file[o].open => file[o].node # final /\ part \in {NoNode, file[o].node}

Undisturbed == "disk" \notin happened /\ ~(options.reserveSpace /\ options.tryContinue)

\* The first n bytes are those of the remote file.
Agrees(bytes, n) == \A i \in 1..n : bytes[i] = i

\* The next bytes go behind those that were read.
ReadSoFar(o) ==
    LET k == file[o].node
    IN  /\ fileSize[o] = size /\ WritePosition(file[o]) = offset[o] /\ Agrees(nodes[k], offset[o])
        /\ Len(nodes[k]) = IF options.reserveSpace THEN size ELSE offset[o]
        /\ file[o].app => ~options.reserveSpace

ReadInv(o) ==
    /\ state[o] = "Running" /\ file[o].open => ReadSoFar(o)
    /\ state[o] = "Finalizing" => file[o].open /\ nodes[file[o].node] = Remote
    /\ state[o] = "Renaming" => part = NoNode \/ nodes[part] = Remote

\* What a crash leaves may be continued.
PrefixInv ==
    part # NoNode /\ ~options.reserveSpace => Len(nodes[part]) <= size /\ Agrees(nodes[part], Len(nodes[part]))

WholeInv == Undisturbed => AlwaysWhole /\ PrefixInv /\ \A o \in Operations : ReadInv(o)

LEMMA FirstInLine ==
  ASSUME Parallelism = 1, BaseInv, NEW o \in Operations, Turn(o)
  PROVE  \A p \in Operations : p < o => state[p] = "Destroyed"
  <1> DEFINE E == {p \in Unfinished : p < o}
  <1>1. IsFiniteSet(E)
    <2>1. E \subseteq Operations
      BY DEF Unfinished
    <2> HIDE DEF E
    <2> QED
      BY <2>1, Constants, FS_Subset
  <1>2. Cardinality(E) < 1
    BY DEF Turn
  <1> HIDE DEF E
  <1>3. Cardinality(E) = 0
    BY <1>1, <1>2, FS_CardinalityType
  <1>4. E = {}
    BY <1>1, <1>3, FS_EmptySet
  <1> QED
    BY <1>4 DEF E, Unfinished

LEMMA OneByOneStep ==
  ASSUME Parallelism = 1, BaseInv, OneByOne, [Next]_vars
  PROVE  OneByOne'
  <1>1. CASE UNCHANGED vars \/ OthersCreate
    BY <1>1 DEF vars, OthersCreate, OneByOne, Begun
  <1>2. CASE Crash
    BY <1>2 DEF Crash, OneByOne, Begun
  <1>3. ASSUME NEW o \in Operations, BeginWork(o) PROVE OneByOne'
    <2>1. state' = [state EXCEPT ![o] = IF @ = "NotStarted" THEN "Preparing" ELSE @] /\ Turn(o)
      BY <1>3 DEF BeginWork
    <2>2. \A p \in Operations : p < o => state[p] = "Destroyed"
      BY <2>1, FirstInLine
    <2>3. /\ \A p \in Operations : p # o => state'[p] = state[p]
          /\ state[o] # "Destroyed"
          /\ o \notin {p \in Operations : p < o}
      BY <2>1, Constants DEF BaseInv, TypeOK, Turn, Unfinished
    <2>4. ASSUME NEW p \in Operations, NEW q \in Operations, Begun(p)', q < p PROVE state'[q] = "Destroyed"
      <3>1. CASE p = o
        BY <2>2, <2>3, <2>4, <3>1
      <3>2. CASE p # o
        <4>1. Begun(p)
          BY <2>3, <2>4, <3>2 DEF Begun
        <4>2. state[q] = "Destroyed"
          BY <2>4, <4>1 DEF OneByOne
        <4> QED
          BY <2>3, <4>2
      <3> QED
        BY <3>1, <3>2
    <2> QED
      BY <2>4 DEF OneByOne
  <1>4. ASSUME NEW o \in Operations, NEW s \in DownloadStates, state' = [state EXCEPT ![o] = s],
               state[o] # "Destroyed", Begun(o) \/ s \in {"Canceled", "Destroyed"}
        PROVE  OneByOne'
    BY <1>4, Moved DEF OneByOne, Begun
  <1>5. ASSUME NEW o \in Operations,
               \/ Failing(o) \/ Preparing(o) \/ ReadEnds(o) \/ ReadCannotWrite(o)
               \/ \E n \in 1..BufferSize : ReadWrites(o, n)
               \/ Finalize(o) \/ FinalizeCannotFlush(o) \/ Rename(o) \/ Destroy(o) \/ Cancel(o)
        PROVE  \E s \in DownloadStates : /\ state' = [state EXCEPT ![o] = s] /\ state[o] # "Destroyed"
                                         /\ Begun(o) \/ s \in {"Canceled", "Destroyed"}
    <2>1. ASSUME Preparing(o) PROVE state' = [state EXCEPT ![o] = "Running"] /\ state[o] = "Preparing"
      BY <2>1, PreparationFound DEF BaseInv, Preparation, Prepared
    <2>2. ASSUME NEW n \in 1..BufferSize, ReadWrites(o, n)
          PROVE  state' \in {[state EXCEPT ![o] = "Running"], [state EXCEPT ![o] = "Finalizing"]} /\ state[o] = "Running"
      BY <2>2, WroteFound
    <2>3. ASSUME Rename(o)
          PROVE  state' \in {[state EXCEPT ![o] = "Completed"], [state EXCEPT ![o] = "Failed"]} /\ state[o] = "Renaming"
      BY <2>3 DEF Rename
    <2> QED
      BY <1>5, <2>1, <2>2, <2>3
         DEF Failing, Fail, ReadEnds, ReadCannotWrite, Finalize, FinalizeCannotFlush, Finalized, Destroy, Cancel,
             Unfinished, Begun, DownloadStates
  <1> QED
    BY <1>1, <1>2, <1>3, <1>4, <1>5, Steps

\* While an operation is in work() no other operation has a file open.
LEMMA OneOpen ==
  ASSUME BaseInv, OneByOne, NEW o \in Operations, Begun(o), NEW p \in Operations \ {o}
  PROVE  ~Begun(p) /\ ~file[p].open
  <1>1. o < p \/ p < o
    BY Constants
  <1>2. ~Begun(p)
    BY <1>1 DEF OneByOne, Begun
  <1> QED
    BY <1>2 DEF BaseInv, TypeOK, Begun

LEMMA DisjointStep ==
  ASSUME BaseInv, OneByOne, Disjoint, [Next]_vars
  PROVE  Disjoint'
  <1>1. ASSUME final' = final, part' \in {part, NoNode},
               \A p \in Operations : file'[p].open => file[p].open /\ file'[p].node = file[p].node
        PROVE  Disjoint'
    BY <1>1 DEF Disjoint
  <1>2. CASE UNCHANGED vars \/ Crash
    BY <1>1, <1>2 DEF vars, Crash, Closed
  <1>3. CASE OthersCreate
    <2>1. /\ final' = FreeNode /\ FreeNode \in Nodes /\ FreeNode \notin InUse
          /\ UNCHANGED <<file, part>>
      BY <1>3, FreeNodeIsFree DEF OthersCreate
    <2> QED
      BY <2>1 DEF Disjoint, InUse
  <1>4. ASSUME NEW o \in Operations,
               \/ BeginWork(o) \/ Failing(o) \/ ReadEnds(o) \/ ReadCannotWrite(o)
               \/ Finalize(o) \/ FinalizeCannotFlush(o) \/ Destroy(o) \/ Cancel(o)
        PROVE  Disjoint'
    <2>1. /\ file' = file \/ file' = [file EXCEPT ![o] = Closed]
          /\ part' \in {part, NoNode} /\ final' = final
      BY <1>4 DEF BeginWork, Failing, Fail, ReadEnds, ReadCannotWrite, Finalize, FinalizeCannotFlush, Finalized,
                  Destroy, Cancel, PartAfterCleanup, local
    <2>2. \A p \in Operations : file'[p].open => file[p].open /\ file'[p].node = file[p].node
      BY <2>1, Typed DEF BaseInv
    <2> QED
      BY <1>1, <2>1, <2>2
  <1>5. ASSUME NEW o \in Operations, NEW n \in 1..BufferSize, ReadWrites(o, n) PROVE Disjoint'
    <2> DEFINE g == [file[o] EXCEPT !.pos = WritePosition(file[o]) + n, !.unflushed = n]
    <2>1. file[o].open /\ file' = [file EXCEPT ![o] = g] /\ UNCHANGED <<part, final>>
      BY <1>5, WroteFound
    <2>2. g.node = file[o].node
      BY Typed DEF BaseInv, FileState
    <2> HIDE DEF g
    <2>3. \A p \in Operations : file'[p].open => file[p].open /\ file'[p].node = file[p].node
      BY <2>1, <2>2, Typed DEF BaseInv
    <2> QED
      BY <1>1, <2>1, <2>3
  <1>6. ASSUME NEW o \in Operations, Preparing(o) PROVE Disjoint'
    <2>1. PICK f, bytes, from : Preparation(o, f, bytes, from)
      BY <1>6, PreparationFound DEF BaseInv
    <2>2. file' = [file EXCEPT ![o] = f] /\ part' = (IF f.open THEN f.node ELSE part) /\ final' = final
      BY <2>1 DEF Preparation, Prepared
    <2>3. file'[o] = f /\ \A p \in Operations : p # o => file'[p] = file[p]
      BY <2>2, Typed DEF BaseInv
    <2>4. \A p \in Operations \ {o} : ~file[p].open
      BY <1>6, PreparationFound, OneOpen DEF BaseInv, Begun
    <2>5. f.open => f.node # final
      BY <2>1, Typed DEF Preparation, InUse, Disjoint, BaseInv
    <2> QED
      BY <2>2, <2>3, <2>4, <2>5 DEF Disjoint
  <1>7. ASSUME NEW o \in Operations, Rename(o) PROVE Disjoint'
    <2>1. state[o] = "Renaming" /\ part' = NoNode /\ file' = file
      BY <1>7 DEF Rename
    <2>2. \A p \in Operations : ~file[p].open
      <3>1. ~file[o].open
        BY <2>1 DEF BaseInv, TypeOK
      <3>2. \A p \in Operations \ {o} : ~file[p].open
        BY <2>1, OneOpen DEF Begun
      <3> QED
        BY <3>1, <3>2
    <2> QED
      BY <2>1, <2>2 DEF Disjoint
  <1> QED
    BY <1>2, <1>3, <1>4, <1>5, <1>6, <1>7, Steps

\* ReadInv of an operation at rest.
LEMMA AtRest ==
  ASSUME NEW o \in Operations, ~Begun(o)
  PROVE  ReadInv(o)
  BY DEF ReadInv, Begun

\* A step of one operation that leaves the bytes and the local file alone.
LEMMA WholeKept ==
  ASSUME BaseInv, OneByOne, WholeInv, Undisturbed', UNCHANGED <<options, size, nodes, final, fileSize, offset>>,
         happened \subseteq happened', part' \in {part, NoNode},
         NEW o \in Operations, NEW s \in DownloadStates, state' = [state EXCEPT ![o] = s], s # "Completed",
         outcome' = outcome \/ outcome' = [outcome EXCEPT ![o] = s],
         file' = file \/ file' = [file EXCEPT ![o] = Closed],
         s = "Running" => state[o] = "Running" /\ file' = file,
         s = "Finalizing" => file' = file /\ file[o].open /\ nodes[file[o].node] = Remote,
         s = "Renaming" => part = NoNode \/ nodes[part] = Remote
  PROVE  AlwaysWhole' /\ PrefixInv' /\ \A p \in Operations : ReadInv(p)'
  <1>1. AlwaysWhole /\ PrefixInv /\ \A p \in Operations : ReadInv(p)
    BY DEF WholeInv, Undisturbed
  <1>2. state'[o] = s /\ \A p \in Operations : p # o => state'[p] = state[p]
    BY Moved
  <1>3. AlwaysWhole'
    <2>1. \A p \in Operations : outcome'[p] = "Completed" => outcome[p] = "Completed"
      BY DEF BaseInv, TypeOK
    <2> QED
      BY <1>1, <2>1 DEF AlwaysWhole, Remote
  <1>4. PrefixInv'
    BY <1>1 DEF PrefixInv, Agrees
  <1>5. ASSUME NEW p \in Operations \ {o} PROVE ReadInv(p)'
    <2>1. file'[p] = file[p] /\ state'[p] = state[p]
      BY <1>2, Typed DEF BaseInv
    <2> QED
      BY <1>1, <2>1 DEF ReadInv, ReadSoFar, WritePosition, Agrees, Remote
  <1>6. ReadInv(o)'
    <2>1. s = "Running" => file'[o] = file[o]
      OBVIOUS
    <2>2. s = "Running" /\ file[o].open => ReadSoFar(o)
      BY <1>1 DEF ReadInv
    <2>3. s = "Running" /\ file'[o].open => ReadSoFar(o)'
      BY <2>1, <2>2 DEF ReadSoFar, WritePosition, Agrees
    <2>4. s = "Finalizing" => file'[o].open /\ nodes'[file'[o].node] = Remote'
      BY DEF Remote
    <2>5. s = "Renaming" => part' = NoNode \/ nodes'[part'] = Remote'
      BY DEF Remote
    <2> QED
      BY <1>2, <2>3, <2>4, <2>5 DEF ReadInv
  <1> QED
    BY <1>3, <1>4, <1>5, <1>6

\* Bytes of the remote file written behind those that are there.
LEMMA Grown ==
  ASSUME size \in Nat, NEW bytes \in Seq(0..size), NEW at \in Nat, NEW n \in Nat, at <= Len(bytes),
         NEW new \in Seq(0..size), Len(new) = n, \A i \in 1..n : new[i] = at + i, Agrees(bytes, at)
  PROVE  Agrees(Written(bytes, at, new), at + n)
  <1> DEFINE w == Written(bytes, at, new)
  <1>1. 0 \in 0..size /\ Len(bytes) \in Nat
    BY LenProperties
  <1>2. /\ Len(w) = IF Len(bytes) > at + n THEN Len(bytes) ELSE at + n
        /\ \A i \in 1..Len(w) : w[i] = IF i > at /\ i <= at + n THEN new[i - at]
                                       ELSE IF i <= Len(bytes) THEN bytes[i] ELSE 0
    <2> DEFINE S == 0..size
    <2>1. 0 \in S /\ bytes \in Seq(S) /\ new \in Seq(S)
      BY <1>1
    <2> HIDE DEF S
    <2>2. Len(w) = IF Len(bytes) > at + Len(new) THEN Len(bytes) ELSE at + Len(new)
      BY <2>1, WrittenBytes
    <2>3. \A i \in 1..Len(w) : w[i] = IF i > at /\ i <= at + Len(new) THEN new[i - at]
                                      ELSE IF i <= Len(bytes) THEN bytes[i] ELSE 0
      BY <2>1, WrittenBytes
    <2> HIDE DEF w
    <2> QED
      BY <2>2, <2>3
  <1> HIDE DEF w
  <1>3. ASSUME NEW i \in 1..(at + n) PROVE w[i] = i
    <2>1. i \in 1..Len(w)
      BY <1>1, <1>2
    <2>2. CASE i > at
      <3>1. i - at \in 1..n /\ at + (i - at) = i
        BY <2>2
      <3> QED
        BY <1>2, <2>1, <2>2, <3>1
    <2>3. CASE ~(i > at)
      <3>1. i \in 1..at /\ i <= Len(bytes)
        BY <1>1, <2>3
      <3> QED
        BY <1>2, <2>1, <2>3, <3>1 DEF Agrees
    <2> QED
      BY <2>2, <2>3
  <1> QED
    BY <1>3 DEF w, Agrees

\* A file that agrees with the remote file up to its end is the remote file.
LEMMA WholeFile ==
  ASSUME size \in Nat, NEW bytes \in Seq(0..size), Len(bytes) = size, Agrees(bytes, size)
  PROVE  bytes = Remote
  <1>1. Remote \in Seq(0..size) /\ Len(Remote) = size
    <2>1. Remote \in [1..size -> 0..size]
      BY DEF Remote
    <2> HIDE DEF Remote
    <2> QED
      BY <2>1, SeqDef, LenProperties
  <1>2. \A i \in 1..size : bytes[i] = Remote[i]
    BY DEF Agrees, Remote
  <1> QED
    BY <1>1, <1>2, SeqEqual

\* A step that touches no byte of the local file, by the only operation that has begun.
LEMMA OthersWhole ==
  ASSUME BaseInv, OneByOne, WholeInv, Undisturbed, UNCHANGED <<size, final>>,
         final # NoNode => nodes'[final] = nodes[final], NEW o \in Operations, Begun(o),
         NEW s \in DownloadStates, state' = [state EXCEPT ![o] = s], outcome' = outcome, PrefixInv', ReadInv(o)'
  PROVE  AlwaysWhole' /\ PrefixInv' /\ \A p \in Operations : ReadInv(p)'
  <1>1. AlwaysWhole'
    BY DEF WholeInv, AlwaysWhole, Remote
  <1>2. ASSUME NEW p \in Operations \ {o} PROVE ReadInv(p)'
    <2>1. ~Begun(p)'
      BY OneOpen, Moved DEF Begun
    <2> QED
      BY <2>1 DEF ReadInv, Begun
  <1> QED
    BY <1>1, <1>2

LEMMA PreparingWhole ==
  ASSUME BaseInv, OneByOne, Disjoint, WholeInv, Undisturbed, NEW o \in Operations, Preparing(o)
  PROVE  AlwaysWhole' /\ PrefixInv' /\ \A p \in Operations : ReadInv(p)'
  <1>1. working = o /\ state[o] = "Preparing" /\ Begun(o)
    BY PreparationFound DEF BaseInv, Begun
  <1>2. PICK f, bytes, from : Preparation(o, f, bytes, from)
    BY PreparationFound DEF BaseInv
  <1> DEFINE k == f.node
             r == Reserved(f, bytes)
  <1>3. /\ state' = [state EXCEPT ![o] = "Running"] /\ fileSize' = [fileSize EXCEPT ![o] = size]
        /\ file' = [file EXCEPT ![o] = f] /\ offset' = [offset EXCEPT ![o] = from]
        /\ nodes' = (IF f.open THEN [nodes EXCEPT ![k] = r] ELSE nodes)
        /\ part' = (IF f.open THEN k ELSE part)
        /\ UNCHANGED <<options, size, happened, outcome, working, final, foreign>>
    BY <1>2 DEF Preparation, Prepared
  <1>4. /\ f \in FileState /\ bytes \in Seq(0..size) /\ from \in 0..size /\ size \in Nat /\ Len(bytes) \in Nat
    BY <1>2, Typed, LenProperties DEF Preparation, BaseInv
  <1>5. state'[o] = "Running" /\ file'[o] = f /\ fileSize'[o] = size /\ offset'[o] = from
    BY <1>3, Typed DEF BaseInv, TypeOK
  <1>6. AlwaysWhole /\ PrefixInv
    BY DEF WholeInv
  <1>7. "Running" \in DownloadStates
    BY DEF DownloadStates
  <1>8. CASE ~f.open
    <2>1. PrefixInv'
      BY <1>3, <1>6, <1>8 DEF PrefixInv, Agrees
    <2>2. ReadInv(o)'
      BY <1>5, <1>8 DEF ReadInv
    <2>3. final # NoNode => nodes'[final] = nodes[final]
      BY <1>3, <1>8
    <2> QED
      BY <1>1, <1>3, <1>7, <2>1, <2>2, <2>3, OthersWhole
  <1>9. CASE f.open
    <2>1. k \in Nodes /\ k # final /\ part' = k /\ k # NoNode
      BY <1>2, <1>3, <1>9, Typed, Constants DEF Preparation, InUse, Disjoint, BaseInv
    <2>2. nodes' = [nodes EXCEPT ![k] = r] /\ nodes'[k] = r
      BY <1>3, <1>9, <2>1 DEF BaseInv, TypeOK
    <2>3. f.app => ~options.reserveSpace
      BY <1>2, <1>9, Typed DEF Preparation, Undisturbed, BaseInv
    <2>4. Agrees(bytes, from) /\ (~options.reserveSpace => Len(bytes) = from)
      <3>1. CASE ~f.app
        <4>1. bytes = <<>> /\ from = 0
          BY <1>2, <1>9, <3>1, Typed DEF Preparation, BaseInv
        <4> QED
          BY <4>1 DEF Agrees
      <3>2. CASE f.app
        <4>1. bytes = nodes[part] /\ part # NoNode /\ from = Len(bytes)
          BY <1>2, <1>9, <3>2, Typed DEF Preparation, BaseInv
        <4> QED
          BY <1>6, <2>3, <3>2, <4>1 DEF PrefixInv
      <3> QED
        BY <3>1, <3>2
    <2>5. ~f.app => f.pos = 0 /\ from = 0 /\ bytes = <<>>
      BY <1>2, <1>9, Typed DEF Preparation, BaseInv
    <2>6. /\ ~options.reserveSpace => r = bytes
          /\ options.reserveSpace => Len(r) = size
      BY <1>4, <1>9, <2>3, <2>5, ReservedBytes DEF BaseInv
    <2> HIDE DEF r, k
    <2>7. Len(r) = IF options.reserveSpace THEN size ELSE from
      BY <2>4, <2>6
    <2>8. Agrees(r, from)
      <3>1. CASE options.reserveSpace
        BY <2>3, <2>5, <3>1 DEF Agrees
      <3>2. CASE ~options.reserveSpace
        BY <2>4, <2>6, <3>2
      <3> QED
        BY <3>1, <3>2
    <2>9. PrefixInv'
      BY <1>3, <1>4, <2>1, <2>2, <2>7, <2>8 DEF PrefixInv, Agrees
    <2>10. WritePosition(file[o])' = from
      BY <1>5, <2>2, <2>3, <2>5, <2>7 DEF WritePosition, k
    <2>11. ReadSoFar(o)'
      BY <1>3, <1>5, <2>2, <2>3, <2>7, <2>8, <2>10 DEF ReadSoFar, Agrees, k
    <2>12. ReadInv(o)'
      BY <1>5, <2>11 DEF ReadInv
    <2>13. final # NoNode => nodes'[final] = nodes[final]
      BY <2>1, <2>2 DEF BaseInv, TypeOK
    <2> QED
      BY <1>1, <1>3, <1>7, <2>9, <2>12, <2>13, OthersWhole
  <1> QED
    BY <1>8, <1>9

LEMMA ReadWritesWhole ==
  ASSUME BaseInv, OneByOne, Disjoint, WholeInv, Undisturbed, NEW o \in Operations,
         NEW n \in 1..BufferSize, ReadWrites(o, n)
  PROVE  AlwaysWhole' /\ PrefixInv' /\ \A p \in Operations : ReadInv(p)'
  <1> DEFINE k == file[o].node
             at == WritePosition(file[o])
             new == SubSeq(Remote, offset[o] + 1, offset[o] + n)
             w == Written(nodes[k], at, new)
             g == [file[o] EXCEPT !.pos = at + n, !.unflushed = n]
  <1>1. /\ working = o /\ state[o] = "Running" /\ file[o].open /\ k \in Nodes /\ at \in Nat
        /\ offset[o] \in Nat /\ offset[o] + n <= size /\ n \in Nat
        /\ new \in Seq(0..size) /\ Len(new) = n /\ \A i \in 1..n : new[i] = offset[o] + i
        /\ nodes' = [nodes EXCEPT ![k] = w] /\ nodes[k] \in Seq(0..size) /\ w \in Seq(0..size)
        /\ file' = [file EXCEPT ![o] = g] /\ g \in FileState
        /\ offset' = [offset EXCEPT ![o] = @ + n]
        /\ \/ state' = [state EXCEPT ![o] = "Running"] /\ working' = None /\ at + n < fileSize[o]
           \/ state' = [state EXCEPT ![o] = "Finalizing"] /\ working' = o /\ ~(at + n < fileSize[o])
        /\ UNCHANGED <<options, size, happened, outcome, fileSize, part, final, foreign>>
    BY WroteFound
  <1>2. g.node = k /\ g.open /\ g.app = file[o].app /\ g.pos = at + n
    BY <1>1, Typed DEF BaseInv, FileState
  <1> HIDE DEF g, new
  <1>3. /\ fileSize[o] = size /\ at = offset[o] /\ Agrees(nodes[k], at)
        /\ Len(nodes[k]) = (IF options.reserveSpace THEN size ELSE at)
        /\ file[o].app => ~options.reserveSpace
    BY <1>1 DEF WholeInv, ReadInv, ReadSoFar
  <1>4. size \in Nat /\ 0 \in 0..size /\ Len(nodes[k]) \in Nat /\ at <= Len(nodes[k])
    BY <1>1, <1>3, Typed DEF BaseInv
  <1>5. k # final /\ part \in {NoNode, k}
    BY <1>1 DEF Disjoint
  <1> HIDE DEF at, k
  <1>6. Agrees(w, at + n)
    BY <1>1, <1>3, <1>4, Grown
  <1>7. Len(w) = IF options.reserveSpace THEN size ELSE at + n
    <2>1. Len(w) = IF Len(nodes[k]) > at + n THEN Len(nodes[k]) ELSE at + n
      <3> DEFINE S == 0..size
      <3>1. 0 \in S /\ nodes[k] \in Seq(S) /\ new \in Seq(S)
        BY <1>1, <1>4
      <3> HIDE DEF S
      <3> QED
        BY <1>1, <3>1, WrittenBytes
    <2>2. at + n <= size /\ n >= 1
      BY <1>1, <1>3, Constants
    <2> HIDE DEF w
    <2> QED
      BY <1>1, <1>3, <1>4, <2>1, <2>2
  <1> HIDE DEF w
  <1>8. /\ file'[o] = g /\ offset'[o] = at + n /\ nodes'[k] = w /\ fileSize'[o] = size
        /\ final # NoNode => nodes'[final] = nodes[final]
    BY <1>1, <1>3, <1>5, Typed DEF BaseInv, TypeOK
  <1>9. PrefixInv'
    BY <1>1, <1>3, <1>5, <1>6, <1>7, <1>8 DEF PrefixInv, Agrees
  <1>10. PICK s \in {"Running", "Finalizing"} :
            /\ state' = [state EXCEPT ![o] = s]
            /\ s = "Finalizing" => ~(at + n < size)
    BY <1>1, <1>3
  <1>11. s \in DownloadStates /\ state'[o] = s /\ Begun(o)
    BY <1>1, <1>10, Moved DEF DownloadStates, Begun
  <1>12. ReadSoFar(o)'
    <2>1. WritePosition(file[o])' = at + n
      BY <1>2, <1>3, <1>7, <1>8 DEF WritePosition
    <2>2. /\ fileSize'[o] = size' /\ offset'[o] = at + n /\ file'[o].node = k /\ nodes'[k] = w
          /\ size' = size /\ options' = options
      BY <1>1, <1>2, <1>8
    <2>3. /\ \A i \in 1..(at + n) : w[i] = i
          /\ Len(w) = IF options'.reserveSpace THEN size' ELSE at + n
      BY <1>6, <1>7, <2>2 DEF Agrees
    <2>4. file'[o].app => ~options'.reserveSpace
      BY <1>2, <1>3, <1>8, <2>2
    <2> QED
      BY <2>1, <2>2, <2>3, <2>4 DEF ReadSoFar, Agrees
  <1>13. s = "Finalizing" => w = Remote
    <2>1. s = "Finalizing" => at + n = size
      BY <1>1, <1>3, <1>4, <1>10
    <2>2. s = "Finalizing" => Len(w) = size /\ Agrees(w, size)
      BY <1>6, <1>7, <2>1
    <2> QED
      BY <1>1, <1>4, <2>2, WholeFile
  <1>14. ReadInv(o)'
    <2>1. s = "Finalizing" => file'[o].open /\ nodes'[file'[o].node] = Remote'
      BY <1>1, <1>2, <1>8, <1>13 DEF Remote
    <2> QED
      BY <1>11, <1>12, <2>1 DEF ReadInv
  <1> QED
    BY <1>1, <1>8, <1>9, <1>10, <1>11, <1>14, OthersWhole

\* The end of the remote file is reached.
LEMMA ReadEndsWhole ==
  ASSUME BaseInv, WholeInv, Undisturbed, NEW o \in Operations, ReadEnds(o)
  PROVE  file[o].open /\ nodes[file[o].node] = Remote
  <1> DEFINE k == file[o].node
  <1>1. state[o] = "Running" /\ file[o].open /\ (fileSize[o] = 0 \/ offset[o] >= size)
    BY DEF ReadEnds
  <1>2. /\ fileSize[o] = size /\ Agrees(nodes[k], offset[o])
        /\ Len(nodes[k]) = IF options.reserveSpace THEN size ELSE offset[o]
    BY <1>1 DEF WholeInv, ReadInv, ReadSoFar
  <1>3. k \in Nodes /\ nodes[k] \in Seq(0..size) /\ size \in Nat /\ offset[o] \in 0..size
    BY <1>1, Typed DEF BaseInv, OpenInv, TypeOK
  <1> HIDE DEF k
  <1>4. offset[o] = size
    BY <1>1, <1>2, <1>3
  <1>5. nodes[k] = Remote
    BY <1>2, <1>3, <1>4, WholeFile
  <1> QED
    BY <1>1, <1>5 DEF k

LEMMA RenameWhole ==
  ASSUME BaseInv, OneByOne, WholeInv, Undisturbed, NEW o \in Operations, Rename(o)
  PROVE  AlwaysWhole' /\ PrefixInv' /\ \A p \in Operations : ReadInv(p)'
  <1>1. /\ state[o] = "Renaming" /\ part # NoNode /\ final' = part /\ part' = NoNode
        /\ UNCHANGED <<size, nodes>>
    BY DEF Rename
  <1>2. nodes[part] = Remote
    BY <1>1 DEF WholeInv, ReadInv
  <1>3. AlwaysWhole' /\ PrefixInv'
    BY <1>1, <1>2 DEF AlwaysWhole, PrefixInv, Remote
  <1>4. state'[o] \notin {"Running", "Finalizing", "Renaming"}
    BY DEF Rename, BaseInv, TypeOK
  <1>5. ASSUME NEW p \in Operations \ {o} PROVE state'[p] \notin {"Running", "Finalizing", "Renaming"}
    <2>1. ~Begun(p)
      BY <1>1, OneOpen DEF Begun
    <2>2. state'[p] = state[p]
      BY DEF Rename, BaseInv, TypeOK
    <2> QED
      BY <2>1, <2>2 DEF Begun
  <1>6. \A p \in Operations : state'[p] \notin {"Running", "Finalizing", "Renaming"}
    BY <1>4, <1>5
  <1> QED
    BY <1>3, <1>6 DEF ReadInv

LEMMA OthersCreateWhole ==
  ASSUME BaseInv, Disjoint, WholeInv, Undisturbed, OthersCreate
  PROVE  AlwaysWhole' /\ PrefixInv' /\ \A p \in Operations : ReadInv(p)'
  <1>1. /\ final = NoNode /\ FreeNode \notin InUse
        /\ nodes' = [nodes EXCEPT ![FreeNode] = <<0>>]
        /\ UNCHANGED <<options, size, state, outcome, file, fileSize, offset, part>>
    BY FreeNodeIsFree DEF OthersCreate
  <1>2. AlwaysWhole'
    BY <1>1 DEF WholeInv, AlwaysWhole
  <1>3. part # NoNode => nodes'[part] = nodes[part]
    BY <1>1 DEF InUse, BaseInv, TypeOK
  <1>4. \A p \in Operations : file[p].open => nodes'[file[p].node] = nodes[file[p].node]
    BY <1>1 DEF InUse, BaseInv, TypeOK, OpenInv
  <1>5. PrefixInv'
    BY <1>1, <1>3 DEF WholeInv, PrefixInv, Agrees
  <1>6. ASSUME NEW p \in Operations PROVE ReadInv(p)'
    <2>1. ReadInv(p)
      BY DEF WholeInv
    <2> QED
      BY ZenonT(60), <1>1, <1>3, <1>4, <2>1 DEF ReadInv, ReadSoFar, WritePosition, Agrees, Remote
  <1> QED
    BY <1>2, <1>5, <1>6

LEMMA CrashWhole ==
  ASSUME BaseInv, Disjoint, WholeInv, Undisturbed, Crash
  PROVE  AlwaysWhole' /\ PrefixInv' /\ \A p \in Operations : ReadInv(p)'
  <1>1. /\ \A p \in Operations : state'[p] \in {"NotStarted", "Destroyed"}
        /\ \A p \in Operations : outcome'[p] = "Completed" => outcome[p] = "Completed"
        /\ UNCHANGED <<options, size, part, final>>
    BY DEF Crash
  <1>2. PICK kept \in 0..size :
            nodes' = IF part = NoNode THEN nodes
                     ELSE [nodes EXCEPT ![part] = SubSeq(@, 1, IF kept < Len(@) THEN kept ELSE Len(@))]
    BY DEF Crash
  <1>3. AlwaysWhole'
    <2>1. final # NoNode => nodes'[final] = nodes[final]
      BY <1>2 DEF Disjoint, BaseInv, TypeOK
    <2> QED
      BY <1>1, <2>1 DEF WholeInv, AlwaysWhole, Remote
  <1>4. PrefixInv'
    <2>1. CASE part # NoNode /\ ~options.reserveSpace
      <3> DEFINE bytes == nodes[part]
                 n == IF kept < Len(bytes) THEN kept ELSE Len(bytes)
                 cut == SubSeq(bytes, 1, n)
      <3>1. bytes \in Seq(0..size) /\ Len(bytes) \in Nat /\ size \in Nat /\ nodes'[part] = cut
        BY <1>2, <2>1, Typed DEF BaseInv, TypeOK
      <3>2. Len(bytes) <= size /\ Agrees(bytes, Len(bytes))
        BY <2>1 DEF WholeInv, PrefixInv
      <3>3. n \in Int /\ n <= Len(bytes) /\ n >= 0
        BY <3>1
      <3> HIDE DEF n, bytes
      <3>4. Len(cut) = (IF 1 <= n THEN n ELSE 0) /\ \A i \in 1..Len(cut) : cut[i] = bytes[i]
        BY <3>1, <3>3, ShortenedBytes
      <3> HIDE DEF cut
      <3>5. Len(cut) <= size /\ Len(cut) <= Len(bytes) /\ Len(cut) \in Nat
        BY <3>1, <3>2, <3>3, <3>4
      <3>6. Agrees(cut, Len(cut))
        BY <3>1, <3>2, <3>4, <3>5 DEF Agrees
      <3> QED
        BY <1>1, <3>1, <3>5, <3>6 DEF PrefixInv, Agrees
    <2> QED
      BY <1>1, <2>1 DEF PrefixInv
  <1> QED
    BY <1>1, <1>3, <1>4 DEF ReadInv

LEMMA WholeStep ==
  ASSUME BaseInv, OneByOne, Disjoint, WholeInv, [Next]_vars
  PROVE  WholeInv'
  <1> SUFFICES ASSUME Undisturbed'
               PROVE  AlwaysWhole' /\ PrefixInv' /\ \A p \in Operations : ReadInv(p)'
    BY DEF WholeInv
  <1>1. Undisturbed /\ happened \subseteq happened' /\ "disk" \notin happened'
    <2>1. options' = options /\ happened \subseteq happened'
      <3>1. ASSUME NEW o \in Operations, Preparing(o) PROVE UNCHANGED <<options, happened>>
        BY <3>1, PreparationFound DEF BaseInv, Preparation, Prepared
      <3>2. ASSUME NEW o \in Operations, NEW n \in 1..BufferSize, ReadWrites(o, n) PROVE UNCHANGED <<options, happened>>
        BY <3>2, WroteFound
      <3> QED
        BY <3>1, <3>2, Steps
           DEF vars, OthersCreate, Crash, BeginWork, Failing, Fail, ReadEnds, ReadCannotWrite, Finalize,
               FinalizeCannotFlush, Finalized, Rename, Destroy, Cancel
    <2> QED
      BY <2>1 DEF Undisturbed
  <1>2. CASE UNCHANGED vars
    BY <1>1, <1>2 DEF vars, WholeInv, AlwaysWhole, PrefixInv, ReadInv, ReadSoFar, WritePosition, Agrees, Remote
  <1>3. ASSUME NEW o \in Operations,
               UNCHANGED <<options, size, nodes, final, fileSize, offset>>, part' \in {part, NoNode},
               NEW s \in {"Preparing", "Failed", "Destroyed", "Canceled"}, state' = [state EXCEPT ![o] = s],
               outcome' = outcome \/ outcome' = [outcome EXCEPT ![o] = s],
               file' = file \/ file' = [file EXCEPT ![o] = Closed]
        PROVE  AlwaysWhole' /\ PrefixInv' /\ \A p \in Operations : ReadInv(p)'
    BY <1>1, <1>3, WholeKept DEF DownloadStates
  <1>4. ASSUME NEW o \in Operations, BeginWork(o)
        PROVE  AlwaysWhole' /\ PrefixInv' /\ \A p \in Operations : ReadInv(p)'
    <2> DEFINE s == IF state[o] = "NotStarted" THEN "Preparing" ELSE state[o]
    <2>1. /\ working = None /\ state[o] # "Destroyed" /\ state' = [state EXCEPT ![o] = s]
          /\ UNCHANGED <<options, size, happened, outcome, file, fileSize, offset, nodes, part, final>>
      BY <1>4 DEF BeginWork, Turn, Unfinished, local
    <2>2. s \in {"Preparing", "Running"} /\ (s = "Running" => state[o] = "Running")
      BY <2>1, Constants DEF BaseInv, WorkInv, TypeOK, DownloadStates
    <2> HIDE DEF s
    <2> QED
      BY <1>1, <2>1, <2>2, WholeKept DEF DownloadStates
  <1>5. ASSUME NEW o \in Operations, Failing(o) \/ Destroy(o) \/ Cancel(o)
        PROVE  AlwaysWhole' /\ PrefixInv' /\ \A p \in Operations : ReadInv(p)'
    <2>1. /\ UNCHANGED <<options, size, nodes, final, fileSize, offset>> /\ part' \in {part, NoNode}
          /\ file' = file \/ file' = [file EXCEPT ![o] = Closed]
          /\ \E s \in {"Preparing", "Failed", "Destroyed", "Canceled"} :
                /\ state' = [state EXCEPT ![o] = s]
                /\ outcome' = outcome \/ outcome' = [outcome EXCEPT ![o] = s]
      BY <1>5 DEF Failing, Fail, Destroy, Cancel, PartAfterCleanup
    <2> QED
      BY <1>3, <2>1
  <1>6. ASSUME NEW o \in Operations, ReadEnds(o)
        PROVE  AlwaysWhole' /\ PrefixInv' /\ \A p \in Operations : ReadInv(p)'
    <2>1. /\ state' = [state EXCEPT ![o] = "Finalizing"]
          /\ UNCHANGED <<options, size, happened, outcome, file, fileSize, offset, nodes, part, final>>
      BY <1>6 DEF ReadEnds, local
    <2>2. file[o].open /\ nodes[file[o].node] = Remote
      BY <1>1, <1>6, ReadEndsWhole
    <2> QED
      BY <1>1, <2>1, <2>2, WholeKept DEF DownloadStates
  <1>7. ASSUME NEW o \in Operations, Finalize(o)
        PROVE  AlwaysWhole' /\ PrefixInv' /\ \A p \in Operations : ReadInv(p)'
    <2>1. /\ state[o] = "Finalizing" /\ state' = [state EXCEPT ![o] = "Renaming"]
          /\ file' = [file EXCEPT ![o] = Closed]
          /\ UNCHANGED <<options, size, happened, outcome, fileSize, offset, nodes, part, final>>
      BY <1>7 DEF Finalize, Finalized
    <2>2. file[o].open /\ nodes[file[o].node] = Remote
      BY <1>1, <2>1 DEF WholeInv, ReadInv
    <2>3. part = NoNode \/ nodes[part] = Remote
      BY <2>2 DEF Disjoint
    <2> QED
      BY <1>1, <2>1, <2>3, WholeKept DEF DownloadStates
  <1>8. ASSUME NEW o \in Operations, ReadCannotWrite(o) \/ FinalizeCannotFlush(o) PROVE FALSE
    BY <1>1, <1>8 DEF ReadCannotWrite, FinalizeCannotFlush
  <1> QED
    BY <1>1, <1>2, <1>4, <1>5, <1>6, <1>7, <1>8, Steps, OthersCreateWhole, CrashWhole, PreparingWhole,
       ReadWritesWhole, RenameWhole

(* Downloads that are worked one at a time: a local file that was reported *)
(* as completed is the remote file byte by byte, whatever was left over by *)
(* a crash, continued, cancelled or written in between, for every size of  *)
(* the file and of the buffer; unless a write failed, or space is reserved *)
(* in a file that is continued.                                            *)
THEOREM CompletedIsWhole ==
  ASSUME Parallelism = 1
  PROVE  Spec => []CompletedFileIsWhole
  <1>1. Init => OneByOne /\ Disjoint /\ WholeInv
    BY DEF Init, OneByOne, Begun, Disjoint, Closed, WholeInv, AlwaysWhole, PrefixInv, ReadInv
  <1>2. WholeInv => CompletedFileIsWhole
    BY DEF WholeInv, Undisturbed, CompletedFileIsWhole
  <1> DEFINE Inv == BaseInv /\ OneByOne /\ Disjoint /\ WholeInv
  <1>3. Inv /\ [Next]_vars => Inv'
    BY BaseStep, OneByOneStep, DisjointStep, WholeStep
  <1>4. Init => Inv
    BY <1>1, BaseInitOK
  <1>5. Inv => CompletedFileIsWhole
    BY <1>2
  <1> HIDE DEF Inv
  <1> QED
    BY <1>3, <1>4, <1>5, PTL DEF Spec

=============================================================================
