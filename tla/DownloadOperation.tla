-------------------------- MODULE DownloadOperation --------------------------
(***************************************************************************)
(* DownloadOperation (backend/sftp/download_operation.cpp): downloads of   *)
(* one remote file to one local path, each a state machine that the queue  *)
(* drives by calls of work() and destroys when it is over.  The data go to *)
(* a part file that is renamed at the end.                                 *)
(*                                                                         *)
(* A file is a sequence of bytes behind a node, as in the file system: an  *)
(* operation that has the part file open keeps its node when the name is   *)
(* removed or renamed.  The i-th remote byte is the number i, other bytes  *)
(* are 0.  A step is one phase of work(), finalize() has two: the check    *)
(* and the renaming.  Other operations act between calls of work(), other  *)
(* programs between phases.                                                *)
(***************************************************************************)
EXTENDS Integers, Sequences, FiniteSets

CONSTANTS
    Operations,   \* the operations, in the order of the queue: 1..n
    Parallelism,  \* how many of them are worked at a time
    Sizes,        \* lengths of the remote file considered
    BufferSize,   \* bytes a read returns at most
    Options,      \* the combinations of transfer options considered
    Faults        \* what may go wrong

ASSUME DownloadAssumption ==
    /\ Sizes \subseteq Nat /\ BufferSize \in Nat \ {0} /\ Parallelism \in Nat
    /\ IsFiniteSet(Operations) /\ Operations = 1..Cardinality(Operations)
    /\ Options \subseteq [mayOverwrite : BOOLEAN, reserveSpace : BOOLEAN, tryContinue : BOOLEAN,
                          inheritPermissions : BOOLEAN, doCleanup : BOOLEAN]
    /\ Faults \subseteq {"stream", "disk", "create", "race", "crash", "cancel"}

VARIABLES
    options,  \* the transfer options of this behaviour
    size,     \* bytes of the remote file, which does not change
    happened, \* history: "disk" when a write failed, "race" when a file appeared after the check
    state,    \* state_ of each operation; "Destroyed" when it is gone
    outcome,  \* what the queue was told: None, "Completed", "Failed", "Canceled" or "Lost"
    working,  \* the operation in work() or being destroyed, or None
    file,     \* localFile_: open, node, position, append mode, bytes not yet flushed
    fileSize, \* fileSize_
    offset,   \* position of the remote stream
    nodes,    \* bytes of each file
    part,     \* node of the part file, or NoNode
    final,    \* node of the local path, or NoNode
    foreign   \* node of a file another program put at the local path, or NoNode

vars == <<options, size, happened, state, outcome, working, file, fileSize, offset, nodes,
          part, final, foreign>>
local == <<nodes, part, final>>

None == 0
NoNode == 0
Nodes == 1..(Cardinality(Operations) + 3)
Remote == [i \in 1..size |-> i]
Closed == [open |-> FALSE, node |-> NoNode, pos |-> 0, app |-> FALSE, unflushed |-> 0]
Opened(n, at, append) == [open |-> TRUE, node |-> n, pos |-> at, app |-> append, unflushed |-> 0]

\* "Renaming" is state_ Finalizing after the check in finalize().
DownloadStates == {"NotStarted", "Preparing", "Running", "Finalizing", "Renaming", "Completed",
                   "Failed", "Canceled", "Destroyed"}

Init ==
    /\ options \in Options /\ size \in Sizes /\ happened = {}
    /\ state = [o \in Operations |-> "NotStarted"]
    /\ outcome = [o \in Operations |-> "None"]
    /\ working = None
    /\ file = [o \in Operations |-> Closed]
    /\ fileSize = [o \in Operations |-> 0]
    /\ offset = [o \in Operations |-> 0]
    /\ nodes = [n \in Nodes |-> <<>>]
    /\ part = NoNode /\ final = NoNode /\ foreign = NoNode

-----------------------------------------------------------------------------
(* The file system.                                                        *)

InUse == {part, final, foreign} \union {file[o].node : o \in {p \in Operations : file[p].open}}
FreeNode == CHOOSE n \in Nodes : n \notin InUse

\* Bytes written at a position: a gap before it is filled with zeros.
Written(bytes, pos, new) ==
    [i \in 1..(IF Len(bytes) > pos + Len(new) THEN Len(bytes) ELSE pos + Len(new)) |->
        IF i > pos /\ i <= pos + Len(new) THEN new[i - pos]
        ELSE IF i <= Len(bytes) THEN bytes[i] ELSE 0]

\* In append mode every write goes to the end, wherever the position is.
WritePosition(f) == IF f.app THEN Len(nodes[f.node]) ELSE f.pos

\* Creates or empties the part file.
Truncated == IF part = NoNode THEN FreeNode ELSE part

\* Faulty: cleanup() removes nothing.
PartAfterCleanupNever == part

\* cleanup() removes the part file, whoever wrote it.
PartAfterCleanup == IF options.doCleanup THEN NoNode ELSE part

-----------------------------------------------------------------------------
(* work(): the queue calls the first operations that are not over.         *)

Unfinished == {o \in Operations : state[o] # "Destroyed"}
Turn(o) ==
    /\ o \in Unfinished
    /\ Cardinality({p \in Unfinished : p < o}) < Parallelism

BeginWork(o) ==
    /\ working = None /\ Turn(o)
    /\ working' = o
    /\ state' = [state EXCEPT ![o] = IF @ = "NotStarted" THEN "Preparing" ELSE @]
    /\ UNCHANGED <<options, size, happened, outcome, file, fileSize, offset, local, foreign>>

\* enterErrorState: the operation fails and cancel(false) cleans up.
Fail(o) ==
    /\ state' = [state EXCEPT ![o] = "Failed"]
    /\ outcome' = [outcome EXCEPT ![o] = "Failed"]
    /\ file' = [file EXCEPT ![o] = Closed]
    /\ part' = PartAfterCleanup
    /\ UNCHANGED <<options, size, happened, working, fileSize, offset, nodes, final, foreign>>

\* prepare() finds a file it may not overwrite, or the stream fails.
PrepareFails(o) ==
    /\ working = o /\ state[o] = "Preparing"
    /\ (final # NoNode /\ ~options.mayOverwrite) \/ "stream" \in Faults
    /\ Fail(o)

\* Writes the last byte of the file and goes back.
Reserved(f, bytes) ==
    IF options.reserveSpace /\ size # 0 /\ f.open
    THEN Written(bytes, IF f.app THEN Len(bytes) ELSE size - 1, <<0>>)
    ELSE bytes

Prepared(o, f, bytes, from) ==
    /\ state' = [state EXCEPT ![o] = "Running"]
    /\ fileSize' = [fileSize EXCEPT ![o] = size]
    /\ file' = [file EXCEPT ![o] = f]
    /\ offset' = [offset EXCEPT ![o] = from]
    /\ nodes' = IF f.open THEN [nodes EXCEPT ![f.node] = Reserved(f, bytes)] ELSE nodes
    /\ part' = IF f.open THEN f.node ELSE part
    /\ UNCHANGED <<options, size, happened, outcome, working, final, foreign>>

MayPrepare(o) ==
    /\ working = o /\ state[o] = "Preparing"
    /\ final = NoNode \/ options.mayOverwrite

\* Bytes of the part file to adopt, more than enough when there is none.
Existing == IF options.tryContinue /\ part # NoNode THEN Len(nodes[part]) ELSE size + 1

\* A new download, or a part file that is too long.
PrepareAnew(o) ==
    /\ MayPrepare(o)
    /\ Existing > size
    /\ Prepared(o, Opened(Truncated, 0, FALSE), <<>>, 0)

\* The part file is complete: it is closed and kept for finalize().
PrepareComplete(o) ==
    /\ MayPrepare(o)
    /\ Existing = size
    /\ size = 0 \/ ~options.reserveSpace
    /\ Prepared(o, Closed, <<>>, 0)

\* Reserving space in the file that was just closed fails.
PrepareCompleteReserving(o) ==
    /\ MayPrepare(o)
    /\ Existing = size
    /\ size # 0 /\ options.reserveSpace
    /\ Fail(o)

\* The part file is incomplete: append to it, from there on.
PrepareContinues(o) ==
    /\ MayPrepare(o)
    /\ Existing < size
    /\ Prepared(o, Opened(part, Len(nodes[part]), TRUE),
                nodes[part], Len(nodes[part]))

-----------------------------------------------------------------------------
(* readOnce().                                                             *)

ReadFails(o) ==
    /\ working = o /\ state[o] = "Running"
    /\ ~file[o].open \/ (fileSize[o] # 0 /\ "stream" \in Faults)
    /\ Fail(o)

\* Nothing to read, or the end of the remote file.
ReadEnds(o) ==
    /\ working = o /\ state[o] = "Running" /\ file[o].open
    /\ fileSize[o] = 0 \/ offset[o] >= size
    /\ state' = [state EXCEPT ![o] = "Finalizing"]
    /\ UNCHANGED <<options, size, happened, outcome, working, file, fileSize, offset, local, foreign>>

\* The bytes read go to the file, at first perhaps only to its buffer.
Wrote(o, n, more) ==
    LET f == file[o]
        at == WritePosition(f)
        new == SubSeq(Remote, offset[o] + 1, offset[o] + n)
    IN  /\ nodes' = [nodes EXCEPT ![f.node] = Written(@, at, new)]
        /\ file' = [file EXCEPT ![o].pos = at + n, ![o].unflushed = n]
        /\ offset' = [offset EXCEPT ![o] = @ + n]
        /\ state' = [state EXCEPT ![o] = IF more THEN "Running" ELSE "Finalizing"]
        /\ working' = IF more THEN None ELSE o
        /\ UNCHANGED <<options, size, happened, outcome, fileSize, part, final, foreign>>

MayRead(o, n) ==
    /\ working = o /\ state[o] = "Running" /\ file[o].open
    /\ fileSize[o] # 0 /\ offset[o] + n <= size

\* Faulty: the last byte is not waited for.
ReadWritesAllButOne(o, n) ==
    /\ MayRead(o, n)
    /\ Wrote(o, n, WritePosition(file[o]) + n + 1 < fileSize[o])

\* There is more to read until the position is the size of the file.
ReadWrites(o, n) ==
    /\ MayRead(o, n)
    /\ Wrote(o, n, WritePosition(file[o]) + n < fileSize[o])

\* The write fails: the error state is entered, and left again because
\* readOnce() returns false, which is "no more to read".
ReadCannotWrite(o) ==
    /\ working = o /\ state[o] = "Running" /\ file[o].open
    /\ fileSize[o] # 0 /\ offset[o] < size /\ "disk" \in Faults
    /\ happened' = happened \union {"disk"}
    /\ state' = [state EXCEPT ![o] = "Finalizing"]
    /\ file' = [file EXCEPT ![o] = Closed]
    /\ part' = PartAfterCleanup
    /\ UNCHANGED <<options, size, outcome, working, fileSize, offset, nodes, final, foreign>>

-----------------------------------------------------------------------------
(* finalize().                                                             *)

Finalized(o) ==
    /\ working = o /\ state[o] = "Finalizing"
    /\ file' = [file EXCEPT ![o] = Closed]
    /\ UNCHANGED <<options, size, working, fileSize, offset, final, foreign>>

FinalizeFails(o) ==
    /\ working = o /\ state[o] = "Finalizing"
    /\ final # NoNode /\ ~options.mayOverwrite
    /\ Fail(o)

\* Faulty: the second check for an existing file is missing.
FinalizeUnchecked(o) ==
    /\ Finalized(o)
    /\ state' = [state EXCEPT ![o] = "Renaming"]
    /\ UNCHANGED <<happened, outcome, nodes, part>>

\* The file is closed; no other file is in the way, or it may be.
Finalize(o) ==
    /\ Finalized(o)
    /\ final = NoNode \/ options.mayOverwrite
    /\ state' = [state EXCEPT ![o] = "Renaming"]
    /\ UNCHANGED <<happened, outcome, nodes, part>>

\* The bytes still in the buffer cannot be written, which nobody notices.
FinalizeCannotFlush(o) ==
    /\ Finalized(o)
    /\ final = NoNode \/ options.mayOverwrite
    /\ "disk" \in Faults /\ file[o].open /\ file[o].unflushed > 0
    /\ happened' = happened \union {"disk"}
    /\ state' = [state EXCEPT ![o] = "Renaming"]
    /\ LET n == file[o].node
       IN  nodes' = [nodes EXCEPT ![n] = SubSeq(@, 1, Len(@) - file[o].unflushed)]
    /\ UNCHANGED <<outcome, part>>

RenameFails(o) ==
    /\ working = o /\ state[o] = "Renaming"
    /\ part = NoNode
    /\ Fail(o)

\* The file is renamed; then its permissions are set or cannot be.
Rename(o) ==
    /\ working = o /\ state[o] = "Renaming"
    /\ part # NoNode
    /\ final' = part /\ part' = NoNode
    /\ \E result \in {"Completed"} \union
                    (IF options.inheritPermissions /\ "stream" \in Faults THEN {"Failed"} ELSE {}) :
           /\ state' = [state EXCEPT ![o] = result]
           /\ outcome' = [outcome EXCEPT ![o] = result]
    /\ UNCHANGED <<options, size, happened, working, file, fileSize, offset, nodes, foreign>>

-----------------------------------------------------------------------------
(* The end of an operation.                                                *)

\* Faulty: destroying a completed operation does not release the strand.
DestroyFailedOnly(o) ==
    /\ working = o /\ state[o] = "Failed"
    /\ state' = [state EXCEPT ![o] = "Destroyed"]
    /\ working' = None
    /\ part' = PartAfterCleanup
    /\ UNCHANGED <<options, size, happened, outcome, file, fileSize, offset, nodes, final, foreign>>

\* The queue drops an operation that is over; the destructor cleans up again.
Destroy(o) ==
    /\ working = o /\ state[o] \in {"Completed", "Failed", "Canceled"}
    /\ state' = [state EXCEPT ![o] = "Destroyed"]
    /\ working' = None
    /\ part' = PartAfterCleanup
    /\ UNCHANGED <<options, size, happened, outcome, file, fileSize, offset, nodes, final, foreign>>

\* OperationQueue::cancel(id) calls cancel(true) and drops the operation.
Cancel(o) ==
    /\ "cancel" \in Faults
    /\ working = None /\ o \in Unfinished
    /\ state' = [state EXCEPT ![o] = "Canceled"]
    /\ outcome' = [outcome EXCEPT ![o] = "Canceled"]
    /\ working' = o
    /\ file' = [file EXCEPT ![o] = Closed]
    /\ part' = PartAfterCleanup
    /\ UNCHANGED <<options, size, happened, fileSize, offset, nodes, final, foreign>>

-----------------------------------------------------------------------------
(* The rest of the world.                                                  *)

\* Another program creates a file at the local path, with "race" also
\* between the check and the renaming.
OthersCreate ==
    /\ "create" \in Faults
    /\ IF \E o \in Operations : state[o] = "Renaming"
       THEN "race" \in Faults /\ happened' = happened \union {"race"} ELSE UNCHANGED happened
    /\ final = NoNode /\ foreign = NoNode
    /\ final' = FreeNode /\ foreign' = FreeNode
    /\ nodes' = [nodes EXCEPT ![FreeNode] = <<0>>]
    /\ UNCHANGED <<options, size, state, outcome, working, file, fileSize, offset, part>>

\* The program dies: operations that had begun are lost without any cleanup,
\* and of the bytes that were not flushed some prefix is in the part file.
Crash ==
    /\ "crash" \in Faults
    /\ \E o \in Operations : state[o] \notin {"NotStarted", "Destroyed"}
    /\ state' = [o \in Operations |-> IF state[o] = "NotStarted" THEN "NotStarted" ELSE "Destroyed"]
    /\ outcome' = [o \in Operations |->
                      IF state[o] # "NotStarted" /\ outcome[o] = "None" THEN "Lost" ELSE outcome[o]]
    /\ working' = None
    /\ file' = [o \in Operations |-> Closed]
    /\ \E kept \in 0..size :
           nodes' = IF part = NoNode THEN nodes
                    ELSE [nodes EXCEPT ![part] = SubSeq(@, 1, IF kept < Len(@) THEN kept ELSE Len(@))]
    /\ UNCHANGED <<options, size, happened, fileSize, offset, part, final, foreign>>

-----------------------------------------------------------------------------
Work(o) ==
    \/ BeginWork(o)
    \/ PrepareFails(o) \/ PrepareAnew(o) \/ PrepareComplete(o) \/ PrepareCompleteReserving(o)
    \/ PrepareContinues(o)
    \/ ReadFails(o) \/ ReadEnds(o) \/ ReadCannotWrite(o)
    \/ \E n \in 1..BufferSize : ReadWrites(o, n)
    \/ FinalizeFails(o) \/ Finalize(o) \/ FinalizeCannotFlush(o)
    \/ RenameFails(o) \/ Rename(o)
    \/ Destroy(o)

Next ==
    \/ \E o \in Operations : Work(o) \/ Cancel(o)
    \/ OthersCreate \/ Crash

Spec == Init /\ [][Next]_vars

\* The queue goes on calling work().
FairSpec == Spec /\ \A o \in Operations : WF_vars(Work(o))

-----------------------------------------------------------------------------
TypeOK ==
    /\ options \in Options /\ size \in Sizes /\ happened \subseteq Faults
    /\ state \in [Operations -> DownloadStates]
    /\ outcome \in [Operations -> {"None", "Completed", "Failed", "Canceled", "Lost"}]
    /\ working \in Operations \union {None}
    /\ file \in [Operations -> [open : BOOLEAN, node : Nodes \union {NoNode},
                                pos : Nat, app : BOOLEAN, unflushed : 0..BufferSize]]
    /\ \A o \in Operations : file[o].open => state[o] \in {"Running", "Finalizing"}
    /\ fileSize \in [Operations -> {0, size}] /\ offset \in [Operations -> 0..size]
    /\ nodes \in [Nodes -> Seq(0..size)]
    /\ part \in Nodes \union {NoNode} /\ final \in Nodes \union {NoNode}
    /\ foreign \in Nodes \union {NoNode}

(* The same in every case: violated when the disk gets full, when space is *)
(* reserved in a continued file, and by operations that run in parallel.   *)
AlwaysWhole ==
    \A o \in Operations : outcome[o] = "Completed" => final # NoNode /\ nodes[final] = Remote

(* When a download is reported as completed, the local file is the remote  *)
(* file byte by byte: whatever was left over by a crash, whatever was      *)
(* continued, cancelled or written in between; unless a write failed, or   *)
(* space is reserved in a file that is continued.                          *)
CompletedFileIsWhole ==
    "disk" \notin happened /\ ~(options.reserveSpace /\ options.tryContinue) => AlwaysWhole

(* The same in every case: violated by a file that comes in between the    *)
(* last check and the renaming.                                            *)
AlwaysSurvives ==
    foreign # NoNode /\ ~options.mayOverwrite => final = foreign /\ nodes[foreign] = <<0>>

(* A file that another program put at the local path is not replaced       *)
(* unless the options allow it, even when it appears during the download,  *)
(* but not between the last check and the renaming.                        *)
ForeignFileSurvives == "race" \notin happened => AlwaysSurvives

(* A part file is never longer than the remote file, and one that the next *)
(* download may continue is a prefix of the remote file.                   *)
PartIsPrefix ==
    part # NoNode /\ ~options.reserveSpace =>
        Len(nodes[part]) <= size /\ nodes[part] = SubSeq(Remote, 1, Len(nodes[part]))

(* With doCleanup no part file is left once every operation is over,       *)
(* unless the program died.                                                *)
PartIsCleanedUp ==
    /\ options.doCleanup /\ Unfinished = {} /\ \A o \in Operations : outcome[o] # "Lost"
    => part = NoNode

(* When nothing worse happens than that the program died or that a file    *)
(* appeared, a download fails only if that file may not be overwritten.    *)
FailsOnlyForAReason ==
    Faults \subseteq {"crash", "create"} =>
        \A o \in Operations : outcome[o] = "Failed" => final # NoNode /\ ~options.mayOverwrite

(* Every operation is worked to an end and destroyed.                      *)
EveryOperationEnds == \A o \in Operations : <>(state[o] = "Destroyed")
=============================================================================
