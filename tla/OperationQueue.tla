--------------------------- MODULE OperationQueue ---------------------------
(***************************************************************************)
(* The backend's transfer queue (backend/sftp/operation_queue.cpp) and the *)
(* loop of Session that works it (backend/session.cpp).  Everything but    *)
(* the timer's handler runs on the session manager's strand, so a call of  *)
(* the frontend and a round of the loop are one step each.                 *)
(*                                                                         *)
(* An operation is abstracted to its kind, its state and the number of     *)
(* work() calls it still has to make; which call fails is left open.       *)
(* Operation ids are numbered in the order of creation.  The throttle's    *)
(* delay is not modelled: a timer that was set may expire at any time.     *)
(***************************************************************************)
EXTENDS Integers, Sequences, FiniteSets

CONSTANTS
    Parallelisms,      \* what SftpOptions::concurrency may be
    UnthrottledLimit,  \* rounds of the loop between two waits (10 in the code)
    Calls,             \* which calls the frontend makes
    Faults,            \* {"fail"} when operations may fail, {} otherwise
    MaxId,             \* bound: operations ever created
    MaxWork,           \* bound: work() calls an operation needs
    MaxPauses          \* bound: calls of pauseUnpause

ASSUME QueueAssumption ==
    /\ Parallelisms \subseteq Nat
    /\ UnthrottledLimit \in Nat \ {0}
    /\ MaxId \in Nat /\ MaxWork \in Nat \ {0} /\ MaxPauses \in Nat
    /\ Calls \subseteq {"file", "directory", "cancel", "cancelAll", "pause", "disconnect"}
    /\ Faults \subseteq {"fail"}

VARIABLES
    parallelism, \* parallelism_, which stays what it is
    operations,  \* operations_: the queue, oldest first
    paused,      \* paused_
    alive,       \* the Session object exists
    loop,        \* where the one continuation of doOperationQueueWork is
    timerIsRunning, \* queueThrottleTimerIsRunning_
    burst,       \* unthrottledLimitCounter_
    created,     \* ids given out so far
    pauses,      \* calls of pauseUnpause so far
    events,      \* everything sent to the frontend, in order
    cancelled    \* history: ids that were removed without a report

queueVars == <<parallelism, operations, paused, alive, loop, timerIsRunning, burst, created,
               pauses, events, cancelled>>

Ids == 1..MaxId
NoScan == 0
Kinds == {"Download", "Scan", "BulkDownload"}
States == {"NotStarted", "Running", "Completed", "Failed", "Canceled"}

Operation == [id : Ids, kind : Kinds, state : States, left : 0..MaxWork,
              scan : Ids \union {NoScan}]
Reports == {"Completed", "Failed"}
Event == [what : Reports \union {"Added", "Canceled", "Toggled", "Paused", "Unpaused"},
          of : Ids \union {0}]

Queued == {operations[i].id : i \in DOMAIN operations}
PlacesOf(id) == {i \in DOMAIN operations : operations[i].id = id}
Reported(what) == {events[i].of : i \in {j \in DOMAIN events : events[j].what = what}}

QueueInit ==
    /\ parallelism \in Parallelisms
    /\ operations = <<>> /\ events = <<>> /\ cancelled = {}
    /\ paused = TRUE /\ alive = TRUE
    /\ loop = "posted" /\ timerIsRunning = FALSE /\ burst = 0
    /\ created = 0 /\ pauses = 0

-----------------------------------------------------------------------------
(* One call of work() on an operation: it goes on, ends or fails.          *)

\* Faulty: a scan lets later operations run beside it.
IsBarrierNever(op) == FALSE

IsBarrier(op) == op.kind = "Scan"

Finished(op) == op.state \in {"Completed", "Failed", "Canceled"}

\* A bulk download without entries is complete at once.
HasNothingToDo(op) ==
    op.kind = "BulkDownload" /\ op.state = "NotStarted" /\ op.scan = NoScan

\* The first call of a scan or of a bulk download only starts it.
OnlyStarts(op) ==
    op.kind # "Download" /\ op.state = "NotStarted" /\ ~HasNothingToDo(op)

Ends(op) == HasNothingToDo(op) \/ (~Finished(op) /\ ~OnlyStarts(op) /\ op.left = 0)
GoesOn(op) == ~Finished(op) /\ ~Ends(op)
Fails(op) ==
    \/ Finished(op)
    \/ /\ "fail" \in Faults
       /\ \/ op.kind = "Download"
          \/ op.kind = "Scan" /\ op.state = "Running" /\ GoesOn(op)
          \/ op.kind = "BulkDownload" /\ GoesOn(op)

WorkedOn(op) ==
    [op EXCEPT !.state = "Running", !.left = IF OnlyStarts(op) THEN @ ELSE @ - 1]

-----------------------------------------------------------------------------
(* OperationQueue::work(): a round visits the first operations in turn and *)
(* stops behind a barrier, at a failure or at a completion.                *)

\* Faulty: every operation is worked, whatever the limit.
UpdateCountAll == Len(operations)

UpdateCount == IF Len(operations) < parallelism THEN Len(operations) ELSE parallelism

\* The round gets to the n-th operation.
Reaches(n) == \A i \in 1..(n - 1) : GoesOn(operations[i]) /\ ~IsBarrier(operations[i])

\* The queue when the n-th operation has become op.
AfterRound(n, op) ==
    [i \in DOMAIN operations |-> CASE i < n -> WorkedOn(operations[i])
                                   [] i = n -> op
                                   [] i > n -> operations[i]]

Without(s, n) == SubSeq(s, 1, n - 1) \o SubSeq(s, n + 1, Len(s))

\* Faulty: the failed operation stays where it is.
WorkFailsKeeping(n) ==
    /\ Fails(operations[n])
    /\ operations' = AfterRound(n, operations[n])
    /\ events' = Append(events, [what |-> "Failed", of |-> operations[n].id])

WorkFails(n) ==
    /\ Fails(operations[n])
    /\ operations' = Without(AfterRound(n, operations[n]), n)
    /\ events' = Append(events, [what |-> "Failed", of |-> operations[n].id])

\* A completed scan gives its entries to the bulk download behind it.
SetScanResult(s, n) ==
    [i \in DOMAIN s |->
        IF i = n + 1 /\ s[n].kind = "Scan" /\ s[i].kind = "BulkDownload"
        THEN [s[i] EXCEPT !.scan = s[n].id]
        ELSE s[i]]

\* operations_.pop_front(), whichever operation completed.
WorkCompletes(n) ==
    /\ Ends(operations[n])
    /\ operations' =
        Tail(SetScanResult(AfterRound(n, [operations[n] EXCEPT !.state = "Completed"]), n))
    /\ events' = Append(events, [what |-> "Completed", of |-> operations[n].id])

\* Every visited operation has more work.
WorkGoesOn(n) ==
    /\ GoesOn(operations[n])
    /\ n = UpdateCount \/ IsBarrier(operations[n])
    /\ operations' = AfterRound(n, WorkedOn(operations[n]))
    /\ UNCHANGED events

Work ==
    \E n \in 1..UpdateCount :
        /\ Reaches(n)
        /\ WorkFails(n) \/ WorkCompletes(n) \/ WorkGoesOn(n)

-----------------------------------------------------------------------------
(* Session::doOperationQueueWork and its timer.                            *)

StartTimer == loop' = "timer" /\ timerIsRunning' = TRUE

\* Faulty: no timer is set when the limit is reached.
AgainForgets ==
    IF burst + 1 < UnthrottledLimit
    THEN burst' = burst + 1 /\ UNCHANGED <<loop, timerIsRunning>>
    ELSE burst' = 0 /\ loop' = "ended" /\ UNCHANGED timerIsRunning

\* Ten rounds may follow at once, then the loop waits.
Again ==
    IF burst + 1 < UnthrottledLimit
    THEN burst' = burst + 1 /\ UNCHANGED <<loop, timerIsRunning>>
    ELSE burst' = 0 /\ StartTimer

\* The session is gone: the weak pointer is empty.
LoopEnds ==
    /\ loop = "posted" /\ ~alive
    /\ loop' = "ended"
    /\ UNCHANGED <<operations, paused, alive, timerIsRunning, burst, created, pauses, events, cancelled>>

LoopWaits ==
    /\ loop = "posted" /\ alive
    /\ paused \/ UpdateCount = 0
    /\ StartTimer
    /\ UNCHANGED <<operations, paused, alive, burst, created, pauses, events, cancelled>>

LoopWorks ==
    /\ loop = "posted" /\ alive /\ ~paused
    /\ Work
    /\ Again
    /\ UNCHANGED <<paused, alive, created, pauses, cancelled>>

TimerExpires ==
    /\ loop = "timer"
    /\ loop' = "expired"
    /\ UNCHANGED <<operations, paused, alive, timerIsRunning, burst, created, pauses, events, cancelled>>

\* The handler runs outside the strand, for an expired and for a cancelled timer.
TimerHandler ==
    /\ loop \in {"expired", "canceled"}
    /\ loop' = IF alive THEN "posted" ELSE "ended"
    /\ timerIsRunning' = IF alive THEN FALSE ELSE timerIsRunning
    /\ UNCHANGED <<operations, paused, alive, burst, created, pauses, events, cancelled>>

ResetQueueThrottle ==
    loop' = IF timerIsRunning /\ loop = "timer" THEN "canceled" ELSE loop

-----------------------------------------------------------------------------
(* The calls of the frontend.  addDownload looks at the remote path: an    *)
(* error or a timeout leaves the queue as it is.                           *)

New(id, kind, left) ==
    [id |-> id, kind |-> kind, state |-> "NotStarted", left |-> left, scan |-> NoScan]
Added(id) == [what |-> "Added", of |-> id]

AddFile(left) ==
    /\ alive /\ created < MaxId
    /\ created' = created + 1
    /\ operations' = Append(operations, New(created + 1, "Download", left))
    /\ events' = Append(events, Added(created + 1))
    /\ ResetQueueThrottle
    /\ UNCHANGED <<paused, alive, timerIsRunning, burst, pauses, cancelled>>

\* Faulty: the scan and the bulk download share an id.
AddDirectorySameId(scanLeft, bulkLeft) ==
    /\ alive /\ created < MaxId
    /\ created' = created + 1
    /\ operations' = operations \o <<New(created + 1, "Scan", scanLeft),
                                     New(created + 1, "BulkDownload", bulkLeft)>>
    /\ events' = events \o <<Added(created + 1), Added(created + 1)>>
    /\ ResetQueueThrottle
    /\ UNCHANGED <<paused, alive, timerIsRunning, burst, pauses, cancelled>>

AddDirectory(scanLeft, bulkLeft) ==
    /\ alive /\ created + 1 < MaxId
    /\ created' = created + 2
    /\ operations' = operations \o <<New(created + 1, "Scan", scanLeft),
                                     New(created + 2, "BulkDownload", bulkLeft)>>
    /\ events' = events \o <<Added(created + 1), Added(created + 2)>>
    /\ ResetQueueThrottle
    /\ UNCHANGED <<paused, alive, timerIsRunning, burst, pauses, cancelled>>

\* Ids are unique, so erase_if() finds one place or none; the reply says
\* success in both cases.
Cancel(id) ==
    /\ alive
    /\ \/ PlacesOf(id) = {} /\ UNCHANGED operations
       \/ \E n \in PlacesOf(id) : operations' = Without(operations, n)
    /\ cancelled' = cancelled \union (Queued \intersect {id})
    /\ events' = Append(events, [what |-> "Canceled", of |-> id])
    /\ UNCHANGED <<paused, alive, loop, timerIsRunning, burst, created, pauses>>

CancelAll ==
    /\ alive
    /\ operations' = <<>>
    /\ cancelled' = cancelled \union Queued
    /\ UNCHANGED <<paused, alive, loop, timerIsRunning, burst, created, pauses, events>>

PauseUnpause(pause) ==
    /\ alive /\ pauses < MaxPauses
    /\ pauses' = pauses + 1
    /\ paused' = pause
    /\ ResetQueueThrottle
    /\ events' = Append(events, [what |-> "Toggled", of |-> 0])
    /\ UNCHANGED <<operations, alive, timerIsRunning, burst, created, cancelled>>

IsPaused ==
    /\ alive
    /\ events' = Append(events, [what |-> IF paused THEN "Paused" ELSE "Unpaused", of |-> 0])
    /\ UNCHANGED <<operations, paused, alive, loop, timerIsRunning, burst, created, pauses, cancelled>>

\* SessionManager::removeSession destroys the session, its queue and its timer.
Disconnect ==
    /\ alive
    /\ alive' = FALSE
    /\ operations' = <<>>
    /\ cancelled' = cancelled \union Queued
    /\ loop' = IF loop = "timer" THEN "canceled" ELSE loop
    /\ UNCHANGED <<paused, timerIsRunning, burst, created, pauses, events>>

-----------------------------------------------------------------------------
Loop == (LoopEnds \/ LoopWaits \/ LoopWorks \/ TimerExpires \/ TimerHandler) /\ UNCHANGED parallelism

\* The frontend cancels what it was told of; it may come too late.
CallFile == "file" \in Calls /\ \E n \in 0..MaxWork : AddFile(n)
CallDirectory ==
    "directory" \in Calls /\ \E s \in 1..MaxWork, b \in 0..MaxWork : AddDirectory(s, b)
CallCancel ==
    "cancel" \in Calls /\ \E id \in 1..created : id \notin Reported("Canceled") /\ Cancel(id)
CallCancelAll == "cancelAll" \in Calls /\ Queued # {} /\ CancelAll
CallPause == "pause" \in Calls /\ \E p \in BOOLEAN : PauseUnpause(p)
CallDisconnect == "disconnect" \in Calls /\ Disconnect

QueueNext ==
    /\ UNCHANGED parallelism
    /\ \/ Loop
       \/ CallFile \/ CallDirectory \/ CallCancel \/ CallCancelAll \/ CallPause \/ CallDisconnect

QueueSpec == QueueInit /\ [][QueueNext]_queueVars

\* The strand runs what is posted to it and a timer expires.
QueueFairSpec == QueueSpec /\ WF_queueVars(Loop)

-----------------------------------------------------------------------------
QueueTypeOK ==
    /\ operations \in Seq(Operation) /\ events \in Seq(Event)
    /\ parallelism \in Parallelisms
    /\ paused \in BOOLEAN /\ alive \in BOOLEAN /\ timerIsRunning \in BOOLEAN
    /\ loop \in {"posted", "timer", "expired", "canceled", "ended"}
    /\ burst \in 0..(UnthrottledLimit - 1)
    /\ created \in 0..MaxId /\ pauses \in 0..MaxPauses
    /\ cancelled \subseteq Ids

ReportsAbout(id) == {i \in DOMAIN events : events[i].what \in Reports /\ events[i].of = id}

(* Every operation the frontend was told of is in the queue once, or was   *)
(* reported once, as completed or as failed, or was cancelled: nothing is  *)
(* dropped and nothing is reported twice (work() erases by position).      *)
(* With several at a time it does not hold, see CompletedStaysCompleted.   *)
EveryOperationAccountedFor ==
    parallelism = 1 => \A id \in 1..created :
        Cardinality(PlacesOf(id)) + Cardinality(ReportsAbout(id))
            + (IF id \in cancelled THEN 1 ELSE 0) = 1

(* With one operation at a time, operations are reported in the order in   *)
(* which they were added, whatever is cancelled between.                   *)
ReportsInOrder ==
    parallelism = 1 => \A i, j \in DOMAIN events :
        i < j /\ events[i].what \in Reports /\ events[j].what \in Reports
            => events[i].of < events[j].of

(* A scan is a barrier: as long as the scan of a directory is working, its *)
(* bulk download is not started, let alone reported as completed.          *)
BulkWaitsForScan ==
    \A i \in DOMAIN operations :
        operations[i].kind = "Scan" /\ ~Finished(operations[i]) =>
            /\ operations[i].id + 1 \notin Reported("Completed")
            /\ \A j \in DOMAIN operations :
                operations[j].id = operations[i].id + 1 => operations[j].state = "NotStarted"

(* A bulk download works on the entries of the scan that was added with it *)
(* and never on those of another directory (setScanResult goes to whatever *)
(* bulk download stands behind the scan).                                  *)
BulkGetsItsOwnScan ==
    \A i \in DOMAIN operations :
        operations[i].scan # NoScan => operations[i].scan = operations[i].id - 1

(* A bulk download is reported as completed only when its scan was.        *)
\* The kind of a reported operation is not kept: directories are added in a
\* run of their own, whose even ids are the bulk downloads.
BulkCompletesAfterItsScan ==
    "file" \notin Calls =>
        \A id \in Reported("Completed") : id % 2 = 0 => id - 1 \in Reported("Completed")

(* An operation that was reported as completed is not reported as failed.  *)
CompletedStaysCompleted == Reported("Completed") \intersect Reported("Failed") = {}

(* The loop goes on as long as the session does: it has exactly one        *)
(* continuation, and a timer that was cancelled does not end it.           *)
LoopNeverDies == [](alive => <>(loop = "posted" \/ ~alive))

(* What is queued leaves the queue, unless the user pauses it or goes.     *)
EveryOperationSettles ==
    \A id \in Ids : [](id \in Queued => <>(id \notin Queued \/ paused))
=============================================================================
