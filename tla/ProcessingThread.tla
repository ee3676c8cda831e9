--------------------------- MODULE ProcessingThread ---------------------------
(***************************************************************************)
(* SecureShell::ProcessingThread: the thread that owns one libssh session.  *)
(* Every SFTP and channel operation of the program is a task of this        *)
(* executor.  Three kinds of actors run concurrently:                       *)
(*   - the worker, the thread that executes run();                          *)
(*   - the clients, threads that push tasks and add or remove permanent     *)
(*     tasks while the worker runs;                                         *)
(*   - the owner, the thread that calls start() and stop().                 *)
(*                                                                          *)
(* Every critical section of taskMutex_ is one action, every read of an     *)
(* atomic outside the mutex is an action of its own.  What a task does is   *)
(* chosen when it runs: it may call the executor's operations or, when it   *)
(* is in Throwing, throw.  The bounds are MaxPermanents (permanent tasks    *)
(* ever added), MaxModifications (removals deferred), MaxStarts and         *)
(* MaxStops (calls of the owner); each task is pushed at most once.         *)
(***************************************************************************)
EXTENDS Integers, Sequences, FiniteSets

CONSTANTS
    Clients,             \* threads other than the worker and the owner
    Tasks,               \* tasks that can be pushed, each at most once
    NoTask,              \* no task: the argument of a client that has none
    Throwing,            \* the tasks whose body throws
    ThrowingPermanents,  \* ids of the permanent tasks whose body throws
    ClientOps,           \* operations that clients call
    BodyOps,             \* operations that task bodies call
    MaxBatch,            \* maximumTasksProcessableAtOnce
    MaxPermanents,       \* bound: permanentTaskIdCounter_
    MaxModifications,    \* bound: length of deferredTaskModification_, but for strands
    MaxStarts, MaxStops  \* bounds: calls of start() and stop()

Operations == {"push", "pushPermanent", "remove", "clear", "await"}
PermanentIds == 1..MaxPermanents

ASSUME ThreadAssumption ==
    /\ NoTask \notin Tasks
    /\ Throwing \subseteq Tasks
    /\ ThrowingPermanents \subseteq Nat
    /\ ClientOps \subseteq Operations
    /\ BodyOps \subseteq Operations
    /\ MaxBatch \in Nat \ {0}
    /\ MaxPermanents \in Nat
    /\ MaxModifications \in Nat
    /\ MaxStarts \in Nat
    /\ MaxStops \in Nat

VARIABLES
    running, shuttingDown, permanentTasksAvailable, processingPermanents,
    permanentTaskIdCounter,
    tasks,                      \* tasks_
    permanentTasks,             \* ids in permanentTasks_
    deferredTaskModification,
    wpc,                        \* where the worker is in run()
    moved, todo,                \* permaTasksMoved, those of them still to run
    batch,                      \* the tasks taken in this cycle, still to run
    ctl, starts, stops,         \* the owner's call in progress, its call counts
    cpc, arg,                   \* each client's call in progress, its argument
    accepted, executed,         \* history: tasks accepted, tasks run, in order
    dropped,                    \* history: tasks destroyed without being run
    gone                        \* history: ids a caller was told are removed

flags    == <<running, shuttingDown>>
permVars == <<permanentTasks, permanentTasksAvailable, permanentTaskIdCounter,
              deferredTaskModification, gone>>
taskVars == <<tasks, accepted>>
workVars == <<wpc, moved, todo, batch, processingPermanents>>
ownVars  == <<ctl, starts, stops>>
cliVars  == <<cpc, arg>>
history  == <<executed, dropped>>
vars == <<flags, permVars, taskVars, workVars, ownVars, cliVars, history>>

RangeOf(s) == {s[i] : i \in DOMAIN s}

(***************************************************************************)
(* A deferred modification.  "erase" comes from the worker itself,          *)
(* "notify" from another thread that waits for a promise; the outcome is    *)
(* what it found when it first ran, for "notify" the value of the promise.  *)
(***************************************************************************)
Modification == [kind : {"clear", "erase", "notify"}, id : Nat,
                 outcome : {"pending", "erased", "absent"}]
Modify(k, i) == [kind |-> k, id |-> i, outcome |-> "pending"]

TypeOK ==
    /\ running \in BOOLEAN /\ shuttingDown \in BOOLEAN
    /\ permanentTasksAvailable \in BOOLEAN /\ processingPermanents \in BOOLEAN
    /\ permanentTaskIdCounter \in 0..MaxPermanents
    /\ tasks \in Seq(Tasks) /\ batch \in Seq(Tasks)
    /\ permanentTasks \subseteq PermanentIds
    /\ moved \subseteq PermanentIds /\ todo \subseteq moved
    /\ deferredTaskModification \in Seq(Modification)
    /\ wpc \in {"none", "check", "cycle", "takePermanents", "permanents",
                "ranPermanent", "merge", "take", "tasks", "caught", "exited"}
    /\ ctl \in {"off", "starting", "on", "stopping", "joining", "drain"}
    /\ starts \in 0..MaxStarts /\ stops \in 0..MaxStops
    /\ cpc \in [Clients -> {"idle", "append", "appendPermanent", "removal",
                            "awaitPush", "awaitAppend", "awaitCycle"}]
    /\ arg \in [Clients -> Tasks \cup Nat \cup {NoTask}]
    /\ accepted \in Seq(Tasks) /\ executed \in Seq(Tasks)
    /\ dropped \subseteq Tasks /\ gone \subseteq Nat

Init ==
    /\ running = FALSE /\ shuttingDown = FALSE
    /\ permanentTasksAvailable = FALSE /\ processingPermanents = FALSE
    /\ permanentTaskIdCounter = 0
    /\ tasks = <<>> /\ permanentTasks = {} /\ deferredTaskModification = <<>>
    /\ wpc = "none" /\ moved = {} /\ todo = {} /\ batch = <<>>
    /\ ctl = "off" /\ starts = 0 /\ stops = 0
    /\ cpc = [c \in Clients |-> "idle"] /\ arg = [c \in Clients |-> NoTask]
    /\ accepted = <<>> /\ executed = <<>> /\ dropped = {} /\ gone = {}

-----------------------------------------------------------------------------
(* The critical sections of taskMutex_, shared by clients and task bodies. *)

\* stop() holds taskMutex_ from the lock to the end of its drain loop.
MutexFree == ctl # "drain"

Fresh == Tasks \ (RangeOf(accepted) \cup {arg[c] : c \in Clients})

\* Faulty: the task is put in front of those that wait.
AppendTaskInFront(t) ==
    /\ tasks' = <<t>> \o tasks
    /\ accepted' = Append(accepted, t)

AppendTask(t) ==
    /\ tasks' = Append(tasks, t)
    /\ accepted' = Append(accepted, t)

\* Faulty: the flag that run() looks at is forgotten.
InsertPermanentUnseen ==
    /\ permanentTaskIdCounter < MaxPermanents
    /\ permanentTaskIdCounter' = permanentTaskIdCounter + 1
    /\ permanentTasks' = permanentTasks \cup {permanentTaskIdCounter'}
    /\ UNCHANGED <<permanentTasksAvailable, deferredTaskModification, gone>>

InsertPermanent ==
    /\ permanentTaskIdCounter < MaxPermanents
    /\ permanentTaskIdCounter' = permanentTaskIdCounter + 1
    /\ permanentTasks' = permanentTasks \cup {permanentTaskIdCounter'}
    /\ permanentTasksAvailable' = TRUE
    /\ UNCHANGED <<deferredTaskModification, gone>>

\* The bound: on removals and clears but for those a strand makes when it is finalized.
MayDefer == processingPermanents => Len(deferredTaskModification) < MaxModifications

Defer(m) ==
    /\ deferredTaskModification' = Append(deferredTaskModification, m)
    /\ UNCHANGED <<permanentTasks, permanentTasksAvailable, permanentTaskIdCounter, gone>>

\* Faulty: the flag stays up when the last permanent task is erased.
EraseNowStale(ids) ==
    /\ permanentTasks' = permanentTasks \ ids
    /\ gone' = gone \cup (permanentTasks \cap ids)
    /\ UNCHANGED <<permanentTasksAvailable, permanentTaskIdCounter, deferredTaskModification>>

\* The caller is told at once that these ids are removed.
EraseNow(ids) ==
    /\ permanentTasks' = permanentTasks \ ids
    /\ permanentTasksAvailable' = (permanentTasks' # {})
    /\ gone' = gone \cup (permanentTasks \cap ids)
    /\ UNCHANGED <<permanentTaskIdCounter, deferredTaskModification>>

ClearPermanentTasks ==
    IF processingPermanents THEN Defer(Modify("clear", 0))
                            ELSE EraseNow(permanentTasks)

-----------------------------------------------------------------------------
(* What a running task may do with the executor.  within tells whether it   *)
(* runs on the worker (withinProcessingThread()) or in stop()'s drain.      *)

BodyPush ==
    /\ "push" \in BodyOps
    /\ ~shuttingDown
    /\ \E t \in Fresh : AppendTask(t)

BodyPushPermanent ==
    /\ "pushPermanent" \in BodyOps
    /\ ~shuttingDown
    /\ InsertPermanent

\* From the worker the answer is "true" at once; the drain of stop() waits
\* its five seconds for a promise that no thread is left to set.
BodyRemove(within) ==
    /\ "remove" \in BodyOps /\ MayDefer
    /\ \E id \in 1..permanentTaskIdCounter :
           IF processingPermanents
           THEN Defer(Modify(IF within THEN "erase" ELSE "notify", id))
           ELSE EraseNow({id})

BodyClear == "clear" \in BodyOps /\ MayDefer /\ ClearPermanentTasks

BodyOnPermanents(within) ==
    \/ UNCHANGED permVars
    \/ BodyPushPermanent
    \/ BodyRemove(within)
    \/ BodyClear

Body == \/ BodyPush /\ UNCHANGED permVars
        \/ BodyOnPermanents(TRUE) /\ UNCHANGED taskVars

-----------------------------------------------------------------------------
(* The worker: run(). *)

WorkerCheck ==
    /\ wpc = "check"
    /\ wpc' = IF running THEN "cycle" ELSE "exited"
    /\ UNCHANGED <<flags, permVars, taskVars, moved, todo, batch,
                   processingPermanents, ownVars, cliVars, history>>

WorkerCycle ==
    /\ wpc = "cycle"
    /\ wpc' = IF permanentTasksAvailable THEN "takePermanents" ELSE "take"
    /\ UNCHANGED <<flags, permVars, taskVars, moved, todo, batch,
                   processingPermanents, ownVars, cliVars, history>>

WorkerTakePermanents ==
    /\ wpc = "takePermanents" /\ MutexFree
    /\ moved' = permanentTasks /\ todo' = permanentTasks
    /\ permanentTasks' = {}
    /\ processingPermanents' = TRUE
    /\ wpc' = IF permanentTasks = {} THEN "merge" ELSE "permanents"
    /\ UNCHANGED <<permanentTasksAvailable, permanentTaskIdCounter,
                   deferredTaskModification, gone, flags, taskVars, batch,
                   ownVars, cliVars, history>>

\* The std::map is walked in the order of the ids.
Next1(S) == CHOOSE i \in S : \A j \in S : i <= j

WorkerRunPermanentDoing(body) ==
    /\ wpc = "permanents"
    /\ LET id == Next1(todo) IN
       IF id \in ThrowingPermanents
       THEN /\ wpc' = "caught" /\ moved' = {} /\ todo' = {}
            /\ UNCHANGED <<permVars, taskVars>>
       ELSE /\ wpc' = "ranPermanent" /\ todo' = todo \ {id}
            /\ UNCHANGED moved
            /\ body
    /\ UNCHANGED <<flags, batch, processingPermanents, ownVars, cliVars, history>>

WorkerRunPermanent == WorkerRunPermanentDoing(Body)

WorkerRanPermanent ==
    /\ wpc = "ranPermanent"
    /\ wpc' = IF todo = {} \/ ~running \/ shuttingDown THEN "merge" ELSE "permanents"
    /\ UNCHANGED <<flags, permVars, taskVars, moved, todo, batch,
                   processingPermanents, ownVars, cliVars, history>>

(***************************************************************************)
(* The end of a permanent cycle, under the mutex: the moved tasks go back,  *)
(* then every deferred modification runs in order.  The vector is not       *)
(* cleared, so a modification runs again at the end of every later cycle;   *)
(* a "notify" whose promise was set before throws out of the loop, after    *)
(* its erase and before the modifications behind it.                        *)
(***************************************************************************)
\* Faulty: removals by the worker itself set a promise too.
ThrowsAlways(i) == deferredTaskModification[i].outcome # "pending"

Throws(i) == /\ deferredTaskModification[i].kind = "notify"
             /\ deferredTaskModification[i].outcome # "pending"
Reached == {i \in DOMAIN deferredTaskModification : \A j \in 1..(i-1) : ~Throws(j)}
Erases(i, id) == \/ deferredTaskModification[i].kind = "clear"
                 \/ deferredTaskModification[i].id = id
ErasedBy(S) == {id \in permanentTasks \cup moved : \E i \in S : Erases(i, id)}
Answered(i) ==
    IF i \notin Reached \/ deferredTaskModification[i].outcome # "pending"
    THEN deferredTaskModification[i].outcome
    ELSE IF ErasedBy({j \in Reached : j < i}) # ErasedBy({j \in Reached : j <= i})
    THEN "erased" ELSE "absent"

\* Faulty: the moved tasks go back after the modifications have run.
WorkerMergeLate ==
    /\ wpc = "merge" /\ MutexFree
    /\ processingPermanents' = FALSE
    /\ permanentTasks' = (permanentTasks \ ErasedBy(Reached)) \cup moved
    /\ permanentTasksAvailable' = (permanentTasks' # {})
    /\ deferredTaskModification' =
           [i \in DOMAIN deferredTaskModification |->
               [deferredTaskModification[i] EXCEPT !.outcome = Answered(i)]]
    /\ moved' = {} /\ todo' = {}
    /\ wpc' = "take"
    /\ UNCHANGED <<permanentTaskIdCounter, gone, flags, taskVars, batch, ownVars,
                   cliVars, history>>

WorkerMerge ==
    /\ wpc = "merge" /\ MutexFree
    /\ processingPermanents' = FALSE
    /\ permanentTasks' = (permanentTasks \cup moved) \ ErasedBy(Reached)
    /\ permanentTasksAvailable' = (permanentTasks' # {})
    /\ deferredTaskModification' =
           [i \in DOMAIN deferredTaskModification |->
               [deferredTaskModification[i] EXCEPT !.outcome = Answered(i)]]
    /\ moved' = {} /\ todo' = {}
    /\ wpc' = IF \E i \in DOMAIN deferredTaskModification : Throws(i)
              THEN "caught" ELSE "take"
    /\ UNCHANGED <<permanentTaskIdCounter, gone, flags, taskVars, batch, ownVars,
                   cliVars, history>>

WorkerTake ==
    /\ wpc = "take" /\ MutexFree
    /\ LET n == IF Len(tasks) < MaxBatch THEN Len(tasks) ELSE MaxBatch IN
       /\ batch' = SubSeq(tasks, 1, n)
       /\ tasks' = SubSeq(tasks, n + 1, Len(tasks))
       /\ wpc' = IF n = 0 THEN "check" ELSE "tasks"
    /\ UNCHANGED <<accepted, flags, permVars, moved, todo, processingPermanents,
                   ownVars, cliVars, history>>

\* A throwing task takes the rest of its batch with it.
WorkerRunTaskDoing(body) ==
    /\ wpc = "tasks"
    /\ executed' = Append(executed, Head(batch))
    /\ IF Head(batch) \in Throwing
       THEN /\ wpc' = "caught" /\ batch' = <<>>
            /\ dropped' = dropped \cup RangeOf(Tail(batch))
            /\ UNCHANGED <<permVars, taskVars>>
       ELSE /\ wpc' = IF Len(batch) = 1 THEN "check" ELSE "tasks"
            /\ batch' = Tail(batch)
            /\ UNCHANGED dropped
            /\ body
    /\ UNCHANGED <<flags, moved, todo, processingPermanents, ownVars, cliVars>>

WorkerRunTask == WorkerRunTaskDoing(Body)

\* catch (...) in run()
WorkerCatch ==
    /\ wpc = "caught" /\ MutexFree
    /\ running' = FALSE
    /\ wpc' = "exited"
    /\ UNCHANGED <<shuttingDown, permVars, taskVars, moved, todo, batch,
                   processingPermanents, ownVars, cliVars, history>>

Worker == \/ WorkerCheck \/ WorkerCycle \/ WorkerTakePermanents
          \/ WorkerRunPermanent \/ WorkerRanPermanent \/ WorkerMerge
          \/ WorkerTake \/ WorkerRunTask \/ WorkerCatch

-----------------------------------------------------------------------------
(* The owner: start() and stop(). *)

StartLock ==
    /\ ctl = "off" /\ wpc = "none" /\ starts < MaxStarts
    /\ running' = TRUE
    /\ ctl' = "starting" /\ starts' = starts + 1
    /\ UNCHANGED <<shuttingDown, stops, permVars, taskVars, workVars, cliVars, history>>

StartSpawn ==
    /\ ctl = "starting"
    /\ shuttingDown' = FALSE
    /\ wpc' = "check"
    /\ ctl' = "on"
    /\ UNCHANGED <<running, starts, stops, permVars, taskVars, moved, todo, batch,
                   processingPermanents, cliVars, history>>

\* stop() is also what the destructor calls, on a thread never started too.
StopCall ==
    /\ ctl \in {"off", "on"} /\ stops < MaxStops
    /\ shuttingDown' = TRUE
    /\ ctl' = "stopping" /\ stops' = stops + 1
    /\ UNCHANGED <<running, starts, permVars, taskVars, workVars, cliVars, history>>

\* Faulty: the worker is not told to leave its loop.
StopLockOnly ==
    /\ ctl = "stopping"
    /\ ctl' = "joining"
    /\ UNCHANGED <<flags, starts, stops, permVars, taskVars, workVars, cliVars, history>>

StopLock ==
    /\ ctl = "stopping"
    /\ running' = FALSE
    /\ ctl' = "joining"
    /\ UNCHANGED <<shuttingDown, starts, stops, permVars, taskVars, workVars,
                   cliVars, history>>

StopJoin ==
    /\ ctl = "joining" /\ wpc \in {"none", "exited"}
    /\ wpc' = "none"
    /\ ctl' = "drain"
    /\ UNCHANGED <<flags, starts, stops, permVars, taskVars, moved, todo, batch,
                   processingPermanents, cliVars, history>>

\* tasks_.back()() then pop_back(), on the stopping thread; a throwing task
\* leaves stop() by the exception, still queued and with shuttingDown_ set.
StopDrainDoing(body) ==
    /\ ctl = "drain" /\ tasks # <<>>
    /\ LET t == tasks[Len(tasks)] IN
       /\ executed' = Append(executed, t)
       /\ IF t \in Throwing
          THEN /\ ctl' = "off"
               /\ UNCHANGED <<permVars, taskVars>>
          ELSE /\ tasks' = SubSeq(tasks, 1, Len(tasks) - 1)
               /\ body
               /\ UNCHANGED <<ctl, accepted>>
    /\ UNCHANGED <<flags, starts, stops, workVars, cliVars, dropped>>

StopDrain == StopDrainDoing(BodyOnPermanents(FALSE))

StopReturn ==
    /\ ctl = "drain" /\ tasks = <<>>
    /\ shuttingDown' = FALSE
    /\ ctl' = "off"
    /\ UNCHANGED <<running, starts, stops, permVars, taskVars, workVars,
                   cliVars, history>>

Stop == StopLock \/ StopJoin \/ StopDrain \/ StopReturn
Owner == StartLock \/ StartSpawn \/ StopCall \/ Stop

-----------------------------------------------------------------------------
(* The clients.  pushTask() and pushPermanentTask() read shuttingDown_       *)
(* before they lock; a push refused there changes nothing.                   *)

Call(c, where, x) ==
    /\ cpc' = [cpc EXCEPT ![c] = where]
    /\ arg' = [arg EXCEPT ![c] = x]

Return(c) == Call(c, "idle", NoTask)

PushBegin(c) ==
    /\ cpc[c] = "idle" /\ ~shuttingDown
    /\ \E t \in Fresh : Call(c, "append", t)
    /\ UNCHANGED <<flags, permVars, taskVars, workVars, ownVars, history>>

PushCheck(c) == "push" \in ClientOps /\ PushBegin(c)

\* Faulty: pushTask() does not lock.
PushAppendUnlocked(c) ==
    /\ cpc[c] = "append"
    /\ AppendTask(arg[c])
    /\ Return(c)
    /\ UNCHANGED <<flags, permVars, workVars, ownVars, history>>

PushAppend(c) ==
    /\ cpc[c] = "append" /\ MutexFree
    /\ AppendTask(arg[c])
    /\ Return(c)
    /\ UNCHANGED <<flags, permVars, workVars, ownVars, history>>

PushPermanentBegin(c) ==
    /\ cpc[c] = "idle" /\ ~shuttingDown
    /\ permanentTaskIdCounter < MaxPermanents
    /\ Call(c, "appendPermanent", NoTask)
    /\ UNCHANGED <<flags, permVars, taskVars, workVars, ownVars, history>>

PushPermanentCheck(c) == "pushPermanent" \in ClientOps /\ PushPermanentBegin(c)

PushPermanentInsert(c) ==
    /\ cpc[c] = "appendPermanent" /\ MutexFree
    /\ InsertPermanent
    /\ Return(c)
    /\ UNCHANGED <<flags, taskVars, workVars, ownVars, history>>

\* removePermanentTask() from another thread than the worker
RemoveId(c, id) ==
    /\ cpc[c] = "idle" /\ MutexFree
    /\ IF processingPermanents
       THEN /\ Defer(Modify("notify", id))
            /\ Call(c, "removal", Len(deferredTaskModification) + 1)
       ELSE EraseNow({id}) /\ UNCHANGED cliVars
    /\ UNCHANGED <<flags, taskVars, workVars, ownVars, history>>

Remove(c) == /\ "remove" \in ClientOps /\ MayDefer
             /\ \E id \in 1..permanentTaskIdCounter : RemoveId(c, id)

\* The future is ready, whatever the promise was set to: the answer is "true".
RemoveReady(c) ==
    /\ cpc[c] = "removal"
    /\ deferredTaskModification[arg[c]].outcome # "pending"
    /\ gone' = gone \cup {deferredTaskModification[arg[c]].id}
    /\ Return(c)
    /\ UNCHANGED <<permanentTasks, permanentTasksAvailable, permanentTaskIdCounter,
                   deferredTaskModification, flags, taskVars, workVars, ownVars, history>>

\* Faulty: the wait for the promise has no limit.
RemoveTimeoutNever(c) == cpc[c] = "none" /\ UNCHANGED vars

RemoveTimeout(c) ==
    /\ cpc[c] = "removal"
    /\ deferredTaskModification[arg[c]].outcome = "pending"
    /\ Return(c)
    /\ UNCHANGED <<flags, permVars, taskVars, workVars, ownVars, history>>

Clear(c) ==
    /\ cpc[c] = "idle" /\ "clear" \in ClientOps /\ MutexFree /\ MayDefer
    /\ ClearPermanentTasks
    /\ UNCHANGED <<flags, taskVars, workVars, ownVars, cliVars, history>>

(***************************************************************************)
(* awaitCycle(): reads running_ under the mutex, then pushPromiseTask().    *)
(* pushPromiseTask() ignores that the push was refused: the promise is      *)
(* destroyed with the task and a broken promise is a ready future.          *)
(***************************************************************************)
Await(c) ==
    /\ cpc[c] = "idle" /\ "await" \in ClientOps /\ MutexFree
    /\ running
    /\ \E t \in Fresh \ Throwing : Call(c, "awaitPush", t)
    /\ UNCHANGED <<flags, permVars, taskVars, workVars, ownVars, history>>

AwaitRefused(c) ==
    /\ cpc[c] = "awaitPush" /\ shuttingDown
    /\ Return(c)
    /\ UNCHANGED <<flags, permVars, taskVars, workVars, ownVars, history>>

AwaitCheck(c) ==
    /\ cpc[c] = "awaitPush" /\ ~shuttingDown
    /\ Call(c, "awaitAppend", arg[c])
    /\ UNCHANGED <<flags, permVars, taskVars, workVars, ownVars, history>>

AwaitAppend(c) ==
    /\ cpc[c] = "awaitAppend" /\ MutexFree
    /\ AppendTask(arg[c])
    /\ Call(c, "awaitCycle", arg[c])
    /\ UNCHANGED <<flags, permVars, workVars, ownVars, history>>

AwaitReady(c) ==
    /\ cpc[c] = "awaitCycle" /\ arg[c] \in RangeOf(executed) \cup dropped
    /\ Return(c)
    /\ UNCHANGED <<flags, permVars, taskVars, workVars, ownVars, history>>

AwaitTimeout(c) ==
    /\ cpc[c] = "awaitCycle" /\ arg[c] \notin RangeOf(executed) \cup dropped
    /\ Return(c)
    /\ UNCHANGED <<flags, permVars, taskVars, workVars, ownVars, history>>

Continue(c) == \/ PushAppend(c) \/ PushPermanentInsert(c)
               \/ RemoveReady(c) \/ RemoveTimeout(c)
               \/ AwaitRefused(c) \/ AwaitCheck(c) \/ AwaitAppend(c)
               \/ AwaitReady(c) \/ AwaitTimeout(c)

Client(c) == \/ PushCheck(c) \/ PushPermanentCheck(c) \/ Remove(c)
             \/ Clear(c) \/ Await(c) \/ Continue(c)

Next == Worker \/ Owner \/ \E c \in Clients : Client(c)

Spec == Init /\ [][Next]_vars

\* The operating system schedules every thread that can run, task bodies
\* return, and a call of stop() or of a client, once made, is carried on.
Fairness == /\ WF_vars(Worker)
            /\ WF_vars(StartSpawn) /\ WF_vars(Stop)
            /\ \A c \in Clients : WF_vars(Continue(c))

FairSpec == Spec /\ Fairness

-----------------------------------------------------------------------------
(* Safety *)

Occurrences(t, s) == {i \in DOMAIN s : s[i] = t}

\* Until the first stop() tasks run in the order in which they were accepted,
\* one at a time, and none is lost: what ran, what the cycle in progress took
\* and what is queued make up what was accepted, unless a task threw.
RunsInOrder ==
    stops = 0 /\ dropped = {} => executed \o batch \o tasks = accepted

\* Over every start, stop and drain, an accepted task that does not throw is
\* queued, taken, run or lost with a throwing batch: exactly one of these.
RunsOnce ==
    \A t \in RangeOf(accepted) \ Throwing :
        Cardinality(Occurrences(t, executed \o batch \o tasks))
            = IF t \in dropped THEN 0 ELSE 1

\* A permanent task that a caller outside a permanent cycle was told is
\* removed is not registered and not part of the cycle in progress: it is not
\* running when removePermanentTask() returns and never runs again.
RemovedStaysRemoved == gone \cap (permanentTasks \cup moved) = {}

\* The flag that run() reads without the mutex tells whether there are
\* permanent tasks, so none is forgotten and no empty cycle is entered twice.
AvailabilityIsExact ==
    ~processingPermanents => (permanentTasksAvailable <=> permanentTasks # {})

\* stop() returns only after every accepted task has run or was lost to a
\* throw: nothing is left in the worker's hands ("Executes all pending tasks").
StopRunsAllPending ==
    [][StopReturn => RangeOf(accepted) \subseteq RangeOf(executed) \cup dropped]_vars

\* A permanent task leaves the executor at the end of a cycle only because of
\* a modification that was requested since the cycle before: "a task that is
\* not removed upon execution" (pushPermanentTask).
NotRemovedUponExecution ==
    [][WorkerMerge =>
          \A id \in (permanentTasks \cup moved) \ permanentTasks' :
              \E i \in Reached : /\ deferredTaskModification[i].outcome = "pending"
                                 /\ Erases(i, id)]_vars

\* removePermanentTask() answers "true" only if the task was found.
RemoveTellsTheTruth ==
    [][\A c \in Clients :
          RemoveReady(c) => deferredTaskModification[arg[c]].outcome = "erased"]_vars

\* awaitCycle() answers "true" only if a cycle ran the task it pushed.
AwaitTellsTheTruth ==
    [][\A c \in Clients :
          AwaitRefused(c) \/ AwaitReady(c) => arg[c] \in RangeOf(executed)]_vars

-----------------------------------------------------------------------------
(* The executor that the pushing code sees: what a cycle took and has not    *)
(* run yet is still at the front of the queue.                              *)
Promise == INSTANCE Executor WITH queue <- batch \o tasks, ran <- executed,
                                  draining <- (ctl = "drain")

\* ProcessingThread implements Executor: batching, permanent tasks and the
\* unlocked checks of shuttingDown_ never reorder, repeat or invent a task.
ImplementsExecutor == Promise!Spec

-----------------------------------------------------------------------------
(***************************************************************************)
(* The inductive invariant behind the safety properties: where each actor   *)
(* is tells what the worker holds in its hands, ids are never reused, a     *)
(* promise is set only once its task is gone, and a task in a client's      *)
(* hands has not been accepted before.                                      *)
(***************************************************************************)
Carries(c) == cpc[c] \in {"append", "awaitPush", "awaitAppend"}

ActorsInv ==
    /\ wpc = "tasks" <=> batch # <<>>
    /\ ctl \in {"off", "starting", "drain"} => wpc = "none"
    /\ ctl \in {"stopping", "joining", "drain"} => stops > 0
    /\ ~processingPermanents => moved = {}

IdsInv ==
    /\ permanentTasks \cup moved \subseteq 1..permanentTaskIdCounter
    /\ gone \subseteq 0..permanentTaskIdCounter
    /\ \A i \in DOMAIN deferredTaskModification :
           deferredTaskModification[i].id <= permanentTaskIdCounter

PromisesInv ==
    \A i \in DOMAIN deferredTaskModification :
        /\ deferredTaskModification[i].kind # "clear"
        /\ deferredTaskModification[i].outcome # "pending"
        => deferredTaskModification[i].id \notin permanentTasks \cup moved

WaitersInv ==
    \A c \in Clients : cpc[c] = "removal" =>
        /\ arg[c] \in DOMAIN deferredTaskModification
        /\ deferredTaskModification[arg[c]].kind = "notify"

TasksInv ==
    /\ \A c \in Clients : Carries(c) => arg[c] \in Tasks \ RangeOf(accepted)
    /\ \A c, d \in Clients : Carries(c) /\ Carries(d) /\ c # d => arg[c] # arg[d]
    /\ \A s \in {tasks, batch, executed} : RangeOf(s) \subseteq RangeOf(accepted)

IInv ==
    /\ TypeOK /\ ActorsInv /\ IdsInv /\ PromisesInv /\ WaitersInv /\ TasksInv
    /\ RunsInOrder /\ RemovedStaysRemoved /\ AvailabilityIsExact

-----------------------------------------------------------------------------
(* Liveness, under FairSpec *)

\* An accepted task runs, however many permanent tasks there are, unless the
\* executor is stopped first.
AcceptedTaskRuns ==
    \A t \in Tasks : (t \in RangeOf(accepted) /\ ctl = "on")
                        ~> (t \in RangeOf(executed) \/ ctl # "on")

\* A registered permanent task is called again and again until it is removed
\* or the executor is stopped.
PermanentTaskRunsEveryCycle ==
    \A id \in PermanentIds :
        (id \in permanentTasks \cup moved /\ ctl = "on")
            ~> \/ wpc = "permanents" /\ id = Next1(todo)
               \/ id \notin permanentTasks \cup moved
               \/ ctl # "on"

\* stop() returns: the worker always notices, and the drain loop ends because
\* tasks are refused while it runs.
StopReturns == (ctl = "stopping") ~> (ctl = "off")
=============================================================================
