--------------------------- MODULE ProcessingStrand ---------------------------
(***************************************************************************)
(* SecureShell::ProcessingStrand: one strand on a ProcessingThread.  A      *)
(* channel or an SFTP session pushes its tasks through its strand; its      *)
(* close() pushes the final task, after which the strand accepts nothing.   *)
(*                                                                          *)
(* Every operation holds the strand's mutex_ from its first to its last     *)
(* line, also while it takes the thread's taskMutex_ and while it waits for *)
(* the removal of a permanent task.  Tasks use strands too: StrandUsers and *)
(* StrandUserPermanents are those whose body calls this one, so that the    *)
(* worker, or the drain of stop(), blocks on mutex_.  Such a call is one    *)
(* step: no other thread acts for the strand while it holds mutex_.         *)
(***************************************************************************)
EXTENDS ProcessingThread

CONSTANTS
    NoClient,              \* nobody holds mutex_
    StrandOps,             \* operations that clients call on the strand
    StrandBodyOps,         \* operations that task bodies call on the strand
    StrandUsers,           \* tasks whose body calls the strand
    StrandUserPermanents   \* ids of the permanent tasks whose body does

StrandOperations == {"push", "permanent", "final", "sync"}

ASSUME StrandAssumption ==
    /\ NoClient \notin Clients
    /\ StrandOps \subseteq StrandOperations
    /\ StrandBodyOps \subseteq StrandOperations \ {"sync"}
    /\ StrandUsers \subseteq Tasks \ Throwing
    /\ StrandUserPermanents \subseteq Nat \ ThrowingPermanents

VARIABLES
    finalized,
    strandIds,     \* permanentTasks_; a refused push inserts PermanentTaskId{-1}
    holder,        \* the client that holds mutex_
    sop, left,     \* each client's strand operation, the ids it still removes
    strandTasks,   \* history: tasks accepted through the strand
    finalTask      \* history: the final task, once the thread accepted it

calls      == <<sop, left>>
strandVars == <<finalized, strandIds, holder, calls, strandTasks, finalTask>>
allVars    == <<vars, strandVars>>

\* PermanentTaskId{-1}: no permanent task has this id.
Invalid == 0

StrandTypeOK ==
    /\ finalized \in BOOLEAN
    /\ strandIds \subseteq PermanentIds \cup {Invalid}
    /\ holder \in Clients \cup {NoClient}
    /\ sop \in [Clients -> StrandOperations \cup {"none"}]
    /\ left \in [Clients -> SUBSET (PermanentIds \cup {Invalid})]
    /\ strandTasks \subseteq RangeOf(accepted)
    /\ finalTask \in RangeOf(accepted) \cup {NoTask}
    /\ \A c \in Clients : sop[c] # "none" <=> holder = c

StrandInit ==
    /\ Init
    /\ finalized = FALSE /\ strandIds = {} /\ holder = NoClient
    /\ sop = [c \in Clients |-> "none"] /\ left = [c \in Clients |-> {}]
    /\ strandTasks = {} /\ finalTask = NoTask

-----------------------------------------------------------------------------
(* The strand's operations on a client's thread. *)

Unlock(c) == /\ holder' = NoClient
             /\ sop' = [sop EXCEPT ![c] = "none"]
             /\ UNCHANGED left

\* Faulty: a finalized strand goes on.
LockUnchecked(c) ==
    /\ sop[c] = "none" /\ cpc[c] = "idle" /\ holder = NoClient
    /\ holder' = c
    /\ \E op \in StrandOps :
           /\ sop' = [sop EXCEPT ![c] = op]
           /\ finalized' = (finalized \/ op \in {"final", "sync"})
           /\ left' = [left EXCEPT ![c] = IF op \in {"final", "sync"} THEN strandIds ELSE {}]
    /\ UNCHANGED <<vars, strandIds, strandTasks, finalTask>>

\* Faulty: the final task removes no permanent task.
LockRemovesNone(c) ==
    /\ sop[c] = "none" /\ cpc[c] = "idle" /\ holder = NoClient
    /\ ~finalized
    /\ holder' = c
    /\ \E op \in StrandOps : /\ sop' = [sop EXCEPT ![c] = op]
                             /\ finalized' = (op \in {"final", "sync"})
    /\ UNCHANGED <<vars, left, strandIds, strandTasks, finalTask>>

\* A finalized strand answers at once and changes nothing.
Lock(c) ==
    /\ sop[c] = "none" /\ cpc[c] = "idle" /\ holder = NoClient
    /\ ~finalized
    /\ holder' = c
    /\ \E op \in StrandOps :
           /\ sop' = [sop EXCEPT ![c] = op]
           /\ finalized' = (op \in {"final", "sync"})
           /\ left' = [left EXCEPT ![c] = IF finalized' THEN strandIds ELSE {}]
    /\ UNCHANGED <<vars, strandIds, strandTasks, finalTask>>

\* The thread's pushTask(), directly or through pushPromiseTask().
Pushes(c) == sop[c] = "push" \/ (sop[c] = "final" /\ left[c] = {})

StrandPush(c) == Pushes(c) /\ PushBegin(c) /\ UNCHANGED strandVars

StrandAppend(c) ==
    /\ sop[c] # "none" /\ PushAppend(c)
    /\ strandTasks' = strandTasks \cup {arg[c]}
    /\ finalTask' = IF sop[c] = "final" THEN arg[c] ELSE finalTask
    /\ Unlock(c)
    /\ UNCHANGED <<finalized, strandIds>>

StrandPushPermanent(c) ==
    /\ sop[c] = "permanent" /\ PushPermanentBegin(c)
    /\ UNCHANGED strandVars

StrandInsert(c) ==
    /\ sop[c] # "none" /\ PushPermanentInsert(c)
    /\ strandIds' = strandIds \cup {permanentTaskIdCounter'}
    /\ Unlock(c)
    /\ UNCHANGED <<finalized, strandTasks, finalTask>>

\* The thread is shutting down; the strand stays finalized all the same.
StrandRefused(c) ==
    /\ cpc[c] = "idle" /\ shuttingDown
    /\ \/ Pushes(c) /\ UNCHANGED strandIds
       \/ sop[c] = "permanent" /\ strandIds' = strandIds \cup {Invalid}
    /\ Unlock(c)
    /\ UNCHANGED <<vars, finalized, strandTasks, finalTask>>

\* for (auto const& id : permanentTasks_) removePermanentTask(id)
StrandRemove(c) ==
    /\ sop[c] \in {"final", "sync"} /\ left[c] # {}
    /\ LET id == Next1(left[c]) IN
       /\ RemoveId(c, id)
       /\ left' = [left EXCEPT ![c] = @ \ {id}]
    /\ UNCHANGED <<finalized, strandIds, holder, sop, strandTasks, finalTask>>

StrandRemoved(c) ==
    /\ sop[c] # "none"
    /\ RemoveReady(c) \/ RemoveTimeout(c)
    /\ UNCHANGED strandVars

\* doFinalSync() runs its task itself.
StrandSync(c) ==
    /\ sop[c] = "sync" /\ left[c] = {} /\ cpc[c] = "idle"
    /\ Unlock(c)
    /\ UNCHANGED <<vars, finalized, strandIds, strandTasks, finalTask>>

\* An empty task throws out of the thread's push, past the insert.
StrandThrows(c) ==
    /\ Pushes(c) \/ sop[c] = "permanent"
    /\ cpc[c] = "idle"
    /\ Unlock(c)
    /\ UNCHANGED <<vars, finalized, strandIds, strandTasks, finalTask>>

StrandContinue(c) ==
    \/ StrandThrows(c) \/ StrandPush(c) \/ StrandAppend(c)
    \/ StrandPushPermanent(c) \/ StrandInsert(c)
    \/ StrandRefused(c)
    \/ StrandRemove(c) \/ StrandRemoved(c) \/ StrandSync(c)

\* Any other use of the thread, outside the strand.
Outside(c) == sop[c] = "none" /\ Client(c) /\ UNCHANGED strandVars

-----------------------------------------------------------------------------
(* The strand's operations in the body of a task. *)

BodyStrandPush ==
    /\ "push" \in StrandBodyOps /\ ~shuttingDown
    /\ \E t \in Fresh : AppendTask(t) /\ strandTasks' = strandTasks \cup {t}
    /\ UNCHANGED <<permVars, finalized, strandIds, finalTask>>

BodyStrandPermanent ==
    /\ "permanent" \in StrandBodyOps
    /\ IF shuttingDown
       THEN strandIds' = strandIds \cup {Invalid} /\ UNCHANGED permVars
       ELSE InsertPermanent /\ strandIds' = strandIds \cup {permanentTaskIdCounter'}
    /\ UNCHANGED <<finalized, strandTasks, finalTask>>

\* The std::set is walked in the order of the ids.
Walks(ids) ==
    {walk \in [1..Cardinality(ids) -> ids] :
        \A i, j \in DOMAIN walk : i < j => walk[i] < walk[j]}

BodyRemoveAll(within) ==
    IF processingPermanents
    THEN LET kind == IF within THEN "erase" ELSE "notify"
         IN  /\ \E ids \in Walks(strandIds) :
                    deferredTaskModification' =
                        deferredTaskModification \o [i \in DOMAIN ids |-> Modify(kind, ids[i])]
             /\ UNCHANGED <<permanentTasks, permanentTasksAvailable,
                            permanentTaskIdCounter, gone>>
    ELSE EraseNow(strandIds)

BodyFinalize(within) ==
    /\ "final" \in StrandBodyOps
    /\ finalized' = TRUE
    /\ BodyRemoveAll(within)
    /\ UNCHANGED strandIds

BodyFinal ==
    /\ BodyFinalize(TRUE)
    /\ IF shuttingDown
       THEN UNCHANGED <<taskVars, strandTasks, finalTask>>
       ELSE \E t \in Fresh : /\ AppendTask(t)
                             /\ strandTasks' = strandTasks \cup {t}
                             /\ finalTask' = t

\* The body locks mutex_; it may find the strand finalized or be refused.
StrandBody ==
    /\ holder = NoClient
    /\ UNCHANGED <<holder, calls>>
    /\ \/ UNCHANGED <<permVars, taskVars, finalized, strandIds, strandTasks, finalTask>>
       \/ /\ ~finalized
          /\ \/ BodyStrandPush
             \/ BodyStrandPermanent /\ UNCHANGED taskVars
             \/ BodyFinal

\* In the drain of stop(), where taskMutex_ is held too.
StrandDrainBody ==
    /\ holder = NoClient
    /\ UNCHANGED <<holder, calls, strandTasks, finalTask>>
    /\ \/ UNCHANGED <<permVars, finalized, strandIds>>
       \/ ~finalized /\ (BodyStrandPermanent \/ BodyFinalize(FALSE))

StrandRunPermanent ==
    LET id == Next1(todo) IN
    /\ WorkerRunPermanentDoing(IF id \in StrandUserPermanents THEN StrandBody
                               ELSE Body /\ UNCHANGED strandVars)
    /\ id \in ThrowingPermanents => UNCHANGED strandVars

StrandRunTask ==
    /\ WorkerRunTaskDoing(IF Head(batch) \in StrandUsers THEN StrandBody
                          ELSE Body /\ UNCHANGED strandVars)
    /\ Head(batch) \in Throwing => UNCHANGED strandVars

StrandDrain ==
    LET t == tasks[Len(tasks)] IN
    /\ StopDrainDoing(IF t \in StrandUsers THEN StrandDrainBody
                      ELSE BodyOnPermanents(FALSE) /\ UNCHANGED strandVars)
    /\ t \in Throwing => UNCHANGED strandVars

StrandWorker ==
    \/ StrandRunPermanent \/ StrandRunTask
    \/ /\ WorkerCheck \/ WorkerCycle \/ WorkerTakePermanents \/ WorkerRanPermanent
          \/ WorkerMerge \/ WorkerTake \/ WorkerCatch
       /\ UNCHANGED strandVars

StrandStop ==
    \/ StrandDrain
    \/ (StopLock \/ StopJoin \/ StopReturn) /\ UNCHANGED strandVars

StrandOwner ==
    \/ StrandStop
    \/ (StartLock \/ StartSpawn \/ StopCall) /\ UNCHANGED strandVars

StrandNext ==
    \/ StrandWorker \/ StrandOwner
    \/ \E c \in Clients : Lock(c) \/ StrandContinue(c) \/ Outside(c)

StrandSpec == StrandInit /\ [][StrandNext]_allVars

\* As in ProcessingThread; a thread that holds mutex_ goes on, and one that
\* waits for mutex_ gets it if it is released again and again.
StrandFairSpec ==
    /\ StrandSpec
    /\ SF_allVars(StrandWorker)
    /\ WF_allVars(StartSpawn /\ UNCHANGED strandVars)
    /\ SF_allVars(StrandStop)
    /\ \A c \in Clients : WF_allVars(StrandContinue(c))
    /\ \A c \in Clients :
           WF_allVars(sop[c] = "none" /\ Continue(c) /\ UNCHANGED strandVars)

-----------------------------------------------------------------------------
(* Properties *)

\* When the final task of a strand runs, everything that was pushed through
\* the strand has run or was lost to a throw: close() comes last.  (The drain
\* of stop() runs newest first and is not covered.)
FinalTaskIsLast ==
    stops = 0 /\ finalTask \in RangeOf(executed)
        => strandTasks \subseteq RangeOf(executed) \cup dropped

\* pushFinalTask(): "Also removes all permanent tasks."  Outside a permanent
\* cycle none of the strand's is left once the final task is queued.
FinalTaskRemovesAllPermanentTasks ==
    finalTask # NoTask /\ ~processingPermanents => strandIds \cap permanentTasks = {}

\* What it does keep, whatever ids it has and whichever other strands of the
\* thread remove permanent tasks of their own: none is left once the final task
\* is queued, unless its removal stands in the thread's list behind a promise
\* that was set before, at which the end of every cycle gives up.
CutOff(id) == \E i \in DOMAIN deferredTaskModification \ Reached :
                  /\ deferredTaskModification[i].kind \in {"erase", "notify"}
                  /\ deferredTaskModification[i].id = id

FinalTaskRemovesUnlessCutOff ==
    finalTask # NoTask /\ ~processingPermanents
        => \A id \in strandIds \cap permanentTasks : CutOff(id)

\* Whoever holds mutex_ releases it, although it may wait, holding it, for a
\* worker that is itself blocked on mutex_.  (stop() holds taskMutex_ while it
\* runs tasks, which may then wait for mutex_ for ever: StopReturns.)
LockIsReleased ==
    \A c \in Clients : (holder = c) ~> (holder # c \/ stops > 0)
=============================================================================
