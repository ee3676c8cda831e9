------------------------- MODULE ProcessingStrandProofs -------------------------
(***************************************************************************)
(* The safety properties of a ProcessingThread and of a strand on it, for   *)
(* every number of clients, tasks, permanent tasks, removals, starts and    *)
(* stops.                                                                   *)
(*                                                                          *)
(* The thread's follow from the inductive invariant IInv; each of its parts *)
(* has a lemma that says that every step preserves it.                      *)
(*                                                                          *)
(* The strand's are that its final task runs after everything that was      *)
(* pushed through it, and that it removes the strand's permanent tasks but  *)
(* those whose removal is cut off.                                          *)
(* They rest on what mutex_ and finalized_ guarantee together (after the    *)
(* final task nothing is pushed through the strand, by a client or by a     *)
(* task), on the order that the thread keeps, up to the first stop(), when  *)
(* a batch is taken, run or lost to a throw, and on what the end of a cycle *)
(* does with the removal that was deferred to it.                           *)
(***************************************************************************)
EXTENDS ProcessingStrand, SequenceTheorems, FiniteSetTheorems, WellFoundedInduction, TLAPS

LEMMA EmptyIffNoLength ==
  ASSUME NEW S, NEW s \in Seq(S)
  PROVE  s = <<>> <=> Len(s) = 0
  BY EmptySeq

\* Init establishes the invariant.
LEMMA InitIInv == Init => IInv
  <1> SUFFICES ASSUME Init PROVE IInv
    OBVIOUS
  <1> USE ThreadAssumption DEF Init
  <1>1. TypeOK
    <2>1. 0 \in 0..MaxPermanents /\ 0 \in 0..MaxStarts /\ 0 \in 0..MaxStops
      BY DEF ThreadAssumption
    <2>2. <<>> \in Seq(Tasks) /\ <<>> \in Seq(Modification)
      OBVIOUS
    <2>3. [c \in Clients |-> "idle"] \in [Clients -> {"idle", "append", "appendPermanent", "removal",
                            "awaitPush", "awaitAppend", "awaitCycle"}]
      OBVIOUS
    <2> QED
      BY <2>1, <2>2, <2>3 DEF TypeOK
  <1>2. ActorsInv /\ IdsInv /\ PromisesInv /\ WaitersInv
    BY DEF ActorsInv, IdsInv, PromisesInv, WaitersInv
  <1>3. TasksInv
    BY DEF TasksInv, Carries, RangeOf
  <1>4. RunsInOrder /\ RemovedStaysRemoved /\ AvailabilityIsExact
    BY EmptySeq, ConcatEmptySeq DEF RunsInOrder, RemovedStaysRemoved, AvailabilityIsExact
  <1> QED
    BY <1>1, <1>2, <1>3, <1>4 DEF IInv

-----------------------------------------------------------------------------
(* Types.  The critical sections of taskMutex_ first. *)

PermsOK ==
    /\ permanentTasksAvailable \in BOOLEAN
    /\ permanentTaskIdCounter \in 0..MaxPermanents
    /\ permanentTasks \subseteq PermanentIds
    /\ deferredTaskModification \in Seq(Modification)
    /\ gone \subseteq Nat

LEMMA InsertType == TypeOK /\ InsertPermanent => PermsOK'
  BY ThreadAssumption DEF ThreadAssumption, TypeOK, InsertPermanent, PermsOK, PermanentIds

LEMMA DeferType ==
  ASSUME TypeOK, NEW k \in {"clear", "erase", "notify"}, NEW i \in Nat, Defer(Modify(k, i))
  PROVE  PermsOK'
  <1>1. Modify(k, i) \in Modification
    BY DEF Modify, Modification
  <1> QED
    BY <1>1, AppendProperties DEF TypeOK, Defer, PermsOK

LEMMA EraseType ==
  ASSUME TypeOK, NEW ids, EraseNow(ids)
  PROVE  PermsOK'
  <1>0. PermanentIds \subseteq Nat
    BY DEF PermanentIds
  <1>1. permanentTasks' \subseteq PermanentIds /\ gone' \subseteq Nat
    BY <1>0 DEF TypeOK, EraseNow
  <1>2. permanentTasksAvailable' \in BOOLEAN
    BY DEF EraseNow
  <1> QED
    BY <1>1, <1>2 DEF TypeOK, EraseNow, PermsOK

LEMMA ClearType == TypeOK /\ ClearPermanentTasks => PermsOK'
  BY DeferType, EraseType DEF ClearPermanentTasks

LEMMA BodyOnPermanentsType ==
  ASSUME TypeOK, NEW within \in BOOLEAN, BodyOnPermanents(within)
  PROVE  PermsOK'
  <1>1. CASE UNCHANGED permVars
    BY <1>1 DEF TypeOK, permVars, PermsOK
  <1>2. CASE BodyPushPermanent
    BY <1>2, InsertType DEF BodyPushPermanent
  <1>3. CASE BodyRemove(within)
    <2>1. PICK id \in 1..permanentTaskIdCounter :
              IF processingPermanents
              THEN Defer(Modify(IF within THEN "erase" ELSE "notify", id))
              ELSE EraseNow({id})
      BY <1>3 DEF BodyRemove
    <2>2. id \in Nat
      BY DEF TypeOK
    <2> QED
      BY <2>1, <2>2, DeferType, EraseType
  <1>4. CASE BodyClear
    BY <1>4, ClearType DEF BodyClear
  <1> QED
    BY <1>1, <1>2, <1>3, <1>4 DEF BodyOnPermanents

LEMMA AppendTaskType ==
  ASSUME TypeOK, NEW t \in Tasks, AppendTask(t)
  PROVE  tasks' \in Seq(Tasks) /\ accepted' \in Seq(Tasks)
  BY AppendProperties DEF TypeOK, AppendTask

LEMMA BodyType ==
  ASSUME TypeOK, Body
  PROVE  PermsOK' /\ tasks' \in Seq(Tasks) /\ accepted' \in Seq(Tasks)
  <1>1. CASE BodyPush /\ UNCHANGED permVars
    <2>1. PermsOK'
      BY <1>1 DEF TypeOK, permVars, PermsOK
    <2>2. PICK t \in Fresh : AppendTask(t)
      BY <1>1 DEF BodyPush
    <2> QED
      BY <2>1, <2>2, AppendTaskType DEF Fresh
  <1>2. CASE BodyOnPermanents(TRUE) /\ UNCHANGED taskVars
    BY <1>2, BodyOnPermanentsType DEF TypeOK, taskVars
  <1> QED
    BY <1>1, <1>2 DEF Body

\* The merge rewrites only outcomes: the same modifications in the same order.
LEMMA MergedModifications ==
  ASSUME TypeOK, WorkerMerge
  PROVE  /\ deferredTaskModification' \in Seq(Modification)
         /\ DOMAIN deferredTaskModification' = DOMAIN deferredTaskModification
         /\ \A i \in DOMAIN deferredTaskModification :
               /\ deferredTaskModification'[i].kind = deferredTaskModification[i].kind
               /\ deferredTaskModification'[i].id = deferredTaskModification[i].id
               /\ deferredTaskModification'[i].outcome = Answered(i)
  <1> DEFINE d == deferredTaskModification
             e == [i \in DOMAIN d |-> [d[i] EXCEPT !.outcome = Answered(i)]]
  <1>1. d' = e
    BY DEF WorkerMerge
  <1>2. d \in Seq(Modification) /\ DOMAIN d = 1..Len(d) /\ Len(d) \in Nat
    BY LenProperties DEF TypeOK
  <1>3. ASSUME NEW i \in DOMAIN d
        PROVE  /\ d[i] \in Modification
               /\ Answered(i) \in {"pending", "erased", "absent"}
    <2>1. d[i] \in Modification
      BY <1>2, ElementOfSeq
    <2> QED
      BY <2>1 DEF Answered, Modification
  <1>4. ASSUME NEW i \in DOMAIN d
        PROVE  /\ e[i] \in Modification
               /\ e[i].kind = d[i].kind /\ e[i].id = d[i].id
               /\ e[i].outcome = Answered(i)
    <2>1. e[i] = [d[i] EXCEPT !.outcome = Answered(i)]
      OBVIOUS
    <2> HIDE DEF e
    <2> QED
      BY <2>1, <1>3 DEF Modification
  <1>5. e \in [1..Len(d) -> Modification] /\ DOMAIN e = DOMAIN d
    BY <1>2, <1>4
  <1>6. e \in Seq(Modification)
    <2> HIDE DEF e
    <2> QED
      BY <1>2, <1>5, SeqDef
  <1> QED
    BY <1>1, <1>4, <1>5, <1>6

LEMMA WorkerType ==
  ASSUME IInv, Worker
  PROVE  TypeOK'
  <1> USE DEF IInv
  <1>1. CASE WorkerCheck \/ WorkerCycle \/ WorkerRanPermanent \/ WorkerCatch
    BY ZenonT(60), <1>1 DEF TypeOK, WorkerCheck, WorkerCycle, WorkerRanPermanent, WorkerCatch,
                flags, permVars, taskVars, ownVars, cliVars, history
  <1>2. CASE WorkerTakePermanents
    BY <1>2 DEF TypeOK, WorkerTakePermanents, flags, taskVars, ownVars, cliVars, history
  <1>3. CASE WorkerRunPermanent
    <2> DEFINE id == Next1(todo)
    <2>1. CASE id \in ThrowingPermanents
      BY <1>3, <2>1 DEF TypeOK, WorkerRunPermanent, WorkerRunPermanentDoing,
              flags, permVars, taskVars, ownVars, cliVars, history
    <2>2. CASE id \notin ThrowingPermanents
      <3>1. /\ Body /\ wpc' = "ranPermanent" /\ todo' \subseteq todo /\ moved' = moved
            /\ UNCHANGED <<flags, batch, processingPermanents, ownVars, cliVars, history>>
        BY <1>3, <2>2 DEF WorkerRunPermanent, WorkerRunPermanentDoing
      <3>2. PermsOK' /\ tasks' \in Seq(Tasks) /\ accepted' \in Seq(Tasks)
        BY <3>1, BodyType
      <3> QED
        BY <3>1, <3>2 DEF TypeOK, PermsOK, flags, ownVars, cliVars, history
    <2> QED
      BY <2>1, <2>2
  <1>4. CASE WorkerMerge
    <2>1. permanentTasksAvailable' \in BOOLEAN
      BY <1>4 DEF WorkerMerge
    <2>2. permanentTasks' \subseteq PermanentIds
      BY <1>4 DEF TypeOK, WorkerMerge
    <2>3. wpc' \in {"caught", "take"}
      BY <1>4 DEF WorkerMerge
    <2> QED
      BY <1>4, <2>1, <2>2, <2>3, MergedModifications
         DEF TypeOK, WorkerMerge, flags, taskVars, ownVars, cliVars, history
  <1>5. CASE WorkerTake
    <2> DEFINE n == IF Len(tasks) < MaxBatch THEN Len(tasks) ELSE MaxBatch
    <2>1. n \in Nat /\ n <= Len(tasks) /\ Len(tasks) \in Nat
      BY LenProperties, ThreadAssumption DEF TypeOK, ThreadAssumption
    <2>2. \A i \in 1..Len(tasks) : tasks[i] \in Tasks
      BY ElementOfSeq DEF TypeOK
    <2>3. SubSeq(tasks, 1, n) \in Seq(Tasks) /\ SubSeq(tasks, n + 1, Len(tasks)) \in Seq(Tasks)
      <3> HIDE DEF n
      <3> QED
        BY <2>1, <2>2, SubSeqProperties
    <2>4. /\ batch' = SubSeq(tasks, 1, n) /\ tasks' = SubSeq(tasks, n + 1, Len(tasks))
          /\ wpc' \in {"check", "tasks"}
      BY <1>5 DEF WorkerTake
    <2> QED
      BY <1>5, <2>3, <2>4 DEF TypeOK, WorkerTake, flags, permVars, ownVars, cliVars, history
  <1>6. CASE WorkerRunTask
    <2>1. batch # <<>> /\ batch \in Seq(Tasks) /\ executed \in Seq(Tasks)
      BY <1>6 DEF TypeOK, ActorsInv, WorkerRunTask, WorkerRunTaskDoing
    <2>2. Head(batch) \in Tasks /\ Tail(batch) \in Seq(Tasks)
      BY <2>1, HeadTailProperties
    <2>3. executed' \in Seq(Tasks)
      BY <1>6, <2>1, <2>2, AppendProperties DEF WorkerRunTask, WorkerRunTaskDoing
    <2>4. RangeOf(Tail(batch)) \subseteq Tasks
      BY <2>2, LenProperties, ElementOfSeq DEF RangeOf
    <2>5. CASE Head(batch) \in Throwing
      BY <1>6, <2>3, <2>4, <2>5, EmptySeq
         DEF TypeOK, WorkerRunTask, WorkerRunTaskDoing, flags, permVars, taskVars,
             ownVars, cliVars
    <2>6. CASE Head(batch) \notin Throwing
      <3>1. /\ Body /\ wpc' \in {"check", "tasks"} /\ batch' = Tail(batch) /\ dropped' = dropped
            /\ UNCHANGED <<flags, moved, todo, processingPermanents, ownVars, cliVars>>
        BY <1>6, <2>6 DEF WorkerRunTask, WorkerRunTaskDoing
      <3>2. PermsOK' /\ tasks' \in Seq(Tasks) /\ accepted' \in Seq(Tasks)
        BY <3>1, BodyType
      <3> QED
        BY <2>2, <2>3, <3>1, <3>2 DEF TypeOK, PermsOK, flags, ownVars, cliVars
    <2> QED
      BY <2>5, <2>6
  <1> QED
    BY <1>1, <1>2, <1>3, <1>4, <1>5, <1>6 DEF Worker

LEMMA OwnerType ==
  ASSUME IInv, Owner
  PROVE  TypeOK'
  <1> USE ThreadAssumption DEF IInv, ThreadAssumption
  <1>1. CASE StartLock
    BY <1>1 DEF TypeOK, StartLock, permVars, taskVars, workVars, cliVars, history
  <1>2. CASE StartSpawn
    BY <1>2 DEF TypeOK, StartSpawn, permVars, taskVars, cliVars, history
  <1>3. CASE StopCall
    BY <1>3 DEF TypeOK, StopCall, permVars, taskVars, workVars, cliVars, history
  <1>4. CASE StopLock
    BY <1>4 DEF TypeOK, StopLock, permVars, taskVars, workVars, cliVars, history
  <1>5. CASE StopJoin
    BY <1>5 DEF TypeOK, StopJoin, flags, permVars, taskVars, cliVars, history
  <1>6. CASE StopDrain
    <2> DEFINE t == tasks[Len(tasks)]
    <2>1. tasks \in Seq(Tasks) /\ Len(tasks) \in Nat \ {0}
      BY <1>6, EmptySeq DEF TypeOK, StopDrain, StopDrainDoing
    <2>2. \A i \in 1..Len(tasks) : tasks[i] \in Tasks
      BY <2>1, ElementOfSeq
    <2>3. t \in Tasks
      BY <2>1, <2>2
    <2>4. executed' \in Seq(Tasks)
      BY <1>6, <2>3, AppendProperties DEF TypeOK, StopDrain, StopDrainDoing
    <2>5. SubSeq(tasks, 1, Len(tasks) - 1) \in Seq(Tasks)
      BY <2>1, <2>2, SubSeqProperties
    <2>6. PermsOK' /\ tasks' \in Seq(Tasks) /\ accepted' = accepted /\ ctl' \in {"off", "drain"}
      <3>1. CASE t \in Throwing
        BY <1>6, <3>1 DEF TypeOK, PermsOK, StopDrain, StopDrainDoing, permVars, taskVars
      <3>2. CASE t \notin Throwing
        BY <1>6, <2>5, <3>2, BodyOnPermanentsType DEF TypeOK, StopDrain, StopDrainDoing
      <3> QED
        BY <3>1, <3>2
    <2> QED
      BY <1>6, <2>4, <2>6 DEF TypeOK, PermsOK, StopDrain, StopDrainDoing, flags, workVars, cliVars
  <1>7. CASE StopReturn
    BY <1>7 DEF TypeOK, StopReturn, permVars, taskVars, workVars, cliVars, history
  <1> QED
    BY <1>1, <1>2, <1>3, <1>4, <1>5, <1>6, <1>7 DEF Owner, Stop

CallPhases == {"idle", "append", "appendPermanent", "removal",
               "awaitPush", "awaitAppend", "awaitCycle"}
CallsOK == /\ cpc \in [Clients -> CallPhases]
           /\ arg \in [Clients -> Tasks \cup Nat \cup {NoTask}]

LEMMA CallType ==
  ASSUME TypeOK, NEW c \in Clients, NEW w \in CallPhases,
         NEW x \in Tasks \cup Nat \cup {NoTask}, Call(c, w, x)
  PROVE  CallsOK'
  BY DEF TypeOK, Call, CallPhases, CallsOK

LEMMA ReturnType ==
  ASSUME TypeOK, NEW c \in Clients, Return(c)
  PROVE  CallsOK'
  BY CallType DEF Return, CallPhases

\* A client changes only the queues and its own call.
LEMMA ClientFrame ==
  ASSUME TypeOK, PermsOK', CallsOK', tasks' \in Seq(Tasks), accepted' \in Seq(Tasks),
         UNCHANGED <<flags, workVars, ownVars, history>>
  PROVE  TypeOK'
  BY DEF TypeOK, PermsOK, CallsOK, CallPhases, flags, workVars, ownVars, history

LEMMA UnchangedType ==
  /\ TypeOK /\ UNCHANGED permVars => PermsOK'
  /\ TypeOK /\ UNCHANGED taskVars => tasks' \in Seq(Tasks) /\ accepted' \in Seq(Tasks)
  /\ TypeOK /\ UNCHANGED cliVars => CallsOK'
  BY DEF TypeOK, PermsOK, CallsOK, CallPhases, permVars, taskVars, cliVars

LEMMA ClientKeeps ==
  ASSUME NEW c \in Clients, Client(c)
  PROVE  UNCHANGED <<flags, workVars, ownVars, history>>
  <1>1. CASE Continue(c)
    BY <1>1 DEF Continue, PushAppend, PushPermanentInsert, RemoveReady, RemoveTimeout,
                AwaitRefused, AwaitCheck, AwaitAppend, AwaitReady, AwaitTimeout
  <1>2. CASE PushCheck(c) \/ PushPermanentCheck(c) \/ Remove(c) \/ Clear(c) \/ Await(c)
    BY <1>2 DEF PushCheck, PushBegin, PushPermanentCheck, PushPermanentBegin, Remove, RemoveId,
                Clear, Await
  <1> QED
    BY <1>1, <1>2 DEF Client

LEMMA ClientType ==
  ASSUME IInv, NEW c \in Clients, Client(c)
  PROVE  TypeOK'
  <1> USE DEF IInv
  <1>0. UNCHANGED <<flags, workVars, ownVars, history>>
    BY ClientKeeps
  <1>1. CASE PushCheck(c) \/ Await(c)
    <2>1. PICK w \in {"append", "awaitPush"}, t \in Fresh : Call(c, w, t)
      BY <1>1 DEF PushCheck, PushBegin, Await
    <2>2. CallsOK'
      BY <2>1, CallType DEF Fresh, CallPhases
    <2>3. UNCHANGED <<permVars, taskVars>>
      BY <1>1 DEF PushCheck, PushBegin, Await
    <2> QED
      BY <1>0, <2>2, <2>3, UnchangedType, ClientFrame
  <1>2. CASE PushAppend(c) \/ AwaitAppend(c)
    <2>1. arg[c] \in Tasks /\ AppendTask(arg[c]) /\ UNCHANGED permVars
      BY <1>2 DEF PushAppend, AwaitAppend, TasksInv, Carries
    <2>2. tasks' \in Seq(Tasks) /\ accepted' \in Seq(Tasks)
      BY <2>1, AppendTaskType
    <2>3. CallsOK'
      BY <1>2, <2>1, CallType, ReturnType DEF PushAppend, AwaitAppend, CallPhases
    <2> QED
      BY <1>0, <2>1, <2>2, <2>3, UnchangedType, ClientFrame
  <1>3. CASE PushPermanentCheck(c) \/ RemoveTimeout(c) \/ AwaitRefused(c)
             \/ AwaitReady(c) \/ AwaitTimeout(c)
    <2>1. CallsOK'
      BY <1>3, CallType, ReturnType
         DEF PushPermanentCheck, PushPermanentBegin, RemoveTimeout, AwaitRefused, AwaitReady,
             AwaitTimeout, CallPhases
    <2>2. UNCHANGED <<permVars, taskVars>>
      BY <1>3 DEF PushPermanentCheck, PushPermanentBegin, RemoveTimeout, AwaitRefused,
                  AwaitReady, AwaitTimeout
    <2> QED
      BY <1>0, <2>1, <2>2, UnchangedType, ClientFrame
  <1>4. CASE PushPermanentInsert(c)
    BY <1>0, <1>4, ReturnType, InsertType, UnchangedType, ClientFrame DEF PushPermanentInsert
  <1>5. CASE Remove(c)
    <2>1. PICK id \in 1..permanentTaskIdCounter : RemoveId(c, id)
      BY <1>5 DEF Remove
    <2>2. id \in Nat /\ Len(deferredTaskModification) + 1 \in Nat
      BY LenProperties DEF TypeOK
    <2>3. UNCHANGED taskVars
      BY <2>1 DEF RemoveId
    <2>4. CASE processingPermanents
      <3>1. /\ Defer(Modify("notify", id))
            /\ Call(c, "removal", Len(deferredTaskModification) + 1)
        BY <2>1, <2>4 DEF RemoveId
      <3>2. PermsOK' /\ CallsOK'
        BY <2>2, <3>1, DeferType, CallType DEF CallPhases
      <3> QED
        BY <1>0, <2>3, <3>2, UnchangedType, ClientFrame
    <2>5. CASE ~processingPermanents
      BY <1>0, <2>1, <2>3, <2>5, EraseType, UnchangedType, ClientFrame DEF RemoveId
    <2> QED
      BY <2>4, <2>5
  <1>6. CASE RemoveReady(c)
    <2>1. deferredTaskModification[arg[c]] \in Modification
      BY <1>6, LenProperties, ElementOfSeq DEF TypeOK, WaitersInv, RemoveReady
    <2>2. PermsOK'
      BY <1>6, <2>1 DEF TypeOK, PermsOK, RemoveReady, Modification
    <2>3. UNCHANGED taskVars /\ CallsOK'
      BY <1>6, ReturnType DEF RemoveReady
    <2> QED
      BY <1>0, <2>2, <2>3, UnchangedType, ClientFrame
  <1>7. CASE Clear(c)
    BY <1>0, <1>7, ClearType, UnchangedType, ClientFrame DEF Clear
  <1>8. CASE AwaitCheck(c)
    <2>1. arg[c] \in Tasks \cup Nat \cup {NoTask} /\ Call(c, "awaitAppend", arg[c])
      BY <1>8 DEF AwaitCheck, TypeOK
    <2> QED
      BY <1>0, <1>8, <2>1, CallType, UnchangedType, ClientFrame DEF AwaitCheck, CallPhases
  <1> QED
    BY <1>1, <1>2, <1>3, <1>4, <1>5, <1>6, <1>7, <1>8 DEF Client, Continue

LEMMA StutterIInv == IInv /\ UNCHANGED vars => IInv'
  <1> SUFFICES ASSUME IInv, UNCHANGED vars PROVE IInv'
    OBVIOUS
  <1> USE DEF IInv, vars, flags, permVars, taskVars, workVars, ownVars, cliVars, history
  <1>1. TypeOK'
    BY DEF TypeOK
  <1>2. ActorsInv' /\ IdsInv' /\ PromisesInv' /\ WaitersInv'
    BY DEF ActorsInv, IdsInv, PromisesInv, WaitersInv
  <1>3. TasksInv'
    BY DEF TasksInv, Carries, RangeOf
  <1>4. RunsInOrder' /\ RemovedStaysRemoved' /\ AvailabilityIsExact'
    BY DEF RunsInOrder, RemovedStaysRemoved, AvailabilityIsExact
  <1> QED
    BY <1>1, <1>2, <1>3, <1>4

-----------------------------------------------------------------------------
(* What each actor holds. *)

LEMMA ActorsStep == IInv /\ Next => ActorsInv'
  <1> SUFFICES ASSUME IInv, Next PROVE ActorsInv'
    OBVIOUS
  <1> USE DEF IInv
  <1>1. CASE Worker
    <2>0. wpc # "none" /\ ctl \notin {"off", "starting", "drain"} /\ UNCHANGED ownVars
      BY <1>1 DEF ActorsInv, Worker, WorkerCheck, WorkerCycle, WorkerTakePermanents,
           WorkerRunPermanent, WorkerRunPermanentDoing, WorkerRanPermanent, WorkerMerge,
           WorkerTake, WorkerRunTask, WorkerRunTaskDoing, WorkerCatch
    <2>1. CASE WorkerCheck \/ WorkerCycle \/ WorkerRanPermanent \/ WorkerCatch
      BY <2>0, <2>1 DEF ActorsInv, WorkerCheck, WorkerCycle, WorkerRanPermanent, WorkerCatch,
                        ownVars
    <2>2. CASE WorkerTakePermanents \/ WorkerMerge
      BY <2>0, <2>2 DEF ActorsInv, WorkerTakePermanents, WorkerMerge, ownVars
    <2>3. CASE WorkerRunPermanent
      BY <2>0, <2>3 DEF ActorsInv, WorkerRunPermanent, WorkerRunPermanentDoing, ownVars
    <2>4. CASE WorkerTake
      <3> DEFINE n == IF Len(tasks) < MaxBatch THEN Len(tasks) ELSE MaxBatch
      <3>1. n \in Nat /\ n <= Len(tasks)
        BY LenProperties, ThreadAssumption DEF TypeOK, ThreadAssumption
      <3>2. batch' = SubSeq(tasks, 1, n) /\ wpc' = IF n = 0 THEN "check" ELSE "tasks"
        BY <2>4 DEF WorkerTake
      <3>3. \A i \in 1..n : tasks[i] \in Tasks
        BY <3>1, LenProperties, ElementOfSeq DEF TypeOK
      <3>4. Len(SubSeq(tasks, 1, n)) = n /\ SubSeq(tasks, 1, n) \in Seq(Tasks)
        <4> HIDE DEF n
        <4> QED
          BY <3>1, <3>3, SubSeqProperties
      <3>5. SubSeq(tasks, 1, n) = <<>> <=> n = 0
        <4> HIDE DEF n
        <4> QED
          BY <3>1, <3>4, EmptySeq
      <3> QED
        BY <2>0, <2>4, <3>2, <3>5 DEF ActorsInv, WorkerTake, ownVars
    <2>5. CASE WorkerRunTask
      <3>1. batch # <<>> /\ batch \in Seq(Tasks)
        BY <2>5 DEF ActorsInv, TypeOK, WorkerRunTask, WorkerRunTaskDoing
      <3>2. Tail(batch) = <<>> <=> Len(batch) = 1
        <4>1. Tail(batch) \in Seq(Tasks) /\ Len(Tail(batch)) = Len(batch) - 1 /\ Len(batch) \in Nat
          BY <3>1, HeadTailProperties, LenProperties
        <4>2. Tail(batch) = <<>> <=> Len(Tail(batch)) = 0
          BY <4>1, EmptyIffNoLength, Zenon
        <4> QED
          BY <4>1, <4>2
      <3> QED
        BY <2>0, <2>5, <3>2 DEF ActorsInv, WorkerRunTask, WorkerRunTaskDoing, ownVars
    <2> QED
      BY <1>1, <2>1, <2>2, <2>3, <2>4, <2>5 DEF Worker
  <1>2. CASE Owner
    <2>1. CASE StartLock \/ StartSpawn
      BY <2>1 DEF ActorsInv, StartLock, StartSpawn, workVars
    <2>2. CASE StopCall
      BY <2>2 DEF TypeOK, ActorsInv, StopCall, workVars
    <2>3. CASE StopLock \/ StopReturn
      BY <2>3 DEF ActorsInv, StopLock, StopReturn, workVars
    <2>4. CASE StopJoin
      BY <2>4 DEF ActorsInv, StopJoin
    <2>5. CASE StopDrain
      <3>1. ctl = "drain" /\ ctl' \in {"off", "drain"} /\ UNCHANGED <<stops, workVars>>
        BY <2>5 DEF StopDrain, StopDrainDoing
      <3> QED
        BY <3>1 DEF ActorsInv, workVars
    <2> QED
      BY <1>2, <2>1, <2>2, <2>3, <2>4, <2>5 DEF Owner, Stop
  <1>3. ASSUME NEW c \in Clients, Client(c) PROVE ActorsInv'
    BY <1>3, ClientKeeps DEF ActorsInv, workVars, ownVars
  <1> QED
    BY <1>1, <1>2, <1>3 DEF Next

-----------------------------------------------------------------------------
(***************************************************************************)
(* Permanent tasks.  Outside the start and the end of a permanent cycle a   *)
(* step changes the registered tasks in one of four ways.                   *)
(***************************************************************************)

PermanentsInv == IdsInv /\ PromisesInv /\ RemovedStaysRemoved /\ AvailabilityIsExact

PermChange ==
    \/ UNCHANGED permVars
    \/ InsertPermanent
    \/ \E k \in {"clear", "erase", "notify"}, i \in 0..permanentTaskIdCounter : Defer(Modify(k, i))
    \/ ~processingPermanents /\ \E ids \in SUBSET Nat : EraseNow(ids)

LEMMA ClearChange == TypeOK /\ ClearPermanentTasks => PermChange
  <1> SUFFICES ASSUME TypeOK, ClearPermanentTasks PROVE PermChange
    OBVIOUS
  <1>1. 0 \in 0..permanentTaskIdCounter /\ permanentTasks \in SUBSET Nat
    BY DEF TypeOK, PermanentIds
  <1> QED
    BY <1>1 DEF ClearPermanentTasks, PermChange

LEMMA BodyOnPermanentsChange ==
  ASSUME TypeOK, NEW within \in BOOLEAN, BodyOnPermanents(within)
  PROVE  PermChange
  <1>1. CASE UNCHANGED permVars \/ BodyPushPermanent
    BY <1>1 DEF PermChange, BodyPushPermanent
  <1>2. CASE BodyRemove(within)
    <2>1. PICK id \in 1..permanentTaskIdCounter :
              IF processingPermanents
              THEN Defer(Modify(IF within THEN "erase" ELSE "notify", id))
              ELSE EraseNow({id})
      BY <1>2 DEF BodyRemove
    <2>2. id \in 0..permanentTaskIdCounter /\ {id} \in SUBSET Nat
      BY DEF TypeOK
    <2> QED
      BY <2>1, <2>2 DEF PermChange
  <1>3. CASE BodyClear
    BY <1>3, ClearChange DEF BodyClear
  <1> QED
    BY <1>1, <1>2, <1>3 DEF BodyOnPermanents

LEMMA BodyChange == TypeOK /\ Body => PermChange
  BY BodyOnPermanentsChange DEF Body, PermChange

LEMMA PermChangeKeeps ==
  ASSUME IInv, PermChange, moved' \subseteq moved, processingPermanents' = processingPermanents
  PROVE  PermanentsInv'
  <1> USE DEF IInv
  <1> DEFINE d == deferredTaskModification
  <1>0. d \in Seq(Modification) /\ Len(d) \in Nat /\ DOMAIN d = 1..Len(d)
    BY LenProperties DEF TypeOK
  <1>1. CASE UNCHANGED permVars
    BY <1>1 DEF PermanentsInv, IdsInv, PromisesInv, RemovedStaysRemoved, AvailabilityIsExact,
                permVars
  <1>2. CASE InsertPermanent
    <2>1. ASSUME NEW i \in DOMAIN d PROVE d[i].id \in Nat
      <3>1. d[i] \in Modification
        BY <1>0, ElementOfSeq
      <3> QED
        BY <3>1 DEF Modification
    <2> QED
      BY <1>2, <2>1 DEF TypeOK, PermanentsInv, IdsInv, PromisesInv, RemovedStaysRemoved,
                   AvailabilityIsExact, InsertPermanent
  <1>3. ASSUME NEW k \in {"clear", "erase", "notify"}, NEW j \in 0..permanentTaskIdCounter,
               Defer(Modify(k, j))
        PROVE  PermanentsInv'
    <2>1. Modify(k, j) \in Modification /\ Modify(k, j).id = j
          /\ Modify(k, j).outcome = "pending"
      BY DEF Modify, Modification, TypeOK
    <2>2. d' = Append(d, Modify(k, j))
          /\ UNCHANGED <<permanentTasks, permanentTasksAvailable, permanentTaskIdCounter, gone>>
      BY <1>3 DEF Defer
    <2>3. DOMAIN d' = 1..(Len(d) + 1) /\ d'[Len(d) + 1] = Modify(k, j)
          /\ \A i \in DOMAIN d : d'[i] = d[i]
      BY <1>0, <2>1, <2>2, AppendProperties, LenProperties
    <2> HIDE DEF d
    <2>4. ASSUME NEW i \in DOMAIN d'
          PROVE  i \in DOMAIN d \/ d'[i] = Modify(k, j)
      BY <1>0, <2>3
    <2>5. IdsInv' /\ PromisesInv'
      BY SMTT(30), <2>1, <2>2, <2>3, <2>4 DEF d, IdsInv, PromisesInv, TypeOK
    <2>6. RemovedStaysRemoved' /\ AvailabilityIsExact'
      BY <2>2 DEF RemovedStaysRemoved, AvailabilityIsExact
    <2> QED
      BY <2>5, <2>6 DEF PermanentsInv
  <1>4. ASSUME ~processingPermanents, NEW ids \in SUBSET Nat, EraseNow(ids)
        PROVE  PermanentsInv'
    <2>1. moved = {} /\ moved' = {}
      BY <1>4 DEF ActorsInv
    <2>2. /\ permanentTasks' = permanentTasks \ ids
          /\ gone' = gone \cup (permanentTasks \cap ids)
          /\ UNCHANGED <<permanentTaskIdCounter, deferredTaskModification>>
      BY <1>4 DEF EraseNow
    <2>3. IdsInv'
      <3>1. 1..permanentTaskIdCounter \subseteq 0..permanentTaskIdCounter
        BY DEF TypeOK
      <3> QED
        BY <2>1, <2>2, <3>1 DEF IdsInv
    <2>4. PromisesInv' /\ RemovedStaysRemoved'
      BY <2>1, <2>2 DEF PromisesInv, RemovedStaysRemoved
    <2>5. AvailabilityIsExact'
      BY <1>4 DEF EraseNow, AvailabilityIsExact
    <2> QED
      BY <2>3, <2>4, <2>5 DEF PermanentsInv
  <1> QED
    BY <1>1, <1>2, <1>3, <1>4 DEF PermChange

\* The start of a cycle only moves tasks; its end removes what was asked for.
LEMMA MergeKeeps == IInv /\ WorkerMerge => PermanentsInv'
  <1> SUFFICES ASSUME IInv, WorkerMerge PROVE PermanentsInv'
    OBVIOUS
  <1> USE DEF IInv
  <1> DEFINE all == permanentTasks \cup moved
  <1>1. /\ permanentTasks' = all \ ErasedBy(Reached) /\ moved' = {}
        /\ permanentTaskIdCounter' = permanentTaskIdCounter /\ gone' = gone
    BY DEF WorkerMerge
  <1>2. IdsInv'
    BY <1>1, MergedModifications DEF IdsInv
  <1>3. ASSUME NEW i \in DOMAIN deferredTaskModification,
               deferredTaskModification[i].kind # "clear", Answered(i) # "pending"
        PROVE  deferredTaskModification[i].id \notin permanentTasks'
    <2>1. CASE deferredTaskModification[i].outcome # "pending"
      BY <1>1, <1>3, <2>1 DEF PromisesInv
    <2>2. CASE deferredTaskModification[i].outcome = "pending"
      <3>1. i \in Reached
        BY <1>3, <2>2 DEF Answered
      <3> QED
        BY <1>1, <3>1 DEF ErasedBy, Erases
    <2> QED
      BY <2>1, <2>2
  <1>4. PromisesInv'
    BY <1>1, <1>3, MergedModifications DEF PromisesInv
  <1>5. RemovedStaysRemoved'
    BY <1>1 DEF RemovedStaysRemoved
  <1>6. AvailabilityIsExact'
    BY DEF WorkerMerge, AvailabilityIsExact
  <1> QED
    BY <1>2, <1>4, <1>5, <1>6 DEF PermanentsInv

LEMMA TakeKeeps == IInv /\ WorkerTakePermanents => PermanentsInv'
  <1> SUFFICES ASSUME IInv, WorkerTakePermanents PROVE PermanentsInv'
    OBVIOUS
  <1>1. /\ permanentTasks' \cup moved' = permanentTasks /\ processingPermanents'
        /\ UNCHANGED <<permanentTaskIdCounter, deferredTaskModification, gone>>
    BY DEF WorkerTakePermanents
  <1> QED
    BY <1>1 DEF IInv, PermanentsInv, IdsInv, PromisesInv, RemovedStaysRemoved,
                AvailabilityIsExact

\* The caller that learns that a task is gone learns the truth about the future.
LEMMA ReadyKeeps ==
  ASSUME IInv, NEW c \in Clients, RemoveReady(c)
  PROVE  PermanentsInv'
  <1> USE DEF IInv
  <1> DEFINE e == deferredTaskModification[arg[c]]
  <1>1. /\ arg[c] \in DOMAIN deferredTaskModification
        /\ e.kind # "clear" /\ e.outcome # "pending"
    BY DEF RemoveReady, WaitersInv
  <1>2. e.id \notin permanentTasks \cup moved /\ e.id <= permanentTaskIdCounter
    BY <1>1 DEF PromisesInv, IdsInv
  <1>3. e.id \in 0..permanentTaskIdCounter
    <2>1. e \in Modification
      BY <1>1, LenProperties, ElementOfSeq DEF TypeOK
    <2> QED
      BY <1>2, <2>1 DEF Modification, TypeOK
  <1>4. /\ gone' = gone \cup {e.id}
        /\ UNCHANGED <<permanentTasks, permanentTasksAvailable, permanentTaskIdCounter,
                       deferredTaskModification, moved, processingPermanents>>
    BY DEF RemoveReady, workVars
  <1> HIDE DEF e
  <1> QED
    BY <1>2, <1>3, <1>4
       DEF PermanentsInv, IdsInv, PromisesInv, RemovedStaysRemoved, AvailabilityIsExact

\* Every other step changes the registered tasks in one of the four ways.
PlainChange == PermChange /\ moved' \subseteq moved /\ UNCHANGED processingPermanents

LEMMA StepChange ==
  ASSUME IInv, Next
  PROVE  \/ PlainChange \/ WorkerTakePermanents \/ WorkerMerge
         \/ \E c \in Clients : RemoveReady(c)
  <1> USE DEF IInv
  <1>1. CASE WorkerCheck \/ WorkerCycle \/ WorkerRanPermanent \/ WorkerTake \/ WorkerCatch
    BY <1>1 DEF PlainChange, PermChange, WorkerCheck, WorkerCycle, WorkerRanPermanent,
                WorkerTake, WorkerCatch
  <1>2. CASE WorkerRunPermanent
    BY <1>2, BodyChange DEF WorkerRunPermanent, WorkerRunPermanentDoing, PlainChange, PermChange
  <1>3. CASE WorkerRunTask
    BY <1>3, BodyChange DEF WorkerRunTask, WorkerRunTaskDoing, PlainChange, PermChange
  <1>4. CASE StopDrain
    BY <1>4, BodyOnPermanentsChange DEF StopDrain, StopDrainDoing, PlainChange, PermChange,
                                        workVars
  <1>5. CASE StartLock \/ StartSpawn \/ StopCall \/ StopLock \/ StopJoin \/ StopReturn
    BY <1>5 DEF StartLock, StartSpawn, StopCall, StopLock, StopJoin, StopReturn, PlainChange,
                PermChange, workVars
  <1>6. ASSUME NEW c \in Clients, Client(c), ~RemoveReady(c) PROVE PlainChange
    <2>1. UNCHANGED <<moved, processingPermanents>>
      BY <1>6, ClientKeeps DEF workVars
    <2>2. CASE Remove(c)
      <3>1. PICK id \in 1..permanentTaskIdCounter : RemoveId(c, id)
        BY <2>2 DEF Remove
      <3>2. id \in 0..permanentTaskIdCounter /\ {id} \in SUBSET Nat
        BY DEF TypeOK
      <3> QED
        BY <2>1, <3>1, <3>2 DEF RemoveId, PermChange, PlainChange
    <2>3. CASE Clear(c) \/ PushPermanentInsert(c)
      BY <2>1, <2>3, ClearChange DEF Clear, PushPermanentInsert, PermChange, PlainChange
    <2>4. CASE PushCheck(c) \/ PushPermanentCheck(c) \/ Await(c) \/ PushAppend(c)
               \/ RemoveTimeout(c) \/ AwaitRefused(c) \/ AwaitCheck(c) \/ AwaitAppend(c)
               \/ AwaitReady(c) \/ AwaitTimeout(c)
      <3>1. UNCHANGED permVars
        BY <2>4 DEF PushCheck, PushBegin, PushPermanentCheck, PushPermanentBegin, Await,
                    PushAppend, RemoveTimeout,
                    AwaitRefused, AwaitCheck, AwaitAppend, AwaitReady, AwaitTimeout
      <3> QED
        BY <2>1, <3>1 DEF PermChange, PlainChange
    <2> QED
      BY <1>6, <2>2, <2>3, <2>4 DEF Client, Continue
  <1> QED
    BY <1>1, <1>2, <1>3, <1>4, <1>5, <1>6 DEF Next, Worker, Owner, Stop

LEMMA PermanentsStep == IInv /\ Next => PermanentsInv'
  BY StepChange, PermChangeKeeps, TakeKeeps, MergeKeeps, ReadyKeeps DEF PlainChange

-----------------------------------------------------------------------------
(* A client that waits for a promise waits for one of its own kind. *)

LEMMA ModificationsGrow ==
  ASSUME IInv, Next
  PROVE  \A i \in DOMAIN deferredTaskModification :
             /\ i \in DOMAIN deferredTaskModification'
             /\ deferredTaskModification'[i].kind = deferredTaskModification[i].kind
  <1> USE DEF IInv
  <1>1. CASE UNCHANGED deferredTaskModification
    BY <1>1
  <1>2. ASSUME NEW k \in {"clear", "erase", "notify"}, NEW j \in Nat, Defer(Modify(k, j))
        PROVE  \A i \in DOMAIN deferredTaskModification :
                   /\ i \in DOMAIN deferredTaskModification'
                   /\ deferredTaskModification'[i] = deferredTaskModification[i]
    <2>1. Modify(k, j) \in Modification
      BY DEF Modify, Modification
    <2> QED
      BY <1>2, <2>1, AppendProperties, LenProperties DEF TypeOK, Defer
  <1>3. CASE WorkerMerge
    BY <1>3, MergedModifications
  <1>4. 0..permanentTaskIdCounter \subseteq Nat
    BY DEF TypeOK
  <1>5. CASE PlainChange
    BY <1>1, <1>2, <1>4, <1>5 DEF PlainChange, PermChange, permVars, InsertPermanent, EraseNow
  <1>6. CASE WorkerTakePermanents \/ \E c \in Clients : RemoveReady(c)
    BY <1>1, <1>6 DEF WorkerTakePermanents, RemoveReady
  <1> QED
    BY <1>3, <1>5, <1>6, StepChange

LEMMA WaitersStep == IInv /\ Next => WaitersInv'
  <1> SUFFICES ASSUME IInv, Next, NEW c \in Clients, (cpc[c] = "removal")'
               PROVE  /\ arg'[c] \in DOMAIN deferredTaskModification'
                      /\ deferredTaskModification'[arg'[c]].kind = "notify"
    BY DEF WaitersInv
  <1> USE DEF IInv
  <1>1. CASE cpc'[c] = cpc[c] /\ arg'[c] = arg[c]
    BY <1>1, ModificationsGrow DEF WaitersInv
  <1>2. CASE ~(cpc'[c] = cpc[c] /\ arg'[c] = arg[c])
    <2>1. PICK d \in Clients : Client(d)
      BY <1>2 DEF Next, Worker, Owner, Stop, WorkerCheck, WorkerCycle, WorkerTakePermanents,
           WorkerRunPermanent, WorkerRunPermanentDoing, WorkerRanPermanent, WorkerMerge,
           WorkerTake, WorkerRunTask, WorkerRunTaskDoing, WorkerCatch, StartLock, StartSpawn,
           StopCall, StopLock, StopJoin, StopDrain, StopDrainDoing, StopReturn, cliVars
    <2>2. CASE Remove(d)
      <3>1. PICK id \in 1..permanentTaskIdCounter : RemoveId(d, id)
        BY <2>2 DEF Remove
      <3>2. processingPermanents
        BY <1>2, <3>1 DEF RemoveId, cliVars
      <3>3. /\ Defer(Modify("notify", id))
            /\ Call(d, "removal", Len(deferredTaskModification) + 1)
        BY <3>1, <3>2 DEF RemoveId
      <3>4. d = c /\ arg'[c] = Len(deferredTaskModification) + 1
        BY <1>2, <3>3 DEF Call, TypeOK
      <3>5. Modify("notify", id) \in Modification /\ Modify("notify", id).kind = "notify"
        BY DEF Modify, Modification, TypeOK
      <3> QED
        BY <3>3, <3>4, <3>5, AppendProperties, LenProperties DEF Defer, TypeOK
    <2>3. CASE ~Remove(d)
      <3>1. cpc'[d] # "removal" /\ \A x \in Clients \ {d} : cpc'[x] = cpc[x] /\ arg'[x] = arg[x]
        BY <2>1, <2>3 DEF TypeOK, Client, Continue, Call, Return, PushCheck, PushBegin,
                          PushPermanentCheck, PushPermanentBegin,
                 Await, PushAppend, PushPermanentInsert, RemoveReady, RemoveTimeout,
                 AwaitRefused, AwaitCheck, AwaitAppend, AwaitReady, AwaitTimeout, Clear, cliVars
      <3> QED
        BY <1>2, <3>1
    <2> QED
      BY <2>2, <2>3
  <1> QED
    BY <1>1, <1>2

-----------------------------------------------------------------------------
(* Sequences: what the queue operations do to the set of queued tasks. *)

LEMMA RangeOfAppend ==
  ASSUME NEW S, NEW s \in Seq(S), NEW e \in S
  PROVE  RangeOf(Append(s, e)) = RangeOf(s) \cup {e}
  <1>1. /\ DOMAIN s = 1..Len(s) /\ Len(s) \in Nat
        /\ DOMAIN Append(s, e) = 1..(Len(s) + 1)
        /\ \A i \in 1..Len(s) : Append(s, e)[i] = s[i]
        /\ Append(s, e)[Len(s) + 1] = e
    BY AppendProperties, LenProperties
  <1>2. 1..(Len(s) + 1) = 1..Len(s) \cup {Len(s) + 1}
    BY <1>1
  <1> QED
    BY <1>1, <1>2 DEF RangeOf

LEMMA RangeOfSubSeq ==
  ASSUME NEW S, NEW s \in Seq(S), NEW m \in 1..(Len(s) + 1), NEW n \in 0..Len(s)
  PROVE  /\ SubSeq(s, m, n) \in Seq(S)
         /\ RangeOf(SubSeq(s, m, n)) \subseteq RangeOf(s)
  <1>1. DOMAIN s = 1..Len(s) /\ Len(s) \in Nat /\ \A i \in 1..Len(s) : s[i] \in S
    BY LenProperties, ElementOfSeq
  <1>2. /\ SubSeq(s, m, n) \in Seq(S)
        /\ Len(SubSeq(s, m, n)) = IF m <= n THEN n - m + 1 ELSE 0
        /\ \A i \in 1..(n - m + 1) : SubSeq(s, m, n)[i] = s[m + i - 1]
    BY <1>1, SubSeqProperties
  <1>3. DOMAIN SubSeq(s, m, n) = 1..Len(SubSeq(s, m, n))
    BY <1>2, LenProperties
  <1>4. ASSUME NEW i \in DOMAIN SubSeq(s, m, n)
        PROVE  SubSeq(s, m, n)[i] \in RangeOf(s)
    <2>1. i \in 1..(n - m + 1) /\ m + i - 1 \in DOMAIN s
      BY <1>1, <1>2, <1>3
    <2> QED
      BY <1>2, <2>1 DEF RangeOf
  <1> QED
    BY <1>2, <1>4 DEF RangeOf

LEMMA RangeOfTail ==
  ASSUME NEW S, NEW s \in Seq(S), s # <<>>
  PROVE  /\ RangeOf(Tail(s)) \subseteq RangeOf(s)
         /\ Head(s) \in RangeOf(s)
  <1>1. /\ Tail(s) = SubSeq(s, 2, Len(s)) /\ Len(s) \in Nat \ {0}
        /\ 2 \in 1..(Len(s) + 1) /\ Len(s) \in 0..Len(s)
    BY TailIsSubSeq, EmptySeq
  <1>2. RangeOf(Tail(s)) \subseteq RangeOf(s)
    <2>1. RangeOf(SubSeq(s, 2, Len(s))) \subseteq RangeOf(s)
      BY <1>1, RangeOfSubSeq
    <2> QED
      BY <1>1, <2>1, Zenon
  <1>3. Head(s) = s[1] /\ 1 \in DOMAIN s
    BY <1>1, LenProperties
  <1> QED
    BY <1>2, <1>3 DEF RangeOf

-----------------------------------------------------------------------------
(***************************************************************************)
(* Regular tasks.  A step queues at most one task, always one that was      *)
(* never accepted, and moves tasks from the queue towards execution.        *)
(***************************************************************************)

New(t) == t \in Tasks \ RangeOf(accepted)
MayPush == \/ UNCHANGED taskVars
           \/ \E t \in Fresh : AppendTask(t)

LEMMA BodyPushes == Body => MayPush
  BY DEF Body, BodyPush, MayPush

RangesInv == \A s \in {tasks, batch, executed} : RangeOf(s) \subseteq RangeOf(accepted)

\* What a queueing step keeps, whatever else it does to batch and executed.
LEMMA PushRanges ==
  ASSUME IInv, NEW t, New(t), AppendTask(t)
  PROVE  /\ RangeOf(accepted') = RangeOf(accepted) \cup {t}
         /\ RangeOf(tasks') = RangeOf(tasks) \cup {t}
  BY RangeOfAppend DEF IInv, TypeOK, New, AppendTask

LEMMA MayPushRanges ==
  ASSUME IInv, MayPush
  PROVE  /\ RangeOf(accepted) \subseteq RangeOf(accepted')
         /\ RangeOf(tasks') \subseteq RangeOf(accepted')
  <1>1. CASE UNCHANGED taskVars
    BY <1>1 DEF taskVars, IInv, TasksInv
  <1>2. ASSUME NEW t \in Fresh, AppendTask(t)
        PROVE  /\ RangeOf(accepted) \subseteq RangeOf(accepted')
               /\ RangeOf(tasks') \subseteq RangeOf(accepted')
    BY <1>2, PushRanges DEF Fresh, New, IInv, TasksInv
  <1> QED
    BY <1>1, <1>2 DEF MayPush

LEMMA RangesStep == IInv /\ Next => RangesInv'
  <1> SUFFICES ASSUME IInv, Next PROVE RangesInv'
    OBVIOUS
  <1> USE DEF IInv
  <1>1. CASE UNCHANGED <<batch, executed>> /\ MayPush
    BY <1>1, MayPushRanges DEF RangesInv, TasksInv
  <1>2. CASE WorkerTake
    <2> DEFINE n == IF Len(tasks) < MaxBatch THEN Len(tasks) ELSE MaxBatch
    <2>1. n \in 0..Len(tasks) /\ n + 1 \in 1..(Len(tasks) + 1) /\ 1 \in 1..(Len(tasks) + 1)
          /\ Len(tasks) \in 0..Len(tasks)
      BY LenProperties, ThreadAssumption DEF TypeOK, ThreadAssumption
    <2>2. batch' = SubSeq(tasks, 1, n) /\ tasks' = SubSeq(tasks, n + 1, Len(tasks))
      BY <1>2 DEF WorkerTake
    <2>3. RangeOf(batch') \subseteq RangeOf(tasks) /\ RangeOf(tasks') \subseteq RangeOf(tasks)
      <3> HIDE DEF n
      <3> QED
        BY <2>1, <2>2, RangeOfSubSeq DEF TypeOK
    <2> QED
      BY <1>2, <2>3 DEF WorkerTake, RangesInv, TasksInv, history
  <1>3. CASE WorkerRunTask
    <2>1. batch # <<>> /\ batch \in Seq(Tasks) /\ executed' = Append(executed, Head(batch))
          /\ batch' \in {<<>>, Tail(batch)} /\ MayPush
      BY <1>3, BodyPushes DEF TypeOK, ActorsInv, WorkerRunTask, WorkerRunTaskDoing, MayPush
    <2>2. RangeOf(Tail(batch)) \subseteq RangeOf(batch) /\ Head(batch) \in RangeOf(batch)
      BY <2>1, RangeOfTail
    <2>3. RangeOf(executed') = RangeOf(executed) \cup {Head(batch)}
      BY <2>1, RangeOfAppend, HeadTailProperties DEF TypeOK
    <2>4. RangeOf(batch') \subseteq RangeOf(batch)
      BY SMTT(30), <2>1, <2>2 DEF RangeOf
    <2> QED
      BY <2>1, <2>2, <2>3, <2>4, MayPushRanges DEF RangesInv, TasksInv
  <1>4. CASE StopDrain
    <2> DEFINE t == tasks[Len(tasks)]
    <2>1. tasks \in Seq(Tasks) /\ Len(tasks) \in Nat \ {0} /\ DOMAIN tasks = 1..Len(tasks)
      BY <1>4, EmptySeq, LenProperties DEF TypeOK, StopDrain, StopDrainDoing
    <2>2. t \in RangeOf(tasks) /\ t \in Tasks
      BY <2>1, ElementOfSeq DEF RangeOf
    <2>3. RangeOf(executed') = RangeOf(executed) \cup {t}
      BY <1>4, <2>2, RangeOfAppend DEF TypeOK, StopDrain, StopDrainDoing
    <2>4. RangeOf(SubSeq(tasks, 1, Len(tasks) - 1)) \subseteq RangeOf(tasks)
      BY <2>1, RangeOfSubSeq
    <2>5. RangeOf(tasks') \subseteq RangeOf(tasks) /\ accepted' = accepted /\ batch' = batch
      BY <1>4, <2>4 DEF StopDrain, StopDrainDoing, taskVars, workVars
    <2> QED
      BY <2>2, <2>3, <2>5 DEF RangesInv, TasksInv
  <1>5. ASSUME NEW c \in Clients, PushAppend(c) \/ AwaitAppend(c) PROVE RangesInv'
    <2>1. New(arg[c]) /\ AppendTask(arg[c]) /\ UNCHANGED <<batch, executed>>
      BY <1>5 DEF PushAppend, AwaitAppend, TasksInv, Carries, New, workVars, history
    <2> QED
      BY <2>1, PushRanges DEF RangesInv, TasksInv
  <1>6. CASE WorkerCheck \/ WorkerCycle \/ WorkerTakePermanents \/ WorkerRanPermanent
             \/ WorkerMerge \/ WorkerCatch
    BY <1>1, <1>6 DEF WorkerCheck, WorkerCycle, WorkerTakePermanents, WorkerRanPermanent,
                      WorkerMerge, WorkerCatch, MayPush, history
  <1>7. CASE WorkerRunPermanent
    BY <1>1, <1>7, BodyPushes DEF WorkerRunPermanent, WorkerRunPermanentDoing, MayPush, history
  <1>8. CASE StartLock \/ StartSpawn \/ StopCall \/ StopLock \/ StopJoin \/ StopReturn
    BY <1>1, <1>8 DEF StartLock, StartSpawn, StopCall, StopLock, StopJoin, StopReturn, MayPush,
                      workVars, history
  <1>9. ASSUME NEW c \in Clients, Client(c), ~PushAppend(c), ~AwaitAppend(c) PROVE RangesInv'
    <2>1. UNCHANGED <<batch, executed>>
      BY <1>9, ClientKeeps DEF workVars, history
    <2>2. UNCHANGED taskVars
      BY <1>9 DEF Client, Continue, PushCheck, PushBegin, PushPermanentCheck, PushPermanentBegin,
                  Remove, RemoveId, Clear, Await,
                  PushPermanentInsert, RemoveReady, RemoveTimeout, AwaitRefused, AwaitCheck,
                  AwaitReady, AwaitTimeout
    <2> QED
      BY <1>1, <2>1, <2>2 DEF MayPush
  <1> QED
    BY <1>2, <1>3, <1>4, <1>5, <1>6, <1>7, <1>8, <1>9 DEF Next, Worker, Owner, Stop


\* The task in a client's hands is in nobody else's and not accepted yet.
CarriesInv ==
    /\ \A c \in Clients : Carries(c) => arg[c] \in Tasks \ RangeOf(accepted)
    /\ \A c, d \in Clients : Carries(c) /\ Carries(d) /\ c # d => arg[c] # arg[d]

LEMMA PushCarries ==
  ASSUME IInv, MayPush, UNCHANGED cliVars
  PROVE  CarriesInv'
  <1> USE DEF IInv
  <1>1. CASE UNCHANGED taskVars
    BY <1>1 DEF CarriesInv, TasksInv, Carries, taskVars, cliVars
  <1>2. ASSUME NEW t \in Fresh, AppendTask(t) PROVE CarriesInv'
    <2>1. RangeOf(accepted') = RangeOf(accepted) \cup {t}
      BY <1>2, PushRanges DEF Fresh, New
    <2>2. \A c \in Clients : arg[c] # t
      BY <1>2 DEF Fresh
    <2> QED
      BY <2>1, <2>2 DEF CarriesInv, TasksInv, Carries, cliVars
  <1> QED
    BY <1>1, <1>2 DEF MayPush

LEMMA CarriesStep == IInv /\ Next => CarriesInv'
  <1> SUFFICES ASSUME IInv, Next PROVE CarriesInv'
    OBVIOUS
  <1> USE DEF IInv
  <1>1. CASE Worker
    <2>1. UNCHANGED cliVars
      BY <1>1 DEF Worker, WorkerCheck, WorkerCycle, WorkerTakePermanents, WorkerRunPermanent,
                  WorkerRunPermanentDoing, WorkerRanPermanent, WorkerMerge, WorkerTake,
                  WorkerRunTask, WorkerRunTaskDoing, WorkerCatch
    <2>2. CASE WorkerTake
      BY <2>1, <2>2 DEF CarriesInv, TasksInv, Carries, WorkerTake, cliVars
    <2>3. CASE ~WorkerTake
      <3>1. MayPush
        BY <1>1, <2>3, BodyPushes
           DEF MayPush, Worker, WorkerCheck, WorkerCycle, WorkerTakePermanents,
               WorkerRunPermanent, WorkerRunPermanentDoing, WorkerRanPermanent, WorkerMerge,
               WorkerRunTask, WorkerRunTaskDoing, WorkerCatch
      <3> QED
        BY <2>1, <3>1, PushCarries
    <2> QED
      BY <2>2, <2>3
  <1>2. CASE Owner
    <2>1. UNCHANGED <<cliVars, accepted>>
      BY <1>2 DEF Owner, Stop, StartLock, StartSpawn, StopCall, StopLock, StopJoin, StopDrain,
                  StopDrainDoing,
                  StopReturn, taskVars
    <2> QED
      BY <2>1 DEF CarriesInv, TasksInv, Carries, cliVars
  <1>3. ASSUME NEW c \in Clients, Client(c) PROVE CarriesInv'
    <2>1. CASE PushCheck(c) \/ Await(c)
      <3>1. PICK w \in {"append", "awaitPush"}, t \in Fresh : Call(c, w, t)
        BY <2>1 DEF PushCheck, PushBegin, Await
      <3>2. /\ accepted' = accepted /\ cpc' = [cpc EXCEPT ![c] = w] /\ arg' = [arg EXCEPT ![c] = t]
            /\ t \in Tasks \ RangeOf(accepted) /\ \A d \in Clients : arg[d] # t
        BY <2>1, <3>1 DEF PushCheck, PushBegin, Await, taskVars, Call, Fresh
      <3> QED
        BY <3>2 DEF TypeOK, CarriesInv, TasksInv, Carries
    <2>2. CASE PushAppend(c) \/ AwaitAppend(c)
      <3>1. Carries(c) /\ AppendTask(arg[c]) /\ New(arg[c])
        BY <2>2 DEF PushAppend, AwaitAppend, Carries, TasksInv, New
      <3>2. RangeOf(accepted') = RangeOf(accepted) \cup {arg[c]}
        BY <3>1, PushRanges
      <3>3. /\ ~Carries(c)'
            /\ \A d \in Clients \ {c} : Carries(d)' = Carries(d) /\ arg'[d] = arg[d]
        BY <2>2 DEF TypeOK, PushAppend, AwaitAppend, Return, Call, Carries
      <3>4. \A d \in Clients : Carries(d)' => d # c /\ Carries(d) /\ arg'[d] = arg[d]
        BY <3>3
      <3>5. \A d \in Clients : Carries(d)' => arg[d] \in Tasks \ RangeOf(accepted) /\ arg[d] # arg[c]
        BY <3>1, <3>4 DEF TasksInv
      <3>6. \A d \in Clients : Carries(d)' => arg'[d] \in Tasks \ RangeOf(accepted')
        BY <3>2, <3>4, <3>5
      <3>7. \A d, e \in Clients : Carries(d)' /\ Carries(e)' /\ d # e => arg'[d] # arg'[e]
        BY <3>4 DEF TasksInv
      <3> QED
        BY <3>6, <3>7 DEF CarriesInv
    <2>3. CASE AwaitCheck(c)
      BY <2>3 DEF TypeOK, CarriesInv, TasksInv, AwaitCheck, Call, Carries, taskVars
    <2>4. CASE PushPermanentCheck(c) \/ Remove(c) \/ Clear(c) \/ PushPermanentInsert(c)
               \/ RemoveReady(c) \/ RemoveTimeout(c) \/ AwaitRefused(c) \/ AwaitReady(c)
               \/ AwaitTimeout(c)
      <3>1. accepted' = accepted
        BY <2>4 DEF PushPermanentCheck, PushPermanentBegin, Remove, RemoveId, Clear,
                    PushPermanentInsert, RemoveReady,
                    RemoveTimeout, AwaitRefused, AwaitReady, AwaitTimeout, taskVars
      <3>2. \A d \in Clients : Carries(d)' => Carries(d) /\ arg'[d] = arg[d]
        BY <2>4 DEF TypeOK, Carries, Return, Call, PushPermanentCheck, PushPermanentBegin,
                    Remove, RemoveId, Clear,
                    PushPermanentInsert, RemoveReady, RemoveTimeout, AwaitRefused, AwaitReady,
                    AwaitTimeout, cliVars
      <3> QED
        BY <3>1, <3>2 DEF CarriesInv, TasksInv
    <2> QED
      BY <1>3, <2>1, <2>2, <2>3, <2>4 DEF Client, Continue
  <1> QED
    BY <1>1, <1>2, <1>3 DEF Next

-----------------------------------------------------------------------------
(* The order of execution. *)

LEMMA AppendRight ==
  ASSUME NEW S, NEW a \in Seq(S), NEW b \in Seq(S), NEW e \in S
  PROVE  a \o Append(b, e) = Append(a \o b, e)
  <1>1. <<e>> \in Seq(S) /\ a \o b \in Seq(S)
    BY ConcatProperties
  <1>2. Append(b, e) = b \o <<e>> /\ Append(a \o b, e) = (a \o b) \o <<e>>
    BY <1>1, AppendIsConcat
  <1>3. a \o (b \o <<e>>) = (a \o b) \o <<e>>
    BY <1>1, ConcatAssociative
  <1> QED
    BY <1>2, <1>3, Zenon

LEMMA HeadMoves ==
  ASSUME NEW S, NEW a \in Seq(S), NEW b \in Seq(S), b # <<>>
  PROVE  Append(a, Head(b)) \o Tail(b) = a \o b
  <1>1. Head(b) \in S /\ Tail(b) \in Seq(S) /\ <<Head(b)>> \in Seq(S)
    BY HeadTailProperties
  <1>2. b = <<Head(b)>> \o Tail(b)
    BY HeadTailProperties
  <1>3. Append(a, Head(b)) = a \o <<Head(b)>>
    BY <1>1, AppendIsConcat
  <1>4. (a \o <<Head(b)>>) \o Tail(b) = a \o (<<Head(b)>> \o Tail(b))
    BY <1>1, ConcatAssociative
  <1> QED
    BY <1>2, <1>3, <1>4, Zenon

LEMMA EmptyRange ==
  ASSUME NEW S, NEW s \in Seq(S), RangeOf(s) = {}
  PROVE  s = <<>>
  <1>1. DOMAIN s = 1..Len(s) /\ Len(s) \in Nat
    BY LenProperties
  <1>2. Len(s) # 0 => s[1] \in RangeOf(s)
    BY <1>1 DEF RangeOf
  <1> QED
    BY <1>1, <1>2, EmptyIffNoLength

LEMMA SplitQueue ==
  ASSUME NEW S, NEW s \in Seq(S), NEW n \in 0..Len(s)
  PROVE  SubSeq(s, 1, n) \o SubSeq(s, n + 1, Len(s)) = s
  <1>1. /\ Len(s) \in Nat /\ 1 \in 1..(Len(s) + 1) /\ n \in (1 - 1)..Len(s)
        /\ Len(s) \in n..Len(s)
    BY LenProperties
  <1>2. SubSeq(s, 1, n) \o SubSeq(s, n + 1, Len(s)) = SubSeq(s, 1, Len(s))
    BY <1>1, ConcatAdjacentSubSeq
  <1>3. SubSeq(s, 1, Len(s)) = s
    BY SubSeqFull
  <1> QED
    BY <1>2, <1>3, Zenon

OrderFacts ==
    /\ executed \in Seq(Tasks) /\ batch \in Seq(Tasks) /\ tasks \in Seq(Tasks)
    /\ executed \o batch \in Seq(Tasks)
    /\ executed \o batch \o tasks = accepted

LEMMA OrderKnown == IInv /\ stops = 0 /\ dropped = {} => OrderFacts
  BY ConcatProperties DEF IInv, TypeOK, RunsInOrder, OrderFacts

\* A step that only queues a task keeps the order.
LEMMA PushOrder ==
  ASSUME OrderFacts, NEW before, before = executed \o batch,
         UNCHANGED taskVars \/ \E t \in Tasks : AppendTask(t)
  PROVE  before \o tasks' = accepted'
  <1>1. CASE UNCHANGED taskVars
    BY <1>1 DEF taskVars, OrderFacts
  <1>2. ASSUME NEW t \in Tasks, AppendTask(t) PROVE before \o tasks' = accepted'
    <2>1. tasks' = Append(tasks, t) /\ accepted' = Append(before \o tasks, t)
      BY <1>2 DEF AppendTask, OrderFacts
    <2>2. before \o Append(tasks, t) = Append(before \o tasks, t)
      BY AppendRight DEF OrderFacts
    <2> QED
      BY <2>1, <2>2, Zenon
  <1> QED
    BY <1>1, <1>2

LEMMA MayPushTask == MayPush => UNCHANGED taskVars \/ \E t \in Tasks : AppendTask(t)
  BY DEF MayPush, Fresh

LEMMA OrderStep == IInv /\ Next => RunsInOrder'
  <1> SUFFICES ASSUME IInv, Next, (stops = 0)', (dropped = {})'
               PROVE  (executed \o batch \o tasks = accepted)'
    BY DEF RunsInOrder
  <1> USE DEF IInv
  <1>0. stops = 0 /\ dropped = {} /\ ctl # "drain" /\ ~StopCall
    <2>1. CASE Worker \/ \E c \in Clients : Client(c)
      <3>1. UNCHANGED ownVars /\ dropped \subseteq dropped'
        BY <2>1, ClientKeeps DEF history, Worker, WorkerCheck, WorkerCycle, WorkerTakePermanents,
             WorkerRunPermanent, WorkerRunPermanentDoing, WorkerRanPermanent, WorkerMerge,
             WorkerTake, WorkerRunTask, WorkerRunTaskDoing, WorkerCatch
      <3>2. ~StopCall
        BY <3>1 DEF StopCall, ownVars, TypeOK
      <3> QED
        BY <3>1, <3>2 DEF ownVars, ActorsInv
    <2>2. CASE Owner
      <3>1. stops \in Nat
        BY DEF TypeOK
      <3>2. ~StopCall
        BY <3>1 DEF StopCall
      <3>3. UNCHANGED <<stops, dropped>>
        BY <2>2, <3>2 DEF Owner, Stop, StartLock, StartSpawn, StopLock, StopJoin, StopDrain,
                          StopDrainDoing,
                          StopReturn, history
      <3> QED
        BY <3>1, <3>2, <3>3 DEF ActorsInv
    <2> QED
      BY <2>1, <2>2 DEF Next
  <1>1. OrderFacts
    BY <1>0, OrderKnown
  <1>2. CASE UNCHANGED <<batch, executed>> /\ MayPush
    <2>1. (executed \o batch) \o tasks' = accepted'
      BY <1>1, <1>2, MayPushTask, PushOrder
    <2> QED
      BY <1>2, <2>1
  <1>3. CASE WorkerTake
    <2> DEFINE n == IF Len(tasks) < MaxBatch THEN Len(tasks) ELSE MaxBatch
    <2>1. n \in 0..Len(tasks)
      BY LenProperties, ThreadAssumption DEF TypeOK, ThreadAssumption
    <2>2. /\ batch' = SubSeq(tasks, 1, n) /\ tasks' = SubSeq(tasks, n + 1, Len(tasks))
          /\ batch = <<>> /\ executed' = executed /\ accepted' = accepted
      BY <1>3 DEF WorkerTake, ActorsInv, history
    <2> HIDE DEF n
    <2>3. batch' \o tasks' = tasks
      BY <1>1, <2>1, <2>2, SplitQueue DEF OrderFacts
    <2>4. batch' \in Seq(Tasks) /\ tasks' \in Seq(Tasks)
      <3>1. 1 \in 1..(Len(tasks) + 1) /\ n + 1 \in 1..(Len(tasks) + 1) /\ Len(tasks) \in 0..Len(tasks)
        BY <1>1, <2>1, LenProperties DEF OrderFacts
      <3> QED
        BY <1>1, <2>1, <2>2, <3>1, RangeOfSubSeq DEF OrderFacts
    <2>5. (executed \o batch') \o tasks' = executed \o (batch' \o tasks')
      <3>1. executed \in Seq(Tasks)
        BY <1>1 DEF OrderFacts
      <3> QED
        BY <2>4, <3>1, ConcatAssociative
    <2>6. executed \o batch = executed
      BY <1>1, <2>2, ConcatEmptySeq DEF OrderFacts
    <2> QED
      BY <1>1, <2>2, <2>3, <2>5, <2>6, Zenon DEF OrderFacts
  <1>4. CASE WorkerRunTask
    <2>1. /\ batch # <<>> /\ executed' = Append(executed, Head(batch))
          /\ MayPush
      BY <1>4, BodyPushes DEF ActorsInv, WorkerRunTask, WorkerRunTaskDoing, MayPush
    <2>2. Tail(batch) \in Seq(Tasks)
      BY <1>1, <2>1, HeadTailProperties DEF OrderFacts
    <2>3. batch' = Tail(batch)
      <3>1. CASE Head(batch) \in Throwing
        <4>1. batch' = <<>> /\ RangeOf(Tail(batch)) = {}
          BY <1>4, <3>1 DEF WorkerRunTask, WorkerRunTaskDoing
        <4>2. Tail(batch) = <<>>
          BY <2>2, <4>1, EmptyRange, Zenon
        <4> QED
          BY <4>1, <4>2
      <3>2. CASE Head(batch) \notin Throwing
        BY <1>4, <3>2 DEF WorkerRunTask, WorkerRunTaskDoing
      <3> QED
        BY <3>1, <3>2
    <2>4. executed' \o batch' = executed \o batch
      BY <1>1, <2>1, <2>3, HeadMoves, Zenon DEF OrderFacts
    <2>5. (executed' \o batch') \o tasks' = accepted'
      BY <1>1, <2>1, <2>4, MayPushTask, PushOrder
    <2> QED
      BY <2>5
  <1>5. ASSUME NEW c \in Clients, PushAppend(c) \/ AwaitAppend(c)
        PROVE  (executed \o batch \o tasks = accepted)'
    <2>1. arg[c] \in Tasks /\ AppendTask(arg[c]) /\ UNCHANGED <<batch, executed>>
      BY <1>5 DEF PushAppend, AwaitAppend, TasksInv, Carries, workVars, history
    <2>2. (executed \o batch) \o tasks' = accepted'
      BY <1>1, <2>1, PushOrder
    <2> QED
      BY <2>1, <2>2
  <1>6. CASE WorkerCheck \/ WorkerCycle \/ WorkerTakePermanents \/ WorkerRanPermanent
             \/ WorkerMerge \/ WorkerCatch
    BY <1>2, <1>6 DEF WorkerCheck, WorkerCycle, WorkerTakePermanents, WorkerRanPermanent,
                      WorkerMerge, WorkerCatch, MayPush, history
  <1>7. CASE WorkerRunPermanent
    BY <1>2, <1>7, BodyPushes DEF WorkerRunPermanent, WorkerRunPermanentDoing, MayPush, history
  <1>8. CASE StartLock \/ StartSpawn \/ StopLock \/ StopJoin \/ StopReturn
    BY <1>2, <1>8 DEF StartLock, StartSpawn, StopLock, StopJoin, StopReturn, MayPush,
                      workVars, history
  <1>9. ASSUME NEW c \in Clients, Client(c), ~PushAppend(c), ~AwaitAppend(c)
        PROVE  (executed \o batch \o tasks = accepted)'
    <2>1. UNCHANGED <<batch, executed>>
      BY <1>9, ClientKeeps DEF workVars, history
    <2>2. UNCHANGED taskVars
      BY <1>9 DEF Client, Continue, PushCheck, PushBegin, PushPermanentCheck, PushPermanentBegin,
                  Remove, RemoveId, Clear, Await,
                  PushPermanentInsert, RemoveReady, RemoveTimeout, AwaitRefused, AwaitCheck,
                  AwaitReady, AwaitTimeout
    <2> QED
      BY <1>2, <2>1, <2>2 DEF MayPush
  <1>10. ~StopDrain
    BY <1>0 DEF StopDrain, StopDrainDoing
  <1> QED
    BY <1>0, <1>3, <1>4, <1>5, <1>6, <1>7, <1>8, <1>9, <1>10 DEF Next, Worker, Owner, Stop

-----------------------------------------------------------------------------
(* The theorems. *)

LEMMA NextIInv == IInv /\ [Next]_vars => IInv'
  <1> SUFFICES ASSUME IInv, Next PROVE IInv'
    BY StutterIInv
  <1>1. TypeOK'
    BY WorkerType, OwnerType, ClientType DEF Next
  <1>2. TasksInv'
    BY RangesStep, CarriesStep DEF TasksInv, RangesInv, CarriesInv
  <1> QED
    BY <1>1, <1>2, ActorsStep, PermanentsStep, WaitersStep, OrderStep DEF IInv, PermanentsInv

\* The invariant holds in every behaviour, for every value of the constants.
THEOREM Invariance == Spec => []IInv
  BY InitIInv, NextIInv, PTL DEF Spec

\* Every variable of the executor stays within its type.
THEOREM TypeCorrect == Spec => []TypeOK
  <1>1. IInv => TypeOK
    BY DEF IInv
  <1> QED
    BY <1>1, Invariance, PTL

\* Until the first stop(), tasks run one at a time in the order in which
\* pushTask() accepted them and none is lost, however clients, batches and
\* permanent cycles interleave.
THEOREM TasksRunInOrder == Spec => []RunsInOrder
  <1>1. IInv => RunsInOrder
    BY DEF IInv
  <1> QED
    BY <1>1, Invariance, PTL

\* A permanent task that removePermanentTask() or clearPermanentTasks()
\* reported as removed never runs again.
THEOREM RemovedForGood == Spec => []RemovedStaysRemoved
  <1>1. IInv => RemovedStaysRemoved
    BY DEF IInv
  <1> QED
    BY <1>1, Invariance, PTL

\* run() may trust permanentTasksAvailable_, which it reads without the mutex.
THEOREM AvailabilityFlag == Spec => []AvailabilityIsExact
  <1>1. IInv => AvailabilityIsExact
    BY DEF IInv
  <1> QED
    BY <1>1, Invariance, PTL

-----------------------------------------------------------------------------
(***************************************************************************)
(* The executor implements the queue that the pushing code sees.  The       *)
(* abstract queue is what the cycle took and has not run followed by what   *)
(* is queued, so taking a batch and every permanent task are stutters.      *)
(***************************************************************************)

LEMMA RangeOfConcat ==
  ASSUME NEW S, NEW a \in Seq(S), NEW b \in Seq(S)
  PROVE  RangeOf(a \o b) = RangeOf(a) \cup RangeOf(b)
  <1>1. ASSUME NEW s PROVE RangeOf(s) = Range(s)
    BY DEF RangeOf, Range
  <1>2. Range(a \o b) = Range(a) \cup Range(b)
    BY RangeConcatenation
  <1> QED
    BY <1>1, <1>2, Zenon

LEMMA ConcatRight ==
  ASSUME NEW S, NEW a \in Seq(S), NEW b \in Seq(S)
  PROVE  b = SubSeq(a \o b, Len(a) + 1, Len(a \o b))
  <1> DEFINE c == a \o b
             s == SubSeq(c, Len(a) + 1, Len(c))
  <1>1. /\ c \in Seq(S) /\ Len(c) = Len(a) + Len(b) /\ Len(a) \in Nat /\ Len(b) \in Nat
        /\ \A i \in 1..(Len(a) + Len(b)) : c[i] = IF i <= Len(a) THEN a[i] ELSE b[i - Len(a)]
    BY ConcatProperties, LenProperties
  <1> HIDE DEF c
  <1>2. Len(a) + 1 \in 1..(Len(c) + 1) /\ Len(c) \in Len(a)..Len(c)
    BY <1>1
  <1>3. /\ s \in Seq(S) /\ Len(s) = Len(b)
        /\ \A i \in 1..Len(b) : s[i] = c[Len(a) + i]
    <2>1. /\ s \in Seq(S)
          /\ Len(s) = IF Len(a) + 1 <= Len(c) THEN Len(c) - (Len(a) + 1) + 1 ELSE 0
          /\ \A i \in 1..Len(s) : s[i] = c[Len(a) + 1 + i - 1]
      BY <1>1, <1>2, SubSeqProperties
    <2> HIDE DEF s
    <2>2. Len(s) = Len(b)
      BY <1>1, <2>1
    <2>3. ASSUME NEW i \in 1..Len(b) PROVE s[i] = c[Len(a) + i]
      <3>1. s[i] = c[Len(a) + 1 + i - 1]
        BY <2>1, <2>2
      <3>2. Len(a) + 1 + i - 1 = Len(a) + i
        BY <1>1
      <3> QED
        BY <3>1, <3>2
    <2> QED
      BY <2>1, <2>2, <2>3
  <1>4. \A i \in 1..Len(b) : s[i] = b[i]
    BY SMTT(30), <1>1, <1>3
  <1> HIDE DEF s
  <1>5. s = b
    BY <1>3, <1>4, SeqEqual
  <1> QED
    BY <1>5 DEF c, s

\* The abstract queue, and what it holds when a batch is in hand or not.
AbstractQueue == batch \o tasks

LEMMA QueueFacts ==
  ASSUME TypeOK
  PROVE  /\ AbstractQueue \in Seq(Tasks)
         /\ batch = <<>> => AbstractQueue = tasks
         /\ batch # <<>> => /\ AbstractQueue # <<>>
                            /\ Head(AbstractQueue) = Head(batch)
                            /\ Tail(AbstractQueue) = Tail(batch) \o tasks
  <1>1. batch \in Seq(Tasks) /\ tasks \in Seq(Tasks)
    BY DEF TypeOK
  <1>2. AbstractQueue \in Seq(Tasks) /\ Len(AbstractQueue) = Len(batch) + Len(tasks)
    BY <1>1, ConcatProperties DEF AbstractQueue
  <1>3. batch = <<>> => AbstractQueue = tasks
    BY <1>1, ConcatEmptySeq DEF AbstractQueue
  <1>4. ASSUME batch # <<>>
        PROVE  /\ AbstractQueue # <<>>
               /\ Head(AbstractQueue) = Head(batch)
               /\ Tail(AbstractQueue) = Tail(batch) \o tasks
    <2> DEFINE h == Head(batch)
               r == Tail(batch) \o tasks
    <2>1. h \in Tasks /\ Tail(batch) \in Seq(Tasks) /\ batch = <<h>> \o Tail(batch)
      BY <1>1, <1>4, HeadTailProperties
    <2>2. <<h>> \in Seq(Tasks) /\ r \in Seq(Tasks)
      BY <1>1, <2>1, ConcatProperties
    <2>3. (<<h>> \o Tail(batch)) \o tasks = <<h>> \o r
      BY <1>1, <2>1, <2>2, ConcatAssociative
    <2>4. AbstractQueue = <<h>> \o r
      BY <2>1, <2>3, Zenon DEF AbstractQueue
    <2>5. <<h>> \o r # <<>> /\ Head(<<h>> \o r) = h /\ Tail(<<h>> \o r) = r
      <3> HIDE DEF h, r
      <3> QED
        BY <2>1, <2>2
    <2> QED
      BY <2>4, <2>5, Zenon
  <1> QED
    BY <1>2, <1>3, <1>4

LEMMA NewIsUnknown ==
  ASSUME IInv, NEW t, New(t)
  PROVE  ~Promise!Known(t)
  <1>1. RangeOf(AbstractQueue) \subseteq RangeOf(accepted)
    BY RangeOfConcat DEF IInv, TypeOK, TasksInv, AbstractQueue
  <1>2. RangeOf(executed) \subseteq RangeOf(accepted)
    BY DEF IInv, TasksInv
  <1> QED
    BY <1>1, <1>2 DEF New, Promise!Known, RangeOf, AbstractQueue

\* A step that at most queues a task is an Accept or a stutter.
LEMMA PushRefines ==
  ASSUME IInv, ctl # "drain", UNCHANGED <<batch, executed>>, (ctl = "drain")' = (ctl = "drain"),
         UNCHANGED taskVars \/ \E t \in Tasks : New(t) /\ AppendTask(t)
  PROVE  [Promise!Next]_(Promise!vars)
  <1>1. CASE UNCHANGED taskVars
    BY <1>1 DEF Promise!vars, taskVars
  <1>2. ASSUME NEW t \in Tasks, New(t), AppendTask(t)
        PROVE  Promise!Next
    <2>1. batch' \o tasks' = Append(batch \o tasks, t)
      BY SMTT(30), <1>2, AppendRight DEF AppendTask, IInv, TypeOK
    <2>2. Promise!Accept(t)
      BY <1>2, <2>1, NewIsUnknown DEF Promise!Accept
    <2> QED
      BY <2>2 DEF Promise!Next
  <1> QED
    BY <1>1, <1>2

LEMMA MayPushNew == MayPush => UNCHANGED taskVars \/ \E t \in Tasks : New(t) /\ AppendTask(t)
  BY DEF MayPush, Fresh, New

\* The task at the front runs, and may queue one more.
LEMMA RunTaskRefines == IInv /\ WorkerRunTask => Promise!Next
  <1> SUFFICES ASSUME IInv, WorkerRunTask PROVE Promise!Next
    OBVIOUS
  <1> DEFINE q == batch \o tasks
             h == Head(batch)
             r == Tail(batch) \o tasks
  <1>1. TypeOK /\ batch # <<>> /\ ctl # "drain" /\ batch \in Seq(Tasks) /\ tasks \in Seq(Tasks)
    BY DEF IInv, TypeOK, ActorsInv, WorkerRunTask, WorkerRunTaskDoing
  <1>2. q \in Seq(Tasks) /\ q # <<>> /\ Head(q) = h /\ Tail(q) = r
    BY <1>1, QueueFacts DEF AbstractQueue
  <1>3. executed' = Append(executed, h) /\ ctl' = ctl
    BY DEF WorkerRunTask, WorkerRunTaskDoing, ownVars
  <1>4. h \in Tasks /\ Tail(batch) \in Seq(Tasks)
    BY <1>1, HeadTailProperties
  <1>5. CASE h \in Throwing
    <2>1. batch' = <<>> /\ tasks' = tasks
      BY <1>5 DEF WorkerRunTask, WorkerRunTaskDoing, taskVars
    <2>2. batch' \o tasks' = tasks
      BY <1>1, <2>1, ConcatEmptySeq
    <2>3. /\ Len(q) = Len(batch) + Len(tasks) /\ Len(batch) \in Nat /\ Len(tasks) \in Nat
          /\ \A i \in 1..(Len(batch) + Len(tasks)) :
                q[i] = IF i <= Len(batch) THEN batch[i] ELSE tasks[i - Len(batch)]
      BY <1>1, ConcatProperties, LenProperties
    <2>4. Len(batch) \in 1..Len(q)
      BY <1>1, <2>3, EmptyIffNoLength
    <2>5. tasks = SubSeq(q, Len(batch) + 1, Len(q))
      BY <1>1, ConcatRight
    <2>6. \E n \in 1..Len(q) : batch' \o tasks' = SubSeq(q, n + 1, Len(q))
      BY <2>2, <2>4, <2>5
    <2>7. Promise!RunThrowing
      <3> HIDE DEF h
      <3> QED
        BY <1>1, <1>2, <1>3, <1>5, <2>6 DEF Promise!RunThrowing
    <2> QED
      BY <2>7 DEF Promise!Next
  <1>6. CASE h \notin Throwing
    <2>1. batch' = Tail(batch) /\ MayPush
      BY <1>6, BodyPushes DEF WorkerRunTask, WorkerRunTaskDoing, MayPush
    <2>2. CASE UNCHANGED taskVars
      <3>1. batch' \o tasks' = Tail(q)
        BY <1>2, <2>1, <2>2 DEF taskVars
      <3>2. Promise!RunFirst
        <4> HIDE DEF h, r
        <4> QED
          BY <1>1, <1>2, <1>3, <1>6, <3>1 DEF Promise!RunFirst
      <3> QED
        BY <3>2 DEF Promise!Next
    <2>3. ASSUME NEW t \in Tasks, New(t), AppendTask(t) PROVE Promise!Next
      <3>1. tasks' = Append(tasks, t)
        BY <2>3 DEF AppendTask
      <3>2. batch' \o tasks' = Append(Tail(q), t)
        <4>1. Tail(batch) \o Append(tasks, t) = Append(r, t)
          BY <1>1, <1>4, AppendRight
        <4> QED
          BY <1>2, <2>1, <3>1, <4>1, Zenon
      <3>3. Promise!RunFirstAccepting(t)
        <4> HIDE DEF h, r
        <4> QED
          BY <1>1, <1>2, <1>3, <1>6, <2>3, <3>2, NewIsUnknown DEF Promise!RunFirstAccepting
      <3> QED
        BY <3>3 DEF Promise!Next
    <2> QED
      BY <2>1, <2>2, <2>3, MayPushNew
  <1> QED
    BY <1>5, <1>6

\* stop() runs the last task of what is left, once the worker is gone.
LEMMA DrainRefines == IInv /\ StopDrain => Promise!Next
  <1> SUFFICES ASSUME IInv, StopDrain PROVE Promise!Next
    OBVIOUS
  <1> DEFINE t == tasks[Len(tasks)]
  <1>1. batch = <<>> /\ batch' = <<>> /\ ctl = "drain" /\ tasks # <<>> /\ tasks \in Seq(Tasks)
    BY DEF IInv, TypeOK, ActorsInv, StopDrain, StopDrainDoing, workVars
  <1>2. batch \o tasks = tasks
    BY <1>1, ConcatEmptySeq
  <1>3. executed' = Append(executed, t)
    BY DEF StopDrain, StopDrainDoing
  <1>4. CASE t \in Throwing
    <2>1. ctl' = "off" /\ tasks' = tasks
      BY <1>4 DEF StopDrain, StopDrainDoing, taskVars
    <2>2. batch' \o tasks' = batch \o tasks
      BY <1>1, <2>1
    <2>3. Promise!RunLast
      BY <1>1, <1>2, <1>3, <1>4, <2>1, <2>2 DEF Promise!RunLast
    <2> QED
      BY <2>3 DEF Promise!Next
  <1>5. CASE t \notin Throwing
    <2>1. ctl' = ctl /\ tasks' = SubSeq(tasks, 1, Len(tasks) - 1)
      BY <1>5 DEF StopDrain, StopDrainDoing
    <2>2. Len(tasks) \in Nat \ {0}
      BY <1>1, EmptyIffNoLength, LenProperties
    <2>3. tasks' \in Seq(Tasks)
      <3>1. 1 \in 1..(Len(tasks) + 1) /\ Len(tasks) - 1 \in 0..Len(tasks)
        BY <2>2
      <3> QED
        BY <1>1, <2>1, <3>1, RangeOfSubSeq
    <2>4. batch' \o tasks' = tasks'
      BY <1>1, <2>3, ConcatEmptySeq
    <2>5. Promise!RunLast
      BY <1>1, <1>2, <1>3, <1>5, <2>1, <2>4 DEF Promise!RunLast
    <2> QED
      BY <2>5 DEF Promise!Next
  <1> QED
    BY <1>4, <1>5

LEMMA TakeRefines == IInv /\ WorkerTake => UNCHANGED Promise!vars
  <1> SUFFICES ASSUME IInv, WorkerTake PROVE UNCHANGED Promise!vars
    OBVIOUS
  <1> DEFINE n == IF Len(tasks) < MaxBatch THEN Len(tasks) ELSE MaxBatch
  <1>1. tasks \in Seq(Tasks) /\ n \in 0..Len(tasks)
    BY LenProperties, ThreadAssumption DEF IInv, TypeOK, ThreadAssumption
  <1>2. /\ batch' = SubSeq(tasks, 1, n) /\ tasks' = SubSeq(tasks, n + 1, Len(tasks))
        /\ batch = <<>> /\ executed' = executed /\ ctl' = ctl
    BY DEF WorkerTake, IInv, ActorsInv, history, ownVars
  <1> HIDE DEF n
  <1>3. batch' \o tasks' = tasks
    BY <1>1, <1>2, SplitQueue
  <1>4. batch \o tasks = tasks
    BY <1>1, <1>2, ConcatEmptySeq
  <1> QED
    BY <1>2, <1>3, <1>4 DEF Promise!vars

LEMMA ClientRefines ==
  ASSUME IInv, NEW c \in Clients, Client(c)
  PROVE  [Promise!Next]_(Promise!vars)
  <1>1. UNCHANGED <<batch, executed, ctl>>
    BY ClientKeeps DEF workVars, history, ownVars
  <1>2. CASE PushAppend(c) \/ AwaitAppend(c)
    <2>1. ctl # "drain" /\ arg[c] \in Tasks /\ New(arg[c]) /\ AppendTask(arg[c])
      BY <1>2 DEF PushAppend, AwaitAppend, MutexFree, IInv, TasksInv, Carries, New
    <2> QED
      BY <1>1, <2>1, PushRefines
  <1>3. CASE ~PushAppend(c) /\ ~AwaitAppend(c)
    <2>1. UNCHANGED taskVars
      BY <1>3 DEF Client, Continue, PushCheck, PushBegin, PushPermanentCheck, PushPermanentBegin,
                  Remove, RemoveId, Clear, Await,
                  PushPermanentInsert, RemoveReady, RemoveTimeout, AwaitRefused, AwaitCheck,
                  AwaitReady, AwaitTimeout
    <2> QED
      BY <1>1, <2>1 DEF Promise!vars, taskVars
  <1> QED
    BY <1>2, <1>3

\* Every step of the executor is a step of its promise or a stutter.
LEMMA NextRefines == IInv /\ [Next]_vars => [Promise!Next]_(Promise!vars)
  <1> SUFFICES ASSUME IInv, [Next]_vars PROVE [Promise!Next]_(Promise!vars)
    OBVIOUS
  <1>1. CASE WorkerCheck \/ WorkerCycle \/ WorkerTakePermanents \/ WorkerRanPermanent
             \/ WorkerMerge \/ WorkerCatch \/ StartLock \/ StartSpawn \/ StopCall \/ StopLock
    <2>1. UNCHANGED <<batch, executed, tasks>>
      BY <1>1 DEF WorkerCheck, WorkerCycle, WorkerTakePermanents, WorkerRanPermanent,
                  WorkerMerge, WorkerCatch, StartLock, StartSpawn, StopCall, StopLock,
                  history, taskVars, workVars
    <2>2. (ctl' = "drain") = (ctl = "drain")
      BY <1>1 DEF WorkerCheck, WorkerCycle, WorkerTakePermanents, WorkerRanPermanent,
                  WorkerMerge, WorkerCatch, StartLock, StartSpawn, StopCall, StopLock, ownVars
    <2> QED
      BY <2>1, <2>2 DEF Promise!vars
  <1>2. CASE WorkerRunPermanent
    <2>1. MayPush /\ UNCHANGED <<batch, executed, ctl>> /\ ctl # "drain"
      BY <1>2, BodyPushes DEF WorkerRunPermanent, WorkerRunPermanentDoing, MayPush, history,
                              ownVars, IInv, ActorsInv
    <2> QED
      BY <2>1, MayPushNew, PushRefines
  <1>3. CASE WorkerTake
    BY <1>3, TakeRefines
  <1>4. CASE WorkerRunTask
    BY <1>4, RunTaskRefines
  <1>5. CASE StopDrain
    BY <1>5, DrainRefines
  <1>6. CASE StopJoin
    <2>1. Promise!BeginDrain
      BY <1>6 DEF StopJoin, Promise!BeginDrain, history, taskVars
    <2> QED
      BY <2>1 DEF Promise!Next
  <1>7. CASE StopReturn
    <2>1. batch = <<>> /\ tasks = <<>>
      BY <1>7 DEF StopReturn, IInv, ActorsInv
    <2>2. batch \o tasks = <<>>
      BY <2>1, ConcatEmptySeq DEF IInv, TypeOK
    <2>3. Promise!EndDrain
      BY <1>7, <2>2 DEF StopReturn, Promise!EndDrain, history, taskVars, workVars
    <2> QED
      BY <2>3 DEF Promise!Next
  <1>8. ASSUME NEW c \in Clients, Client(c) PROVE [Promise!Next]_(Promise!vars)
    BY <1>8, ClientRefines
  <1>9. CASE UNCHANGED vars
    BY <1>9 DEF vars, history, taskVars, workVars, ownVars, Promise!vars
  <1> QED
    BY <1>1, <1>2, <1>3, <1>4, <1>5, <1>6, <1>7, <1>8, <1>9 DEF Next, Worker, Owner, Stop

LEMMA InitRefines == Init => Promise!Init
  BY ConcatEmptySeq DEF Init, Promise!Init

\* Batching, permanent tasks, the unlocked reads of shuttingDown_ and the
\* deferred modifications never reorder, repeat, lose or invent a task that
\* the pushing code sees: the executor implements the simple queue.
THEOREM ImplementsQueue == Spec => ImplementsExecutor
  <1>1. IInv /\ [Next]_vars => [Promise!Next]_(Promise!vars)
    BY NextRefines
  <1> QED
    BY <1>1, InitRefines, Invariance, PTL DEF Spec, ImplementsExecutor, Promise!Spec

-----------------------------------------------------------------------------
(***************************************************************************)
(* No task is lost: what was accepted has run, is in the hands of the       *)
(* worker, is queued, or went down with a batch whose task threw.           *)
(***************************************************************************)
NothingIsLost ==
    RangeOf(accepted) \subseteq RangeOf(executed) \cup RangeOf(batch) \cup RangeOf(tasks) \cup dropped

LEMMA PushLosesNothing ==
  ASSUME IInv, MayPush
  PROVE  \A X : RangeOf(accepted) \subseteq X \cup RangeOf(tasks)
                    => RangeOf(accepted') \subseteq X \cup RangeOf(tasks')
  <1>1. CASE UNCHANGED taskVars
    BY <1>1 DEF taskVars
  <1>2. ASSUME NEW t \in Tasks, New(t), AppendTask(t)
        PROVE  \A X : RangeOf(accepted) \subseteq X \cup RangeOf(tasks)
                    => RangeOf(accepted') \subseteq X \cup RangeOf(tasks')
    BY <1>2, PushRanges
  <1> QED
    BY <1>1, <1>2, MayPushNew

LEMMA HeadAndTail ==
  ASSUME NEW S, NEW s \in Seq(S), s # <<>>
  PROVE  RangeOf(s) = {Head(s)} \cup RangeOf(Tail(s))
  <1>1. Head(s) \in S /\ Tail(s) \in Seq(S) /\ <<Head(s)>> \in Seq(S) /\ s = <<Head(s)>> \o Tail(s)
    BY HeadTailProperties
  <1>2. RangeOf(<<Head(s)>> \o Tail(s)) = RangeOf(<<Head(s)>>) \cup RangeOf(Tail(s))
    BY ZenonT(60), <1>1, RangeOfConcat
  <1>3. RangeOf(<<Head(s)>>) = {Head(s)}
    BY DEF RangeOf
  <1> QED
    BY <1>1, <1>2, <1>3, Zenon

LEMMA FrontAndLast ==
  ASSUME NEW S, NEW s \in Seq(S), s # <<>>
  PROVE  RangeOf(s) = RangeOf(SubSeq(s, 1, Len(s) - 1)) \cup {s[Len(s)]}
  <1>1. Len(s) \in Nat \ {0} /\ 1 \in 1..Len(s) /\ Len(s) \in 1..Len(s)
    BY EmptySeq
  <1>2. s = SubSeq(s, 1, Len(s) - 1) \o <<s[Len(s)]>>
    <2>1. SubSeq(s, 1, Len(s)) = SubSeq(s, 1, Len(s) - 1) \o <<s[Len(s)]>>
      BY <1>1, SubSeqRecursiveSecond
    <2> QED
      BY <2>1, SubSeqFull, Zenon
  <1>3. SubSeq(s, 1, Len(s) - 1) \in Seq(S) /\ s[Len(s)] \in S
    <2>1. 1 \in 1..(Len(s) + 1) /\ Len(s) - 1 \in 0..Len(s)
      BY <1>1
    <2> QED
      BY <1>1, <2>1, RangeOfSubSeq, ElementOfSeq
  <1> DEFINE f == SubSeq(s, 1, Len(s) - 1)
             e == s[Len(s)]
  <1>4. RangeOf(f \o <<e>>) = RangeOf(f) \cup RangeOf(<<e>>)
    <2>1. f \in Seq(S) /\ <<e>> \in Seq(S)
      BY <1>3
    <2> QED
      BY ZenonT(60), <2>1, RangeOfConcat
  <1>5. RangeOf(<<e>>) = {e}
    BY DEF RangeOf
  <1> QED
    BY <1>2, <1>4, <1>5, Zenon

LEMMA NothingIsLostStep == IInv /\ NothingIsLost /\ Next => NothingIsLost'
  <1> SUFFICES ASSUME IInv, NothingIsLost, Next PROVE NothingIsLost'
    OBVIOUS
  <1> USE DEF IInv
  <1>1. CASE UNCHANGED <<batch, executed, dropped>> /\ MayPush
    <2>1. \A X : RangeOf(accepted) \subseteq X \cup RangeOf(tasks)
                    => RangeOf(accepted') \subseteq X \cup RangeOf(tasks')
      BY <1>1, PushLosesNothing
    <2>2. RangeOf(accepted) \subseteq (RangeOf(executed) \cup RangeOf(batch) \cup dropped) \cup RangeOf(tasks)
      BY DEF NothingIsLost
    <2>3. RangeOf(accepted') \subseteq (RangeOf(executed) \cup RangeOf(batch) \cup dropped) \cup RangeOf(tasks')
      BY <2>1, <2>2
    <2> QED
      BY <1>1, <2>3 DEF NothingIsLost
  <1>2. CASE WorkerTake
    <2> DEFINE n == IF Len(tasks) < MaxBatch THEN Len(tasks) ELSE MaxBatch
    <2>1. n \in 0..Len(tasks) /\ tasks \in Seq(Tasks)
      BY LenProperties, ThreadAssumption DEF TypeOK, ThreadAssumption
    <2>2. /\ batch' = SubSeq(tasks, 1, n) /\ tasks' = SubSeq(tasks, n + 1, Len(tasks))
          /\ batch = <<>> /\ UNCHANGED <<executed, dropped, accepted>>
      BY <1>2 DEF WorkerTake, ActorsInv, history
    <2> HIDE DEF n
    <2>3. batch' \in Seq(Tasks) /\ tasks' \in Seq(Tasks)
      <3>1. 1 \in 1..(Len(tasks) + 1) /\ n + 1 \in 1..(Len(tasks) + 1) /\ Len(tasks) \in 0..Len(tasks)
        BY <2>1, LenProperties
      <3> QED
        BY <2>1, <2>2, <3>1, RangeOfSubSeq
    <2>4. batch' \o tasks' = tasks
      BY <2>1, <2>2, SplitQueue
    <2>5. RangeOf(tasks) = RangeOf(batch') \cup RangeOf(tasks')
      BY ZenonT(60), <2>3, <2>4, RangeOfConcat
    <2>6. RangeOf(batch) = {}
      BY <2>2 DEF RangeOf
    <2> QED
      BY <2>2, <2>5, <2>6 DEF NothingIsLost
  <1>3. CASE WorkerRunTask
    <2>1. batch # <<>> /\ batch \in Seq(Tasks) /\ executed' = Append(executed, Head(batch)) /\ MayPush
      BY <1>3, BodyPushes DEF TypeOK, ActorsInv, WorkerRunTask, WorkerRunTaskDoing, MayPush
    <2>2. RangeOf(batch) = {Head(batch)} \cup RangeOf(Tail(batch))
      BY <2>1, HeadAndTail
    <2>3. RangeOf(executed') = RangeOf(executed) \cup {Head(batch)}
      BY <2>1, RangeOfAppend, HeadTailProperties DEF TypeOK
    <2>4. \/ batch' = Tail(batch) /\ dropped' = dropped
          \/ dropped' = dropped \cup RangeOf(Tail(batch))
      BY <1>3 DEF WorkerRunTask, WorkerRunTaskDoing
    <2>5. \A X : RangeOf(accepted) \subseteq X \cup RangeOf(tasks)
                    => RangeOf(accepted') \subseteq X \cup RangeOf(tasks')
      BY <2>1, PushLosesNothing
    <2>6. RangeOf(accepted) \subseteq (RangeOf(executed') \cup RangeOf(batch') \cup dropped') \cup RangeOf(tasks)
      BY <2>2, <2>3, <2>4 DEF NothingIsLost
    <2>7. RangeOf(accepted') \subseteq (RangeOf(executed') \cup RangeOf(batch') \cup dropped') \cup RangeOf(tasks')
      BY <2>5, <2>6
    <2> QED
      BY <2>7 DEF NothingIsLost
  <1>4. CASE StopDrain
    <2> DEFINE t == tasks[Len(tasks)]
    <2>1. /\ tasks # <<>> /\ tasks \in Seq(Tasks) /\ executed' = Append(executed, t)
          /\ UNCHANGED <<batch, dropped, accepted>>
      BY <1>4 DEF TypeOK, StopDrain, StopDrainDoing, workVars, taskVars
    <2>2. tasks' = tasks \/ tasks' = SubSeq(tasks, 1, Len(tasks) - 1)
      BY <1>4 DEF StopDrain, StopDrainDoing, taskVars
    <2>3. RangeOf(tasks) = RangeOf(SubSeq(tasks, 1, Len(tasks) - 1)) \cup {t}
      BY <2>1, FrontAndLast
    <2>4. t \in Tasks
      <3>1. Len(tasks) \in 1..Len(tasks)
        BY <2>1, EmptySeq
      <3> QED
        BY <2>1, <3>1, ElementOfSeq
    <2>5. RangeOf(executed') = RangeOf(executed) \cup {t}
      BY <2>1, <2>4, RangeOfAppend DEF TypeOK
    <2> QED
      BY <2>1, <2>2, <2>3, <2>5 DEF NothingIsLost
  <1>5. ASSUME NEW c \in Clients, Client(c) PROVE NothingIsLost'
    <2>0. UNCHANGED <<batch, executed, dropped>>
      BY <1>5, ClientKeeps DEF workVars, history
    <2>1. CASE PushAppend(c) \/ AwaitAppend(c)
      <3>1. New(arg[c]) /\ AppendTask(arg[c])
        BY <2>1 DEF PushAppend, AwaitAppend, TasksInv, Carries, New
      <3>2. /\ RangeOf(accepted') = RangeOf(accepted) \cup {arg[c]}
            /\ RangeOf(tasks') = RangeOf(tasks) \cup {arg[c]}
        BY <3>1, PushRanges
      <3> QED
        BY <2>0, <3>2 DEF NothingIsLost
    <2>2. CASE ~PushAppend(c) /\ ~AwaitAppend(c)
      <3>1. UNCHANGED taskVars
        BY <1>5, <2>2
           DEF Client, Continue, PushCheck, PushBegin, PushPermanentCheck, PushPermanentBegin,
               Remove, RemoveId, Clear, Await, PushPermanentInsert, RemoveReady, RemoveTimeout,
               AwaitRefused, AwaitCheck, AwaitReady, AwaitTimeout
      <3> QED
        BY <1>1, <2>0, <3>1 DEF MayPush
    <2> QED
      BY <2>1, <2>2
  <1>6. CASE WorkerCheck \/ WorkerCycle \/ WorkerTakePermanents \/ WorkerRanPermanent
             \/ WorkerMerge \/ WorkerCatch
    BY <1>1, <1>6 DEF WorkerCheck, WorkerCycle, WorkerTakePermanents, WorkerRanPermanent,
                      WorkerMerge, WorkerCatch, MayPush, history
  <1>7. CASE WorkerRunPermanent
    BY <1>1, <1>7, BodyPushes DEF WorkerRunPermanent, WorkerRunPermanentDoing, MayPush, history
  <1>8. CASE StartLock \/ StartSpawn \/ StopCall \/ StopLock \/ StopJoin \/ StopReturn
    BY <1>1, <1>8 DEF StartLock, StartSpawn, StopCall, StopLock, StopJoin, StopReturn, MayPush,
                      workVars, history
  <1> QED
    BY <1>2, <1>3, <1>4, <1>5, <1>6, <1>7, <1>8 DEF Next, Worker, Owner, Stop

\* When stop() returns, every task that was ever accepted has run or was
\* lost to a throw: the documented "Executes all pending tasks".
THEOREM StopRunsPending == Spec => StopRunsAllPending
  <1>1. Init => NothingIsLost
    BY DEF Init, NothingIsLost, RangeOf
  <1>2. IInv /\ NothingIsLost /\ [Next]_vars => NothingIsLost'
    <2>1. NothingIsLost /\ UNCHANGED vars => NothingIsLost'
      BY DEF NothingIsLost, vars, history, workVars, taskVars
    <2> QED
      BY <2>1, NothingIsLostStep
  <1>3. IInv /\ NothingIsLost /\ StopReturn => RangeOf(accepted) \subseteq RangeOf(executed) \cup dropped
    BY DEF IInv, ActorsInv, StopReturn, NothingIsLost, RangeOf
  <1>4. IInv /\ NothingIsLost =>
            [StopReturn => RangeOf(accepted) \subseteq RangeOf(executed) \cup dropped]_vars
    BY <1>3
  <1> QED
    BY <1>1, <1>2, <1>4, Invariance, PTL DEF Spec, StopRunsAllPending

-----------------------------------------------------------------------------
(***************************************************************************)
(* No task runs twice or is run after it was lost: each place a task may be *)
(* in is apart from the others, and holds it once.  A task that throws is   *)
(* left out: stop() runs it and leaves it queued.                           *)
(***************************************************************************)
Distinct(s) == \A i, j \in DOMAIN s : s[i] = s[j] /\ s[i] \notin Throwing => i = j
Apart(S, T) == S \cap T \subseteq Throwing

\* What ran, the batch, the queue, what is lost and what was accepted.
Once(ex, b, q, lost, acc) ==
    /\ lost \cup RangeOf(ex) \cup RangeOf(b) \cup RangeOf(q) \subseteq RangeOf(acc)
    /\ Distinct(ex) /\ Distinct(b) /\ Distinct(q)
    /\ Apart(RangeOf(ex), RangeOf(b)) /\ Apart(RangeOf(ex), RangeOf(q)) /\ Apart(RangeOf(b), RangeOf(q))
    /\ Apart(lost, RangeOf(ex)) /\ Apart(lost, RangeOf(b)) /\ Apart(lost, RangeOf(q))

OnceInv == Once(executed, batch, tasks, dropped, accepted)

LEMMA DistinctAppend ==
  ASSUME NEW S, NEW s \in Seq(S), NEW e \in S, Distinct(s), e \in RangeOf(s) => e \in Throwing
  PROVE  Distinct(Append(s, e))
  <1>1. /\ DOMAIN s = 1..Len(s) /\ Len(s) \in Nat
        /\ DOMAIN Append(s, e) = 1..(Len(s) + 1)
        /\ \A i \in 1..Len(s) : Append(s, e)[i] = s[i]
        /\ Append(s, e)[Len(s) + 1] = e
    BY AppendProperties, LenProperties
  <1> DEFINE a == Append(s, e)
  <1> HIDE DEF a
  <1>2. ASSUME NEW i \in DOMAIN a, NEW j \in DOMAIN a, a[i] = a[j], a[i] \notin Throwing
        PROVE  i = j
    <2>1. CASE i \in 1..Len(s) /\ j \in 1..Len(s)
      BY <1>1, <1>2, <2>1 DEF a, Distinct
    <2>2. CASE i = Len(s) + 1 /\ j = Len(s) + 1
      BY <2>2
    <2>3. \A k \in 1..Len(s) : a[k] = e => e \in Throwing
      BY <1>1 DEF a, RangeOf
    <2>4. CASE i \in 1..Len(s) /\ j = Len(s) + 1
      BY <1>1, <1>2, <2>3, <2>4 DEF a
    <2>5. CASE i = Len(s) + 1 /\ j \in 1..Len(s)
      BY <1>1, <1>2, <2>3, <2>5 DEF a
    <2> QED
      BY <1>1, <2>1, <2>2, <2>4, <2>5 DEF a
  <1> QED
    BY <1>2 DEF Distinct, a

LEMMA DistinctConcat ==
  ASSUME NEW S, NEW a \in Seq(S), NEW b \in Seq(S)
  PROVE  Distinct(a \o b) <=> Distinct(a) /\ Distinct(b) /\ Apart(RangeOf(a), RangeOf(b))
  <1> DEFINE c == a \o b
             m == Len(a)
             n == Len(b)
  <1>1. /\ m \in Nat /\ n \in Nat /\ DOMAIN a = 1..m /\ DOMAIN b = 1..n /\ DOMAIN c = 1..(m + n)
        /\ \A i \in 1..m : i \in 1..(m + n) /\ c[i] = a[i]
        /\ \A i \in 1..n : m + i \in 1..(m + n) /\ c[m + i] = b[i]
    <2>1. /\ c \in Seq(S) /\ Len(c) = m + n /\ m \in Nat /\ n \in Nat
          /\ \A i \in 1..(m + n) : c[i] = IF i <= m THEN a[i] ELSE b[i - m]
      BY ConcatProperties, LenProperties
    <2>2. DOMAIN a = 1..m /\ DOMAIN b = 1..n /\ DOMAIN c = 1..(m + n)
      BY <2>1, LenProperties
    <2> HIDE DEF c, m, n
    <2>3. \A i \in 1..m : i \in 1..(m + n) /\ c[i] = a[i]
      BY <2>1
    <2>4. ASSUME NEW i \in 1..n PROVE m + i \in 1..(m + n) /\ c[m + i] = b[i]
      <3>1. m + i \in 1..(m + n) /\ ~(m + i <= m) /\ (m + i) - m = i
        BY <2>1
      <3> QED
        BY <2>1, <3>1
    <2> QED
      BY <2>1, <2>2, <2>3, <2>4
  <1> HIDE DEF c, m, n
  <1>2. ASSUME Distinct(c) PROVE Distinct(a) /\ Distinct(b) /\ Apart(RangeOf(a), RangeOf(b))
    <2>1. Distinct(a)
      BY <1>1, <1>2 DEF Distinct
    <2>2. ASSUME NEW i \in DOMAIN b, NEW j \in DOMAIN b, b[i] = b[j], b[i] \notin Throwing
          PROVE  i = j
      <3>1. m + i = m + j
        BY <1>1, <1>2, <2>2 DEF Distinct
      <3> QED
        BY <1>1, <3>1
    <2>3. ASSUME NEW i \in DOMAIN a, NEW j \in DOMAIN b, a[i] = b[j] PROVE a[i] \in Throwing
      <3>1. i # m + j
        BY <1>1
      <3> QED
        BY <1>1, <1>2, <2>3, <3>1 DEF Distinct
    <2> QED
      BY <2>1, <2>2, <2>3 DEF Distinct, Apart, RangeOf
  <1>3. ASSUME Distinct(a), Distinct(b), Apart(RangeOf(a), RangeOf(b)) PROVE Distinct(c)
    <2>1. ASSUME NEW k \in 1..(m + n)
          PROVE  \/ k \in DOMAIN a /\ c[k] = a[k]
                 \/ \E i \in DOMAIN b : k = m + i /\ c[k] = b[i]
      <3>1. CASE k <= m
        BY <1>1, <3>1
      <3>2. CASE k > m
        <4>1. k - m \in 1..n /\ k = m + (k - m)
          BY <1>1, <3>2
        <4> QED
          BY <1>1, <4>1
      <3> QED
        BY <1>1, <3>1, <3>2
    <2>2. ASSUME NEW i \in DOMAIN a, NEW j \in DOMAIN b, a[i] = b[j] PROVE a[i] \in Throwing
      BY <1>3, <2>2 DEF Apart, RangeOf
    <2>3. ASSUME NEW k \in DOMAIN c, NEW l \in DOMAIN c, c[k] = c[l], c[k] \notin Throwing
          PROVE  k = l
      <3>1. CASE k \in DOMAIN a /\ c[k] = a[k] /\ l \in DOMAIN a /\ c[l] = a[l]
        BY <1>3, <2>3, <3>1 DEF Distinct
      <3>2. CASE \E i, j \in DOMAIN b : k = m + i /\ c[k] = b[i] /\ l = m + j /\ c[l] = b[j]
        BY <1>3, <2>3, <3>2 DEF Distinct
      <3>3. CASE \E i \in DOMAIN a, j \in DOMAIN b :
                     (c[k] = a[i] /\ c[l] = b[j]) \/ (c[l] = a[i] /\ c[k] = b[j])
        BY <2>2, <2>3, <3>3
      <3> QED
        BY <1>1, <2>1, <3>1, <3>2, <3>3
    <2> QED
      BY <2>3 DEF Distinct
  <1> QED
    BY <1>2, <1>3 DEF c

\* A new task is queued.
LEMMA NewOnce ==
  ASSUME IInv, NEW ex, NEW b, NEW lost, Once(ex, b, tasks, lost, accepted),
         NEW t \in Tasks, New(t), AppendTask(t)
  PROVE  Once(ex, b, tasks', lost, accepted')
  <1>1. /\ RangeOf(accepted') = RangeOf(accepted) \cup {t}
        /\ RangeOf(tasks') = RangeOf(tasks) \cup {t}
    BY PushRanges
  <1>2. t \notin lost \cup RangeOf(ex) \cup RangeOf(b) \cup RangeOf(tasks)
    BY DEF Once, New
  <1>3. Distinct(tasks')
    BY <1>2, DistinctAppend DEF Once, AppendTask, IInv, TypeOK
  <1> QED
    BY <1>1, <1>2, <1>3 DEF Once, Apart

LEMMA PushedOnce ==
  ASSUME IInv, NEW ex, NEW b, NEW lost, Once(ex, b, tasks, lost, accepted), MayPush
  PROVE  Once(ex, b, tasks', lost, accepted')
  BY NewOnce, MayPushNew DEF taskVars

\* The task at the front of the batch runs, and may take the batch with it.
LEMMA RanOnce ==
  ASSUME IInv, OnceInv, batch # <<>>
  PROVE  /\ Once(Append(executed, Head(batch)), Tail(batch), tasks, dropped, accepted)
         /\ Once(Append(executed, Head(batch)), <<>>, tasks, dropped \cup RangeOf(Tail(batch)), accepted)
  <1> DEFINE h == Head(batch)
             r == Tail(batch)
             ex == Append(executed, h)
  <1>1. batch \in Seq(Tasks) /\ executed \in Seq(Tasks)
    BY DEF IInv, TypeOK
  <1>2. h \in Tasks /\ r \in Seq(Tasks) /\ <<h>> \in Seq(Tasks) /\ batch = <<h>> \o r
    BY <1>1, HeadTailProperties
  <1>3. RangeOf(batch) = {h} \cup RangeOf(r) /\ RangeOf(ex) = RangeOf(executed) \cup {h}
    BY <1>1, <1>2, HeadAndTail, RangeOfAppend
  <1>4. RangeOf(<<h>>) = {h} /\ RangeOf(<<>>) = {} /\ Distinct(<<>>)
    BY DEF RangeOf, Distinct
  <1> HIDE DEF h, r, ex
  <1>5. Distinct(r) /\ Apart({h}, RangeOf(r))
    <2>1. Distinct(<<h>> \o r)
      BY <1>2 DEF OnceInv, Once
    <2> QED
      BY <1>2, <1>4, <2>1, DistinctConcat
  <1>6. Distinct(ex)
    <2>1. h \in RangeOf(executed) => h \in Throwing
      BY <1>3 DEF OnceInv, Once, Apart
    <2> QED
      BY <1>1, <1>2, <2>1, DistinctAppend DEF ex, OnceInv, Once
  <1>7. Once(ex, r, tasks, dropped, accepted)
    BY <1>3, <1>5, <1>6 DEF OnceInv, Once, Apart
  <1>8. Once(ex, <<>>, tasks, dropped \cup RangeOf(r), accepted)
    BY <1>3, <1>4, <1>5, <1>6 DEF OnceInv, Once, Apart
  <1> QED
    BY <1>7, <1>8 DEF h, r, ex

LEMMA OnceStep == IInv /\ OnceInv /\ Next => OnceInv'
  <1> SUFFICES ASSUME IInv, OnceInv, Next PROVE OnceInv'
    OBVIOUS
  <1>1. ASSUME UNCHANGED <<batch, executed, dropped>>, MayPush PROVE OnceInv'
    <2>1. Once(executed, batch, tasks', dropped, accepted')
      BY <1>1, PushedOnce DEF OnceInv
    <2> QED
      BY <1>1, <2>1 DEF OnceInv
  <1>2. CASE WorkerTake
    <2> DEFINE n == IF Len(tasks) < MaxBatch THEN Len(tasks) ELSE MaxBatch
    <2>1. n \in 0..Len(tasks) /\ tasks \in Seq(Tasks)
      BY LenProperties, ThreadAssumption DEF IInv, TypeOK, ThreadAssumption
    <2>2. /\ batch' = SubSeq(tasks, 1, n) /\ tasks' = SubSeq(tasks, n + 1, Len(tasks))
          /\ UNCHANGED <<executed, dropped, accepted>>
      BY <1>2 DEF WorkerTake, history
    <2> HIDE DEF n
    <2>3. batch' \in Seq(Tasks) /\ tasks' \in Seq(Tasks)
      <3>1. 1 \in 1..(Len(tasks) + 1) /\ n + 1 \in 1..(Len(tasks) + 1) /\ Len(tasks) \in 0..Len(tasks)
        BY <2>1, LenProperties
      <3> QED
        BY <2>1, <2>2, <3>1, RangeOfSubSeq
    <2>4. batch' \o tasks' = tasks
      BY <2>1, <2>2, SplitQueue
    <2>5. RangeOf(tasks) = RangeOf(batch') \cup RangeOf(tasks')
      BY ZenonT(60), <2>3, <2>4, RangeOfConcat
    <2>6. Distinct(batch') /\ Distinct(tasks') /\ Apart(RangeOf(batch'), RangeOf(tasks'))
      BY <2>3, <2>4, DistinctConcat DEF OnceInv, Once
    <2> QED
      BY <2>2, <2>5, <2>6 DEF OnceInv, Once, Apart
  <1>3. CASE WorkerRunTask
    <2>1. batch # <<>> /\ executed' = Append(executed, Head(batch)) /\ MayPush
      BY <1>3, BodyPushes DEF IInv, ActorsInv, WorkerRunTask, WorkerRunTaskDoing, MayPush
    <2>2. \/ batch' = Tail(batch) /\ dropped' = dropped
          \/ batch' = <<>> /\ dropped' = dropped \cup RangeOf(Tail(batch))
      BY <1>3 DEF WorkerRunTask, WorkerRunTaskDoing
    <2>3. Once(executed', batch', tasks, dropped', accepted)
      BY <2>1, <2>2, RanOnce
    <2>4. Once(executed', batch', tasks', dropped', accepted')
      BY <2>1, <2>3, PushedOnce
    <2> QED
      BY <2>4 DEF OnceInv
  <1>4. CASE StopDrain
    <2> DEFINE t == tasks[Len(tasks)]
               f == SubSeq(tasks, 1, Len(tasks) - 1)
    <2>1. /\ tasks # <<>> /\ tasks \in Seq(Tasks) /\ executed \in Seq(Tasks)
          /\ executed' = Append(executed, t) /\ UNCHANGED <<batch, dropped, accepted>>
      BY <1>4 DEF IInv, TypeOK, StopDrain, StopDrainDoing, workVars, taskVars
    <2>2. (tasks' = tasks /\ t \in Throwing) \/ tasks' = f
      BY <1>4 DEF StopDrain, StopDrainDoing, taskVars
    <2>3. RangeOf(tasks) = RangeOf(f) \cup {t}
      BY <2>1, FrontAndLast
    <2>4. t \in Tasks /\ f \in Seq(Tasks) /\ tasks = f \o <<t>>
      <3>1. Len(tasks) \in Nat \ {0} /\ Len(tasks) \in 1..Len(tasks) /\ 1 \in 1..Len(tasks)
            /\ 1 \in 1..(Len(tasks) + 1) /\ Len(tasks) - 1 \in 0..Len(tasks)
        BY <2>1, EmptySeq
      <3>2. t \in Tasks /\ f \in Seq(Tasks)
        BY <2>1, <3>1, ElementOfSeq, RangeOfSubSeq
      <3>3. SubSeq(tasks, 1, Len(tasks)) = f \o <<t>>
        BY <2>1, <3>1, SubSeqRecursiveSecond
      <3>4. tasks = f \o <<t>>
        BY <2>1, <3>3, SubSeqFull, Zenon
      <3> HIDE DEF t, f
      <3> QED
        BY <3>2, <3>4
    <2>5. executed' = Append(executed, t)
      BY <2>1
    <2> HIDE DEF t, f
    <2>6. RangeOf(<<t>>) = {t} /\ <<t>> \in Seq(Tasks) /\ RangeOf(executed') = RangeOf(executed) \cup {t}
      <3>1. RangeOf(<<t>>) = {t} /\ <<t>> \in Seq(Tasks)
        BY <2>4 DEF RangeOf
      <3> QED
        BY <2>1, <2>4, <2>5, <3>1, RangeOfAppend
    <2>7. Distinct(f) /\ Apart(RangeOf(f), {t})
      <3>1. Distinct(f \o <<t>>)
        BY <2>4 DEF OnceInv, Once
      <3> QED
        BY <2>4, <2>6, <3>1, DistinctConcat
    <2>8. Distinct(executed')
      <3>1. t \in RangeOf(executed) => t \in Throwing
        BY <2>3 DEF OnceInv, Once, Apart
      <3> QED
        BY <2>1, <2>4, <2>5, <3>1, DistinctAppend DEF OnceInv, Once
    <2>9. batch = <<>> /\ RangeOf(batch) = {}
      BY <1>4 DEF IInv, ActorsInv, StopDrain, StopDrainDoing, RangeOf
    <2> QED
      BY <2>1, <2>2, <2>3, <2>6, <2>7, <2>8, <2>9 DEF OnceInv, Once, Apart
  <1>5. ASSUME NEW c \in Clients, Client(c) PROVE OnceInv'
    <2>0. UNCHANGED <<batch, executed, dropped>>
      BY <1>5, ClientKeeps DEF workVars, history
    <2>1. CASE PushAppend(c) \/ AwaitAppend(c)
      <3>1. arg[c] \in Tasks /\ New(arg[c]) /\ AppendTask(arg[c])
        BY <2>1 DEF IInv, PushAppend, AwaitAppend, TasksInv, Carries, New
      <3>2. Once(executed, batch, tasks', dropped, accepted')
        BY <3>1, NewOnce DEF OnceInv
      <3> QED
        BY <2>0, <3>2 DEF OnceInv
    <2>2. CASE ~PushAppend(c) /\ ~AwaitAppend(c)
      <3>1. UNCHANGED taskVars
        BY <1>5, <2>2
           DEF Client, Continue, PushCheck, PushBegin, PushPermanentCheck, PushPermanentBegin,
               Remove, RemoveId, Clear, Await, PushPermanentInsert, RemoveReady, RemoveTimeout,
               AwaitRefused, AwaitCheck, AwaitReady, AwaitTimeout
      <3> QED
        BY <1>1, <2>0, <3>1 DEF MayPush
    <2> QED
      BY <2>1, <2>2
  <1>6. CASE WorkerCheck \/ WorkerCycle \/ WorkerTakePermanents \/ WorkerRanPermanent
             \/ WorkerMerge \/ WorkerCatch
    BY <1>1, <1>6 DEF WorkerCheck, WorkerCycle, WorkerTakePermanents, WorkerRanPermanent,
                      WorkerMerge, WorkerCatch, MayPush, history
  <1>7. CASE WorkerRunPermanent
    BY <1>1, <1>7, BodyPushes DEF WorkerRunPermanent, WorkerRunPermanentDoing, MayPush, history
  <1>8. CASE StartLock \/ StartSpawn \/ StopCall \/ StopLock \/ StopJoin \/ StopReturn
    BY <1>1, <1>8 DEF StartLock, StartSpawn, StopCall, StopLock, StopJoin, StopReturn, MayPush,
                      workVars, history
  <1> QED
    BY <1>2, <1>3, <1>4, <1>5, <1>6, <1>7, <1>8 DEF Next, Worker, Owner, Stop

LEMMA OnceIsOnce ==
  ASSUME IInv, NothingIsLost, OnceInv
  PROVE  RunsOnce
  <1> DEFINE s == executed \o batch \o tasks
  <1>0. executed \in Seq(Tasks) /\ batch \in Seq(Tasks) /\ tasks \in Seq(Tasks)
    BY DEF IInv, TypeOK
  <1>1. executed \o batch \in Seq(Tasks)
    BY <1>0, ConcatProperties
  <1>2. RangeOf(executed \o batch) = RangeOf(executed) \cup RangeOf(batch)
    BY ZenonT(60), <1>0, RangeOfConcat
  <1>3. RangeOf(s) = RangeOf(executed) \cup RangeOf(batch) \cup RangeOf(tasks)
    <2>1. RangeOf((executed \o batch) \o tasks) = RangeOf(executed \o batch) \cup RangeOf(tasks)
      BY ZenonT(60), <1>0, <1>1, RangeOfConcat
    <2> QED
      BY <1>2, <2>1, Zenon
  <1>4. Distinct(executed \o batch)
    BY <1>0, DistinctConcat DEF OnceInv, Once
  <1>5. Apart(RangeOf(executed \o batch), RangeOf(tasks))
    BY <1>2 DEF OnceInv, Once, Apart
  <1>6. Distinct(s)
    BY <1>0, <1>1, <1>4, <1>5, DistinctConcat DEF OnceInv, Once
  <1> HIDE DEF s
  <1>7. ASSUME NEW t \in RangeOf(accepted) \ Throwing
        PROVE  Cardinality(Occurrences(t, s)) = IF t \in dropped THEN 0 ELSE 1
    <2>1. CASE t \in dropped
      <3>1. t \notin RangeOf(s)
        BY <1>3, <1>7, <2>1 DEF OnceInv, Once, Apart
      <3>2. Occurrences(t, s) = {}
        BY <3>1 DEF Occurrences, RangeOf
      <3> QED
        BY <2>1, <3>2, FS_EmptySet
    <2>2. CASE t \notin dropped
      <3>1. t \in RangeOf(s)
        BY <1>3, <1>7, <2>2 DEF NothingIsLost
      <3>2. PICK i \in DOMAIN s : s[i] = t
        BY <3>1 DEF RangeOf
      <3>3. Occurrences(t, s) = {i}
        BY <1>6, <1>7, <3>2 DEF Distinct, Occurrences
      <3> QED
        BY <2>2, <3>3, FS_Singleton
    <2> QED
      BY <2>1, <2>2
  <1> QED
    BY <1>7 DEF RunsOnce, s

\* Over every start, stop and drain, an accepted task that does not throw is
\* queued, taken, run or lost with the batch of one that does: exactly one of
\* these, and in one place.
THEOREM EachTaskRunsOnce == Spec => []RunsOnce
  <1>1. Init => NothingIsLost /\ OnceInv
    BY DEF Init, NothingIsLost, OnceInv, Once, Distinct, Apart, RangeOf
  <1>2. IInv /\ NothingIsLost /\ OnceInv /\ [Next]_vars => NothingIsLost' /\ OnceInv'
    <2>1. NothingIsLost /\ UNCHANGED vars => NothingIsLost'
      BY DEF NothingIsLost, vars, history, workVars, taskVars
    <2>2. OnceInv /\ UNCHANGED vars => OnceInv'
      BY DEF OnceInv, vars, history, workVars, taskVars
    <2> QED
      BY <2>1, <2>2, NothingIsLostStep, OnceStep
  <1>3. IInv /\ NothingIsLost /\ OnceInv => RunsOnce
    BY OnceIsOnce
  <1> QED
    BY <1>1, <1>2, <1>3, Invariance, PTL DEF Spec
-----------------------------------------------------------------------------
(* What a cycle does to the permanent tasks. *)

\* Nobody clears: a clear stays in the list and runs again in later cycles.
NobodyClears == "clear" \notin ClientOps \cup BodyOps
ClearsNothing == \A i \in DOMAIN deferredTaskModification : deferredTaskModification[i].kind # "clear"

LEMMA CycleRemoves ==
  ASSUME IInv, ClearsNothing, WorkerMerge, NEW id \in (permanentTasks \cup moved) \ permanentTasks'
  PROVE  \E i \in Reached : deferredTaskModification[i].outcome = "pending" /\ Erases(i, id)
  <1>1. id \in ErasedBy(Reached)
    BY DEF WorkerMerge
  <1>2. PICK i \in Reached : Erases(i, id)
    BY <1>1 DEF ErasedBy
  <1>3. i \in DOMAIN deferredTaskModification /\ deferredTaskModification[i].kind # "clear"
    BY <1>2 DEF Reached, ClearsNothing
  <1>4. deferredTaskModification[i].id = id
    BY <1>2, <1>3 DEF Erases
  <1>5. deferredTaskModification[i].outcome = "pending"
    BY <1>3, <1>4 DEF IInv, PromisesInv
  <1> QED
    BY <1>2, <1>5

LEMMA MergeKeepsKinds == TypeOK /\ ClearsNothing /\ WorkerMerge => ClearsNothing'
  BY MergedModifications DEF ClearsNothing

LEMMA DeferKeepsKinds ==
  ASSUME TypeOK, ClearsNothing, NEW kind \in {"erase", "notify"}, NEW id, Defer(Modify(kind, id))
  PROVE  ClearsNothing'
  <1> DEFINE m == Modify(kind, id)
  <1>1. deferredTaskModification \in Seq(Modification) /\ deferredTaskModification' = Append(deferredTaskModification, m)
    BY DEF TypeOK, Defer
  <1>2. m.kind # "clear"
    BY DEF Modify
  <1> HIDE DEF m
  <1> QED
    BY <1>1, <1>2 DEF ClearsNothing

LEMMA BodyKeepsKinds ==
  ASSUME TypeOK, NobodyClears, ClearsNothing, NEW within \in BOOLEAN, BodyOnPermanents(within)
  PROVE  ClearsNothing'
  <1>1. CASE UNCHANGED deferredTaskModification
    BY <1>1 DEF ClearsNothing
  <1>2. CASE BodyRemove(within)
    <2>1. PICK id \in 1..permanentTaskIdCounter :
              \/ UNCHANGED deferredTaskModification
              \/ Defer(Modify(IF within THEN "erase" ELSE "notify", id))
      BY <1>2 DEF BodyRemove, EraseNow
    <2>2. ASSUME Defer(Modify(IF within THEN "erase" ELSE "notify", id)) PROVE ClearsNothing'
      <3>1. \E kind \in {"erase", "notify"} : Defer(Modify(kind, id))
        BY <2>2, Zenon
      <3> QED
        BY <3>1, DeferKeepsKinds
    <2> QED
      BY <1>1, <2>1, <2>2
  <1> QED
    BY <1>1, <1>2 DEF BodyOnPermanents, BodyPushPermanent, InsertPermanent, BodyClear, NobodyClears, permVars

LEMMA KindsStep == TypeOK /\ NobodyClears /\ ClearsNothing /\ Next => ClearsNothing'
  <1> SUFFICES ASSUME TypeOK, NobodyClears, ClearsNothing, Next PROVE ClearsNothing'
    OBVIOUS
  <1>1. CASE UNCHANGED deferredTaskModification
    BY <1>1 DEF ClearsNothing
  <1>2. ASSUME Body PROVE ClearsNothing'
    BY <1>1, <1>2, BodyKeepsKinds DEF Body, permVars
  <1>3. CASE Worker
    BY <1>1, <1>2, <1>3, MergeKeepsKinds
       DEF Worker, WorkerCheck, WorkerCycle, WorkerTakePermanents, WorkerRunPermanent,
           WorkerRunPermanentDoing, WorkerRanPermanent, WorkerTake, WorkerRunTask,
           WorkerRunTaskDoing, WorkerCatch, permVars
  <1>4. CASE Owner
    BY <1>1, <1>4, BodyKeepsKinds
       DEF Owner, Stop, StartLock, StartSpawn, StopCall, StopLock, StopJoin, StopDrain,
           StopDrainDoing, StopReturn, permVars
  <1>5. ASSUME NEW c \in Clients, Client(c) PROVE ClearsNothing'
    <2>1. CASE Remove(c)
      <3>1. PICK id \in 1..permanentTaskIdCounter :
                UNCHANGED deferredTaskModification \/ Defer(Modify("notify", id))
        BY <2>1 DEF Remove, RemoveId, EraseNow
      <3> QED
        BY <1>1, <3>1, DeferKeepsKinds
    <2>2. CASE ~Remove(c)
      <3>1. UNCHANGED deferredTaskModification
        BY <1>5, <2>2
           DEF Client, Continue, PushCheck, PushBegin, PushPermanentCheck, PushPermanentBegin,
               Clear, NobodyClears, Await, PushAppend, PushPermanentInsert, InsertPermanent, RemoveReady,
               RemoveTimeout, AwaitRefused, AwaitCheck, AwaitAppend, AwaitReady, AwaitTimeout, permVars
      <3> QED
        BY <1>1, <3>1
    <2> QED
      BY <2>1, <2>2
  <1> QED
    BY <1>3, <1>4, <1>5 DEF Next

\* A permanent task leaves the executor at the end of a cycle only because its
\* removal was asked for since the cycle before, if nobody clears.
THEOREM PermanentTasksStay ==
  ASSUME NobodyClears
  PROVE  Spec => NotRemovedUponExecution
  <1> DEFINE Removes == WorkerMerge =>
                 \A id \in (permanentTasks \cup moved) \ permanentTasks' :
                     \E i \in Reached : /\ deferredTaskModification[i].outcome = "pending"
                                        /\ Erases(i, id)
  <1>1. Init => ClearsNothing
    BY DEF Init, ClearsNothing
  <1>2. IInv /\ ClearsNothing /\ [Next]_vars => ClearsNothing'
    <2>1. ClearsNothing /\ UNCHANGED vars => ClearsNothing'
      BY DEF ClearsNothing, vars, permVars
    <2> QED
      BY <2>1, KindsStep DEF IInv
  <1>3. IInv /\ ClearsNothing => [Removes]_vars
    BY CycleRemoves
  <1> QED
    BY <1>1, <1>2, <1>3, Invariance, PTL DEF Spec, NotRemovedUponExecution
-----------------------------------------------------------------------------

-----------------------------------------------------------------------------
(* The invariant.  After a stop() nothing is claimed. *)

QueuesOK ==
    /\ tasks \in Seq(Tasks) /\ batch \in Seq(Tasks) /\ executed \in Seq(Tasks) /\ accepted \in Seq(Tasks)
    /\ RangeOf(tasks) \cup RangeOf(batch) \cup RangeOf(executed) \subseteq RangeOf(accepted)

HandsOK ==
    /\ ctl \in {"off", "starting", "on"}
    /\ wpc = "tasks" <=> batch # <<>>
    /\ ctl \in {"off", "starting"} => wpc = "none"

\* A task in a client's hands has not been accepted before.
CarriedOK ==
    /\ DOMAIN cpc = Clients /\ DOMAIN arg = Clients
    /\ \A c \in Clients : Carries(c) => arg[c] \in Tasks \ RangeOf(accepted)
    /\ \A c, d \in Clients : Carries(c) /\ Carries(d) /\ c # d => arg[c] # arg[d]

\* Once there is a final task the strand is finalized and nobody is inside.
ProtocolOK ==
    /\ DOMAIN sop = Clients
    /\ \A c \in Clients : sop[c] # "none" => holder = c
    /\ \A c \in Clients : sop[c] \in {"final", "sync"} => finalized
    /\ finalTask = NoTask \/ (finalized /\ holder = NoClient /\ finalTask \in strandTasks)
    /\ strandTasks \subseteq RangeOf(accepted)

\* No task of the strand st comes behind its final task f in s.
Closes(f, st, s) == \A i, j \in DOMAIN s : s[i] = f /\ i < j => s[j] \notin st

\* The same over what a cycle took, what is queued, what ran and what was lost.
InOrder(b, q, ex, dr, st, f) ==
    /\ st \subseteq RangeOf(ex) \cup dr \cup RangeOf(b) \cup RangeOf(q)
    /\ f \in RangeOf(ex) => st \cap (RangeOf(b) \cup RangeOf(q)) = {}
    /\ f \in RangeOf(b) => st \cap RangeOf(q) = {}
    /\ Closes(f, st, b) /\ Closes(f, st, q)

FinalInv ==
    /\ stops \in Nat
    /\ stops = 0 => /\ QueuesOK /\ HandsOK /\ CarriedOK /\ ProtocolOK
                    /\ InOrder(batch, tasks, executed, dropped, strandTasks, finalTask)

-----------------------------------------------------------------------------
(* Sequences. *)

\* A task of nobody's is queued behind everything.
LEMMA PushedInOrder ==
  ASSUME NEW b \in Seq(Tasks), NEW q \in Seq(Tasks), NEW ex \in Seq(Tasks), NEW dr, NEW st, NEW f,
         InOrder(b, q, ex, dr, st, f), NEW t \in Tasks, t \notin RangeOf(b) \cup RangeOf(q) \cup RangeOf(ex), t \notin st,
         NEW st1, NEW f1, f \in st \/ f = NoTask,
         (st1 = st /\ f1 = f) \/ (f = NoTask /\ st1 = st \cup {t} /\ f1 \in {f, t})
  PROVE  InOrder(b, Append(q, t), ex, dr, st1, f1)
  <1> DEFINE p == Append(q, t)
  <1>1. /\ RangeOf(p) = RangeOf(q) \cup {t}
        /\ DOMAIN p = 1..(Len(q) + 1) /\ DOMAIN q = 1..Len(q) /\ Len(q) \in Nat
        /\ \A i \in 1..Len(q) : p[i] = q[i]
        /\ p[Len(q) + 1] = t
    BY RangeOfAppend, AppendProperties, LenProperties
  <1> HIDE DEF p
  <1>2. NoTask \notin RangeOf(b) \cup RangeOf(q) \cup RangeOf(ex) \cup {t}
    BY ThreadAssumption, ElementOfSeq, LenProperties DEF RangeOf, ThreadAssumption
  <1>3. f1 \in RangeOf(ex) => f1 = f /\ st1 = st
    BY <1>2
  <1>4. f1 \in RangeOf(b) => f1 = f /\ st1 = st
    BY <1>2
  <1>5. st1 \subseteq RangeOf(ex) \cup dr \cup RangeOf(b) \cup RangeOf(p)
    BY <1>1 DEF InOrder
  <1>6. f1 \in RangeOf(ex) => st1 \cap (RangeOf(b) \cup RangeOf(p)) = {}
    BY <1>1, <1>3 DEF InOrder
  <1>7. f1 \in RangeOf(b) => st1 \cap RangeOf(p) = {}
    BY <1>1, <1>4 DEF InOrder
  <1>8. Closes(f1, st1, b)
    BY <1>2, <1>4 DEF InOrder, Closes, RangeOf
  <1>9. ASSUME NEW i \in DOMAIN p, NEW j \in DOMAIN p, p[i] = f1, i < j PROVE p[j] \notin st1
    <2>1. i \in DOMAIN q /\ p[i] = q[i] /\ q[i] # t
      BY <1>1, <1>9 DEF RangeOf
    <2>2. q[i] = f1 /\ f1 # NoTask /\ f1 # t
      BY <1>2, <1>9, <2>1 DEF RangeOf
    <2>3. f1 = f /\ st1 = st
      BY <2>2
    <2>4. CASE j \in DOMAIN q
      BY <1>1, <1>9, <2>2, <2>3, <2>4 DEF InOrder, Closes
    <2>5. CASE j = Len(q) + 1
      BY <1>1, <2>3, <2>5
    <2> QED
      BY <1>1, <2>4, <2>5
  <1>10. Closes(f1, st1, p)
    BY <1>9 DEF Closes
  <1> QED
    BY <1>5, <1>6, <1>7, <1>8, <1>10 DEF InOrder, p

\* A cycle takes the front of the queue.
LEMMA TakenInOrder ==
  ASSUME NEW q \in Seq(Tasks), NEW ex \in Seq(Tasks), NEW dr, NEW st, NEW f,
         InOrder(<<>>, q, ex, dr, st, f), NEW n \in 0..Len(q)
  PROVE  InOrder(SubSeq(q, 1, n), SubSeq(q, n + 1, Len(q)), ex, dr, st, f)
  <1> DEFINE a == SubSeq(q, 1, n)
             b == SubSeq(q, n + 1, Len(q))
  <1>1. /\ DOMAIN q = 1..Len(q) /\ Len(q) \in Nat /\ n \in Nat /\ n <= Len(q) /\ \A i \in 1..Len(q) : q[i] \in Tasks
    BY LenProperties, ElementOfSeq
  <1>2. a \in Seq(Tasks) /\ DOMAIN a = 1..n /\ \A i \in 1..n : a[i] = q[i]
    <2>1. \A i \in 1..n : q[i] \in Tasks
      BY <1>1
    <2>2. /\ a \in Seq(Tasks) /\ Len(a) = IF 1 <= n THEN n - 1 + 1 ELSE 0
          /\ \A i \in 1..(n - 1 + 1) : a[i] = q[1 + i - 1]
      BY <1>1, <2>1, SubSeqProperties
    <2> HIDE DEF a
    <2>3. Len(a) = n
      BY <1>1, <2>2
    <2> QED
      BY <1>1, <2>2, <2>3, LenProperties
  <1>3. b \in Seq(Tasks) /\ DOMAIN b = 1..(Len(q) - n) /\ \A i \in 1..(Len(q) - n) : b[i] = q[n + i]
    <2>1. \A i \in (n + 1)..Len(q) : q[i] \in Tasks
      BY <1>1
    <2>0. n + 1 \in Int /\ Len(q) \in Int
      BY <1>1
    <2>2. /\ b \in Seq(Tasks) /\ Len(b) = IF n + 1 <= Len(q) THEN Len(q) - (n + 1) + 1 ELSE 0
          /\ \A i \in 1..(Len(q) - (n + 1) + 1) : b[i] = q[n + 1 + i - 1]
      BY <2>0, <2>1, SubSeqProperties
    <2> HIDE DEF b
    <2>3. Len(b) = Len(q) - n
      <3>1. \A k, l \in Nat : k <= l => (IF k + 1 <= l THEN l - (k + 1) + 1 ELSE 0) = l - k
        OBVIOUS
      <3> QED
        BY <1>1, <2>2, <3>1
    <2>4. ASSUME NEW i \in 1..(Len(q) - n) PROVE b[i] = q[n + i]
      <3>1. i \in 1..(Len(q) - (n + 1) + 1) /\ n + 1 + i - 1 = n + i
        BY <1>1
      <3> QED
        BY <2>2, <3>1
    <2> QED
      BY <2>2, <2>3, <2>4, LenProperties
  <1> HIDE DEF a, b
  <1>4. RangeOf(<<>>) = {}
    BY EmptySeq DEF RangeOf
  <1>5. ASSUME NEW k \in DOMAIN q PROVE q[k] \in RangeOf(a) \cup RangeOf(b)
    <2>1. CASE k <= n
      BY <1>1, <1>2, <2>1 DEF RangeOf
    <2>2. CASE k > n
      <3>1. k - n \in 1..(Len(q) - n) /\ n + (k - n) = k
        BY <1>1, <2>2
      <3> QED
        BY <1>3, <3>1 DEF RangeOf
    <2> QED
      BY <1>1, <2>1, <2>2
  <1>6. /\ \A i \in DOMAIN a : i \in DOMAIN q /\ a[i] = q[i]
        /\ \A i \in DOMAIN b : n + i \in DOMAIN q /\ b[i] = q[n + i]
        /\ \A i \in DOMAIN a, j \in DOMAIN b : i < n + j
        /\ \A i, j \in DOMAIN b : i < j => n + i < n + j
    BY <1>1, <1>2, <1>3
  <1>7. RangeOf(q) = RangeOf(a) \cup RangeOf(b)
    BY <1>5, <1>6 DEF RangeOf
  <1>8. f \in RangeOf(a) => st \cap RangeOf(b) = {}
    BY <1>6 DEF RangeOf, InOrder, Closes
  <1>9. Closes(f, st, a) /\ Closes(f, st, b)
    BY <1>6 DEF InOrder, Closes
  <1>10. /\ st \subseteq RangeOf(ex) \cup dr \cup RangeOf(q)
         /\ f \in RangeOf(ex) => st \cap RangeOf(q) = {}
    BY <1>4 DEF InOrder
  <1> QED
    BY <1>7, <1>8, <1>9, <1>10 DEF InOrder, a, b

\* The first task of a batch runs, and may take the others with it.
LEMMA RunInOrder ==
  ASSUME NEW b \in Seq(Tasks), NEW q \in Seq(Tasks), NEW ex \in Seq(Tasks), NEW dr, NEW st, NEW f,
         InOrder(b, q, ex, dr, st, f), b # <<>>
  PROVE  /\ InOrder(Tail(b), q, Append(ex, Head(b)), dr, st, f)
         /\ InOrder(<<>>, q, Append(ex, Head(b)), dr \cup RangeOf(Tail(b)), st, f)
  <1> DEFINE h == Head(b)
             r == Tail(b)
             e == Append(ex, h)
  <1>1. h \in Tasks /\ h = b[1] /\ r \in Seq(Tasks) /\ Len(r) = Len(b) - 1 /\ \A i \in 1..Len(r) : r[i] = b[i + 1]
    BY HeadTailProperties
  <1>2. Len(b) \in Nat /\ Len(b) # 0 /\ DOMAIN b = 1..Len(b) /\ DOMAIN r = 1..Len(r)
    BY <1>1, LenProperties, EmptySeq
  <1>3. RangeOf(e) = RangeOf(ex) \cup {h}
    BY <1>1, RangeOfAppend
  <1>4. RangeOf(<<>>) = {} /\ DOMAIN <<>> = {}
    BY EmptySeq DEF RangeOf
  <1> HIDE DEF h, r, e
  <1>5. /\ \A i \in DOMAIN r : i + 1 \in DOMAIN b /\ r[i] = b[i + 1] /\ 1 < i + 1
        /\ \A i, j \in DOMAIN r : i < j => i + 1 < j + 1
        /\ 1 \in DOMAIN b
    BY <1>1, <1>2
  <1>6. ASSUME NEW k \in DOMAIN b PROVE b[k] \in RangeOf(r) \cup {h}
    <2>1. CASE k = 1
      BY <1>1, <2>1
    <2>2. CASE k # 1
      <3>1. k - 1 \in 1..Len(r) /\ k - 1 + 1 = k
        BY <1>1, <1>2, <2>2
      <3> QED
        BY <1>1, <1>2, <3>1 DEF RangeOf
    <2> QED
      BY <2>1, <2>2
  <1>7. RangeOf(b) = RangeOf(r) \cup {h}
    BY <1>1, <1>5, <1>6 DEF RangeOf
  <1>8. f = h => st \cap (RangeOf(r) \cup RangeOf(q)) = {}
    <2>1. f = h => st \cap RangeOf(r) = {}
      <3>1. Closes(f, st, b)
        BY DEF InOrder
      <3>2. \A i \in DOMAIN r : f = h => r[i] \notin st
        BY <1>1, <1>5, <3>1 DEF Closes
      <3> QED
        BY <3>2 DEF RangeOf
    <2>2. f = h => st \cap RangeOf(q) = {}
      BY <1>7 DEF InOrder
    <2> QED
      BY <2>1, <2>2
  <1>9. Closes(f, st, r) /\ Closes(f, st, <<>>)
    BY <1>4, <1>5 DEF InOrder, Closes
  <1>10. InOrder(r, q, e, dr, st, f)
    BY <1>3, <1>7, <1>8, <1>9 DEF InOrder
  <1>11. InOrder(<<>>, q, e, dr \cup RangeOf(r), st, f)
    BY <1>3, <1>4, <1>7, <1>8, <1>9 DEF InOrder
  <1> QED
    BY <1>10, <1>11 DEF r, e, h

-----------------------------------------------------------------------------
(* The steps before the first stop(), by what they do to the queues. *)

\* The worker's part: q is what it leaves queued.
Works(q) ==
    \/ UNCHANGED <<batch, executed, dropped>> /\ q = tasks
    \/ \E n \in 0..Len(tasks) :
           /\ batch = <<>> /\ batch' = SubSeq(tasks, 1, n) /\ q = SubSeq(tasks, n + 1, Len(tasks))
           /\ UNCHANGED <<executed, dropped>>
    \/ /\ batch # <<>> /\ executed' = Append(executed, Head(batch)) /\ q = tasks
       /\ \/ batch' = Tail(batch) /\ UNCHANGED dropped
          \/ batch' = <<>> /\ dropped' = dropped \cup RangeOf(Tail(batch))

\* Then t is queued behind q, by the strand or by somebody else.
Queues(q, t) ==
    /\ t \in Tasks \ RangeOf(accepted)
    /\ tasks' = Append(q, t) /\ accepted' = Append(accepted, t)
    /\ \/ UNCHANGED <<strandTasks, finalTask>>
       \/ finalTask = NoTask /\ strandTasks' = strandTasks \cup {t} /\ finalTask' \in {finalTask, t}

Moves(q) ==
    /\ Works(q)
    /\ \/ tasks' = q /\ UNCHANGED <<accepted, strandTasks, finalTask>>
       \/ \E t : Queues(q, t)

LEMMA WorksKeeps ==
  ASSUME QueuesOK, InOrder(batch, tasks, executed, dropped, strandTasks, finalTask), NEW q, Works(q)
  PROVE  /\ q \in Seq(Tasks) /\ batch' \in Seq(Tasks) /\ executed' \in Seq(Tasks)
         /\ RangeOf(q) \cup RangeOf(batch') \cup RangeOf(executed') \subseteq RangeOf(accepted)
         /\ InOrder(batch', q, executed', dropped', strandTasks, finalTask)
  <1>1. CASE UNCHANGED <<batch, executed, dropped>> /\ q = tasks
    BY <1>1 DEF QueuesOK
  <1>2. ASSUME NEW n \in 0..Len(tasks),
               batch = <<>>, batch' = SubSeq(tasks, 1, n), q = SubSeq(tasks, n + 1, Len(tasks)),
               UNCHANGED <<executed, dropped>>
        PROVE  /\ q \in Seq(Tasks) /\ batch' \in Seq(Tasks)
               /\ RangeOf(q) \cup RangeOf(batch') \subseteq RangeOf(accepted)
               /\ InOrder(batch', q, executed', dropped', strandTasks, finalTask)
    <2>1. /\ tasks \in Seq(Tasks) /\ executed \in Seq(Tasks) /\ RangeOf(tasks) \subseteq RangeOf(accepted)
          /\ InOrder(<<>>, tasks, executed, dropped, strandTasks, finalTask)
      BY <1>2 DEF QueuesOK
    <2>2. InOrder(batch', q, executed', dropped', strandTasks, finalTask)
      BY <1>2, <2>1, TakenInOrder
    <2>3. /\ 1 \in 1..(Len(tasks) + 1) /\ n + 1 \in 1..(Len(tasks) + 1) /\ Len(tasks) \in 0..Len(tasks)
      BY <2>1, LenProperties
    <2>4. /\ batch' \in Seq(Tasks) /\ RangeOf(batch') \subseteq RangeOf(tasks)
          /\ q \in Seq(Tasks) /\ RangeOf(q) \subseteq RangeOf(tasks)
      BY <1>2, <2>1, <2>3, RangeOfSubSeq
    <2> QED
      BY <2>1, <2>2, <2>4
  <1>3. ASSUME batch # <<>>, executed' = Append(executed, Head(batch)), q = tasks,
               \/ batch' = Tail(batch) /\ UNCHANGED dropped
               \/ batch' = <<>> /\ dropped' = dropped \cup RangeOf(Tail(batch))
        PROVE  /\ q \in Seq(Tasks) /\ batch' \in Seq(Tasks) /\ executed' \in Seq(Tasks)
               /\ RangeOf(q) \cup RangeOf(batch') \cup RangeOf(executed') \subseteq RangeOf(accepted)
               /\ InOrder(batch', q, executed', dropped', strandTasks, finalTask)
    <2>1. /\ batch \in Seq(Tasks) /\ tasks \in Seq(Tasks) /\ executed \in Seq(Tasks)
      BY DEF QueuesOK
    <2>2. InOrder(batch', q, executed', dropped', strandTasks, finalTask)
      <3>1. /\ InOrder(Tail(batch), tasks, Append(executed, Head(batch)), dropped, strandTasks, finalTask)
            /\ InOrder(<<>>, tasks, Append(executed, Head(batch)), dropped \cup RangeOf(Tail(batch)), strandTasks, finalTask)
        <4>1. batch # <<>> /\ InOrder(batch, tasks, executed, dropped, strandTasks, finalTask)
          BY <1>3
        <4> QED
          BY <2>1, <4>1, RunInOrder
      <3>2. CASE batch' = Tail(batch) /\ UNCHANGED dropped
        BY <1>3, <3>1, <3>2
      <3>3. CASE batch' = <<>> /\ dropped' = dropped \cup RangeOf(Tail(batch))
        BY <1>3, <3>1, <3>3
      <3> QED
        BY <1>3, <3>2, <3>3
    <2>3. /\ Tail(batch) \in Seq(Tasks) /\ Head(batch) \in Tasks
          /\ RangeOf(Tail(batch)) \subseteq RangeOf(batch) /\ Head(batch) \in RangeOf(batch)
      BY <1>3, <2>1, HeadTailProperties, RangeOfTail
    <2>4. executed' \in Seq(Tasks) /\ RangeOf(executed') = RangeOf(executed) \cup {Head(batch)}
      BY <1>3, <2>1, <2>3, AppendProperties, RangeOfAppend
    <2>5. <<>> \in Seq(Tasks) /\ RangeOf(<<>>) = {}
      BY EmptySeq DEF RangeOf
    <2> QED
      BY <1>3, <2>1, <2>2, <2>3, <2>4, <2>5 DEF QueuesOK
  <1> QED
    BY <1>1, <1>2, <1>3 DEF Works, QueuesOK

LEMMA MovesKeeps ==
  ASSUME QueuesOK, ProtocolOK, InOrder(batch, tasks, executed, dropped, strandTasks, finalTask), NEW q, Moves(q)
  PROVE  /\ QueuesOK' /\ InOrder(batch, tasks, executed, dropped, strandTasks, finalTask)'
         /\ strandTasks' \subseteq RangeOf(accepted') /\ RangeOf(accepted) \subseteq RangeOf(accepted')
         /\ finalTask' = NoTask \/ finalTask' \in strandTasks'
  <1>1. /\ q \in Seq(Tasks) /\ batch' \in Seq(Tasks) /\ executed' \in Seq(Tasks)
        /\ RangeOf(q) \cup RangeOf(batch') \cup RangeOf(executed') \subseteq RangeOf(accepted)
        /\ InOrder(batch', q, executed', dropped', strandTasks, finalTask)
    BY WorksKeeps DEF Moves
  <1>2. CASE tasks' = q /\ UNCHANGED <<accepted, strandTasks, finalTask>>
    BY <1>1, <1>2 DEF QueuesOK, ProtocolOK
  <1>3. ASSUME NEW t, Queues(q, t)
        PROVE  /\ QueuesOK' /\ InOrder(batch, tasks, executed, dropped, strandTasks, finalTask)'
               /\ strandTasks' \subseteq RangeOf(accepted') /\ RangeOf(accepted) \subseteq RangeOf(accepted')
               /\ finalTask' = NoTask \/ finalTask' \in strandTasks'
    <2>1. t \in Tasks /\ t \notin RangeOf(accepted) /\ tasks' = Append(q, t) /\ accepted' = Append(accepted, t)
      BY <1>3 DEF Queues
    <2>2. /\ tasks' \in Seq(Tasks) /\ accepted' \in Seq(Tasks)
          /\ RangeOf(tasks') = RangeOf(q) \cup {t} /\ RangeOf(accepted') = RangeOf(accepted) \cup {t}
      BY <1>1, <2>1, AppendProperties, RangeOfAppend DEF QueuesOK
    <2>3. QueuesOK'
      BY <1>1, <2>2 DEF QueuesOK
    <2>4. strandTasks \subseteq RangeOf(accepted) /\ (finalTask \in strandTasks \/ finalTask = NoTask)
      BY DEF ProtocolOK
    <2>5. \/ strandTasks' = strandTasks /\ finalTask' = finalTask
          \/ finalTask = NoTask /\ strandTasks' = strandTasks \cup {t} /\ finalTask' \in {finalTask, t}
      BY <1>3 DEF Queues
    <2>6. InOrder(batch', tasks', executed', dropped', strandTasks', finalTask')
      BY <1>1, <2>1, <2>4, <2>5, PushedInOrder
    <2> QED
      BY <2>2, <2>3, <2>4, <2>5, <2>6
  <1> QED
    BY <1>2, <1>3 DEF Moves

\* What the body of a task does to the strand and to the queue.
LEMMA BodyQueues ==
  ASSUME QueuesOK, ProtocolOK, (Body /\ UNCHANGED strandVars) \/ StrandBody
  PROVE  /\ UNCHANGED <<holder, sop>> /\ (finalized => finalized')
         /\ finalTask' # finalTask => finalized' /\ holder = NoClient
         /\ \/ UNCHANGED <<taskVars, strandTasks, finalTask>>
            \/ \E t \in Fresh : Queues(tasks, t)
  <1>1. ASSUME NEW t \in Fresh, AppendTask(t),
               \/ UNCHANGED <<strandTasks, finalTask>>
               \/ finalTask = NoTask /\ strandTasks' = strandTasks \cup {t} /\ finalTask' \in {finalTask, t}
        PROVE  Queues(tasks, t)
    BY <1>1 DEF Fresh, AppendTask, Queues
  <1>2. CASE Body /\ UNCHANGED strandVars
    <2>1. UNCHANGED taskVars \/ \E t \in Fresh : AppendTask(t)
      BY <1>2 DEF Body, BodyPush
    <2>2. UNCHANGED <<holder, sop, finalized, strandTasks, finalTask>>
      BY <1>2 DEF strandVars, calls
    <2> QED
      BY <1>1, <2>1, <2>2
  <1>3. CASE StrandBody
    <2>1. UNCHANGED <<holder, sop>> /\ holder = NoClient
      BY <1>3 DEF StrandBody, calls
    <2>2. CASE UNCHANGED <<permVars, taskVars, finalized, strandIds, strandTasks, finalTask>>
      BY <2>1, <2>2
    <2>3. CASE ~finalized /\ BodyStrandPush
      <3>1. finalTask = NoTask
        BY <2>3 DEF ProtocolOK
      <3>2. PICK t \in Fresh : AppendTask(t) /\ strandTasks' = strandTasks \cup {t} /\ finalTask' = finalTask /\ finalized' = finalized
        BY <2>3 DEF BodyStrandPush
      <3> QED
        BY <1>1, <2>1, <3>1, <3>2
    <2>4. CASE BodyStrandPermanent /\ UNCHANGED taskVars
      BY <2>1, <2>4 DEF BodyStrandPermanent
    <2>5. CASE ~finalized /\ BodyFinal
      <3>1. finalTask = NoTask /\ finalized'
        BY <2>5 DEF ProtocolOK, BodyFinal, BodyFinalize
      <3>2. \/ UNCHANGED <<taskVars, strandTasks, finalTask>>
            \/ \E t \in Fresh : AppendTask(t) /\ strandTasks' = strandTasks \cup {t} /\ finalTask' = t
        BY <2>5 DEF BodyFinal
      <3> QED
        BY <1>1, <2>1, <3>1, <3>2
    <2> QED
      BY <1>3, <2>2, <2>3, <2>4, <2>5 DEF StrandBody
  <1> QED
    BY <1>2, <1>3

\* A step that no client makes.
Inside ==
    /\ UNCHANGED <<cliVars, holder, sop>> /\ (finalized => finalized')
    /\ finalTask' # finalTask => finalized' /\ holder = NoClient
    /\ \E q : /\ Works(q)
              /\ \/ tasks' = q /\ UNCHANGED <<accepted, strandTasks, finalTask>>
                 \/ \E t \in Fresh : Queues(q, t)

LEMMA StillInside ==
  ASSUME Works(tasks), UNCHANGED <<cliVars, taskVars, strandVars>>
  PROVE  Inside
  <1>1. UNCHANGED <<cliVars, holder, sop, finalized, finalTask, tasks, accepted, strandTasks>>
    BY DEF taskVars, strandVars, calls
  <1> DEFINE q == tasks
  <1>2. Works(q) /\ tasks' = q /\ UNCHANGED <<accepted, strandTasks, finalTask>>
    BY <1>1
  <1> HIDE DEF q
  <1> QED
    BY <1>1, <1>2 DEF Inside

LEMMA BodyInside ==
  ASSUME QueuesOK, ProtocolOK, Works(tasks), UNCHANGED cliVars, (Body /\ UNCHANGED strandVars) \/ StrandBody
  PROVE  Inside
  <1> DEFINE q == tasks
  <1>1. /\ UNCHANGED <<holder, sop>> /\ (finalized => finalized')
        /\ finalTask' # finalTask => finalized' /\ holder = NoClient
        /\ \/ UNCHANGED <<taskVars, strandTasks, finalTask>>
           \/ \E t \in Fresh : Queues(q, t)
    BY BodyQueues
  <1>2. Works(q) /\ (UNCHANGED taskVars => tasks' = q /\ UNCHANGED accepted)
    BY DEF taskVars
  <1> HIDE DEF q
  <1> QED
    BY <1>1, <1>2 DEF Inside

LEMMA InsideKeeps ==
  ASSUME QueuesOK, CarriedOK, ProtocolOK, InOrder(batch, tasks, executed, dropped, strandTasks, finalTask), Inside
  PROVE  /\ QueuesOK' /\ CarriedOK' /\ ProtocolOK'
         /\ InOrder(batch, tasks, executed, dropped, strandTasks, finalTask)'
  <1>1. PICK q : /\ Works(q)
                 /\ \/ tasks' = q /\ UNCHANGED <<accepted, strandTasks, finalTask>>
                    \/ \E t \in Fresh : Queues(q, t)
    BY DEF Inside
  <1>2. Moves(q)
    BY <1>1 DEF Moves
  <1>3. /\ QueuesOK' /\ InOrder(batch, tasks, executed, dropped, strandTasks, finalTask)'
        /\ strandTasks' \subseteq RangeOf(accepted')
        /\ finalTask' = NoTask \/ finalTask' \in strandTasks'
    BY <1>2, MovesKeeps
  <1>4. CarriedOK'
    <2>1. cpc' = cpc /\ arg' = arg
      BY DEF Inside, cliVars
    <2>2. CASE accepted' = accepted
      BY <2>1, <2>2 DEF CarriedOK, Carries
    <2>3. ASSUME NEW t \in Fresh, Queues(q, t) PROVE CarriedOK'
      <3>1. RangeOf(accepted') = RangeOf(accepted) \cup {t}
        BY <2>3, RangeOfAppend DEF QueuesOK, Queues
      <3>2. \A c \in Clients : arg[c] # t
        BY DEF Fresh
      <3> QED
        BY <2>1, <3>1, <3>2 DEF CarriedOK, Carries
    <2> QED
      BY <1>1, <2>2, <2>3
  <1>5. ProtocolOK'
    <2>1. /\ UNCHANGED <<holder, sop>> /\ (finalized => finalized')
          /\ finalTask' # finalTask => finalized' /\ holder = NoClient
      BY DEF Inside
    <2>2. finalTask' = NoTask \/ (finalized' /\ holder' = NoClient)
      BY <2>1 DEF ProtocolOK
    <2> QED
      BY <1>3, <2>1, <2>2 DEF ProtocolOK
  <1> QED
    BY <1>3, <1>4, <1>5

LEMMA WorkerInside ==
  ASSUME QueuesOK, HandsOK, ProtocolOK, StrandWorker
  PROVE  Inside /\ HandsOK' /\ stops' = stops
  <1>1. CASE /\ WorkerCheck \/ WorkerCycle \/ WorkerTakePermanents \/ WorkerRanPermanent \/ WorkerMerge \/ WorkerCatch
             /\ UNCHANGED strandVars
    <2>1. UNCHANGED <<tasks, accepted, batch, executed, dropped, cliVars, ctl, stops>> /\ wpc # "none"
          /\ wpc # "tasks" /\ wpc' # "tasks" /\ wpc' # "none"
      BY <1>1 DEF WorkerCheck, WorkerCycle, WorkerTakePermanents, WorkerRanPermanent, WorkerMerge, WorkerCatch,
                  taskVars, ownVars, history
    <2> QED
      BY <1>1, <2>1 DEF Inside, Works, HandsOK, strandVars, calls
  <1>2. CASE WorkerTake /\ UNCHANGED strandVars
    <2> DEFINE n == IF Len(tasks) < MaxBatch THEN Len(tasks) ELSE MaxBatch
    <2>1. /\ wpc = "take" /\ batch' = SubSeq(tasks, 1, n) /\ tasks' = SubSeq(tasks, n + 1, Len(tasks))
          /\ wpc' = IF n = 0 THEN "check" ELSE "tasks"
          /\ UNCHANGED <<accepted, ctl, stops, cliVars, executed, dropped>>
      BY <1>2 DEF WorkerTake, ownVars, history
    <2>2. n \in 0..Len(tasks)
      BY LenProperties, ThreadAssumption DEF ThreadAssumption, QueuesOK
    <2> HIDE DEF n
    <2>3. batch = <<>>
      BY <2>1 DEF HandsOK
    <2>4. batch' = <<>> <=> n = 0
      <3>1. 1 \in 1..(Len(tasks) + 1) /\ tasks \in Seq(Tasks)
        BY LenProperties DEF QueuesOK
      <3>2. batch' \in Seq(Tasks)
        BY <2>1, <2>2, <3>1, RangeOfSubSeq
      <3>3. Len(batch') = IF 1 <= n THEN n - 1 + 1 ELSE 0
        <4>1. \A i \in 1..n : tasks[i] \in Tasks
          BY <2>2, <3>1, ElementOfSeq, LenProperties
        <4>2. n \in Int
          BY <2>2
        <4> QED
          BY <2>1, <4>1, <4>2, SubSeqProperties
      <3> QED
        BY <2>2, <3>2, <3>3, EmptyIffNoLength
    <2>5. HandsOK'
      BY <2>1, <2>4 DEF HandsOK
    <2>6. Inside
      <3>1. Works(tasks')
        BY <2>1, <2>2, <2>3 DEF Works
      <3> QED
        BY <1>2, <2>1, <3>1 DEF Inside, strandVars, calls
    <2> QED
      BY <2>1, <2>5, <2>6
  <1>3. CASE StrandRunPermanent
    <2>1. /\ wpc = "permanents" /\ wpc' \in {"caught", "ranPermanent"}
          /\ UNCHANGED <<batch, ctl, stops, cliVars, executed, dropped>>
          /\ \/ UNCHANGED taskVars /\ UNCHANGED strandVars
             \/ (Body /\ UNCHANGED strandVars) \/ StrandBody
      BY <1>3 DEF StrandRunPermanent, WorkerRunPermanentDoing, ownVars, history
    <2>2. HandsOK'
      BY <2>1 DEF HandsOK
    <2>3. Works(tasks)
      BY <2>1 DEF Works
    <2>4. CASE UNCHANGED taskVars /\ UNCHANGED strandVars
      BY <2>1, <2>2, <2>3, <2>4, StillInside
    <2>5. CASE (Body /\ UNCHANGED strandVars) \/ StrandBody
      BY <2>1, <2>2, <2>3, <2>5, BodyInside
    <2> QED
      BY <2>1, <2>2, <2>4, <2>5
  <1>4. CASE StrandRunTask
    <2>1. /\ wpc = "tasks" /\ executed' = Append(executed, Head(batch))
          /\ UNCHANGED <<ctl, stops, cliVars>>
          /\ \/ /\ wpc' = "caught" /\ batch' = <<>> /\ dropped' = dropped \cup RangeOf(Tail(batch))
                /\ UNCHANGED taskVars /\ UNCHANGED strandVars
             \/ /\ wpc' = (IF Len(batch) = 1 THEN "check" ELSE "tasks") /\ batch' = Tail(batch) /\ UNCHANGED dropped
                /\ (Body /\ UNCHANGED strandVars) \/ StrandBody
      BY <1>4 DEF StrandRunTask, WorkerRunTaskDoing, ownVars
    <2>2. batch # <<>> /\ batch \in Seq(Tasks)
      BY <2>1 DEF HandsOK, QueuesOK
    <2>3. Works(tasks)
      BY <2>1, <2>2 DEF Works
    <2>4. Len(batch) = 1 <=> Tail(batch) = <<>>
      <3>1. Tail(batch) \in Seq(Tasks) /\ Len(Tail(batch)) = Len(batch) - 1 /\ Len(batch) \in Nat
        BY <2>2, HeadTailProperties, LenProperties
      <3>2. Tail(batch) = <<>> <=> Len(Tail(batch)) = 0
        BY <3>1, EmptyIffNoLength
      <3> QED
        BY <3>1, <3>2
    <2>5. HandsOK'
      BY <2>1, <2>2, <2>4 DEF HandsOK
    <2>6. CASE UNCHANGED taskVars /\ UNCHANGED strandVars
      BY <2>1, <2>3, <2>5, <2>6, StillInside
    <2>7. CASE (Body /\ UNCHANGED strandVars) \/ StrandBody
      BY <2>1, <2>3, <2>5, <2>7, BodyInside
    <2> QED
      BY <2>1, <2>5, <2>6, <2>7
  <1> QED
    BY <1>1, <1>2, <1>3, <1>4 DEF StrandWorker

LEMMA OwnerInside ==
  ASSUME HandsOK, stops = 0, StrandOwner
  PROVE  stops' # 0 \/ (Inside /\ HandsOK' /\ stops' = stops)
  <1>1. CASE (StartLock \/ StartSpawn) /\ UNCHANGED strandVars
    <2>1. /\ UNCHANGED <<taskVars, batch, cliVars, history, stops>> /\ wpc = "none"
          /\ (wpc' = "none" /\ ctl' = "starting") \/ (wpc' = "check" /\ ctl' = "on")
      BY <1>1 DEF StartLock, StartSpawn, workVars, HandsOK
    <2>2. Works(tasks)
      BY <2>1 DEF Works, history
    <2> QED
      BY <1>1, <2>1, <2>2, StillInside DEF HandsOK
  <1>2. CASE StopCall
    BY <1>2 DEF StopCall
  <1>3. CASE StrandStop
    BY <1>3 DEF StrandStop, StrandDrain, StopDrainDoing, StopLock, StopJoin, StopReturn, HandsOK
  <1> QED
    BY <1>1, <1>2, <1>3 DEF StrandOwner

\* What a client's step does to the tasks in clients' hands.
Calling == {"append", "awaitPush", "awaitAppend"}

Calls(c) ==
    \/ UNCHANGED <<cliVars, taskVars>>
    \/ \E w, x : /\ Call(c, w, x) /\ UNCHANGED taskVars
                 /\ w \notin Calling \/ x \in Fresh \/ (Carries(c) /\ x = arg[c])

Appends(c) ==
    /\ Carries(c) /\ AppendTask(arg[c])
    /\ \E w, x : w \notin Calling /\ Call(c, w, x)

WorkerWaits == UNCHANGED <<wpc, batch, ctl, stops, executed, dropped>>

LEMMA ThreadCalls ==
  ASSUME NEW c \in Clients,
         Client(c) \/ PushBegin(c) \/ PushPermanentBegin(c) \/ (\E id : RemoveId(c, id))
  PROVE  WorkerWaits /\ (Calls(c) \/ Appends(c))
  <1>1. CASE PushBegin(c) \/ PushCheck(c)
    <2>1. UNCHANGED <<taskVars, workVars, ownVars, history>> /\ \E t \in Fresh : Call(c, "append", t)
      BY <1>1 DEF PushBegin, PushCheck
    <2> QED
      BY <2>1 DEF WorkerWaits, Calls, workVars, ownVars, history
  <1>2. CASE PushPermanentBegin(c) \/ PushPermanentCheck(c)
    <2>1. UNCHANGED <<taskVars, workVars, ownVars, history>> /\ Call(c, "appendPermanent", NoTask)
      BY <1>2 DEF PushPermanentBegin, PushPermanentCheck
    <2> QED
      BY <2>1 DEF WorkerWaits, Calls, Calling, workVars, ownVars, history
  <1>3. CASE (\E id : RemoveId(c, id)) \/ Remove(c) \/ Clear(c)
    <2>1. /\ UNCHANGED <<taskVars, workVars, ownVars, history>>
          /\ UNCHANGED cliVars \/ \E x : Call(c, "removal", x)
      BY <1>3 DEF RemoveId, Remove, Clear
    <2> QED
      BY <2>1 DEF WorkerWaits, Calls, Calling, workVars, ownVars, history
  <1>4. CASE Await(c)
    <2>1. UNCHANGED <<taskVars, workVars, ownVars, history>> /\ \E t \in Fresh : Call(c, "awaitPush", t)
      BY <1>4 DEF Await
    <2> QED
      BY <2>1 DEF WorkerWaits, Calls, workVars, ownVars, history
  <1>5. CASE PushAppend(c) \/ AwaitAppend(c)
    <2>1. /\ UNCHANGED <<workVars, ownVars, history>> /\ Carries(c) /\ AppendTask(arg[c])
          /\ Call(c, "idle", NoTask) \/ Call(c, "awaitCycle", arg[c])
      BY <1>5 DEF PushAppend, AwaitAppend, Return, Carries
    <2> QED
      BY <2>1 DEF WorkerWaits, Appends, Calling, workVars, ownVars, history
  <1>6. CASE AwaitCheck(c)
    <2>1. UNCHANGED <<taskVars, workVars, ownVars, history>> /\ Carries(c) /\ Call(c, "awaitAppend", arg[c])
      BY <1>6 DEF AwaitCheck, Carries
    <2> QED
      BY <2>1 DEF WorkerWaits, Calls, workVars, ownVars, history
  <1>7. CASE \/ PushPermanentInsert(c) \/ RemoveReady(c) \/ RemoveTimeout(c) \/ AwaitRefused(c) \/ AwaitReady(c)
             \/ AwaitTimeout(c)
    <2>1. UNCHANGED <<taskVars, workVars, ownVars, history>> /\ Call(c, "idle", NoTask)
      BY <1>7 DEF PushPermanentInsert, RemoveReady, RemoveTimeout, AwaitRefused, AwaitReady, AwaitTimeout, Return
    <2> QED
      BY <2>1 DEF WorkerWaits, Calls, Calling, workVars, ownVars, history
  <1> QED
    BY <1>1, <1>2, <1>3, <1>4, <1>5, <1>6, <1>7 DEF Client, Continue

LEMMA Called ==
  ASSUME CarriedOK, NEW c \in Clients, NEW w, NEW x, Call(c, w, x)
  PROVE  /\ DOMAIN cpc' = Clients /\ DOMAIN arg' = Clients
         /\ cpc'[c] = w /\ arg'[c] = x
         /\ \A d \in Clients : d # c => cpc'[d] = cpc[d] /\ arg'[d] = arg[d]
  BY DEF CarriedOK, Call

LEMMA CallsCarried ==
  ASSUME QueuesOK, CarriedOK, NEW c \in Clients, Calls(c) \/ Appends(c)
  PROVE  CarriedOK'
  <1>1. CASE UNCHANGED <<cliVars, taskVars>>
    BY <1>1 DEF CarriedOK, Carries, cliVars, taskVars
  <1>2. ASSUME NEW w, NEW x, Call(c, w, x), UNCHANGED taskVars,
               w \notin Calling \/ x \in Fresh \/ (Carries(c) /\ x = arg[c])
        PROVE  CarriedOK'
    <2>1. /\ DOMAIN cpc' = Clients /\ DOMAIN arg' = Clients
          /\ cpc'[c] = w /\ arg'[c] = x
          /\ \A d \in Clients : d # c => cpc'[d] = cpc[d] /\ arg'[d] = arg[d]
      BY <1>2, Called
    <2>2. \A d \in Clients : d # c /\ Carries(d)' => Carries(d)
      BY <2>1 DEF Carries
    <2>3. Carries(c)' => x \in Tasks \ RangeOf(accepted) /\ \A d \in Clients : d # c /\ Carries(d) => arg[d] # x
      BY <1>2, <2>1 DEF CarriedOK, Carries, Calling, Fresh
    <2> QED
      BY <1>2, <2>1, <2>2, <2>3 DEF CarriedOK, taskVars
  <1>3. CASE Appends(c)
    <2>1. PICK w, x : w \notin Calling /\ Call(c, w, x)
      BY <1>3 DEF Appends
    <2>2. /\ DOMAIN cpc' = Clients /\ DOMAIN arg' = Clients
          /\ cpc'[c] = w /\ arg'[c] = x
          /\ \A d \in Clients : d # c => cpc'[d] = cpc[d] /\ arg'[d] = arg[d]
      BY <2>1, Called
    <2>3. ~Carries(c)' /\ \A d \in Clients : Carries(d)' => d # c /\ Carries(d)
      BY <2>1, <2>2 DEF Carries, Calling
    <2>4. RangeOf(accepted') = RangeOf(accepted) \cup {arg[c]} /\ Carries(c)
      BY <1>3, RangeOfAppend DEF Appends, AppendTask, QueuesOK, CarriedOK
    <2> QED
      BY <2>2, <2>3, <2>4 DEF CarriedOK
  <1> QED
    BY <1>1, <1>2, <1>3 DEF Calls

\* What a client's step does to the strand.
Enters(c) ==
    /\ ~finalized /\ holder = NoClient /\ holder' = c
    /\ \E op : sop' = [sop EXCEPT ![c] = op] /\ finalized' = (op \in {"final", "sync"})
    /\ UNCHANGED <<strandTasks, finalTask>>

Leaves(c) ==
    /\ sop[c] # "none" /\ holder' = NoClient /\ sop' = [sop EXCEPT ![c] = "none"]
    /\ UNCHANGED finalized
    /\ \/ UNCHANGED <<strandTasks, finalTask>>
       \/ /\ Appends(c) /\ strandTasks' = strandTasks \cup {arg[c]}
          /\ finalTask' = IF sop[c] = "final" THEN arg[c] ELSE finalTask

LEMMA StrandClient ==
  ASSUME NEW c \in Clients, Lock(c) \/ StrandContinue(c) \/ Outside(c)
  PROVE  /\ WorkerWaits /\ (Calls(c) \/ Appends(c))
         /\ \/ UNCHANGED <<finalized, holder, sop, strandTasks, finalTask>>
            \/ Enters(c)
            \/ Leaves(c)
  <1>1. CASE Lock(c)
    <2>1. UNCHANGED <<cliVars, taskVars, workVars, ownVars, history>>
      BY <1>1 DEF Lock, vars
    <2>2. Enters(c)
      BY <1>1 DEF Lock, Enters
    <2> QED
      BY <2>1, <2>2 DEF WorkerWaits, Calls, workVars, ownVars, history
  <1>2. CASE Outside(c)
    <2>1. UNCHANGED <<finalized, holder, sop, strandTasks, finalTask>>
      BY <1>2 DEF Outside, strandVars, calls
    <2> QED
      BY <1>2, <2>1, ThreadCalls DEF Outside
  <1>3. CASE StrandPush(c) \/ StrandPushPermanent(c) \/ StrandRemoved(c)
    <2>1. Client(c) \/ PushBegin(c) \/ PushPermanentBegin(c)
      BY <1>3 DEF StrandPush, StrandPushPermanent, StrandRemoved, Client, Continue
    <2>2. UNCHANGED <<finalized, holder, sop, strandTasks, finalTask>>
      BY <1>3 DEF StrandPush, StrandPushPermanent, StrandRemoved, strandVars, calls
    <2> QED
      BY <2>1, <2>2, ThreadCalls
  <1>4. CASE StrandRemove(c)
    <2>1. (\E id : RemoveId(c, id)) /\ UNCHANGED <<finalized, holder, sop, strandTasks, finalTask>>
      BY <1>4 DEF StrandRemove
    <2> QED
      BY <2>1, ThreadCalls
  <1>5. CASE StrandInsert(c)
    <2>1. Client(c) /\ Leaves(c)
      BY <1>5 DEF StrandInsert, Client, Continue, Unlock, Leaves
    <2> QED
      BY <2>1, ThreadCalls
  <1>6. CASE StrandAppend(c)
    <2>1. Client(c) /\ sop[c] # "none" /\ cpc[c] = "append" /\ AppendTask(arg[c]) /\ Call(c, "idle", NoTask)
      BY <1>6 DEF StrandAppend, Client, Continue, PushAppend, Return
    <2>2. Appends(c)
      BY <2>1 DEF Appends, Carries, Calling
    <2>3. Leaves(c)
      BY <1>6, <2>2 DEF StrandAppend, Unlock, Leaves
    <2> QED
      BY <2>1, <2>3, ThreadCalls
  <1>7. CASE StrandRefused(c) \/ StrandSync(c) \/ StrandThrows(c)
    <2>1. UNCHANGED <<cliVars, taskVars, workVars, ownVars, history>>
      BY <1>7 DEF StrandRefused, StrandSync, StrandThrows, vars
    <2>2. Leaves(c)
      BY <1>7 DEF StrandRefused, StrandSync, StrandThrows, Pushes, Unlock, Leaves
    <2> QED
      BY <2>1, <2>2 DEF WorkerWaits, Calls, workVars, ownVars, history
  <1> QED
    BY <1>1, <1>2, <1>3, <1>4, <1>5, <1>6, <1>7 DEF StrandContinue

LEMMA ClientFinal ==
  ASSUME QueuesOK, HandsOK, CarriedOK, ProtocolOK, InOrder(batch, tasks, executed, dropped, strandTasks, finalTask),
         NEW c \in Clients, Lock(c) \/ StrandContinue(c) \/ Outside(c)
  PROVE  /\ QueuesOK' /\ HandsOK' /\ CarriedOK' /\ ProtocolOK'
         /\ InOrder(batch, tasks, executed, dropped, strandTasks, finalTask)'
         /\ stops' = stops
  <1>1. /\ WorkerWaits /\ (Calls(c) \/ Appends(c))
        /\ \/ UNCHANGED <<finalized, holder, sop, strandTasks, finalTask>>
           \/ Enters(c)
           \/ Leaves(c)
    BY StrandClient
  <1>2. HandsOK' /\ stops' = stops
    BY <1>1 DEF HandsOK, WorkerWaits
  <1>3. CarriedOK'
    BY <1>1, CallsCarried
  <1>4. NoClient \notin Clients
    BY StrandAssumption DEF StrandAssumption
  <1>5. sop[c] # "none" => holder = c /\ finalTask = NoTask /\ (sop[c] = "final" => finalized)
    BY <1>4 DEF ProtocolOK
  <1>6. Moves(tasks)
    <2>1. Works(tasks)
      BY <1>1 DEF WorkerWaits, Works
    <2>2. CASE UNCHANGED <<strandTasks, finalTask>>
      <3>1. CASE UNCHANGED taskVars
        BY <2>1, <2>2, <3>1 DEF Moves, taskVars
      <3>2. CASE Appends(c)
        <4>1. Queues(tasks, arg[c])
          BY <2>2, <3>2 DEF Appends, Queues, AppendTask, CarriedOK
        <4> QED
          BY <2>1, <4>1 DEF Moves
      <3> QED
        BY <1>1, <3>1, <3>2 DEF Calls, taskVars
    <2>3. CASE /\ Leaves(c) /\ Appends(c) /\ strandTasks' = strandTasks \cup {arg[c]}
               /\ finalTask' = IF sop[c] = "final" THEN arg[c] ELSE finalTask
      <3>1. Queues(tasks, arg[c])
        BY <1>5, <2>3 DEF Appends, Queues, AppendTask, CarriedOK, Leaves
      <3> QED
        BY <2>1, <3>1 DEF Moves
    <2> QED
      BY <1>1, <2>2, <2>3 DEF Enters, Leaves
  <1>7. /\ QueuesOK' /\ InOrder(batch, tasks, executed, dropped, strandTasks, finalTask)'
        /\ strandTasks' \subseteq RangeOf(accepted')
        /\ finalTask' = NoTask \/ finalTask' \in strandTasks'
    BY <1>6, MovesKeeps
  <1>8. ProtocolOK'
    <2>1. CASE UNCHANGED <<finalized, holder, sop, strandTasks, finalTask>>
      BY <1>7, <2>1 DEF ProtocolOK
    <2>2. CASE Enters(c)
      <3>1. PICK op : sop' = [sop EXCEPT ![c] = op] /\ finalized' = (op \in {"final", "sync"})
        BY <2>2 DEF Enters
      <3>2. /\ finalTask' = NoTask /\ holder' = c
            /\ \A d \in Clients : sop[d] = "none"
        BY <1>4, <2>2 DEF Enters, ProtocolOK
      <3>3. DOMAIN sop' = Clients /\ sop'[c] = op /\ \A d \in Clients : d # c => sop'[d] = "none"
        BY <3>1, <3>2 DEF ProtocolOK
      <3>4. \A d \in Clients : sop'[d] # "none" => holder' = d
        BY <3>2, <3>3
      <3>5. \A d \in Clients : sop'[d] \in {"final", "sync"} => finalized'
        BY <3>1, <3>3
      <3> QED
        BY <1>7, <3>2, <3>3, <3>4, <3>5 DEF ProtocolOK
    <2>3. CASE Leaves(c)
      <3>1. /\ holder' = NoClient /\ finalized' = finalized /\ sop' = [sop EXCEPT ![c] = "none"] /\ sop[c] # "none"
        BY <2>3 DEF Leaves
      <3>2. DOMAIN sop' = Clients /\ \A d \in Clients : sop'[d] = "none"
        BY <1>5, <3>1 DEF ProtocolOK
      <3>3. finalTask' = NoTask \/ finalized'
        BY <1>5, <2>3, <3>1 DEF Leaves
      <3> QED
        BY <1>7, <3>1, <3>2, <3>3 DEF ProtocolOK
    <2> QED
      BY <1>1, <2>1, <2>2, <2>3
  <1> QED
    BY <1>2, <1>3, <1>7, <1>8

-----------------------------------------------------------------------------
(* Theorems. *)

LEMMA FinalInit == StrandInit => FinalInv
  <1> SUFFICES ASSUME StrandInit PROVE FinalInv
    OBVIOUS
  <1>1. <<>> \in Seq(Tasks) /\ RangeOf(<<>>) = {} /\ DOMAIN <<>> = {}
    BY EmptySeq DEF RangeOf
  <1>2. /\ Init /\ sop = [c \in Clients |-> "none"] /\ finalTask = NoTask /\ strandTasks = {}
    BY DEF StrandInit
  <1>3. QueuesOK /\ HandsOK /\ CarriedOK /\ stops \in Nat
    BY <1>1, <1>2 DEF Init, QueuesOK, HandsOK, CarriedOK, Carries
  <1>4. ProtocolOK
    BY <1>2 DEF ProtocolOK
  <1>5. InOrder(batch, tasks, executed, dropped, strandTasks, finalTask)
    BY <1>1, <1>2 DEF Init, InOrder, Closes
  <1> QED
    BY <1>3, <1>4, <1>5 DEF FinalInv

LEMMA FinalStep == FinalInv /\ [StrandNext]_allVars => FinalInv'
  <1> SUFFICES ASSUME FinalInv, [StrandNext]_allVars PROVE FinalInv'
    OBVIOUS
  <1>1. stops' = stops \/ stops' = stops + 1
    <2>1. CASE UNCHANGED allVars
      BY <2>1 DEF allVars, vars, ownVars
    <2>2. CASE StrandWorker
      BY <2>2 DEF StrandWorker, StrandRunPermanent, StrandRunTask, WorkerRunPermanentDoing, WorkerRunTaskDoing,
                  WorkerCheck, WorkerCycle, WorkerTakePermanents, WorkerRanPermanent, WorkerMerge, WorkerTake,
                  WorkerCatch, ownVars
    <2>3. CASE StrandOwner
      BY <2>3 DEF StrandOwner, StrandStop, StrandDrain, StopDrainDoing, StartLock, StartSpawn, StopCall, StopLock,
                  StopJoin, StopReturn
    <2>4. ASSUME NEW c \in Clients, Lock(c) \/ StrandContinue(c) \/ Outside(c) PROVE stops' = stops
      BY <2>4, StrandClient DEF WorkerWaits
    <2> QED
      BY <2>1, <2>2, <2>3, <2>4 DEF StrandNext
  <1>2. stops' \in Nat /\ (stops' = 0 => stops = 0)
    BY <1>1 DEF FinalInv
  <1>3. ASSUME stops' = 0
        PROVE  /\ QueuesOK' /\ HandsOK' /\ CarriedOK' /\ ProtocolOK'
               /\ InOrder(batch, tasks, executed, dropped, strandTasks, finalTask)'
    <2>1. /\ stops = 0 /\ QueuesOK /\ HandsOK /\ CarriedOK /\ ProtocolOK
          /\ InOrder(batch, tasks, executed, dropped, strandTasks, finalTask)
      BY <1>2, <1>3 DEF FinalInv
    <2>2. CASE UNCHANGED allVars
      <3>1. UNCHANGED <<tasks, batch, executed, accepted, dropped, ctl, wpc, cpc, arg, sop, holder, finalized,
                        strandTasks, finalTask>>
        BY <2>2 DEF allVars, vars, taskVars, workVars, history, ownVars, cliVars, strandVars, calls
      <3> QED
        BY <2>1, <3>1 DEF QueuesOK, HandsOK, CarriedOK, Carries, ProtocolOK
    <2>3. CASE StrandWorker
      BY <2>1, <2>3, WorkerInside, InsideKeeps
    <2>4. CASE StrandOwner
      BY <1>3, <2>1, <2>4, OwnerInside, InsideKeeps
    <2>5. CASE \E c \in Clients : Lock(c) \/ StrandContinue(c) \/ Outside(c)
      BY <2>1, <2>5, ClientFinal
    <2> QED
      BY <2>2, <2>3, <2>4, <2>5 DEF StrandNext
  <1> QED
    BY <1>2, <1>3 DEF FinalInv

(* When the final task of a strand runs, a channel's or an SFTP session's  *)
(* close(), everything that was pushed through the strand has run or was   *)
(* lost to a throw, by whichever clients and tasks it was pushed, and also *)
(* when the final task is pushed by the body of a task.                    *)
THEOREM CloseComesLast == StrandSpec => []FinalTaskIsLast
  <1>1. FinalInv => FinalTaskIsLast
    <2> SUFFICES ASSUME FinalInv, stops = 0, finalTask \in RangeOf(executed)
                 PROVE  strandTasks \subseteq RangeOf(executed) \cup dropped
      BY DEF FinalTaskIsLast
    <2> QED
      BY DEF FinalInv, InOrder
  <1> QED
    BY <1>1, FinalInit, FinalStep, PTL DEF StrandSpec
-----------------------------------------------------------------------------
(* The permanent tasks of a strand. *)

Removing(c) == sop[c] \in {"final", "sync"} /\ left[c] # {}

\* The strand's own mutex: who removes holds it, and nobody does after the final task.
MutexInv ==
    /\ DOMAIN sop = Clients /\ DOMAIN left = Clients /\ DOMAIN cpc = Clients
    /\ \A c \in Clients : sop[c] # "none" => holder = c
    /\ \A c \in Clients : sop[c] # "none" => (finalized <=> sop[c] \in {"final", "sync"})
    /\ \A c \in Clients : sop[c] # "none" /\ cpc[c] = "appendPermanent" => sop[c] = "permanent"
    /\ \A c \in Clients : sop[c] # "none" /\ cpc[c] = "append" => Pushes(c)
    /\ \A c \in Clients : left[c] \subseteq strandIds
    /\ finalTask # NoTask => finalized /\ \A c \in Clients : ~Removing(c)

PermanentIdsInv ==
    /\ permanentTaskIdCounter \in Nat
    /\ permanentTasks \cup moved \subseteq 1..permanentTaskIdCounter
    /\ strandIds \subseteq 0..permanentTaskIdCounter
    /\ ~processingPermanents => moved = {}
    /\ deferredTaskModification \in Seq(Modification)

\* The removal of this task is in the list.
Asked(id) == \E i \in DOMAIN deferredTaskModification :
                 /\ deferredTaskModification[i].kind \in {"erase", "notify"}
                 /\ deferredTaskModification[i].id = id

\* The task is gone, the end of the cycle will come to its removal, or never does.
Handled(id) ==
    \/ id \notin permanentTasks \cup moved
    \/ processingPermanents /\ Asked(id)
    \/ CutOff(id)

ToRemove(id) == \E c \in Clients : Removing(c) /\ id \in left[c]

\* Once the strand is finalized its tasks are still to be removed, or handled.
HandledInv == finalized => \A id \in strandIds : ToRemove(id) \/ Handled(id)

RemovalInv == MutexInv /\ PermanentIdsInv /\ HandledInv

\* What steps do to the permanent tasks and their modifications.
Registers ==
    /\ permanentTaskIdCounter' = permanentTaskIdCounter + 1
    /\ permanentTasks' = permanentTasks \cup {permanentTaskIdCounter'}
    /\ UNCHANGED <<moved, processingPermanents, deferredTaskModification>>

PermanentsRest ==
    \/ UNCHANGED <<permanentTasks, moved, processingPermanents, deferredTaskModification, permanentTaskIdCounter>>
    \/ /\ moved' = permanentTasks /\ permanentTasks' = {} /\ processingPermanents'
       /\ UNCHANGED <<deferredTaskModification, permanentTaskIdCounter>>
    \/ /\ moved' = {}
       /\ UNCHANGED <<permanentTasks, processingPermanents, deferredTaskModification, permanentTaskIdCounter>>

Defers ==
    /\ processingPermanents
    /\ UNCHANGED <<permanentTasks, moved, processingPermanents, permanentTaskIdCounter>>
    /\ deferredTaskModification' \in Seq(Modification)
    /\ \A i \in DOMAIN deferredTaskModification :
           i \in DOMAIN deferredTaskModification' /\ deferredTaskModification'[i] = deferredTaskModification[i]

ErasesAtOnce ==
    /\ ~processingPermanents
    /\ permanentTasks' \subseteq permanentTasks
    /\ UNCHANGED <<moved, processingPermanents, deferredTaskModification, permanentTaskIdCounter>>

PermanentsMove == Registers \/ PermanentsRest \/ Defers \/ ErasesAtOnce \/ WorkerMerge

\* The end of a cycle leaves the list as long as it was, and keeps what was answered.
LEMMA MergeKeepsList ==
  ASSUME deferredTaskModification \in Seq(Modification), WorkerMerge
  PROVE  /\ deferredTaskModification' \in Seq(Modification)
         /\ DOMAIN deferredTaskModification' = DOMAIN deferredTaskModification
         /\ \A i \in DOMAIN deferredTaskModification :
                /\ deferredTaskModification'[i].kind = deferredTaskModification[i].kind
                /\ deferredTaskModification'[i].id = deferredTaskModification[i].id
                /\ Throws(i) => Throws(i)'
  <1> DEFINE d == deferredTaskModification
             n == Len(deferredTaskModification)
  <1>1. n \in Nat /\ DOMAIN d = 1..n /\ \A i \in 1..n : d[i] \in Modification
    OBVIOUS
  <1>2. \A i \in 1..n : Answered(i) \in {"pending", "erased", "absent"}
    BY <1>1 DEF Answered, Modification
  <1>3. d' = [i \in 1..n |-> [d[i] EXCEPT !.outcome = Answered(i)]]
    BY <1>1 DEF WorkerMerge
  <1>4. \A i \in 1..n : d'[i] = [d[i] EXCEPT !.outcome = Answered(i)]
    BY <1>3
  <1>5. DOMAIN d' = 1..n
    BY <1>3
  <1>6. \A i \in 1..n : d'[i] \in Modification /\ d'[i].kind = d[i].kind /\ d'[i].id = d[i].id
                        /\ d'[i].outcome = Answered(i)
    BY <1>1, <1>2, <1>4 DEF Modification
  <1>7. \A i \in 1..n : d[i].outcome # "pending" => Answered(i) = d[i].outcome
    BY DEF Answered
  <1>8. \A i \in 1..n : Throws(i) => Throws(i)'
    BY <1>6, <1>7 DEF Throws
  <1>9. d' \in Seq(Modification)
    <2>1. d' \in [1..n -> Modification]
      BY <1>3, <1>6
    <2> HIDE DEF n, d
    <2> QED
      BY <1>1, <2>1
  <1> QED
    BY <1>1, <1>5, <1>6, <1>8, <1>9

LEMMA HandledStays ==
  ASSUME PermanentIdsInv, NEW id \in strandIds, Handled(id), PermanentsMove
  PROVE  Handled(id)'
  <1>1. CASE Registers \/ PermanentsRest
    <2>1. id \in permanentTasks' \cup moved' => id \in permanentTasks \cup moved
      BY <1>1 DEF PermanentIdsInv, Registers, PermanentsRest
    <2>2. deferredTaskModification' = deferredTaskModification /\ (processingPermanents => processingPermanents')
      BY <1>1 DEF Registers, PermanentsRest
    <2>3. (Asked(id) => Asked(id)') /\ (CutOff(id) => CutOff(id)')
      BY <2>2 DEF Asked, CutOff, Reached, Throws
    <2> QED
      BY <2>1, <2>2, <2>3 DEF Handled
  <1>2. CASE ErasesAtOnce
    <2>1. CutOff(id) => CutOff(id)'
      BY <1>2 DEF ErasesAtOnce, CutOff, Reached, Throws
    <2> QED
      BY <1>2, <2>1 DEF ErasesAtOnce, Handled
  <1>3. CASE Defers
    <2>1. CutOff(id) => Asked(id)
      BY DEF CutOff, Asked
    <2>2. Asked(id) => Asked(id)'
      BY <1>3 DEF Defers, Asked
    <2> QED
      BY <1>3, <2>1, <2>2 DEF Defers, Handled
  <1>4. CASE WorkerMerge
    <2>1. deferredTaskModification \in Seq(Modification)
      BY DEF PermanentIdsInv
    <2>2. permanentTasks' = (permanentTasks \cup moved) \ ErasedBy(Reached) /\ moved' = {}
      BY <1>4 DEF WorkerMerge
    <2>3. ASSUME NEW i \in DOMAIN deferredTaskModification, i \notin Reached,
                 deferredTaskModification[i].kind \in {"erase", "notify"}, deferredTaskModification[i].id = id
          PROVE  CutOff(id)'
      <3>1. PICK j \in 1..(i-1) : Throws(j)
        BY <2>3 DEF Reached
      <3>2. j \in DOMAIN deferredTaskModification
        BY <2>1
      <3>3. i \in DOMAIN deferredTaskModification' /\ i \notin Reached'
        BY <1>4, <2>1, <3>1, <3>2, MergeKeepsList DEF Reached
      <3> QED
        BY <1>4, <2>1, <2>3, <3>3, MergeKeepsList DEF CutOff
    <2>4. ASSUME NEW i \in Reached, deferredTaskModification[i].id = id, id \in permanentTasks \cup moved
          PROVE  id \in ErasedBy(Reached)
      BY <2>4 DEF ErasedBy, Erases
    <2>5. CutOff(id) => CutOff(id)'
      BY <2>3 DEF CutOff
    <2>6. Asked(id) /\ id \in permanentTasks \cup moved => CutOff(id)' \/ id \in ErasedBy(Reached)
      BY <2>3, <2>4 DEF Asked
    <2> QED
      BY <2>2, <2>5, <2>6 DEF Handled
  <1> QED
    BY <1>1, <1>2, <1>3, <1>4 DEF PermanentsMove

LEMMA IdsStay ==
  ASSUME PermanentIdsInv, PermanentsMove,
         \/ UNCHANGED strandIds
         \/ strandIds' = strandIds \cup {0}
         \/ Registers /\ strandIds' = strandIds \cup {permanentTaskIdCounter'}
  PROVE  PermanentIdsInv'
  <1> DEFINE n == permanentTaskIdCounter
             m == permanentTaskIdCounter'
             ids == permanentTasks \cup moved
             later == permanentTasks' \cup moved'
  <1>1. n \in Nat /\ ids \subseteq 1..n /\ strandIds \subseteq 0..n
    BY DEF PermanentIdsInv
  <1>2. \/ Registers /\ m = n + 1 /\ later \subseteq ids \cup {m}
        \/ m = n /\ later \subseteq ids
    BY DEF PermanentsMove, Registers, PermanentsRest, Defers, ErasesAtOnce, WorkerMerge
  <1>3. strandIds' \subseteq strandIds \cup {0, m}
    OBVIOUS
  <1>4. ~processingPermanents' => moved' = {}
    BY DEF PermanentIdsInv, PermanentsMove, Registers, PermanentsRest, Defers, ErasesAtOnce, WorkerMerge
  <1>5. deferredTaskModification' \in Seq(Modification)
    BY MergeKeepsList DEF PermanentIdsInv, PermanentsMove, Registers, PermanentsRest, Defers, ErasesAtOnce
  <1> HIDE DEF n, m, ids, later
  <1>6. m \in Nat /\ later \subseteq 1..m /\ strandIds' \subseteq 0..m
    <2>1. CASE m = n + 1 /\ later \subseteq ids \cup {m}
      BY <1>1, <1>3, <2>1
    <2>2. CASE m = n /\ later \subseteq ids
      BY <1>1, <1>3, <2>2
    <2> QED
      BY <1>2, <2>1, <2>2
  <1> QED
    BY <1>4, <1>5, <1>6 DEF PermanentIdsInv, m, later

\* Steps that leave the strand's ids and who removes them as they are.
LEMMA HandledInvStays ==
  ASSUME PermanentIdsInv, HandledInv, PermanentsMove, UNCHANGED <<strandIds, finalized>>,
         \A id \in strandIds : ToRemove(id) => ToRemove(id)'
  PROVE  HandledInv'
  BY HandledStays DEF HandledInv

\* The three ways of a step: it leaves the strand alone, registers through it, or finalizes it.
LEMMA StrandRests ==
  ASSUME RemovalInv, PermanentsMove, UNCHANGED <<cpc, strandVars>>
  PROVE  RemovalInv'
  <1>1. UNCHANGED <<finalized, strandIds, holder, sop, left, finalTask, cpc>>
    BY DEF strandVars, calls
  <1>2. MutexInv'
    BY <1>1 DEF RemovalInv, MutexInv, Removing, Pushes
  <1>3. PermanentIdsInv'
    BY <1>1, IdsStay DEF RemovalInv
  <1>4. \A id \in strandIds : ToRemove(id) => ToRemove(id)'
    BY <1>1 DEF ToRemove, Removing
  <1>5. HandledInv'
    BY <1>1, <1>4, HandledInvStays DEF RemovalInv
  <1> QED
    BY <1>2, <1>3, <1>5 DEF RemovalInv

Opens ==
    /\ Registers \/ PermanentsRest
    /\ ~finalized /\ ~finalized' /\ finalTask' = finalTask
    /\ \/ UNCHANGED strandIds
       \/ strandIds' = strandIds \cup {0}
       \/ Registers /\ strandIds' = strandIds \cup {permanentTaskIdCounter'}

LEMMA StrandOpens ==
  ASSUME RemovalInv, Opens, UNCHANGED <<cpc, holder, sop, left>>
  PROVE  RemovalInv'
  <1>1. MutexInv'
    BY DEF RemovalInv, MutexInv, Opens, Removing, Pushes
  <1>2. PermanentIdsInv'
    BY IdsStay DEF RemovalInv, Opens, PermanentsMove
  <1>3. HandledInv'
    BY DEF Opens, HandledInv
  <1> QED
    BY <1>1, <1>2, <1>3 DEF RemovalInv

\* A walk over finitely many ids comes to each of them.
LEMMA WalkCovers ==
  ASSUME NEW S \in SUBSET Nat, IsFiniteSet(S), NEW walk \in Walks(S), NEW x \in S
  PROVE  \E k \in DOMAIN walk : walk[k] = x
  <1> DEFINE n == Cardinality(S)
  <1>1. n \in Nat
    BY FS_CardinalityType
  <1>2. walk \in [1..n -> S] /\ \A i, j \in 1..n : i < j => walk[i] < walk[j]
    BY DEF Walks
  <1> HIDE DEF n
  <1>3. walk \in Injection(1..n, S)
    <2> SUFFICES ASSUME NEW i \in 1..n, NEW j \in 1..n, walk[i] = walk[j] PROVE i = j
      BY <1>2 DEF Injection, IsInjective
    <2>1. walk[i] \in Nat /\ walk[j] \in Nat
      BY <1>2
    <2> QED
      BY <1>2, <2>1
  <1>4. Cardinality(1..n) = n
    BY <1>1, FS_Interval
  <1>5. walk \in Surjection(1..n, S)
    BY <1>3, <1>4, FS_Injection DEF n
  <1> QED
    BY <1>2, <1>5 DEF Surjection

LEMMA StrandIdsFinite ==
  ASSUME PermanentIdsInv
  PROVE  IsFiniteSet(strandIds) /\ strandIds \in SUBSET Nat
  <1>1. 0 \in Int /\ permanentTaskIdCounter \in Int /\ strandIds \in SUBSET (0..permanentTaskIdCounter)
    BY DEF PermanentIdsInv
  <1>2. strandIds \in SUBSET Nat
    BY <1>1
  <1> QED
    BY <1>1, <1>2, FS_Interval, FS_Subset

LEMMA DeferDefers ==
  ASSUME PermanentIdsInv, processingPermanents, NEW m \in Modification, Defer(m),
         UNCHANGED <<moved, processingPermanents>>
  PROVE  /\ Defers
         /\ \E i \in DOMAIN deferredTaskModification' : deferredTaskModification'[i] = m
  <1> DEFINE d == deferredTaskModification
  <1>1. d \in Seq(Modification) /\ d' = Append(d, m) /\ UNCHANGED <<permanentTasks, permanentTaskIdCounter>>
    BY DEF PermanentIdsInv, Defer
  <1>2. /\ d' \in Seq(Modification) /\ \A i \in DOMAIN d : i \in DOMAIN d' /\ d'[i] = d[i]
        /\ Len(d) + 1 \in DOMAIN d' /\ d'[Len(d) + 1] = m
    BY <1>1
  <1> QED
    BY <1>1, <1>2 DEF Defers

LEMMA EraseNowErases ==
  ASSUME ~processingPermanents, NEW ids, EraseNow(ids), UNCHANGED <<moved, processingPermanents>>
  PROVE  ErasesAtOnce
  BY DEF EraseNow, ErasesAtOnce

\* One modification of the list, or one erasure at once.
LEMMA RemovesOne ==
  ASSUME PermanentIdsInv, NEW m \in Modification, NEW ids, UNCHANGED <<moved, processingPermanents>>,
         IF processingPermanents THEN Defer(m) ELSE EraseNow(ids)
  PROVE  PermanentsMove
  BY DeferDefers, EraseNowErases DEF PermanentsMove

LEMMA BodyRemoves ==
  ASSUME PermanentIdsInv, NEW within, BodyRemoveAll(within), UNCHANGED <<moved, processingPermanents, strandIds>>
  PROVE  PermanentIdsInv' /\ \A id \in strandIds : Handled(id)'
  <1>1. CASE processingPermanents
    <2> DEFINE kind == IF within THEN "erase" ELSE "notify"
               d == deferredTaskModification
    <2>1. PICK walk \in Walks(strandIds) : d' = d \o [i \in DOMAIN walk |-> Modify(kind, walk[i])]
      BY <1>1 DEF BodyRemoveAll
    <2>2. UNCHANGED <<permanentTasks, permanentTaskIdCounter>>
      BY <1>1 DEF BodyRemoveAll
    <2>3. kind \in {"erase", "notify"} /\ d \in Seq(Modification)
      BY DEF PermanentIdsInv
    <2> DEFINE s == [i \in DOMAIN walk |-> Modify(kind, walk[i])]
    <2>4. Cardinality(strandIds) \in Nat /\ walk \in [1..Cardinality(strandIds) -> strandIds]
      BY StrandIdsFinite, FS_CardinalityType DEF Walks
    <2> HIDE DEF kind, d
    <2>5. \A k \in DOMAIN walk : Modify(kind, walk[k]) \in Modification
      BY <2>3, <2>4, StrandIdsFinite DEF Modify, Modification
    <2>6. s \in Seq(Modification) /\ DOMAIN s = DOMAIN walk /\ \A k \in DOMAIN walk : s[k] = Modify(kind, walk[k])
      BY <2>4, <2>5
    <2> HIDE DEF s
    <2>7. d' \in Seq(Modification) /\ \A i \in DOMAIN d : i \in DOMAIN d' /\ d'[i] = d[i]
      BY <2>1, <2>3, <2>6 DEF s
    <2>8. \A k \in DOMAIN walk : Len(d) + k \in DOMAIN d' /\ d'[Len(d) + k] = s[k]
      BY <2>1, <2>3, <2>6 DEF s
    <2>9. ASSUME NEW id \in strandIds PROVE Handled(id)'
      <3>1. PICK k \in DOMAIN walk : walk[k] = id
        BY StrandIdsFinite, WalkCovers
      <3>2. d'[Len(d) + k].kind \in {"erase", "notify"} /\ d'[Len(d) + k].id = id
        BY <2>3, <2>6, <2>8, <3>1 DEF Modify
      <3>3. Asked(id)'
        BY <2>8, <3>2 DEF Asked, d
      <3> QED
        BY <1>1, <3>3 DEF Handled
    <2>10. Defers
      BY <1>1, <2>2, <2>7 DEF Defers, d
    <2>11. PermanentIdsInv'
      BY <2>10, IdsStay DEF PermanentsMove
    <2> QED
      BY <2>9, <2>11
  <1>2. CASE ~processingPermanents
    <2>1. permanentTasks' = permanentTasks \ strandIds /\ EraseNow(strandIds)
      BY <1>2 DEF BodyRemoveAll, EraseNow
    <2>2. PermanentIdsInv'
      BY <1>2, <2>1, EraseNowErases, IdsStay DEF PermanentsMove
    <2>3. moved' = {}
      BY <1>2 DEF PermanentIdsInv
    <2> QED
      BY <2>1, <2>2, <2>3 DEF Handled
  <1> QED
    BY <1>1, <1>2

Closing ==
    /\ ~finalized /\ finalized' /\ holder = NoClient
    /\ UNCHANGED strandIds
    /\ \E within \in BOOLEAN : BodyRemoveAll(within)

LEMMA StrandCloses ==
  ASSUME RemovalInv, Closing, UNCHANGED <<cpc, holder, sop, left, moved, processingPermanents>>
  PROVE  RemovalInv'
  <1>1. PICK within \in BOOLEAN : BodyRemoveAll(within)
    BY DEF Closing
  <1>2. PermanentIdsInv' /\ \A id \in strandIds : Handled(id)'
    BY <1>1, BodyRemoves DEF Closing, RemovalInv
  <1>3. \A c \in Clients : sop[c] = "none"
    BY StrandAssumption DEF StrandAssumption, Closing, RemovalInv, MutexInv
  <1>4. MutexInv'
    BY <1>3 DEF RemovalInv, MutexInv, Closing, Removing, Pushes
  <1>5. HandledInv'
    BY <1>2 DEF HandledInv, Closing
  <1> QED
    BY <1>2, <1>4, <1>5 DEF RemovalInv

\* What task bodies do, run by the worker or by stop().
AnyBody ==
    \/ (Body \/ BodyOnPermanents(FALSE)) /\ UNCHANGED strandVars
    \/ StrandBody
    \/ StrandDrainBody

\* Anyone's removal of one task, or of all.
LEMMA AnyoneRemoves ==
  ASSUME PermanentIdsInv, UNCHANGED <<moved, processingPermanents>>,
         \/ ClearPermanentTasks
         \/ \E id \in 1..permanentTaskIdCounter, kind \in {"erase", "notify"} :
                IF processingPermanents THEN Defer(Modify(kind, id)) ELSE EraseNow({id})
  PROVE  PermanentsMove
  <1>1. CASE ClearPermanentTasks
    <2>1. Modify("clear", 0) \in Modification
      BY DEF Modify, Modification
    <2> QED
      BY <1>1, <2>1, RemovesOne DEF ClearPermanentTasks
  <1>2. ASSUME NEW id \in 1..permanentTaskIdCounter, NEW kind \in {"erase", "notify"},
               IF processingPermanents THEN Defer(Modify(kind, id)) ELSE EraseNow({id})
        PROVE  PermanentsMove
    <2>1. Modify(kind, id) \in Modification
      BY DEF Modify, Modification, PermanentIdsInv
    <2> QED
      BY <1>2, <2>1, RemovesOne
  <1> QED
    BY <1>1, <1>2

LEMMA BodyRemoval ==
  ASSUME RemovalInv, AnyBody, UNCHANGED <<cpc, moved, processingPermanents>>
  PROVE  RemovalInv'
  <1>1. ASSUME UNCHANGED permVars PROVE PermanentsRest
    BY <1>1 DEF permVars, PermanentsRest
  <1>2. ASSUME InsertPermanent PROVE Registers
    BY <1>2 DEF InsertPermanent, Registers
  <1>3. CASE (Body \/ BodyOnPermanents(FALSE)) /\ UNCHANGED strandVars
    <2>1. PICK within \in BOOLEAN : UNCHANGED permVars \/ BodyOnPermanents(within)
      BY <1>3 DEF Body
    <2>2. CASE UNCHANGED permVars \/ InsertPermanent
      BY <1>1, <1>2, <1>3, <2>2, StrandRests DEF PermanentsMove
    <2>3. CASE BodyRemove(within) \/ BodyClear
      <3>1. PermanentsMove
        BY <2>3, AnyoneRemoves DEF RemovalInv, BodyRemove, BodyClear
      <3> QED
        BY <1>3, <3>1, StrandRests
    <2> QED
      BY <2>1, <2>2, <2>3 DEF BodyOnPermanents, BodyPushPermanent
  <1>4. CASE StrandBody \/ StrandDrainBody
    <2>1. UNCHANGED <<holder, sop, left>> /\ holder = NoClient
      BY <1>4 DEF StrandBody, StrandDrainBody, calls
    <2>2. CASE UNCHANGED <<permVars, finalized, strandIds>> /\ UNCHANGED finalTask
      <3>1. PermanentsRest
        BY <1>1, <2>2
      <3>2. MutexInv' /\ PermanentIdsInv' /\ HandledInv'
        <4>1. UNCHANGED <<finalized, strandIds, holder, sop, left, finalTask, cpc>>
          BY <2>1, <2>2
        <4>2. MutexInv'
          BY <4>1 DEF RemovalInv, MutexInv, Removing, Pushes
        <4>3. \A id \in strandIds : ToRemove(id) => ToRemove(id)'
          BY <4>1 DEF ToRemove, Removing
        <4> QED
          BY <3>1, <4>1, <4>2, <4>3, IdsStay, HandledInvStays DEF RemovalInv, PermanentsMove
      <3> QED
        BY <3>2 DEF RemovalInv
    <2>3. CASE ~finalized /\ BodyStrandPush /\ UNCHANGED <<permVars, finalized, strandIds, finalTask>>
      <3>1. Opens
        BY <1>1, <2>3 DEF Opens
      <3> QED
        BY <2>1, <3>1, StrandOpens
    <2>4. CASE ~finalized /\ BodyStrandPermanent
      <3>1. UNCHANGED <<finalized, finalTask>>
        BY <2>4 DEF BodyStrandPermanent
      <3>2. \/ strandIds' = strandIds \cup {0} /\ PermanentsRest
            \/ Registers /\ strandIds' = strandIds \cup {permanentTaskIdCounter'}
        BY <1>1, <1>2, <2>4 DEF BodyStrandPermanent, Invalid
      <3>3. Opens
        BY <2>4, <3>1, <3>2 DEF Opens
      <3> QED
        BY <2>1, <3>3, StrandOpens
    <2>5. CASE ~finalized /\ (BodyFinal \/ BodyFinalize(FALSE))
      <3>1. Closing
        BY <2>1, <2>5 DEF Closing, BodyFinal, BodyFinalize
      <3> QED
        BY <2>1, <3>1, StrandCloses
    <2> QED
      BY <1>4, <2>2, <2>3, <2>4, <2>5 DEF StrandBody, StrandDrainBody, BodyStrandPush
  <1> QED
    BY <1>3, <1>4 DEF AnyBody

LEMMA WorkerRemoval ==
  ASSUME RemovalInv, StrandWorker
  PROVE  RemovalInv'
  <1>1. CASE /\ WorkerCheck \/ WorkerCycle \/ WorkerTakePermanents \/ WorkerRanPermanent
                \/ WorkerMerge \/ WorkerTake \/ WorkerCatch
             /\ UNCHANGED strandVars
    <2>1. cpc' = cpc /\ (PermanentsRest \/ WorkerMerge)
      BY <1>1 DEF WorkerCheck, WorkerCycle, WorkerTakePermanents, WorkerRanPermanent, WorkerMerge, WorkerTake,
                  WorkerCatch, PermanentsRest, permVars, cliVars
    <2> QED
      BY <1>1, <2>1, StrandRests DEF PermanentsMove
  <1>2. CASE StrandRunPermanent
    <2>1. /\ cpc' = cpc /\ processingPermanents' = processingPermanents
          /\ \/ moved' = {} /\ UNCHANGED permVars /\ UNCHANGED strandVars
             \/ moved' = moved /\ AnyBody
      BY <1>2 DEF StrandRunPermanent, WorkerRunPermanentDoing, AnyBody, cliVars
    <2>2. CASE moved' = {} /\ UNCHANGED permVars /\ UNCHANGED strandVars
      <3>1. PermanentsRest
        BY <2>1, <2>2 DEF PermanentsRest, permVars
      <3> QED
        BY <2>1, <2>2, <3>1, StrandRests DEF PermanentsMove
    <2> QED
      BY <2>1, <2>2, BodyRemoval
  <1>3. CASE StrandRunTask
    <2>1. /\ cpc' = cpc /\ UNCHANGED <<moved, processingPermanents>>
          /\ (UNCHANGED permVars /\ UNCHANGED strandVars) \/ AnyBody
      BY <1>3 DEF StrandRunTask, WorkerRunTaskDoing, AnyBody, cliVars
    <2>2. CASE UNCHANGED permVars /\ UNCHANGED strandVars
      <3>1. PermanentsRest
        BY <2>1, <2>2 DEF PermanentsRest, permVars
      <3> QED
        BY <2>1, <2>2, <3>1, StrandRests DEF PermanentsMove
    <2> QED
      BY <2>1, <2>2, BodyRemoval
  <1> QED
    BY <1>1, <1>2, <1>3 DEF StrandWorker

LEMMA OwnerRemoval ==
  ASSUME RemovalInv, StrandOwner
  PROVE  RemovalInv'
  <1>1. CASE (StartLock \/ StartSpawn \/ StopCall \/ StopLock \/ StopJoin \/ StopReturn) /\ UNCHANGED strandVars
    <2>1. cpc' = cpc /\ PermanentsRest
      BY <1>1 DEF StartLock, StartSpawn, StopCall, StopLock, StopJoin, StopReturn, PermanentsRest, permVars,
                  workVars, cliVars
    <2> QED
      BY <1>1, <2>1, StrandRests DEF PermanentsMove
  <1>2. CASE StrandDrain
    <2>1. /\ cpc' = cpc /\ UNCHANGED <<moved, processingPermanents>>
          /\ (UNCHANGED permVars /\ UNCHANGED strandVars) \/ AnyBody
      BY <1>2 DEF StrandDrain, StopDrainDoing, AnyBody, cliVars, workVars
    <2>2. CASE UNCHANGED permVars /\ UNCHANGED strandVars
      <3>1. PermanentsRest
        BY <2>1, <2>2 DEF PermanentsRest, permVars
      <3> QED
        BY <2>1, <2>2, <3>1, StrandRests DEF PermanentsMove
    <2> QED
      BY <2>1, <2>2, BodyRemoval
  <1> QED
    BY <1>1, <1>2 DEF StrandOwner, StrandStop

\* A client outside the strand.
LEMMA OutsideRemoval ==
  ASSUME RemovalInv, NEW c \in Clients, Outside(c)
  PROVE  RemovalInv'
  <1>1. sop[c] = "none" /\ UNCHANGED strandVars /\ Client(c)
    BY DEF Outside
  <1>2. PermanentsMove
    <2>1. CASE PushPermanentInsert(c)
      BY <2>1 DEF PushPermanentInsert, InsertPermanent, Registers, PermanentsMove, workVars
    <2>2. CASE RemoveReady(c)
      BY <2>2 DEF RemoveReady, PermanentsRest, PermanentsMove, workVars
    <2>3. CASE UNCHANGED <<permVars, workVars>>
      BY <2>3 DEF permVars, workVars, PermanentsRest, PermanentsMove
    <2>4. CASE Remove(c) \/ Clear(c)
      <3>1. UNCHANGED <<moved, processingPermanents>>
        BY <2>4 DEF Remove, RemoveId, Clear, workVars
      <3> QED
        BY <2>4, <3>1, AnyoneRemoves DEF RemovalInv, Remove, RemoveId, Clear
    <2> QED
      BY <1>1, <2>1, <2>2, <2>3, <2>4 DEF Client, Continue, PushCheck, PushBegin, PushPermanentCheck, PushPermanentBegin,
         Await, PushAppend, RemoveTimeout, AwaitRefused, AwaitCheck, AwaitAppend, AwaitReady, AwaitTimeout
  <1>3. UNCHANGED cliVars \/ \E w, x : Call(c, w, x)
    BY <1>1 DEF Client, Continue, PushCheck, PushBegin, PushPermanentCheck, PushPermanentBegin, Remove, RemoveId, Clear,
         Await, PushAppend, PushPermanentInsert, RemoveReady, RemoveTimeout, AwaitRefused, AwaitCheck, AwaitAppend,
         AwaitReady, AwaitTimeout, Return
  <1>4. DOMAIN cpc' = Clients /\ \A d \in Clients : d # c => cpc'[d] = cpc[d]
    BY <1>3 DEF RemovalInv, MutexInv, Call, cliVars
  <1>5. UNCHANGED <<finalized, strandIds, holder, sop, left, finalTask>>
    BY <1>1 DEF strandVars, calls
  <1>6. MutexInv'
    BY <1>1, <1>4, <1>5 DEF RemovalInv, MutexInv, Removing, Pushes
  <1>7. PermanentIdsInv'
    BY <1>2, <1>5, IdsStay DEF RemovalInv
  <1>8. HandledInv'
    <2>1. \A id \in strandIds : ToRemove(id) => ToRemove(id)'
      BY <1>5 DEF ToRemove, Removing
    <2> QED
      BY <1>2, <1>5, <2>1, HandledInvStays DEF RemovalInv
  <1> QED
    BY <1>6, <1>7, <1>8 DEF RemovalInv

LEMMA LockRemoval ==
  ASSUME RemovalInv, NEW c \in Clients, Lock(c)
  PROVE  RemovalInv'
  <1>1. /\ sop[c] = "none" /\ cpc[c] = "idle" /\ holder = NoClient /\ ~finalized /\ holder' = c
        /\ UNCHANGED <<permanentTasks, moved, processingPermanents, deferredTaskModification, permanentTaskIdCounter>>
        /\ UNCHANGED <<cpc, strandIds, finalTask>>
    BY DEF Lock, vars, permVars, workVars, cliVars
  <1>2. PICK op \in StrandOps :
            /\ sop' = [sop EXCEPT ![c] = op] /\ finalized' = (op \in {"final", "sync"})
            /\ left' = [left EXCEPT ![c] = IF finalized' THEN strandIds ELSE {}]
    BY DEF Lock
  <1>3. \A d \in Clients : sop[d] = "none"
    BY <1>1, StrandAssumption DEF StrandAssumption, RemovalInv, MutexInv
  <1>4. /\ DOMAIN sop' = Clients /\ DOMAIN left' = Clients
        /\ sop'[c] = op /\ left'[c] = (IF finalized' THEN strandIds ELSE {})
        /\ \A d \in Clients : d # c => sop'[d] = "none"
    BY <1>2, <1>3 DEF RemovalInv, MutexInv
  <1>5. finalTask = NoTask /\ \A d \in Clients : left'[d] \subseteq strandIds
    BY <1>1, <1>2 DEF RemovalInv, MutexInv
  <1>6. MutexInv'
    BY <1>1, <1>2, <1>4, <1>5 DEF RemovalInv, MutexInv, Removing
  <1>7. PermanentIdsInv'
    BY <1>1 DEF RemovalInv, PermanentIdsInv
  <1>8. HandledInv'
    <2> SUFFICES ASSUME finalized', NEW id \in strandIds PROVE ToRemove(id)'
      BY <1>1 DEF HandledInv
    <2>1. sop'[c] \in {"final", "sync"} /\ left'[c] = strandIds
      BY <1>2, <1>4
    <2> QED
      BY <2>1 DEF ToRemove, Removing
  <1> QED
    BY <1>6, <1>7, <1>8 DEF RemovalInv

\* An operation of the strand other than a removal, and its end.
LEMMA InsideRemoval ==
  ASSUME RemovalInv, NEW c \in Clients, StrandContinue(c), ~StrandRemove(c)
  PROVE  RemovalInv'
  <1>1. sop[c] # "none" /\ holder = c /\ \A d \in Clients : d # c => sop[d] = "none"
    BY DEF StrandContinue, StrandThrows, StrandPush, StrandAppend, StrandPushPermanent, StrandInsert, StrandRefused,
           StrandRemoved, StrandSync, Pushes, RemovalInv, MutexInv
  <1>2. ASSUME StrandPush(c) \/ StrandPushPermanent(c) \/ StrandRemoved(c)
        PROVE  RemovalInv'
    <2>1. UNCHANGED strandVars /\ \E w, x : /\ Call(c, w, x)
                                            /\ w = "append" => Pushes(c)
                                            /\ w = "appendPermanent" => sop[c] = "permanent"
      BY <1>2 DEF StrandPush, PushBegin, StrandPushPermanent, PushPermanentBegin, StrandRemoved, RemoveReady,
                  RemoveTimeout, Return
    <2>2. PermanentsRest
      BY <1>2 DEF StrandPush, PushBegin, StrandPushPermanent, PushPermanentBegin, StrandRemoved, RemoveReady,
                  RemoveTimeout, PermanentsRest, permVars, workVars
    <2>3. UNCHANGED <<finalized, strandIds, holder, sop, left, finalTask>>
      BY <2>1 DEF strandVars, calls
    <2>4. \A id \in strandIds : ToRemove(id) => ToRemove(id)'
      BY <2>3 DEF ToRemove, Removing
    <2>5. MutexInv'
      BY <1>1, <2>1, <2>3 DEF RemovalInv, MutexInv, Removing, Pushes, Call
    <2>6. PermanentIdsInv' /\ HandledInv'
      BY <2>2, <2>3, <2>4, IdsStay, HandledInvStays DEF RemovalInv, PermanentsMove
    <2> QED
      BY <2>5, <2>6 DEF RemovalInv
  <1>3. ASSUME StrandAppend(c) \/ StrandInsert(c) \/ StrandRefused(c) \/ StrandSync(c) \/ StrandThrows(c)
        PROVE  RemovalInv'
    <2>1. ~Removing(c)
      BY <1>3 DEF StrandAppend, PushAppend, StrandInsert, PushPermanentInsert, StrandRefused, StrandSync, StrandThrows,
                  Pushes, Removing, RemovalInv, MutexInv
    <2>2. holder' = NoClient /\ sop' = [sop EXCEPT ![c] = "none"] /\ UNCHANGED <<left, finalized>>
      BY <1>3 DEF StrandAppend, StrandInsert, StrandRefused, StrandSync, StrandThrows, Unlock
    <2>3. DOMAIN sop' = Clients /\ \A d \in Clients : sop'[d] = "none"
      BY <1>1, <2>2 DEF RemovalInv, MutexInv
    <2>4. \A d \in Clients : ~Removing(d)' /\ ~Removing(d)
      BY <1>1, <2>1, <2>3 DEF Removing
    <2>5. \/ PermanentsRest /\ strandIds' = strandIds
          \/ ~finalized /\ PermanentsRest /\ strandIds' = strandIds \cup {0}
          \/ ~finalized /\ Registers /\ strandIds' = strandIds \cup {permanentTaskIdCounter'}
      <3>1. CASE StrandAppend(c) \/ StrandSync(c) \/ StrandThrows(c)
        BY <3>1 DEF StrandAppend, PushAppend, StrandSync, StrandThrows, PermanentsRest, permVars, workVars, vars
      <3>2. CASE StrandInsert(c)
        <4>1. sop[c] = "permanent" /\ ~finalized
          BY <1>1, <3>2 DEF StrandInsert, PushPermanentInsert, RemovalInv, MutexInv
        <4> QED
          BY <3>2, <4>1 DEF StrandInsert, PushPermanentInsert, InsertPermanent, Registers, workVars
      <3>3. CASE StrandRefused(c)
        <4>1. PermanentsRest
          BY <3>3 DEF StrandRefused, PermanentsRest, permVars, workVars, vars
        <4>2. sop[c] = "permanent" => ~finalized
          BY DEF RemovalInv, MutexInv
        <4> QED
          BY <3>3, <4>1, <4>2 DEF StrandRefused, Invalid
      <3> QED
        BY <1>3, <3>1, <3>2, <3>3
    <2>6. DOMAIN cpc' = Clients
      BY <1>3 DEF StrandAppend, PushAppend, StrandInsert, PushPermanentInsert, StrandRefused, StrandSync, StrandThrows,
                  Return, Call, vars, cliVars, RemovalInv, MutexInv
    <2>7. finalTask' = finalTask \/ finalized
      BY <1>3 DEF StrandAppend, StrandInsert, StrandRefused, StrandSync, StrandThrows, RemovalInv, MutexInv
    <2>8. strandIds \subseteq strandIds'
      BY <2>5
    <2>9. MutexInv'
      BY <2>2, <2>3, <2>4, <2>6, <2>7, <2>8 DEF RemovalInv, MutexInv
    <2>10. PermanentIdsInv'
      BY <2>5, IdsStay DEF RemovalInv, PermanentsMove
    <2>11. HandledInv'
      <3>1. CASE ~finalized
        BY <2>2, <3>1 DEF HandledInv
      <3>2. CASE finalized
        <4>1. \A id \in strandIds : ~ToRemove(id)
          BY <2>4 DEF ToRemove
        <4> QED
          BY <2>2, <2>5, <3>2, <4>1, HandledInvStays DEF RemovalInv, PermanentsMove
      <3> QED
        BY <3>1, <3>2
    <2> QED
      BY <2>9, <2>10, <2>11 DEF RemovalInv
  <1> QED
    BY <1>2, <1>3 DEF StrandContinue

LEMMA LeastNat ==
  ASSUME NEW S \in SUBSET Nat, S # {}
  PROVE  \E n \in S : \A k \in S : n <= k
  <1>1. IsWellFoundedOn(OpToRel(<, Nat), Nat)
    BY NatLessThanWellFounded
  <1>2. PICK n \in S : \A k \in S : ~(<<k, n>> \in OpToRel(<, Nat))
    BY <1>1, WFMin
  <1>3. ASSUME NEW k \in S PROVE n <= k
    <2>1. k \in Nat /\ n \in Nat /\ ~(k < n)
      BY <1>2, <1>3 DEF OpToRel
    <2> QED
      BY <2>1
  <1> QED
    BY <1>3

LEMMA RemoveRemoval ==
  ASSUME RemovalInv, NEW c \in Clients, StrandRemove(c)
  PROVE  RemovalInv'
  <1>1. /\ Removing(c) /\ RemoveId(c, Next1(left[c])) /\ left' = [left EXCEPT ![c] = @ \ {Next1(left[c])}]
        /\ UNCHANGED <<finalized, strandIds, holder, sop, finalTask>>
        /\ UNCHANGED <<moved, processingPermanents>>
    BY DEF StrandRemove, Removing, RemoveId, workVars
  <1>2. left[c] \in SUBSET Nat /\ left[c] # {} /\ left[c] \subseteq strandIds
    BY <1>1, StrandIdsFinite DEF RemovalInv, MutexInv, Removing
  <1>3. PICK id \in left[c] : id = Next1(left[c])
    <2>1. PICK x \in left[c] : \A y \in left[c] : x <= y
      BY <1>2, LeastNat
    <2>2. Next1(left[c]) \in left[c]
      BY <2>1 DEF Next1
    <2> QED
      BY <2>2
  <1> DEFINE m == Modify("notify", id)
  <1>4. /\ IF processingPermanents THEN Defer(m) ELSE EraseNow({id})
        /\ UNCHANGED cpc \/ Call(c, "removal", Len(deferredTaskModification) + 1)
    BY <1>1, <1>3 DEF RemoveId, cliVars
  <1>5. id \in strandIds /\ m \in Modification
    BY <1>2 DEF Modify, Modification
  <1>6. m.kind = "notify" /\ m.id = id
    BY DEF Modify
  <1> HIDE DEF m
  <1>7. PermanentsMove
    BY <1>1, <1>4, <1>5, RemovesOne DEF RemovalInv
  <1>8. DOMAIN left' = Clients /\ left'[c] = left[c] \ {id} /\ \A d \in Clients : d # c => left'[d] = left[d]
    BY <1>1, <1>3 DEF RemovalInv, MutexInv
  <1>9. DOMAIN cpc' = Clients /\ cpc'[c] \in {cpc[c], "removal"} /\ \A d \in Clients : d # c => cpc'[d] = cpc[d]
    BY <1>4 DEF RemovalInv, MutexInv, Call
  <1>10. finalized /\ finalTask = NoTask /\ \A d \in Clients : d # c => sop[d] = "none"
    BY <1>1 DEF RemovalInv, MutexInv, Removing
  <1>11. MutexInv'
    BY <1>1, <1>8, <1>9, <1>10 DEF RemovalInv, MutexInv, Removing, Pushes
  <1>12. PermanentIdsInv'
    BY <1>1, <1>7, IdsStay DEF RemovalInv
  <1>13. Handled(id)'
    <2>1. CASE processingPermanents
      <3>1. \E i \in DOMAIN deferredTaskModification' : deferredTaskModification'[i] = m
        BY <1>1, <1>4, <1>5, <2>1, DeferDefers DEF RemovalInv
      <3>2. Asked(id)'
        BY <1>6, <3>1 DEF Asked
      <3> QED
        BY <1>1, <2>1, <3>2 DEF Handled
    <2>2. CASE ~processingPermanents
      <3>1. moved' = {} /\ id \notin permanentTasks'
        BY <1>1, <1>4, <2>2 DEF RemovalInv, PermanentIdsInv, EraseNow
      <3> QED
        BY <3>1 DEF Handled
    <2> QED
      BY <2>1, <2>2
  <1>14. HandledInv'
    <2> SUFFICES ASSUME NEW x \in strandIds PROVE ToRemove(x)' \/ Handled(x)'
      BY <1>1 DEF HandledInv
    <2>1. CASE ToRemove(x) /\ x # id
      <3>1. Removing(c)' /\ x \in left'[c]
        BY <1>1, <1>8, <1>10, <2>1 DEF ToRemove, Removing
      <3> QED
        BY <3>1 DEF ToRemove
    <2>2. CASE Handled(x)
      BY <1>7, <2>2, HandledStays DEF RemovalInv
    <2> QED
      BY <1>10, <1>13, <2>1, <2>2 DEF RemovalInv, HandledInv
  <1> QED
    BY <1>11, <1>12, <1>14 DEF RemovalInv

LEMMA RemovalInit == StrandInit => RemovalInv
  <1> SUFFICES ASSUME StrandInit PROVE RemovalInv
    OBVIOUS
  <1>1. Init /\ sop = [c \in Clients |-> "none"] /\ left = [c \in Clients |-> {}] /\ finalTask = NoTask
        /\ strandIds = {} /\ finalized = FALSE
    BY DEF StrandInit
  <1> QED
    BY <1>1 DEF Init, RemovalInv, MutexInv, PermanentIdsInv, HandledInv, Removing

LEMMA RemovalStep ==
  ASSUME RemovalInv, [StrandNext]_allVars
  PROVE  RemovalInv'
  <1>1. CASE UNCHANGED allVars
    <2>1. PermanentsRest /\ UNCHANGED <<cpc, strandVars>>
      BY <1>1 DEF allVars, vars, permVars, workVars, cliVars, PermanentsRest
    <2> QED
      BY <2>1, StrandRests DEF PermanentsMove
  <1>2. CASE StrandWorker
    BY <1>2, WorkerRemoval
  <1>3. CASE StrandOwner
    BY <1>3, OwnerRemoval
  <1>4. ASSUME NEW c \in Clients, Lock(c) \/ StrandContinue(c) \/ Outside(c) PROVE RemovalInv'
    BY <1>4, LockRemoval, InsideRemoval, RemoveRemoval, OutsideRemoval
  <1> QED
    BY <1>1, <1>2, <1>3, <1>4 DEF StrandNext

(* close() removes the permanent tasks of its strand: whatever other        *)
(* strands and tasks do with theirs, once the strand's final task is queued *)
(* none of its tasks is registered outside a cycle, unless its removal is   *)
(* behind a promise that was set before, over every start, stop, throw and  *)
(* refusal.                                                                 *)
THEOREM CloseRemovesPermanentTasks == StrandSpec => []FinalTaskRemovesUnlessCutOff
  <1>1. RemovalInv => FinalTaskRemovesUnlessCutOff
    <2> SUFFICES ASSUME RemovalInv, finalTask # NoTask, ~processingPermanents, NEW id \in strandIds \cap permanentTasks
                 PROVE  CutOff(id)
      BY DEF FinalTaskRemovesUnlessCutOff
    <2>1. finalized /\ ~ToRemove(id)
      BY DEF RemovalInv, MutexInv, ToRemove
    <2> QED
      BY <2>1 DEF RemovalInv, HandledInv, Handled
  <1>2. RemovalInv /\ [StrandNext]_allVars => RemovalInv'
    BY RemovalStep
  <1> QED
    BY <1>1, <1>2, RemovalInit, PTL DEF StrandSpec
=============================================================================
