------------------------- MODULE OperationCardsProofs -------------------------
(***************************************************************************)
(* The safety properties of the backend's transfer queue, and of the cards  *)
(* and the pause button of the frontend against it, for any number of       *)
(* operations, any concurrency, any throttle and any calls, clicks and      *)
(* messages on their way.                                                   *)
(*                                                                          *)
(* A round of work changes at most the states of the first operations and   *)
(* then drops one of them: WorkShape says so once, and the queue's          *)
(* invariants only look at that.                                            *)
(*                                                                          *)
(* For the cards, what the strand does to the queue is looked at only as    *)
(* far as the page can see it: QueueMoveShape.  The invariants then relate  *)
(* the cards to the queue through the messages the page has not received    *)
(* yet.                                                                     *)
(***************************************************************************)
EXTENDS OperationCards, FiniteSetTheorems, SequenceTheorems, TLAPS

LEMMA WithoutProperties ==
  ASSUME NEW S, NEW s \in Seq(S), NEW n \in 1..Len(s)
  PROVE  /\ Without(s, n) \in Seq(S)
         /\ Len(Without(s, n)) = Len(s) - 1
         /\ \A i \in 1..(Len(s) - 1) : Without(s, n)[i] = s[IF i < n THEN i ELSE i + 1]
  <1> DEFINE a == SubSeq(s, 1, n - 1)
             b == SubSeq(s, n + 1, Len(s))
  <1>1. Len(s) \in Nat /\ n \in Nat /\ 1 <= n /\ n <= Len(s) /\ \A i \in 1..Len(s) : s[i] \in S
    BY LenProperties, ElementOfSeq
  <1>2. /\ a \in Seq(S) /\ Len(a) = n - 1
        /\ \A i \in 1..(n - 1) : a[i] = s[i]
    <2>1. \A i \in 1..(n - 1) : s[i] \in S
      BY <1>1
    <2>2. /\ a \in Seq(S) /\ Len(a) = IF 1 <= n - 1 THEN (n - 1) - 1 + 1 ELSE 0
          /\ \A i \in 1..((n - 1) - 1 + 1) : a[i] = s[1 + i - 1]
      BY <1>1, <2>1, SubSeqProperties
    <2> HIDE DEF a
    <2>3. Len(a) = n - 1
      BY <1>1, <2>2
    <2>4. ASSUME NEW i \in 1..(n - 1) PROVE a[i] = s[i]
      <3>1. a[i] = s[1 + i - 1] /\ 1 + i - 1 = i
        BY <1>1, <2>2
      <3> QED
        BY <3>1
    <2> QED
      BY <2>2, <2>3, <2>4
  <1>3. /\ b \in Seq(S) /\ Len(b) = Len(s) - n
        /\ \A i \in 1..(Len(s) - n) : b[i] = s[n + i]
    <2>1. \A i \in (n + 1)..Len(s) : s[i] \in S
      BY <1>1
    <2>2. /\ b \in Seq(S) /\ Len(b) = IF n + 1 <= Len(s) THEN Len(s) - (n + 1) + 1 ELSE 0
          /\ \A i \in 1..(Len(s) - (n + 1) + 1) : b[i] = s[n + 1 + i - 1]
      BY <1>1, <2>1, SubSeqProperties
    <2> HIDE DEF b
    <2>3. Len(b) = Len(s) - n
      BY <1>1, <2>2
    <2>4. ASSUME NEW i \in 1..(Len(s) - n) PROVE b[i] = s[n + i]
      <3>1. b[i] = s[n + 1 + i - 1] /\ n + 1 + i - 1 = n + i
        BY <1>1, <2>2
      <3> QED
        BY <3>1
    <2> QED
      BY <2>2, <2>3, <2>4
  <1> HIDE DEF a, b
  <1>4. /\ a \o b \in Seq(S) /\ Len(a \o b) = Len(a) + Len(b)
        /\ \A i \in 1..(Len(a) + Len(b)) : (a \o b)[i] = IF i <= Len(a) THEN a[i] ELSE b[i - Len(a)]
    BY <1>2, <1>3, ConcatProperties
  <1>5. ASSUME NEW i \in 1..(Len(s) - 1)
        PROVE  (a \o b)[i] = s[IF i < n THEN i ELSE i + 1]
    <2>1. CASE i < n
      <3>1. i \in 1..(n - 1) /\ i <= Len(a) /\ i \in 1..(Len(a) + Len(b))
        BY <1>1, <1>2, <1>3, <2>1
      <3>2. (a \o b)[i] = a[i] /\ a[i] = s[i]
        BY <1>2, <1>4, <3>1
      <3> QED
        BY <2>1, <3>2
    <2>2. CASE ~(i < n)
      <3>1. /\ i - Len(a) \in 1..(Len(s) - n) /\ ~(i <= Len(a)) /\ i \in 1..(Len(a) + Len(b))
            /\ n + (i - Len(a)) = i + 1
        BY <1>1, <1>2, <1>3, <2>2
      <3>2. (a \o b)[i] = b[i - Len(a)] /\ b[i - Len(a)] = s[n + (i - Len(a))]
        BY <1>3, <1>4, <3>1
      <3> QED
        BY <2>2, <3>1, <3>2
    <2> QED
      BY <2>1, <2>2
  <1>6. Len(a \o b) = Len(s) - 1
    BY <1>1, <1>2, <1>3, <1>4
  <1> QED
    BY <1>4, <1>5, <1>6 DEF Without, a, b

\* pop_front() is the removal of the first.
LEMMA TailIsWithout ==
  ASSUME NEW S, NEW s \in Seq(S), s # <<>>
  PROVE  /\ 1 \in 1..Len(s)
         /\ Tail(s) = Without(s, 1)
  <1>1. Len(s) \in Nat \ {0}
    BY EmptySeq
  <1>2. /\ Without(s, 1) \in Seq(S)
        /\ Len(Without(s, 1)) = Len(s) - 1
        /\ \A i \in 1..(Len(s) - 1) : Without(s, 1)[i] = s[IF i < 1 THEN i ELSE i + 1]
    BY <1>1, WithoutProperties
  <1>3. Tail(s) \in Seq(S) /\ Len(Tail(s)) = Len(s) - 1 /\ \A i \in 1..(Len(s) - 1) : Tail(s)[i] = s[i + 1]
    BY HeadTailProperties
  <1>4. \A i \in 1..(Len(s) - 1) : Without(s, 1)[i] = s[i + 1]
    BY <1>1, <1>2
  <1>5. \A i \in 1..Len(Tail(s)) : Tail(s)[i] = Without(s, 1)[i]
    BY <1>3, <1>4
  <1>6. Tail(s) = Without(s, 1)
    BY <1>2, <1>3, <1>5, SeqEqual
  <1> QED
    BY <1>1, <1>6

-----------------------------------------------------------------------------
(***************************************************************************)
(* The inductive invariant.  The queue is in the order of the ids, which    *)
(* is what makes the bulk download stand behind its scan, and nothing is    *)
(* known of an id that was not given out.                                   *)
(***************************************************************************)
OrderedById(s) == \A i, j \in DOMAIN s : i < j => s[i].id < s[j].id

IdsAreGiven ==
    /\ \A i \in DOMAIN operations : operations[i].id \in 1..created
    /\ \A i \in DOMAIN events : events[i].of \in 0..created

WaitsIn(s, done) ==
    \A i \in DOMAIN s :
        s[i].kind = "Scan" /\ ~Finished(s[i]) =>
            /\ s[i].id + 1 \notin done
            /\ \A j \in DOMAIN s : s[j].id = s[i].id + 1 => s[j].state = "NotStarted"

QueueInv ==
    /\ QueueTypeOK
    /\ OrderedById(operations)
    /\ IdsAreGiven
    /\ WaitsIn(operations, Reported("Completed"))

LEMMA WaitsIsBulkWaits == WaitsIn(operations, Reported("Completed")) <=> BulkWaitsForScan
  BY DEF WaitsIn, BulkWaitsForScan

\* A queue is ordered and its bulk downloads wait after one is dropped.
LEMMA DropKeeps ==
  ASSUME NEW s \in Seq(Operation), NEW n \in 1..Len(s), OrderedById(s)
  PROVE  /\ OrderedById(Without(s, n))
         /\ \A done : WaitsIn(s, done) => WaitsIn(Without(s, n), done)
         /\ \A i \in DOMAIN Without(s, n) : \E k \in DOMAIN s : k # n /\ Without(s, n)[i] = s[k]
  <1> DEFINE w == Without(s, n)
             at(i) == IF i < n THEN i ELSE i + 1
  <1>1. /\ w \in Seq(Operation) /\ Len(w) = Len(s) - 1 /\ DOMAIN w = 1..(Len(s) - 1)
        /\ DOMAIN s = 1..Len(s) /\ Len(s) \in Nat /\ n \in Nat
        /\ \A i \in 1..(Len(s) - 1) : w[i] = s[at(i)]
    BY WithoutProperties, LenProperties
  <1>2. \A i \in 1..(Len(s) - 1) : at(i) \in 1..Len(s) /\ at(i) # n
    BY <1>1
  <1>3. \A i, j \in 1..(Len(s) - 1) : i < j => at(i) < at(j)
    BY <1>1
  <1> HIDE DEF w, at
  <1>4. OrderedById(w)
    BY <1>1, <1>2, <1>3 DEF OrderedById
  <1>5. ASSUME NEW done, WaitsIn(s, done) PROVE WaitsIn(w, done)
    <2> SUFFICES ASSUME NEW i \in DOMAIN w, w[i].kind = "Scan" /\ ~Finished(w[i])
                 PROVE  /\ w[i].id + 1 \notin done
                        /\ \A j \in DOMAIN w : w[j].id = w[i].id + 1 => w[j].state = "NotStarted"
      BY DEF WaitsIn
    <2>1. /\ s[at(i)].id + 1 \notin done
          /\ \A j \in DOMAIN s : s[j].id = s[at(i)].id + 1 => s[j].state = "NotStarted"
      BY <1>1, <1>2, <1>5 DEF WaitsIn
    <2>2. \A j \in DOMAIN w : w[j] = s[at(j)] /\ at(j) \in DOMAIN s
      BY <1>1, <1>2
    <2> QED
      BY <2>1, <2>2
  <1>6. \A i \in DOMAIN w : \E k \in DOMAIN s : k # n /\ w[i] = s[k]
    BY <1>1, <1>2
  <1> QED
    BY <1>4, <1>5, <1>6 DEF w

-----------------------------------------------------------------------------
(* One round of work. *)

\* The queue with states that may have changed.
SameOperations(s) ==
    /\ s \in Seq(Operation) /\ Len(s) = Len(operations)
    /\ \A i \in 1..Len(operations) :
          /\ s[i].id = operations[i].id /\ s[i].kind = operations[i].kind
          /\ Finished(operations[i]) => Finished(s[i])

\* The round got to the n-th operation, past no scan.
RoundTo(s, n) ==
    /\ SameOperations(s)
    /\ n \in 1..Len(operations) /\ n <= parallelism
    /\ \A i \in 1..(n - 1) : operations[i].kind # "Scan"
    /\ \A i \in (n + 1)..Len(operations) : s[i].state = operations[i].state

Report(what, n) == events' = Append(events, [what |-> what, of |-> operations[n].id])

LEMMA WorkedOnType ==
  ASSUME NEW op \in Operation, GoesOn(op)
  PROVE  /\ WorkedOn(op) \in Operation
         /\ WorkedOn(op).id = op.id /\ WorkedOn(op).kind = op.kind
         /\ ~Finished(op)
  <1>1. ~Finished(op) /\ (OnlyStarts(op) \/ op.left # 0)
    BY DEF GoesOn, Ends
  <1>2. op.left \in 0..MaxWork /\ MaxWork \in Nat
    BY QueueAssumption DEF QueueAssumption, Operation
  <1>3. (IF OnlyStarts(op) THEN op.left ELSE op.left - 1) \in 0..MaxWork
    BY <1>1, <1>2
  <1>4. WorkedOn(op) = [op EXCEPT !.state = "Running",
                                  !.left = IF OnlyStarts(op) THEN op.left ELSE op.left - 1]
    BY DEF WorkedOn
  <1> DEFINE left == IF OnlyStarts(op) THEN op.left ELSE op.left - 1
  <1> HIDE DEF left
  <1>5. WorkedOn(op) \in Operation /\ WorkedOn(op).id = op.id /\ WorkedOn(op).kind = op.kind
    BY <1>3, <1>4 DEF Operation, States, left
  <1> QED
    BY <1>1, <1>5

LEMMA AfterRoundProperties ==
  ASSUME QueueTypeOK, NEW n \in 1..UpdateCount, Reaches(n), NEW op \in Operation,
         op.id = operations[n].id, op.kind = operations[n].kind,
         Finished(operations[n]) => Finished(op)
  PROVE  /\ RoundTo(AfterRound(n, op), n)
         /\ AfterRound(n, op)[n] = op
         /\ \A i \in (n + 1)..Len(operations) : AfterRound(n, op)[i] = operations[i]
  <1> DEFINE s == AfterRound(n, op)
  <1>1. /\ operations \in Seq(Operation) /\ Len(operations) \in Nat
        /\ DOMAIN operations = 1..Len(operations)
        /\ \A i \in 1..Len(operations) : operations[i] \in Operation
    BY LenProperties, ElementOfSeq DEF QueueTypeOK
  <1>2. n \in 1..Len(operations) /\ n <= parallelism /\ parallelism \in Nat
    BY <1>1, QueueAssumption DEF UpdateCount, QueueTypeOK, QueueAssumption
  <1>3. \A i \in 1..(n - 1) : GoesOn(operations[i]) /\ operations[i].kind # "Scan"
    BY DEF Reaches, IsBarrier
  <1>4. /\ DOMAIN s = 1..Len(operations)
        /\ \A i \in 1..(n - 1) : s[i] = WorkedOn(operations[i])
        /\ s[n] = op
        /\ \A i \in (n + 1)..Len(operations) : s[i] = operations[i]
    BY <1>1, <1>2 DEF AfterRound
  <1>5. ASSUME NEW i \in 1..Len(operations)
        PROVE  /\ s[i] \in Operation
               /\ s[i].id = operations[i].id /\ s[i].kind = operations[i].kind
               /\ Finished(operations[i]) => Finished(s[i])
    <2>1. CASE i \in 1..(n - 1)
      BY <1>1, <1>3, <1>4, <2>1, WorkedOnType
    <2>2. CASE i = n
      BY <1>4, <2>2
    <2>3. CASE i \in (n + 1)..Len(operations)
      BY <1>1, <1>4, <2>3
    <2> QED
      BY <1>1, <1>2, <2>1, <2>2, <2>3
  <1>6. s = [i \in 1..Len(operations) |-> s[i]]
    BY <1>1 DEF AfterRound
  <1>7. s \in Seq(Operation) /\ Len(s) = Len(operations)
    <2> HIDE DEF s
    <2> QED
      BY <1>1, <1>4, <1>5, <1>6
  <1> HIDE DEF s
  <1>8. RoundTo(s, n)
    BY <1>2, <1>3, <1>4, <1>5, <1>7 DEF RoundTo, SameOperations
  <1> QED
    BY <1>4, <1>8 DEF s

\* setScanResult() changes no id, no kind and no state.
LEMMA ScanResultProperties ==
  ASSUME QueueTypeOK, NEW s, NEW n, RoundTo(s, n)
  PROVE  /\ RoundTo(SetScanResult(s, n), n)
         /\ \A i \in 1..Len(operations) : SetScanResult(s, n)[i].state = s[i].state
  <1> DEFINE r == SetScanResult(s, n)
  <1>1. /\ s \in Seq(Operation) /\ Len(s) = Len(operations) /\ Len(s) \in Nat /\ DOMAIN s = 1..Len(s)
        /\ n \in 1..Len(s)
        /\ \A i \in 1..Len(s) : s[i] \in Operation
    BY LenProperties, ElementOfSeq DEF RoundTo, SameOperations
  <1>2. ASSUME NEW i \in 1..Len(s)
        PROVE  /\ r[i] \in Operation
               /\ r[i].id = s[i].id /\ r[i].kind = s[i].kind /\ r[i].state = s[i].state
    <2>1. r[i] = s[i] \/ r[i] = [s[i] EXCEPT !.scan = s[n].id]
      BY <1>1 DEF SetScanResult
    <2>2. s[i] \in Operation /\ s[n] \in Operation
      BY <1>1
    <2> QED
      BY <2>1, <2>2 DEF Operation
  <1>3. r = [i \in 1..Len(s) |-> r[i]]
    BY <1>1 DEF SetScanResult
  <1>4. r \in Seq(Operation) /\ Len(r) = Len(s)
    <2> HIDE DEF r
    <2> QED
      BY <1>1, <1>2, <1>3
  <1> HIDE DEF r
  <1>5. RoundTo(r, n)
    BY <1>1, <1>2, <1>4 DEF RoundTo, SameOperations, Finished
  <1> QED
    BY <1>1, <1>2, <1>5 DEF r

\* What a round does: it works on the first operations, and drops the one
\* that failed, or the first one when one of them completed.
WorkShape ==
    \E s, n :
        /\ RoundTo(s, n)
        /\ \/ operations' = s /\ UNCHANGED events
           \/ operations' = Without(s, n) /\ Report("Failed", n)
           \/ operations' = Without(s, 1) /\ Report("Completed", n)

LEMMA WorkHasShape == QueueTypeOK /\ Work => WorkShape
  <1> SUFFICES ASSUME QueueTypeOK, Work PROVE WorkShape
    OBVIOUS
  <1>1. PICK n \in 1..UpdateCount : Reaches(n) /\ (WorkFails(n) \/ WorkCompletes(n) \/ WorkGoesOn(n))
    BY DEF Work
  <1>2. n \in 1..Len(operations)
    BY LenProperties, QueueAssumption DEF UpdateCount, QueueTypeOK, QueueAssumption
  <1>3. operations[n] \in Operation
    BY <1>2, ElementOfSeq DEF QueueTypeOK
  <1>4. CASE WorkFails(n)
    <2>1. RoundTo(AfterRound(n, operations[n]), n)
      BY <1>1, <1>3, AfterRoundProperties
    <2>2. operations' = Without(AfterRound(n, operations[n]), n) /\ Report("Failed", n)
      BY <1>4 DEF WorkFails, Report
    <2> QED
      BY <2>1, <2>2 DEF WorkShape
  <1>5. CASE WorkCompletes(n)
    <2> DEFINE op == [operations[n] EXCEPT !.state = "Completed"]
               s == SetScanResult(AfterRound(n, op), n)
    <2>1. op \in Operation /\ op.id = operations[n].id /\ op.kind = operations[n].kind /\ Finished(op)
      BY <1>3 DEF Operation, States, Finished
    <2>2. RoundTo(AfterRound(n, op), n)
      <3> HIDE DEF op
      <3> QED
        BY <1>1, <2>1, AfterRoundProperties
    <2>3. RoundTo(s, n)
      <3> HIDE DEF op
      <3> QED
        BY <2>2, ScanResultProperties
    <2>4. operations' = Tail(s) /\ Report("Completed", n)
      BY <1>5 DEF WorkCompletes, Report
    <2> HIDE DEF s
    <2>5. s \in Seq(Operation) /\ s # <<>>
      <3>1. s \in Seq(Operation) /\ Len(s) = Len(operations) /\ n \in 1..Len(operations) /\ Len(operations) \in Nat
        BY <2>3, LenProperties DEF RoundTo, SameOperations, QueueTypeOK
      <3> QED
        BY <3>1, EmptySeq
    <2>6. Tail(s) = Without(s, 1)
      BY <2>5, TailIsWithout
    <2> QED
      BY <2>3, <2>4, <2>6 DEF WorkShape
  <1>6. CASE WorkGoesOn(n)
    <2>1. WorkedOn(operations[n]) \in Operation /\ WorkedOn(operations[n]).id = operations[n].id
          /\ WorkedOn(operations[n]).kind = operations[n].kind /\ ~Finished(operations[n])
      BY <1>3, <1>6, WorkedOnType DEF WorkGoesOn
    <2>2. RoundTo(AfterRound(n, WorkedOn(operations[n])), n)
      BY <1>1, <2>1, AfterRoundProperties
    <2>3. operations' = AfterRound(n, WorkedOn(operations[n])) /\ UNCHANGED events
      BY <1>6 DEF WorkGoesOn
    <2> QED
      BY <2>2, <2>3 DEF WorkShape
  <1> QED
    BY <1>1, <1>4, <1>5, <1>6

-----------------------------------------------------------------------------
(* Types.  First what is queued and what is sent to the frontend. *)

LEMMA EventAppended ==
  ASSUME QueueTypeOK, NEW e \in Event, events' = Append(events, e)
  PROVE  /\ events' \in Seq(Event)
         /\ DOMAIN events' = 1..(Len(events) + 1) /\ DOMAIN events = 1..Len(events) /\ Len(events) \in Nat
         /\ \A i \in 1..Len(events) : events'[i] = events[i]
         /\ events'[Len(events) + 1] = e
         /\ \A what : Reported(what)' = Reported(what) \cup (IF e.what = what THEN {e.of} ELSE {})
  <1>1. events \in Seq(Event) /\ DOMAIN events = 1..Len(events) /\ Len(events) \in Nat
    BY LenProperties DEF QueueTypeOK
  <1>2. events' \in Seq(Event) /\ Len(events') = Len(events) + 1
        /\ (\A i \in 1..Len(events) : events'[i] = events[i])
        /\ events'[Len(events) + 1] = e
    BY <1>1, AppendProperties
  <1>3. DOMAIN events' = 1..(Len(events) + 1)
    BY <1>2, LenProperties
  <1>4. ASSUME NEW what
        PROVE  Reported(what)' = Reported(what) \cup (IF e.what = what THEN {e.of} ELSE {})
    <2>1. DOMAIN events' = DOMAIN events \cup {Len(events) + 1}
      BY <1>1, <1>3
    <2> QED
      BY <1>1, <1>2, <2>1 DEF Reported
  <1> QED
    BY <1>1, <1>2, <1>3, <1>4

LEMMA ReportIsEvent ==
  ASSUME QueueTypeOK, NEW n \in 1..Len(operations), NEW what \in Reports
  PROVE  [what |-> what, of |-> operations[n].id] \in Event
  <1>1. operations[n] \in Operation
    BY ElementOfSeq DEF QueueTypeOK
  <1> QED
    BY <1>1 DEF Event, Operation, Reports

LEMMA NewIsOperation ==
  ASSUME NEW id \in Ids, NEW kind \in Kinds, NEW n \in 0..MaxWork
  PROVE  New(id, kind, n) \in Operation
  BY DEF New, Operation, States

\* What can happen to the queue, whoever makes the calls: what is proved of
\* these steps holds in the modules that make calls of their own.
AddsFile == \E n \in 0..MaxWork : AddFile(n)
AddsDirectory == \E s \in 1..MaxWork, b \in 0..MaxWork : AddDirectory(s, b)
Cancels == \E id \in 1..created : Cancel(id)
Pauses == \E p \in BOOLEAN : PauseUnpause(p)

QueueMove ==
    /\ UNCHANGED parallelism
    /\ \/ Loop
       \/ AddsFile \/ AddsDirectory \/ Cancels \/ CancelAll \/ Pauses \/ IsPaused \/ Disconnect

LEMMA NextMoves == QueueNext => QueueMove
  <1>1. CallFile => AddsFile
    BY DEF CallFile, AddsFile
  <1>2. CallDirectory => AddsDirectory
    BY DEF CallDirectory, AddsDirectory
  <1>3. CallCancel => Cancels
    BY DEF CallCancel, Cancels
  <1>4. CallPause => Pauses
    BY DEF CallPause, Pauses
  <1>5. (CallCancelAll => CancelAll) /\ (CallDisconnect => Disconnect)
    BY DEF CallCancelAll, CallDisconnect
  <1> QED
    BY <1>1, <1>2, <1>3, <1>4, <1>5 DEF QueueNext, QueueMove

LEMMA QueueTypeStep == QueueTypeOK /\ QueueMove => QueueTypeOK'
  <1> SUFFICES ASSUME QueueTypeOK, QueueMove PROVE QueueTypeOK'
    OBVIOUS
  <1> DEFINE RestOK == /\ parallelism' \in Parallelisms
                       /\ paused' \in BOOLEAN /\ alive' \in BOOLEAN /\ timerIsRunning' \in BOOLEAN
                       /\ loop' \in {"posted", "timer", "expired", "canceled", "ended"}
                       /\ burst' \in 0..(UnthrottledLimit - 1)
                       /\ created' \in 0..MaxId /\ pauses' \in 0..MaxPauses
                       /\ cancelled' \subseteq Ids
             QueueOK == operations' \in Seq(Operation)
             EventsOK == events' \in Seq(Event)
  <1>0. parallelism' = parallelism
    BY DEF QueueMove
  <1>1. Queued \subseteq Ids
    <2>1. \A i \in DOMAIN operations : operations[i] \in Operation
      BY LenProperties, ElementOfSeq DEF QueueTypeOK
    <2> QED
      BY <2>1 DEF Queued, Operation
  <1>2. CASE LoopEnds \/ LoopWaits \/ TimerExpires \/ TimerHandler
    BY <1>0, <1>2 DEF QueueTypeOK, LoopEnds, LoopWaits, TimerExpires, TimerHandler, StartTimer
  <1>3. CASE LoopWorks
    <2>1. RestOK
      <3>1. burst + 1 < UnthrottledLimit => burst + 1 \in 0..(UnthrottledLimit - 1)
        BY QueueAssumption DEF QueueAssumption, QueueTypeOK
      <3>2. 0 \in 0..(UnthrottledLimit - 1)
        BY QueueAssumption DEF QueueAssumption
      <3> QED
        BY <1>0, <1>3, <3>1, <3>2 DEF QueueTypeOK, LoopWorks, Again, StartTimer
    <2>2. PICK s, n : /\ RoundTo(s, n)
                      /\ \/ operations' = s /\ UNCHANGED events
                         \/ operations' = Without(s, n) /\ Report("Failed", n)
                         \/ operations' = Without(s, 1) /\ Report("Completed", n)
      BY <1>3, WorkHasShape DEF LoopWorks, WorkShape
    <2>3. /\ s \in Seq(Operation) /\ n \in 1..Len(operations) /\ n \in 1..Len(s) /\ 1 \in 1..Len(s)
      <3>1. s \in Seq(Operation) /\ Len(s) = Len(operations) /\ n \in 1..Len(operations) /\ Len(operations) \in Nat
        BY <2>2, LenProperties DEF RoundTo, SameOperations, QueueTypeOK
      <3> QED
        BY <3>1
    <2>4. Without(s, n) \in Seq(Operation) /\ Without(s, 1) \in Seq(Operation)
      BY <2>3, WithoutProperties
    <2>5. \A what \in Reports : Report(what, n) => EventsOK
      BY <2>3, ReportIsEvent, EventAppended DEF Report
    <2>6. QueueOK /\ EventsOK
      BY <2>2, <2>3, <2>4, <2>5 DEF Reports, QueueTypeOK
    <2> QED
      BY <2>1, <2>6 DEF QueueTypeOK
  <1>4. CASE AddsFile
    <2>1. PICK n \in 0..MaxWork : AddFile(n)
      BY <1>4 DEF AddsFile
    <2>2. created + 1 \in Ids
      BY <2>1, QueueAssumption DEF QueueAssumption, QueueTypeOK, AddFile, Ids
    <2>3. New(created + 1, "Download", n) \in Operation /\ Added(created + 1) \in Event
      BY <2>2, NewIsOperation DEF Kinds, Added, Event
    <2>4. QueueOK /\ EventsOK
      BY <2>1, <2>3, AppendProperties DEF AddFile, QueueTypeOK
    <2> QED
      BY <1>0, <2>1, <2>2, <2>4 DEF AddFile, ResetQueueThrottle, QueueTypeOK, Ids
  <1>5. CASE AddsDirectory
    <2>1. PICK a \in 1..MaxWork, b \in 0..MaxWork : AddDirectory(a, b)
      BY <1>5 DEF AddsDirectory
    <2>2. created + 1 \in Ids /\ created + 2 \in Ids /\ a \in 0..MaxWork
      BY <2>1, QueueAssumption DEF QueueAssumption, QueueTypeOK, AddDirectory, Ids
    <2>3. /\ New(created + 1, "Scan", a) \in Operation /\ New(created + 2, "BulkDownload", b) \in Operation
          /\ Added(created + 1) \in Event /\ Added(created + 2) \in Event
      BY <2>2, NewIsOperation DEF Kinds, Added, Event
    <2>4. /\ <<New(created + 1, "Scan", a), New(created + 2, "BulkDownload", b)>> \in Seq(Operation)
          /\ <<Added(created + 1), Added(created + 2)>> \in Seq(Event)
      BY <2>3
    <2>5. QueueOK /\ EventsOK
      BY <2>1, <2>4, ConcatProperties DEF AddDirectory, QueueTypeOK
    <2> QED
      BY <1>0, <2>1, <2>2, <2>5 DEF AddDirectory, ResetQueueThrottle, QueueTypeOK, Ids
  <1>6. CASE Cancels
    <2>1. PICK id \in 1..created : Cancel(id)
      BY <1>6 DEF Cancels
    <2>2. [what |-> "Canceled", of |-> id] \in Event
      BY QueueAssumption DEF Event, QueueTypeOK, Ids, QueueAssumption
    <2>3. EventsOK
      BY <2>1, <2>2, AppendProperties DEF Cancel, QueueTypeOK
    <2>4. QueueOK
      <3>1. \A n \in PlacesOf(id) : Without(operations, n) \in Seq(Operation)
        BY WithoutProperties, LenProperties DEF PlacesOf, QueueTypeOK
      <3> QED
        BY <2>1, <3>1 DEF Cancel, QueueTypeOK
    <2> QED
      BY <1>0, <1>1, <2>1, <2>3, <2>4 DEF Cancel, QueueTypeOK
  <1>7. CASE CancelAll
    BY <1>0, <1>1, <1>7 DEF CancelAll, QueueTypeOK
  <1>8. CASE Pauses
    <2>1. PICK p \in BOOLEAN : PauseUnpause(p)
      BY <1>8 DEF Pauses
    <2>2. [what |-> "Toggled", of |-> 0] \in Event
      BY DEF Event
    <2>3. EventsOK
      BY <2>1, <2>2, AppendProperties DEF PauseUnpause, QueueTypeOK
    <2>4. pauses + 1 \in 0..MaxPauses
      BY <2>1, QueueAssumption DEF PauseUnpause, QueueTypeOK, QueueAssumption
    <2> QED
      BY <1>0, <2>1, <2>3, <2>4 DEF PauseUnpause, ResetQueueThrottle, QueueTypeOK
  <1>9. CASE Disconnect
    <2>1. Disconnect /\ UNCHANGED <<parallelism, paused, timerIsRunning, burst, created, pauses, events>>
      BY <1>0, <1>9 DEF Disconnect
    <2>2. /\ alive' = FALSE /\ operations' = <<>> /\ cancelled' = cancelled \cup Queued
          /\ loop' = IF loop = "timer" THEN "canceled" ELSE loop
      BY <2>1, Zenon DEF Disconnect
    <2>3. loop' \in {"posted", "timer", "expired", "canceled", "ended"}
      BY <2>2 DEF QueueTypeOK
    <2>4. <<>> \in Seq(Operation)
      OBVIOUS
    <2> QED
      BY <1>1, <2>1, <2>2, <2>3, <2>4 DEF QueueTypeOK
  <1>10. CASE IsPaused
    <2>1. \A what \in {"Paused", "Unpaused"} : [what |-> what, of |-> 0] \in Event
      BY DEF Event
    <2>2. EventsOK
      BY <1>10, <2>1, AppendProperties DEF IsPaused, QueueTypeOK
    <2> QED
      BY <1>0, <1>10, <2>2 DEF IsPaused, QueueTypeOK
  <1> QED
    BY <1>2, <1>3, <1>4, <1>5, <1>6, <1>7, <1>8, <1>9, <1>10 DEF QueueMove, Loop

-----------------------------------------------------------------------------
(* The order and the barrier. *)

\* Changed states keep the order, and bulk downloads go on waiting: none of
\* them is reached past its scan.
LEMMA RoundKeeps ==
  ASSUME QueueInv, NEW s, NEW n, RoundTo(s, n)
  PROVE  /\ s \in Seq(Operation) /\ DOMAIN s = DOMAIN operations /\ n \in 1..Len(s) /\ 1 \in 1..Len(s)
         /\ OrderedById(s)
         /\ \A i \in DOMAIN s : s[i].id = operations[i].id
         /\ WaitsIn(s, Reported("Completed") \cup {operations[n].id})
  <1>1. /\ s \in Seq(Operation) /\ Len(s) = Len(operations) /\ Len(s) \in Nat
        /\ DOMAIN s = 1..Len(s) /\ DOMAIN operations = 1..Len(s) /\ n \in 1..Len(s)
        /\ \A i \in 1..Len(s) : s[i].id = operations[i].id /\ s[i].kind = operations[i].kind
                                /\ (Finished(operations[i]) => Finished(s[i]))
        /\ \A i \in 1..(n - 1) : operations[i].kind # "Scan"
        /\ \A i \in (n + 1)..Len(s) : s[i].state = operations[i].state
    BY LenProperties DEF RoundTo, SameOperations, QueueInv, QueueTypeOK
  <1>2. OrderedById(s)
    BY <1>1 DEF QueueInv, OrderedById
  <1>3. ASSUME NEW i \in 1..Len(s), s[i].kind = "Scan", ~Finished(s[i])
        PROVE  /\ s[i].id + 1 \notin Reported("Completed") \cup {operations[n].id}
               /\ \A j \in DOMAIN s : s[j].id = s[i].id + 1 => s[j].state = "NotStarted"
    <2>1. operations[i].kind = "Scan" /\ ~Finished(operations[i]) /\ n <= i
      BY <1>1, <1>3
    <2>2. \A j \in 1..Len(s) : operations[j].id \in Nat
      BY <1>1 DEF QueueInv, IdsAreGiven
    <2>3. \A j \in 1..Len(s) : operations[j].id = operations[i].id + 1 => i < j
      <3>1. SUFFICES ASSUME NEW j \in 1..Len(s), operations[j].id = operations[i].id + 1, ~(i < j)
                     PROVE  FALSE
        OBVIOUS
      <3>2. j = i \/ j < i
        BY <1>1, <3>1
      <3>3. j < i => operations[j].id < operations[i].id
        BY <1>1 DEF QueueInv, OrderedById
      <3> QED
        BY <2>2, <3>1, <3>2, <3>3
    <2>4. s[i].id + 1 # operations[n].id
      BY <1>1, <2>1, <2>3
    <2>5. /\ operations[i].id + 1 \notin Reported("Completed")
          /\ \A j \in 1..Len(s) : operations[j].id = operations[i].id + 1 => operations[j].state = "NotStarted"
      BY <1>1, <2>1 DEF QueueInv, WaitsIn
    <2>6. ASSUME NEW j \in 1..Len(s), s[j].id = s[i].id + 1 PROVE s[j].state = "NotStarted"
      <3>1. operations[j].id = operations[i].id + 1
        BY <1>1, <2>6
      <3>2. j \in (n + 1)..Len(s)
        BY <1>1, <2>1, <2>3, <3>1
      <3> QED
        BY <1>1, <2>5, <3>1, <3>2
    <2> QED
      BY <1>1, <2>4, <2>5, <2>6
  <1>4. WaitsIn(s, Reported("Completed") \cup {operations[n].id})
    BY <1>1, <1>3 DEF WaitsIn
  <1> QED
    BY <1>1, <1>2, <1>4

LEMMA WaitsForLess ==
  ASSUME NEW s, NEW done, NEW less, less \subseteq done, WaitsIn(s, done)
  PROVE  WaitsIn(s, less)
  BY DEF WaitsIn

OrderInv == OrderedById(operations) /\ IdsAreGiven /\ WaitsIn(operations, Reported("Completed"))

LEMMA QuietKeeps ==
  ASSUME QueueInv, UNCHANGED <<operations, events, created>>
  PROVE  OrderInv'
  BY DEF QueueInv, OrderInv, OrderedById, IdsAreGiven, WaitsIn, Reported, Finished

LEMMA WorkKeeps ==
  ASSUME QueueInv, Work, created' = created
  PROVE  OrderInv'
  <1>1. PICK s, n : /\ RoundTo(s, n)
                    /\ \/ operations' = s /\ UNCHANGED events
                       \/ operations' = Without(s, n) /\ Report("Failed", n)
                       \/ operations' = Without(s, 1) /\ Report("Completed", n)
    BY WorkHasShape DEF QueueInv, WorkShape
  <1>2. /\ s \in Seq(Operation) /\ DOMAIN s = DOMAIN operations /\ n \in 1..Len(s) /\ 1 \in 1..Len(s)
        /\ OrderedById(s)
        /\ \A i \in DOMAIN s : s[i].id = operations[i].id
        /\ WaitsIn(s, Reported("Completed") \cup {operations[n].id})
    BY <1>1, RoundKeeps
  <1>3. WaitsIn(s, Reported("Completed"))
    BY <1>2, WaitsForLess
  <1>4. DOMAIN s = 1..Len(s) /\ n \in DOMAIN operations /\ operations[n].id \in 1..created /\ created \in Nat
    BY <1>2, LenProperties, QueueAssumption DEF QueueInv, IdsAreGiven, QueueTypeOK, QueueAssumption
  <1>5. \A i \in DOMAIN s : s[i].id \in 1..created
    BY <1>2 DEF QueueInv, IdsAreGiven
  <1>6. CASE operations' = s /\ UNCHANGED events
    BY <1>2, <1>3, <1>5, <1>6 DEF OrderInv, QueueInv, IdsAreGiven, OrderedById, WaitsIn, Reported, Finished
  <1>7. ASSUME NEW m \in {1, n}, NEW what \in Reports,
               operations' = Without(s, m), Report(what, n)
        PROVE  OrderInv'
    <2>1. /\ OrderedById(Without(s, m))
          /\ \A done : WaitsIn(s, done) => WaitsIn(Without(s, m), done)
          /\ \A i \in DOMAIN Without(s, m) : \E k \in DOMAIN s : k # m /\ Without(s, m)[i] = s[k]
      BY <1>2, <1>7, DropKeeps
    <2>2. n \in 1..Len(operations)
      BY <1>4, LenProperties DEF QueueInv, QueueTypeOK
    <2>3. /\ DOMAIN events' = 1..(Len(events) + 1) /\ DOMAIN events = 1..Len(events) /\ Len(events) \in Nat
          /\ \A i \in 1..Len(events) : events'[i] = events[i]
          /\ events'[Len(events) + 1].of = operations[n].id
          /\ Reported("Completed")' \subseteq Reported("Completed") \cup {operations[n].id}
      <3> DEFINE e == [what |-> what, of |-> operations[n].id]
      <3>1. e \in Event /\ events' = Append(events, e) /\ e.of = operations[n].id
        BY <1>7, <2>2, ReportIsEvent DEF Report, QueueInv
      <3> HIDE DEF e
      <3> QED
        BY <3>1, EventAppended DEF QueueInv
    <2>4. \A i \in DOMAIN events' : events'[i].of \in 0..created
      BY <1>4, <2>3 DEF QueueInv, IdsAreGiven
    <2>5. WaitsIn(Without(s, m), Reported("Completed")')
      BY <1>2, <2>1, <2>3, WaitsForLess
    <2>6. \A i \in DOMAIN operations' : operations'[i].id \in 1..created
      BY <1>5, <1>7, <2>1
    <2> QED
      BY <1>7, <2>1, <2>4, <2>5, <2>6 DEF OrderInv, IdsAreGiven, OrderedById, WaitsIn, Finished
  <1> QED
    BY <1>1, <1>6, <1>7 DEF Reports

\* A step that tells the frontend something that is no report.
LEMMA TellKeeps ==
  ASSUME QueueTypeOK, IdsAreGiven, NEW e \in Event, e.what \notin Reports,
         events' = Append(events, e), NEW n \in Nat, created \in Nat, created <= n, e.of \in 0..n
  PROVE  /\ Reported("Completed")' = Reported("Completed")
         /\ \A i \in DOMAIN events' : events'[i].of \in 0..n
  <1>1. /\ DOMAIN events' = 1..(Len(events) + 1) /\ DOMAIN events = 1..Len(events) /\ Len(events) \in Nat
        /\ \A i \in 1..Len(events) : events'[i] = events[i]
        /\ events'[Len(events) + 1] = e
        /\ \A what : Reported(what)' = Reported(what) \cup (IF e.what = what THEN {e.of} ELSE {})
    BY EventAppended
  <1>2. Reported("Completed")' = Reported("Completed")
    BY <1>1 DEF Reports
  <1>3. \A i \in DOMAIN events' : events'[i].of \in 0..n
    BY <1>1 DEF IdsAreGiven
  <1> QED
    BY <1>2, <1>3

LEMMA TwoAppended ==
  ASSUME NEW S, NEW s \in Seq(S), NEW a \in S, NEW b \in S
  PROVE  /\ s \o <<a, b>> \in Seq(S)
         /\ DOMAIN s = 1..Len(s) /\ Len(s) \in Nat /\ DOMAIN (s \o <<a, b>>) = 1..(Len(s) + 2)
         /\ \A i \in 1..Len(s) : (s \o <<a, b>>)[i] = s[i]
         /\ (s \o <<a, b>>)[Len(s) + 1] = a /\ (s \o <<a, b>>)[Len(s) + 2] = b
  <1> DEFINE t == <<a, b>>
             r == s \o t
  <1>1. t \in Seq(S) /\ Len(t) = 2 /\ t[1] = a /\ t[2] = b
    OBVIOUS
  <1>2. Len(s) \in Nat /\ DOMAIN s = 1..Len(s)
    BY LenProperties
  <1> HIDE DEF t
  <1>3. /\ r \in Seq(S) /\ Len(r) = Len(s) + 2
        /\ \A i \in 1..(Len(s) + 2) : r[i] = IF i <= Len(s) THEN s[i] ELSE t[i - Len(s)]
    <2>1. /\ r \in Seq(S) /\ Len(r) = Len(s) + Len(t)
          /\ \A i \in 1..(Len(s) + Len(t)) : r[i] = IF i <= Len(s) THEN s[i] ELSE t[i - Len(s)]
      BY <1>1, ConcatProperties
    <2> HIDE DEF r
    <2> QED
      BY <1>1, <2>1
  <1>4. DOMAIN r = 1..(Len(s) + 2)
    BY <1>3, LenProperties
  <1> HIDE DEF r
  <1>5. /\ \A i \in 1..Len(s) : r[i] = s[i]
        /\ r[Len(s) + 1] = t[1] /\ r[Len(s) + 2] = t[2]
    BY <1>2, <1>3
  <1> QED
    BY <1>1, <1>2, <1>3, <1>4, <1>5 DEF r, t

LEMMA AddFileKeeps ==
  ASSUME QueueInv, NEW left \in 0..MaxWork, AddFile(left)
  PROVE  OrderInv'
  <1> DEFINE op == New(created + 1, "Download", left)
             e  == Added(created + 1)
  <1>1. created + 1 \in Ids /\ created \in Nat /\ created' = created + 1
    BY QueueAssumption DEF QueueAssumption, QueueInv, QueueTypeOK, AddFile, Ids
  <1>2. op \in Operation /\ op.id = created + 1 /\ op.kind = "Download" /\ op.state = "NotStarted"
    BY <1>1, NewIsOperation DEF Kinds, New
  <1>3. e \in Event /\ e.what \notin Reports /\ e.of = created + 1
    BY <1>1 DEF Added, Event, Reports
  <1>4. operations' = Append(operations, op) /\ events' = Append(events, e)
    BY DEF AddFile
  <1> HIDE DEF op, e
  <1>5. /\ Reported("Completed")' = Reported("Completed")
        /\ \A i \in DOMAIN events' : events'[i].of \in 0..(created + 1)
    BY <1>1, <1>3, <1>4, TellKeeps DEF QueueInv
  <1>6. /\ operations' \in Seq(Operation) /\ DOMAIN operations' = 1..(Len(operations) + 1)
        /\ DOMAIN operations = 1..Len(operations) /\ Len(operations) \in Nat
        /\ \A i \in 1..Len(operations) : operations'[i] = operations[i]
        /\ operations'[Len(operations) + 1] = op
    BY <1>2, <1>4, AppendProperties, LenProperties DEF QueueInv, QueueTypeOK
  <1>7. \A i \in 1..Len(operations) : operations[i].id \in 1..created
    BY <1>6 DEF QueueInv, IdsAreGiven
  <1>8. OrderedById(operations')
    BY <1>1, <1>2, <1>6, <1>7 DEF OrderedById, QueueInv
  <1>9. WaitsIn(operations', Reported("Completed"))
    BY <1>2, <1>6 DEF WaitsIn, QueueInv
  <1>10. \A i \in DOMAIN operations' : operations'[i].id \in 1..(created + 1)
    BY <1>1, <1>2, <1>6, <1>7
  <1> QED
    BY <1>1, <1>5, <1>8, <1>9, <1>10 DEF OrderInv, IdsAreGiven, OrderedById, WaitsIn, Finished

LEMMA AddDirectoryKeeps ==
  ASSUME QueueInv, NEW a \in 1..MaxWork, NEW b \in 0..MaxWork, AddDirectory(a, b)
  PROVE  OrderInv'
  <1> DEFINE scan == New(created + 1, "Scan", a)
             bulk == New(created + 2, "BulkDownload", b)
             e == Added(created + 1)
             f == Added(created + 2)
             n == Len(operations)
             k == Len(events)
  <1>1. /\ created + 1 \in Ids /\ created + 2 \in Ids /\ created \in Nat /\ created' = created + 2
        /\ a \in 0..MaxWork
    BY QueueAssumption DEF QueueAssumption, QueueInv, QueueTypeOK, AddDirectory, Ids
  <1>2. /\ scan \in Operation /\ scan.id = created + 1 /\ scan.state = "NotStarted"
        /\ bulk \in Operation /\ bulk.id = created + 2 /\ bulk.state = "NotStarted" /\ bulk.kind # "Scan"
    BY <1>1, NewIsOperation DEF Kinds, New
  <1>3. /\ e \in Event /\ e.what = "Added" /\ e.of = created + 1
        /\ f \in Event /\ f.what = "Added" /\ f.of = created + 2
    BY <1>1 DEF Added, Event
  <1>4. operations' = operations \o <<scan, bulk>> /\ events' = events \o <<e, f>>
    BY DEF AddDirectory
  <1> HIDE DEF scan, bulk, e, f
  <1>5. /\ DOMAIN operations' = 1..(n + 2) /\ DOMAIN operations = 1..n /\ n \in Nat
        /\ \A i \in 1..n : operations'[i] = operations[i]
        /\ operations'[n + 1] = scan /\ operations'[n + 2] = bulk
    BY <1>2, <1>4, TwoAppended DEF QueueInv, QueueTypeOK
  <1>6. /\ DOMAIN events' = 1..(k + 2) /\ DOMAIN events = 1..k /\ k \in Nat
        /\ \A i \in 1..k : events'[i] = events[i]
        /\ events'[k + 1] = e /\ events'[k + 2] = f
    BY <1>3, <1>4, TwoAppended DEF QueueInv, QueueTypeOK
  <1> HIDE DEF n, k
  <1>7. 1..(n + 2) = 1..n \cup {n + 1, n + 2} /\ 1..(k + 2) = 1..k \cup {k + 1, k + 2}
    BY SMTT(30), <1>5, <1>6
  <1>8. Reported("Completed")' = Reported("Completed")
    BY <1>3, <1>6, <1>7 DEF Reported
  <1>9. \A i \in 1..n : operations[i].id \in 1..created
    BY <1>5 DEF QueueInv, IdsAreGiven
  <1>10. OrderedById(operations')
    <2>1. \A i, j \in 1..n : i < j => operations[i].id < operations[j].id
      BY <1>5 DEF QueueInv, OrderedById
    <2>2. ASSUME NEW i \in 1..(n + 2), NEW j \in 1..(n + 2), i < j
          PROVE  operations'[i].id < operations'[j].id
      <3>1. CASE j \in 1..n
        <4>1. i \in 1..n
          BY <1>5, <2>2, <3>1
        <4> QED
          BY <1>5, <2>1, <2>2, <3>1, <4>1
      <3>2. CASE j = n + 1
        <4>1. i \in 1..n
          BY <1>5, <2>2, <3>2
        <4>2. operations'[i].id \in 1..created /\ operations'[j].id = created + 1
          BY <1>2, <1>5, <1>9, <3>2, <4>1
        <4> QED
          BY <1>1, <4>2
      <3>3. CASE j = n + 2
        <4>1. i \in 1..n \/ i = n + 1
          BY <1>5, <2>2, <3>3
        <4>2. operations'[i].id \in 1..(created + 1) /\ operations'[j].id = created + 2
          BY <1>1, <1>2, <1>5, <1>9, <3>3, <4>1
        <4> QED
          BY <1>1, <4>2
      <3> QED
        BY <1>7, <2>2, <3>1, <3>2, <3>3
    <2> QED
      BY <1>5, <2>2 DEF OrderedById
  <1>11. Reported("Completed") \subseteq 0..created
    BY DEF QueueInv, IdsAreGiven, Reported
  <1>12. WaitsIn(operations', Reported("Completed"))
    <2>1. ASSUME NEW i \in 1..(n + 2), operations'[i].kind = "Scan", ~Finished(operations'[i])
          PROVE  /\ operations'[i].id + 1 \notin Reported("Completed")
                 /\ \A j \in 1..(n + 2) : operations'[j].id = operations'[i].id + 1
                                            => operations'[j].state = "NotStarted"
      <3>1. CASE i \in 1..n
        <4>1. operations[i].kind = "Scan" /\ ~Finished(operations[i])
          BY <1>5, <2>1, <3>1
        <4>2. /\ operations[i].id + 1 \notin Reported("Completed")
              /\ \A j \in 1..n : operations[j].id = operations[i].id + 1
                                  => operations[j].state = "NotStarted"
          BY <1>5, <3>1, <4>1 DEF QueueInv, WaitsIn
        <4>3. operations'[i].id = operations[i].id
          BY <1>5, <3>1
        <4>4. operations'[n + 1].state = "NotStarted" /\ operations'[n + 2].state = "NotStarted"
          BY <1>2, <1>5
        <4>5. ASSUME NEW j \in 1..(n + 2), operations'[j].id = operations'[i].id + 1
              PROVE  operations'[j].state = "NotStarted"
          <5>1. CASE j \in 1..n
            BY <1>5, <4>2, <4>3, <4>5, <5>1
          <5> QED
            BY <1>7, <4>4, <5>1
        <4> QED
          BY <4>2, <4>3, <4>5
      <3>2. CASE i = n + 1
        <4>1. operations'[i].id + 1 = created + 2
          BY <1>1, <1>2, <1>5, <3>2
        <4>2. created + 2 \notin Reported("Completed")
          BY <1>1, <1>11
        <4>3. ASSUME NEW j \in 1..(n + 2), operations'[j].id = created + 2
              PROVE  operations'[j].state = "NotStarted"
          <5>1. j \notin 1..n
            BY <1>1, <1>5, <1>9, <4>3
          <5> QED
            BY <1>2, <1>5, <1>7, <5>1
        <4> QED
          BY <4>1, <4>2, <4>3
      <3>3. i # n + 2
        BY <1>2, <1>5, <2>1
      <3> QED
        BY <1>7, <3>1, <3>2, <3>3
    <2> QED
      BY <1>5, <2>1 DEF WaitsIn
  <1>13. \A i \in DOMAIN operations' : operations'[i].id \in 1..(created + 2)
    BY <1>1, <1>2, <1>5, <1>7, <1>9
  <1>14. \A i \in DOMAIN events' : events'[i].of \in 0..(created + 2)
    BY <1>1, <1>3, <1>6, <1>7 DEF QueueInv, IdsAreGiven
  <1> QED
    BY <1>1, <1>8, <1>10, <1>12, <1>13, <1>14 DEF OrderInv, IdsAreGiven, OrderedById, WaitsIn, Finished

\* A step that reports nothing and drops at most one operation.
LEMMA CancelKeeps ==
  ASSUME QueueInv, NEW id \in 1..created, Cancel(id)
  PROVE  OrderInv'
  <1> DEFINE e == [what |-> "Canceled", of |-> id]
  <1>1. created \in Nat /\ id \in Ids /\ created' = created
    BY QueueAssumption DEF QueueAssumption, QueueInv, QueueTypeOK, Cancel, Ids
  <1>2. e \in Event /\ e.what \notin Reports /\ e.of \in 0..created
    BY <1>1 DEF Event, Reports
  <1>3. events' = Append(events, e)
    BY DEF Cancel
  <1> HIDE DEF e
  <1>4. /\ Reported("Completed")' = Reported("Completed")
        /\ \A i \in DOMAIN events' : events'[i].of \in 0..created
    BY <1>1, <1>2, <1>3, TellKeeps DEF QueueInv
  <1>5. CASE UNCHANGED operations
    BY <1>1, <1>4, <1>5 DEF QueueInv, OrderInv, IdsAreGiven, OrderedById, WaitsIn, Finished
  <1>6. ASSUME NEW n \in PlacesOf(id), operations' = Without(operations, n)
        PROVE  OrderInv'
    <2>1. operations \in Seq(Operation) /\ n \in 1..Len(operations)
      BY LenProperties DEF QueueInv, QueueTypeOK, PlacesOf
    <2>2. /\ OrderedById(operations')
          /\ \A done : WaitsIn(operations, done) => WaitsIn(operations', done)
          /\ \A i \in DOMAIN operations' : \E k \in DOMAIN operations : operations'[i] = operations[k]
      BY <1>6, <2>1, DropKeeps DEF QueueInv
    <2>3. \A i \in DOMAIN operations' : operations'[i].id \in 1..created
      BY <2>2 DEF QueueInv, IdsAreGiven
    <2> QED
      BY <1>1, <1>4, <2>2, <2>3 DEF QueueInv, OrderInv, IdsAreGiven, OrderedById, WaitsIn, Finished
  <1> QED
    BY <1>5, <1>6 DEF Cancel

LEMMA EmptiedKeeps ==
  ASSUME QueueInv, operations' = <<>>, UNCHANGED <<events, created>>
  PROVE  OrderInv'
  <1>1. DOMAIN operations' = {}
    OBVIOUS
  <1> QED
    BY <1>1 DEF QueueInv, OrderInv, IdsAreGiven, OrderedById, WaitsIn, Reported

LEMMA PauseKeeps ==
  ASSUME QueueInv, NEW p, PauseUnpause(p)
  PROVE  OrderInv'
  <1> DEFINE e == [what |-> "Toggled", of |-> 0]
  <1>1. created \in Nat /\ created' = created /\ operations' = operations /\ events' = Append(events, e)
    BY QueueAssumption DEF QueueAssumption, QueueInv, QueueTypeOK, PauseUnpause
  <1>2. e \in Event /\ e.what \notin Reports /\ e.of \in 0..created
    BY <1>1 DEF Event, Reports
  <1> HIDE DEF e
  <1>3. /\ Reported("Completed")' = Reported("Completed")
        /\ \A i \in DOMAIN events' : events'[i].of \in 0..created
    BY <1>1, <1>2, TellKeeps DEF QueueInv
  <1> QED
    BY <1>1, <1>3 DEF QueueInv, OrderInv, IdsAreGiven, OrderedById, WaitsIn, Finished

LEMMA IsPausedKeeps ==
  ASSUME QueueInv, IsPaused
  PROVE  OrderInv'
  <1> DEFINE e == [what |-> IF paused THEN "Paused" ELSE "Unpaused", of |-> 0]
  <1>1. created \in Nat /\ created' = created /\ operations' = operations /\ events' = Append(events, e)
    BY QueueAssumption DEF QueueAssumption, QueueInv, QueueTypeOK, IsPaused
  <1>2. e \in Event /\ e.what \notin Reports /\ e.of \in 0..created
    BY <1>1 DEF Event, Reports
  <1> HIDE DEF e
  <1>3. /\ Reported("Completed")' = Reported("Completed")
        /\ \A i \in DOMAIN events' : events'[i].of \in 0..created
    BY <1>1, <1>2, TellKeeps DEF QueueInv
  <1> QED
    BY <1>1, <1>3 DEF QueueInv, OrderInv, IdsAreGiven, OrderedById, WaitsIn, Finished

LEMMA QueueInit0 == QueueInit => QueueInv
  <1> SUFFICES ASSUME QueueInit PROVE QueueInv
    OBVIOUS
  <1>1. operations = <<>> /\ events = <<>> /\ DOMAIN operations = {} /\ DOMAIN events = {}
    BY DEF QueueInit
  <1>2. QueueTypeOK
    <2>1. operations \in Seq(Operation) /\ events \in Seq(Event)
      BY <1>1
    <2>2. 0 \in 0..(UnthrottledLimit - 1) /\ 0 \in 0..MaxId /\ 0 \in 0..MaxPauses
      BY QueueAssumption DEF QueueAssumption
    <2>3. paused \in BOOLEAN /\ alive \in BOOLEAN /\ timerIsRunning \in BOOLEAN
      BY DEF QueueInit
    <2>4. parallelism \in Parallelisms /\ loop = "posted" /\ burst = 0 /\ created = 0 /\ pauses = 0
          /\ cancelled = {}
      BY Zenon DEF QueueInit
    <2> QED
      BY <2>1, <2>2, <2>3, <2>4 DEF QueueTypeOK
  <1> QED
    BY <1>1, <1>2 DEF QueueInv, OrderedById, IdsAreGiven, WaitsIn

LEMMA QueueInvMove == QueueInv /\ [QueueMove]_queueVars => QueueInv'
  <1> SUFFICES ASSUME QueueInv, [QueueMove]_queueVars PROVE QueueInv'
    OBVIOUS
  <1>1. CASE UNCHANGED queueVars
    <2>1. QueueTypeOK'
      BY <1>1 DEF QueueInv, QueueTypeOK, queueVars
    <2>2. OrderInv'
      BY <1>1, QuietKeeps DEF queueVars
    <2> QED
      BY <2>1, <2>2 DEF QueueInv, OrderInv
  <1>2. CASE QueueMove
    <2>1. QueueTypeOK'
      BY <1>2, QueueTypeStep DEF QueueInv
    <2>2. OrderInv'
      <3>1. CASE LoopEnds \/ LoopWaits \/ TimerExpires \/ TimerHandler
        <4>1. UNCHANGED <<operations, events, created>>
          BY <3>1 DEF LoopEnds, LoopWaits, TimerExpires, TimerHandler
        <4> QED
          BY <4>1, QuietKeeps
      <3>2. CASE LoopWorks
        BY <3>2, WorkKeeps DEF LoopWorks
      <3>3. CASE AddsFile
        BY <3>3, AddFileKeeps DEF AddsFile
      <3>4. CASE AddsDirectory
        BY <3>4, AddDirectoryKeeps DEF AddsDirectory
      <3>5. CASE Cancels
        BY <3>5, CancelKeeps DEF Cancels
      <3>6. CASE CancelAll
        BY <3>6, EmptiedKeeps DEF CancelAll
      <3>7. CASE Pauses
        BY <3>7, PauseKeeps DEF Pauses
      <3>8. CASE Disconnect
        <4>1. operations' = <<>> /\ UNCHANGED <<events, created>>
          BY <3>8, Zenon DEF Disconnect
        <4> QED
          BY <4>1, EmptiedKeeps
      <3>9. CASE IsPaused
        BY <3>9, IsPausedKeeps
      <3> QED
        BY <1>2, <3>1, <3>2, <3>3, <3>4, <3>5, <3>6, <3>7, <3>8, <3>9 DEF QueueMove, Loop
    <2> QED
      BY <2>1, <2>2 DEF QueueInv, OrderInv
  <1> QED
    BY <1>1, <1>2

LEMMA QueueInvStep == QueueInv /\ [QueueNext]_queueVars => QueueInv'
  BY NextMoves, QueueInvMove

(* The variables of the queue keep their types. *)
THEOREM QueueTypeCorrect == QueueSpec => []QueueTypeOK
  <1>1. QueueInv => QueueTypeOK
    BY DEF QueueInv
  <1> QED
    BY <1>1, QueueInit0, QueueInvStep, PTL DEF QueueSpec

(* However many operations are worked at a time, a bulk download is not    *)
(* started, let alone reported as completed, while the scan of its         *)
(* directory is working.                                                   *)
THEOREM BulkDownloadWaits == QueueSpec => []BulkWaitsForScan
  <1>1. QueueInv => BulkWaitsForScan
    BY WaitsIsBulkWaits DEF QueueInv
  <1> QED
    BY <1>1, QueueInit0, QueueInvStep, PTL DEF QueueSpec

-----------------------------------------------------------------------------
(***************************************************************************)
(* One operation at a time.  Then the first operation is the only one that *)
(* is worked, so it is the one a report is about: the reported ids are     *)
(* below all that are queued, and with the cancelled ones they are all     *)
(* that were given out.                                                    *)
(***************************************************************************)
Done == {events[i].of : i \in {j \in DOMAIN events : events[j].what \in Reports}}

IdsOf(s) == {s[i].id : i \in DOMAIN s}

ReportsAscend ==
    \A i, j \in DOMAIN events :
        i < j /\ events[i].what \in Reports /\ events[j].what \in Reports
            => events[i].of < events[j].of

DoneBeforeQueued == \A d \in Done, q \in Queued : d < q

EachIdInOnePlace ==
    /\ Queued \cup Done \cup cancelled = 1..created
    /\ Done \cap cancelled = {} /\ Queued \cap cancelled = {}

AccountInv == ReportsAscend /\ DoneBeforeQueued /\ EachIdInOnePlace

OneByOneInv == QueueInv /\ (parallelism = 1 => AccountInv)

LEMMA WithoutDropsItsId ==
  ASSUME NEW s \in Seq(Operation), NEW n \in 1..Len(s), OrderedById(s)
  PROVE  IdsOf(Without(s, n)) = IdsOf(s) \ {s[n].id}
  <1> DEFINE w == Without(s, n)
             at(i) == IF i < n THEN i ELSE i + 1
  <1>1. /\ DOMAIN w = 1..(Len(s) - 1) /\ DOMAIN s = 1..Len(s) /\ Len(s) \in Nat /\ n \in Nat
        /\ \A i \in 1..(Len(s) - 1) : w[i] = s[at(i)]
    <2>1. w \in Seq(Operation) /\ Len(w) = Len(s) - 1 /\ \A i \in 1..(Len(s) - 1) : w[i] = s[at(i)]
      BY WithoutProperties
    <2> HIDE DEF w, at
    <2> QED
      BY <2>1, LenProperties
  <1>2. \A i \in 1..(Len(s) - 1) : at(i) \in 1..Len(s) /\ at(i) # n
    BY <1>1
  <1>3. \A k \in 1..Len(s) : k # n => \E i \in 1..(Len(s) - 1) : at(i) = k
    <2>1. ASSUME NEW k \in 1..Len(s), k < n PROVE k \in 1..(Len(s) - 1) /\ at(k) = k
      BY <1>1, <2>1
    <2>2. ASSUME NEW k \in 1..Len(s), n < k PROVE k - 1 \in 1..(Len(s) - 1) /\ at(k - 1) = k
      BY <1>1, <2>2
    <2> HIDE DEF at
    <2>3. \A k \in 1..Len(s) : k # n => k < n \/ n < k
      BY <1>1
    <2> QED
      BY <2>1, <2>2, <2>3
  <1>4. \A k \in 1..Len(s) : k # n => s[k].id # s[n].id
    <2>1. \A k \in 1..Len(s) : s[k].id \in Nat
      <3>1. \A k \in 1..Len(s) : s[k] \in Operation
        BY ElementOfSeq
      <3> QED
        BY <3>1, QueueAssumption DEF Operation, Ids, QueueAssumption
    <2>2. \A k \in 1..Len(s) : k # n => k < n \/ n < k
      BY <1>1
    <2>3. \A i, j \in 1..Len(s) : i < j => s[i].id < s[j].id
      BY <1>1 DEF OrderedById
    <2> QED
      BY <2>1, <2>2, <2>3
  <1> HIDE DEF w, at
  <1>5. IdsOf(w) = {s[k].id : k \in {m \in DOMAIN s : m # n}}
    <2>1. \A i \in DOMAIN w : \E k \in DOMAIN s : k # n /\ w[i].id = s[k].id
      BY <1>1, <1>2
    <2>2. \A k \in DOMAIN s : k # n => \E i \in DOMAIN w : w[i].id = s[k].id
      BY <1>1, <1>3
    <2> QED
      BY <2>1, <2>2 DEF IdsOf
  <1>6. {s[k].id : k \in {m \in DOMAIN s : m # n}} = IdsOf(s) \ {s[n].id}
    BY <1>1, <1>4 DEF IdsOf
  <1> QED
    BY <1>5, <1>6 DEF w

LEMMA DoneAfter ==
  ASSUME QueueTypeOK, NEW e \in Event, events' = Append(events, e)
  PROVE  /\ Done' = Done \cup (IF e.what \in Reports THEN {e.of} ELSE {})
         /\ ReportsAscend /\ (e.what \in Reports => \A d \in Done : d < e.of) => ReportsAscend'
  <1>1. /\ DOMAIN events' = 1..(Len(events) + 1) /\ DOMAIN events = 1..Len(events) /\ Len(events) \in Nat
        /\ \A i \in 1..Len(events) : events'[i] = events[i]
        /\ events'[Len(events) + 1] = e
    BY EventAppended
  <1>2. DOMAIN events' = DOMAIN events \cup {Len(events) + 1}
    BY <1>1
  <1>3. Done' = Done \cup (IF e.what \in Reports THEN {e.of} ELSE {})
    BY <1>1, <1>2 DEF Done
  <1>4. ASSUME ReportsAscend, e.what \in Reports => \A d \in Done : d < e.of,
               NEW i \in DOMAIN events', NEW j \in DOMAIN events',
               i < j, events'[i].what \in Reports, events'[j].what \in Reports
        PROVE  events'[i].of < events'[j].of
    <2>1. i \in DOMAIN events
      BY <1>1, <1>4
    <2>2. CASE j \in DOMAIN events
      BY <1>1, <1>4, <2>1, <2>2 DEF ReportsAscend
    <2>3. CASE j = Len(events) + 1
      <3>1. events[i].of \in Done
        BY <1>1, <1>4, <2>1 DEF Done
      <3> QED
        BY <1>1, <1>4, <2>1, <2>3, <3>1
    <2> QED
      BY <1>2, <2>2, <2>3
  <1> QED
    BY <1>3, <1>4 DEF ReportsAscend

\* Steps that leave the queue, the reports and the cancelled ids alone.
LEMMA AccountQuiet ==
  ASSUME AccountInv, Queued' = Queued, Done' = Done, UNCHANGED <<created, cancelled>>, ReportsAscend'
  PROVE  AccountInv'
  BY DEF AccountInv, DoneBeforeQueued, EachIdInOnePlace

\* Steps that take ids out of the queue without a report.
LEMMA AccountCancelled ==
  ASSUME AccountInv, NEW gone, Queued' = Queued \ gone, Done' = Done, created' = created,
         cancelled' = cancelled \cup (Queued \cap gone), ReportsAscend', QueueInv
  PROVE  AccountInv'
  <1>1. \A d \in Done, q \in Queued : d # q
    <2>1. \A q \in Queued : q \in Nat
      BY QueueAssumption DEF QueueInv, IdsAreGiven, Queued, QueueTypeOK, QueueAssumption
    <2> QED
      BY <2>1 DEF AccountInv, DoneBeforeQueued
  <1> QED
    BY <1>1 DEF AccountInv, DoneBeforeQueued, EachIdInOnePlace

\* A round of work on the first operation only.
LEMMA AccountWork ==
  ASSUME QueueInv, AccountInv, parallelism = 1, Work, UNCHANGED <<created, cancelled>>
  PROVE  AccountInv'
  <1>1. PICK s, n : /\ RoundTo(s, n)
                    /\ \/ operations' = s /\ UNCHANGED events
                       \/ operations' = Without(s, n) /\ Report("Failed", n)
                       \/ operations' = Without(s, 1) /\ Report("Completed", n)
    BY WorkHasShape DEF QueueInv, WorkShape
  <1>2. n = 1 /\ n \in 1..Len(operations)
    BY <1>1, LenProperties DEF RoundTo, QueueInv, QueueTypeOK
  <1>3. /\ s \in Seq(Operation) /\ DOMAIN s = DOMAIN operations /\ n \in 1..Len(s) /\ 1 \in 1..Len(s)
        /\ OrderedById(s)
        /\ \A i \in DOMAIN s : s[i].id = operations[i].id
    BY <1>1, RoundKeeps
  <1>4. IdsOf(s) = Queued
    BY <1>3 DEF IdsOf, Queued
  <1>5. CASE operations' = s /\ UNCHANGED events
    <2>1. Queued' = Queued /\ Done' = Done /\ ReportsAscend'
      BY <1>4, <1>5 DEF IdsOf, Queued, Done, AccountInv, ReportsAscend
    <2> QED
      BY <2>1, AccountQuiet
  <1>6. ASSUME NEW what \in Reports, operations' = Without(s, 1), Report(what, 1)
        PROVE  AccountInv'
    <2> DEFINE first == operations[1].id
               e == [what |-> what, of |-> first]
    <2>1. e \in Event /\ events' = Append(events, e) /\ e.what \in Reports /\ e.of = first
      BY <1>2, <1>6, ReportIsEvent DEF Report, QueueInv
    <2>2. Queued' = Queued \ {first}
      <3>1. IdsOf(Without(s, 1)) = IdsOf(s) \ {s[1].id}
        BY <1>3, WithoutDropsItsId
      <3>2. s[1].id = first
        BY <1>3, LenProperties
      <3>3. Queued' = IdsOf(Without(s, 1))
        BY <1>6 DEF Queued, IdsOf
      <3> QED
        BY <1>4, <3>1, <3>2, <3>3
    <2>3. first \in Queued
      BY <1>2, LenProperties DEF Queued, QueueInv, QueueTypeOK
    <2>4. \A q \in Queued \ {first} : first < q
      <3>1. DOMAIN operations = 1..Len(operations) /\ Len(operations) \in Nat
        BY LenProperties DEF QueueInv, QueueTypeOK
      <3>2. \A i \in DOMAIN operations : i = 1 \/ 1 < i
        BY <3>1
      <3>3. 1 \in DOMAIN operations
        BY <1>2, <3>1
      <3> QED
        BY <3>2, <3>3 DEF QueueInv, OrderedById, Queued
    <2>5. \A d \in Done : d < first
      BY <2>3 DEF AccountInv, DoneBeforeQueued
    <2>6. \A q \in Queued : q \in Nat
      BY QueueAssumption DEF QueueInv, IdsAreGiven, Queued, QueueTypeOK, QueueAssumption
    <2> HIDE DEF first, e
    <2>7. Done' = Done \cup {first}
      BY <2>1, DoneAfter DEF QueueInv
    <2>8. ReportsAscend'
      BY <2>1, <2>5, DoneAfter DEF QueueInv, AccountInv
    <2>9. DoneBeforeQueued'
      BY <2>2, <2>4, <2>7 DEF AccountInv, DoneBeforeQueued
    <2>10. EachIdInOnePlace'
      BY <2>2, <2>3, <2>7 DEF AccountInv, EachIdInOnePlace
    <2> QED
      BY <2>8, <2>9, <2>10 DEF AccountInv
  <1> QED
    BY <1>1, <1>2, <1>5, <1>6 DEF Reports

\* New operations come behind all that are queued and all that are done.
LEMMA AccountAdded ==
  ASSUME QueueInv, AccountInv, NEW k \in Nat, created' = created + k, cancelled' = cancelled,
         Queued' = Queued \cup (created + 1)..(created + k), Done' = Done, ReportsAscend'
  PROVE  AccountInv'
  <1>1. created \in Nat
    BY QueueAssumption DEF QueueInv, QueueTypeOK, QueueAssumption
  <1>2. /\ Queued \subseteq 1..created /\ Done \subseteq 1..created /\ cancelled \subseteq 1..created
        /\ Queued \cup Done \cup cancelled = 1..created
    BY DEF AccountInv, EachIdInOnePlace
  <1>3. \A d \in 1..created, q \in (created + 1)..(created + k) : d < q
    BY <1>1
  <1>4. 1..(created + k) = 1..created \cup (created + 1)..(created + k)
    BY <1>1
  <1>5. DoneBeforeQueued'
    BY <1>2, <1>3 DEF AccountInv, DoneBeforeQueued
  <1>6. \A c \in cancelled : c \notin (created + 1)..(created + k)
    BY <1>1, <1>2
  <1>7. EachIdInOnePlace'
    BY <1>2, <1>4, <1>6 DEF AccountInv, EachIdInOnePlace
  <1> QED
    BY <1>5, <1>7 DEF AccountInv

\* What is said that is no report leaves the account alone.
LEMMA SaidNoReport ==
  ASSUME QueueInv, AccountInv, NEW e \in Event, e.what \notin Reports, events' = Append(events, e)
  PROVE  Done' = Done /\ ReportsAscend'
  BY DoneAfter DEF QueueInv, AccountInv

LEMMA AccountFile ==
  ASSUME QueueInv, AccountInv, NEW left \in 0..MaxWork, AddFile(left)
  PROVE  AccountInv'
  <1> DEFINE op == New(created + 1, "Download", left)
             e  == Added(created + 1)
  <1>1. created + 1 \in Ids /\ created \in Nat /\ created' = created + 1 /\ cancelled' = cancelled
    BY QueueAssumption DEF QueueAssumption, QueueInv, QueueTypeOK, AddFile, Ids
  <1>2. op \in Operation /\ op.id = created + 1
    BY <1>1, NewIsOperation DEF Kinds, New
  <1>3. e \in Event /\ e.what \notin Reports
    BY <1>1 DEF Added, Event, Reports
  <1>4. operations' = Append(operations, op) /\ events' = Append(events, e)
    BY DEF AddFile
  <1> HIDE DEF op, e
  <1>5. Done' = Done /\ ReportsAscend'
    BY <1>3, <1>4, SaidNoReport
  <1>6. Queued' = Queued \cup {created + 1}
    <2>1. /\ DOMAIN operations = 1..Len(operations) /\ Len(operations) \in Nat
          /\ operations' \in Seq(Operation) /\ Len(operations') = Len(operations) + 1
          /\ \A i \in 1..Len(operations) : operations'[i] = operations[i]
          /\ operations'[Len(operations) + 1] = op
      BY <1>2, <1>4, AppendProperties, LenProperties DEF QueueInv, QueueTypeOK
    <2>2. DOMAIN operations' = DOMAIN operations \cup {Len(operations) + 1}
      BY <2>1, LenProperties
    <2> QED
      BY <1>2, <2>1, <2>2 DEF Queued
  <1>7. (created + 1)..(created + 1) = {created + 1}
    BY <1>1
  <1> QED
    BY <1>1, <1>5, <1>6, <1>7, AccountAdded

LEMMA AccountDirectory ==
  ASSUME QueueInv, AccountInv, NEW a \in 1..MaxWork, NEW b \in 0..MaxWork, AddDirectory(a, b)
  PROVE  AccountInv'
  <1> DEFINE scan == New(created + 1, "Scan", a)
             bulk == New(created + 2, "BulkDownload", b)
             e == Added(created + 1)
             f == Added(created + 2)
  <1>1. /\ created + 1 \in Ids /\ created + 2 \in Ids /\ a \in 0..MaxWork
        /\ created \in Nat /\ created' = created + 2 /\ cancelled' = cancelled
    BY QueueAssumption DEF QueueAssumption, QueueInv, QueueTypeOK, AddDirectory, Ids
  <1>2. scan \in Operation /\ scan.id = created + 1 /\ bulk \in Operation /\ bulk.id = created + 2
    BY <1>1, NewIsOperation DEF Kinds, New
  <1>3. /\ e \in Event /\ e.what \notin Reports
        /\ f \in Event /\ f.what \notin Reports
    BY <1>1 DEF Added, Event, Reports
  <1>4. operations' = operations \o <<scan, bulk>> /\ events' = events \o <<e, f>>
    BY DEF AddDirectory
  <1> HIDE DEF scan, bulk, e, f
  <1>5. /\ DOMAIN operations = 1..Len(operations) /\ Len(operations) \in Nat
        /\ DOMAIN operations' = 1..(Len(operations) + 2)
        /\ \A i \in 1..Len(operations) : operations'[i] = operations[i]
        /\ operations'[Len(operations) + 1] = scan /\ operations'[Len(operations) + 2] = bulk
    BY <1>2, <1>4, TwoAppended DEF QueueInv, QueueTypeOK
  <1>6. /\ DOMAIN events = 1..Len(events) /\ Len(events) \in Nat
        /\ DOMAIN events' = 1..(Len(events) + 2)
        /\ \A i \in 1..Len(events) : events'[i] = events[i]
        /\ events'[Len(events) + 1] = e /\ events'[Len(events) + 2] = f
    BY <1>3, <1>4, TwoAppended DEF QueueInv, QueueTypeOK
  <1>7. /\ 1..(Len(operations) + 2) = 1..Len(operations) \cup {Len(operations) + 1, Len(operations) + 2}
        /\ 1..(Len(events) + 2) = 1..Len(events) \cup {Len(events) + 1, Len(events) + 2}
        /\ (created + 1)..(created + 2) = {created + 1, created + 2}
    BY SMTT(30), <1>1, <1>5, <1>6
  <1>8. Queued' = Queued \cup {created + 1, created + 2}
    <2>1. \A i \in DOMAIN operations : i \in DOMAIN operations' /\ operations'[i].id = operations[i].id
      BY <1>5
    <2>2. \A i \in DOMAIN operations' :
             \/ i \in DOMAIN operations
             \/ operations'[i].id \in {created + 1, created + 2}
      BY <1>2, <1>5, <1>7
    <2>3. \A x \in {created + 1, created + 2} : \E i \in DOMAIN operations' : operations'[i].id = x
      BY <1>2, <1>5
    <2> QED
      BY <2>1, <2>2, <2>3 DEF Queued
  <1>9. Done' = Done
    BY SMTT(30), <1>3, <1>6, <1>7 DEF Done
  <1>10. ASSUME NEW i \in DOMAIN events', NEW j \in DOMAIN events',
                i < j, events'[i].what \in Reports, events'[j].what \in Reports
         PROVE  events'[i].of < events'[j].of
    <2>1. i \in DOMAIN events /\ j \in DOMAIN events
      BY <1>3, <1>6, <1>7, <1>10
    <2> QED
      BY <1>6, <1>10, <2>1 DEF AccountInv, ReportsAscend
  <1> QED
    BY <1>1, <1>7, <1>8, <1>9, <1>10, AccountAdded DEF ReportsAscend

LEMMA AccountCancel ==
  ASSUME QueueInv, AccountInv, NEW id \in 1..created, Cancel(id)
  PROVE  AccountInv'
  <1> DEFINE e == [what |-> "Canceled", of |-> id]
  <1>1. e \in Event /\ e.what \notin Reports
    BY QueueAssumption DEF QueueAssumption, QueueInv, QueueTypeOK, Ids, Event, Reports
  <1>2. events' = Append(events, e) /\ created' = created /\ cancelled' = cancelled \cup (Queued \cap {id})
    BY DEF Cancel
  <1> HIDE DEF e
  <1>3. Done' = Done /\ ReportsAscend'
    BY <1>1, <1>2, SaidNoReport
  <1>4. Queued' = Queued \ {id}
    <2>1. CASE PlacesOf(id) = {} /\ UNCHANGED operations
      BY <2>1 DEF PlacesOf, Queued
    <2>2. ASSUME NEW n \in PlacesOf(id), operations' = Without(operations, n)
          PROVE  Queued' = Queued \ {id}
      <3>1. operations \in Seq(Operation) /\ n \in 1..Len(operations) /\ operations[n].id = id
        BY LenProperties DEF PlacesOf, QueueInv, QueueTypeOK
      <3>2. IdsOf(Without(operations, n)) = IdsOf(operations) \ {id}
        BY <3>1, WithoutDropsItsId DEF QueueInv
      <3> QED
        BY <2>2, <3>2 DEF IdsOf, Queued
    <2> QED
      BY <2>1, <2>2 DEF Cancel
  <1> QED
    BY <1>2, <1>3, <1>4, AccountCancelled

LEMMA AccountEmptied ==
  ASSUME QueueInv, AccountInv, operations' = <<>>, cancelled' = cancelled \cup Queued,
         UNCHANGED <<events, created>>
  PROVE  AccountInv'
  <1>1. DOMAIN operations' = {}
    OBVIOUS
  <1>2. Queued' = Queued \ Queued /\ Queued \cap Queued = Queued
    BY <1>1 DEF Queued
  <1>3. Done' = Done /\ ReportsAscend'
    BY DEF Done, AccountInv, ReportsAscend
  <1> QED
    BY <1>2, <1>3, AccountCancelled

LEMMA AccountStep == OneByOneInv /\ [QueueNext]_queueVars => OneByOneInv'
  <1> SUFFICES ASSUME OneByOneInv, [QueueNext]_queueVars PROVE OneByOneInv'
    OBVIOUS
  <1>1. QueueInv /\ QueueInv'
    BY QueueInvStep DEF OneByOneInv
  <1>2. parallelism' = parallelism
    BY DEF QueueNext, queueVars
  <1>3. SUFFICES ASSUME parallelism = 1, AccountInv PROVE AccountInv'
    BY <1>1, <1>2 DEF OneByOneInv
  <1>4. ASSUME UNCHANGED <<operations, events, created, cancelled>> PROVE AccountInv'
    <2>1. Queued' = Queued /\ Done' = Done /\ ReportsAscend'
      BY <1>3, <1>4 DEF Queued, Done, AccountInv, ReportsAscend
    <2> QED
      BY <1>3, <1>4, <2>1, AccountQuiet
  <1>5. CASE UNCHANGED queueVars
    BY <1>4, <1>5 DEF queueVars
  <1>6. CASE LoopEnds \/ LoopWaits \/ TimerExpires \/ TimerHandler
    <2>1. UNCHANGED <<operations, events, created, cancelled>>
      BY <1>6 DEF LoopEnds, LoopWaits, TimerExpires, TimerHandler
    <2> QED
      BY <1>4, <2>1
  <1>7. CASE LoopWorks
    BY <1>1, <1>3, <1>7, AccountWork DEF LoopWorks
  <1>8. CASE CallFile
    BY <1>1, <1>3, <1>8, AccountFile DEF CallFile
  <1>9. CASE CallDirectory
    BY <1>1, <1>3, <1>9, AccountDirectory DEF CallDirectory
  <1>10. CASE CallCancel
    BY <1>1, <1>3, <1>10, AccountCancel DEF CallCancel
  <1>11. CASE CallCancelAll
    BY <1>1, <1>3, <1>11, AccountEmptied DEF CallCancelAll, CancelAll
  <1>12. CASE CallPause
    <2>1. PICK p \in BOOLEAN : PauseUnpause(p)
      BY <1>12 DEF CallPause
    <2> DEFINE e == [what |-> "Toggled", of |-> 0]
    <2>2. e \in Event /\ e.what \notin Reports
      BY DEF Event, Reports
    <2>3. events' = Append(events, e) /\ UNCHANGED <<operations, created, cancelled>>
      BY <2>1 DEF PauseUnpause
    <2> HIDE DEF e
    <2>4. Done' = Done /\ ReportsAscend' /\ Queued' = Queued
      BY <1>1, <1>3, <2>2, <2>3, SaidNoReport DEF Queued
    <2> QED
      BY <1>3, <2>3, <2>4, AccountQuiet
  <1>13. CASE CallDisconnect
    <2>1. operations' = <<>> /\ cancelled' = cancelled \cup Queued /\ UNCHANGED <<events, created>>
      BY <1>13, Zenon DEF CallDisconnect, Disconnect
    <2> QED
      BY <1>1, <1>3, <2>1, AccountEmptied
  <1> QED
    BY <1>5, <1>6, <1>7, <1>8, <1>9, <1>10, <1>11, <1>12, <1>13 DEF QueueNext, Loop

LEMMA AccountInit == QueueInit => OneByOneInv
  <1> SUFFICES ASSUME QueueInit PROVE OneByOneInv
    OBVIOUS
  <1>1. /\ operations = <<>> /\ events = <<>> /\ DOMAIN operations = {} /\ DOMAIN events = {}
        /\ created = 0 /\ cancelled = {}
    BY DEF QueueInit
  <1>2. Queued = {} /\ Done = {} /\ 1..created = {}
    BY <1>1 DEF Queued, Done
  <1> QED
    BY <1>1, <1>2, QueueInit0 DEF OneByOneInv, AccountInv, ReportsAscend, DoneBeforeQueued, EachIdInOnePlace

LEMMA OneByOne == QueueSpec => []OneByOneInv
  BY AccountInit, AccountStep, PTL DEF QueueSpec

(* With one operation at a time, operations are reported in the order in   *)
(* which they were added, whatever is cancelled between.                   *)
THEOREM ReportsComeInOrder == QueueSpec => []ReportsInOrder
  <1>1. OneByOneInv => ReportsInOrder
    BY DEF OneByOneInv, AccountInv, ReportsAscend, ReportsInOrder
  <1> QED
    BY <1>1, OneByOne, PTL

(* With one operation at a time, nothing is dropped and nothing is         *)
(* reported twice: what the frontend was told of is queued, or reported    *)
(* once, or was cancelled.                                                 *)
THEOREM NothingIsDropped == QueueSpec => []EveryOperationAccountedFor
  <1>1. ASSUME OneByOneInv, parallelism = 1, NEW id \in 1..created
        PROVE  Cardinality(PlacesOf(id)) + Cardinality(ReportsAbout(id))
                 + (IF id \in cancelled THEN 1 ELSE 0) = 1
    <2>1. QueueInv /\ AccountInv
      BY <1>1 DEF OneByOneInv
    <2>2. Cardinality(PlacesOf(id)) = IF id \in Queued THEN 1 ELSE 0
      <3>1. CASE id \in Queued
        <4>1. PICK i \in DOMAIN operations : operations[i].id = id
          BY <3>1 DEF Queued
        <4>2. \A j \in DOMAIN operations : j # i => operations[j].id # id
          <5>1. DOMAIN operations \subseteq Nat /\ \A j \in DOMAIN operations : operations[j].id \in Nat
            BY <2>1, LenProperties, QueueAssumption
               DEF QueueInv, QueueTypeOK, IdsAreGiven, QueueAssumption
          <5>2. \A j \in DOMAIN operations : j # i => j < i \/ i < j
            BY <5>1
          <5> QED
            BY <2>1, <4>1, <5>1, <5>2 DEF QueueInv, OrderedById
        <4>3. PlacesOf(id) = {i}
          BY <4>1, <4>2 DEF PlacesOf
        <4> QED
          BY <3>1, <4>3, FS_Singleton
      <3>2. CASE id \notin Queued
        <4>1. PlacesOf(id) = {}
          BY <3>2 DEF PlacesOf, Queued
        <4> QED
          BY <3>2, <4>1, FS_EmptySet
      <3> QED
        BY <3>1, <3>2
    <2>3. Cardinality(ReportsAbout(id)) = IF id \in Done THEN 1 ELSE 0
      <3>1. CASE id \in Done
        <4>1. PICK i \in DOMAIN events : events[i].what \in Reports /\ events[i].of = id
          BY <3>1 DEF Done
        <4>2. \A j \in ReportsAbout(id) : j = i
          <5>1. DOMAIN events \subseteq Nat /\ id \in Nat
            BY <2>1, LenProperties, QueueAssumption DEF QueueInv, QueueTypeOK, QueueAssumption
          <5>2. \A j \in DOMAIN events : j # i => j < i \/ i < j
            BY <5>1
          <5> QED
            BY <2>1, <4>1, <5>1, <5>2 DEF AccountInv, ReportsAscend, ReportsAbout
        <4>3. ReportsAbout(id) = {i}
          BY <4>1, <4>2 DEF ReportsAbout
        <4> QED
          BY <3>1, <4>3, FS_Singleton
      <3>2. CASE id \notin Done
        <4>1. ReportsAbout(id) = {}
          BY <3>2 DEF ReportsAbout, Done
        <4> QED
          BY <3>2, <4>1, FS_EmptySet
      <3> QED
        BY <3>1, <3>2
    <2>4. id \notin Done \/ id \notin Queued
      BY <2>1 DEF AccountInv, DoneBeforeQueued
    <2>5. id \in Queued \cup Done \cup cancelled
      BY <2>1 DEF AccountInv, EachIdInOnePlace
    <2>6. id \in cancelled => id \notin Done /\ id \notin Queued
      BY <2>1 DEF AccountInv, EachIdInOnePlace
    <2> QED
      BY <2>2, <2>3, <2>4, <2>5, <2>6
  <1>2. OneByOneInv => EveryOperationAccountedFor
    BY <1>1 DEF EveryOperationAccountedFor
  <1> QED
    BY <1>2, OneByOne, PTL
-----------------------------------------------------------------------------

Overs == Reports \cup {"Canceled"}
Unread == (read + 1)..Len(events)
SaidAbout(whats, id) == {i \in DOMAIN events : events[i].what \in whats /\ events[i].of = id}

\* An operation is announced once.
AddedOnce ==
    \A i, j \in DOMAIN events :
        events[i].what = "Added" /\ events[j].what = "Added" /\ events[i].of = events[j].of => i = j

\* There is a card only after the announcement was received.
CardsWereAdded == \A id \in CardIds : \E i \in SaidAbout({"Added"}, id) : i \notin Unread

\* What is queued is not said to be over, and has a card or will get one.
QueuedIsShown ==
    \A id \in Queued :
        /\ SaidAbout(Overs, id) = {}
        /\ id \in Unfinished \/ SaidAbout({"Added"}, id) \cap Unread # {}

\* A card that is not over is of a queued operation, or the page will be
\* told.
ShownIsQueued == \A id \in Unfinished : id \in Queued \/ SaidAbout(Overs, id) \cap Unread # {}

\* So it is for the cards still to come, and it is told after them.
ComingIsQueued ==
    \A id \in Ids : \A i \in SaidAbout({"Added"}, id) \cap Unread :
        id \in Queued \/ \E j \in SaidAbout(Overs, id) : i < j

CancelsWereGiven == \A i \in DOMAIN calls : calls[i].call = "cancel" => calls[i].of \in 1..created

AgreeInv == AddedOnce /\ CardsWereAdded /\ QueuedIsShown /\ ShownIsQueued /\ ComingIsQueued

\* What is announced has an id.
AddedHasId == \A i \in DOMAIN events : events[i].what = "Added" => events[i].of \in 1..created

CardsAreGiven == CardIds \subseteq 1..created

BaseInv == CardsTypeOK /\ QueueInv /\ AddedHasId /\ CardsAreGiven /\ CancelsWereGiven

CardsInv == BaseInv /\ (parallelism = 1 => AgreeInv)

-----------------------------------------------------------------------------
(* What the page can see of a step of the strand. *)

\* k more events are on their way.
Told(k) ==
    /\ DOMAIN events' = 1..(Len(events) + k) /\ Len(events') = Len(events) + k
    /\ \A i \in 1..Len(events) : events'[i] = events[i]

News(k) == (Len(events) + 1)..(Len(events) + k)

\* Nothing is queued or dropped, and no more is said than what the pause
\* button is about.
Answered ==
    /\ Queued' = Queued /\ created' = created
    /\ \E k \in {0, 1} :
         /\ Told(k)
         /\ \A i \in News(k) : events'[i].what \in {"Toggled", "Paused", "Unpaused"}

\* One operation, if it was queued, is dropped, and this is said; with
\* several at a time it may be said of another one.
Dropped ==
    \E id, said \in Ids :
        /\ Queued' = Queued \ {id} /\ created' = created
        /\ parallelism = 1 => said = id
        /\ Told(1)
        /\ \A i \in News(1) : events'[i].what \in Overs /\ events'[i].of = said

\* One or two operations are added.
Grown ==
    \E k \in {1, 2} :
        /\ Queued' = Queued \cup (created + 1)..(created + k) /\ created' = created + k
        /\ Told(k)
        /\ \A i \in News(k) : events'[i] = Added(created + (i - Len(events)))

Unseen == Queued' = Queued /\ created' = created /\ Told(0) /\ News(0) = {}

LEMMA OneTold ==
  ASSUME QueueTypeOK, NEW e \in Event, events' = Append(events, e)
  PROVE  Told(1) /\ \A i \in News(1) : events'[i] = e
  <1>1. /\ events' \in Seq(Event) /\ DOMAIN events' = 1..(Len(events) + 1)
        /\ DOMAIN events = 1..Len(events) /\ Len(events) \in Nat
        /\ \A i \in 1..Len(events) : events'[i] = events[i]
        /\ events'[Len(events) + 1] = e
    BY EventAppended
  <1>2. Len(events') = Len(events) + 1
    BY AppendProperties DEF QueueTypeOK
  <1>3. News(1) = {Len(events) + 1}
    BY <1>1 DEF News
  <1> QED
    BY <1>1, <1>2, <1>3 DEF Told

LEMMA NothingTold ==
  ASSUME QueueTypeOK, UNCHANGED <<Queued, created, events>>
  PROVE  Unseen
  <1>1. DOMAIN events = 1..Len(events) /\ Len(events) \in Nat
    BY LenProperties DEF QueueTypeOK
  <1>2. Told(0) /\ News(0) = {}
    BY <1>1 DEF Told, News
  <1> QED
    BY <1>2 DEF Unseen

LEMMA WorkIsSeen ==
  ASSUME QueueInv, Work, created' = created
  PROVE  Unseen \/ Dropped
  <1>1. PICK s, n : /\ RoundTo(s, n)
                    /\ \/ operations' = s /\ UNCHANGED events
                       \/ operations' = Without(s, n) /\ Report("Failed", n)
                       \/ operations' = Without(s, 1) /\ Report("Completed", n)
    BY WorkHasShape DEF QueueInv, WorkShape
  <1>2. n \in 1..Len(operations) /\ 1 \in 1..Len(operations) /\ (parallelism = 1 => n = 1)
    BY <1>1, LenProperties DEF RoundTo, QueueInv, QueueTypeOK
  <1>3. /\ s \in Seq(Operation) /\ DOMAIN s = DOMAIN operations /\ n \in 1..Len(s) /\ 1 \in 1..Len(s)
        /\ OrderedById(s)
        /\ \A i \in DOMAIN s : s[i].id = operations[i].id
    BY <1>1, RoundKeeps
  <1>4. IdsOf(s) = Queued
    BY <1>3 DEF IdsOf, Queued
  <1>5. CASE operations' = s /\ UNCHANGED events
    <2>1. Queued' = Queued
      BY <1>4, <1>5 DEF IdsOf, Queued
    <2> QED
      BY <1>5, <2>1, NothingTold DEF QueueInv
  <1>6. ASSUME NEW m \in {1, n}, NEW what \in Reports, operations' = Without(s, m), Report(what, n)
        PROVE  Dropped
    <2> DEFINE said == operations[n].id
               id == operations[m].id
               e == [what |-> what, of |-> said]
    <2>1. e \in Event /\ events' = Append(events, e) /\ e.what \in Overs /\ e.of = said
      BY <1>2, <1>6, ReportIsEvent DEF Report, QueueInv, Overs
    <2>2. Queued' = Queued \ {id}
      <3>1. IdsOf(Without(s, m)) = IdsOf(s) \ {s[m].id}
        BY <1>3, WithoutDropsItsId
      <3>2. s[m].id = id
        BY <1>3, LenProperties
      <3>3. Queued' = IdsOf(Without(s, m))
        BY <1>6 DEF Queued, IdsOf
      <3> QED
        BY <1>4, <3>1, <3>2, <3>3
    <2>3. said \in Ids /\ id \in Ids
      <3>1. operations[m] \in Operation /\ operations[n] \in Operation
        BY <1>2, ElementOfSeq DEF QueueInv, QueueTypeOK
      <3> QED
        BY <3>1 DEF Operation
    <2>4. parallelism = 1 => said = id
      BY <1>2
    <2> HIDE DEF e, id, said
    <2>5. Told(1) /\ \A i \in News(1) : events'[i] = e
      BY <2>1, OneTold DEF QueueInv
    <2> QED
      BY <2>1, <2>2, <2>3, <2>4, <2>5 DEF Dropped
  <1> QED
    BY <1>1, <1>5, <1>6 DEF Reports

LEMMA CancelIsSeen ==
  ASSUME QueueInv, NEW id \in 1..created, Cancel(id)
  PROVE  Dropped
  <1> DEFINE e == [what |-> "Canceled", of |-> id]
  <1>1. id \in Ids /\ e \in Event /\ e.what \in Overs /\ e.of = id
    BY QueueAssumption DEF QueueAssumption, QueueInv, QueueTypeOK, Ids, Event, Reports, Overs
  <1>2. events' = Append(events, e) /\ created' = created
    BY DEF Cancel
  <1> HIDE DEF e
  <1>3. Told(1) /\ \A i \in News(1) : events'[i] = e
    BY <1>1, <1>2, OneTold DEF QueueInv
  <1>4. Queued' = Queued \ {id}
    <2>1. CASE PlacesOf(id) = {} /\ UNCHANGED operations
      BY <2>1 DEF PlacesOf, Queued
    <2>2. ASSUME NEW n \in PlacesOf(id), operations' = Without(operations, n)
          PROVE  Queued' = Queued \ {id}
      <3>1. operations \in Seq(Operation) /\ n \in 1..Len(operations) /\ operations[n].id = id
        BY LenProperties DEF PlacesOf, QueueInv, QueueTypeOK
      <3>2. IdsOf(Without(operations, n)) = IdsOf(operations) \ {id}
        BY <3>1, WithoutDropsItsId DEF QueueInv
      <3> QED
        BY <2>2, <3>2 DEF IdsOf, Queued
    <2> QED
      BY <2>1, <2>2 DEF Cancel
  <1> QED
    BY <1>1, <1>2, <1>3, <1>4 DEF Dropped

LEMMA FileIsSeen ==
  ASSUME QueueInv, NEW left \in 0..MaxWork, AddFile(left)
  PROVE  Grown
  <1> DEFINE op == New(created + 1, "Download", left)
             e  == Added(created + 1)
  <1>1. created + 1 \in Ids /\ created \in Nat /\ created' = created + 1
    BY QueueAssumption DEF QueueAssumption, QueueInv, QueueTypeOK, AddFile, Ids
  <1>2. op \in Operation /\ op.id = created + 1
    BY <1>1, NewIsOperation DEF Kinds, New
  <1>3. e \in Event
    BY <1>1 DEF Added, Event
  <1>4. operations' = Append(operations, op) /\ events' = Append(events, e)
    BY DEF AddFile
  <1> HIDE DEF op, e
  <1>5. Told(1) /\ \A i \in News(1) : events'[i] = e
    BY <1>3, <1>4, OneTold DEF QueueInv
  <1>6. Queued' = Queued \cup {created + 1}
    <2>1. /\ DOMAIN operations = 1..Len(operations) /\ Len(operations) \in Nat
          /\ operations' \in Seq(Operation) /\ Len(operations') = Len(operations) + 1
          /\ \A i \in 1..Len(operations) : operations'[i] = operations[i]
          /\ operations'[Len(operations) + 1] = op
      BY <1>2, <1>4, AppendProperties, LenProperties DEF QueueInv, QueueTypeOK
    <2>2. DOMAIN operations' = DOMAIN operations \cup {Len(operations) + 1}
      BY <2>1, LenProperties
    <2> QED
      BY <1>2, <2>1, <2>2 DEF Queued
  <1>7. (created + 1)..(created + 1) = {created + 1}
    BY <1>1
  <1>8. \A i \in News(1) : e = Added(created + (i - Len(events)))
    <2>1. Len(events) \in Nat
      BY LenProperties DEF QueueInv, QueueTypeOK
    <2>2. \A i \in News(1) : i - Len(events) = 1
      BY <2>1 DEF News
    <2> QED
      BY <2>2 DEF e
  <1> QED
    BY <1>1, <1>5, <1>6, <1>7, <1>8 DEF Grown

LEMMA DirectoryIsSeen ==
  ASSUME QueueInv, NEW a \in 1..MaxWork, NEW b \in 0..MaxWork, AddDirectory(a, b)
  PROVE  Grown
  <1> DEFINE scan == New(created + 1, "Scan", a)
             bulk == New(created + 2, "BulkDownload", b)
             e == Added(created + 1)
             f == Added(created + 2)
  <1>1. /\ created + 1 \in Ids /\ created + 2 \in Ids /\ a \in 0..MaxWork
        /\ created \in Nat /\ created' = created + 2
    BY QueueAssumption DEF QueueAssumption, QueueInv, QueueTypeOK, AddDirectory, Ids
  <1>2. scan \in Operation /\ scan.id = created + 1 /\ bulk \in Operation /\ bulk.id = created + 2
    BY <1>1, NewIsOperation DEF Kinds, New
  <1>3. e \in Event /\ f \in Event
    BY <1>1 DEF Added, Event
  <1>4. operations' = operations \o <<scan, bulk>> /\ events' = events \o <<e, f>>
    BY DEF AddDirectory
  <1> HIDE DEF scan, bulk, e, f
  <1>5. /\ DOMAIN operations = 1..Len(operations) /\ Len(operations) \in Nat
        /\ DOMAIN operations' = 1..(Len(operations) + 2)
        /\ \A i \in 1..Len(operations) : operations'[i] = operations[i]
        /\ operations'[Len(operations) + 1] = scan /\ operations'[Len(operations) + 2] = bulk
    BY <1>2, <1>4, TwoAppended DEF QueueInv, QueueTypeOK
  <1>6. /\ DOMAIN events = 1..Len(events) /\ Len(events) \in Nat
        /\ events' \in Seq(Event) /\ DOMAIN events' = 1..(Len(events) + 2)
        /\ \A i \in 1..Len(events) : events'[i] = events[i]
        /\ events'[Len(events) + 1] = e /\ events'[Len(events) + 2] = f
    BY <1>3, <1>4, TwoAppended DEF QueueInv, QueueTypeOK
  <1>7. /\ 1..(Len(operations) + 2) = 1..Len(operations) \cup {Len(operations) + 1, Len(operations) + 2}
        /\ (created + 1)..(created + 2) = {created + 1, created + 2}
        /\ News(2) = {Len(events) + 1, Len(events) + 2}
    <2>1. \A m \in Nat : 1..(m + 2) = 1..m \cup {m + 1, m + 2} /\ (m + 1)..(m + 2) = {m + 1, m + 2}
      BY SMTT(30)
    <2>2. Len(operations) \in Nat /\ Len(events) \in Nat /\ created \in Nat
      BY <1>1, <1>5, <1>6
    <2> QED
      BY <2>1, <2>2 DEF News
  <1>8. Queued' = Queued \cup {created + 1, created + 2}
    <2>1. \A i \in DOMAIN operations : i \in DOMAIN operations' /\ operations'[i].id = operations[i].id
      BY <1>5
    <2>2. \A i \in DOMAIN operations' :
             \/ i \in DOMAIN operations
             \/ operations'[i].id \in {created + 1, created + 2}
      BY <1>2, <1>5, <1>7
    <2>3. \A x \in {created + 1, created + 2} : \E i \in DOMAIN operations' : operations'[i].id = x
      BY <1>2, <1>5
    <2> QED
      BY <2>1, <2>2, <2>3 DEF Queued
  <1>9. Told(2)
    <2>1. Len(events') \in Nat /\ 1..Len(events') = 1..(Len(events) + 2)
      BY <1>6, LenProperties
    <2>2. Len(events') = Len(events) + 2
      BY <1>6, <2>1
    <2> QED
      BY <1>6, <2>2 DEF Told
  <1>10. \A i \in News(2) : events'[i] = Added(created + (i - Len(events)))
    <2>1. /\ Len(events) + 1 - Len(events) = 1
          /\ Len(events) + 2 - Len(events) = 2
      BY <1>6
    <2> QED
      BY <1>6, <1>7, <2>1 DEF e, f
  <1> QED
    BY <1>1, <1>7, <1>8, <1>9, <1>10 DEF Grown

\* The steps of the strand that the page's calls and the loop make.
CardsMove ==
    /\ UNCHANGED parallelism
    /\ Loop \/ AddsFile \/ AddsDirectory \/ Cancels \/ Pauses \/ IsPaused

LEMMA CardsMoveIsMove == CardsMove => QueueMove
  BY DEF CardsMove, QueueMove

LEMMA QueueIsSeen ==
  ASSUME QueueInv, UNCHANGED parallelism, Loop \/ AddsFile \/ AddsDirectory \/ Cancels
  PROVE  (Unseen \/ Dropped \/ Grown) /\ paused' = paused
  <1>1. QueueTypeOK
    BY DEF QueueInv
  <1>2. CASE LoopEnds \/ LoopWaits \/ TimerExpires \/ TimerHandler
    <2>1. UNCHANGED <<operations, created, events, paused>>
      BY <1>2 DEF LoopEnds, LoopWaits, TimerExpires, TimerHandler
    <2>2. Queued' = Queued
      BY <2>1 DEF Queued
    <2> QED
      BY <1>1, <2>1, <2>2, NothingTold
  <1>3. CASE LoopWorks
    BY <1>3, WorkIsSeen DEF LoopWorks
  <1>4. CASE AddsFile
    BY <1>4, FileIsSeen DEF AddsFile, AddFile
  <1>5. CASE AddsDirectory
    BY <1>5, DirectoryIsSeen DEF AddsDirectory, AddDirectory
  <1>6. CASE Cancels
    BY <1>6, CancelIsSeen DEF Cancels, Cancel
  <1> QED
    BY <1>2, <1>3, <1>4, <1>5, <1>6 DEF Loop

\* A call about the pause state is answered.
LEMMA AnswerIsSeen ==
  ASSUME QueueInv, NEW what \in {"Toggled", "Paused", "Unpaused"}, UNCHANGED <<operations, created>>,
         events' = Append(events, [what |-> what, of |-> 0])
  PROVE  Answered /\ Told(1) /\ \A i \in News(1) : events'[i].what = what
  <1> DEFINE e == [what |-> what, of |-> 0]
  <1>1. e \in Event /\ e.what = what
    BY DEF Event
  <1>2. events' = Append(events, e)
    OBVIOUS
  <1> HIDE DEF e
  <1>3. Told(1) /\ \A i \in News(1) : events'[i] = e
    BY <1>1, <1>2, OneTold DEF QueueInv
  <1>4. Queued' = Queued
    BY DEF Queued
  <1> QED
    BY <1>1, <1>3, <1>4 DEF Answered

LEMMA StrandIsSeen == QueueInv /\ CardsMove => Answered \/ Dropped \/ Grown
  <1> SUFFICES ASSUME QueueInv, CardsMove PROVE Answered \/ Dropped \/ Grown
    OBVIOUS
  <1>1. CASE Loop \/ AddsFile \/ AddsDirectory \/ Cancels
    <2>1. Unseen => Answered
      BY DEF Unseen, Answered
    <2> QED
      BY <1>1, <2>1, QueueIsSeen DEF CardsMove
  <1>2. CASE Pauses
    BY <1>2, AnswerIsSeen DEF Pauses, PauseUnpause
  <1>3. CASE IsPaused
    <2>1. UNCHANGED <<operations, created>>
      BY <1>3 DEF IsPaused
    <2>2. \E what \in {"Toggled", "Paused", "Unpaused"} :
             events' = Append(events, [what |-> what, of |-> 0])
      BY <1>3 DEF IsPaused
    <2> QED
      BY <2>1, <2>2, AnswerIsSeen
  <1> QED
    BY <1>1, <1>2, <1>3 DEF CardsMove

-----------------------------------------------------------------------------
(* The cards agree with the queue: the steps of the strand. *)

\* What was said stays said, and what is new is unread.
LEMMA SaidLater ==
  ASSUME CardsTypeOK, NEW k \in Nat, Told(k), UNCHANGED read
  PROVE  /\ \A whats, id : \A i \in SaidAbout(whats, id) : i \in SaidAbout(whats, id)'
         /\ \A whats, id : \A i \in SaidAbout(whats, id)' :
              \/ i \in SaidAbout(whats, id)
              \/ i \in News(k) /\ events'[i].what \in whats /\ events'[i].of = id
         /\ \A i \in DOMAIN events : i \in Unread' <=> i \in Unread
         /\ \A i \in News(k) : i \in DOMAIN events' /\ i \in Unread'
         /\ \A i \in DOMAIN events, j \in News(k) : i < j
         /\ \A i \in DOMAIN events : i \in DOMAIN events' /\ events'[i] = events[i]
         /\ \A i \in DOMAIN events' : i \in DOMAIN events \/ i \in News(k)
  <1>1. DOMAIN events = 1..Len(events) /\ Len(events) \in Nat /\ read \in 0..Len(events) /\ read' = read
    BY LenProperties DEF CardsTypeOK, QueueTypeOK
  <1>2. /\ DOMAIN events' = 1..(Len(events) + k) /\ Len(events') = Len(events) + k
        /\ \A i \in 1..Len(events) : events'[i] = events[i]
    BY DEF Told
  <1>3. /\ \A i \in 1..Len(events) : i \in 1..(Len(events) + k)
        /\ \A i \in 1..(Len(events) + k) : i \in 1..Len(events) \/ i \in News(k)
        /\ \A i \in News(k) : i \in 1..(Len(events) + k) /\ i \in (read + 1)..(Len(events) + k)
        /\ \A i \in 1..Len(events), j \in News(k) : i < j
        /\ \A i \in 1..Len(events) : i \in (read + 1)..(Len(events) + k) <=> i \in (read + 1)..Len(events)
    BY <1>1 DEF News
  <1>4. Unread' = (read + 1)..(Len(events) + k) /\ Unread = (read + 1)..Len(events)
    BY <1>1, <1>2 DEF Unread
  <1>5. ASSUME NEW whats, NEW id
        PROVE  /\ \A i \in SaidAbout(whats, id) : i \in SaidAbout(whats, id)'
               /\ \A i \in SaidAbout(whats, id)' :
                    \/ i \in SaidAbout(whats, id)
                    \/ i \in News(k) /\ events'[i].what \in whats /\ events'[i].of = id
    BY <1>1, <1>2, <1>3 DEF SaidAbout
  <1> QED
    BY <1>1, <1>2, <1>3, <1>4, <1>5

LEMMA NothingNewSaid ==
  ASSUME CardsTypeOK, NEW k \in Nat, Told(k), UNCHANGED read, NEW whats, NEW id,
         \A i \in News(k) : events'[i].what \notin whats \/ events'[i].of # id
  PROVE  SaidAbout(whats, id)' = SaidAbout(whats, id)
  <1>1. \A i \in SaidAbout(whats, id) : i \in SaidAbout(whats, id)'
    BY SaidLater
  <1>2. \A i \in SaidAbout(whats, id)' :
           \/ i \in SaidAbout(whats, id)
           \/ i \in News(k) /\ events'[i].what \in whats /\ events'[i].of = id
    BY SaidLater
  <1> QED
    BY <1>1, <1>2

LEMMA CardsStay == ASSUME UNCHANGED cards PROVE CardIds' = CardIds /\ Unfinished' = Unfinished
  BY DEF CardIds, Unfinished, IsCompletedState

LEMMA AnsweredKeeps ==
  ASSUME CardsTypeOK, AgreeInv, UNCHANGED <<cards, read>>, Answered
  PROVE  AgreeInv'
  <1>1. PICK k \in {0, 1} : Told(k) /\ \A i \in News(k) : events'[i].what \in {"Toggled", "Paused", "Unpaused"}
    BY DEF Answered
  <1>2. Queued' = Queued /\ CardIds' = CardIds /\ Unfinished' = Unfinished
    BY CardsStay DEF Answered
  <1>3. /\ \A whats, id : \A i \in SaidAbout(whats, id) : i \in SaidAbout(whats, id)'
        /\ \A whats, id : \A i \in SaidAbout(whats, id)' :
              \/ i \in SaidAbout(whats, id)
              \/ i \in News(k) /\ events'[i].what \in whats /\ events'[i].of = id
        /\ \A i \in DOMAIN events : i \in Unread' <=> i \in Unread
        /\ \A i \in DOMAIN events : i \in DOMAIN events' /\ events'[i] = events[i]
        /\ \A i \in DOMAIN events' : i \in DOMAIN events \/ i \in News(k)
    BY <1>1, SaidLater
  <1>4. \A whats, id : SaidAbout(whats, id) \subseteq DOMAIN events
    BY DEF SaidAbout
  <1>5. /\ \A id : SaidAbout({"Added"}, id)' = SaidAbout({"Added"}, id)
        /\ \A id : SaidAbout(Overs, id)' = SaidAbout(Overs, id)
    <2>1. \A i \in News(k) : events'[i].what \notin {"Added"} /\ events'[i].what \notin Overs
      BY <1>1 DEF Overs, Reports
    <2> QED
      BY <1>1, <2>1, NothingNewSaid
  <1>6. AddedOnce'
    BY <1>1, <1>3 DEF AgreeInv, AddedOnce
  <1>7. CardsWereAdded'
    BY <1>2, <1>3, <1>4, <1>5 DEF AgreeInv, CardsWereAdded
  <1>8. QueuedIsShown'
    BY <1>2, <1>3, <1>4, <1>5 DEF AgreeInv, QueuedIsShown
  <1>9. ShownIsQueued'
    BY <1>2, <1>3, <1>4, <1>5 DEF AgreeInv, ShownIsQueued
  <1>10. ComingIsQueued'
    BY <1>2, <1>3, <1>4, <1>5 DEF AgreeInv, ComingIsQueued
  <1> QED
    BY <1>6, <1>7, <1>8, <1>9, <1>10 DEF AgreeInv

LEMMA DroppedKeeps ==
  ASSUME CardsTypeOK, AgreeInv, UNCHANGED <<cards, read>>, Dropped, parallelism = 1
  PROVE  AgreeInv'
  <1>1. PICK gone \in Ids : /\ Queued' = Queued \ {gone}
                            /\ Told(1)
                            /\ \A i \in News(1) : events'[i].what \in Overs /\ events'[i].of = gone
    BY DEF Dropped
  <1>2. CardIds' = CardIds /\ Unfinished' = Unfinished
    BY CardsStay
  <1>3. /\ \A whats, id : \A i \in SaidAbout(whats, id) : i \in SaidAbout(whats, id)'
        /\ \A whats, id : \A i \in SaidAbout(whats, id)' :
              \/ i \in SaidAbout(whats, id)
              \/ i \in News(1) /\ events'[i].what \in whats /\ events'[i].of = id
        /\ \A i \in DOMAIN events : i \in Unread' <=> i \in Unread
        /\ \A i \in News(1) : i \in DOMAIN events' /\ i \in Unread'
        /\ \A i \in DOMAIN events, j \in News(1) : i < j
        /\ \A i \in DOMAIN events : i \in DOMAIN events' /\ events'[i] = events[i]
        /\ \A i \in DOMAIN events' : i \in DOMAIN events \/ i \in News(1)
    BY <1>1, SaidLater
  <1>4. \A whats, id : SaidAbout(whats, id) \subseteq DOMAIN events
    BY DEF SaidAbout
  <1>5. /\ \A id : SaidAbout({"Added"}, id)' = SaidAbout({"Added"}, id)
        /\ \A id : id # gone => SaidAbout(Overs, id)' = SaidAbout(Overs, id)
    <2>1. \A i \in News(1) : events'[i].what \notin {"Added"} /\ events'[i].of = gone
      BY <1>1 DEF Overs, Reports
    <2> QED
      BY <1>1, <2>1, NothingNewSaid
  <1>6. PICK last \in News(1) : last \in SaidAbout(Overs, gone)' /\ last \in Unread'
    <2>1. Len(events) + 1 \in News(1)
      BY LenProperties DEF News, CardsTypeOK, QueueTypeOK
    <2> QED
      BY <1>1, <1>3, <2>1 DEF SaidAbout
  <1>7. AddedOnce'
    BY <1>1, <1>3 DEF AgreeInv, AddedOnce, Overs, Reports
  <1>8. CardsWereAdded'
    BY <1>2, <1>3, <1>4, <1>5 DEF AgreeInv, CardsWereAdded
  <1>9. QueuedIsShown'
    BY <1>1, <1>2, <1>3, <1>4, <1>5 DEF AgreeInv, QueuedIsShown
  <1>10. ShownIsQueued'
    BY <1>1, <1>2, <1>3, <1>4, <1>5, <1>6 DEF AgreeInv, ShownIsQueued
  <1>11. ComingIsQueued'
    BY <1>1, <1>2, <1>3, <1>4, <1>5, <1>6 DEF AgreeInv, ComingIsQueued
  <1> QED
    BY <1>7, <1>8, <1>9, <1>10, <1>11 DEF AgreeInv

LEMMA GrownKeeps ==
  ASSUME CardsTypeOK, QueueInv, AgreeInv, UNCHANGED <<cards, read>>, Grown
  PROVE  AgreeInv'
  <1>1. PICK k \in {1, 2} : /\ Queued' = Queued \cup (created + 1)..(created + k)
                            /\ Told(k)
                            /\ \A i \in News(k) : events'[i] = Added(created + (i - Len(events)))
    BY DEF Grown
  <1>2. CardIds' = CardIds /\ Unfinished' = Unfinished
    BY CardsStay
  <1>3. /\ \A whats, id : \A i \in SaidAbout(whats, id) : i \in SaidAbout(whats, id)'
        /\ \A whats, id : \A i \in SaidAbout(whats, id)' :
              \/ i \in SaidAbout(whats, id)
              \/ i \in News(k) /\ events'[i].what \in whats /\ events'[i].of = id
        /\ \A i \in DOMAIN events : i \in Unread' <=> i \in Unread
        /\ \A i \in News(k) : i \in DOMAIN events' /\ i \in Unread'
        /\ \A i \in DOMAIN events : i \in DOMAIN events' /\ events'[i] = events[i]
        /\ \A i \in DOMAIN events' : i \in DOMAIN events \/ i \in News(k)
    BY <1>1, SaidLater
  <1>4. \A whats, id : SaidAbout(whats, id) \subseteq DOMAIN events
    BY DEF SaidAbout
  <1>5. Len(events) \in Nat /\ created \in Nat
    BY LenProperties, QueueAssumption DEF CardsTypeOK, QueueTypeOK, QueueAssumption
  <1> DEFINE new == (created + 1)..(created + k)
             given(i) == created + (i - Len(events))
  <1>6. /\ \A i \in News(k) : given(i) \in new
        /\ \A i, j \in News(k) : given(i) = given(j) => i = j
        /\ \A id \in new : \E i \in News(k) : given(i) = id
        /\ \A id \in new : id \notin 0..created
    <2>1. \A i \in News(k) : given(i) \in new
      BY <1>5 DEF News
    <2>2. \A i, j \in News(k) : given(i) = given(j) => i = j
      BY <1>5 DEF News
    <2>3. ASSUME NEW id \in new PROVE \E i \in News(k) : given(i) = id
      <3>1. Len(events) + (id - created) \in News(k) /\ given(Len(events) + (id - created)) = id
        BY <1>5 DEF News
      <3> QED
        BY <3>1
    <2>4. \A id \in new : id \notin 0..created
      BY <1>5
    <2> QED
      BY <2>1, <2>2, <2>3, <2>4
  <1> HIDE DEF new
  <1>7. \A i \in News(k) : events'[i].what = "Added" /\ events'[i].of = given(i)
    <2>1. \A i \in News(k) : events'[i] = Added(given(i))
      BY <1>1
    <2>2. \A id : Added(id).what = "Added" /\ Added(id).of = id
      BY DEF Added
    <2> HIDE DEF given
    <2> SUFFICES ASSUME NEW i \in News(k) PROVE events'[i].what = "Added" /\ events'[i].of = given(i)
      OBVIOUS
    <2>3. events'[i] = Added(given(i))
      BY <2>1
    <2>4. Added(given(i)).what = "Added" /\ Added(given(i)).of = given(i)
      BY <2>2
    <2> QED
      BY <2>3, <2>4
  <1> HIDE DEF given
  <1>8. \A i \in DOMAIN events : events[i].of \notin new
    BY <1>6 DEF QueueInv, IdsAreGiven
  <1>9. \A id : SaidAbout(Overs, id)' = SaidAbout(Overs, id)
    <2>1. \A i \in News(k) : events'[i].what \notin Overs
      BY <1>7 DEF Overs, Reports
    <2> QED
      BY <1>1, <2>1, NothingNewSaid
  <1>10. \A id \in new : SaidAbout(Overs, id) = {}
    BY <1>8 DEF SaidAbout
  <1>11. \A id \in new : SaidAbout({"Added"}, id)' \cap Unread' # {}
    <2>1. ASSUME NEW id \in new PROVE \E i \in News(k) : i \in SaidAbout({"Added"}, id)'
      <3>1. PICK i \in News(k) : given(i) = id
        BY <1>6
      <3> QED
        BY <1>3, <1>7, <3>1 DEF SaidAbout
    <2> QED
      BY <1>3, <2>1
  <1>12. Queued' = Queued \cup new
    BY <1>1 DEF new
  <1>13. AddedOnce'
    <2> SUFFICES ASSUME NEW i \in DOMAIN events', NEW j \in DOMAIN events',
                        events'[i].what = "Added", events'[j].what = "Added", events'[i].of = events'[j].of
                 PROVE  i = j
      BY DEF AddedOnce
    <2>1. CASE i \in DOMAIN events /\ j \in DOMAIN events
      BY <1>3, <2>1 DEF AgreeInv, AddedOnce
    <2>2. CASE i \in News(k) /\ j \in News(k)
      BY <1>6, <1>7, <2>2
    <2>3. ~(i \in DOMAIN events /\ j \in News(k)) /\ ~(j \in DOMAIN events /\ i \in News(k))
      BY <1>3, <1>6, <1>7, <1>8
    <2> QED
      BY <1>3, <2>1, <2>2, <2>3
  <1>14. CardsWereAdded'
    BY <1>2, <1>3, <1>4 DEF AgreeInv, CardsWereAdded
  <1>15. QueuedIsShown'
    <2> SUFFICES ASSUME NEW id \in Queued'
                 PROVE  /\ SaidAbout(Overs, id)' = {}
                        /\ id \in Unfinished' \/ SaidAbout({"Added"}, id)' \cap Unread' # {}
      BY DEF QueuedIsShown
    <2>1. CASE id \in new
      BY <1>9, <1>10, <1>11, <2>1
    <2>2. CASE id \in Queued
      BY <1>2, <1>3, <1>4, <1>9, <2>2 DEF AgreeInv, QueuedIsShown
    <2> QED
      BY <1>12, <2>1, <2>2
  <1>16. ShownIsQueued'
    BY <1>2, <1>3, <1>4, <1>9, <1>12 DEF AgreeInv, ShownIsQueued
  <1>17. ComingIsQueued'
    <2> SUFFICES ASSUME NEW id \in Ids, NEW i \in SaidAbout({"Added"}, id)', i \in Unread'
                 PROVE  id \in Queued' \/ \E j \in SaidAbout(Overs, id)' : i < j
      BY DEF ComingIsQueued
    <2>1. CASE i \in SaidAbout({"Added"}, id)
      BY <1>3, <1>4, <1>9, <1>12, <2>1 DEF AgreeInv, ComingIsQueued
    <2>2. CASE i \in News(k)
      BY <1>6, <1>7, <1>8, <1>12, <2>2 DEF SaidAbout
    <2> QED
      BY <1>3, <2>1, <2>2
  <1> QED
    BY <1>13, <1>14, <1>15, <1>16, <1>17 DEF AgreeInv

-----------------------------------------------------------------------------
(* The cards agree with the queue: the steps of the page. *)

LEMMA WithoutKeepsOthers ==
  ASSUME NEW S, NEW s \in Seq(S), NEW n \in 1..Len(s)
  PROVE  /\ \A i \in DOMAIN Without(s, n) : \E k \in DOMAIN s : Without(s, n)[i] = s[k]
         /\ \A k \in DOMAIN s : k # n => \E i \in DOMAIN Without(s, n) : Without(s, n)[i] = s[k]
  <1> DEFINE w == Without(s, n)
             at(i) == IF i < n THEN i ELSE i + 1
  <1>1. /\ DOMAIN w = 1..(Len(s) - 1) /\ DOMAIN s = 1..Len(s) /\ Len(s) \in Nat /\ n \in Nat
        /\ \A i \in 1..(Len(s) - 1) : w[i] = s[at(i)]
    <2>1. /\ w \in Seq(S) /\ Len(w) = Len(s) - 1
          /\ \A i \in 1..(Len(s) - 1) : w[i] = s[IF i < n THEN i ELSE i + 1]
      BY WithoutProperties
    <2> HIDE DEF w
    <2>2. DOMAIN w = 1..(Len(s) - 1) /\ DOMAIN s = 1..Len(s) /\ Len(s) \in Nat
      BY <2>1, LenProperties
    <2> QED
      BY <2>1, <2>2
  <1>2. \A i \in 1..(Len(s) - 1) : at(i) \in 1..Len(s)
    BY <1>1
  <1>3. \A k \in 1..Len(s) : k # n => \E i \in 1..(Len(s) - 1) : at(i) = k
    <2>1. ASSUME NEW k \in 1..Len(s), k < n PROVE k \in 1..(Len(s) - 1) /\ at(k) = k
      BY <1>1, <2>1
    <2>2. ASSUME NEW k \in 1..Len(s), n < k PROVE k - 1 \in 1..(Len(s) - 1) /\ at(k - 1) = k
      BY <1>1, <2>2
    <2> HIDE DEF at
    <2>3. \A k \in 1..Len(s) : k # n => k < n \/ n < k
      BY <1>1
    <2> QED
      BY <2>1, <2>2, <2>3
  <1> HIDE DEF w, at
  <1> QED
    BY <1>1, <1>2, <1>3 DEF w

\* A card that is over goes.
LEMMA CardRemoved ==
  ASSUME cards \in Seq(Card), NEW n \in DOMAIN cards, IsCompletedState(cards[n]), cards' = Without(cards, n)
  PROVE  cards' \in Seq(Card) /\ CardIds' \subseteq CardIds /\ Unfinished' = Unfinished
  <1>1. n \in 1..Len(cards)
    BY LenProperties
  <1>2. cards' \in Seq(Card)
    BY <1>1, WithoutProperties
  <1>3. /\ \A i \in DOMAIN cards' : \E k \in DOMAIN cards : cards'[i] = cards[k]
        /\ \A k \in DOMAIN cards : k # n => \E i \in DOMAIN cards' : cards'[i] = cards[k]
    BY <1>1, WithoutKeepsOthers
  <1>4. CardIds' \subseteq CardIds
    BY <1>3 DEF CardIds
  <1>5. Unfinished' = Unfinished
    <2>1. ASSUME NEW id \in Unfinished PROVE id \in Unfinished'
      <3>1. PICK k \in DOMAIN cards : ~IsCompletedState(cards[k]) /\ cards[k].id = id
        BY <2>1 DEF Unfinished
      <3>2. PICK i \in DOMAIN cards' : cards'[i] = cards[k]
        BY <1>3, <3>1
      <3> QED
        BY <3>1, <3>2 DEF Unfinished, IsCompletedState
    <2>2. ASSUME NEW id \in Unfinished' PROVE id \in Unfinished
      <3>1. PICK i \in DOMAIN cards' : ~IsCompletedState(cards[i])' /\ cards'[i].id = id
        BY <2>2 DEF Unfinished, IsCompletedState
      <3>2. PICK k \in DOMAIN cards : cards'[i] = cards[k]
        BY <1>3
      <3> QED
        BY <3>1, <3>2 DEF Unfinished, IsCompletedState
    <2> QED
      BY <2>1, <2>2
  <1> QED
    BY <1>2, <1>4, <1>5

LEMMA CardAppended ==
  ASSUME cards \in Seq(Card), NEW id \in Ids,
         cards' = Append(cards, [id |-> id, state |-> "NotStarted"])
  PROVE  cards' \in Seq(Card) /\ CardIds' = CardIds \cup {id} /\ Unfinished' = Unfinished \cup {id}
  <1> DEFINE card == [id |-> id, state |-> "NotStarted"]
  <1>1. card \in Card /\ card.id = id /\ card.state = "NotStarted"
    BY DEF Card
  <1>2. cards' = Append(cards, card)
    OBVIOUS
  <1> HIDE DEF card
  <1>3. /\ cards' \in Seq(Card) /\ Len(cards') = Len(cards) + 1
        /\ DOMAIN cards = 1..Len(cards) /\ Len(cards) \in Nat
        /\ \A i \in 1..Len(cards) : cards'[i] = cards[i]
        /\ cards'[Len(cards) + 1] = card
    BY <1>1, <1>2, AppendProperties, LenProperties
  <1>4. DOMAIN cards' = DOMAIN cards \cup {Len(cards) + 1}
    BY <1>3, LenProperties
  <1>5. CardIds' = CardIds \cup {id}
    BY <1>1, <1>3, <1>4 DEF CardIds
  <1>6. Unfinished' = Unfinished \cup {id}
    BY <1>1, <1>3, <1>4 DEF Unfinished, IsCompletedState
  <1> QED
    BY <1>3, <1>5, <1>6

LEMMA CardIsOver ==
  ASSUME cards \in Seq(Card), NEW id, NEW state \in Overs, cards' = WithState(id, state)
  PROVE  cards' \in Seq(Card) /\ CardIds' = CardIds /\ Unfinished' = Unfinished \ {id}
  <1>1. DOMAIN cards = 1..Len(cards) /\ Len(cards) \in Nat /\ \A i \in DOMAIN cards : cards[i] \in Card
    BY LenProperties, ElementOfSeq
  <1>2. /\ DOMAIN cards' = DOMAIN cards
        /\ \A i \in DOMAIN cards :
             cards'[i] = IF cards[i].id = id THEN [cards[i] EXCEPT !.state = state] ELSE cards[i]
    BY DEF WithState
  <1>3. \A i \in DOMAIN cards :
           /\ cards'[i] \in Card
           /\ cards'[i].id = cards[i].id
           /\ cards'[i].state = IF cards[i].id = id THEN state ELSE cards[i].state
    BY <1>1, <1>2 DEF Card, Overs, Reports
  <1>4. cards' \in Seq(Card)
    <2>1. cards' = [i \in 1..Len(cards) |-> cards'[i]]
      BY <1>1 DEF WithState
    <2> QED
      BY <1>1, <1>3, <2>1
  <1>5. CardIds' = CardIds
    BY <1>2, <1>3 DEF CardIds
  <1>6. Unfinished' = Unfinished \ {id}
    BY <1>2, <1>3 DEF Unfinished, IsCompletedState, Overs, Reports
  <1> QED
    BY <1>4, <1>5, <1>6

LEMMA Receipt ==
  ASSUME CardsTypeOK, NEW whats, Received(whats)
  PROVE  /\ read + 1 \in DOMAIN events /\ read + 1 \in Unread /\ events[read + 1].what \in whats
         /\ read + 1 \in SaidAbout(whats, events[read + 1].of)
         /\ \A i : i \in Unread' <=> i \in Unread /\ i # read + 1
         /\ \A i \in Unread' : read + 1 < i
         /\ events' = events /\ Queued' = Queued /\ read' = read + 1
         /\ \A some, id : SaidAbout(some, id)' = SaidAbout(some, id)
  <1>1. DOMAIN events = 1..Len(events) /\ Len(events) \in Nat /\ read \in 0..Len(events)
    BY LenProperties DEF CardsTypeOK, QueueTypeOK
  <1>2. /\ read < Len(events) /\ events[read + 1].what \in whats
        /\ read' = read + 1 /\ events' = events /\ operations' = operations
    BY DEF Received, queueVars
  <1>3. Unread = (read + 1)..Len(events) /\ Unread' = (read + 1 + 1)..Len(events)
    BY <1>2 DEF Unread
  <1>4. read + 1 \in 1..Len(events) /\ read + 1 \in (read + 1)..Len(events)
    BY <1>1, <1>2
  <1>5. /\ \A i : i \in (read + 1 + 1)..Len(events) <=> i \in (read + 1)..Len(events) /\ i # read + 1
        /\ \A i \in (read + 1 + 1)..Len(events) : read + 1 < i
    BY <1>1
  <1>6. Queued' = Queued
    BY <1>2 DEF Queued
  <1>7. \A some, id : SaidAbout(some, id)' = SaidAbout(some, id)
    BY <1>2 DEF SaidAbout
  <1> QED
    BY <1>1, <1>2, <1>3, <1>4, <1>5, <1>6, <1>7 DEF SaidAbout

LEMMA AddedKeeps ==
  ASSUME CardsTypeOK, AgreeInv, OnOperationAdded, events[read + 1].of \in Ids
  PROVE  AgreeInv'
  <1> DEFINE id == events[read + 1].of
  <1>1. /\ read + 1 \in Unread /\ read + 1 \in SaidAbout({"Added"}, id)
        /\ \A i : i \in Unread' <=> i \in Unread /\ i # read + 1
        /\ \A i \in Unread' : read + 1 < i
        /\ events' = events /\ Queued' = Queued
        /\ \A some, x : SaidAbout(some, x)' = SaidAbout(some, x)
    BY Receipt DEF OnOperationAdded
  <1> HIDE DEF id
  <1>2. \A x : \A i \in SaidAbout({"Added"}, x) : x = id => i = read + 1
    BY <1>1 DEF AgreeInv, AddedOnce, SaidAbout
  <1>3. id \notin CardIds
    BY <1>1, <1>2 DEF AgreeInv, CardsWereAdded
  <1>4. CardIds' = CardIds \cup {id} /\ Unfinished' = Unfinished \cup {id}
    BY <1>3, CardAppended DEF OnOperationAdded, CardsTypeOK, id
  <1>5. \A x : \A i \in SaidAbout({"Added"}, x) : x # id => i # read + 1
    BY DEF SaidAbout, id
  <1>6. AddedOnce'
    BY <1>1 DEF AgreeInv, AddedOnce
  <1>7. CardsWereAdded'
    BY <1>1, <1>4 DEF AgreeInv, CardsWereAdded
  <1>8. QueuedIsShown'
    <2> SUFFICES ASSUME NEW x \in Queued
                 PROVE  /\ SaidAbout(Overs, x)' = {}
                        /\ x \in Unfinished' \/ SaidAbout({"Added"}, x)' \cap Unread' # {}
      BY <1>1 DEF QueuedIsShown
    <2>1. SaidAbout(Overs, x) = {} /\ (x \in Unfinished \/ SaidAbout({"Added"}, x) \cap Unread # {})
      BY DEF AgreeInv, QueuedIsShown
    <2> QED
      BY <1>1, <1>4, <1>5, <2>1
  <1>9. ShownIsQueued'
    <2> SUFFICES ASSUME NEW x \in Unfinished', x \notin Queued
                 PROVE  SaidAbout(Overs, x)' \cap Unread' # {}
      BY <1>1 DEF ShownIsQueued
    <2>1. read + 1 \notin SaidAbout(Overs, x)
      BY <1>1 DEF SaidAbout, Overs, Reports
    <2>2. CASE x = id
      <3>1. \E j \in SaidAbout(Overs, x) : read + 1 < j
        BY <1>1, <2>2 DEF AgreeInv, ComingIsQueued, id
      <3>2. \A j \in SaidAbout(Overs, x) : read + 1 < j => j \in Unread
        BY LenProperties DEF SaidAbout, Unread, CardsTypeOK, QueueTypeOK
      <3> QED
        BY <1>1, <2>1, <3>1, <3>2
    <2>3. CASE x # id
      BY <1>1, <1>4, <2>1, <2>3 DEF AgreeInv, ShownIsQueued
    <2> QED
      BY <2>2, <2>3
  <1>10. ComingIsQueued'
    BY <1>1 DEF AgreeInv, ComingIsQueued
  <1> QED
    BY <1>6, <1>7, <1>8, <1>9, <1>10 DEF AgreeInv

\* The page learns that an operation is over.
LEMMA OverKeeps ==
  ASSUME CardsTypeOK, AgreeInv, NEW whats \in SUBSET Overs, Received(whats), NEW state \in Overs,
         cards' = WithState(events[read + 1].of, state)
  PROVE  AgreeInv'
  <1> DEFINE id == events[read + 1].of
  <1>1. /\ read + 1 \in Unread /\ read + 1 \in SaidAbout(whats, id)
        /\ \A i : i \in Unread' <=> i \in Unread /\ i # read + 1
        /\ \A i \in Unread' : read + 1 < i
        /\ events' = events /\ Queued' = Queued
        /\ \A some, x : SaidAbout(some, x)' = SaidAbout(some, x)
    BY Receipt
  <1>2. CardIds' = CardIds /\ Unfinished' = Unfinished \ {id}
    BY CardIsOver DEF CardsTypeOK
  <1>3. \A x : x # id => read + 1 \notin SaidAbout(Overs, x)
    BY DEF SaidAbout
  <1> HIDE DEF id
  <1>4. read + 1 \in SaidAbout(Overs, id)
    BY <1>1 DEF SaidAbout
  <1>5. \A x : read + 1 \notin SaidAbout({"Added"}, x)
    BY <1>1 DEF SaidAbout, Overs, Reports
  <1>6. AddedOnce'
    BY <1>1 DEF AgreeInv, AddedOnce
  <1>7. CardsWereAdded'
    BY <1>1, <1>2 DEF AgreeInv, CardsWereAdded
  <1>8. QueuedIsShown'
    BY <1>1, <1>2, <1>4, <1>5 DEF AgreeInv, QueuedIsShown
  <1>9. ShownIsQueued'
    BY <1>1, <1>2, <1>3 DEF AgreeInv, ShownIsQueued
  <1>10. ComingIsQueued'
    BY <1>1 DEF AgreeInv, ComingIsQueued
  <1> QED
    BY <1>6, <1>7, <1>8, <1>9, <1>10 DEF AgreeInv

\* The page receives something about the pause button.
LEMMA PauseAnswerKeeps ==
  ASSUME CardsTypeOK, AgreeInv, NEW whats \in SUBSET {"Toggled", "Paused", "Unpaused"}, Received(whats),
         UNCHANGED cards
  PROVE  AgreeInv'
  <1>1. /\ read + 1 \in Unread /\ events[read + 1].what \in whats
        /\ \A i : i \in Unread' <=> i \in Unread /\ i # read + 1
        /\ events' = events /\ Queued' = Queued
        /\ \A some, x : SaidAbout(some, x)' = SaidAbout(some, x)
    BY Receipt
  <1>2. CardIds' = CardIds /\ Unfinished' = Unfinished
    BY CardsStay
  <1>3. \A x : read + 1 \notin SaidAbout({"Added"}, x) /\ read + 1 \notin SaidAbout(Overs, x)
    BY <1>1 DEF SaidAbout, Overs, Reports
  <1>4. AddedOnce'
    BY <1>1 DEF AgreeInv, AddedOnce
  <1>5. CardsWereAdded'
    BY <1>1, <1>2 DEF AgreeInv, CardsWereAdded
  <1>6. QueuedIsShown'
    BY <1>1, <1>2, <1>3 DEF AgreeInv, QueuedIsShown
  <1>7. ShownIsQueued'
    BY <1>1, <1>2, <1>3 DEF AgreeInv, ShownIsQueued
  <1>8. ComingIsQueued'
    BY <1>1 DEF AgreeInv, ComingIsQueued
  <1> QED
    BY <1>4, <1>5, <1>6, <1>7, <1>8 DEF AgreeInv

\* The user's clicks and the timer: at most a card that is over goes.
LEMMA ClickKeeps ==
  ASSUME AgreeInv, UNCHANGED <<operations, events, read>>,
         CardIds' \subseteq CardIds, Unfinished' = Unfinished
  PROVE  AgreeInv'
  <1>1. Queued' = Queued /\ Unread' = Unread /\ \A some, x : SaidAbout(some, x)' = SaidAbout(some, x)
    BY DEF Queued, Unread, SaidAbout
  <1>2. AddedOnce' /\ CardsWereAdded'
    BY <1>1 DEF AgreeInv, AddedOnce, CardsWereAdded
  <1>3. QueuedIsShown' /\ ShownIsQueued' /\ ComingIsQueued'
    BY <1>1 DEF AgreeInv, QueuedIsShown, ShownIsQueued, ComingIsQueued
  <1> QED
    BY <1>2, <1>3 DEF AgreeInv

-----------------------------------------------------------------------------
(* Types and ids. *)

LEMMA CallTaken ==
  ASSUME calls \in Seq(Call), calls # <<>>, calls' = Tail(calls)
  PROVE  /\ calls' \in Seq(Call)
         /\ \A i \in DOMAIN calls' : i + 1 \in DOMAIN calls /\ calls'[i] = calls[i + 1] /\ i \in Nat
         /\ 1 \in DOMAIN calls /\ Head(calls) = calls[1]
         /\ \A i \in DOMAIN calls : i # 1 => \E j \in DOMAIN calls' : i = j + 1
  <1>1. Len(calls) \in Nat \ {0} /\ DOMAIN calls = 1..Len(calls)
    BY EmptySeq, LenProperties
  <1>2. /\ calls' \in Seq(Call) /\ Len(calls') = Len(calls) - 1
        /\ \A i \in 1..(Len(calls) - 1) : calls'[i] = calls[i + 1]
        /\ Head(calls) = calls[1]
    BY HeadTailProperties
  <1>3. DOMAIN calls' = 1..(Len(calls) - 1)
    BY <1>2, LenProperties
  <1>4. \A i \in 1..(Len(calls) - 1) : i + 1 \in 1..Len(calls) /\ i \in Nat
    BY <1>1
  <1>5. \A i \in 1..Len(calls) : i # 1 => i - 1 \in 1..(Len(calls) - 1) /\ i = i - 1 + 1
    BY <1>1
  <1>6. 1 \in 1..Len(calls)
    BY <1>1
  <1> QED
    BY <1>1, <1>2, <1>3, <1>4, <1>5, <1>6

LEMMA CallSent ==
  ASSUME calls \in Seq(Call), NEW call \in Call, calls' = Append(calls, call)
  PROVE  /\ calls' \in Seq(Call)
         /\ DOMAIN calls = 1..Len(calls) /\ Len(calls) \in Nat /\ DOMAIN calls' = 1..(Len(calls) + 1)
         /\ \A i \in DOMAIN calls : i \in DOMAIN calls' /\ calls'[i] = calls[i]
         /\ \A i \in DOMAIN calls' : i \in DOMAIN calls \/ i = Len(calls) + 1
         /\ calls'[Len(calls) + 1] = call
  <1>1. Len(calls) \in Nat /\ DOMAIN calls = 1..Len(calls)
    BY LenProperties
  <1>2. /\ calls' \in Seq(Call) /\ Len(calls') = Len(calls) + 1
        /\ \A i \in 1..Len(calls) : calls'[i] = calls[i]
        /\ calls'[Len(calls) + 1] = call
    BY AppendProperties
  <1>3. DOMAIN calls' = 1..(Len(calls) + 1)
    BY <1>2, LenProperties
  <1> QED
    BY <1>1, <1>2, <1>3

\* What the user's clicks send.
Sends(call) == Send(call.call, call.of, call.pause) /\ UNCHANGED <<queueVars, cards, shown, loaded, read>>

LEMMA ClickSends ==
  ASSUME BaseInv, ClickAdd \/ ClickPause \/ \E id \in Ids : ClickCancel(id)
  PROVE  \E call \in Call :
           /\ Sends(call) /\ calls' = Append(calls, call) /\ call.call # "isPaused"
           /\ call.call = "cancel" => call.of \in 1..created
           /\ call.call = "pause" => ClickPause /\ call.pause = ~shown
           /\ clicks' \in 0..MaxClicks
  <1>1. clicks \in 0..MaxClicks /\ shown \in BOOLEAN /\ MaxClicks \in Nat
    BY CardsAssumption DEF BaseInv, CardsTypeOK, CardsAssumption
  <1>2. CASE ClickAdd
    <2> DEFINE call == [call |-> "add", of |-> 0, pause |-> FALSE]
    <2>1. call \in Call
      BY DEF Call
    <2>2. Sends(call) /\ calls' = Append(calls, call) /\ clicks' \in 0..MaxClicks
      BY <1>1, <1>2 DEF ClickAdd, Click, Send, Sends
    <2> QED
      BY <2>1, <2>2
  <1>3. CASE ClickPause
    <2> DEFINE call == [call |-> "pause", of |-> 0, pause |-> ~shown]
    <2>1. call \in Call
      BY <1>1 DEF Call
    <2>2. Sends(call) /\ calls' = Append(calls, call) /\ clicks' \in 0..MaxClicks
      BY <1>1, <1>3 DEF ClickPause, Click, Send, Sends
    <2> QED
      BY <1>3, <2>1, <2>2
  <1>4. ASSUME NEW id \in Ids, ClickCancel(id)
        PROVE  \E call \in Call :
           /\ Sends(call) /\ calls' = Append(calls, call) /\ call.call # "isPaused"
           /\ call.call = "cancel" => call.of \in 1..created
           /\ call.call = "pause" => ClickPause /\ call.pause = ~shown
           /\ clicks' \in 0..MaxClicks
    <2> DEFINE call == [call |-> "cancel", of |-> id, pause |-> FALSE]
    <2>1. call \in Call /\ call.call = "cancel"
      BY DEF Call
    <2>2. Sends(call) /\ calls' = Append(calls, call) /\ clicks' \in 0..MaxClicks
      BY <1>1, <1>4 DEF ClickCancel, Click, Send, Sends
    <2>3. call.of \in 1..created
      BY <1>4 DEF ClickCancel, Unfinished, BaseInv, CardsAreGiven, CardIds
    <2> HIDE DEF call
    <2> QED
      BY <2>1, <2>2, <2>3
  <1> QED
    BY <1>2, <1>3, <1>4

\* The user removes a card that is over, or the timer does.
CardGoes == \E n \in DOMAIN cards : IsCompletedState(cards[n]) /\ cards' = Without(cards, n)

LEMMA RemoveIsCardGoes ==
  ASSUME CardsTypeOK, AutoClean \/ \E id \in Ids : ClickRemove(id)
  PROVE  CardGoes /\ UNCHANGED <<queueVars, shown, loaded, calls, read>> /\ clicks' \in 0..MaxClicks
  <1>0. cards \in Seq(Card) /\ clicks \in 0..MaxClicks /\ MaxClicks \in Nat
    BY CardsAssumption DEF CardsTypeOK, CardsAssumption
  <1>1. CASE AutoClean
    <2>1. 1 \in 1..Len(cards) /\ Tail(cards) = Without(cards, 1)
      BY <1>0, <1>1, TailIsWithout DEF AutoClean
    <2>2. Head(cards) = cards[1] /\ DOMAIN cards = 1..Len(cards)
      BY <1>0, <1>1, HeadTailProperties, LenProperties DEF AutoClean
    <2> QED
      BY <1>0, <1>1, <2>1, <2>2 DEF AutoClean, CardGoes
  <1>2. ASSUME NEW id \in Ids, ClickRemove(id)
        PROVE  CardGoes /\ UNCHANGED <<queueVars, shown, loaded, calls, read>> /\ clicks' \in 0..MaxClicks
    <2>1. PICK n \in DOMAIN cards : cards[n].id = id /\ cards' = Without(cards, n)
      BY <1>2 DEF ClickRemove
    <2>2. IsCompletedState(cards[n])
      BY <1>2, <2>1 DEF ClickRemove, Unfinished
    <2>3. UNCHANGED <<queueVars, shown, loaded, calls, read>> /\ clicks' \in 0..MaxClicks
      BY <1>0, <1>2 DEF ClickRemove, Click
    <2> QED
      BY <2>1, <2>2, <2>3 DEF CardGoes
  <1> QED
    BY <1>1, <1>2

\* What the strand does with the calls is a step of the queue.
LEMMA StrandMoves ==
  ASSUME BaseInv, Strand
  PROVE  /\ CardsMove \/ UNCHANGED queueVars
         /\ UNCHANGED <<cards, shown, loaded, read, clicks>>
         /\ calls' = calls \/ (calls # <<>> /\ calls' = Tail(calls))
  <1>1. calls \in Seq(Call)
    BY DEF BaseInv, CardsTypeOK
  <1>2. ASSUME NEW call, Handled(call)
        PROVE  /\ UNCHANGED <<parallelism, cards, shown, loaded, read, clicks>>
               /\ calls # <<>> /\ calls' = Tail(calls)
               /\ Head(calls) = calls[1] /\ 1 \in DOMAIN calls /\ Head(calls) \in Call /\ Head(calls).call = call
    <2>1. /\ UNCHANGED <<parallelism, cards, shown, loaded, read, clicks>>
          /\ calls # <<>> /\ calls' = Tail(calls) /\ Head(calls).call = call
      BY <1>2 DEF Handled
    <2>2. Head(calls) = calls[1] /\ 1 \in DOMAIN calls
      BY <1>1, <2>1, CallTaken
    <2>3. Head(calls) \in Call
      BY <1>1, <2>1, HeadTailProperties
    <2> QED
      BY <2>1, <2>2, <2>3
  <1>3. CASE HandleAdd
    <2>1. AddsFile \/ AddsDirectory \/ UNCHANGED queueVars
      BY <1>3 DEF HandleAdd, AddsFile, AddsDirectory
    <2> QED
      BY <1>2, <1>3, <2>1 DEF HandleAdd, CardsMove
  <1>4. CASE HandleCancel
    <2>1. Head(calls).of \in 1..created
      BY <1>2, <1>4 DEF HandleCancel, BaseInv, CancelsWereGiven
    <2>2. Cancels
      BY <1>4, <2>1 DEF HandleCancel, Cancels
    <2> QED
      BY <1>2, <1>4, <2>2 DEF HandleCancel, CardsMove
  <1>5. CASE HandlePause
    <2>1. Head(calls).pause \in BOOLEAN
      BY <1>2, <1>5 DEF HandlePause, Call
    <2>2. Pauses
      BY <1>5, <2>1 DEF HandlePause, Pauses
    <2> QED
      BY <1>2, <1>5, <2>2 DEF HandlePause, CardsMove
  <1>6. CASE HandleIsPaused
    BY <1>2, <1>6 DEF HandleIsPaused, CardsMove
  <1>7. CASE Loop /\ UNCHANGED pageVars
    BY <1>7 DEF Loop, CardsMove, pageVars
  <1> QED
    BY <1>3, <1>4, <1>5, <1>6, <1>7 DEF Strand

\* The step leaves the queue alone, and what it does to the rest is typed.
PageTyped ==
    /\ cards' \in Seq(Card) /\ calls' \in Seq(Call)
    /\ shown' \in BOOLEAN /\ loaded' \in BOOLEAN
    /\ read' \in 0..Len(events') /\ clicks' \in 0..MaxClicks

LEMMA QueueStays ==
  ASSUME BaseInv, UNCHANGED queueVars, PageTyped, CardIds' \subseteq 1..created, CancelsWereGiven'
  PROVE  BaseInv'
  <1>1. QueueInv'
    BY QueueInvMove DEF BaseInv
  <1>2. CardsTypeOK'
    BY <1>1 DEF CardsTypeOK, PageTyped, QueueInv
  <1>3. AddedHasId' /\ CardsAreGiven'
    BY DEF BaseInv, AddedHasId, CardsAreGiven, queueVars
  <1> QED
    BY <1>1, <1>2, <1>3 DEF BaseInv

LEMMA BaseStrand ==
  ASSUME BaseInv, Strand
  PROVE  BaseInv'
  <1>1. /\ CardsMove \/ UNCHANGED queueVars
        /\ UNCHANGED <<cards, shown, loaded, read, clicks>>
        /\ calls' = calls \/ (calls # <<>> /\ calls' = Tail(calls))
    BY StrandMoves
  <1>2. QueueInv' /\ QueueTypeOK'
    BY <1>1, CardsMoveIsMove, QueueInvMove DEF BaseInv, QueueInv
  <1>3. PICK k \in {0, 1, 2} : /\ Told(k) /\ created' >= created
                               /\ \A i \in News(k) : events'[i].what = "Added" => events'[i].of \in 1..created'
    <2>1. Len(events) \in Nat /\ created \in Nat /\ DOMAIN events = 1..Len(events)
      BY LenProperties, QueueAssumption DEF BaseInv, CardsTypeOK, QueueTypeOK, QueueAssumption
    <2>2. CASE UNCHANGED queueVars
      <3>1. Told(0) /\ News(0) = {} /\ created' = created
        BY <2>1, <2>2 DEF Told, News, queueVars
      <3> QED
        BY <2>1, <3>1
    <2>3. CASE Answered \/ Dropped
      <3>1. created' = created
        BY <2>3 DEF Answered, Dropped
      <3>2. PICK k \in {0, 1} : Told(k) /\ \A i \in News(k) : events'[i].what # "Added"
        BY <2>3 DEF Answered, Dropped, Overs, Reports
      <3> QED
        BY <2>1, <3>1, <3>2
    <2>4. CASE Grown
      <3>1. PICK k \in {1, 2} : /\ created' = created + k
                                /\ Told(k)
                                /\ \A i \in News(k) : events'[i] = Added(created + (i - Len(events)))
        BY <2>4 DEF Grown
      <3>2. \A i \in News(k) : created + (i - Len(events)) \in 1..(created + k)
        BY <2>1 DEF News
      <3>3. \A id : Added(id).of = id
        BY DEF Added
      <3>4. \A i \in News(k) : events'[i].of = created + (i - Len(events))
        BY <3>1, <3>3, Zenon
      <3> QED
        BY <2>1, <3>1, <3>2, <3>4
    <2> QED
      BY <1>1, <2>2, <2>3, <2>4, StrandIsSeen DEF BaseInv
  <1>4. /\ \A i \in DOMAIN events : i \in DOMAIN events' /\ events'[i] = events[i]
        /\ \A i \in DOMAIN events' : i \in DOMAIN events \/ i \in News(k)
    BY <1>1, <1>3, SaidLater DEF BaseInv
  <1>5. created \in Nat /\ created' \in Nat /\ 1..created \subseteq 1..created'
    BY <1>2, <1>3, QueueAssumption DEF BaseInv, CardsTypeOK, QueueTypeOK, QueueAssumption
  <1>6. AddedHasId'
    BY <1>3, <1>4, <1>5 DEF BaseInv, AddedHasId
  <1>7. CardsAreGiven'
    BY <1>1, <1>5, CardsStay DEF BaseInv, CardsAreGiven
  <1>8. calls' \in Seq(Call) /\ CancelsWereGiven'
    <2>1. CASE calls' = calls
      BY <1>5, <2>1 DEF BaseInv, CardsTypeOK, CancelsWereGiven
    <2>2. CASE calls # <<>> /\ calls' = Tail(calls)
      <3>1. calls' \in Seq(Call) /\ \A i \in DOMAIN calls' : i + 1 \in DOMAIN calls /\ calls'[i] = calls[i + 1]
        BY <2>2, CallTaken DEF BaseInv, CardsTypeOK
      <3> QED
        BY <1>5, <3>1 DEF BaseInv, CancelsWereGiven
    <2> QED
      BY <1>1, <2>1, <2>2
  <1>9. read' \in 0..Len(events')
    <2>1. Len(events') = Len(events) + k /\ read' = read /\ read \in 0..Len(events) /\ Len(events) \in Nat
      BY <1>1, <1>3, LenProperties DEF Told, BaseInv, CardsTypeOK, QueueTypeOK
    <2> QED
      BY <2>1
  <1>10. CardsTypeOK'
    BY <1>1, <1>2, <1>8, <1>9 DEF BaseInv, CardsTypeOK
  <1> QED
    BY <1>2, <1>6, <1>7, <1>8, <1>10 DEF BaseInv

LEMMA BasePage ==
  ASSUME BaseInv, Page
  PROVE  BaseInv'
  <1>1. PICK whats : Received(whats)
    BY DEF Page, OnOperationAdded, OnOperationCompleted, OnCancelReply, OnPauseReply, OnIsPaused
  <1>2. UNCHANGED <<queueVars, loaded, calls, clicks>> /\ read' = read + 1 /\ read < Len(events)
    BY <1>1 DEF Received
  <1>3. CardsTypeOK /\ cards \in Seq(Card) /\ Len(events) \in Nat /\ events' = events /\ created' = created
    BY <1>2, LenProperties DEF BaseInv, CardsTypeOK, QueueTypeOK, queueVars
  <1>4. read' \in 0..Len(events')
    BY <1>2, <1>3 DEF CardsTypeOK
  <1>5. CancelsWereGiven'
    BY <1>2, <1>3 DEF BaseInv, CancelsWereGiven
  <1>6. cards' \in Seq(Card) /\ CardIds' \subseteq 1..created
    <2>1. CASE UNCHANGED cards
      BY <1>3, <2>1, CardsStay DEF BaseInv, CardsAreGiven
    <2>2. ASSUME NEW id, NEW state \in Overs, cards' = WithState(id, state)
          PROVE  cards' \in Seq(Card) /\ CardIds' \subseteq 1..created
      BY <1>3, <2>2, CardIsOver DEF BaseInv, CardsAreGiven
    <2>3. CASE OnOperationAdded
      <3> DEFINE id == events[read + 1].of
      <3>1. read + 1 \in DOMAIN events /\ events[read + 1].what = "Added"
        BY <1>3, <2>3, Receipt DEF OnOperationAdded
      <3>2. id \in 1..created /\ id \in Ids
        <4>1. id \in 1..created
          BY <3>1 DEF BaseInv, AddedHasId
        <4> QED
          BY <1>3, <4>1, QueueAssumption DEF CardsTypeOK, QueueTypeOK, QueueAssumption, Ids
      <3> HIDE DEF id
      <3>3. cards' = cards \/ cards' = Append(cards, [id |-> id, state |-> "NotStarted"])
        BY <2>3 DEF OnOperationAdded, id
      <3> QED
        BY <1>3, <2>1, <3>2, <3>3, CardAppended DEF BaseInv, CardsAreGiven
    <2>4. CASE OnOperationCompleted
      <3>1. events[read + 1].what \in Overs
        BY <2>4 DEF OnOperationCompleted, Received, Overs
      <3> QED
        BY <2>2, <2>4, <3>1 DEF OnOperationCompleted
    <2>5. CASE OnCancelReply
      BY <2>2, <2>5 DEF OnCancelReply, Overs
    <2> QED
      BY <2>1, <2>3, <2>4, <2>5 DEF Page, OnPauseReply, OnIsPaused
  <1>7. shown' \in BOOLEAN
    BY DEF Page, OnOperationAdded, OnOperationCompleted, OnCancelReply, OnPauseReply, OnIsPaused,
           BaseInv, CardsTypeOK
  <1>8. PageTyped
    BY <1>2, <1>3, <1>4, <1>6, <1>7 DEF PageTyped, CardsTypeOK
  <1> QED
    BY <1>2, <1>5, <1>6, <1>8, QueueStays

LEMMA BaseStep == BaseInv /\ [CardsNext]_cardsVars => BaseInv'
  <1> SUFFICES ASSUME BaseInv, [CardsNext]_cardsVars PROVE BaseInv'
    OBVIOUS
  <1>1. CardsTypeOK /\ CardIds \subseteq 1..created
    BY DEF BaseInv, CardsAreGiven
  <1>2. CASE UNCHANGED cardsVars
    <2>1. PageTyped /\ UNCHANGED queueVars /\ CardIds' \subseteq 1..created /\ CancelsWereGiven'
      BY <1>1, <1>2, CardsStay
         DEF cardsVars, pageVars, queueVars, PageTyped, CardsTypeOK, CancelsWereGiven, BaseInv
    <2> QED
      BY <2>1, QueueStays
  <1>3. CASE ClickAdd \/ ClickPause \/ \E id \in Ids : ClickCancel(id)
    <2>1. PICK call \in Call : /\ Sends(call) /\ calls' = Append(calls, call)
                               /\ call.call = "cancel" => call.of \in 1..created
                               /\ clicks' \in 0..MaxClicks
      BY <1>3, ClickSends
    <2>2. UNCHANGED <<queueVars, cards, shown, loaded, read>> /\ events' = events /\ created' = created
      BY <2>1 DEF Sends, queueVars
    <2>3. calls' \in Seq(Call) /\ CancelsWereGiven'
      BY <1>1, <2>1, <2>2, CallSent DEF BaseInv, CardsTypeOK, CancelsWereGiven
    <2>4. PageTyped
      BY <1>1, <2>1, <2>2, <2>3 DEF PageTyped, CardsTypeOK
    <2> QED
      BY <1>1, <2>2, <2>3, <2>4, CardsStay, QueueStays
  <1>4. CASE AutoClean \/ \E id \in Ids : ClickRemove(id)
    <2>1. CardGoes /\ UNCHANGED <<queueVars, shown, loaded, calls, read>> /\ clicks' \in 0..MaxClicks
      BY <1>1, <1>4, RemoveIsCardGoes
    <2>2. cards' \in Seq(Card) /\ CardIds' \subseteq CardIds
      BY <1>1, <2>1, CardRemoved DEF CardGoes, CardsTypeOK
    <2>3. events' = events /\ created' = created
      BY <2>1 DEF queueVars
    <2>4. PageTyped /\ CancelsWereGiven'
      BY <1>1, <2>1, <2>2, <2>3 DEF PageTyped, CardsTypeOK, BaseInv, CancelsWereGiven
    <2> QED
      BY <1>1, <2>1, <2>2, <2>4, QueueStays
  <1>5. CASE LoadState
    <2>1. UNCHANGED <<queueVars, cards, calls, read, clicks>> /\ loaded' \in BOOLEAN /\ shown' \in BOOLEAN
          /\ events' = events /\ created' = created
      BY <1>5 DEF LoadState, queueVars
    <2>2. PageTyped /\ CancelsWereGiven'
      BY <1>1, <2>1 DEF PageTyped, CardsTypeOK, BaseInv, CancelsWereGiven
    <2> QED
      BY <1>1, <2>1, <2>2, CardsStay, QueueStays
  <1>6. CASE Strand
    BY <1>6, BaseStrand
  <1>7. CASE Page
    BY <1>7, BasePage
  <1> QED
    BY <1>2, <1>3, <1>4, <1>5, <1>6, <1>7 DEF CardsNext, User

LEMMA CardsInit0 == CardsInit => CardsInv
  <1> SUFFICES ASSUME CardsInit PROVE CardsInv
    OBVIOUS
  <1>1. /\ QueueInit /\ cards = <<>> /\ shown = TRUE /\ loaded = FALSE /\ read = 0 /\ clicks = 0
        /\ calls = <<[call |-> "isPaused", of |-> 0, pause |-> FALSE]>>
    BY DEF CardsInit
  <1>2. QueueInv /\ operations = <<>> /\ events = <<>>
    BY <1>1, QueueInit0 DEF QueueInit
  <1>3. DOMAIN cards = {} /\ DOMAIN events = {} /\ DOMAIN operations = {}
    BY <1>1, <1>2
  <1>4. calls \in Seq(Call) /\ \A i \in DOMAIN calls : calls[i].call = "isPaused"
    <2> DEFINE call == [call |-> "isPaused", of |-> 0, pause |-> FALSE]
    <2>1. call \in Call /\ call.call = "isPaused"
      BY DEF Call
    <2>2. calls = <<call>>
      BY <1>1
    <2> HIDE DEF call
    <2> QED
      BY <2>1, <2>2
  <1>5. CardsTypeOK
    <2>1. 0 \in 0..Len(events) /\ 0 \in 0..MaxClicks
      BY <1>2, CardsAssumption DEF CardsAssumption
    <2>2. cards \in Seq(Card)
      BY <1>1
    <2>3. QueueTypeOK /\ shown \in BOOLEAN /\ loaded \in BOOLEAN
      BY <1>1, <1>2 DEF QueueInv
    <2> QED
      BY <1>1, <1>4, <2>1, <2>2, <2>3 DEF CardsTypeOK
  <1>6. BaseInv
    BY <1>2, <1>3, <1>4, <1>5 DEF BaseInv, AddedHasId, CardsAreGiven, CardIds, CancelsWereGiven
  <1>7. AgreeInv
    BY <1>3 DEF AgreeInv, AddedOnce, CardsWereAdded, CardIds, QueuedIsShown, Queued, ShownIsQueued,
                Unfinished, ComingIsQueued, SaidAbout
  <1> QED
    BY <1>6, <1>7 DEF CardsInv

LEMMA CardsInvStep == CardsInv /\ [CardsNext]_cardsVars => CardsInv'
  <1> SUFFICES ASSUME CardsInv, [CardsNext]_cardsVars PROVE CardsInv'
    OBVIOUS
  <1>1. BaseInv /\ BaseInv'
    BY BaseStep DEF CardsInv
  <1>2. CardsTypeOK /\ QueueInv /\ cards \in Seq(Card)
    BY <1>1 DEF BaseInv, CardsTypeOK
  <1>3. CASE UNCHANGED cardsVars
    <2>1. UNCHANGED <<operations, events, read, parallelism>> /\ CardIds' = CardIds /\ Unfinished' = Unfinished
      BY <1>3, CardsStay DEF cardsVars, queueVars, pageVars
    <2> QED
      BY <1>1, <2>1, ClickKeeps DEF CardsInv
  <1>4. CASE ClickAdd \/ ClickPause \/ LoadState \/ \E id \in Ids : ClickCancel(id)
    <2>1. UNCHANGED <<queueVars, cards, read>>
      BY <1>4 DEF ClickAdd, ClickPause, LoadState, ClickCancel, Click
    <2>2. UNCHANGED <<operations, events, read, parallelism>> /\ CardIds' = CardIds /\ Unfinished' = Unfinished
      BY <2>1, CardsStay DEF queueVars
    <2> QED
      BY <1>1, <2>2, ClickKeeps DEF CardsInv
  <1>5. CASE AutoClean \/ \E id \in Ids : ClickRemove(id)
    <2>1. CardGoes /\ UNCHANGED <<queueVars, read>>
      BY <1>2, <1>5, RemoveIsCardGoes
    <2>2. UNCHANGED <<operations, events, read, parallelism>>
      BY <2>1 DEF queueVars
    <2>3. CardIds' \subseteq CardIds /\ Unfinished' = Unfinished
      BY <1>2, <2>1, CardRemoved DEF CardGoes
    <2> QED
      BY <1>1, <2>2, <2>3, ClickKeeps DEF CardsInv
  <1>6. CASE Strand
    <2>1. (CardsMove \/ UNCHANGED queueVars) /\ UNCHANGED <<cards, read>>
      BY <1>1, <1>6, StrandMoves
    <2>2. parallelism' = parallelism
      BY <2>1 DEF CardsMove, queueVars
    <2>3. CASE CardsMove
      BY <1>1, <1>2, <2>1, <2>2, <2>3, StrandIsSeen, AnsweredKeeps, DroppedKeeps, GrownKeeps DEF CardsInv
    <2>4. CASE UNCHANGED queueVars
      <3>1. UNCHANGED <<operations, events, read>> /\ CardIds' = CardIds /\ Unfinished' = Unfinished
        BY <2>1, <2>4, CardsStay DEF queueVars
      <3> QED
        BY <1>1, <2>2, <3>1, ClickKeeps DEF CardsInv
    <2> QED
      BY <2>1, <2>3, <2>4
  <1>7. CASE Page
    <2>1. parallelism' = parallelism
      BY <1>7 DEF Page, OnOperationAdded, OnOperationCompleted, OnCancelReply, OnPauseReply, OnIsPaused,
                  Received, queueVars
    <2>2. SUFFICES ASSUME AgreeInv PROVE AgreeInv'
      BY <1>1, <2>1 DEF CardsInv
    <2>3. CASE OnOperationAdded
      <3>1. read + 1 \in DOMAIN events /\ events[read + 1].what = "Added"
        BY <1>2, <2>3, Receipt DEF OnOperationAdded
      <3>2. events[read + 1].of \in Ids
        <4>1. events[read + 1].of \in 1..created
          BY <1>1, <3>1 DEF BaseInv, AddedHasId
        <4> QED
          BY <1>2, <4>1, QueueAssumption DEF CardsTypeOK, QueueTypeOK, QueueAssumption, Ids
      <3> QED
        BY <1>2, <2>2, <2>3, <3>2, AddedKeeps
    <2>4. CASE OnOperationCompleted
      <3>1. /\ Received(Reports) /\ Reports \in SUBSET Overs /\ events[read + 1].what \in Overs
            /\ cards' = WithState(events[read + 1].of, events[read + 1].what)
        BY <2>4 DEF OnOperationCompleted, Received, Overs
      <3> QED
        BY <1>2, <2>2, <3>1, OverKeeps
    <2>5. CASE OnCancelReply
      <3>1. /\ Received({"Canceled"}) /\ {"Canceled"} \in SUBSET Overs /\ "Canceled" \in Overs
            /\ cards' = WithState(events[read + 1].of, "Canceled")
        BY <2>5 DEF OnCancelReply, Overs
      <3> QED
        BY <1>2, <2>2, <3>1, OverKeeps
    <2>6. CASE OnPauseReply \/ OnIsPaused
      <3>1. \E whats \in SUBSET {"Toggled", "Paused", "Unpaused"} : Received(whats)
        BY <2>6 DEF OnPauseReply, OnIsPaused
      <3>2. UNCHANGED cards
        BY <2>6 DEF OnPauseReply, OnIsPaused
      <3> QED
        BY <1>2, <2>2, <3>1, <3>2, PauseAnswerKeeps
    <2> QED
      BY <1>7, <2>3, <2>4, <2>5, <2>6 DEF Page
  <1> QED
    BY <1>3, <1>4, <1>5, <1>6, <1>7 DEF CardsNext, User

(* The variables of the page keep their types.                             *)
THEOREM CardsTypeCorrect == CardsSpec => []CardsTypeOK
  <1>1. CardsInv => CardsTypeOK
    BY DEF CardsInv, BaseInv
  <1> QED
    BY <1>1, CardsInit0, CardsInvStep, PTL DEF CardsSpec

(* With one operation at a time, when no call and no report is on its way, *)
(* exactly the queued operations have a card that is not over: whatever    *)
(* the user clicks, whatever completes or fails meanwhile.                 *)
THEOREM CardsShowTheQueue == CardsSpec => [](parallelism = 1 => CardsAgreeWithQueue)
  <1>1. ASSUME CardsInv, parallelism = 1, Quiet PROVE Unfinished = Queued
    <2>1. Unread = {}
      BY <1>1, LenProperties DEF Quiet, Unread, CardsInv, BaseInv, CardsTypeOK, QueueTypeOK
    <2> QED
      BY <1>1, <2>1 DEF CardsInv, AgreeInv, QueuedIsShown, ShownIsQueued
  <1>2. CardsInv => (parallelism = 1 => CardsAgreeWithQueue)
    BY <1>1 DEF CardsAgreeWithQueue
  <1> QED
    BY <1>2, CardsInit0, CardsInvStep, PTL DEF CardsSpec

-----------------------------------------------------------------------------
(***************************************************************************)
(* The pause button.  A pause call and its reply are under way as one:     *)
(* until the reply is there the button shows the opposite of the queue's   *)
(* state, and the user does not click again.                               *)
(***************************************************************************)
PauseCalls == {i \in DOMAIN calls : calls[i].call = "pause"}
Questions == {i \in DOMAIN calls : calls[i].call = "isPaused"}
Toggles == {i \in Unread : events[i].what = "Toggled"}
Answers == {i \in Unread : events[i].what \in {"Paused", "Unpaused"}}

\* At most one pause call or reply is under way, and the call asks for what
\* the queue is not.
OnePause ==
    /\ \A i, j \in PauseCalls : i = j
    /\ \A i, j \in Toggles : i = j
    /\ PauseCalls = {} \/ Toggles = {}
    /\ \A i \in PauseCalls : calls[i].pause = ~paused

ShownFollows ==
    /\ Toggles = {} => shown = paused
    /\ Toggles # {} => shown = ~paused

\* activate()'s question is the first call, and its answer is what is shown.
QuestionIsFirst ==
    /\ \A i \in Questions : i = 1 /\ Toggles = {}
    /\ \A i \in Answers :
         /\ shown = (events[i].what = "Paused")
         /\ \A j \in Toggles : i < j

ButtonInv == OnePause /\ ShownFollows /\ QuestionIsFirst

PauseInv == BaseInv /\ (~loaded => ButtonInv)

ButtonSays == {"Toggled", "Paused", "Unpaused"}

\* Steps that say nothing about the pause state and take no call about it.
LEMMA ButtonStays ==
  ASSUME ButtonInv, UNCHANGED <<shown, paused>>, Toggles' = Toggles, Answers' = Answers,
         \A i \in Answers : events'[i] = events[i],
         NEW k \in {0, 1}, calls \in Seq(Call),
         \A i \in DOMAIN calls' : i + k \in DOMAIN calls /\ calls'[i] = calls[i + k] /\ i \in Nat,
         k = 1 => calls[1].call # "isPaused"
  PROVE  ButtonInv'
  <1>1. DOMAIN calls' \subseteq Nat
    OBVIOUS
  <1>2. \A i \in PauseCalls' : i + k \in PauseCalls /\ calls'[i] = calls[i + k] /\ i \in Nat
    BY DEF PauseCalls
  <1>3. OnePause'
    <2>1. \A i, j \in PauseCalls' : i = j
      <3>1. \A i, j \in PauseCalls' : i + k = j + k
        BY <1>2 DEF ButtonInv, OnePause
      <3> QED
        BY <1>2, <3>1
    <2>2. PauseCalls = {} => PauseCalls' = {}
      BY <1>2
    <2>3. \A i \in PauseCalls' : calls'[i].pause = ~paused'
      BY <1>2 DEF ButtonInv, OnePause
    <2> QED
      BY <2>1, <2>2, <2>3 DEF ButtonInv, OnePause
  <1>4. ShownFollows'
    BY DEF ButtonInv, ShownFollows
  <1>5. \A i \in Questions' : i = 1 /\ Toggles' = {}
    <2>1. \A i \in Questions' : i + k \in Questions /\ calls'[i] = calls[i + k] /\ i \in Nat
      BY DEF Questions
    <2>2. \A i \in Questions' : i + k = 1 /\ Toggles = {}
      BY <2>1 DEF ButtonInv, QuestionIsFirst
    <2>3. k = 1 => 1 \notin Questions
      BY DEF Questions
    <2> QED
      BY <2>1, <2>2, <2>3
  <1>6. QuestionIsFirst'
    BY <1>5 DEF ButtonInv, QuestionIsFirst
  <1> QED
    BY <1>3, <1>4, <1>6 DEF ButtonInv

\* What is new is unread.
LEMMA ToldOfButton ==
  ASSUME CardsTypeOK, NEW k \in Nat, Told(k), UNCHANGED read
  PROVE  /\ \A i \in Toggles' : i \in Toggles \/ (i \in News(k) /\ events'[i].what = "Toggled")
         /\ \A i \in Toggles : i \in Toggles'
         /\ \A i \in News(k) : events'[i].what = "Toggled" => i \in Toggles'
         /\ \A i \in Answers' : i \in Answers \/ (i \in News(k) /\ events'[i].what \in {"Paused", "Unpaused"})
         /\ \A i \in Answers : i \in Answers' /\ events'[i] = events[i]
         /\ \A i \in Answers, j \in News(k) : i < j
  <1>1. /\ \A i \in DOMAIN events : i \in Unread' <=> i \in Unread
        /\ \A i \in News(k) : i \in DOMAIN events' /\ i \in Unread'
        /\ \A i \in DOMAIN events, j \in News(k) : i < j
        /\ \A i \in DOMAIN events : i \in DOMAIN events' /\ events'[i] = events[i]
        /\ \A i \in DOMAIN events' : i \in DOMAIN events \/ i \in News(k)
    BY SaidLater
  <1>2. Unread \subseteq DOMAIN events /\ Unread' \subseteq DOMAIN events'
    <2>1. DOMAIN events = 1..Len(events) /\ Len(events) \in Nat /\ read \in 0..Len(events)
      BY LenProperties DEF CardsTypeOK, QueueTypeOK
    <2>2. DOMAIN events' = 1..Len(events') /\ Len(events') \in Nat
      BY <2>1 DEF Told
    <2> QED
      BY <2>1, <2>2 DEF Unread
  <1> QED
    BY <1>1, <1>2 DEF Toggles, Answers

LEMMA CallsAreShorter ==
  ASSUME CardsTypeOK, calls' = calls \/ (calls # <<>> /\ calls' = Tail(calls))
  PROVE  \E k \in {0, 1} :
           /\ \A i \in DOMAIN calls' : i + k \in DOMAIN calls /\ calls'[i] = calls[i + k] /\ i \in Nat
           /\ k = 1 => calls # <<>> /\ calls' = Tail(calls)
  <1>1. calls \in Seq(Call) /\ DOMAIN calls = 1..Len(calls) /\ Len(calls) \in Nat
    BY LenProperties DEF CardsTypeOK
  <1>2. CASE calls' = calls
    <2>1. \A i \in DOMAIN calls : i \in Nat /\ i + 0 = i
      BY <1>1
    <2>2. \A i \in DOMAIN calls' : i + 0 \in DOMAIN calls /\ calls'[i] = calls[i + 0] /\ i \in Nat
      BY <1>2, <2>1
    <2> QED
      BY <2>2
  <1>3. CASE calls # <<>> /\ calls' = Tail(calls)
    <2>1. \A i \in DOMAIN calls' : i + 1 \in DOMAIN calls /\ calls'[i] = calls[i + 1] /\ i \in Nat
      BY <1>1, <1>3, CallTaken
    <2> QED
      BY <1>3, <2>1
  <1> QED
    BY <1>2, <1>3

\* Nothing about the pause state is said.
LEMMA ButtonNotTold ==
  ASSUME CardsTypeOK, NEW k \in Nat, Told(k), UNCHANGED read,
         \A i \in News(k) : events'[i].what \notin ButtonSays
  PROVE  Toggles' = Toggles /\ Answers' = Answers /\ \A i \in Answers : events'[i] = events[i]
  <1>1. \A i \in News(k) : events'[i].what # "Toggled" /\ events'[i].what \notin {"Paused", "Unpaused"}
    BY DEF ButtonSays
  <1> QED
    BY <1>1, ToldOfButton

\* The strand, but for the calls about the pause state.
LEMMA ButtonAndQueue ==
  ASSUME BaseInv, ButtonInv,
         HandleAdd \/ HandleCancel \/ (Loop /\ UNCHANGED pageVars)
  PROVE  ButtonInv'
  <1>1. CardsTypeOK /\ calls \in Seq(Call) /\ QueueInv
    BY DEF BaseInv, CardsTypeOK
  <1>2. UNCHANGED <<cards, shown, loaded, read, clicks>>
        /\ (calls' = calls \/ (calls # <<>> /\ calls' = Tail(calls)))
    BY StrandMoves DEF Strand
  <1>3. /\ calls' # calls => calls[1].call # "isPaused"
        /\ UNCHANGED queueVars
             \/ (UNCHANGED parallelism /\ (Loop \/ AddsFile \/ AddsDirectory \/ Cancels))
    <2>1. ASSUME NEW call, Handled(call) PROVE calls[1].call = call /\ 1 \in DOMAIN calls /\ Head(calls) = calls[1]
                                             /\ UNCHANGED parallelism
      BY <1>1, <2>1, CallTaken DEF Handled
    <2>2. CASE HandleAdd
      BY <2>1, <2>2 DEF HandleAdd, AddsFile, AddsDirectory
    <2>3. CASE HandleCancel
      <3>1. calls[1].call = "cancel" /\ 1 \in DOMAIN calls /\ Head(calls) = calls[1] /\ UNCHANGED parallelism
        BY <2>1, <2>3 DEF HandleCancel
      <3>2. Head(calls).of \in 1..created
        BY <3>1 DEF BaseInv, CancelsWereGiven
      <3>3. Cancels
        BY <2>3, <3>2 DEF HandleCancel, Cancels
      <3> QED
        BY <3>1, <3>3
    <2>4. CASE Loop /\ UNCHANGED pageVars
      BY <2>4 DEF Loop, pageVars
    <2> QED
      BY <2>2, <2>3, <2>4
  <1>4. /\ paused' = paused
        /\ Toggles' = Toggles /\ Answers' = Answers /\ \A i \in Answers : events'[i] = events[i]
    <2>1. CASE UNCHANGED queueVars
      BY <1>2, <2>1 DEF queueVars, Toggles, Answers, Unread
    <2>2. CASE UNCHANGED parallelism /\ (Loop \/ AddsFile \/ AddsDirectory \/ Cancels)
      <3>1. (Unseen \/ Dropped \/ Grown) /\ paused' = paused
        BY <1>1, <2>2, QueueIsSeen
      <3>2. \A id : Added(id).what = "Added"
        BY DEF Added
      <3>3. \E k \in {0, 1, 2} : Told(k) /\ \A i \in News(k) : events'[i].what \notin ButtonSays
        <4>1. CASE Unseen
          BY <4>1 DEF Unseen
        <4>2. CASE Dropped
          BY <4>2 DEF Dropped, Overs, Reports, ButtonSays
        <4>3. CASE Grown
          <5>1. PICK k \in {1, 2} : /\ Told(k)
                                    /\ \A i \in News(k) : events'[i] = Added(created + (i - Len(events)))
            BY <4>3 DEF Grown
          <5>2. \A i \in News(k) : events'[i].what = "Added"
            BY <3>2, <5>1, Zenon
          <5> QED
            BY <5>1, <5>2 DEF ButtonSays
        <4> QED
          BY <3>1, <4>1, <4>2, <4>3
      <3> QED
        BY <1>1, <1>2, <3>1, <3>3, ButtonNotTold
    <2> QED
      BY <1>3, <2>1, <2>2
  <1>5. PICK k \in {0, 1} :
           /\ \A i \in DOMAIN calls' : i + k \in DOMAIN calls /\ calls'[i] = calls[i + k] /\ i \in Nat
           /\ k = 1 => calls # <<>> /\ calls' = Tail(calls)
    BY <1>1, <1>2, CallsAreShorter
  <1>6. k = 1 => calls[1].call # "isPaused"
    <2>1. k = 1 => Len(calls') = Len(calls) - 1 /\ Len(calls) \in Nat
      BY <1>1, <1>5, HeadTailProperties, LenProperties
    <2>2. k = 1 => calls' # calls
      BY <2>1
    <2> QED
      BY <1>3, <2>2
  <1> QED
    BY <1>1, <1>2, <1>4, <1>5, <1>6, ButtonStays

\* The strand toggles the queue: the button will be told.
LEMMA ButtonAndToggle ==
  ASSUME BaseInv, ButtonInv, HandlePause
  PROVE  ButtonInv'
  <1>1. CardsTypeOK /\ calls \in Seq(Call) /\ QueueInv /\ shown \in BOOLEAN /\ paused \in BOOLEAN
    BY DEF BaseInv, CardsTypeOK, QueueTypeOK
  <1>2. /\ calls # <<>> /\ calls' = Tail(calls) /\ Head(calls).call = "pause"
        /\ UNCHANGED <<shown, read>> /\ PauseUnpause(Head(calls).pause)
    BY DEF HandlePause, Handled
  <1>3. /\ \A i \in DOMAIN calls' : i + 1 \in DOMAIN calls /\ calls'[i] = calls[i + 1] /\ i \in Nat
        /\ 1 \in DOMAIN calls /\ Head(calls) = calls[1]
    BY <1>1, <1>2, CallTaken
  <1>4. 1 \in PauseCalls /\ 1 \notin Questions
    BY <1>2, <1>3 DEF PauseCalls, Questions
  <1>5. Toggles = {} /\ paused' = ~paused /\ shown = paused
    BY <1>2, <1>3, <1>4 DEF ButtonInv, OnePause, ShownFollows, PauseUnpause
  <1>6. \A i \in DOMAIN calls' : i + 1 # 1 /\ i + 1 \notin PauseCalls /\ i + 1 \notin Questions
    <2>1. \A i \in Nat : i = 0 \/ i + 1 # 1
      OBVIOUS
    <2>2. DOMAIN calls' = 1..Len(calls')
      BY <1>1, <1>2, CallTaken, LenProperties
    <2>3. \A i \in DOMAIN calls' : i + 1 # 1
      BY <2>2
    <2> QED
      BY <1>3, <1>4, <2>3 DEF ButtonInv, OnePause, QuestionIsFirst
  <1>7. PauseCalls' = {} /\ Questions' = {}
    BY <1>3, <1>6 DEF PauseCalls, Questions
  <1>8. Told(1) /\ \A i \in News(1) : events'[i].what = "Toggled"
    <2>1. UNCHANGED <<operations, created>> /\ events' = Append(events, [what |-> "Toggled", of |-> 0])
      BY <1>2 DEF PauseUnpause
    <2> QED
      BY <1>1, <2>1, AnswerIsSeen
  <1>9. PICK n : News(1) = {n}
    <2>1. Len(events) \in Nat
      BY LenProperties DEF CardsTypeOK, QueueTypeOK, BaseInv
    <2>2. News(1) = {Len(events) + 1}
      BY <2>1 DEF News
    <2> QED
      BY <2>2
  <1>10. /\ \A i \in Toggles' : i \in Toggles \/ (i \in News(1) /\ events'[i].what = "Toggled")
         /\ \A i \in News(1) : events'[i].what = "Toggled" => i \in Toggles'
         /\ \A i \in Answers' : i \in Answers \/ (i \in News(1) /\ events'[i].what \in {"Paused", "Unpaused"})
         /\ \A i \in Answers : i \in Answers' /\ events'[i] = events[i]
         /\ \A i \in Answers, j \in News(1) : i < j
    BY <1>1, <1>2, <1>8, ToldOfButton
  <1>11. Toggles' = {n} /\ \A i \in Answers' : i \in Answers /\ events'[i] = events[i] /\ i < n
    BY <1>5, <1>8, <1>9, <1>10
  <1>12. OnePause'
    BY <1>7, <1>11 DEF OnePause
  <1>13. ShownFollows'
    BY <1>1, <1>2, <1>5, <1>11 DEF ShownFollows
  <1>14. QuestionIsFirst'
    BY <1>2, <1>7, <1>11 DEF ButtonInv, QuestionIsFirst
  <1> QED
    BY <1>12, <1>13, <1>14 DEF ButtonInv

\* The strand answers activate()'s question.
LEMMA ButtonAndQuestion ==
  ASSUME BaseInv, ButtonInv, HandleIsPaused
  PROVE  ButtonInv'
  <1>1. CardsTypeOK /\ calls \in Seq(Call) /\ QueueInv /\ shown \in BOOLEAN /\ paused \in BOOLEAN
    BY DEF BaseInv, CardsTypeOK, QueueTypeOK
  <1>2. /\ calls # <<>> /\ calls' = Tail(calls) /\ Head(calls).call = "isPaused"
        /\ UNCHANGED <<shown, read>> /\ IsPaused
    BY DEF HandleIsPaused, Handled
  <1>3. /\ \A i \in DOMAIN calls' : i + 1 \in DOMAIN calls /\ calls'[i] = calls[i + 1] /\ i \in Nat
        /\ 1 \in DOMAIN calls /\ Head(calls) = calls[1]
    BY <1>1, <1>2, CallTaken
  <1>4. Toggles = {} /\ shown = paused
    <2>1. 1 \in Questions
      BY <1>2, <1>3 DEF Questions
    <2> QED
      BY <2>1 DEF ButtonInv, QuestionIsFirst, ShownFollows
  <1>5. Questions' = {}
    <2>1. DOMAIN calls' = 1..Len(calls')
      BY <1>1, <1>2, CallTaken, LenProperties
    <2>2. \A i \in DOMAIN calls' : i + 1 # 1
      BY <2>1
    <2>3. \A i \in Questions' : i + 1 \in Questions
      BY <1>3 DEF Questions
    <2>4. \A i \in Questions' : i \in DOMAIN calls'
      BY DEF Questions
    <2> QED
      BY <2>2, <2>3, <2>4 DEF ButtonInv, QuestionIsFirst
  <1>6. \A i \in PauseCalls' : i + 1 \in PauseCalls /\ calls'[i] = calls[i + 1] /\ i \in Nat
    BY <1>3 DEF PauseCalls
  <1>7. \A i, j \in PauseCalls' : i = j
    <2>1. \A i, j \in PauseCalls' : i + 1 = j + 1
      BY <1>6 DEF ButtonInv, OnePause
    <2> QED
      BY <1>6, <2>1
  <1> DEFINE what == IF paused THEN "Paused" ELSE "Unpaused"
  <1>8. /\ what \in {"Toggled", "Paused", "Unpaused"} /\ what # "Toggled" /\ (shown = (what = "Paused"))
        /\ paused' = paused
        /\ Told(1) /\ \A i \in News(1) : events'[i].what = what
    <2>1. what \in {"Toggled", "Paused", "Unpaused"} /\ what # "Toggled"
      OBVIOUS
    <2>2. shown = (what = "Paused")
      BY <1>1, <1>4
    <2>3. UNCHANGED <<operations, created, paused>> /\ events' = Append(events, [what |-> what, of |-> 0])
      BY <1>2 DEF IsPaused
    <2> HIDE DEF what
    <2> QED
      BY <1>1, <2>1, <2>2, <2>3, AnswerIsSeen
  <1> HIDE DEF what
  <1>9. /\ \A i \in Toggles' : i \in Toggles \/ (i \in News(1) /\ events'[i].what = "Toggled")
        /\ \A i \in Answers' : i \in Answers \/ (i \in News(1) /\ events'[i].what \in {"Paused", "Unpaused"})
        /\ \A i \in Answers : i \in Answers' /\ events'[i] = events[i]
    BY <1>1, <1>2, <1>8, ToldOfButton
  <1>10. Toggles' = {}
    BY <1>4, <1>8, <1>9
  <1>11. \A i \in Answers' : shown = (events'[i].what = "Paused")
    <2> SUFFICES ASSUME NEW i \in Answers' PROVE shown = (events'[i].what = "Paused")
      OBVIOUS
    <2>1. CASE i \in Answers
      BY <1>9, <2>1 DEF ButtonInv, QuestionIsFirst
    <2>2. CASE i \in News(1)
      BY <1>8, <2>2
    <2> QED
      BY <1>9, <2>1, <2>2
  <1>12. OnePause'
    BY <1>6, <1>7, <1>8, <1>10 DEF ButtonInv, OnePause
  <1>13. ShownFollows'
    BY <1>2, <1>4, <1>8, <1>10 DEF ShownFollows
  <1>14. QuestionIsFirst'
    BY <1>2, <1>5, <1>10, <1>11 DEF QuestionIsFirst
  <1> QED
    BY <1>12, <1>13, <1>14 DEF ButtonInv

\* The page receives the reply of a pause call, or the answer.
LEMMA ButtonAndPage ==
  ASSUME BaseInv, ButtonInv, Page
  PROVE  ButtonInv'
  <1>1. CardsTypeOK /\ shown \in BOOLEAN /\ paused \in BOOLEAN
    BY DEF BaseInv, CardsTypeOK, QueueTypeOK
  <1>2. PICK whats : Received(whats)
    BY DEF Page, OnOperationAdded, OnOperationCompleted, OnCancelReply, OnPauseReply, OnIsPaused
  <1>3. /\ read + 1 \in Unread /\ events' = events
        /\ \A i : i \in Unread' <=> i \in Unread /\ i # read + 1
        /\ \A i \in Unread' : read + 1 < i
    BY <1>1, <1>2, Receipt
  <1>4. calls' = calls /\ paused' = paused
    BY <1>2 DEF Received, queueVars
  <1>5. \A i \in Unread : i = read + 1 \/ read + 1 < i
    BY <1>3
  <1>6. /\ PauseCalls' = PauseCalls /\ Questions' = Questions
        /\ \A i : i \in Toggles' <=> i \in Toggles /\ i # read + 1
        /\ \A i : i \in Answers' <=> i \in Answers /\ i # read + 1
    BY <1>3, <1>4 DEF PauseCalls, Questions, Toggles, Answers
  <1>7. CASE OnOperationAdded \/ OnOperationCompleted \/ OnCancelReply
    <2>1. shown' = shown /\ events[read + 1].what \notin ButtonSays
      BY <1>7 DEF OnOperationAdded, OnOperationCompleted, OnCancelReply, Received, Reports, ButtonSays
    <2>2. Toggles' = Toggles /\ Answers' = Answers
      BY <1>6, <2>1 DEF Toggles, Answers, ButtonSays
    <2>3. OnePause'
      BY <1>4, <1>6, <2>2 DEF ButtonInv, OnePause
    <2>4. ShownFollows'
      BY <1>4, <2>1, <2>2 DEF ButtonInv, ShownFollows
    <2>5. QuestionIsFirst'
      BY <1>3, <1>6, <2>1, <2>2 DEF ButtonInv, QuestionIsFirst
    <2> QED
      BY <2>3, <2>4, <2>5 DEF ButtonInv
  <1>8. CASE OnPauseReply
    <2>1. read + 1 \in Toggles /\ shown' = ~shown
      BY <1>3, <1>8 DEF OnPauseReply, Received, Toggles
    <2>2. Toggles' = {}
      BY <1>6, <2>1 DEF ButtonInv, OnePause
    <2>3. Answers' = {} /\ Questions = {} /\ PauseCalls = {}
      <3>1. \A i \in Answers : i < read + 1 /\ i \in Unread
        BY <2>1 DEF ButtonInv, QuestionIsFirst, Answers
      <3>2. \A i \in Answers : FALSE
        <4>1. read \in Nat
          BY <1>1, LenProperties DEF CardsTypeOK, QueueTypeOK
        <4>2. \A i \in Unread : i \in Nat
          BY <4>1, <1>1, LenProperties DEF Unread, CardsTypeOK, QueueTypeOK
        <4> QED
          BY <1>5, <3>1, <4>1, <4>2
      <3> QED
        BY <1>6, <2>1, <3>2 DEF ButtonInv, OnePause, QuestionIsFirst
    <2>4. shown' = paused'
      BY <1>1, <1>4, <2>1 DEF ButtonInv, ShownFollows
    <2>5. OnePause'
      BY <1>6, <2>2, <2>3 DEF OnePause
    <2>6. ShownFollows'
      BY <2>2, <2>4 DEF ShownFollows
    <2>7. QuestionIsFirst'
      BY <1>6, <2>3 DEF QuestionIsFirst
    <2> QED
      BY <2>5, <2>6, <2>7 DEF ButtonInv
  <1>9. CASE OnIsPaused
    <2>1. read + 1 \in Answers /\ shown' = (events[read + 1].what = "Paused")
      BY <1>3, <1>9 DEF OnIsPaused, Received, Answers
    <2>2. shown' = shown
      BY <2>1 DEF ButtonInv, QuestionIsFirst
    <2>3. Toggles' = Toggles
      BY <1>6, <2>1 DEF Toggles, Answers
    <2>4. OnePause'
      BY <1>4, <1>6, <2>3 DEF ButtonInv, OnePause
    <2>5. ShownFollows'
      BY <1>4, <2>2, <2>3 DEF ButtonInv, ShownFollows
    <2>6. QuestionIsFirst'
      BY <1>3, <1>6, <2>2, <2>3 DEF ButtonInv, QuestionIsFirst
    <2> QED
      BY <2>4, <2>5, <2>6 DEF ButtonInv
  <1> QED
    BY <1>7, <1>8, <1>9 DEF Page

\* The user clicks.  A click on the pause button waits for the reply of the
\* last one.
LEMMA ButtonAndClicks ==
  ASSUME "pauseAgain" \notin Clicks, BaseInv, ButtonInv,
         ClickAdd \/ ClickPause \/ \E id \in Ids : ClickCancel(id)
  PROVE  ButtonInv'
  <1>1. CardsTypeOK /\ calls \in Seq(Call) /\ shown \in BOOLEAN /\ paused \in BOOLEAN
    BY DEF BaseInv, CardsTypeOK, QueueTypeOK
  <1>2. PICK call \in Call : /\ Sends(call) /\ calls' = Append(calls, call) /\ call.call # "isPaused"
                             /\ call.call = "pause" => ClickPause /\ call.pause = ~shown
    BY ClickSends
  <1>3. UNCHANGED <<events, paused, shown, read>>
    BY <1>2 DEF Sends, queueVars
  <1>4. Toggles' = Toggles /\ Answers' = Answers
    BY <1>3 DEF Toggles, Answers, Unread
  <1> DEFINE n == Len(calls) + 1
  <1>5. /\ \A i \in DOMAIN calls : i \in DOMAIN calls' /\ calls'[i] = calls[i]
        /\ \A i \in DOMAIN calls' : i \in DOMAIN calls \/ i = n
        /\ n \in DOMAIN calls' /\ calls'[n] = call
    <2>1. /\ DOMAIN calls = 1..Len(calls) /\ Len(calls) \in Nat /\ DOMAIN calls' = 1..(Len(calls) + 1)
          /\ \A i \in DOMAIN calls : i \in DOMAIN calls' /\ calls'[i] = calls[i]
          /\ \A i \in DOMAIN calls' : i \in DOMAIN calls \/ i = Len(calls) + 1
          /\ calls'[Len(calls) + 1] = call
      BY <1>1, <1>2, CallSent
    <2> QED
      BY <2>1
  <1> HIDE DEF n
  <1>6. Questions' = Questions
    BY <1>2, <1>5 DEF Questions
  <1>7. QuestionIsFirst' /\ ShownFollows'
    BY <1>3, <1>4, <1>6 DEF ButtonInv, QuestionIsFirst, ShownFollows
  <1>8. CASE call.call # "pause"
    <2>1. PauseCalls' = PauseCalls /\ \A i \in PauseCalls : calls'[i] = calls[i]
      BY <1>5, <1>8 DEF PauseCalls
    <2> QED
      BY <1>3, <1>4, <1>7, <2>1 DEF ButtonInv, OnePause
  <1>9. CASE call.call = "pause"
    <2>1. ~PauseIsUnderWay
      BY <1>2, <1>9 DEF ClickPause
    <2>2. PauseCalls = {} /\ Toggles = {}
      BY <2>1 DEF PauseIsUnderWay, PauseCalls, Toggles, Unread
    <2>3. \A i \in PauseCalls' : i = n
      BY <1>5, <2>2 DEF PauseCalls
    <2>4. calls'[n].pause = ~paused'
      BY <1>1, <1>2, <1>3, <1>5, <1>9, <2>2 DEF ButtonInv, ShownFollows
    <2>5. OnePause'
      BY <1>4, <2>2, <2>3, <2>4 DEF OnePause
    <2> QED
      BY <1>7, <2>5 DEF ButtonInv
  <1> QED
    BY <1>8, <1>9

LEMMA PauseInvStep ==
  ASSUME "pauseAgain" \notin Clicks, PauseInv, [CardsNext]_cardsVars
  PROVE  PauseInv'
  <1>1. BaseInv /\ BaseInv'
    BY BaseStep DEF PauseInv
  <1>2. CardsTypeOK /\ calls \in Seq(Call)
    BY <1>1 DEF BaseInv, CardsTypeOK
  <1>3. ASSUME UNCHANGED <<paused, events, shown, calls, read>>, ButtonInv PROVE ButtonInv'
    BY <1>3 DEF ButtonInv, OnePause, ShownFollows, QuestionIsFirst, PauseCalls, Questions, Toggles, Answers, Unread
  <1>4. CASE UNCHANGED cardsVars
    <2>1. UNCHANGED <<paused, events, shown, calls, read, loaded>>
      BY <1>4 DEF cardsVars, queueVars, pageVars
    <2> QED
      BY <1>1, <1>3, <2>1 DEF PauseInv
  <1>5. CASE ClickAdd \/ ClickPause \/ \E id \in Ids : ClickCancel(id)
    <2>1. loaded' = loaded
      BY <1>5 DEF ClickAdd, ClickPause, ClickCancel, Click
    <2> QED
      BY <1>1, <1>5, <2>1, ButtonAndClicks DEF PauseInv
  <1>6. CASE AutoClean \/ \E id \in Ids : ClickRemove(id)
    <2>1. UNCHANGED <<queueVars, shown, loaded, calls, read>>
      BY <1>2, <1>6, RemoveIsCardGoes
    <2>2. UNCHANGED <<paused, events, shown, calls, read, loaded>>
      BY <2>1 DEF queueVars
    <2> QED
      BY <1>1, <1>3, <2>2 DEF PauseInv
  <1>7. CASE LoadState
    BY <1>1, <1>7 DEF LoadState, PauseInv
  <1>8. CASE Strand
    <2>1. loaded' = loaded
      BY <1>1, <1>8, StrandMoves
    <2> QED
      BY <1>1, <1>8, <2>1, ButtonAndQueue, ButtonAndToggle, ButtonAndQuestion DEF PauseInv, Strand
  <1>9. CASE Page
    <2>1. loaded' = loaded
      BY <1>9 DEF Page, OnOperationAdded, OnOperationCompleted, OnCancelReply, OnPauseReply, OnIsPaused, Received
    <2> QED
      BY <1>1, <1>9, <2>1, ButtonAndPage DEF PauseInv
  <1> QED
    BY <1>4, <1>5, <1>6, <1>7, <1>8, <1>9 DEF CardsNext, User

LEMMA PauseInit0 == CardsInit => PauseInv
  <1> SUFFICES ASSUME CardsInit PROVE PauseInv
    OBVIOUS
  <1>1. BaseInv
    BY CardsInit0 DEF CardsInv
  <1>2. events = <<>> /\ shown = TRUE /\ paused = TRUE /\ read = 0
        /\ calls = <<[call |-> "isPaused", of |-> 0, pause |-> FALSE]>>
    BY DEF CardsInit, QueueInit
  <1>3. Toggles = {} /\ Answers = {}
    BY <1>2 DEF Toggles, Answers, Unread
  <1>4. DOMAIN calls = {1} /\ calls[1].call = "isPaused"
    <2> DEFINE call == [call |-> "isPaused", of |-> 0, pause |-> FALSE]
    <2>1. call.call = "isPaused" /\ calls = <<call>>
      BY <1>2
    <2> HIDE DEF call
    <2>2. DOMAIN <<call>> = {1} /\ <<call>>[1] = call
      OBVIOUS
    <2> QED
      BY <2>1, <2>2
  <1>5. PauseCalls = {} /\ Questions = {1}
    BY <1>4 DEF PauseCalls, Questions
  <1> QED
    BY <1>1, <1>2, <1>3, <1>5 DEF PauseInv, ButtonInv, OnePause, ShownFollows, QuestionIsFirst

(* When no call and no reply is on its way, the pause button shows the     *)
(* state of the queue, for any concurrency, as long as the persisted       *)
(* options were not written to the button and the user waits for the reply *)
(* of a click before the next: without that it does not hold.              *)
THEOREM PauseButtonIsRight ==
  ASSUME "pauseAgain" \notin Clicks
  PROVE  CardsSpec => []PauseButtonTellsTheTruth
  <1>1. PauseInv => PauseButtonTellsTheTruth
    <2> SUFFICES ASSUME PauseInv, Quiet, ~loaded PROVE shown = paused
      BY DEF PauseButtonTellsTheTruth
    <2>1. Toggles = {}
      BY LenProperties DEF Quiet, Toggles, Unread, PauseInv, BaseInv, CardsTypeOK, QueueTypeOK
    <2> QED
      BY <2>1 DEF PauseInv, ButtonInv, ShownFollows
  <1>2. PauseInv /\ [CardsNext]_cardsVars => PauseInv'
    BY PauseInvStep
  <1> QED
    BY <1>1, <1>2, PauseInit0, PTL DEF CardsSpec
=============================================================================
