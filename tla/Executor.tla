------------------------------- MODULE Executor -------------------------------
(***************************************************************************)
(* What ProcessingThread promises to the code that pushes tasks: a queue    *)
(* that runs its tasks one at a time in the order of acceptance, and that   *)
(* runs what is left, newest first and accepting nothing more, when it is   *)
(* stopped.  Batches, permanent tasks, flags and locks do not show.         *)
(***************************************************************************)
EXTENDS Integers, Sequences

CONSTANTS Tasks,    \* the tasks, each accepted at most once
          Throwing  \* those whose body throws

VARIABLES queue,    \* accepted and not run
          ran,      \* run, in order
          draining  \* stop() is running what is left

vars == <<queue, ran, draining>>

Init == queue = <<>> /\ ran = <<>> /\ draining = FALSE

Known(t) == \/ \E i \in DOMAIN queue : queue[i] = t
            \/ \E i \in DOMAIN ran : ran[i] = t

Accept(t) ==
    /\ ~draining
    /\ ~Known(t)
    /\ queue' = Append(queue, t)
    /\ UNCHANGED <<ran, draining>>

RunFirst ==
    /\ ~draining
    /\ queue # <<>> /\ Head(queue) \notin Throwing
    /\ queue' = Tail(queue)
    /\ ran' = Append(ran, Head(queue))
    /\ UNCHANGED draining

\* A task may accept one more task while it runs.
RunFirstAccepting(t) ==
    /\ ~draining
    /\ ~Known(t)
    /\ queue # <<>> /\ Head(queue) \notin Throwing
    /\ queue' = Append(Tail(queue), t)
    /\ ran' = Append(ran, Head(queue))
    /\ UNCHANGED draining

\* A task that throws may lose the n tasks behind it.
RunThrowing ==
    /\ ~draining
    /\ queue # <<>> /\ Head(queue) \in Throwing
    /\ \E n \in 1..Len(queue) : queue' = SubSeq(queue, n + 1, Len(queue))
    /\ ran' = Append(ran, Head(queue))
    /\ UNCHANGED draining

BeginDrain == ~draining /\ draining' = TRUE /\ UNCHANGED <<queue, ran>>

RunLast ==
    /\ draining /\ queue # <<>>
    /\ ran' = Append(ran, queue[Len(queue)])
    /\ IF queue[Len(queue)] \in Throwing
       THEN draining' = FALSE /\ UNCHANGED queue
       ELSE queue' = SubSeq(queue, 1, Len(queue) - 1) /\ UNCHANGED draining

EndDrain == draining /\ queue = <<>> /\ draining' = FALSE /\ UNCHANGED <<queue, ran>>

Next ==
    \/ \E t \in Tasks : Accept(t) \/ RunFirstAccepting(t)
    \/ RunFirst \/ RunThrowing
    \/ BeginDrain \/ RunLast \/ EndDrain

Spec == Init /\ [][Next]_vars
=============================================================================
