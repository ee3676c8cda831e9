----------------------------- MODULE LocalTerminal -----------------------------
(***************************************************************************)
(* Tabs with local shells: SessionArea and its Sessions, the single         *)
(* channel of Terminal with its ExecutingTerminalEngine, ProcessStore with  *)
(* its children, and the way of a child's death: SIGCHLD, the handler's     *)
(* slots, the timer that empties them, a task for the window's thread, and  *)
(* SessionArea::processDied.                                                *)
(*                                                                          *)
(* A call of the page and a task of the timer each run to completion on     *)
(* the window's thread; what it tells the page arrives in order.            *)
(***************************************************************************)
EXTENDS Integers, Sequences, FiniteSets

CONSTANTS
    MaxSessions,   \* tabs that are ever added
    MaxProcesses,  \* children that are ever started
    Slots,         \* sigchld: 10 in the code
    Ptys,          \* tabs with a pseudo terminal; the others have pipes
    Stops,         \* children that may be stopped
    Nobody

ASSUME LocalAssumption ==
    /\ MaxSessions \in Nat /\ MaxProcesses \in Nat /\ Slots \in Nat \ {0} /\ Stops \subseteq 1..MaxProcesses
    /\ Ptys \subseteq 1..MaxSessions

Processes == 1..MaxProcesses

VARIABLES
    child,     \* "none", "running", "stopped", "dead", or "reaped"
    signal,    \* the SIGCHLD that is pending: one, whoever it is from
    slots,     \* sigchld: process ids, Nobody where free
    missed,    \* history: children that ended and whose signal was not noted
    notices,   \* the timer's tasks for the window's thread
    calls,     \* calls of the page
    store,     \* ProcessStore::processes_
    mail,      \* what is under way to the page
    sessions,  \* SessionArea: the tabs
    selected,
    added      \* tabs added so far

system    == <<child, signal, missed>>
area      == <<sessions, selected, added>>
localVars == <<system, slots, notices, calls, store, mail, area>>

LocalInit ==
    /\ child = [p \in Processes |-> "none"] /\ signal = Nobody
    /\ slots = [i \in 1..Slots |-> Nobody] /\ missed = {}
    /\ notices = {} /\ calls = <<>> /\ store = {} /\ mail = <<>>
    /\ sessions = <<>> /\ selected = 0 /\ added = 0

-----------------------------------------------------------------------------
(* Children and their signals. *)

\* Children whose end nobody has dealt with.
Waiting == {p \in Processes : child[p] \in {"stopped", "dead"}}

\* A SIGCHLD that comes while one is pending is merged with it.
Raise(p) ==
    IF signal = Nobody THEN signal' = p /\ UNCHANGED missed
    ELSE missed' = missed \cup ({p} \cap Waiting') /\ UNCHANGED signal

Becomes(p, from, to) ==
    /\ child[p] \in from /\ child' = [child EXCEPT ![p] = to] /\ Raise(p)
    /\ UNCHANGED <<slots, notices, calls, store, mail, area>>

Die  == \E p \in Processes : Becomes(p, {"running"}, "dead")
Stop == \E p \in Stops : Becomes(p, {"running"}, "stopped")

\* The handler takes the first free slot; without one the signal is gone.
SignalHandler ==
    /\ signal # Nobody /\ signal' = Nobody
    /\ IF \E i \in 1..Slots : slots[i] = Nobody
       THEN /\ slots' = [slots EXCEPT ![CHOOSE i \in 1..Slots : slots[i] = Nobody
                                          /\ \A j \in 1..(i - 1) : slots[j] # Nobody] = signal]
            /\ UNCHANGED missed
       ELSE missed' = missed \cup ({signal} \cap Waiting) /\ UNCHANGED slots
    /\ UNCHANGED <<child, notices, calls, store, mail, area>>

\* Every 200 ms.
ChildSignalTimer ==
    /\ \E i \in 1..Slots : slots[i] # Nobody
    /\ notices' = notices \cup {slots[i] : i \in {j \in 1..Slots : slots[j] # Nobody}}
    /\ slots' = [i \in 1..Slots |-> Nobody]
    /\ UNCHANGED <<system, calls, store, mail, area>>

-----------------------------------------------------------------------------
(* The window's thread: ProcessStore. *)

Calling(op) == calls # <<>> /\ Head(calls).op = op /\ calls' = Tail(calls)

Tell(m) == mail' = Append(mail, m)

\* Process::spawn(), with a pseudo terminal or with pipes.
Spawned(p) ==
    /\ child[p] = "none" /\ \A r \in 1..(p - 1) : child[r] # "none"
    /\ child' = [child EXCEPT ![p] = "running"]

Emplaced(p) == Spawned(p) /\ store' = store \cup {p}

\* With what the page sent the child may also fail to start.
HandleSpawn ==
    /\ Calling("spawn")
    /\ \/ \E p \in Processes :
              Emplaced(p) /\ Tell([op |-> "spawned", engine |-> Head(calls).engine, process |-> p])
       \/ /\ Tell([op |-> "spawned", engine |-> Head(calls).engine, process |-> Nobody])
          /\ UNCHANGED <<child, store>>
    /\ UNCHANGED <<signal, missed, slots, notices, area>>

\* exit() and the destructor of the erased Process: a child that is dead is
\* reaped, one that is not is asked to exit, waited for and at last killed.
Erase(p) ==
    /\ store' = store \ {p} /\ child' = [child EXCEPT ![p] = "reaped"]
    /\ IF child[p] = "dead" THEN UNCHANGED <<signal, missed>> ELSE Raise(p)

\* ProcessStore::exit, for what ~ExecutingTerminalEngine leaves behind.
HandleExit ==
    /\ Calling("exit")
    /\ IF Head(calls).process \in store THEN Erase(Head(calls).process) ELSE UNCHANGED <<store, system>>
    /\ UNCHANGED <<slots, notices, mail, area>>

\* The processes of the pseudo terminal, of which the page shows the latest.
Listed(p) == IF p \in store THEN p ELSE Nobody

\* ProcessStore::ptyProcesses.
HandleList ==
    /\ Calling("list")
    /\ Tell([op |-> "listed", engine |-> Head(calls).engine, process |-> Listed(Head(calls).process)])
    /\ UNCHANGED <<system, slots, notices, store, area>>

\* Faulty: the tab is closed first, for whatever process it is.
NotifyAnyway(p) ==
    /\ Tell([op |-> "died", process |-> p]) /\ UNCHANGED <<store, system>>

NotifyChildExit(p) ==
    IF p \in store THEN Erase(p) /\ Tell([op |-> "died", process |-> p])
    ELSE UNCHANGED <<store, system, mail>>

HandleNotice ==
    /\ \E p \in notices : notices' = notices \ {p} /\ NotifyChildExit(p)
    /\ UNCHANGED <<slots, calls, area>>

-----------------------------------------------------------------------------
(* The page: SessionArea, and in every tab a Terminal with its engine. *)

Letter(op) == mail # <<>> /\ Head(mail).op = op /\ mail' = Tail(mail)

\* The position of the tab with this engine, or one past the last.
PositionOf(e) ==
    IF \E i \in DOMAIN sessions : sessions[i].engine = e
    THEN CHOOSE i \in DOMAIN sessions : sessions[i].engine = e ELSE Len(sessions) + 1

\* The new tab is rendered as the selected one; the one that was is hidden.
AddSession ==
    /\ added < MaxSessions
    /\ added' = added + 1 /\ selected' = Len(sessions)
    /\ sessions' = Append([i \in DOMAIN sessions |->
                              [sessions[i] EXCEPT !.visible = @ /\ i - 1 # selected]],
                          [engine |-> added', process |-> Nobody, title |-> Nobody, step |-> "opening",
                           timer |-> FALSE, visible |-> TRUE])
    /\ calls' = Append(calls, [op |-> "spawn", engine |-> added', process |-> Nobody])
    /\ UNCHANGED <<system, slots, notices, store, mail>>

\* tab-select does not touch selected.
SelectTab ==
    /\ \E i \in DOMAIN sessions :
          sessions' = [j \in DOMAIN sessions |-> [sessions[j] EXCEPT !.visible = (j = i)]]
    /\ UNCHANGED <<system, slots, notices, calls, store, mail, selected, added>>

Spawns == Cardinality({p \in Processes : child[p] # "none"})
            + Cardinality({i \in DOMAIN calls : calls[i].op = "spawn"})

\* A panel of the layout: Terminal::createChannel() opens the engine again.
CreateSingleChannel ==
    /\ Spawns < MaxProcesses
    /\ \E i \in DOMAIN sessions :
          /\ sessions[i].step = "layout"
          /\ calls' = Append(calls, [op |-> "spawn", engine |-> sessions[i].engine, process |-> Nobody])
          /\ sessions' = [sessions EXCEPT ![i].step = "panel"]
    /\ UNCHANGED <<system, slots, notices, store, mail, selected, added>>

\* The callback of open(): the first child makes way for that of the panel.
OnSpawned ==
    /\ Letter("spawned")
    /\ LET p == Head(mail).process
           i == PositionOf(Head(mail).engine)
       IN  CASE i > Len(sessions) -> UNCHANGED <<sessions, calls>>
             [] i <= Len(sessions) /\ p # Nobody ->
                    /\ sessions' = [sessions EXCEPT ![i] =
                          [@ EXCEPT !.process = p, !.timer = sessions[i].engine \in Ptys,
                                    !.step = IF sessions[i].step = "opening" THEN "layout" ELSE "open"]]
                    /\ UNCHANGED calls
             [] i <= Len(sessions) /\ p = Nobody /\ sessions[i].step = "opening" ->
                    \* Terminal::open() disposes of the engine.
                    /\ sessions' = [sessions EXCEPT ![i].step = "failed"]
                    /\ calls' = Append(calls, [op |-> "exit", engine |-> Head(mail).engine, process |-> Nobody])
             [] OTHER -> UNCHANGED <<sessions, calls>>
    /\ UNCHANGED <<system, slots, notices, store, selected, added>>

\* updatePtyProcs(), 500 ms later; without a pseudo terminal there is no answer.
ProcInfoTimer ==
    /\ \E i \in DOMAIN sessions :
          /\ sessions[i].timer /\ sessions' = [sessions EXCEPT ![i].timer = FALSE]
          /\ calls' = Append(calls, [op |-> "list", engine |-> sessions[i].engine, process |-> sessions[i].process])
    /\ UNCHANGED <<system, slots, notices, store, mail, selected, added>>

\* onProcessChange: the title of the tab.
OnListed ==
    /\ Letter("listed")
    /\ LET i == PositionOf(Head(mail).engine)
       IN  IF i > Len(sessions) THEN UNCHANGED <<sessions, calls>>
           ELSE /\ sessions' = [sessions EXCEPT ![i].title = IF Head(mail).process = Nobody THEN @ ELSE Head(mail).process]
                /\ UNCHANGED calls
    /\ UNCHANGED <<system, slots, notices, store, selected, added>>

\* setSelected(), with index - 1 as an int: before the first it selects nothing.
SetSelected(index) ==
    IF index \in 0..(Len(sessions) - 1)
    THEN <<[i \in DOMAIN sessions |->
              [sessions[i] EXCEPT !.visible = IF i = index + 1 THEN TRUE ELSE @ /\ i - 1 # selected]], index>>
    ELSE <<[i \in DOMAIN sessions |-> [sessions[i] EXCEPT !.visible = @ /\ i - 1 # selected]], selected>>

\* The engine is disposed of by ~Terminal, and again by its destructor.
Leave(e, p) == calls' = Append(calls, [op |-> "exit", engine |-> e, process |-> p])

\* removeSession() and managerShutdown().
RemoveSession(i) ==
    LET moved == IF sessions[i].visible /\ Len(sessions) > 1 THEN SetSelected(i - 2) ELSE <<sessions, selected>>
    IN  /\ sessions' = [j \in 1..(Len(sessions) - 1) |-> moved[1][IF j < i THEN j ELSE j + 1]]
        /\ selected' = moved[2]
        /\ Leave(sessions[i].engine, sessions[i].process)

\* SessionArea::processDied: the first tab of that process.
ProcessDied ==
    /\ Letter("died")
    /\ LET of == {i \in DOMAIN sessions : sessions[i].process = Head(mail).process}
       IN  IF of = {} THEN UNCHANGED <<sessions, selected, calls>>
           ELSE RemoveSession(CHOOSE i \in of : \A j \in of : i <= j)
    /\ UNCHANGED <<system, slots, notices, store, added>>

WindowThread == HandleSpawn \/ HandleExit \/ HandleList

LocalPage == OnSpawned \/ OnListed \/ ProcessDied

LocalNext ==
    \/ Die \/ Stop \/ SignalHandler \/ ChildSignalTimer \/ HandleNotice
    \/ WindowThread \/ LocalPage
    \/ AddSession \/ SelectTab \/ CreateSingleChannel \/ ProcInfoTimer

-----------------------------------------------------------------------------
(* Properties *)

Shows(p) == \E i \in DOMAIN sessions : sessions[i].process = p

\* In the end, as there are finitely many children, no tab shows a process
\* that is dead, unless the signal was missed.
DeadProcessClosesItsTab ==
    <>[](\A p \in Processes : child[p] \in {"dead", "reaped"} /\ Shows(p) => p \in missed)

\* A tab is closed only when its process is gone and reaped.
TabClosesWithItsProcess ==
    [][\A i \in DOMAIN sessions :
          (\A j \in DOMAIN sessions' : sessions'[j].engine # sessions[i].engine)
              => child[sessions[i].process] = "reaped"]_localVars

\* A dead process closes its tab whatever else ends at that time.
EveryDeathIsNoticed == missed = {}

\* A running child belongs to a tab, or its tab is being told of it.
NoOrphans ==
    \A p \in Processes :
        child[p] = "running" /\ calls = <<>> /\ mail = <<>> /\ notices = {} => Shows(p)

\* There is one tab to look at.
OneTabIsVisible == sessions # <<>> => Cardinality({i \in DOMAIN sessions : sessions[i].visible}) = 1

\* A stopped child keeps its tab.
StoppedChildStays == [][\A p \in Processes : child[p] = "stopped" => child'[p] # "reaped"]_localVars
=============================================================================
