------------------------------ MODULE SshSession ------------------------------
(***************************************************************************)
(* SecureShell::Session with its channels, SFTP sessions and file streams,  *)
(* on one processing thread, used by the backend: every call, and the end   *)
(* of the session, happens on the backend's one strand, which waits for the *)
(* futures it asks for, some of them only for a while.                      *)
(*                                                                          *)
(* The processing thread is what Executor and ProcessingStrand promise: it  *)
(* runs accepted tasks one at a time in order, a read task until its strand *)
(* is finalized, and ends when a task throws.  Objects are owned by the     *)
(* session's containers, the backend holds weak references and locks them   *)
(* for the length of a call.                                                *)
(***************************************************************************)
EXTENDS Integers, Sequences, FiniteSets

CONSTANTS
    Channels, Sftps, Streams,  \* the objects that may be created
    MaxCalls,                  \* bound: calls of the backend that push a task
    None

ASSUME SshSessionAssumption ==
    /\ MaxCalls \in Nat
    /\ None \notin Channels \cup Sftps \cup Streams
    /\ Channels \cap Sftps = {} /\ Channels \cap Streams = {} /\ Sftps \cap Streams = {}

VARIABLES
    thread,      \* new, running, dead (a task threw) or stopped
    queue,       \* accepted tasks: operation, object, does the strand wait for it
    busy,        \* the channel in whose onExit_ the thread is, or None
    channels,    \* channels_
    sftps,       \* sftpSessions_
    streams,     \* fileStreams_ of each SFTP session
    sftpOf,      \* sftp_ of each stream
    owned,       \* streams whose file_ is set
    remote,      \* files open at the server
    opened, said,\* channels the server opened; those that got EOF and close
    finalized,   \* channels and SFTP sessions whose strand is finalized
    reading,     \* channels with a read task
    exited,      \* channels that ended at the server
    doing, ans,  \* the strand's call and the state of its future
    calls,       \* how many there were
    known,       \* channels_ and sftpChannels_ of the backend's Session
    posts,       \* channels whose removal onExit_ posted to the strand
    refs,        \* owners of the backend's Session: manager, worker
    down, dier   \* how far ~Session is, and where it runs

threadVars == <<thread, busy>>
owners     == <<channels, sftps, streams, sftpOf, owned>>
server     == <<remote, opened, said, exited>>
strands    == <<finalized, reading>>
caller     == <<doing, ans, calls, known, posts>>
ending     == <<refs, down, dier>>
vars == <<threadVars, queue, owners, server, strands, caller, ending>>

Idle == [op |-> "idle", obj |-> None]
RangeOf(s) == {s[i] : i \in DOMAIN s}

StrandOf(x) == IF x \in Streams THEN sftpOf[x] ELSE x

\* Somebody holds the object: its container or the call that locked it.
Alive(x) ==
    \/ x \in RangeOf(channels) \cup RangeOf(sftps)
    \/ x \in Streams /\ sftpOf[x] # None /\ x \in RangeOf(streams[sftpOf[x]])
    \/ doing.obj = x

Init ==
    /\ thread = "new" /\ queue = <<>> /\ busy = None
    /\ channels = <<>> /\ sftps = <<>> /\ streams = [s \in Sftps |-> <<>>]
    /\ sftpOf = [f \in Streams |-> None] /\ owned = {}
    /\ remote = {} /\ opened = {} /\ said = {} /\ exited = {}
    /\ finalized = {} /\ reading = {}
    /\ doing = Idle /\ ans = "none" /\ calls = 0 /\ known = {} /\ posts = {}
    /\ refs = {"manager"} /\ down = "no" /\ dier = None

Start == /\ thread = "new" /\ thread' = "running"
         /\ UNCHANGED <<queue, busy, owners, server, strands, caller, ending>>

-----------------------------------------------------------------------------
(* The strand: handlers of the backend's Session and of its operations. *)

CanCall == doing = Idle /\ thread # "new" /\ down = "no" /\ calls < MaxCalls

\* A call that waits for the future of the task it pushes.
Call(op, x) ==
    /\ CanCall
    /\ doing' = [op |-> op, obj |-> x] /\ ans' = "none" /\ calls' = calls + 1
    /\ queue' = Append(queue, [op |-> op, obj |-> x, waited |-> TRUE])

\* Every creation is a new object.
New(x) == x \notin opened \cup finalized /\ \A i \in DOMAIN queue : queue[i].obj # x

CreatePtyChannel ==
    /\ \E c \in Channels : New(c) /\ Call("createChannel", c)
    /\ UNCHANGED <<threadVars, owners, server, strands, known, posts, ending>>

CreateSftpSession ==
    /\ \E s \in Sftps : New(s) /\ Call("createSftp", s)
    /\ UNCHANGED <<threadVars, owners, server, strands, known, posts, ending>>

\* startReading(): pushPermanentTask() through the channel's strand.
StartReading ==
    /\ CanCall
    /\ \E c \in (known \cap Channels) \ reading :
           /\ Alive(c) /\ c \notin finalized
           /\ reading' = reading \cup {c}
    /\ calls' = calls + 1
    /\ UNCHANGED <<threadVars, queue, owners, server, finalized, doing, ans, known, posts, ending>>

\* write() and resizePty(): nobody waits for the task.
WriteOrResize ==
    /\ CanCall
    /\ \E c \in known \cap Channels :
           /\ Alive(c) /\ c \notin finalized
           /\ queue' = Append(queue, [op |-> "write", obj |-> c, waited |-> FALSE])
    /\ calls' = calls + 1
    /\ UNCHANGED <<threadVars, owners, server, strands, doing, ans, known, posts, ending>>

\* pushFinalPromiseTask().
Finalize(x, op) ==
    /\ x \notin finalized
    /\ finalized' = finalized \cup {x}
    /\ reading' = reading \ {x}
    /\ queue' = Append(queue, [op |-> op, obj |-> x, waited |-> TRUE])

\* Channel::close() for removeChannel(), posted by onExit_ or asked by the page.
RemoveChannel ==
    /\ doing = Idle /\ down = "no"
    /\ \E c \in known \cap Channels :
           /\ \/ c \in posts
              \/ calls < MaxCalls
           /\ calls' = IF c \in posts THEN calls ELSE calls + 1
           /\ doing' = [op |-> "closeChannel", obj |-> c] /\ ans' = "none"
           /\ Finalize(c, "closeChannel")
           /\ posts' = posts \ {c}
    /\ UNCHANGED <<threadVars, owners, server, known, ending>>

\* removeChannel() finds no channel of this id.
RemoveUnknownChannel ==
    /\ doing = Idle /\ down = "no"
    /\ \E c \in posts \ known : posts' = posts \ {c}
    /\ UNCHANGED <<threadVars, queue, owners, server, strands, doing, ans, calls, known, ending>>

\* listDirectory() to limits(), and stat() to readSome() of a stream.
SftpRequest ==
    /\ \E x \in (known \cap Sftps) \cup Streams :
           /\ Alive(x) /\ StrandOf(x) \notin finalized
           /\ Call(IF x \in Sftps THEN "sftp" ELSE "stream", x)
    /\ UNCHANGED <<threadVars, owners, server, strands, known, posts, ending>>

OpenFile ==
    /\ CanCall
    /\ \E s \in known \cap Sftps, f \in Streams :
           /\ Alive(s) /\ s \notin finalized /\ sftpOf[f] = None
           /\ sftpOf' = [sftpOf EXCEPT ![f] = s]
           /\ Call("openFile", f)
    /\ UNCHANGED <<threadVars, channels, sftps, streams, owned, server, strands, known, posts, ending>>

\* readAll() and write() of more than a part: tasks that push the next one.
TransferAll ==
    /\ \E f \in Streams : /\ Alive(f) /\ StrandOf(f) \notin finalized
                          /\ Call("transfer", f)
    /\ UNCHANGED <<threadVars, owners, server, strands, known, posts, ending>>

\* Faulty: the backend does not wait for the close.
CloseStreamAndGo ==
    /\ CanCall
    /\ \E f \in Streams :
           /\ Alive(f) /\ StrandOf(f) \notin finalized
           /\ queue' = Append(queue, [op |-> "closeStream", obj |-> f, waited |-> FALSE])
    /\ calls' = calls + 1
    /\ UNCHANGED <<threadVars, owners, server, strands, doing, ans, known, posts, ending>>

\* FileStream::close() outside of the processing thread.
CloseStream ==
    /\ \E f \in Streams : /\ Alive(f) /\ StrandOf(f) \notin finalized
                          /\ Call("closeStream", f)
    /\ UNCHANGED <<threadVars, owners, server, strands, known, posts, ending>>

CloseSftp ==
    /\ CanCall
    /\ calls' = calls + 1
    /\ \E s \in known \cap Sftps :
           /\ Finalize(s, "closeSftp")
           /\ doing' = [op |-> "closeSftp", obj |-> s] /\ ans' = "none"
    /\ UNCHANGED <<threadVars, owners, server, known, posts, ending>>

\* The future is ready and the handler goes on with it.
Return ==
    /\ doing # Idle /\ ans # "none"
    /\ known' = CASE doing.op \in {"createChannel", "createSftp"} /\ ans = "value"
                          -> known \cup {doing.obj}
                  [] doing.op \in {"closeChannel", "closeSftp"} -> known \ {doing.obj}
                  [] OTHER -> known
    /\ doing' = Idle /\ ans' = "none"
    /\ UNCHANGED <<threadVars, queue, owners, server, strands, calls, posts, ending>>

\* wait_for(futureTimeout): the task stays in the queue.
GiveUp ==
    /\ doing.op \in {"sftp", "stream", "openFile", "transfer"} /\ ans = "none"
    /\ doing' = Idle
    /\ queue' = [i \in DOMAIN queue |-> [queue[i] EXCEPT !.waited = FALSE]]
    /\ UNCHANGED <<threadVars, owners, server, strands, ans, calls, known, posts, ending>>

-----------------------------------------------------------------------------
(* The processing thread: the bodies of the tasks. *)

Drop(s, x) ==
    IF x \in RangeOf(s)
    THEN LET n == CHOOSE i \in DOMAIN s : s[i] = x
         IN  SubSeq(s, 1, n - 1) \o SubSeq(s, n + 1, Len(s))
    ELSE s

\* promise->set_value(), for a caller that still waits or for nobody.
Answer(t, a) == ans' = IF t.waited THEN a ELSE ans

Push(tasks) == queue' = Tail(queue) \o tasks

CreatesChannel(t) ==
    /\ t.op = "createChannel" /\ Push(<<>>)
    /\ \/ /\ channels' = Append(channels, t.obj) /\ opened' = opened \cup {t.obj}
          /\ Answer(t, "value")
       \/ Answer(t, "error") /\ UNCHANGED <<channels, opened>>
    /\ UNCHANGED <<threadVars, sftps, streams, sftpOf, owned, remote, said, exited, strands>>

\* A failed sftp_init() sets the promise and goes on to set it again, which throws.
CreatesSftp(t) ==
    /\ t.op = "createSftp" /\ Push(<<>>)
    /\ \/ /\ sftps' = Append(sftps, t.obj) /\ opened' = opened \cup {t.obj}
          /\ Answer(t, "value") /\ UNCHANGED thread
       \/ /\ Answer(t, "error") /\ UNCHANGED <<sftps, opened>>
          /\ \/ UNCHANGED thread
             \/ thread' = "dead"
    /\ UNCHANGED <<busy, channels, streams, sftpOf, owned, remote, said, exited, strands>>

ClosesChannel(t) ==
    /\ t.op = "closeChannel" /\ Push(<<>>) /\ Answer(t, "value")
    /\ said' = said \cup {t.obj}
    /\ channels' = Drop(channels, t.obj)
    /\ UNCHANGED <<threadVars, sftps, streams, sftpOf, owned, remote, opened, exited, strands>>

\* Faulty: the session does not remove itself from its owner.
ClosesSftpInPlace(t) ==
    /\ t.op = "closeSftp" /\ Push(<<>>) /\ Answer(t, "value")
    /\ owned' = owned \ RangeOf(streams[t.obj])
    /\ streams' = [streams EXCEPT ![t.obj] = <<>>]
    /\ UNCHANGED <<threadVars, channels, sftps, sftpOf, server, strands>>

\* removeAllFileStreams(): the strand is finalized and refuses each sftp_close().
ClosesSftp(t) ==
    /\ t.op = "closeSftp" /\ Push(<<>>) /\ Answer(t, "value")
    /\ owned' = owned \ RangeOf(streams[t.obj])
    /\ streams' = [streams EXCEPT ![t.obj] = <<>>]
    /\ sftps' = Drop(sftps, t.obj)
    /\ UNCHANGED <<threadVars, channels, sftpOf, server, strands>>

\* Faulty: file.release() comes before the limits are known to be good.
OpensFileReleasing(t) ==
    LET s == sftpOf[t.obj] IN
    /\ t.op = "openFile" /\ Push(<<>>)
    /\ \/ /\ streams' = [streams EXCEPT ![s] = Append(@, t.obj)]
          /\ owned' = owned \cup {t.obj} /\ remote' = remote \cup {t.obj}
          /\ Answer(t, "value")
       \/ remote' = remote \cup {t.obj} /\ Answer(t, "error") /\ UNCHANGED <<streams, owned>>
    /\ UNCHANGED <<threadVars, channels, sftps, sftpOf, opened, said, exited, strands>>

\* Without the limits the opened file is closed at once.
OpensFile(t) ==
    LET s == sftpOf[t.obj] IN
    /\ t.op = "openFile" /\ Push(<<>>)
    /\ \/ /\ streams' = [streams EXCEPT ![s] = Append(@, t.obj)]
          /\ owned' = owned \cup {t.obj} /\ remote' = remote \cup {t.obj}
          /\ Answer(t, "value")
       \/ Answer(t, "error") /\ UNCHANGED <<streams, owned, remote>>
    /\ UNCHANGED <<threadVars, channels, sftps, sftpOf, opened, said, exited, strands>>

\* perform() of the next part; a finalized strand drops it with its promise.
\* A transfer has one part or two: "rest" is the last.
Transfers(t) ==
    /\ t.op \in {"transfer", "rest"}
    /\ IF t.obj \notin owned
       THEN Push(<<>>) /\ (Answer(t, "error") \/ Answer(t, "broken"))
       ELSE \/ Push(<<>>) /\ (Answer(t, "value") \/ Answer(t, "error"))
            \/ /\ t.op = "transfer" /\ StrandOf(t.obj) \notin finalized
               /\ Push(<<[t EXCEPT !.op = "rest"]>>) /\ UNCHANGED ans
            \/ /\ t.op = "transfer" /\ StrandOf(t.obj) \in finalized
               /\ Push(<<>>) /\ Answer(t, "broken")
    /\ UNCHANGED <<threadVars, owners, server, strands>>

\* file_.reset(): the deleter hands sftp_close() to the strand.
ClosesStream(t) ==
    LET s == sftpOf[t.obj] IN
    /\ t.op = "closeStream" /\ Answer(t, "value")
    /\ Push(IF t.obj \in owned /\ s \notin finalized
            THEN <<[op |-> "closeHandle", obj |-> t.obj, waited |-> FALSE]>> ELSE <<>>)
    /\ owned' = owned \ {t.obj}
    /\ streams' = [streams EXCEPT ![s] = Drop(@, t.obj)]
    /\ UNCHANGED <<threadVars, channels, sftps, sftpOf, server, strands>>

ClosesHandle(t) ==
    /\ t.op = "closeHandle" /\ Push(<<>>) /\ UNCHANGED ans
    /\ remote' = remote \ {t.obj}
    /\ UNCHANGED <<threadVars, owners, opened, said, exited, strands>>

Performs(t) ==
    /\ t.op \in {"write", "sftp", "stream"} /\ Push(<<>>)
    /\ IF t.op = "stream" /\ t.obj \notin owned
       THEN Answer(t, "error")
       ELSE Answer(t, "value") \/ Answer(t, "error")
    /\ UNCHANGED <<threadVars, owners, server, strands>>

RunTask ==
    /\ thread = "running" /\ busy = None /\ queue # <<>>
    /\ LET t == Head(queue) IN
           \/ CreatesChannel(t) \/ CreatesSftp(t) \/ ClosesChannel(t) \/ ClosesSftp(t)
           \/ OpensFile(t) \/ Transfers(t) \/ ClosesStream(t) \/ ClosesHandle(t) \/ Performs(t)
    /\ UNCHANGED <<doing, calls, known, posts, ending>>

\* The remote shell ends or the connection is lost.
ChannelEnds ==
    /\ \E c \in opened \cap Channels : c \notin exited /\ exited' = exited \cup {c}
    /\ UNCHANGED <<threadVars, queue, owners, remote, opened, said, strands, caller, ending>>

\* readTask() finds the end, every time it runs, and calls onExit_, which locks
\* the backend's Session.
ReadsExit ==
    /\ thread = "running" /\ busy = None
    /\ \E c \in reading \cap exited : busy' = c
    /\ refs' = IF refs = {} THEN {} ELSE refs \cup {"worker"}
    /\ UNCHANGED <<thread, queue, owners, server, strands, caller, down, dier>>

\* onExit_ posts the removal and lets go of the Session, perhaps as the last.
PostsRemoval ==
    /\ busy # None /\ dier # "worker"
    /\ posts' = IF refs = {} THEN posts ELSE posts \cup {busy}
    /\ refs' = refs \ {"worker"}
    /\ IF refs = {"worker"}
       THEN down' = "channels" /\ dier' = "worker" /\ UNCHANGED busy
       ELSE busy' = None /\ UNCHANGED <<down, dier>>
    /\ UNCHANGED <<thread, queue, owners, server, strands, doing, ans, calls, known>>

-----------------------------------------------------------------------------
(* ~Session(): shutdown(), on whichever thread lets go of it last. *)

RemoveSession ==
    /\ doing = Idle /\ "manager" \in refs /\ thread # "new"
    /\ refs' = refs \ {"manager"}
    /\ IF refs = {"manager"} THEN down' = "channels" /\ dier' = "strand"
                             ELSE UNCHANGED <<down, dier>>
    /\ UNCHANGED <<threadVars, queue, owners, server, strands, caller>>

CloseBack(container, op) ==
    /\ doing = Idle /\ container # <<>>
    /\ UNCHANGED calls
    /\ Finalize(container[Len(container)], op)
    /\ doing' = [op |-> op, obj |-> container[Len(container)]] /\ ans' = "none"
    /\ UNCHANGED <<threadVars, owners, server, known, posts, ending>>

RemoveAll(here, container, op, next) ==
    /\ down = here
    /\ \/ CloseBack(container, op)
       \/ /\ doing = Idle /\ container = <<>> /\ down' = next
          /\ UNCHANGED <<threadVars, queue, owners, server, strands, caller, refs, dier>>

\* Faulty: channels are left to their destructors.
RemoveAllChannelsNot == RemoveAll("channels", <<>>, "closeChannel", "sftps")

RemoveAllChannels == RemoveAll("channels", channels, "closeChannel", "sftps")

RemoveAllSftpSessions == RemoveAll("sftps", sftps, "closeSftp", "stop")

\* stop() joins the thread, which cannot join itself.
StopThread ==
    /\ down = "stop" /\ dier = "strand" /\ busy = None
    /\ thread' = "stopped" /\ down' = "done"
    /\ UNCHANGED <<queue, busy, owners, server, strands, caller, refs, dier>>

Shutdown == RemoveAllChannels \/ RemoveAllSftpSessions \/ StopThread

-----------------------------------------------------------------------------
Strand ==
    \/ CreatePtyChannel \/ CreateSftpSession \/ StartReading \/ WriteOrResize
    \/ RemoveChannel \/ RemoveUnknownChannel \/ SftpRequest \/ OpenFile
    \/ TransferAll \/ CloseStream \/ CloseSftp \/ GiveUp \/ RemoveSession

Worker == RunTask \/ ReadsExit \/ PostsRemoval

Next == Start \/ Strand \/ Return \/ Worker \/ ChannelEnds \/ Shutdown

Spec == Init /\ [][Next]_vars

\* The thread and the strand keep running, and every cycle of the thread runs
\* the read tasks and then the queue, so that neither starves the other.
\* Requests of the page, timeouts and the end of a shell need not come.
FairSpec ==
    /\ Spec
    /\ WF_vars(Start) /\ WF_vars(PostsRemoval) /\ SF_vars(RunTask)
    /\ WF_vars(Return) /\ WF_vars(Shutdown)

-----------------------------------------------------------------------------
(* Properties *)

TypeOK ==
    /\ thread \in {"new", "running", "dead", "stopped"}
    /\ busy \in Channels \cup {None}
    /\ RangeOf(channels) \subseteq opened \cap Channels
    /\ RangeOf(sftps) \subseteq opened \cap Sftps
    /\ \A s \in Sftps : RangeOf(streams[s]) \subseteq {f \in Streams : sftpOf[f] = s}
    /\ owned \subseteq Streams /\ remote \subseteq Streams
    /\ said \cup exited \cup reading \cup posts \subseteq Channels
    /\ finalized \cup opened \cup known \subseteq Channels \cup Sftps
    /\ ans \in {"none", "value", "error", "broken"} /\ calls \in 0..MaxCalls
    /\ refs \subseteq {"manager", "worker"} /\ dier \in {None, "strand", "worker"}
    /\ down \in {"no", "channels", "sftps", "stop", "done"}

\* "This is safe because file is just a pointer, even if 'this' is deleted by
\* this point": a file open at the server belongs to a stream or to a queued
\* sftp_close(), until its whole SFTP session is closed.
NoHandleIsLost ==
    \A f \in remote :
        \/ f \in owned
        \/ \E i \in DOMAIN queue : queue[i].op = "closeHandle" /\ queue[i].obj = f
        \/ sftpOf[f] \in finalized

\* Tasks hold plain pointers: each one finds its channel, SFTP session or
\* stream alive when it runs, also one whose caller has given up waiting.
\* (readAll() and write(), whose tasks push tasks, are left to TransfersFindTheirStream.)
Finds(t) == t.op \in {"createChannel", "createSftp", "openFile", "closeHandle", "rest"} \/ Alive(t.obj)

TasksFindTheirObjects == [][queue' # queue /\ RunTask => Finds(Head(queue))]_vars

\* A part of a transfer finds its stream: not so when the stream is closed
\* while the transfer goes on.
TransfersFindTheirStream ==
    [][queue' # queue /\ RunTask /\ Head(queue).op = "rest" => Alive(Head(queue).obj)]_vars

\* Every channel the server opened is told that it is closed before the
\* connection is cut.
ChannelsAreClosedBeforeDisconnect ==
    down = "done" => opened \cap Channels \subseteq said

\* Every call of the strand comes back, unless the processing thread has died.
CallsReturn == doing # Idle ~> doing = Idle \/ thread = "dead" \/ dier = "worker"

\* The test CanRunOutOfScopeWhileReadingWithoutIssue: a session that is let go
\* of while its channels are read comes to an end.
SessionEnds == refs = {} /\ thread # "dead" ~> down = "done" \/ thread = "dead"

\* The same when it is the strand that lets go of it.
SessionEndsOnStrand == dier = "strand" ~> down = "done" \/ thread = "dead"
=============================================================================
