------------------------------ MODULE SshTerminal ------------------------------
(***************************************************************************)
(* A tab with an ssh connection: the page's Terminal with its panels,       *)
(* SshTerminalEngine with its channels, the frontend Session around them,   *)
(* and the channels of the backend Session.                                 *)
(*                                                                          *)
(* Calls reach the backend's strand in order, replies and events reach the  *)
(* page in order.  Output and the end of a shell come from the processing   *)
(* thread and fall between the replies.  A reply remembers who asked for    *)
(* it; "dtor" stands for ~SshChannel, which does not look at the reply.     *)
(***************************************************************************)
EXTENDS Integers, Sequences, FiniteSets

CONSTANTS
    Channels,    \* channel ids: shells and the sftp channel
    UserCloses,  \* the user closes panels
    None

ASSUME SshAssumption == UserCloses \in BOOLEAN /\ {None, "wanted", "there"} \cap Channels = {}

VARIABLES
    engine,      \* SshTerminalEngine: "connecting", "open", or "gone" when it is destroyed
    blocked,     \* blockedByDestruction
    disposing,   \* disposer is set
    channels,    \* SshTerminalEngine::channels
    panels,      \* Terminal::channels
    file,        \* the file engine: None, "wanted", "there", or its sftp channel
    tab,         \* the frontend Session: "open" or "closed"
    requests,    \* the backend's strand: calls and removals that wait
    inbox,       \* replies and events under way to the page
    session,     \* the backend Session: "none", "alive" or "removed"
    held,        \* its channels_; sftpChannels_ is left out
    reading,     \* channels that are read
    ids,         \* channel ids given
    opened       \* channels whose panel was made: their output has a channelId

ssh     == <<session, held, reading, ids>>
tabVars == <<engine, blocked, disposing, channels, panels, file, tab>>
sshVars == <<tabVars, requests, inbox, ssh, opened>>

Send(r) == requests' = Append(requests, r)

\* Session::createSshEngine(): Terminal::open() connects.
SshInit ==
    /\ engine = "connecting" /\ blocked = FALSE /\ disposing = FALSE /\ channels = {} /\ panels = {}
    /\ file \in {None, "wanted"} /\ tab = "open"
    /\ requests = <<[op |-> "connect"]>> /\ inbox = <<>>
    /\ session = "none" /\ held = {} /\ reading = {} /\ ids = {}
    /\ opened = {}

-----------------------------------------------------------------------------
(* The backend: the strand handles the head of requests. *)

Handling(op) == requests # <<>> /\ Head(requests).op = op /\ requests' = Tail(requests)

Reply(letter) == inbox' = Append(inbox, letter)

HandleConnect ==
    /\ Handling("connect")
    /\ \/ Reply([op |-> "connect", ok |-> TRUE]) /\ session' = "alive"
       \/ Reply([op |-> "connect", ok |-> FALSE]) /\ UNCHANGED session
    /\ UNCHANGED <<tabVars, held, reading, ids, opened>>

\* Channel::create, for a shell or, with fileMode, for sftp.
HandleCreate ==
    /\ Handling("create")
    /\ \/ \E c \in Channels \ ids :
              /\ held' = IF Head(requests).sftp THEN held ELSE held \cup {c}
              /\ ids' = ids \cup {c}
              /\ Reply([op |-> "created", sftp |-> Head(requests).sftp, id |-> c])
       \/ Reply([op |-> "refused"]) /\ UNCHANGED <<held, ids>>
    /\ UNCHANGED <<tabVars, session, reading, opened>>

\* Output may come before the reply does.
HandleStartReading ==
    /\ requests # <<>> /\ Head(requests).op = "start"
    /\ reading' = IF Head(requests).id \in held THEN reading \cup {Head(requests).id} ELSE reading
    /\ requests' = [requests EXCEPT ![1].op = IF Head(requests).id \in held THEN "started" ELSE "failed"]
    /\ UNCHANGED <<tabVars, inbox, session, held, ids, opened>>

ReplyToStart ==
    /\ requests # <<>> /\ Head(requests).op \in {"started", "failed"}
    /\ requests' = Tail(requests)
    /\ Reply(Head(requests))
    /\ UNCHANGED <<tabVars, ssh, opened>>

\* Faulty: the closed channel stays in the map.
StopChannel(c) == reading' = reading \ {c} /\ UNCHANGED held

\* removeChannel() looks among the shells: an sftp channel stays.
RemoveChannel(c) == held' = held \ {c} /\ reading' = reading \ {c}

\* Channel::close replies whether there was such a channel or not.
HandleClose ==
    /\ Handling("close") /\ RemoveChannel(Head(requests).id)
    /\ IF Head(requests).by = "dtor" THEN UNCHANGED inbox ELSE Reply(Head(requests))
    /\ UNCHANGED <<tabVars, session, ids, opened>>

\* What onExit posted.
HandleRemove ==
    /\ Handling("remove") /\ RemoveChannel(Head(requests).id)
    /\ UNCHANGED <<tabVars, inbox, session, ids, opened>>

\* SessionManager::disconnect.
HandleDisconnect ==
    /\ Handling("disconnect")
    /\ session' = IF session = "alive" THEN "removed" ELSE session
    /\ held' = {} /\ reading' = {}
    /\ UNCHANGED <<tabVars, inbox, ids, opened>>

\* The processing thread: onStdout; what comes once the panel is open is shown.
Output ==
    /\ \A i \in DOMAIN inbox : inbox[i].op # "output"
    /\ \E c \in reading \ opened : inbox' = Append(inbox, [op |-> "output", id |-> c])
    /\ UNCHANGED <<tabVars, requests, ssh, opened>>

\* The processing thread: onExit, which posts removeChannel() first.
RemoteExit ==
    /\ \E c \in reading :
          /\ reading' = reading \ {c}
          /\ Send([op |-> "remove", id |-> c])
          /\ inbox' = Append(inbox, [op |-> "exit", id |-> c])
    /\ UNCHANGED <<tabVars, session, held, ids, opened>>

-----------------------------------------------------------------------------
(* The page: SshTerminalEngine. *)

Got(op) == inbox # <<>> /\ Head(inbox).op = op /\ inbox' = Tail(inbox)

NoFileEngine == file \in {None, "wanted"}

\* disconnect(): onExit resets the Terminal, which destroys the engine; then
\* the tab is closed, or the file engine is disposed and the tab stays.
Disconnect(sent) ==
    /\ requests' = Append(sent, [op |-> "disconnect"])
    /\ engine' = "gone" /\ panels' = {}
    /\ tab' = IF NoFileEngine THEN "closed" ELSE tab

\* Faulty: with the last channel gone nothing more is done.
DisposerWithoutEnd(left, sent) ==
    /\ IF left = {} THEN requests' = sent
       ELSE \E c \in left : requests' = Append(sent, [op |-> "close", id |-> c, by |-> "disposer"])
    /\ UNCHANGED <<engine, panels, tab>>

\* disposer: one channel after the other, and at the end the session.
Disposer(left, sent) ==
    IF left = {} THEN Disconnect(sent)
    ELSE /\ \E c \in left : requests' = Append(sent, [op |-> "close", id |-> c, by |-> "disposer"])
         /\ UNCHANGED <<engine, panels, tab>>

\* Faulty: it starts anew whenever a channel dies.
DisposeAgain ==
    /\ blocked' = TRUE /\ disposing' = TRUE /\ Disposer(channels, requests)

Dispose ==
    /\ blocked' = TRUE /\ disposing' = TRUE
    /\ IF disposing THEN UNCHANGED <<requests, engine, panels, tab>>
       ELSE Disposer(channels, requests)

\* createChannelImpl().
NewChannel(fileMode) == Send([op |-> "create", sftp |-> fileMode])

\* The callback of open(); openSftp() lists a directory, which opens a channel.
OnConnected ==
    /\ Got("connect") /\ Head(inbox).ok /\ engine' = "open"
    /\ IF file = None THEN UNCHANGED <<requests, file>>
       ELSE NewChannel(TRUE) /\ file' = "there"
    /\ UNCHANGED <<blocked, disposing, channels, panels, tab, ssh, opened>>

\* Terminal::open() disposes of what did not connect.
OnConnectFailed ==
    /\ Got("connect") /\ ~Head(inbox).ok /\ Dispose
    /\ UNCHANGED <<channels, file, ssh, opened>>

\* A panel of the layout is there: Terminal::createChannel().
CreateChannel ==
    /\ engine = "open" /\ ~blocked
    /\ Cardinality(ids) + Cardinality({i \in DOMAIN requests : requests[i].op = "create"})
         + Cardinality({i \in DOMAIN inbox : inbox[i].op \in {"created", "refused"}}) < Cardinality(Channels)
    /\ NewChannel(FALSE)
    /\ UNCHANGED <<tabVars, inbox, ssh, opened>>

\* No channel, or nobody to have it.
TooLate == UNCHANGED <<tabVars, requests, opened>>

\* The receivers for output and exit exist from here on.
OnCreated ==
    /\ Got("created") \/ Got("refused")
    /\ LET r == Head(inbox)
       IN  CASE engine = "gone" \/ r.op = "refused" -> TooLate
             [] engine # "gone" /\ r.op = "created" /\ r.sftp ->
                    /\ channels' = channels \cup {r.id} /\ file' = r.id
                    /\ UNCHANGED <<engine, blocked, disposing, panels, tab, requests, opened>>
             [] OTHER ->
                    /\ channels' = channels \cup {r.id} /\ Send([op |-> "start", id |-> r.id])
                    /\ UNCHANGED <<engine, blocked, disposing, panels, file, tab, opened>>
    /\ UNCHANGED ssh

\* onCreated: the terminal's channel is made and opened.
OpenPanel(c) == panels' = panels \cup {c} /\ opened' = opened \cup {c}

\* The callback of startReading.
OnStarted ==
    /\ Got("started") \/ Got("failed")
    /\ LET r == Head(inbox)
       IN  CASE engine = "gone" -> TooLate
             [] engine # "gone" /\ r.op = "started" ->
                    /\ OpenPanel(r.id)
                    /\ UNCHANGED <<engine, blocked, disposing, channels, file, tab, requests>>
             [] OTHER ->
                    /\ Send([op |-> "close", id |-> r.id, by |-> "engine"])
                    /\ UNCHANGED <<tabVars, opened>>
    /\ UNCHANGED ssh

\* The callback of closeChannel(): the erased SshChannel closes itself again.
OnClosed ==
    /\ Got("close")
    /\ LET r     == Head(inbox)
           again == IF r.id \in channels
                    THEN Append(requests, [op |-> "close", id |-> r.id, by |-> "dtor"]) ELSE requests
       IN  CASE engine = "gone" -> TooLate
             [] r.by = "disposer" /\ engine # "gone" ->
                    /\ channels' = channels \ {r.id} /\ Disposer(channels', again)
                    /\ UNCHANGED <<blocked, disposing, file, opened>>
             [] OTHER ->
                    /\ channels' = channels \ {r.id} /\ requests' = again
                    /\ UNCHANGED <<engine, blocked, disposing, panels, file, tab, opened>>
    /\ UNCHANGED ssh

\* Without a channelId the handler drops it.
OnOutput == Got("output") /\ UNCHANGED <<tabVars, requests, ssh, opened>>

\* "If one channel dies, destroy everything."
OnExit ==
    /\ Got("exit")
    /\ IF Head(inbox).id \in channels /\ engine # "gone" THEN Dispose
       ELSE UNCHANGED <<engine, blocked, disposing, panels, tab, requests>>
    /\ UNCHANGED <<channels, file, ssh, opened>>

\* onChannelClosedByUser(): ~TerminalChannel closes the channel.
ClosePanel(c) ==
    /\ panels' = panels \ {c}
    /\ IF c \in channels THEN Send([op |-> "close", id |-> c, by |-> "user"]) ELSE UNCHANGED requests

CloseByUser ==
    /\ engine = "open"
    /\ UserCloses \/ ~blocked
    /\ \E c \in panels : ClosePanel(c)
    /\ UNCHANGED <<engine, blocked, disposing, channels, file, tab, inbox, ssh, opened>>

Strand ==
    \/ HandleConnect \/ HandleCreate \/ HandleStartReading \/ ReplyToStart
    \/ HandleClose \/ HandleRemove \/ HandleDisconnect

Page == OnConnected \/ OnConnectFailed \/ OnCreated \/ OnStarted \/ OnClosed \/ OnOutput \/ OnExit

SshNext == Strand \/ Page \/ Output \/ RemoteExit \/ CreateChannel \/ CloseByUser

-----------------------------------------------------------------------------
(* Properties *)

\* Once the engine is being disposed of, the session is disconnected and the
\* tab closed, whatever was being created or closed at that time; with a file
\* engine the tab stays open.
DeathEndsTheSession ==
    blocked ~> (engine = "gone" /\ session # "alive" /\ (NoFileEngine => tab = "closed"))

\* The replies to what the engine asked for on its own find it alive: the
\* disposer ends after all of them.
RepliesFindTheirEngine ==
    engine = "gone" /\ inbox # <<>> =>
        \/ Head(inbox).op \in {"output", "exit"}
        \/ Head(inbox).op = "close" /\ Head(inbox).by = "user"

\* With nothing under way the page and the backend know the same channels.
ChannelsAgree ==
    requests = <<>> /\ inbox = <<>> /\ engine = "open" => held = channels \ {file}

\* "This should work, because the channel is opened after creation, and no
\* data should be written before": reading starts before the page is told.
NoOutputIsLost ==
    engine # "gone" /\ inbox # <<>> /\ Head(inbox).op = "output" => Head(inbox).id \notin channels \ opened

\* Nor does the reply to a user's close, sent after the disposer's.
UserFindsTheEngine ==
    engine = "gone" /\ inbox # <<>> => Head(inbox).op \in {"output", "exit"}

\* When the connection is gone its tab is, also with a file explorer.
TabGoesWithTheConnection == engine = "gone" => tab = "closed"
=============================================================================
