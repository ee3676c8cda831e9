-------------------------------- MODULE Settings --------------------------------
(***************************************************************************)
(* The settings: State with its options and references, StateHolder in the  *)
(* backend with the file, and the parts of the page that load, change and   *)
(* save it as a whole.                                                      *)
(*                                                                          *)
(* There is one entry of every kind of options, which references name, and  *)
(* one session, named like the default one.  A member stands for all those  *)
(* of its struct that are treated alike.  An optional member that is not    *)
(* set is None; in the text it is left out.                                 *)
(***************************************************************************)
EXTENDS Integers, Sequences, FiniteSets, TLC

CONSTANTS
    Files,       \* what the file may be at first: texts, Torn, IllTyped or None
    Layouts,     \* names of layouts
    Clicks,      \* what the user does: "save", "delete", "toggle", "open"
    MaxClicks,
    Faults,      \* "disk": a write fails; "crash": once
    None, Torn, IllTyped

ASSUME SettingsAssumption ==
    /\ MaxClicks \in Nat /\ Faults \subseteq {"disk", "crash"}
    /\ Clicks \subseteq {"save", "delete", "toggle", "open"}
    /\ Cardinality({None, Torn, IllTyped}) = 3

VARIABLES
    file,      \* None when there is no file
    backups,   \* contents of the backup files
    cache,     \* the backend's stateCache_
    requests,  \* calls of the page under way
    replies,   \* replies under way
    shown,     \* SessionOptions::layoutNames
    opened,    \* the options the session was opened with
    waiting,   \* history: changes the user waits for
    saved,     \* history: changes reported as saved
    clicks,
    crashed

vars == <<file, backups, cache, requests, replies, shown, opened, waiting, saved, clicks, crashed>>

-----------------------------------------------------------------------------
(* JSON *)

\* TO_JSON_OPTIONAL.
Text(options) == [m \in {n \in DOMAIN options : options[n] # None} |-> options[m]]

\* FROM_JSON_OPTIONAL.
Optional(text, member) == IF member \in DOMAIN text THEN text[member] ELSE None

\* if (j.contains(member)) ...
Or(text, member, value) == IF member \in DOMAIN text THEN text[member] ELSE value

\* Faulty: the reference is forgotten.
ReferenceTextOnly(r, text) == text

\* What is referred to goes first, then the options' own to_json().
ReferenceText(r, text) == IF r.ref = None THEN text ELSE text @@ [ref |-> r.ref]

ReferenceToJson(r, ToJson(_)) == ReferenceText(r, ToJson(r.value))

\* The options in themselves, without a reference.
Plain(options) == [ref |-> None, value |-> options]

ThemeToJson(t) == Text(t)

ThemeFromJson(text) == [colors |-> Optional(text, "colors")]

\* font for fontFamily, fontSize and cursorBlink, line for lineHeight, renderer and letterSpacing.
TerminalToJson(t) == Text([t EXCEPT !.theme = IF @ = None THEN None ELSE ThemeToJson(@)])

TerminalFromJson(text) ==
    [font |-> Optional(text, "font"), line |-> Optional(text, "line"),
     theme |-> IF "theme" \in DOMAIN text THEN ThemeFromJson(text.theme) ELSE None]

\* flags for the flags of one of the four groups, among them control for CIBAUD,
\* CMSPAR and CRTSCTS; speed for the two speeds.
FlagsToJson(flags) == Text(flags)

FlagsFromJson(text) == [flag |-> Optional(text, "flag"), control |-> Optional(text, "control")]

TermiosToJson(t) == Text([t EXCEPT !.flags = IF @ = None THEN None ELSE FlagsToJson(@)])

TermiosFromJson(text) ==
    [cc |-> Optional(text, "cc"), speed |-> Optional(text, "speed"),
     flags |-> IF "flags" \in DOMAIN text THEN FlagsFromJson(text.flags) ELSE None]

\* Termios{}: its flags are there and none of them is set.
DefaultTermios == [cc |-> None, speed |-> "builtin", flags |-> FlagsFromJson(<<>>)]

QueueFromJson(text) == [auto |-> Optional(text, "auto"), paused |-> Optional(text, "paused")]

QueueToJson(q) == Text(q)

\* agent for tryAgentForAuthentication.
SshToJson(s) == Text(s)

SshFromJson(text) == [agent |-> Optional(text, "agent"), other |-> Optional(text, "other")]

\* transfer for the two TransferOptions and the concurrency.
SftpToJson(s) == Text(s)

SftpFromJson(text) == [transfer |-> Optional(text, "transfer"), timeout |-> Or(text, "timeout", "builtin")]

Referenceable(text, value) == [ref |-> Optional(text, "ref"), value |-> value]

DefaultSsh == Plain([agent |-> TRUE, other |-> None])

DefaultSftp == Plain([transfer |-> None, timeout |-> "builtin"])

\* host for host, user for the optional members.
SshSessionFromJson(text) ==
    [host |-> Or(text, "host", ""), user |-> Optional(text, "user"), password |-> Optional(text, "password"),
     openSftp |-> Or(text, "openSftp", TRUE),
     ssh |-> IF "ssh" \in DOMAIN text THEN Referenceable(text.ssh, SshFromJson(text.ssh)) ELSE DefaultSsh,
     sftp |-> IF "sftp" \in DOMAIN text THEN Referenceable(text.sftp, SftpFromJson(text.sftp)) ELSE DefaultSftp]

SshSessionToJson(s) ==
    Text([s EXCEPT !.ssh = ReferenceToJson(@, SshToJson), !.sftp = ReferenceToJson(@, SftpToJson)])

\* j = {{"host", ...}} replaces the object that has the reference.
SshReferenceToJson(r) == SshSessionToJson(r.value)

EngineToJson(e) ==
    Text([e EXCEPT !.terminal = ReferenceToJson(@, TerminalToJson), !.termios = ReferenceToJson(@, TermiosToJson),
                   !.queue = ReferenceToJson(@, QueueToJson),
                   !.engine = IF e.type = "ssh" THEN SshReferenceToJson(@) ELSE None])

EngineFromJson(text) ==
    [type |-> text.type,
     terminal |-> IF "terminal" \in DOMAIN text THEN Referenceable(text.terminal, TerminalFromJson(text.terminal))
                  ELSE Plain(TerminalFromJson(<<>>)),
     termios |-> IF "termios" \in DOMAIN text THEN Referenceable(text.termios, TermiosFromJson(text.termios))
                 ELSE Plain(DefaultTermios),
     queue |-> IF "queue" \in DOMAIN text THEN Referenceable(text.queue, QueueFromJson(text.queue))
               ELSE Plain(QueueFromJson(<<>>)),
     engine |-> IF text.type = "ssh" THEN Referenceable(text.engine, SshSessionFromJson(text.engine)) ELSE None,
     layouts |-> Optional(text, "layouts")]

\* from_json() reads what is there over what the state had.
StateFromJson(text, state) ==
    [terminal |-> IF "terminal" \in DOMAIN text THEN TerminalFromJson(text.terminal) ELSE state.terminal,
     termios |-> IF "termios" \in DOMAIN text THEN TermiosFromJson(text.termios) ELSE state.termios,
     queue |-> IF "queue" \in DOMAIN text THEN QueueFromJson(text.queue) ELSE state.queue,
     ssh |-> IF "ssh" \in DOMAIN text THEN SshFromJson(text.ssh) ELSE state.ssh,
     sftp |-> IF "sftp" \in DOMAIN text THEN SftpFromJson(text.sftp) ELSE state.sftp,
     sshSession |-> IF "sshSession" \in DOMAIN text THEN SshSessionFromJson(text.sshSession) ELSE state.sshSession,
     session |-> IF "session" \in DOMAIN text THEN EngineFromJson(text.session) ELSE state.session]

Empty == [k \in {"terminal", "termios", "queue", "ssh", "sftp", "sshSession", "session"} |-> None]

StateToJson(state) ==
    Text([state EXCEPT
        !.terminal = IF @ = None THEN None ELSE TerminalToJson(@), !.termios = IF @ = None THEN None ELSE TermiosToJson(@),
        !.queue = IF @ = None THEN None ELSE QueueToJson(@), !.ssh = IF @ = None THEN None ELSE SshToJson(@),
        !.sftp = IF @ = None THEN None ELSE SftpToJson(@), !.sshSession = IF @ = None THEN None ELSE SshSessionToJson(@),
        !.session = IF @ = None THEN None ELSE EngineToJson(@)])

-----------------------------------------------------------------------------
(* References: useDefaultsFrom() of every struct. *)

Fill(own, other) == IF own = None THEN other ELSE own

ThemeDefaults(own, other) == [colors |-> Fill(own.colors, other.colors)]

\* lineHeight, renderer and letterSpacing are not filled in.
TerminalDefaults(own, other) ==
    [own EXCEPT !.font = Fill(@, other.font),
                !.theme = IF @ = None THEN other.theme ELSE ThemeDefaults(@, other.theme)]

\* ControlFlags: CIBAUD, CMSPAR and CRTSCTS are not filled in.
FlagsDefaults(own, other) == [own EXCEPT !.flag = Fill(@, other.flag)]

TermiosDefaults(own, other) ==
    [cc |-> Fill(own.cc, other.cc), speed |-> Fill(own.speed, other.speed),
     flags |-> IF own.flags = None THEN other.flags ELSE FlagsDefaults(own.flags, other.flags)]

QueueDefaults(own, other) == [auto |-> Fill(own.auto, other.auto), paused |-> Fill(own.paused, other.paused)]

SshDefaults(own, other) == [agent |-> Fill(own.agent, other.agent), other |-> Fill(own.other, other.other)]

\* The timeout is not filled in.
SftpDefaults(own, other) == [own EXCEPT !.transfer = Fill(@, other.transfer)]

\* The password is taken when there is one; openSftpByDefault is not filled in.
SshSessionDefaults(own, other) ==
    [own EXCEPT !.host = IF @ = "" THEN other.host ELSE @, !.user = Fill(@, other.user),
                !.password = IF @ # None THEN other.password ELSE @,
                !.ssh.value = SshDefaults(@, other.ssh.value), !.sftp.value = SftpDefaults(@, other.sftp.value)]

Refers(r, entry) == r.ref # None /\ entry # None

\* value() of an optional that is not set throws.
Throws(own, other, member) == own.value[member] # None /\ other[member] = None

Resolves(state) ==
    LET s == state.session
    IN  /\ ~(Refers(s.terminal, state.terminal) /\ Throws(s.terminal, state.terminal, "theme"))
        /\ ~(Refers(s.termios, state.termios) /\ Throws(s.termios, state.termios, "flags"))

\* fillDefaults().
FilledFrom(r, entry, Defaults(_, _)) ==
    IF Refers(r, entry) THEN [r EXCEPT !.value = Defaults(@, entry)] ELSE r

\* The references of the entry itself are not looked at.
ResolvedSsh(r, state) ==
    LET s == FilledFrom(r, state.sshSession, SshSessionDefaults)
    IN  [s EXCEPT !.value.ssh = FilledFrom(@, state.ssh, SshDefaults),
                  !.value.sftp = FilledFrom(@, state.sftp, SftpDefaults)]

FullyResolve(state) ==
    LET s == state.session
    IN  [state EXCEPT
           !.session.terminal = FilledFrom(@, state.terminal, TerminalDefaults),
           !.session.termios = FilledFrom(@, state.termios, TermiosDefaults),
           !.session.queue = FilledFrom(@, state.queue, QueueDefaults),
           !.session.engine = IF s.type = "ssh" THEN ResolvedSsh(@, state) ELSE @]

-----------------------------------------------------------------------------
(* The backend: StateHolder. *)

BashDefault ==
    [type |-> "shell", terminal |-> [ref |-> "default", value |-> TerminalFromJson(<<>>)],
     termios |-> [ref |-> "default", value |-> DefaultTermios], queue |-> Plain(QueueFromJson(<<>>)),
     engine |-> None, layouts |-> None]

SaneFlags == [flag |-> "builtin", control |-> "builtin"]

SaneDefaults == [cc |-> "builtin", speed |-> "builtin", flags |-> SaneFlags]

\* dataFixer(): what is missing is added.
DataFixer(state) ==
    [state EXCEPT
        !.termios = IF @ = None THEN SaneDefaults ELSE @,
        !.terminal = IF @ = None THEN [font |-> "builtin", line |-> "builtin", theme |-> [colors |-> "builtin"]] ELSE @,
        !.session = IF @ = None THEN BashDefault ELSE @]

Readable(text) == text \notin {None, Torn, IllTyped}

\* load() without the writing.
Loaded(content, before) ==
    DataFixer(IF Readable(content) THEN StateFromJson(content, before) ELSE before)

\* The stream's errors are not looked at: a write that fails is a success too.
Write(text) == file' = text \/ ("disk" \in Faults /\ file' = Torn)

\* mustSave: the file differs from what was made of it.
MustSave(state) == StateToJson(state) # file

\* makeBackup(): what could not be parsed is copied.
BackedUp == IF file = Torn THEN backups \cup {file} ELSE backups

\* load(): IllTyped parses, and the first entry read from it throws.
Load(before) ==
    IF file = IllTyped THEN cache' = before /\ UNCHANGED <<file, backups>>
    ELSE /\ cache' = Loaded(file, before) /\ backups' = BackedUp
         /\ IF MustSave(cache') THEN Write(StateToJson(cache')) ELSE UNCHANGED file

\* The first load of the page does what that of Main's constructor would do.
Init ==
    \E f \in Files :
        /\ file = f /\ backups = {} /\ cache = Empty
        /\ requests = <<>> /\ replies = <<>>
        /\ shown = {} /\ opened = None /\ waiting = {} /\ saved = {}
        /\ clicks = 0 /\ crashed = FALSE

Requested(op) == requests # <<>> /\ Head(requests).op = op /\ requests' = Tail(requests)

HandleLoad ==
    /\ Requested("load") /\ Load(cache)
    /\ replies' = Append(replies, [Head(requests) EXCEPT !.op = "loaded"] @@
                                  [text |-> IF file = IllTyped THEN None ELSE StateToJson(cache')])
    /\ UNCHANGED <<shown, opened, waiting, saved, clicks, crashed>>

HandleSave ==
    /\ Requested("save")
    /\ cache' = StateFromJson(Head(requests).text, Empty)
    /\ Write(StateToJson(cache'))
    /\ replies' = Append(replies, [op |-> "saved", then |-> Head(requests).then])
    /\ UNCHANGED <<backups, shown, opened, waiting, saved, clicks, crashed>>

\* A request whose handler writes the file.
Writes(request) == request.op = "load" => file # IllTyped /\ MustSave(Loaded(file, cache))

\* A crash, perhaps while the file that was truncated is written, and a restart.
Crash ==
    /\ "crash" \in Faults /\ ~crashed /\ crashed' = TRUE
    /\ \/ UNCHANGED <<file, backups>>
       \/ /\ requests # <<>> /\ Writes(Head(requests)) /\ file' = Torn
          /\ backups' = IF Head(requests).op = "load" THEN BackedUp ELSE backups
    /\ cache' = Empty /\ requests' = <<>> /\ replies' = <<>>
    /\ shown' = {} /\ opened' = None /\ waiting' = {}
    /\ UNCHANGED <<saved, clicks>>

-----------------------------------------------------------------------------
(* The page. *)

LoadThen(then) == requests' = Append(requests, [op |-> "load", then |-> then])

\* A click on "Save Layout" or "Delete Layout" for the name that stands in the
\* input, on the switch, or for a new session.
Click ==
    /\ clicks < MaxClicks /\ clicks' = clicks + 1
    /\ \E op \in Clicks, l \in Layouts :
          LET c == [op |-> op, layout |-> l, version |-> clicks']
          IN  /\ LoadThen(c)
              /\ waiting' = IF op = "open" THEN waiting ELSE waiting \cup {c}
    /\ UNCHANGED <<file, backups, cache, replies, shown, opened, saved, crashed>>

Reply(op) == replies # <<>> /\ Head(replies).op = op /\ replies' = Tail(replies)

\* emplace(): a layout of that name stays what it is.
WithLayout(layouts, c) ==
    IF layouts = None THEN c.layout :> c.version
    ELSE layouts @@ (c.layout :> c.version)

WithoutLayout(layouts, c) ==
    IF layouts = None THEN None ELSE [l \in DOMAIN layouts \ {c.layout} |-> layouts[l]]

\* Faulty: the part goes on with the resolved state.
ChangedResolved(state, c) ==
    LET s == FullyResolve(state)
    IN  IF c.op = "toggle" THEN [s EXCEPT !.session.queue.value.auto = c.version]
        ELSE [s EXCEPT !.session.layouts = IF c.op = "save" THEN WithLayout(@, c) ELSE WithoutLayout(@, c)]

\* What the three parts change in their session.
Changed(state, c) ==
    CASE c.op = "save"   -> [state EXCEPT !.session.layouts = WithLayout(@, c)]
      [] c.op = "delete" -> [state EXCEPT !.session.layouts = WithoutLayout(@, c)]
      [] c.op = "toggle" -> [state EXCEPT !.session.queue.value.auto = c.version]

\* What erase() may say: a layout that is not there cannot be deleted.  Without
\* any layouts the dialog says so, and the optional that is not set is used.
MayChange(state, c) ==
    IF c.op # "delete" THEN {TRUE}
    ELSE IF state.session.layouts = None THEN BOOLEAN
    ELSE {c.layout \in DOMAIN state.session.layouts}

\* The parts that change: load, change and save in one go.
OnLoadedChange ==
    /\ Reply("loaded") /\ Head(replies).then.op \in {"save", "delete", "toggle"}
    /\ LET c    == Head(replies).then
           text == Head(replies).text
       IN  \E changes \in IF text = None THEN {FALSE} ELSE MayChange(StateFromJson(text, Empty), c) :
           IF changes
           THEN /\ requests' = Append(requests, [op |-> "save", then |-> c, base |-> text,
                                                 text |-> StateToJson(Changed(StateFromJson(text, Empty), c))])
                /\ UNCHANGED waiting
           ELSE waiting' = waiting \ {c} /\ UNCHANGED requests
    /\ UNCHANGED <<file, backups, cache, shown, opened, saved, clicks, crashed>>

\* SessionArea::addSession(); the SessionOptions of the new session load.
OnLoadedOpen ==
    /\ Reply("loaded") /\ Head(replies).then.op = "open"
    /\ LET state == StateFromJson(Head(replies).text, Empty)
       IN  IF Head(replies).text # None /\ Resolves(state)
           THEN opened' = FullyResolve(state).session /\ LoadThen([op |-> "names"])
           ELSE UNCHANGED <<opened, requests>>
    /\ UNCHANGED <<file, backups, cache, shown, waiting, saved, clicks, crashed>>

\* SessionOptions::loadLayoutNames().
OnLoadedNames ==
    /\ Reply("loaded") /\ Head(replies).then.op = "names"
    /\ LET state == StateFromJson(Head(replies).text, Empty)
       IN  shown' = IF Head(replies).text = None THEN shown
                    ELSE IF state.session.layouts = None THEN {} ELSE DOMAIN state.session.layouts
    /\ UNCHANGED <<file, backups, cache, requests, opened, waiting, saved, clicks, crashed>>

\* "Layout was saved successfully"
Tell(c) == waiting' = waiting \ {c} /\ saved' = saved \cup {c}

OnSaved ==
    /\ Reply("saved") /\ Tell(Head(replies).then)
    /\ IF Head(replies).then.op = "toggle" THEN UNCHANGED requests ELSE LoadThen([op |-> "names"])
    /\ UNCHANGED <<file, backups, cache, shown, opened, clicks, crashed>>

Backend == HandleLoad \/ HandleSave

Page == OnLoadedChange \/ OnLoadedOpen \/ OnLoadedNames \/ OnSaved

Next == Backend \/ Page \/ Click \/ Crash

Spec == Init /\ [][Next]_vars /\ WF_vars(Backend) /\ WF_vars(Page)

-----------------------------------------------------------------------------
(* Properties. *)

\* What a session of its text is opened with, field by field.
Fields == {"font", "colors", "line", "cc", "speed", "flag", "control", "paused"}

InForce(text, field) ==
    LET s == FullyResolve(StateFromJson(text, Empty)).session
        t == s.terminal.value
        i == s.termios.value
    IN  CASE field = "font"   -> t.font
          [] field = "line"   -> t.line
          [] field = "colors" -> IF t.theme = None THEN None ELSE t.theme.colors
          [] field \in {"cc", "speed"}     -> i[field]
          [] field \in {"flag", "control"} -> IF i.flags = None THEN None ELSE i.flags[field]
          [] field = "paused" -> s.queue.value.paused

Session(text) == IF "session" \in DOMAIN text THEN text.session ELSE [type |-> "none"]

\* Loading, fixing, changing and saving the settings never changes what a
\* setting of a shell session is in force: what comes from a shared entry
\* still comes from it, what is its own stays its own, and nothing that was
\* set is lost on the way through JSON, however many parts save at once
\* (StateHolder::load(), State::fullyResolve(), useDefaultsFrom()).
KeepsItsSettings ==
    [][ Readable(file) /\ Readable(file') /\ Session(file).type = "shell"
        => \A f \in Fields : InForce(file, f) # None => InForce(file', f) = InForce(file, f) ]_vars

\* The part of a session that one of the page's parts may change.
Untouched(text, c) ==
    LET s == Session(text)
    IN  IF c.op = "toggle"
        THEN [m \in DOMAIN s |-> IF m = "queue" THEN [k \in DOMAIN s.queue \ {"auto"} |-> s.queue[k]] ELSE s[m]]
        ELSE [m \in DOMAIN s \ {"layouts"} |-> s[m]]

OtherLayouts(text, c) ==
    LET s == Session(text)
    IN  IF "layouts" \in DOMAIN s THEN [l \in DOMAIN s.layouts \ {c.layout} |-> s.layouts[l]] ELSE <<>>

\* A part of the page saves the whole file to change one entry of it.  When the
\* file is still what it loaded, the save changes that entry and nothing else:
\* no shared entry, no reference, no other layout (SessionOptions::saveLayout(),
\* OperationQueue's switch, State's to_json() and from_json()).
ChangeTouchesNothingElse ==
    [][ HandleSave /\ Head(requests).base = file /\ file' # Torn
        => LET c == Head(requests).then
           IN  /\ [m \in DOMAIN file' \ {"session"} |-> file'[m]] = [m \in DOMAIN file \ {"session"} |-> file[m]]
               /\ Untouched(file', c) = Untouched(file, c)
               /\ c.op # "toggle" => OtherLayouts(file', c) = OtherLayouts(file, c)
               /\ c.op = "toggle" => Session(file').queue.auto = c.version ]_vars

\* Every change the user asked for is answered or given up: the calls of
\* several parts that load and save at once do not wait for each other.
EveryChangeIsAnswered == <>[](waiting = {})

(* What does not hold. *)

\* The settings that an ssh session takes from a shared entry survive a load: the
\* reference is not written (to_json() of SshSessionOptions replaces the object).
SshKeepsItsSettings ==
    [][ Readable(file) /\ Readable(file') /\ Session(file).type = "ssh" /\ Session(file').type = "ssh"
        => LET U(text) == FullyResolve(StateFromJson(text, Empty)).session.engine.value.user
           IN  U(file) # None => U(file') = U(file) ]_vars

\* The password of a session itself goes before that of the entry it refers to.
OwnPasswordWins ==
    Readable(file) =>
        LET s == StateFromJson(file, Empty)
        IN  s.session # None /\ s.session.type = "ssh" /\ s.session.engine.value.password # None
            => FullyResolve(s).session.engine.value.password = s.session.engine.value.password

\* A layout that was reported as saved is the one in the file until a later one is.
SavedMeansSaved ==
    \A c \in saved : c.op = "save" /\ ~(\E d \in saved : d.layout = c.layout /\ d.version > c.version)
        => /\ Readable(file) /\ "layouts" \in DOMAIN Session(file) /\ c.layout \in DOMAIN Session(file).layouts
           /\ Session(file).layouts[c.layout] >= c.version

\* The settings are never lost altogether.
FileStaysReadable == [][Readable(file) => Readable(file')]_vars

\* Every session of a file that could be loaded can be opened.
EverySessionOpens == cache.session # None => Resolves(cache)

=============================================================================
