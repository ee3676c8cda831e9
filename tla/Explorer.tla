------------------------------- MODULE Explorer -------------------------------
(***************************************************************************)
(* The file explorer of an ssh session: the page's FileGrid with its        *)
(* selection and context menu, the frontend Session that navigates, creates *)
(* and downloads, SftpFileEngine with its lazily opened channel, and the    *)
(* backend's sftp calls.                                                    *)
(*                                                                          *)
(* Calls and their replies are ordered: the backend handles them on one     *)
(* strand.  The user acts in between.  Dialogs are modal.  A path is the    *)
(* sequence of its names; the grid and the menu remember the directory      *)
(* their items were listed in, which the code does not.                     *)
(***************************************************************************)
EXTENDS Integers, SequencesExt

CONSTANTS
    Names,      \* file names in their order
    Dirs,       \* the server's directories at the start: paths
    Files,      \* the server's files at the start: paths
    Typed,      \* paths typed into the path bar
    NewNames,   \* names typed for a new item
    Gestures,   \* what the user does: "navigate", "select", "menu", "new"
    Faults,     \* "open": no sftp channel, "call": a call fails, "timeout": it is done all the same
    MaxClicks,  \* bound: what the user does
    None

ASSUME ExplorerAssumption ==
    /\ MaxClicks \in Nat /\ <<>> \in Dirs /\ Dirs \cap Files = {}
    /\ Faults \subseteq {"open", "timeout", "call"}
    /\ Gestures \subseteq {"navigate", "select", "menu", "new"}

VARIABLES
    current,    \* currentPath
    previous,   \* preNavigatePath
    channel,    \* sftpChannelId
    grid,       \* the items, the selected ones, and the directory they are from
    menu,       \* contextMenuClickItems, whether the menu shows, and their directory
    confirm,    \* ConfirmDialog: what Yes does
    input,      \* InputDialog: what Ok does
    requests,   \* calls under way to the backend
    replies,    \* replies under way to the page
    dirs, files,\* the server's
    channels,   \* sftp channels opened in the backend
    downloads,  \* history: enqueued downloads with the directory of the item
    clicks,     \* how much the user did
    misled      \* history: no channel was opened, or something failed and was done

server == <<dirs, files, channels, requests>>
page   == <<current, previous, channel, grid, menu, confirm, input, downloads>>
vars   == <<server, page, replies, clicks, misled>>

NoMenu == [items |-> <<>>, open |-> FALSE, from |-> None]

\* lazyOpen(): the first call opens the channel, and goes on when that is open.
Request(op, path) == [op |-> op, path |-> path, opening |-> channel = None]

Send(op, path) == requests' = Append(requests, Request(op, path))

\* openSftp() has navigated to the default directory.
Init ==
    /\ current = <<>> /\ previous = <<>> /\ channel = None
    /\ grid = [items |-> <<>>, selected |-> {}, from |-> None]
    /\ menu = NoMenu /\ confirm = None /\ input = None
    /\ requests = <<Request("list", <<>>)>> /\ replies = <<>>
    /\ dirs = Dirs /\ files = Files /\ channels = 0
    /\ downloads = {} /\ clicks = 0 /\ misled = FALSE

-----------------------------------------------------------------------------
(* The backend: Session::<id>::sftp::* and Session::<id>::Channel::create. *)

Entries(p) ==
    {[name |-> "..", dir |-> TRUE]}
        \cup {[name |-> n, dir |-> TRUE] : n \in {m \in Range(Names) : Append(p, m) \in dirs}}
        \cup {[name |-> n, dir |-> FALSE] : n \in {m \in Range(Names) : Append(p, m) \in files}}

Parent(p) == IF p = <<>> THEN <<>> ELSE Front(p)

Reply(call, ok) ==
    [op |-> call.op, path |-> call.path, opening |-> call.opening, ok |-> ok,
     entries |-> IF ok /\ call.path \in dirs THEN Entries(call.path) ELSE {}]

Answer(ok) ==
    /\ requests' = Tail(requests)
    /\ replies' = Append(replies, Reply(Head(requests), ok))

Handling(op) == requests # <<>> /\ ~Head(requests).opening /\ Head(requests).op = op

OpenChannel ==
    /\ requests # <<>> /\ Head(requests).opening
    /\ \/ Answer(TRUE) /\ channels' = channels + 1
       \/ "open" \in Faults /\ Answer(FALSE) /\ UNCHANGED channels
    /\ misled' = (misled \/ UNCHANGED channels)
    /\ UNCHANGED <<page, dirs, files, clicks>>

\* withSftpChannelDo() finds no channel, or wait_for() gives up.
CallFails ==
    /\ requests # <<>> /\ ~Head(requests).opening /\ "call" \in Faults
    /\ Answer(FALSE) /\ UNCHANGED <<page, dirs, files, channels, clicks, misled>>

ListDirectory ==
    /\ Handling("list") /\ Answer(Head(requests).path \in dirs)
    /\ UNCHANGED <<page, dirs, files, channels, clicks, misled>>

\* What was given up is done all the same.
Performed(ok) ==
    \/ Answer(ok) /\ UNCHANGED misled
    \/ "timeout" \in Faults /\ ok /\ Answer(FALSE) /\ misled' = TRUE

CreateDirectory ==
    /\ Handling("mkdir")
    /\ LET p  == Head(requests).path
           ok == Parent(p) \in dirs /\ p \notin dirs \cup files
       IN  Performed(ok) /\ dirs' = IF ok THEN dirs \cup {p} ELSE dirs
    /\ UNCHANGED <<page, files, channels, clicks>>

\* sftp_open(O_CREAT): a file that is there is left alone.
CreateFile ==
    /\ Handling("create")
    /\ LET p  == Head(requests).path
           ok == Parent(p) \in dirs /\ p \notin dirs
       IN  Performed(ok) /\ files' = IF ok THEN files \cup {p} ELSE files
    /\ UNCHANGED <<page, dirs, channels, clicks>>

AddDownload ==
    /\ Handling("download") /\ Answer(Head(requests).path \in files \cup dirs)
    /\ UNCHANGED <<page, dirs, files, channels, clicks, misled>>

-----------------------------------------------------------------------------
(* Replies. *)

Before(x, y) ==
    IF x.dir = y.dir
    THEN \E i, j \in DOMAIN Names : i < j /\ Names[i] = x.name /\ (Names[j] = y.name)
    ELSE x.dir

\* FileGrid::sortItems(); ".." comes first among the names.
Sorted(entries) == SetToSortSeq(entries, Before)

OpenConfirm(about, items, from) == confirm' = [about |-> about, items |-> items, from |-> from]

Got == replies # <<>> /\ replies' = Tail(replies)

\* The callback of createSftpChannel(); without a channel only a download answers.
OnChannel ==
    /\ Got /\ Head(replies).opening
    /\ LET r == Head(replies)
       IN  /\ channel' = IF r.ok THEN channels ELSE None
           /\ requests' = IF r.ok THEN Append(requests, [op |-> r.op, path |-> r.path, opening |-> FALSE])
                          ELSE requests
           /\ IF ~r.ok /\ r.op = "download" THEN OpenConfirm("error", <<>>, None) ELSE UNCHANGED confirm
    /\ UNCHANGED <<current, previous, grid, menu, input, dirs, files, channels, downloads, clicks, misled>>

Replied(op) == Got /\ ~Head(replies).opening /\ Head(replies).op = op

NavigateTo(p) == previous' = current /\ current' = p /\ Send("list", p)

Listed ==
    /\ Replied("list") /\ Head(replies).ok
    /\ grid' = [items |-> Sorted(Head(replies).entries), selected |-> {}, from |-> Head(replies).path]
    /\ UNCHANGED <<current, previous, channel, menu, confirm, input, server, downloads, clicks, misled>>

\* Faulty: the path goes back, the list is not fetched again.
UndoPathOnly ==
    /\ Replied("list") /\ ~Head(replies).ok
    /\ current' = previous
    /\ UNCHANGED <<previous, channel, grid, menu, confirm, input, server, downloads, clicks, misled>>

\* "undo the navigation": the one before the last, by now.
UndoNavigation ==
    /\ Replied("list") /\ ~Head(replies).ok
    /\ current' = previous /\ Send("list", previous)
    /\ UNCHANGED <<previous, channel, grid, menu, confirm, input, dirs, files, channels, downloads, clicks, misled>>

Created ==
    /\ Replied("mkdir") \/ Replied("create")
    /\ IF Head(replies).ok THEN NavigateTo(current) ELSE UNCHANGED <<current, previous, requests>>
    /\ UNCHANGED <<channel, grid, menu, confirm, input, dirs, files, channels, downloads, clicks, misled>>

DownloadAdded ==
    /\ Replied("download")
    /\ IF Head(replies).ok THEN UNCHANGED confirm ELSE OpenConfirm("error", <<>>, None)
    /\ UNCHANGED <<current, previous, channel, grid, menu, input, server, downloads, clicks, misled>>

-----------------------------------------------------------------------------
(* FileGrid: navigation and selection. *)

Does(gesture) ==
    /\ gesture \in Gestures /\ confirm = None /\ input = None
    /\ clicks < MaxClicks /\ clicks' = clicks + 1

\* closeMenus()
CloseMenus == menu' = [menu EXCEPT !.open = FALSE]

DoubleClick(i) ==
    /\ Does("navigate") /\ grid.items[i].dir /\ CloseMenus
    /\ NavigateTo(IF grid.items[i].name = ".." THEN Parent(current)
                  ELSE Append(current, grid.items[i].name))
    /\ UNCHANGED <<channel, grid, confirm, input, dirs, files, channels, replies, downloads, misled>>

\* The path bar, and refresh.
EnterPath ==
    /\ Does("navigate") /\ \E p \in Typed \cup {current} : NavigateTo(p)
    /\ UNCHANGED <<channel, grid, menu, confirm, input, dirs, files, channels, replies, downloads, misled>>

Select(items) ==
    /\ Does("select") /\ CloseMenus /\ grid' = [grid EXCEPT !.selected = items]
    /\ UNCHANGED <<current, previous, channel, confirm, input, server, replies, downloads, misled>>

Click(i) == Select({i})
CtrlClick(i) == Select(IF i \in grid.selected THEN grid.selected \ {i} ELSE grid.selected \cup {i})
OnUneventfulClick == Select({})

\* The seekers go forward and backward together until one finds a selected
\* item or reaches its end; then the forward one goes on if it is not at the
\* end, else the backward one if it is not at the first.  0: none found.
OtherSelected(i) ==
    LET n   == Len(grid.items)
        sel == grid.selected
        f0  == IF i # 1 /\ i = n THEN n ELSE i + 1
        b0  == IF i = 1 THEN 1 ELSE i - 1
        steps == {k \in 0..n : f0 + k <= n /\ b0 - k > 1}
        hits == {k \in steps : f0 + k \in sel \/ b0 - k \in sel}
        f   == f0 + Cardinality(steps)
        b   == b0 - Cardinality(steps)
    IN  CASE hits # {} -> IF f0 + Min(hits) \in sel THEN f0 + Min(hits) ELSE b0 - Min(hits)
          [] hits = {} /\ f <= n -> IF sel \cap (f..n) # {} THEN Min(sel \cap (f..n)) ELSE 0
          [] hits = {} /\ f > n /\ b > 1 -> IF sel \cap (1..b) # {} THEN Max(sel \cap (1..b)) ELSE 0
          [] OTHER -> 0

\* From the item to the other selected one, or everything.
SelectedRange(i) ==
    LET o == OtherSelected(i)
    IN  IF o = 0 THEN DOMAIN grid.items ELSE Min({i, o}) .. Max({i, o})

ShiftClick(i) == Select(SelectedRange(i))

-----------------------------------------------------------------------------
(* The context menu and the dialogs. *)

\* selectedItems(): the items at these places in the order of the grid.
InGridOrder(places) ==
    {[k \in DOMAIN walk |-> grid.items[walk[k]]] :
        walk \in {w \in UNION {[1..n -> places] : n \in 0..Len(grid.items)} :
                      Range(w) = places /\ \A k, l \in DOMAIN w : k < l => w[k] < w[l]}}

\* Faulty: the parent directory is not filtered.
MenuItemsUnfiltered == InGridOrder(grid.selected)

MenuItems == InGridOrder({i \in grid.selected : grid.items[i].name # ".."})

\* onContextMenu(): an item that is not selected deselects the others, and
\* the menu is about what was selected before.
ContextMenu ==
    /\ Does("menu")
    /\ \E items \in MenuItems : menu' = [items |-> items, open |-> TRUE, from |-> grid.from]
    /\ \/ UNCHANGED grid
       \/ grid.items # <<>> /\ DOMAIN grid.items # grid.selected /\ grid' = [grid EXCEPT !.selected = {}]
    /\ UNCHANGED <<current, previous, channel, confirm, input, server, replies, downloads, misled>>

MenuClick == Does("menu") /\ menu.open /\ menu' = NoMenu

\* Download and Delete ask; with nothing to ask about there is an error.
MenuAsks ==
    /\ MenuClick
    /\ IF menu.items = <<>> THEN OpenConfirm("error", <<>>, None)
       ELSE \E about \in {"download", "delete"} : OpenConfirm(about, menu.items, menu.from)
    /\ UNCHANGED <<current, previous, channel, grid, input, server, replies, downloads, misled>>

\* Rename and Properties are for one item; a rename asks and does nothing.
MenuRename ==
    /\ MenuClick
    /\ IF Len(menu.items) = 1 THEN input' = "rename" /\ UNCHANGED confirm
       ELSE OpenConfirm("error", <<>>, None) /\ UNCHANGED input
    /\ UNCHANGED <<current, previous, channel, grid, server, replies, downloads, misled>>

NewItem ==
    /\ Does("new") /\ \E what \in {"mkdir", "create"} : input' = what
    /\ UNCHANGED <<current, previous, channel, grid, menu, confirm, server, replies, downloads, misled>>

\* Yes on a download: every item is added under the path of now.  Yes on a
\* delete, No, Ok: nothing.
CloseConfirm ==
    /\ confirm # None /\ confirm' = None
    /\ \/ /\ confirm.about = "download"
          /\ requests' = requests \o [k \in DOMAIN confirm.items |->
                             Request("download", Append(current, confirm.items[k].name))]
          /\ downloads' = downloads \cup {[from |-> confirm.from, name |-> confirm.items[k].name,
                                           path |-> Append(current, confirm.items[k].name)] :
                                              k \in DOMAIN confirm.items}
       \/ UNCHANGED <<requests, downloads>>
    /\ UNCHANGED <<current, previous, channel, grid, menu, input, dirs, files, channels, replies, clicks, misled>>

\* A name with a slash, Cancel: nothing.
CloseInput ==
    /\ input # None /\ input' = None
    /\ \/ input # "rename" /\ \E n \in NewNames : Send(input, Append(current, n))
       \/ UNCHANGED requests
    /\ UNCHANGED <<current, previous, channel, grid, menu, confirm, dirs, files, channels, replies, downloads, clicks, misled>>

Backend == OpenChannel \/ CallFails \/ ListDirectory \/ CreateDirectory \/ CreateFile \/ AddDownload
Replies == OnChannel \/ Listed \/ UndoNavigation \/ Created \/ DownloadAdded
User ==
    \/ \E i \in DOMAIN grid.items : DoubleClick(i) \/ Click(i) \/ CtrlClick(i) \/ ShiftClick(i)
    \/ EnterPath \/ OnUneventfulClick \/ ContextMenu \/ MenuAsks \/ MenuRename
    \/ NewItem \/ CloseConfirm \/ CloseInput

Next == Backend \/ Replies \/ User

Spec == Init /\ [][Next]_vars

\* The strand and the page handle what arrives.
FairSpec == Spec /\ WF_vars(Backend) /\ WF_vars(Replies)

-----------------------------------------------------------------------------
(* Properties *)

Settled == requests = <<>> /\ replies = <<>>

\* When nothing is under way the grid shows the current directory as it is on
\* the server, whatever navigations failed, crossed or created something, if
\* all used one sftp channel and no call was misreported.
ShownListIsCurrent ==
    Settled /\ channels = 1 /\ ~misled => grid.from = current /\ grid.items = Sorted(Entries(current))

\* The parent directory, which "Download" would fetch whole, is never added.
ParentIsNeverDownloaded == \A d \in downloads : d.name # ".."

\* "go backwards and forwards until we find another selected item": with one
\* selected a click with shift selects what lies between.
ShiftStopsAtTheSelected ==
    [][\A i \in DOMAIN grid.items :
          ShiftClick(i) /\ Cardinality(grid.selected \ {i}) = 1 =>
              grid'.selected = Min(grid.selected \cup {i}) .. Max(grid.selected \cup {i})]_vars

\* "undo the navigation": a navigation that failed ends where files are listed.
NavigationEnds == []<>Settled

\* What is downloaded is what was listed and selected.
DownloadsWhatWasSelected == \A d \in downloads : d.path = Append(d.from, d.name)

\* The menu is about the item that was clicked.
MenuActsOnClicked == [][ContextMenu => grid'.selected # {} \/ menu'.items = <<>>]_vars

\* Requests share one sftp channel: not those made before it is open.  They
\* open one each, and what was asked for first may be listed last.
OneSftpChannel == channels <= 1
=============================================================================
