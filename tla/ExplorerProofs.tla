----------------------------- MODULE ExplorerProofs -----------------------------
(***************************************************************************)
(* The safety properties of the file explorer, for every remote tree, every *)
(* path and any number of clicks, calls and failures.                       *)
(*                                                                          *)
(* What the grid shows is what the last "list" on its way will bring: the   *)
(* calls and their replies are one line that the backend and the page move  *)
(* along, every change of the path puts a "list" of it at its end, and so   *)
(* does every reply of something created.                                   *)
(***************************************************************************)
EXTENDS Explorer, SequenceTheorems, TLAPS

-----------------------------------------------------------------------------
(* Sequences of calls and of replies. *)

IsSeq(s) == s \in Seq(Range(s))

LEMMA SeqProperties ==
  ASSUME NEW s, IsSeq(s)
  PROVE  Len(s) \in Nat /\ DOMAIN s = 1..Len(s) /\ (s = <<>> <=> Len(s) = 0)
  BY LenProperties, EmptySeq DEF IsSeq

LEMMA MadeSeq ==
  ASSUME NEW S, NEW s \in Seq(S)
  PROVE  IsSeq(s)
  <1>1. Len(s) \in Nat /\ s \in [1..Len(s) -> S]
    BY LenProperties
  <1>2. s \in [1..Len(s) -> Range(s)]
    BY <1>1 DEF Range
  <1> QED
    BY <1>1, <1>2, SeqDef DEF IsSeq

LEMMA AppendSeq ==
  ASSUME NEW s, IsSeq(s), NEW e
  PROVE  /\ IsSeq(Append(s, e)) /\ DOMAIN Append(s, e) = 1..(Len(s) + 1)
         /\ \A i \in 1..Len(s) : Append(s, e)[i] = s[i]
         /\ Append(s, e)[Len(s) + 1] = e
  <1> DEFINE T == Range(s) \cup {e}
  <1>1. s \in Seq(T)
    <2>1. Len(s) \in Nat /\ s \in [1..Len(s) -> Range(s)]
      BY LenProperties DEF IsSeq
    <2> QED
      BY <2>1, SeqDef
  <1>2. e \in T
    OBVIOUS
  <1> HIDE DEF T
  <1>3. Append(s, e) \in Seq(T) /\ Len(Append(s, e)) = Len(s) + 1
    BY <1>1, <1>2, AppendProperties
  <1>4. DOMAIN Append(s, e) = 1..(Len(s) + 1)
    BY <1>3, LenProperties
  <1>5. Append(s, e)[Len(s) + 1] = e /\ \A i \in 1..Len(s) : Append(s, e)[i] = s[i]
    BY <1>1, <1>2, AppendProperties
  <1>6. IsSeq(Append(s, e))
    BY <1>3, MadeSeq
  <1> QED
    BY <1>4, <1>5, <1>6

LEMMA TailSeq ==
  ASSUME NEW s, IsSeq(s), s # <<>>
  PROVE  /\ Len(s) \in Nat \ {0} /\ DOMAIN s = 1..Len(s) /\ Head(s) = s[1]
         /\ IsSeq(Tail(s)) /\ Len(Tail(s)) = Len(s) - 1 /\ DOMAIN Tail(s) = 1..(Len(s) - 1)
         /\ \A i \in 1..(Len(s) - 1) : Tail(s)[i] = s[i + 1]
  <1>1. Tail(s) \in Seq(Range(s)) /\ Len(Tail(s)) = Len(s) - 1
    BY HeadTailProperties DEF IsSeq
  <1>2. Len(s) \in Nat \ {0} /\ DOMAIN s = 1..Len(s)
    BY SeqProperties
  <1>3. DOMAIN Tail(s) = 1..(Len(s) - 1)
    BY <1>1, <1>2, LenProperties
  <1>4. IsSeq(Tail(s))
    BY <1>1, MadeSeq
  <1>5. \A i \in 1..(Len(s) - 1) : Tail(s)[i] = s[i + 1]
    BY <1>1, HeadTailProperties DEF IsSeq
  <1>6. Head(s) = s[1]
    BY DEF IsSeq
  <1> QED
    BY <1>1, <1>2, <1>3, <1>4, <1>5, <1>6

LEMMA ConcatSeq ==
  ASSUME NEW s, IsSeq(s), NEW t, IsSeq(t)
  PROVE  /\ IsSeq(s \o t) /\ Len(s \o t) = Len(s) + Len(t) /\ DOMAIN (s \o t) = 1..(Len(s) + Len(t))
         /\ \A i \in 1..Len(s) : (s \o t)[i] = s[i]
         /\ \A i \in 1..Len(t) : (s \o t)[Len(s) + i] = t[i]
  <1> DEFINE T == Range(s) \cup Range(t)
  <1>1. s \in Seq(T) /\ t \in Seq(T)
    <2>1. /\ Len(s) \in Nat /\ s \in [1..Len(s) -> Range(s)]
          /\ Len(t) \in Nat /\ t \in [1..Len(t) -> Range(t)]
      BY LenProperties DEF IsSeq
    <2> QED
      BY <2>1, SeqDef
  <1> HIDE DEF T
  <1>2. Len(s) \in Nat /\ Len(t) \in Nat
    BY SeqProperties
  <1>3. s \o t \in Seq(T) /\ Len(s \o t) = Len(s) + Len(t)
        /\ \A i \in 1..(Len(s) + Len(t)) : (s \o t)[i] = IF i <= Len(s) THEN s[i] ELSE t[i - Len(s)]
    BY <1>1, ConcatProperties
  <1>4. IsSeq(s \o t) /\ DOMAIN (s \o t) = 1..(Len(s) + Len(t))
    BY <1>3, LenProperties, MadeSeq
  <1>5. ASSUME NEW i \in 1..Len(s) PROVE (s \o t)[i] = s[i]
    BY <1>2, <1>3
  <1>6. ASSUME NEW i \in 1..Len(t) PROVE (s \o t)[Len(s) + i] = t[i]
    <2>1. Len(s) + i \in 1..(Len(s) + Len(t)) /\ ~(Len(s) + i <= Len(s)) /\ Len(s) + i - Len(s) = i
      BY <1>2
    <2> QED
      BY <2>1, <1>3
  <1> QED
    BY <1>3, <1>4, <1>5, <1>6
-----------------------------------------------------------------------------
(* The parent directory is filtered from the menu, and from there nothing   *)
(* brings it back.                                                          *)

WithoutParent(items) == \A k \in DOMAIN items : items[k].name # ".."

MenuInv ==
    /\ DOMAIN menu = {"items", "open", "from"}
    /\ WithoutParent(menu.items) /\ IsSeq(menu.items)
    /\ confirm # None => WithoutParent(confirm.items) /\ IsSeq(confirm.items)
    /\ ParentIsNeverDownloaded

LEMMA MenuItemsFiltered ==
  ASSUME NEW items \in MenuItems
  PROVE  WithoutParent(items) /\ IsSeq(items)
  <1> DEFINE places == {i \in grid.selected : grid.items[i].name # ".."}
  <1>0. PICK n \in Nat : \E walk \in [1..n -> places] : items = [k \in DOMAIN walk |-> grid.items[walk[k]]]
    BY DEF MenuItems, InGridOrder
  <1>1. PICK walk \in [1..n -> places] : items = [k \in DOMAIN walk |-> grid.items[walk[k]]]
    BY <1>0
  <1>2. ASSUME NEW k \in DOMAIN items PROVE items[k].name # ".."
    <2>1. walk[k] \in places /\ items[k] = grid.items[walk[k]]
      BY <1>1, <1>2
    <2> QED
      BY <2>1
  <1>3. IsSeq(items)
    <2>1. items \in [1..n -> Range(items)]
      BY <1>1 DEF Range
    <2> QED
      BY <2>1, SeqDef DEF IsSeq
  <1> QED
    BY <1>2, <1>3 DEF WithoutParent

LEMMA MenuStep == MenuInv /\ [Next]_vars => MenuInv'
  <1> SUFFICES ASSUME MenuInv, [Next]_vars PROVE MenuInv'
    OBVIOUS
  <1> DEFINE MenuStays == menu' = menu \/ menu' = [menu EXCEPT !.open = FALSE]
  <1>1. WithoutParent(<<>>) /\ IsSeq(<<>>)
    BY DEF WithoutParent, IsSeq
  <1>2. ASSUME MenuStays, UNCHANGED <<confirm, downloads>> PROVE MenuInv'
    BY <1>2 DEF MenuInv, WithoutParent, ParentIsNeverDownloaded
  <1>3. ASSUME UNCHANGED <<menu, downloads>>, confirm' = confirm \/ OpenConfirm("error", <<>>, None) PROVE MenuInv'
    BY <1>1, <1>3 DEF MenuInv, WithoutParent, ParentIsNeverDownloaded, OpenConfirm
  <1>4. CASE UNCHANGED vars
    BY <1>2, <1>4 DEF vars, page
  <1>5. CASE Backend
    BY <1>2, <1>5 DEF Backend, OpenChannel, CallFails, ListDirectory, CreateDirectory, CreateFile, AddDownload, page
  <1>6. CASE Replies
    BY <1>3, <1>6 DEF Replies, OnChannel, Listed, UndoNavigation, Created, DownloadAdded
  <1>7. CASE \E i \in DOMAIN grid.items : DoubleClick(i) \/ Click(i) \/ CtrlClick(i) \/ ShiftClick(i)
    BY <1>2, <1>7 DEF DoubleClick, Click, CtrlClick, ShiftClick, Select, CloseMenus
  <1>8. CASE EnterPath \/ OnUneventfulClick \/ NewItem \/ CloseInput
    BY <1>2, <1>8 DEF EnterPath, OnUneventfulClick, NewItem, CloseInput, Select, CloseMenus
  <1>9. CASE ContextMenu
    <2>1. PICK items \in MenuItems : menu' = [items |-> items, open |-> TRUE, from |-> grid.from]
      BY <1>9 DEF ContextMenu
    <2>2. WithoutParent(items) /\ IsSeq(items)
      BY MenuItemsFiltered
    <2> QED
      BY <1>9, <2>1, <2>2 DEF ContextMenu, MenuInv, ParentIsNeverDownloaded
  <1>10. CASE MenuAsks \/ MenuRename
    <2>1. /\ menu' = NoMenu /\ downloads' = downloads
          /\ \/ confirm' = confirm
             \/ OpenConfirm("error", <<>>, None)
             \/ \E about : OpenConfirm(about, menu.items, menu.from)
      BY <1>10 DEF MenuAsks, MenuRename, MenuClick
    <2>2. DOMAIN menu' = {"items", "open", "from"} /\ WithoutParent(menu'.items) /\ IsSeq(menu'.items)
      BY <2>1, <1>1 DEF NoMenu
    <2>3. confirm' # None => WithoutParent(confirm'.items) /\ IsSeq(confirm'.items)
      BY <2>1, <1>1 DEF MenuInv, OpenConfirm
    <2> QED
      BY <2>1, <2>2, <2>3 DEF MenuInv, ParentIsNeverDownloaded
  <1>11. CASE CloseConfirm
    <2>1. menu' = menu /\ confirm' = None /\ WithoutParent(confirm.items)
      BY <1>11 DEF CloseConfirm, MenuInv
    <2>2. ASSUME NEW d \in downloads' PROVE d.name # ".."
      <3>1. d \in downloads \/ \E k \in DOMAIN confirm.items : d.name = confirm.items[k].name
        BY <1>11 DEF CloseConfirm
      <3> QED
        BY <2>1, <3>1 DEF WithoutParent, MenuInv, ParentIsNeverDownloaded
    <2> QED
      BY <2>1, <2>2 DEF MenuInv, ParentIsNeverDownloaded
  <1> QED
    BY <1>4, <1>5, <1>6, <1>7, <1>8, <1>9, <1>10, <1>11 DEF Next, User

(* "Download" never fetches the parent directory, whatever was selected and *)
(* whichever directory the items were listed in.                            *)
THEOREM ParentIsFiltered == Spec => []ParentIsNeverDownloaded
  <1>1. Init => MenuInv
    BY DEF Init, MenuInv, NoMenu, WithoutParent, ParentIsNeverDownloaded, IsSeq
  <1>2. MenuInv => ParentIsNeverDownloaded
    BY DEF MenuInv
  <1> QED
    BY <1>1, <1>2, MenuStep, PTL DEF Spec

-----------------------------------------------------------------------------
(* What is on its way. *)

\* Nothing is said when a second channel is open or asked for.
Excused ==
    \/ misled
    \/ channels >= 2
    \/ \E i \in DOMAIN requests :
           /\ requests[i].opening
           /\ channels >= 1 \/ \E j \in DOMAIN requests : j # i /\ requests[j].opening

FirstList == [op |-> "list", path |-> <<>>, opening |-> TRUE]

\* The default directory waits for the channel, which is asked for, ...
Asking ==
    /\ channels = 0 /\ channel = None /\ current = <<>>
    /\ requests = <<FirstList>> /\ replies = <<>>

\* ... and then open, but not known to the page.
Telling ==
    /\ channels = 1 /\ channel = None /\ current = <<>>
    /\ requests = <<>> /\ DOMAIN replies = {1}
    /\ replies[1].op = "list" /\ replies[1].path = <<>> /\ replies[1].opening /\ replies[1].ok

Lists(s) == {i \in DOMAIN s : s[i].op = "list"}
LastList(s, i) == i \in Lists(s) /\ \A j \in Lists(s) : j <= i

SomethingIsCreated == \E i \in DOMAIN replies : replies[i].op \in {"mkdir", "create"} /\ replies[i].ok

ListIsAsked == \E i \in DOMAIN requests : LastList(requests, i) /\ requests[i].path = current

ListIsAnswered ==
    /\ Lists(requests) = {}
    /\ \E i \in DOMAIN replies :
           /\ LastList(replies, i) /\ replies[i].path = current
           /\ replies[i].ok => replies[i].entries = Entries(current)

ListIsShown ==
    /\ Lists(requests) = {} /\ Lists(replies) = {}
    /\ grid.from = current /\ grid.items = Sorted(Entries(current))

\* With the channel open, one of these will bring the list.
Flowing ==
    /\ channels = 1 /\ channel = channels
    /\ \A i \in DOMAIN requests : ~requests[i].opening
    /\ \A i \in DOMAIN replies : ~replies[i].opening
    /\ SomethingIsCreated \/ ListIsAsked \/ ListIsAnswered \/ ListIsShown

LineOK ==
    /\ IsSeq(requests) /\ IsSeq(replies) /\ channels \in Nat
    /\ DOMAIN grid = {"items", "selected", "from"}
    /\ input # None => input \in {"rename", "mkdir", "create"}

ShownInv == LineOK /\ (Excused \/ Asking \/ Telling \/ Flowing)

LEMMA Sending ==
  ASSUME ShownInv, NEW s, IsSeq(s), \A k \in DOMAIN s : s[k].opening <=> channel = None,
         requests' = requests \o s, UNCHANGED <<channel, channels, misled>>,
         IsSeq(replies'), LineOK',
         Telling => UNCHANGED replies /\ UNCHANGED current,
         Asking => UNCHANGED replies /\ UNCHANGED current,
         \A i \in DOMAIN replies' : \E j \in DOMAIN replies : replies'[i] = replies[j]
  PROVE  Excused' \/ Asking' \/ Telling'
         \/ /\ Flowing /\ channels' = 1 /\ channel' = channels'
            /\ \A i \in DOMAIN requests' : ~requests'[i].opening
            /\ \A i \in DOMAIN replies' : ~replies'[i].opening
  <1> DEFINE r == requests \o s
  <1>1. /\ IsSeq(r) /\ DOMAIN r = 1..(Len(requests) + Len(s))
        /\ \A i \in 1..Len(requests) : r[i] = requests[i]
        /\ \A i \in 1..Len(s) : r[Len(requests) + i] = s[i]
    BY ConcatSeq DEF ShownInv, LineOK
  <1>2. /\ Len(requests) \in Nat /\ DOMAIN requests = 1..Len(requests) /\ (requests = <<>> <=> Len(requests) = 0)
        /\ Len(s) \in Nat /\ DOMAIN s = 1..Len(s) /\ (s = <<>> <=> Len(s) = 0)
    BY SeqProperties DEF ShownInv, LineOK
  <1>3. requests' = r
    OBVIOUS
  <1> HIDE DEF r
  <1>4. \A i \in DOMAIN requests : i \in DOMAIN r /\ r[i] = requests[i]
    BY <1>1, <1>2
  <1>5. CASE Excused
    <2>1. misled' = misled /\ channels' = channels
      OBVIOUS
    <2> QED
      BY <1>3, <1>4, <1>5, <2>1 DEF Excused
  <1>6. CASE s = <<>>
    <2>1. DOMAIN r = DOMAIN requests
      BY <1>1, <1>2, <1>6
    <2>2. r = requests
      BY <1>6, ConcatEmptySeq DEF r, ShownInv, LineOK, IsSeq
    <2>3. Asking => Asking'
      BY <1>3, <2>2 DEF Asking
    <2>4. Telling => Telling'
      BY <1>3, <2>2 DEF Telling
    <2>5. ASSUME Flowing
          PROVE  /\ Flowing /\ channels' = 1 /\ channel' = channels'
                 /\ \A i \in DOMAIN requests' : ~requests'[i].opening
                 /\ \A i \in DOMAIN replies' : ~replies'[i].opening
      BY <1>3, <2>2, <2>5 DEF Flowing
    <2> QED
      BY <1>5, <2>3, <2>4, <2>5 DEF ShownInv
  <1>7. CASE s # <<>>
    <2> DEFINE n == Len(requests) + 1
    <2>1. n \in DOMAIN r /\ r[n] = s[1] /\ 1 \in DOMAIN s /\ n \notin DOMAIN requests
      BY <1>1, <1>2, <1>7
    <2> HIDE DEF n
    <2>2. r[n].opening <=> channel = None
      BY <2>1
    <2>3. ASSUME Asking PROVE Excused'
      <3>1. 1 \in DOMAIN requests /\ requests[1].opening /\ 1 # n
        BY <2>1, <2>3 DEF Asking, FirstList
      <3>2. r[n].opening /\ r[1].opening /\ 1 \in DOMAIN r
        BY <1>4, <2>2, <2>3, <3>1 DEF Asking
      <3> QED
        BY <1>3, <2>1, <3>1, <3>2 DEF Excused
    <2>4. ASSUME Telling PROVE Excused'
      BY <1>3, <2>1, <2>2, <2>4 DEF Excused, Telling
    <2>5. ASSUME Flowing, channel = None PROVE Excused'
      BY <1>3, <2>1, <2>2, <2>5 DEF Excused, Flowing
    <2>6. ASSUME Flowing, channel # None
          PROVE  \A i \in DOMAIN requests' : ~requests'[i].opening
      <3>1. ASSUME NEW i \in DOMAIN r PROVE ~r[i].opening
        <4>1. i \in 1..Len(requests) \/ \E k \in 1..Len(s) : i = Len(requests) + k
          <5>1. CASE i > Len(requests)
            <6>1. i - Len(requests) \in 1..Len(s) /\ i = Len(requests) + (i - Len(requests))
              BY <1>1, <1>2, <3>1, <5>1
            <6> QED
              BY <6>1
          <5> QED
            BY <1>1, <1>2, <3>1, <5>1
        <4> QED
          BY <1>1, <1>2, <2>6, <4>1 DEF Flowing
      <3> QED
        BY <1>3, <3>1
    <2>7. ASSUME Flowing PROVE \A i \in DOMAIN replies' : ~replies'[i].opening
      BY <2>7 DEF Flowing
    <2> QED
      BY <1>5, <2>3, <2>4, <2>5, <2>6, <2>7 DEF ShownInv, Flowing
  <1> QED
    BY <1>6, <1>7

LEMMA ServerRests ==
  ASSUME UNCHANGED <<dirs, files, current>>
  PROVE  Entries(current)' = Entries(current) /\ Sorted(Entries(current))' = Sorted(Entries(current))
  <1>1. Entries(current)' = Entries(current)
    BY DEF Entries
  <1> QED
    BY <1>1 DEF Sorted

\* The path is changed with a "list" of it, while a reply is handled or not.
LEMMA Navigating ==
  ASSUME ShownInv, Send("list", current'), UNCHANGED <<channel, channels, misled, grid, input>>,
         \/ replies' = replies
         \/ replies # <<>> /\ replies' = Tail(replies) /\ ~Head(replies).opening,
         Telling => UNCHANGED replies
  PROVE  ShownInv'
  <1> DEFINE c == Request("list", current')
  <1>2. requests' = Append(requests, c)
    BY DEF Send, Request
  <1>3. c.op = "list" /\ c.path = current' /\ (c.opening <=> channel = None)
    BY DEF Request
  <1> HIDE DEF c
  <1>4. /\ IsSeq(requests') /\ DOMAIN requests' = 1..(Len(requests) + 1) /\ requests'[Len(requests) + 1] = c
    BY <1>2, AppendSeq DEF ShownInv, LineOK
  <1>5. Len(requests) \in Nat /\ DOMAIN requests = 1..Len(requests) /\ \A i \in 1..Len(requests) : requests'[i] = requests[i]
    BY <1>2, AppendSeq, SeqProperties DEF ShownInv, LineOK
  <1>6. IsSeq(replies') /\ \A i \in DOMAIN replies' : \E j \in DOMAIN replies : replies'[i] = replies[j]
    <2>1. CASE replies' = replies
      BY <2>1 DEF ShownInv, LineOK
    <2>2. CASE replies # <<>> /\ replies' = Tail(replies)
      <3>1. IsSeq(replies') /\ DOMAIN replies' = 1..(Len(replies) - 1) /\ DOMAIN replies = 1..Len(replies)
            /\ Len(replies) \in Nat /\ \A i \in 1..(Len(replies) - 1) : replies'[i] = replies[i + 1]
        BY <2>2, TailSeq DEF ShownInv, LineOK
      <3>2. ASSUME NEW i \in DOMAIN replies' PROVE i + 1 \in DOMAIN replies /\ replies'[i] = replies[i + 1]
        BY <3>1
      <3> QED
        BY <3>1, <3>2
    <2> QED
      BY <2>1, <2>2
  <1>7. LineOK'
    BY <1>4, <1>6 DEF ShownInv, LineOK
  <1>8. ListIsAsked'
    <2>1. Len(requests) + 1 \in DOMAIN requests' /\ requests'[Len(requests) + 1] = c
      BY <1>4, <1>5
    <2>2. \A j \in DOMAIN requests' : j <= Len(requests) + 1
      BY <1>4, <1>5
    <2> QED
      BY <1>3, <2>1, <2>2 DEF ListIsAsked, LastList, Lists
  <1>9. CASE Excused
    BY <1>4, <1>5, <1>7, <1>9 DEF Excused, ShownInv
  <1>10. ASSUME channel = None, Asking \/ Telling \/ Flowing PROVE ShownInv'
    <2> DEFINE n == Len(requests) + 1
    <2>1. n \in DOMAIN requests' /\ requests'[n].opening
      BY <1>3, <1>4, <1>5, <1>10
    <2>2. ASSUME Asking PROVE 1 \in DOMAIN requests' /\ requests'[1].opening /\ 1 # n
      <3>1. 1 \in DOMAIN requests /\ requests[1].opening
        BY <2>2 DEF Asking, FirstList
      <3> QED
        BY <1>4, <1>5, <3>1
    <2> HIDE DEF n
    <2>3. Excused'
      BY <1>10, <2>1, <2>2 DEF Excused, Asking, Telling, Flowing
    <2> QED
      BY <1>7, <2>3 DEF ShownInv
  <1>11. ASSUME channel # None, Flowing PROVE ShownInv'
    <2>1. \A i \in DOMAIN requests' : ~requests'[i].opening
      <3>1. ASSUME NEW i \in DOMAIN requests', i # Len(requests) + 1 PROVE i \in DOMAIN requests /\ requests'[i] = requests[i]
        BY <1>4, <1>5, <3>1
      <3> QED
        BY <1>3, <1>4, <1>11, <3>1 DEF Flowing
    <2>2. \A i \in DOMAIN replies' : ~replies'[i].opening
      BY <1>6, <1>11 DEF Flowing
    <2>3. Flowing'
      BY <1>8, <1>11, <2>1, <2>2 DEF Flowing
    <2> QED
      BY <1>7, <2>3 DEF ShownInv
  <1>12. channel # None => ~Asking /\ ~Telling
    BY DEF Asking, Telling
  <1> QED
    BY <1>9, <1>10, <1>11, <1>12 DEF ShownInv

\* Calls that list nothing follow.
LEMMA Calling ==
  ASSUME ShownInv, NEW s, IsSeq(s), \A k \in DOMAIN s : s[k].opening <=> channel = None,
         \A k \in DOMAIN s : s[k].op # "list", requests' = requests \o s,
         UNCHANGED <<current, replies, channel, channels, misled, dirs, files>>,
         DOMAIN grid' = DOMAIN grid, grid'.items = grid.items, grid'.from = grid.from,
         input' # None => input' \in {"rename", "mkdir", "create"}
  PROVE  ShownInv'
  <1>1. /\ IsSeq(requests') /\ DOMAIN requests' = 1..(Len(requests) + Len(s))
        /\ \A i \in 1..Len(requests) : requests'[i] = requests[i]
        /\ \A i \in 1..Len(s) : requests'[Len(requests) + i] = s[i]
    BY ConcatSeq DEF ShownInv, LineOK
  <1>2. /\ Len(requests) \in Nat /\ DOMAIN requests = 1..Len(requests)
        /\ Len(s) \in Nat /\ DOMAIN s = 1..Len(s)
    BY SeqProperties DEF ShownInv, LineOK
  <1>3. LineOK'
    BY <1>1 DEF ShownInv, LineOK
  <1>4. Lists(requests') = Lists(requests) /\ \A i \in DOMAIN requests : i \in DOMAIN requests' /\ requests'[i] = requests[i]
    <2>1. ASSUME NEW i \in Lists(requests') PROVE i \in DOMAIN requests
      <3>1. CASE i > Len(requests)
        <4>1. i - Len(requests) \in 1..Len(s) /\ i = Len(requests) + (i - Len(requests))
          BY <1>1, <1>2, <2>1, <3>1 DEF Lists
        <4> QED
          BY <1>1, <1>2, <2>1, <4>1 DEF Lists
      <3> QED
        BY <1>1, <1>2, <2>1, <3>1 DEF Lists
    <2>2. \A i \in DOMAIN requests : i \in DOMAIN requests' /\ requests'[i] = requests[i]
      BY <1>1, <1>2
    <2> QED
      BY <2>1, <2>2 DEF Lists
  <1>5. CASE Excused' \/ Asking' \/ Telling'
    BY <1>3, <1>5 DEF ShownInv
  <1>6. ASSUME Flowing, channels' = 1, channel' = channels',
               \A i \in DOMAIN requests' : ~requests'[i].opening, \A i \in DOMAIN replies' : ~replies'[i].opening
        PROVE  ShownInv'
    <2>1. SomethingIsCreated => SomethingIsCreated'
      BY DEF SomethingIsCreated
    <2>2. ListIsAsked => ListIsAsked'
      BY <1>4 DEF ListIsAsked, LastList, Lists
    <2>3. ListIsAnswered => ListIsAnswered'
      BY <1>4, ServerRests DEF ListIsAnswered, LastList
    <2>4. ListIsShown => ListIsShown'
      BY <1>4, ServerRests DEF ListIsShown
    <2>5. Flowing'
      BY <1>6, <2>1, <2>2, <2>3, <2>4 DEF Flowing
    <2> QED
      BY <1>3, <2>5 DEF ShownInv
  <1>7. \A i \in DOMAIN replies' : \E j \in DOMAIN replies : replies'[i] = replies[j]
    OBVIOUS
  <1> QED
    BY <1>3, <1>5, <1>6, <1>7, Sending DEF ShownInv, LineOK

\* The backend answers the first call.
LEMMA Answering ==
  ASSUME ShownInv, requests # <<>>, ~Head(requests).opening, NEW ok, Answer(ok),
         UNCHANGED <<current, channel, channels, misled, grid, input>>,
         \/ UNCHANGED <<dirs, files>>
         \/ ok = TRUE /\ Head(requests).op \in {"mkdir", "create"},
         Head(requests).op = "list" /\ ok => Head(requests).path \in dirs
  PROVE  ShownInv'
  <1> DEFINE h == requests[1]
             m == Len(replies) + 1
             n == Len(requests) - 1
  <1>1. /\ n \in Nat /\ Len(requests) = n + 1 /\ DOMAIN requests = 1..(n + 1) /\ Head(requests) = h
        /\ IsSeq(requests') /\ DOMAIN requests' = 1..n
        /\ \A i \in 1..n : requests'[i] = requests[i + 1]
    <2>1. /\ Len(requests) \in Nat \ {0} /\ DOMAIN requests = 1..Len(requests) /\ Head(requests) = requests[1]
          /\ IsSeq(requests') /\ DOMAIN requests' = 1..(Len(requests) - 1)
          /\ \A i \in 1..(Len(requests) - 1) : requests'[i] = requests[i + 1]
      BY TailSeq DEF ShownInv, LineOK, Answer
    <2> QED
      BY <2>1
  <1>2. /\ IsSeq(replies') /\ DOMAIN replies' = 1..m /\ m \in Nat /\ DOMAIN replies = 1..(m - 1) /\ m >= 1
        /\ \A i \in 1..(m - 1) : replies'[i] = replies[i]
        /\ replies'[m] = Reply(h, ok)
    <2>1. replies' = Append(replies, Reply(h, ok))
      BY <1>1 DEF Answer
    <2>2. /\ IsSeq(replies') /\ DOMAIN replies' = 1..(Len(replies) + 1)
          /\ \A i \in 1..Len(replies) : replies'[i] = replies[i]
          /\ replies'[Len(replies) + 1] = Reply(h, ok)
      BY <2>1, AppendSeq DEF ShownInv, LineOK
    <2>3. Len(replies) \in Nat /\ DOMAIN replies = 1..Len(replies)
      BY SeqProperties DEF ShownInv, LineOK
    <2>4. m - 1 = Len(replies)
      BY <2>3
    <2> QED
      BY <2>2, <2>3, <2>4
  <1> HIDE DEF h, m, n
  <1>3. LineOK'
    BY <1>1, <1>2 DEF ShownInv, LineOK
  <1>4. \A i \in DOMAIN requests \ {1} : i - 1 \in DOMAIN requests' /\ requests'[i - 1] = requests[i]
    <2>1. ASSUME NEW i \in DOMAIN requests \ {1} PROVE i - 1 \in 1..n /\ (i - 1) + 1 = i
      BY <1>1, <2>1
    <2> QED
      BY <1>1, <2>1
  <1>5. CASE Excused
    <2>1. CASE misled \/ channels >= 2
      BY <1>3, <2>1 DEF Excused, ShownInv
    <2>2. ASSUME NEW i \in DOMAIN requests, requests[i].opening,
                 channels >= 1 \/ \E j \in DOMAIN requests : j # i /\ requests[j].opening
          PROVE  Excused'
      <3>1. i # 1 /\ i - 1 \in DOMAIN requests' /\ requests'[i - 1].opening
        BY <1>1, <1>4, <2>2
      <3>2. CASE channels >= 1
        BY <3>1, <3>2 DEF Excused
      <3>3. ASSUME NEW j \in DOMAIN requests, j # i, requests[j].opening PROVE Excused'
        <4>1. j # 1 /\ j - 1 \in DOMAIN requests' /\ requests'[j - 1].opening
          BY <1>1, <1>4, <3>3
        <4>2. j - 1 # i - 1
          BY <1>1, <3>3
        <4> QED
          BY <3>1, <4>1, <4>2 DEF Excused
      <3> QED
        BY <2>2, <3>2, <3>3
    <2> QED
      BY <1>3, <1>5, <2>1, <2>2 DEF Excused, ShownInv
  <1>6. ~Asking /\ ~Telling
    BY <1>1 DEF Asking, Telling, FirstList
  <1>7. CASE Flowing
    <2>1. ~h.opening /\ ~Reply(h, ok).opening /\ Reply(h, ok).op = h.op /\ Reply(h, ok).path = h.path
          /\ Reply(h, ok).ok = ok
      BY <1>1 DEF Reply
    <2>2. \A i \in DOMAIN requests' : ~requests'[i].opening
      <3>1. ASSUME NEW i \in DOMAIN requests' PROVE i + 1 \in DOMAIN requests /\ requests'[i] = requests[i + 1]
        BY <1>1, <3>1
      <3> QED
        BY <1>7, <3>1 DEF Flowing
    <2>3. \A i \in DOMAIN replies' : ~replies'[i].opening
      <3>1. ASSUME NEW i \in DOMAIN replies', i # m PROVE i \in DOMAIN replies /\ replies'[i] = replies[i]
        BY <1>2, <3>1
      <3> QED
        BY <1>2, <1>7, <2>1, <3>1 DEF Flowing
    <2>4. m \in DOMAIN replies' /\ \A i \in DOMAIN replies : i \in DOMAIN replies' /\ replies'[i] = replies[i] /\ i < m
      BY <1>2
    <2>5. ASSUME ok = TRUE, h.op \in {"mkdir", "create"} PROVE SomethingIsCreated'
      BY <1>2, <2>1, <2>4, <2>5 DEF SomethingIsCreated
    <2>6. ASSUME UNCHANGED <<dirs, files>>
          PROVE  SomethingIsCreated' \/ ListIsAsked' \/ ListIsAnswered' \/ ListIsShown'
      <3>1. SomethingIsCreated => SomethingIsCreated'
        BY <2>4 DEF SomethingIsCreated
      <3>2. ASSUME ListIsAsked PROVE ListIsAsked' \/ ListIsAnswered'
        <4>1. PICK i \in DOMAIN requests : LastList(requests, i) /\ requests[i].path = current
          BY <3>2 DEF ListIsAsked
        <4>2. CASE i # 1
          <5>1. i - 1 \in DOMAIN requests' /\ requests'[i - 1] = requests[i]
            BY <1>4, <4>2
          <5>2. ASSUME NEW j \in Lists(requests') PROVE j <= i - 1
            <6>1. j + 1 \in Lists(requests) /\ j \in Nat
              BY <1>1, <5>2 DEF Lists
            <6> QED
              BY <1>1, <4>1, <6>1 DEF LastList
          <5> QED
            BY <4>1, <5>1, <5>2 DEF ListIsAsked, LastList, Lists
        <4>3. CASE i = 1
          <5>1. Lists(requests') = {}
            <6>1. ASSUME NEW j \in Lists(requests') PROVE FALSE
              <7>1. j + 1 \in Lists(requests) /\ j \in Nat \ {0}
                BY <1>1, <6>1 DEF Lists
              <7> QED
                BY <4>1, <4>3, <7>1 DEF LastList
            <6> QED
              BY <6>1
          <5>2. h.op = "list" /\ h.path = current
            BY <4>1, <4>3 DEF LastList, Lists, h
          <5>3. LastList(replies', m)
            BY <1>2, <2>1, <2>4, <5>2 DEF LastList, Lists
          <5>4. ok => Reply(h, ok).entries = Entries(current)
            BY <1>1, <5>2 DEF Reply
          <5>5. Entries(current)' = Entries(current)
            BY <2>6, ServerRests
          <5> QED
            BY <1>2, <2>1, <2>4, <5>1, <5>2, <5>3, <5>4, <5>5 DEF ListIsAnswered
        <4> QED
          BY <4>2, <4>3
      <3>3. ASSUME Lists(requests) = {} PROVE Lists(requests') = {} /\ Lists(replies') = Lists(replies) /\ h.op # "list"
        <4>1. 1 \in DOMAIN requests /\ h.op # "list"
          BY <1>1, <3>3 DEF Lists, h
        <4>2. ASSUME NEW j \in Lists(requests') PROVE FALSE
          <5>1. j + 1 \in Lists(requests)
            BY <1>1, <4>2 DEF Lists
          <5> QED
            BY <3>3, <5>1
        <4>3. Lists(replies') = Lists(replies)
          <5>1. ASSUME NEW j \in DOMAIN replies', j # m PROVE j \in DOMAIN replies
            BY <1>2, <5>1
          <5> QED
            BY <1>2, <2>1, <2>4, <4>1, <5>1 DEF Lists
        <4> QED
          BY <4>1, <4>2, <4>3
      <3>4. ListIsAnswered => ListIsAnswered'
        BY <2>4, <2>6, <3>3, ServerRests DEF ListIsAnswered, LastList, Lists
      <3>5. ListIsShown => ListIsShown'
        BY <2>6, <3>3, ServerRests DEF ListIsShown
      <3> QED
        BY <1>7, <3>1, <3>2, <3>4, <3>5 DEF Flowing
    <2>7. SomethingIsCreated' \/ ListIsAsked' \/ ListIsAnswered' \/ ListIsShown'
      BY <1>1, <1>7, <2>5, <2>6 DEF Flowing
    <2> QED
      BY <1>3, <1>7, <2>2, <2>3, <2>7 DEF Flowing, ShownInv
  <1> QED
    BY <1>5, <1>6, <1>7 DEF ShownInv

\* A reply that brings no list and asks for none.
LEMMA Dropping ==
  ASSUME ShownInv, Got, Head(replies).op # "list", ~Head(replies).opening,
         ~(Head(replies).op \in {"mkdir", "create"} /\ Head(replies).ok),
         UNCHANGED <<current, requests, channel, channels, misled, grid, input, dirs, files>>
  PROVE  ShownInv'
  <1> DEFINE n == Len(replies) - 1
  <1>1. /\ n \in Nat /\ DOMAIN replies = 1..(n + 1) /\ Head(replies) = replies[1]
        /\ IsSeq(replies') /\ DOMAIN replies' = 1..n
        /\ \A i \in 1..n : replies'[i] = replies[i + 1]
    <2>1. /\ Len(replies) \in Nat \ {0} /\ DOMAIN replies = 1..Len(replies) /\ Head(replies) = replies[1]
          /\ IsSeq(replies') /\ DOMAIN replies' = 1..(Len(replies) - 1)
          /\ \A i \in 1..(Len(replies) - 1) : replies'[i] = replies[i + 1]
      BY TailSeq DEF ShownInv, LineOK, Got
    <2> QED
      BY <2>1
  <1> HIDE DEF n
  <1>2. LineOK'
    BY <1>1 DEF ShownInv, LineOK
  <1>3. \A i \in DOMAIN replies \ {1} : i - 1 \in DOMAIN replies' /\ replies'[i - 1] = replies[i]
    <2>1. ASSUME NEW i \in DOMAIN replies \ {1} PROVE i - 1 \in 1..n /\ (i - 1) + 1 = i
      BY <1>1, <2>1
    <2> QED
      BY <1>1, <2>1
  <1>4. \A i \in DOMAIN replies' : i \in Nat /\ i + 1 \in DOMAIN replies /\ replies'[i] = replies[i + 1]
    BY <1>1
  <1>5. Excused => Excused'
    BY DEF Excused
  <1>6. ~Asking /\ ~Telling
    BY <1>1 DEF Asking, Telling, Got
  <1>7. CASE Flowing
    <2>1. SomethingIsCreated => SomethingIsCreated'
      BY <1>1, <1>3 DEF SomethingIsCreated
    <2>2. ListIsAsked => ListIsAsked'
      BY DEF ListIsAsked, LastList, Lists
    <2>3. ASSUME ListIsAnswered PROVE ListIsAnswered'
      <3>1. PICK i \in DOMAIN replies : /\ LastList(replies, i) /\ replies[i].path = current
                                        /\ replies[i].ok => replies[i].entries = Entries(current)
        BY <2>3 DEF ListIsAnswered
      <3>2. i # 1 /\ i - 1 \in DOMAIN replies' /\ replies'[i - 1] = replies[i] /\ i \in Nat
        BY <1>1, <1>3, <3>1 DEF LastList, Lists
      <3>3. ASSUME NEW j \in Lists(replies') PROVE j <= i - 1
        <4>1. j + 1 \in Lists(replies) /\ j \in Nat
          BY <1>4, <3>3 DEF Lists
        <4> QED
          BY <3>1, <3>2, <4>1 DEF LastList
      <3>4. LastList(replies', i - 1)
        BY <3>1, <3>2, <3>3 DEF LastList, Lists
      <3> QED
        BY <2>3, <3>1, <3>2, <3>4, ServerRests DEF ListIsAnswered
    <2>4. ASSUME ListIsShown PROVE ListIsShown'
      <3>1. Lists(replies') = {}
        <4>1. ASSUME NEW j \in Lists(replies') PROVE FALSE
          BY <1>4, <2>4, <4>1 DEF ListIsShown, Lists
        <4> QED
          BY <4>1
      <3> QED
        BY <2>4, <3>1, ServerRests DEF ListIsShown
    <2>5. \A i \in DOMAIN replies' : ~replies'[i].opening
      BY <1>4, <1>7 DEF Flowing
    <2>6. Flowing'
      BY <1>7, <2>1, <2>2, <2>3, <2>4, <2>5 DEF Flowing
    <2> QED
      BY <1>2, <2>6 DEF ShownInv
  <1> QED
    BY <1>2, <1>5, <1>6, <1>7 DEF ShownInv

\* A list arrives.
LEMMA Showing ==
  ASSUME ShownInv, Listed
  PROVE  ShownInv'
  <1> DEFINE n == Len(replies) - 1
             h == replies[1]
  <1>0. UNCHANGED <<current, requests, channel, channels, misled, input, dirs, files>>
    BY DEF Listed, server
  <1>1. /\ n \in Nat /\ DOMAIN replies = 1..(n + 1) /\ Head(replies) = h
        /\ IsSeq(replies') /\ DOMAIN replies' = 1..n
        /\ \A i \in 1..n : replies'[i] = replies[i + 1]
    <2>1. /\ Len(replies) \in Nat \ {0} /\ DOMAIN replies = 1..Len(replies) /\ Head(replies) = replies[1]
          /\ IsSeq(replies') /\ DOMAIN replies' = 1..(Len(replies) - 1)
          /\ \A i \in 1..(Len(replies) - 1) : replies'[i] = replies[i + 1]
      BY TailSeq DEF ShownInv, LineOK, Got, Listed, Replied
    <2> QED
      BY <2>1
  <1>2. h.op = "list" /\ h.ok /\ ~h.opening
        /\ grid' = [items |-> Sorted(h.entries), selected |-> {}, from |-> h.path]
    BY <1>1 DEF Listed, Replied
  <1> HIDE DEF n, h
  <1>3. LineOK'
    BY <1>0, <1>1, <1>2 DEF ShownInv, LineOK
  <1>4. \A i \in DOMAIN replies \ {1} : i - 1 \in DOMAIN replies' /\ replies'[i - 1] = replies[i]
    <2>1. ASSUME NEW i \in DOMAIN replies \ {1} PROVE i - 1 \in 1..n /\ (i - 1) + 1 = i
      BY <1>1, <2>1
    <2> QED
      BY <1>1, <2>1
  <1>5. \A i \in DOMAIN replies' : i \in Nat /\ i + 1 \in DOMAIN replies /\ replies'[i] = replies[i + 1] /\ i + 1 # 1
    BY <1>1
  <1>6. Excused => Excused'
    BY <1>0 DEF Excused
  <1>7. ~Asking /\ ~Telling
    BY <1>1, <1>2 DEF Asking, Telling, Listed, Replied, Got, h
  <1>8. CASE Flowing
    <2>1. ASSUME SomethingIsCreated PROVE SomethingIsCreated'
      <3>1. PICK i \in DOMAIN replies : replies[i].op \in {"mkdir", "create"} /\ replies[i].ok
        BY <2>1 DEF SomethingIsCreated
      <3>2. i # 1
        BY <1>2, <3>1 DEF h
      <3> QED
        BY <1>4, <3>1, <3>2 DEF SomethingIsCreated
    <2>2. ListIsAsked => ListIsAsked'
      BY <1>0 DEF ListIsAsked, LastList, Lists
    <2>3. ASSUME ListIsAnswered PROVE ListIsAnswered' \/ ListIsShown'
      <3>1. PICK i \in DOMAIN replies : /\ LastList(replies, i) /\ replies[i].path = current
                                        /\ replies[i].ok => replies[i].entries = Entries(current)
        BY <2>3 DEF ListIsAnswered
      <3>2. CASE i # 1
        <4>1. i - 1 \in DOMAIN replies' /\ replies'[i - 1] = replies[i] /\ i \in Nat
          BY <1>1, <1>4, <3>2
        <4>2. ASSUME NEW j \in Lists(replies') PROVE j <= i - 1
          <5>1. j + 1 \in Lists(replies) /\ j \in Nat
            BY <1>5, <4>2 DEF Lists
          <5> QED
            BY <3>1, <4>1, <5>1 DEF LastList
        <4>3. LastList(replies', i - 1)
          BY <3>1, <4>1, <4>2 DEF LastList, Lists
        <4> QED
          BY <1>0, <2>3, <3>1, <4>1, <4>3, ServerRests DEF ListIsAnswered
      <3>3. CASE i = 1
        <4>1. ASSUME NEW j \in Lists(replies') PROVE FALSE
          <5>1. j + 1 \in Lists(replies) /\ j \in Nat \ {0}
            BY <1>1, <1>5, <4>1 DEF Lists
          <5> QED
            BY <3>1, <3>3, <5>1 DEF LastList
        <4>2. h.entries = Entries(current) /\ h.path = current
          BY <1>2, <3>1, <3>3 DEF h
        <4>3. grid'.from = current /\ grid'.items = Sorted(Entries(current))
          BY <1>2, <4>2
        <4> QED
          BY <1>0, <2>3, <4>1, <4>3, ServerRests DEF ListIsAnswered, ListIsShown
      <3> QED
        BY <3>2, <3>3
    <2>4. ~ListIsShown
      BY <1>1, <1>2 DEF ListIsShown, Lists, h
    <2>5. \A i \in DOMAIN replies' : ~replies'[i].opening
      BY <1>5, <1>8 DEF Flowing
    <2>6. Flowing'
      BY <1>0, <1>8, <2>1, <2>2, <2>3, <2>4, <2>5 DEF Flowing
    <2> QED
      BY <1>3, <2>6 DEF ShownInv
  <1> QED
    BY <1>3, <1>6, <1>7, <1>8 DEF ShownInv

\* The backend opens a channel: the first one, or a second.
LEMMA Opening ==
  ASSUME ShownInv, OpenChannel
  PROVE  ShownInv'
  <1> DEFINE n == Len(requests) - 1
             h == requests[1]
  <1>0. UNCHANGED <<current, channel, grid, input, dirs, files>> /\ requests # <<>>
    BY DEF OpenChannel, page
  <1>1. /\ n \in Nat /\ Len(requests) = n + 1 /\ DOMAIN requests = 1..(n + 1) /\ Head(requests) = h
        /\ IsSeq(requests') /\ DOMAIN requests' = 1..n /\ (n = 0 <=> requests' = <<>>)
        /\ \A i \in 1..n : requests'[i] = requests[i + 1]
    <2>1. /\ Len(requests) \in Nat \ {0} /\ DOMAIN requests = 1..Len(requests) /\ Head(requests) = requests[1]
          /\ IsSeq(requests') /\ Len(requests') = Len(requests) - 1 /\ DOMAIN requests' = 1..(Len(requests) - 1)
          /\ \A i \in 1..(Len(requests) - 1) : requests'[i] = requests[i + 1]
      BY TailSeq DEF ShownInv, LineOK, OpenChannel, Answer
    <2>2. requests' = <<>> <=> Len(requests') = 0
      BY <2>1, SeqProperties
    <2> QED
      BY <2>1, <2>2
  <1>2. PICK ok \in BOOLEAN : /\ replies' = Append(replies, Reply(h, ok))
                              /\ ok => channels' = channels + 1 /\ (misled => misled')
                              /\ ~ok => channels' = channels /\ misled'
    <2>1. CASE Answer(TRUE) /\ channels' = channels + 1
      <3>1. replies' = Append(replies, Reply(h, TRUE)) /\ (misled => misled')
        BY <1>1, <2>1 DEF OpenChannel, Answer
      <3> HIDE DEF h
      <3> WITNESS TRUE \in BOOLEAN
      <3> QED
        BY <2>1, <3>1
    <2>2. CASE Answer(FALSE) /\ UNCHANGED channels
      <3>1. replies' = Append(replies, Reply(h, FALSE)) /\ misled'
        BY <1>1, <2>2 DEF OpenChannel, Answer
      <3> HIDE DEF h
      <3> WITNESS FALSE \in BOOLEAN
      <3> QED
        BY <2>2, <3>1
    <2> QED
      BY <2>1, <2>2 DEF OpenChannel
  <1>3. h.opening
    BY <1>1 DEF OpenChannel
  <1> HIDE DEF n, h
  <1>4. LineOK'
    <2>1. IsSeq(replies')
      BY <1>2, AppendSeq DEF ShownInv, LineOK
    <2> QED
      BY <1>0, <1>1, <1>2, <2>1 DEF ShownInv, LineOK
  <1>5. \A i \in DOMAIN requests \ {1} : i - 1 \in DOMAIN requests' /\ requests'[i - 1] = requests[i]
    <2>1. ASSUME NEW i \in DOMAIN requests \ {1} PROVE i - 1 \in 1..n /\ (i - 1) + 1 = i
      BY <1>1, <2>1
    <2> QED
      BY <1>1, <2>1
  <1>6. CASE ~ok
    BY <1>2, <1>4, <1>6 DEF ShownInv, Excused
  <1>7. CASE ok /\ Excused
    <2>1. CASE misled \/ channels >= 1
      BY <1>2, <1>4, <1>7, <2>1 DEF ShownInv, Excused, LineOK
    <2>2. ASSUME NEW i \in DOMAIN requests, requests[i].opening, NEW j \in DOMAIN requests, j # i, requests[j].opening
          PROVE  Excused'
      <3>1. PICK k \in DOMAIN requests \ {1} : requests[k].opening
        BY <2>2
      <3>2. k - 1 \in DOMAIN requests' /\ requests'[k - 1].opening
        BY <1>5, <3>1
      <3>3. channels' >= 1
        BY <1>2, <1>7 DEF ShownInv, LineOK
      <3> QED
        BY <3>2, <3>3 DEF Excused
    <2>3. channels >= 2 => channels >= 1
      BY DEF ShownInv, LineOK
    <2> QED
      BY <1>4, <1>7, <2>1, <2>2, <2>3 DEF ShownInv, Excused
  <1>8. CASE ok /\ Asking
    <2>1. replies = <<>> /\ DOMAIN requests = {1} /\ h = FirstList /\ channels' = 1
      BY <1>2, <1>8 DEF Asking, h
    <2>2. n = 0 /\ requests' = <<>>
      <3>1. n + 1 \in DOMAIN requests
        BY <1>1
      <3>2. n + 1 = 1
        BY <2>1, <3>1
      <3> QED
        BY <1>1, <3>2
    <2>3. DOMAIN replies' = {1} /\ replies'[1] = Reply(h, ok)
      BY <1>2, <2>1
    <2>4. Reply(h, ok).op = "list" /\ Reply(h, ok).path = <<>> /\ Reply(h, ok).opening /\ Reply(h, ok).ok
      BY <1>8, <2>1 DEF Reply, FirstList
    <2>5. Telling'
      BY <1>0, <1>8, <2>1, <2>2, <2>3, <2>4 DEF Asking, Telling
    <2> QED
      BY <1>4, <2>5 DEF ShownInv
  <1>9. ~Telling /\ ~Flowing
    BY <1>0, <1>1, <1>3 DEF Telling, Flowing, h
  <1> QED
    BY <1>6, <1>7, <1>8, <1>9 DEF ShownInv

\* The page hears of the channel, and asks for the list through it.
LEMMA Hearing ==
  ASSUME ShownInv, OnChannel
  PROVE  ShownInv'
  <1> DEFINE r == Head(replies)
             c == [op |-> r.op, path |-> r.path, opening |-> FALSE]
  <1>0. UNCHANGED <<current, grid, input, dirs, files, channels, misled>>
    BY DEF OnChannel
  <1>1. /\ Len(replies) \in Nat \ {0} /\ DOMAIN replies = 1..Len(replies) /\ r = replies[1]
        /\ IsSeq(replies') /\ DOMAIN replies' = 1..(Len(replies) - 1)
    BY TailSeq DEF ShownInv, LineOK, OnChannel, Got
  <1>2. r.opening /\ (r.ok => channel' = channels /\ requests' = Append(requests, c)) /\ (~r.ok => requests' = requests)
    BY DEF OnChannel
  <1> HIDE DEF r, c
  <1>3. /\ IsSeq(Append(requests, c)) /\ DOMAIN requests = 1..Len(requests) /\ Len(requests) \in Nat
        /\ DOMAIN Append(requests, c) = 1..(Len(requests) + 1) /\ Append(requests, c)[Len(requests) + 1] = c
        /\ \A i \in 1..Len(requests) : Append(requests, c)[i] = requests[i]
    BY AppendSeq, SeqProperties DEF ShownInv, LineOK
  <1>4. LineOK'
    BY <1>0, <1>1, <1>2, <1>3 DEF ShownInv, LineOK
  <1>5. \A i \in DOMAIN requests : i \in DOMAIN requests' /\ requests'[i] = requests[i]
    BY <1>2, <1>3
  <1>6. CASE Excused
    BY <1>0, <1>4, <1>5, <1>6 DEF Excused, ShownInv
  <1>7. CASE Telling
    <2>1. r.ok /\ r.op = "list" /\ r.path = <<>> /\ DOMAIN replies = {1}
      BY <1>1, <1>7 DEF Telling
    <2>2. Len(requests) = 0
      BY <1>7 DEF Telling
    <2>3. DOMAIN requests' = {1} /\ requests'[1] = c
      BY <1>2, <1>3, <2>1, <2>2
    <2>4. DOMAIN replies' = {}
      <3>1. Len(replies) \in DOMAIN replies
        BY <1>1
      <3>2. Len(replies) = 1
        BY <2>1, <3>1
      <3> QED
        BY <1>1, <3>2
    <2>5. c.op = "list" /\ c.path = current' /\ ~c.opening
      BY <1>0, <1>7, <2>1 DEF c, Telling
    <2>6. ListIsAsked'
      BY <2>3, <2>5 DEF ListIsAsked, LastList, Lists
    <2>7. Flowing'
      BY <1>0, <1>2, <1>7, <2>1, <2>3, <2>4, <2>5, <2>6 DEF Flowing, Telling
    <2> QED
      BY <1>4, <2>7 DEF ShownInv
  <1>8. ~Asking /\ ~Flowing
    BY <1>1, <1>2 DEF Asking, Flowing
  <1> QED
    BY <1>6, <1>7, <1>8 DEF ShownInv

\* What the user does without a call.
LEMMA Looking ==
  ASSUME ShownInv, UNCHANGED <<current, replies, channel, channels, misled, dirs, files, requests>>,
         grid' = grid \/ (\E places : grid' = [grid EXCEPT !.selected = places]),
         input' # None => input' \in {"rename", "mkdir", "create"}
  PROVE  ShownInv'
  <1>1. DOMAIN grid' = DOMAIN grid /\ grid'.items = grid.items /\ grid'.from = grid.from
    BY DEF ShownInv, LineOK
  <1>2. LineOK'
    BY <1>1 DEF ShownInv, LineOK
  <1>3. (Excused => Excused') /\ (Asking => Asking') /\ (Telling => Telling')
    BY DEF Excused, Asking, Telling
  <1>4. Flowing => Flowing'
    BY <1>1, ServerRests DEF Flowing, SomethingIsCreated, ListIsAsked, ListIsAnswered, ListIsShown, LastList, Lists
  <1> QED
    BY <1>2, <1>3, <1>4 DEF ShownInv

LEMMA BackendShows ==
  ASSUME ShownInv, Backend
  PROVE  ShownInv'
  <1>1. CASE OpenChannel
    BY <1>1, Opening
  <1> DEFINE Rests == UNCHANGED <<current, channel, channels, grid, input>>
             Handles == requests # <<>> /\ ~Head(requests).opening
  <1>2. CASE CallFails
    <2>1. Rests /\ Handles /\ Answer(FALSE) /\ UNCHANGED <<dirs, files, misled>>
      BY <1>2 DEF CallFails, page
    <2> QED
      BY <2>1, Answering
  <1>3. CASE ListDirectory
    <2> DEFINE ok == Head(requests).path \in dirs
    <2>1. Rests /\ Handles /\ Answer(ok) /\ UNCHANGED <<dirs, files, misled>>
      BY <1>3 DEF ListDirectory, Handling, page
    <2>2. ok => Head(requests).path \in dirs
      OBVIOUS
    <2> HIDE DEF ok
    <2> QED
      BY <2>1, <2>2, Answering
  <1>4. CASE AddDownload
    <2> DEFINE ok == Head(requests).path \in files \cup dirs
    <2>1. /\ Rests /\ Handles /\ Answer(ok) /\ UNCHANGED <<dirs, files, misled>>
          /\ Head(requests).op = "download"
      BY <1>4 DEF AddDownload, Handling, page
    <2> HIDE DEF ok
    <2> QED
      BY <2>1, Answering
  <1>5. CASE CreateDirectory \/ CreateFile
    <2>1. /\ Rests /\ Handles /\ Head(requests).op \in {"mkdir", "create"}
          /\ \E ok \in BOOLEAN : Performed(ok) /\ (ok = FALSE => UNCHANGED <<dirs, files>>)
      <3>1. CASE CreateDirectory
        <4> DEFINE p  == Head(requests).path
                   ok == Parent(p) \in dirs /\ p \notin dirs \cup files
        <4>1. Performed(ok) /\ (ok = FALSE => UNCHANGED <<dirs, files>>) /\ ok \in BOOLEAN
          BY <3>1 DEF CreateDirectory
        <4> HIDE DEF ok
        <4> QED
          BY <3>1, <4>1 DEF CreateDirectory, Handling, page
      <3>2. CASE CreateFile
        <4> DEFINE p  == Head(requests).path
                   ok == Parent(p) \in dirs /\ p \notin dirs
        <4>1. Performed(ok) /\ (ok = FALSE => UNCHANGED <<dirs, files>>) /\ ok \in BOOLEAN
          BY <3>2 DEF CreateFile
        <4> HIDE DEF ok
        <4> QED
          BY <3>2, <4>1 DEF CreateFile, Handling, page
      <3> QED
        BY <1>5, <3>1, <3>2
    <2>2. PICK ok \in BOOLEAN : Performed(ok) /\ (ok = FALSE => UNCHANGED <<dirs, files>>)
      BY <2>1
    <2>3. CASE Answer(ok) /\ UNCHANGED misled
      BY <2>1, <2>2, <2>3, Answering
    <2>4. CASE Answer(FALSE) /\ misled' = TRUE
      <3>1. IsSeq(requests') /\ IsSeq(replies')
        BY <2>1, <2>4, TailSeq, AppendSeq DEF ShownInv, LineOK, Answer
      <3> QED
        BY <2>1, <2>4, <3>1 DEF ShownInv, LineOK, Excused
    <2> QED
      BY <2>2, <2>3, <2>4 DEF Performed
  <1> QED
    BY <1>1, <1>2, <1>3, <1>4, <1>5 DEF Backend

LEMMA ReplyShows ==
  ASSUME ShownInv, Replies
  PROVE  ShownInv'
  <1>1. CASE OnChannel
    BY <1>1, Hearing
  <1>2. CASE Listed
    BY <1>2, Showing
  <1> DEFINE Rests == UNCHANGED <<channel, channels, misled, grid, input>>
             Takes == replies # <<>> /\ replies' = Tail(replies) /\ ~Head(replies).opening
  <1>3. Takes => ~Telling
    <2>1. replies # <<>> => Head(replies) = replies[1]
      BY TailSeq DEF ShownInv, LineOK
    <2> QED
      BY <2>1 DEF Telling
  <1>4. ASSUME Rests, Takes, Send("list", current') PROVE ShownInv'
    BY <1>3, <1>4, Navigating
  <1>5. ASSUME Rests, Takes, UNCHANGED <<current, requests, dirs, files>>, Head(replies).op # "list",
               ~(Head(replies).op \in {"mkdir", "create"} /\ Head(replies).ok)
        PROVE  ShownInv'
    BY <1>5, Dropping DEF Got
  <1>6. CASE UndoNavigation
    <2>1. Rests /\ Takes /\ Send("list", current')
      BY <1>6 DEF UndoNavigation, Replied, Got, Send, Request
    <2> QED
      BY <2>1, <1>4
  <1>7. CASE Created
    <2>1. Rests /\ Takes /\ UNCHANGED <<dirs, files>> /\ Head(replies).op \in {"mkdir", "create"}
      BY <1>7 DEF Created, Replied, Got
    <2>2. CASE Head(replies).ok
      <3>1. Send("list", current')
        BY <1>7, <2>2 DEF Created, NavigateTo, Send, Request
      <3> QED
        BY <2>1, <3>1, <1>4
    <2>3. CASE ~Head(replies).ok
      <3>1. UNCHANGED <<current, requests>>
        BY <1>7, <2>3 DEF Created
      <3> QED
        BY <2>1, <2>3, <3>1, <1>5
    <2> QED
      BY <2>2, <2>3
  <1>8. CASE DownloadAdded
    <2>1. Rests /\ Takes /\ UNCHANGED <<current, requests, dirs, files>> /\ Head(replies).op = "download"
      BY <1>8 DEF DownloadAdded, Replied, Got, server
    <2> QED
      BY <2>1, <1>5
  <1> QED
    BY <1>1, <1>2, <1>6, <1>7, <1>8 DEF Replies

LEMMA UserShows ==
  ASSUME ShownInv, MenuInv, User
  PROVE  ShownInv'
  <1> DEFINE Rests == UNCHANGED <<replies, channel, channels, misled, dirs, files>>
             Inputs == input' # None => input' \in {"rename", "mkdir", "create"}
  <1>1. ASSUME Rests, UNCHANGED <<grid, input>>, NEW p, NavigateTo(p) PROVE ShownInv'
    <2>1. Send("list", current')
      BY <1>1 DEF NavigateTo, Send, Request
    <2> QED
      BY <1>1, <2>1, Navigating
  <1>2. ASSUME Rests, UNCHANGED <<current, requests>>, Inputs,
               grid' = grid \/ \E places : grid' = [grid EXCEPT !.selected = places]
        PROVE  ShownInv'
    BY <1>2, Looking
  <1>3. input' = input => Inputs
    BY DEF ShownInv, LineOK
  <1>4. ASSUME NEW i \in DOMAIN grid.items, DoubleClick(i) PROVE ShownInv'
    <2>1. Rests /\ UNCHANGED <<grid, input>> /\ \E p : NavigateTo(p)
      BY <1>4 DEF DoubleClick
    <2> QED
      BY <2>1, <1>1
  <1>5. ASSUME NEW places, Select(places) PROVE ShownInv'
    BY <1>2, <1>3, <1>5 DEF Select, server
  <1>6. CASE EnterPath
    <2>1. Rests /\ UNCHANGED <<grid, input>> /\ \E p : NavigateTo(p)
      BY <1>6 DEF EnterPath
    <2> QED
      BY <2>1, <1>1
  <1>7. CASE ContextMenu
    BY <1>2, <1>3, <1>7 DEF ContextMenu, server
  <1>8. CASE MenuAsks
    BY <1>2, <1>3, <1>8 DEF MenuAsks, server
  <1>9. CASE MenuRename
    BY <1>2, <1>3, <1>9 DEF MenuRename, server
  <1>10. CASE NewItem
    BY <1>2, <1>10 DEF NewItem, server
  <1>11. CASE CloseConfirm
    <2> DEFINE s == [k \in DOMAIN confirm.items |-> Request("download", Append(current, confirm.items[k].name))]
    <2>1. Rests /\ UNCHANGED <<current, grid, input>> /\ (requests' = requests \/ requests' = requests \o s)
      BY <1>11 DEF CloseConfirm
    <2>2. CASE requests' = requests
      BY <1>2, <1>3, <2>1, <2>2
    <2>3. CASE requests' = requests \o s
      <3>1. IsSeq(confirm.items)
        BY <1>11 DEF CloseConfirm, MenuInv
      <3>2. IsSeq(s) /\ DOMAIN s = DOMAIN confirm.items
        <4>1. Len(confirm.items) \in Nat /\ DOMAIN confirm.items = 1..Len(confirm.items)
          BY <3>1, SeqProperties
        <4>2. s \in [1..Len(confirm.items) -> Range(s)]
          BY <4>1 DEF Range
        <4> QED
          BY <4>1, <4>2, SeqDef DEF IsSeq
      <3>3. \A k \in DOMAIN s : s[k].op = "download" /\ (s[k].opening <=> channel = None)
        BY DEF Request
      <3> HIDE DEF s
      <3> QED
        BY <1>3, <2>1, <2>3, <3>2, <3>3, Calling
    <2> QED
      BY <2>1, <2>2, <2>3
  <1>12. CASE CloseInput
    <2>1. Rests /\ UNCHANGED <<current, grid>> /\ input' = None
      BY <1>12 DEF CloseInput
    <2>2. CASE requests' = requests
      BY <1>2, <2>1, <2>2
    <2>3. CASE input # "rename" /\ \E n \in NewNames : Send(input, Append(current, n))
      <3>1. PICK n \in NewNames : requests' = Append(requests, Request(input, Append(current, n)))
        BY <2>3 DEF Send, Request
      <3> DEFINE c == Request(input, Append(current, n))
                 s == <<c>>
      <3>2. c.op = input /\ input \in {"mkdir", "create"} /\ (c.opening <=> channel = None)
        BY <1>12, <2>3 DEF Request, CloseInput, ShownInv, LineOK
      <3> HIDE DEF c
      <3>3. s \in Seq({c}) /\ DOMAIN s = {1} /\ s[1] = c
        OBVIOUS
      <3>4. IsSeq(s)
        BY <3>3, MadeSeq
      <3>5. requests' = requests \o s
        BY <3>1 DEF ShownInv, LineOK, IsSeq, c
      <3> HIDE DEF s
      <3> QED
        BY <2>1, <3>2, <3>3, <3>4, <3>5, Calling
    <2> QED
      BY <1>12, <2>2, <2>3 DEF CloseInput
  <1> QED
    BY <1>4, <1>5, <1>6, <1>7, <1>8, <1>9, <1>10, <1>11, <1>12 DEF User, Click, CtrlClick, ShiftClick, OnUneventfulClick

LEMMA ShownStep == ShownInv /\ MenuInv /\ [Next]_vars => ShownInv'
  <1> SUFFICES ASSUME ShownInv, MenuInv, [Next]_vars PROVE ShownInv'
    OBVIOUS
  <1>1. CASE UNCHANGED vars
    BY <1>1, Looking DEF vars, server, page, ShownInv, LineOK
  <1> QED
    BY <1>1, BackendShows, ReplyShows, UserShows DEF Next

(* Whatever navigations fail, cross or create something, and whatever the   *)
(* user selects, downloads and types in between: when nothing is under way  *)
(* the grid shows the current directory as the server has it, unless more   *)
(* than one channel was opened or a call was misreported.                   *)
THEOREM GridIsCurrent == Spec => []ShownListIsCurrent
  <1>1. Init => ShownInv /\ MenuInv
    <2> SUFFICES ASSUME Init PROVE ShownInv /\ MenuInv
      OBVIOUS
    <2>1. IsSeq(<<>>) /\ IsSeq(<<FirstList>>)
      <3>1. <<FirstList>> \in Seq({FirstList}) /\ <<>> \in Seq({})
        OBVIOUS
      <3> QED
        BY <3>1, MadeSeq
    <2>2. MenuInv
      BY <2>1 DEF Init, MenuInv, NoMenu, WithoutParent, ParentIsNeverDownloaded
    <2>3. requests = <<FirstList>>
      BY DEF Init, Request, FirstList
    <2>4. LineOK /\ Asking
      BY <2>1, <2>3 DEF Init, LineOK, Asking
    <2> QED
      BY <2>2, <2>4 DEF ShownInv
  <1>2. ShownInv => ShownListIsCurrent
    <2> SUFFICES ASSUME ShownInv, Settled, channels = 1, ~misled
                 PROVE  grid.from = current /\ grid.items = Sorted(Entries(current))
      BY DEF ShownListIsCurrent
    <2>1. ~Excused /\ ~Asking /\ ~Telling
      BY DEF Settled, Excused, Asking, Telling
    <2>2. ~SomethingIsCreated /\ ~ListIsAsked /\ ~ListIsAnswered
      BY DEF Settled, SomethingIsCreated, ListIsAsked, ListIsAnswered
    <2> QED
      BY <2>1, <2>2 DEF ShownInv, Flowing, ListIsShown
  <1> QED
    BY <1>1, <1>2, ShownStep, MenuStep, PTL DEF Spec
=============================================================================
