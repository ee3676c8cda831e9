--------------------------- MODULE OperationCards ---------------------------
(***************************************************************************)
(* The frontend's view of the transfer queue                               *)
(* (frontend/session_components/operation_queue.cpp): a card per           *)
(* operation, a pause button, and the calls the user's clicks send to the  *)
(* backend's OperationQueue.  Calls reach the strand in the order in which *)
(* they were made, reports and replies reach the page in the order in      *)
(* which they were sent, and both travel while the other side goes on.     *)
(***************************************************************************)
EXTENDS OperationQueue

CONSTANTS
    Clicks,     \* which things the user does
    MaxClicks   \* bound: clicks

ASSUME CardsAssumption ==
    /\ Clicks \subseteq {"add", "cancel", "pause", "pauseAgain", "remove", "load"}
    /\ MaxClicks \in Nat

VARIABLES
    cards,    \* operations: the cards, in the order of insertion
    shown,    \* impl_->paused: what the pause button shows
    loaded,   \* the persisted queue options have arrived
    calls,    \* calls on their way to the strand
    read,     \* how many of events the page has received
    clicks    \* clicks so far

pageVars == <<cards, shown, loaded, calls, read, clicks>>
cardsVars == <<queueVars, pageVars>>

Card == [id : Ids, state : {"NotStarted", "Completed", "Failed", "Canceled"}]
Call == [call : {"isPaused", "add", "cancel", "pause"}, of : Ids \union {0}, pause : BOOLEAN]

IsCompletedState(card) == card.state \in {"Completed", "Failed", "Canceled"}
CardIds == {cards[i].id : i \in DOMAIN cards}
Unfinished == {cards[i].id : i \in {j \in DOMAIN cards : ~IsCompletedState(cards[j])}}

\* activate() asks for the pause state.
CardsInit ==
    /\ QueueInit
    /\ cards = <<>> /\ shown = TRUE /\ loaded = FALSE
    /\ calls = <<[call |-> "isPaused", of |-> 0, pause |-> FALSE]>>
    /\ read = 0 /\ clicks = 0

-----------------------------------------------------------------------------
(* The user.                                                               *)

Click(what) ==
    /\ what \in Clicks /\ clicks < MaxClicks
    /\ clicks' = clicks + 1
    /\ UNCHANGED <<queueVars, shown, loaded, read>>

Send(call, id, pause) ==
    calls' = Append(calls, [call |-> call, of |-> id, pause |-> pause])

ClickAdd ==
    /\ Click("add")
    /\ Send("add", 0, FALSE)
    /\ UNCHANGED cards

\* Large downloads ask for confirmation first: the call is then made later.
ClickCancel(id) ==
    /\ Click("cancel")
    /\ id \in Unfinished
    /\ Send("cancel", id, FALSE)
    /\ UNCHANGED cards

\* The same button removes the card of an operation that is over.
ClickRemove(id) ==
    /\ Click("remove")
    /\ id \in CardIds \ Unfinished
    /\ \E n \in DOMAIN cards : cards[n].id = id /\ cards' = Without(cards, n)
    /\ UNCHANGED calls

PauseIsUnderWay ==
    \/ \E i \in DOMAIN calls : calls[i].call = "pause"
    \/ \E i \in (read + 1)..Len(events) : events[i].what = "Toggled"

\* The button asks for the opposite of what it shows.
ClickPause ==
    /\ Click("pause")
    /\ PauseIsUnderWay => "pauseAgain" \in Clicks
    /\ Send("pause", 0, ~shown)
    /\ UNCHANGED cards

\* The persisted options arrive: startInPausedState goes to the button.
LoadState ==
    /\ "load" \in Clicks /\ ~loaded
    /\ loaded' = TRUE
    /\ shown' \in BOOLEAN
    /\ UNCHANGED <<queueVars, cards, calls, read, clicks>>

\* The timer removes completed cards from the front.
AutoClean ==
    /\ cards # <<>> /\ IsCompletedState(Head(cards))
    /\ cards' = Tail(cards)
    /\ UNCHANGED <<queueVars, shown, loaded, calls, read, clicks>>

-----------------------------------------------------------------------------
(* The strand handles a call.                                              *)

Handled(call) ==
    /\ calls # <<>> /\ Head(calls).call = call
    /\ calls' = Tail(calls)
    /\ UNCHANGED <<parallelism, cards, shown, loaded, read, clicks>>

HandleAdd ==
    /\ Handled("add")
    /\ \/ \E n \in 0..MaxWork : AddFile(n)
       \/ \E s \in 1..MaxWork, b \in 0..MaxWork : AddDirectory(s, b)
       \/ UNCHANGED queueVars
HandleCancel == Handled("cancel") /\ Cancel(Head(calls).of)
HandlePause == Handled("pause") /\ PauseUnpause(Head(calls).pause)
HandleIsPaused == Handled("isPaused") /\ IsPaused

-----------------------------------------------------------------------------
(* The page receives the next report or reply.                             *)

Received(whats) ==
    /\ read < Len(events) /\ events[read + 1].what \in whats
    /\ read' = read + 1
    /\ UNCHANGED <<queueVars, loaded, calls, clicks>>

\* A second card for an id is refused by the map.
OnOperationAdded ==
    /\ Received({"Added"})
    /\ cards' = IF events[read + 1].of \in CardIds THEN cards
                ELSE Append(cards, [id |-> events[read + 1].of, state |-> "NotStarted"])
    /\ UNCHANGED shown

WithState(id, state) ==
    [i \in DOMAIN cards |->
        IF cards[i].id = id THEN [cards[i] EXCEPT !.state = state] ELSE cards[i]]

OnOperationCompleted ==
    /\ Received(Reports)
    /\ cards' = WithState(events[read + 1].of, events[read + 1].what)
    /\ UNCHANGED shown

\* The reply to a cancel: the card becomes canceled, whatever it was.
OnCancelReply ==
    /\ Received({"Canceled"})
    /\ cards' = WithState(events[read + 1].of, "Canceled")
    /\ UNCHANGED shown

\* Faulty: the reply of a pause call does nothing.
OnPauseReplyIgnored ==
    /\ Received({"Toggled"})
    /\ UNCHANGED <<cards, shown>>

\* The reply to a pause call toggles what the button shows.
OnPauseReply ==
    /\ Received({"Toggled"})
    /\ shown' = ~shown
    /\ UNCHANGED cards

OnIsPaused ==
    /\ Received({"Paused", "Unpaused"})
    /\ shown' = (events[read + 1].what = "Paused")
    /\ UNCHANGED cards

-----------------------------------------------------------------------------
User ==
    \/ ClickAdd \/ ClickPause \/ LoadState
    \/ \E id \in Ids : ClickCancel(id) \/ ClickRemove(id)
Strand ==
    \/ HandleAdd \/ HandleCancel \/ HandlePause \/ HandleIsPaused
    \/ Loop /\ UNCHANGED pageVars
Page == OnOperationAdded \/ OnOperationCompleted \/ OnCancelReply \/ OnPauseReply \/ OnIsPaused

CardsNext == User \/ AutoClean \/ Strand \/ Page
CardsSpec == CardsInit /\ [][CardsNext]_cardsVars

\* Posted calls and due rounds of the loop are run, and messages arrive.
CardsFairSpec ==
    /\ CardsSpec
    /\ WF_cardsVars(HandleAdd \/ HandleCancel \/ HandlePause \/ HandleIsPaused)
    /\ WF_cardsVars(Loop /\ UNCHANGED pageVars)
    /\ WF_cardsVars(Page)

-----------------------------------------------------------------------------
CardsTypeOK ==
    /\ QueueTypeOK
    /\ cards \in Seq(Card) /\ calls \in Seq(Call)
    /\ shown \in BOOLEAN /\ loaded \in BOOLEAN
    /\ read \in 0..Len(events) /\ clicks \in 0..MaxClicks

Quiet == calls = <<>> /\ read = Len(events)

(* When nothing is on its way, exactly the queued operations have a card   *)
(* that is not over: no card is left waiting for an operation that is      *)
(* gone, none is over while its operation still runs.                      *)
CardsAgreeWithQueue == Quiet => Unfinished = Queued

(* A card that says canceled belongs to an operation that was cancelled,   *)
(* not to one that completed before the cancel arrived.                    *)
CanceledCardWasCanceled ==
    \A i \in DOMAIN cards : cards[i].state = "Canceled" => cards[i].id \in cancelled

(* When nothing is on its way, the pause button shows the queue's state,   *)
(* as long as the persisted options, which the queue is never told of, have *)
(* not been written to the button.                                          *)
PauseButtonTellsTheTruth == Quiet /\ ~loaded => shown = paused

(* The same whatever the persisted options say.                             *)
PauseButtonAlwaysTellsTheTruth == Quiet => shown = paused

(* Every card comes to an end unless the user pauses the queue.            *)
EveryCardSettles ==
    \A id \in Ids : [](id \in Unfinished => <>(id \notin Unfinished \/ paused))
=============================================================================
