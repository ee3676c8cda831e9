-------------------------------- MODULE Login --------------------------------
(***************************************************************************)
(* Connecting: SessionManager::addSession() on the backend's one strand,    *)
(* makeSession() with its chain of authentications, the prompt for a key    *)
(* phrase or a password, PasswordPrompter in the backend and in the page,   *)
(* and the page's InputDialog.                                              *)
(*                                                                          *)
(* The strand blocks while a prompt is open.  The page and the thread of    *)
(* the window, where promptDone runs, go on: they share ready_ with the     *)
(* strand without a lock.  A prompt and its answer carry the prompt's       *)
(* number, which the code does not have; the properties use it.             *)
(***************************************************************************)
EXTENDS Integers, Sequences, FiniteSets

CONSTANTS
    Targets,      \* user, host and port
    Passwords,    \* passwords and key phrases: sequences of characters
    Engines,      \* connection options: key, unsafe (password or None), auto
    MaxConnects,  \* bound: connect requests of the page
    SecondClicks, \* the dialog can be clicked again before it has disappeared
    None, Cancelled

Full == 4         \* std::string buf(1024): longer than any password here

ASSUME LoginAssumption ==
    /\ MaxConnects \in Nat /\ SecondClicks \in BOOLEAN
    /\ \A p \in Passwords : Len(p) \in 1..(Full - 1)
    /\ Engines \subseteq [key : {"none", "plain", "encrypted"},
                          unsafe : Passwords \cup {None}, auto : BOOLEAN]

VARIABLES
    requests,   \* connect calls that wait for the strand
    connects,   \* how many there were
    attempt,    \* the strand's makeSession(): step, target, engine, connected, size of buf
    asked,      \* prompts asked so far: the number of the last one
    promise,    \* pwPromise of the last prompt: None, Cancelled or a password
    cache,      \* pwCache_: target, password, size of the stored string
    sessions,   \* sessions_: target and how it was authenticated
    replies,    \* replies to connect: how many, and how many with an id
    ready,      \* ready_: the prompt whose callback it holds, 0 for none
    ui,         \* the window's thread is between the call of ready_ and its reset
    prompts,    \* PasswordPrompter::prompt calls under way to the page
    dialog,     \* the page's InputDialog: state and the prompt it shows
    input,      \* what is in its input
    dones,      \* promptDone calls under way: prompt and text
    right,      \* the password the server accepts now
    took        \* history: passwords the server accepted

page   == <<prompts, dialog, input, dones>>
strand == <<requests, attempt, asked, cache, sessions, replies>>
vars   == <<strand, connects, promise, ready, ui, page, right, took>>

Idle == [step |-> "idle"]

Init ==
    /\ requests = <<>> /\ connects = 0 /\ attempt = Idle /\ asked = 0 /\ promise = None
    /\ cache = <<>> /\ sessions = {} /\ replies = [all |-> 0, ids |-> 0]
    /\ ready = 0 /\ ui = FALSE
    /\ prompts = <<>> /\ dialog = [state |-> "closed", prompt |-> 0] /\ input = <<>> /\ dones = <<>>
    /\ right \in [Targets -> Passwords] /\ took = {}

-----------------------------------------------------------------------------
(* The page and the server. *)

\* registerOnStrand(): a call of the page is a handler on the strand.
OnStrand(request) == requests' = Append(requests, request)

\* SessionManager::connect.
Connect ==
    /\ connects < MaxConnects /\ connects' = connects + 1
    /\ \E t \in Targets, e \in Engines : OnStrand([target |-> t, engine |-> e])
    /\ UNCHANGED <<attempt, asked, promise, cache, sessions, replies, ready, ui, page, right, took>>

PasswordChanges ==
    /\ \E t \in Targets, p \in Passwords : p # right[t] /\ right' = [right EXCEPT ![t] = p]
    /\ attempt = Idle /\ requests # <<>>
    /\ UNCHANGED <<strand, connects, promise, ready, ui, page, took>>

\* InputDialog::open().
Opened(n) == [state |-> "open", prompt |-> n]

\* PasswordPrompter::prompt, called by the backend.
OpenDialog ==
    /\ prompts # <<>> /\ prompts' = Tail(prompts)
    /\ dialog' = Opened(Head(prompts)) /\ input' = <<>>
    /\ UNCHANGED <<strand, connects, promise, ready, ui, dones, right, took>>

Type ==
    /\ dialog.state = "open" /\ input = <<>> /\ \E p \in Passwords : input' = p
    /\ UNCHANGED <<strand, connects, promise, ready, ui, prompts, dialog, dones, right, took>>

\* Faulty: the dialog stays open for another answer.
CloseDialogLater(text) ==
    /\ dialog.state = "open"
    /\ dones' = Append(dones, [prompt |-> dialog.prompt, text |-> text])
    /\ UNCHANGED dialog

\* closeDialog(): onConfirm stays set.
CloseDialog(text) ==
    /\ dialog.state = "open" \/ (SecondClicks /\ dialog.state = "closing")
    /\ dones' = Append(dones, [prompt |-> dialog.prompt, text |-> text])
    /\ dialog' = [dialog EXCEPT !.state = IF dialog.state = "open" THEN "closing" ELSE "closed"]

\* confirm(), by Enter or Ok.
Confirm ==
    /\ CloseDialog(input) /\ input' = <<>>
    /\ UNCHANGED <<strand, connects, promise, ready, ui, prompts, right, took>>

\* What was typed stays in the input.
Cancel ==
    /\ CloseDialog(<<>>)
    /\ UNCHANGED <<strand, connects, promise, ready, ui, prompts, input, right, took>>

\* Escape closes the dialog without closeDialog().
Escape ==
    /\ dialog.state = "open" /\ dialog' = [dialog EXCEPT !.state = "escaped"]
    /\ UNCHANGED <<strand, connects, promise, ready, ui, prompts, input, dones, right, took>>

-----------------------------------------------------------------------------
(* The window's thread: PasswordPrompter::promptDone. *)

\* ready_(result): the last provider's callback, or after it the end of the
\* providers, sets the promise; the strand may go on from here.
PromptDone ==
    /\ ~ui /\ dones # <<>> /\ dones' = Tail(dones)
    /\ ui' = (ready # 0)
    /\ promise' = CASE ready = 0 \/ ready # asked \/ promise # None -> promise
                    [] Head(dones).text = <<>> -> Cancelled
                    [] OTHER -> Head(dones).text
    /\ UNCHANGED <<strand, connects, ready, prompts, dialog, input, right, took>>

\* ready_ = {}: whatever it holds by now.
ResetReady ==
    /\ ui /\ ui' = FALSE /\ ready' = 0
    /\ UNCHANGED <<strand, connects, promise, page, right, took>>

-----------------------------------------------------------------------------
(* The strand: addSession() with makeSession(). *)

At(step) == attempt.step = step

\* PasswordPrompter::getPassword().
GetPassword(n) == ready' = n /\ prompts' = Append(prompts, n)

\* askPassDefault() with the one provider that is registered.
Ask(step, size) ==
    /\ asked' = asked + 1 /\ promise' = None /\ GetPassword(asked')
    /\ attempt' = [attempt EXCEPT !.step = step, !.size = size]

Go(step) == attempt' = [attempt EXCEPT !.step = step]

\* The options, connect() and the agent: whatever fails, the chain goes on.
Connects ==
    /\ At("idle") /\ requests # <<>>
    /\ requests' = Tail(requests)
    /\ \E connected \in BOOLEAN :
           attempt' = [step |-> "auto", target |-> Head(requests).target,
                       engine |-> Head(requests).engine, connected |-> connected, size |-> Full]
    /\ UNCHANGED <<connects, asked, promise, cache, sessions, replies, ready, ui, page, right, took>>

\* userauthPublickeyAuto().
AuthPublicKeyAuto ==
    /\ At("auto")
    /\ \/ attempt.engine.auto /\ attempt.connected /\ Go("success")
       \/ Go("key")
    /\ UNCHANGED <<requests, connects, asked, promise, cache, sessions, replies, ready, ui, page, right, took>>

\* ssh_pki_import_privkey_file(), which asks for the phrase of an encrypted key.
ImportKey ==
    /\ At("key")
    /\ CASE attempt.engine.key = "none" -> Go("known") /\ UNCHANGED <<asked, ready, promise, prompts>>
         [] attempt.engine.key = "plain" -> Go("imported") /\ UNCHANGED <<asked, ready, promise, prompts>>
         [] OTHER -> Ask("phrase", Full)
    /\ UNCHANGED <<requests, connects, cache, sessions, replies, ui, dialog, input, dones, right, took>>

GotPhrase ==
    /\ At("phrase") /\ promise # None
    /\ \/ Go("known")
       \/ promise # Cancelled /\ Go("imported")
    /\ UNCHANGED <<requests, connects, asked, promise, cache, sessions, replies, ready, ui, page, right, took>>

AuthKey ==
    /\ At("imported")
    /\ \/ Go("known")
       \/ attempt.connected /\ Go("success")
    /\ UNCHANGED <<requests, connects, asked, promise, cache, sessions, replies, ready, ui, page, right, took>>

Accepts(p) == attempt.connected /\ p = right[attempt.target]

Remember(p, size) == cache' = Append(cache, [target |-> attempt.target, password |-> p, size |-> size])

\* The first cache entry of the target, if there is one.
Cached == SelectSeq(cache, LAMBDA c : c.target = attempt.target)

\* The cached password, then the one of the options, then the prompt, for
\* which buf keeps the size of the last password it was given.
TryKnownPasswords ==
    /\ At("known")
    /\ LET unsafe == attempt.engine.unsafe
           size   == CASE unsafe # None -> Len(unsafe)
                       [] unsafe = None /\ Cached # <<>> -> Cached[1].size
                       [] OTHER -> Full
       IN  CASE Cached # <<>> /\ Accepts(Cached[1].password) ->
                    /\ Go("success") /\ took' = took \cup {<<attempt.target, Cached[1].password>>}
                    /\ UNCHANGED <<asked, ready, promise, prompts, cache>>
             [] unsafe # None /\ Accepts(unsafe) /\ ~(Cached # <<>> /\ Accepts(Cached[1].password)) ->
                    /\ Go("success") /\ took' = took \cup {<<attempt.target, unsafe>>}
                    /\ Remember(unsafe, Len(unsafe))
                    /\ UNCHANGED <<asked, ready, promise, prompts>>
             [] OTHER -> Ask("password", size) /\ UNCHANGED <<cache, took>>
    /\ UNCHANGED <<requests, connects, sessions, replies, ui, dialog, input, dones, right>>

\* strncpy(buf, pw, length - 1)
Copied(p) == IF Len(p) < attempt.size THEN p ELSE SubSeq(p, 1, attempt.size - 1)

\* Faulty: the password is cached before the server has seen it.
TryPromptedEarly ==
    /\ At("password") /\ promise # None
    /\ IF promise # Cancelled
       THEN Remember(Copied(promise), attempt.size)
            /\ Go(IF Accepts(Copied(promise)) THEN "success" ELSE "denied")
       ELSE Go("denied") /\ UNCHANGED cache
    /\ UNCHANGED <<requests, connects, asked, promise, sessions, replies, ready, ui, page, right, took>>

TryPrompted ==
    /\ At("password") /\ promise # None
    /\ IF promise # Cancelled /\ Accepts(Copied(promise))
       THEN /\ Remember(Copied(promise), attempt.size) /\ Go("success")
            /\ took' = took \cup {<<attempt.target, Copied(promise)>>}
       ELSE Go("denied") /\ UNCHANGED <<cache, took>>
    /\ UNCHANGED <<requests, connects, asked, promise, sessions, replies, ready, ui, page, right>>

\* RpcOnce sends the first reply and no other.
Reply(withId) ==
    replies' = IF withId THEN [all |-> replies.all + 1, ids |-> replies.ids + 1]
               ELSE [replies EXCEPT !.all = @ + 1]

\* The session is kept and started.
AddSession ==
    /\ At("success") /\ attempt' = Idle
    /\ sessions' = sessions \cup {[target |-> attempt.target, connected |-> attempt.connected]}
    /\ Reply(TRUE)
    /\ UNCHANGED <<requests, connects, asked, promise, cache, ready, ui, page, right, took>>

\* Faulty: a refused password is not answered.
FailSilently ==
    /\ At("denied") /\ attempt' = Idle
    /\ UNCHANGED <<requests, connects, asked, promise, cache, sessions, replies, ready, ui, page, right, took>>

\* "Failed to authenticate", whatever failed.
FailToAuthenticate ==
    /\ At("denied") /\ attempt' = Idle
    /\ Reply(FALSE)
    /\ UNCHANGED <<requests, connects, asked, promise, cache, sessions, ready, ui, page, right, took>>

Strand ==
    \/ Connects \/ AuthPublicKeyAuto \/ ImportKey \/ GotPhrase \/ AuthKey
    \/ TryKnownPasswords \/ TryPrompted
    \/ AddSession \/ FailToAuthenticate

Window == PromptDone \/ ResetReady

Page == Connect \/ OpenDialog \/ Type \/ Confirm \/ Cancel \/ Escape

Next == Strand \/ Window \/ Page \/ PasswordChanges

Spec == Init /\ [][Next]_vars

\* The threads go on, and the user answers a dialog that is open.
FairSpec ==
    /\ Spec /\ WF_vars(Strand) /\ WF_vars(Window) /\ WF_vars(OpenDialog)
    /\ WF_vars(dialog.state = "open" /\ (Confirm \/ Cancel \/ Escape))

-----------------------------------------------------------------------------
(* Properties *)

TypeOK ==
    /\ connects \in 0..MaxConnects /\ asked \in 0..2 * MaxConnects /\ ready \in 0..asked
    /\ promise \in {None, Cancelled} \cup Passwords
    /\ dialog.state \in {"closed", "open", "closing", "escaped"}
    /\ replies.ids <= replies.all /\ replies.all + Len(requests) <= connects
    /\ input \in Passwords \cup {<<>>}

\* pwCache_ holds passwords the server took for that user, host and port.
CacheHoldsAcceptedPasswords ==
    \A i \in DOMAIN cache : <<cache[i].target, cache[i].password>> \in took

\* What was typed for one prompt is never the answer to another, although
\* an answer does not say which prompt it is for.  (It may be when Ok is
\* clicked after Cancel: SecondClicks.)
NoPasswordGoesToAnotherPrompt ==
    [][PromptDone /\ promise' # promise /\ promise' # Cancelled => Head(dones).prompt = asked]_vars

\* The strand waits for a prompt whose callback is gone or whose dialog is.
PromptIsLost ==
    /\ promise = None /\ (At("phrase") \/ At("password"))
    /\ \/ ready # asked
       \/ dialog.state = "escaped" /\ prompts = <<>> /\ dones = <<>>

\* Every connect call is answered once, unless a prompt is lost.
ConnectsAreAnswered == (connects > replies.all) ~> (connects = replies.all \/ PromptIsLost)

\* While the strand waits for a prompt, ready_ holds that prompt's callback:
\* not so when getPassword() of the prompt comes between the call of the last
\* one's callback and "ready_ = {}".
CallbackIsKept ==
    (At("phrase") \/ At("password")) /\ promise = None => ready = asked

\* An answer that is not the password cancels no other prompt.
NoPromptIsCancelledByAnother ==
    [][PromptDone /\ promise' = Cancelled /\ promise # Cancelled => Head(dones).prompt = asked]_vars

\* The user's answer is tried as it was typed.
PromptedPasswordIsWhole ==
    At("password") /\ promise \notin {None, Cancelled} => Copied(promise) = promise

\* Nobody is asked while the cache holds the password the server takes.
AsksOnlyForUnknownPasswords ==
    At("password") /\ attempt.connected =>
        \A i \in DOMAIN cache :
            cache[i].target = attempt.target => cache[i].password # right[attempt.target]
=============================================================================
