----------------------------- MODULE LoginProofs -----------------------------
(***************************************************************************)
(* Theorems about connecting.  There is one prompt under way at a time:    *)
(* as a call to the page, as the dialog that is open, or as its answer,    *)
(* and none when the strand has what it asked for.  So an answer that      *)
(* arrives, which does not say which prompt it is for, is for the last     *)
(* one, as long as a dialog is clicked once.                               *)
(***************************************************************************)
EXTENDS Login, SequenceTheorems, TLAPS

-----------------------------------------------------------------------------
(* Sequences of whatever. *)

IsList(s) == \E S : s \in Seq(S)

LEMMA ListAppended ==
  ASSUME NEW s, IsList(s), NEW e
  PROVE  /\ IsList(Append(s, e)) /\ Len(s) \in Nat /\ Len(Append(s, e)) = Len(s) + 1
         /\ DOMAIN s = 1..Len(s) /\ DOMAIN Append(s, e) = 1..(Len(s) + 1)
         /\ Append(s, e)[Len(s) + 1] = e
         /\ \A i \in 1..Len(s) : Append(s, e)[i] = s[i]
  <1>1. PICK S : s \in Seq(S)
    BY DEF IsList
  <1> DEFINE T == S \cup {e}
  <1>2. s \in Seq(T) /\ e \in T
    BY <1>1, SeqDef
  <1> HIDE DEF T
  <1>3. Append(s, e) \in Seq(T)
    BY <1>2, AppendProperties
  <1>4. /\ Len(Append(s, e)) = Len(s) + 1 /\ Append(s, e)[Len(s) + 1] = e
        /\ \A i \in 1..Len(s) : Append(s, e)[i] = s[i]
    BY <1>2, AppendProperties
  <1>5. Len(s) \in Nat /\ DOMAIN s = 1..Len(s) /\ DOMAIN Append(s, e) = 1..Len(Append(s, e))
    BY <1>2, <1>3, LenProperties
  <1> QED
    BY <1>3, <1>4, <1>5 DEF IsList

LEMMA ListTaken ==
  ASSUME NEW s, IsList(s), s # <<>>
  PROVE  IsList(Tail(s)) /\ Len(s) \in Nat /\ Len(Tail(s)) = Len(s) - 1
  <1>1. PICK S : s \in Seq(S)
    BY DEF IsList
  <1>2. Tail(s) \in Seq(S) /\ Len(Tail(s)) = Len(s) - 1 /\ Len(s) \in Nat
    BY <1>1, HeadTailProperties, LenProperties
  <1> QED
    BY <1>2 DEF IsList

LEMMA OneInList ==
  ASSUME NEW m
  PROVE  /\ <<m>> # <<>> /\ Head(<<m>>) = m /\ Tail(<<m>>) = <<>>
         /\ Append(<<>>, m) = <<m>>
  OBVIOUS

-----------------------------------------------------------------------------
(* The cache. *)

CacheInv == IsList(cache) /\ CacheHoldsAcceptedPasswords

\* Only an entry whose password was accepted is added to the cache.
LEMMA Remembered ==
  ASSUME CacheInv, NEW p, NEW size, Remember(p, size), took' = took \cup {<<attempt.target, p>>}
  PROVE  CacheInv'
  <1> DEFINE new == [target |-> attempt.target, password |-> p, size |-> size]
  <1>1. cache' = Append(cache, new)
    BY DEF Remember
  <1>2. <<new.target, new.password>> \in took'
    OBVIOUS
  <1> HIDE DEF new
  <1>3. /\ IsList(cache') /\ DOMAIN cache' = 1..(Len(cache) + 1) /\ cache'[Len(cache) + 1] = new
        /\ Len(cache) \in Nat /\ DOMAIN cache = 1..Len(cache) /\ \A i \in 1..Len(cache) : cache'[i] = cache[i]
    BY <1>1, ListAppended DEF CacheInv
  <1>4. \A i \in 1..Len(cache) : <<cache[i].target, cache[i].password>> \in took'
    BY <1>3 DEF CacheInv, CacheHoldsAcceptedPasswords
  <1>5. \A i \in 1..(Len(cache) + 1) : i \in 1..Len(cache) \/ i = Len(cache) + 1
    BY <1>3
  <1>6. \A i \in DOMAIN cache' : <<cache'[i].target, cache'[i].password>> \in took'
    BY <1>2, <1>3, <1>4, <1>5
  <1> QED
    BY <1>3, <1>6 DEF CacheInv, CacheHoldsAcceptedPasswords

LEMMA CacheKept ==
  ASSUME CacheInv, cache' = cache, took \subseteq took'
  PROVE  CacheInv'
  BY DEF CacheInv, CacheHoldsAcceptedPasswords

LEMMA CacheStep == CacheInv /\ [Next]_vars => CacheInv'
  <1> SUFFICES ASSUME CacheInv, [Next]_vars PROVE CacheInv'
    OBVIOUS
  <1>1. CASE TryKnownPasswords
    <2> DEFINE unsafe == attempt.engine.unsafe
    <2>1. \/ UNCHANGED cache /\ took \subseteq took'
          \/ Remember(unsafe, Len(unsafe)) /\ took' = took \cup {<<attempt.target, unsafe>>}
      BY <1>1 DEF TryKnownPasswords
    <2> HIDE DEF unsafe
    <2> QED
      BY <2>1, Remembered, CacheKept
  <1>2. CASE TryPrompted
    <2> DEFINE p == Copied(promise)
    <2>1. \/ UNCHANGED <<cache, took>>
          \/ Remember(p, attempt.size) /\ took' = took \cup {<<attempt.target, p>>}
      BY <1>2 DEF TryPrompted
    <2> HIDE DEF p
    <2> QED
      BY <2>1, Remembered, CacheKept
  <1>3. CASE [Next]_vars /\ ~TryKnownPasswords /\ ~TryPrompted
    <2>1. UNCHANGED <<cache, took>>
      BY <1>3 DEF Next, vars, strand, Strand, Window, Page, PasswordChanges, Connects, AuthPublicKeyAuto, ImportKey,
         GotPhrase, AuthKey, AddSession, FailToAuthenticate, PromptDone, ResetReady, Connect, OpenDialog,
         Type, Confirm, Cancel, Escape
    <2> QED
      BY <2>1, CacheKept
  <1> QED
    BY <1>1, <1>2, <1>3

(* pwCache_ holds only passwords a server took for that user, host and     *)
(* port, whichever of the three ways they came: the options, the prompt or *)
(* the cache itself.                                                       *)
THEOREM OnlyAcceptedPasswordsAreCached == Spec => []CacheHoldsAcceptedPasswords
  <1>1. Init => CacheInv
    <2>1. ASSUME Init PROVE cache = <<>> /\ IsList(<<>>)
      BY <2>1, EmptySeq DEF Init, IsList
    <2> QED
      BY <2>1 DEF CacheInv, CacheHoldsAcceptedPasswords
  <1>2. CacheInv => CacheHoldsAcceptedPasswords
    BY DEF CacheInv
  <1> QED
    BY <1>1, <1>2, CacheStep, PTL DEF Spec

-----------------------------------------------------------------------------
(* One prompt at a time. *)

Texts == Passwords \cup {<<>>}

Answer(text) == [prompt |-> asked, text |-> text]

\* No prompt is under way to the page, shown or answered.
Quiet == prompts = <<>> /\ dones = <<>> /\ dialog.state # "open"

PromptInv ==
    /\ \/ Quiet
       \/ prompts = <<asked>> /\ dones = <<>> /\ dialog.state # "open"
       \/ prompts = <<>> /\ dones = <<>> /\ dialog.state = "open" /\ dialog.prompt = asked
       \/ /\ prompts = <<>> /\ dialog.state # "open"
          /\ \E text \in Texts : dones = <<Answer(text)>>
    /\ promise # None \/ asked = 0 => Quiet
    /\ promise = None => asked = 0 \/ attempt.step \in {"phrase", "password"}

StepOK == "step" \in DOMAIN attempt /\ asked \in Nat
          /\ dialog \in [state : {"closed", "open", "closing", "escaped"}, prompt : Nat]
          /\ input \in Texts

AnswerInv == StepOK /\ PromptInv

\* Another step of the chain leaves the prompts alone.
LEMMA GoKeeps ==
  ASSUME AnswerInv, NEW step, Go(step), promise # None \/ asked = 0,
         UNCHANGED <<asked, promise, prompts, dialog, dones, input>>
  PROVE  AnswerInv'
  <1>1. "step" \in DOMAIN attempt'
    BY DEF Go, AnswerInv, StepOK
  <1> QED
    BY <1>1 DEF AnswerInv, StepOK, PromptInv, Quiet, Texts, Answer

\* Nothing was under way when the next prompt is asked.
LEMMA AskKeeps ==
  ASSUME AnswerInv, NEW step \in {"phrase", "password"}, NEW size, Ask(step, size),
         promise # None \/ asked = 0, UNCHANGED <<dialog, dones, input>>
  PROVE  AnswerInv'
  <1>1. /\ asked' = asked + 1 /\ promise' = None /\ prompts' = Append(prompts, asked')
        /\ attempt' = [attempt EXCEPT !.step = step, !.size = size]
    BY DEF Ask, GetPassword
  <1>2. prompts = <<>> /\ dones = <<>> /\ dialog.state # "open"
    BY DEF AnswerInv, PromptInv, Quiet
  <1>3. prompts' = <<asked'>>
    BY <1>1, <1>2
  <1>4. attempt'.step = step /\ "step" \in DOMAIN attempt' /\ asked' \in Nat
    BY <1>1 DEF AnswerInv, StepOK
  <1> QED
    BY <1>1, <1>2, <1>3, <1>4 DEF AnswerInv, StepOK, PromptInv, Quiet, Texts

\* The dialog is closed with what becomes the answer to its prompt.
LEMMA CloseDialogKeeps ==
  ASSUME AnswerInv, ~SecondClicks, NEW text \in Texts, CloseDialog(text), input' \in Texts,
         UNCHANGED <<attempt, asked, promise, prompts>>
  PROVE  AnswerInv'
  <1>1. /\ dialog.state = "open" /\ dones' = Append(dones, [prompt |-> dialog.prompt, text |-> text])
        /\ dialog' = [dialog EXCEPT !.state = "closing"]
    BY DEF CloseDialog
  <1>2. prompts = <<>> /\ dones = <<>> /\ dialog.prompt = asked /\ promise = None /\ asked # 0
    BY <1>1 DEF AnswerInv, PromptInv, Quiet
  <1>3. dones' = <<[prompt |-> asked, text |-> text]>>
    BY <1>1, <1>2
  <1>4. dialog'.state = "closing" /\ dialog' \in [state : {"closed", "open", "closing", "escaped"}, prompt : Nat]
    BY <1>1 DEF AnswerInv, StepOK
  <1>5. dones' = <<Answer(text)'>>
    BY <1>3 DEF Answer
  <1> QED
    BY <1>2, <1>4, <1>5 DEF AnswerInv, StepOK, PromptInv, Texts, Answer

LEMMA AnswerTaken ==
  ASSUME AnswerInv, dones # <<>>
  PROVE  /\ Head(dones).prompt = asked /\ Head(dones).text \in Texts /\ Tail(dones) = <<>>
         /\ prompts = <<>> /\ dialog.state # "open" /\ promise = None /\ asked # 0
  <1>1. /\ prompts = <<>> /\ dialog.state # "open" /\ promise = None /\ asked # 0
        /\ \E text \in Texts : dones = <<Answer(text)>>
    BY DEF AnswerInv, PromptInv, Quiet
  <1>2. PICK text \in Texts : dones = <<Answer(text)>>
    BY <1>1
  <1>3. Head(dones) = Answer(text) /\ Tail(dones) = <<>>
    BY <1>2
  <1> QED
    BY <1>1, <1>3 DEF Answer

LEMMA AnswerStep == ~SecondClicks /\ AnswerInv /\ [Next]_vars => AnswerInv'
  <1> SUFFICES ASSUME ~SecondClicks, AnswerInv, [Next]_vars PROVE AnswerInv'
    OBVIOUS
  <1> USE DEF At
  <1>0. /\ attempt.step \in {"idle", "auto", "key", "imported", "known", "success", "denied"}
              => promise # None \/ asked = 0
        /\ promise = None => asked = 0 \/ attempt.step \in {"phrase", "password"}
    BY DEF AnswerInv, PromptInv
  <1>1. CASE Connects
    <2>1. /\ attempt.step = "idle" /\ UNCHANGED <<asked, promise, prompts, dialog, dones, input>>
          /\ "step" \in DOMAIN attempt'
      BY <1>1 DEF Connects, page
    <2> QED
      BY <1>0, <2>1 DEF AnswerInv, StepOK, PromptInv, Quiet, Texts, Answer
  <1>2. CASE AuthPublicKeyAuto \/ AuthKey
    <2>1. /\ attempt.step \in {"auto", "imported"} /\ UNCHANGED <<asked, promise, prompts, dialog, dones, input>>
          /\ \E step \in {"success", "key", "known"} : Go(step)
      BY <1>2 DEF AuthPublicKeyAuto, AuthKey, page
    <2> QED
      BY <1>0, <2>1, GoKeeps
  <1>3. CASE ImportKey
    <2>1. /\ attempt.step = "key" /\ UNCHANGED <<dialog, dones, input>>
          /\ \/ /\ \E step \in {"known", "imported"} : Go(step)
                /\ UNCHANGED <<asked, promise, prompts>>
             \/ Ask("phrase", Full)
      BY <1>3 DEF ImportKey
    <2> QED
      BY <1>0, <2>1, GoKeeps, AskKeeps
  <1>4. CASE GotPhrase
    <2>1. /\ promise # None /\ UNCHANGED <<asked, promise, prompts, dialog, dones, input>>
          /\ \E step \in {"known", "imported"} : Go(step)
      BY <1>4 DEF GotPhrase, page
    <2> QED
      BY <2>1, GoKeeps
  <1>5. CASE TryKnownPasswords
    <2>1. /\ attempt.step = "known" /\ UNCHANGED <<dialog, dones, input>>
          /\ \/ Go("success") /\ UNCHANGED <<asked, promise, prompts>>
             \/ \E size : Ask("password", size)
      BY <1>5 DEF TryKnownPasswords
    <2> QED
      BY <1>0, <2>1, GoKeeps, AskKeeps
  <1>6. CASE TryPrompted
    <2>1. /\ promise # None /\ UNCHANGED <<asked, promise, prompts, dialog, dones, input>>
          /\ \E step \in {"success", "denied"} : Go(step)
      BY <1>6 DEF TryPrompted, page
    <2> QED
      BY <2>1, GoKeeps
  <1>7. CASE AddSession \/ FailToAuthenticate
    <2>1. /\ attempt.step \in {"success", "denied"} /\ UNCHANGED <<asked, promise, prompts, dialog, dones, input>>
          /\ "step" \in DOMAIN attempt'
      BY <1>7 DEF AddSession, FailToAuthenticate, page, Idle
    <2> QED
      BY <1>0, <2>1 DEF AnswerInv, StepOK, PromptInv, Quiet, Texts, Answer
  <1>8. CASE PromptDone
    <2>1. dones # <<>> /\ dones' = Tail(dones) /\ UNCHANGED <<attempt, asked, prompts, dialog, input>>
      BY <1>8 DEF PromptDone, strand
    <2>2. Quiet'
      BY <2>1, AnswerTaken DEF Quiet
    <2>3. promise = None => attempt.step \in {"phrase", "password"}
      BY <1>0, <2>1, AnswerTaken
    <2>4. promise = None /\ asked # 0
      BY <2>1, AnswerTaken
    <2> QED
      BY <2>1, <2>2, <2>3, <2>4 DEF AnswerInv, StepOK, PromptInv, Texts
  <1>9. CASE OpenDialog
    <2>1. /\ prompts # <<>> /\ prompts' = Tail(prompts)
          /\ dialog' = [state |-> "open", prompt |-> Head(prompts)] /\ input' = <<>>
          /\ UNCHANGED <<attempt, asked, promise, dones>>
      BY <1>9 DEF OpenDialog, Opened, strand
    <2>2. prompts = <<asked>> /\ dones = <<>> /\ promise = None /\ asked # 0
      BY <2>1 DEF AnswerInv, PromptInv, Quiet
    <2>3. prompts' = <<>> /\ dialog' = [state |-> "open", prompt |-> asked]
      BY <2>1, <2>2
    <2> QED
      BY <2>1, <2>2, <2>3 DEF AnswerInv, StepOK, PromptInv, Texts
  <1>10. CASE Confirm
    <2>1. CloseDialog(input) /\ input' = <<>> /\ UNCHANGED <<attempt, asked, promise, prompts>>
      BY <1>10 DEF Confirm, strand
    <2> QED
      BY <2>1, CloseDialogKeeps DEF AnswerInv, StepOK, Texts
  <1>11. CASE Cancel
    <2>1. CloseDialog(<<>>) /\ input' = input /\ UNCHANGED <<attempt, asked, promise, prompts>>
      BY <1>11 DEF Cancel, strand
    <2> QED
      BY <2>1, CloseDialogKeeps DEF AnswerInv, StepOK, Texts
  <1>12. CASE Escape
    <2>1. /\ dialog.state = "open" /\ dialog' = [dialog EXCEPT !.state = "escaped"]
          /\ UNCHANGED <<attempt, asked, promise, prompts, dones, input>>
      BY <1>12 DEF Escape, strand
    <2>2. dialog'.state = "escaped" /\ dialog' \in [state : {"closed", "open", "closing", "escaped"}, prompt : Nat]
      BY <2>1 DEF AnswerInv, StepOK
    <2> QED
      BY <1>0, <2>1, <2>2 DEF AnswerInv, StepOK, PromptInv, Quiet, Texts, Answer
  <1>13. CASE Type
    <2>1. input' \in Texts /\ UNCHANGED <<attempt, asked, promise, prompts, dialog, dones>>
      BY <1>13 DEF Type, strand, Texts
    <2> QED
      BY <2>1 DEF AnswerInv, StepOK, PromptInv, Quiet, Texts, Answer
  <1>14. CASE ResetReady \/ Connect \/ PasswordChanges \/ UNCHANGED vars
    <2>1. UNCHANGED <<attempt, asked, promise, prompts, dialog, dones, input>>
      BY <1>14 DEF ResetReady, Connect, PasswordChanges, vars, strand, page
    <2> QED
      BY <2>1 DEF AnswerInv, StepOK, PromptInv, Quiet, Texts, Answer
  <1> QED
    BY <1>1, <1>2, <1>3, <1>4, <1>5, <1>6, <1>7, <1>8, <1>9, <1>10, <1>11, <1>12, <1>13, <1>14
       DEF Next, Strand, Window, Page

LEMMA AnswerInitOK == Init => AnswerInv
  BY DEF Init, Idle, AnswerInv, StepOK, PromptInv, Quiet, Texts

(* As long as a dialog is clicked once, what was typed for one prompt is   *)
(* never the answer to another, however late the dialog, its answer and    *)
(* "ready_ = {}" come.                                                     *)
THEOREM AnswersGoToTheirPrompt ==
  ASSUME ~SecondClicks
  PROVE  Spec => NoPasswordGoesToAnotherPrompt
  <1>1. AnswerInv /\ [Next]_vars =>
          [PromptDone /\ promise' # promise /\ promise' # Cancelled => Head(dones).prompt = asked]_vars
    BY AnswerTaken DEF PromptDone
  <1>2. AnswerInv /\ [Next]_vars => AnswerInv'
    BY AnswerStep
  <1> QED
    BY <1>1, <1>2, AnswerInitOK, PTL DEF Spec, NoPasswordGoesToAnotherPrompt

(* Nor does a prompt that is cancelled cancel another one.                 *)
THEOREM CancelsStayWithTheirPrompt ==
  ASSUME ~SecondClicks
  PROVE  Spec => NoPromptIsCancelledByAnother
  <1>1. AnswerInv /\ [Next]_vars =>
          [PromptDone /\ promise' = Cancelled /\ promise # Cancelled => Head(dones).prompt = asked]_vars
    BY AnswerTaken DEF PromptDone
  <1>2. AnswerInv /\ [Next]_vars => AnswerInv'
    BY AnswerStep
  <1> QED
    BY <1>1, <1>2, AnswerInitOK, PTL DEF Spec, NoPromptIsCancelledByAnother

-----------------------------------------------------------------------------
(* Types, and how often the user is asked. *)

\* How many prompts the connect at work has asked at most.
AskedBy(step) ==
    CASE step \in {"idle", "auto", "key"} -> 0
      [] step \in {"phrase", "imported", "known"} -> 1
      [] OTHER -> 2

AtWork(step) == IF step = "idle" THEN 0 ELSE 1

\* A connect is called, waits for the strand, is at work, and is answered.
CountInv ==
    /\ "step" \in DOMAIN attempt /\ asked \in Nat /\ ready \in 0..asked
    /\ connects \in 0..MaxConnects /\ IsList(requests) /\ replies \in [all : Nat, ids : Nat]
    /\ replies.ids <= replies.all
    /\ replies.all + Len(requests) + AtWork(attempt.step) <= connects
    /\ asked <= 2 * replies.all + AskedBy(attempt.step)

LEMMA Counts ==
  ASSUME NEW step
  PROVE  AtWork(step) \in 0..1 /\ AskedBy(step) \in 0..2 * AtWork(step)
  BY DEF AtWork, AskedBy

\* A step of the chain that asks at most as often as the step allows.
LEMMA ChainCounts ==
  ASSUME CountInv, NEW step, "step" \in DOMAIN attempt', attempt'.step = step,
         AtWork(attempt.step) = AtWork(step), asked' \in Nat, ready' \in 0..asked',
         asked' - asked <= AskedBy(step) - AskedBy(attempt.step),
         UNCHANGED <<connects, requests, replies>>
  PROVE  CountInv'
  <1>1. AskedBy(step) \in 0..2 /\ AskedBy(attempt.step) \in 0..2
    BY Counts DEF AtWork
  <1> QED
    BY SMTT(30), <1>1 DEF CountInv

LEMMA GoCounts ==
  ASSUME CountInv, NEW step, Go(step), UNCHANGED <<connects, requests, replies, asked, ready>>,
         AtWork(attempt.step) = AtWork(step), AskedBy(attempt.step) <= AskedBy(step)
  PROVE  CountInv'
  <1>1. "step" \in DOMAIN attempt' /\ attempt'.step = step
    BY DEF Go, CountInv
  <1>2. AskedBy(step) \in 0..2 /\ AskedBy(attempt.step) \in 0..2
    BY Counts DEF AtWork
  <1>3. asked' - asked <= AskedBy(step) - AskedBy(attempt.step)
    BY <1>2 DEF CountInv
  <1>4. asked' \in Nat /\ ready' \in 0..asked'
    BY DEF CountInv
  <1> QED
    BY <1>1, <1>3, <1>4, ChainCounts

LEMMA AskCounts ==
  ASSUME CountInv, NEW step, NEW size, Ask(step, size), UNCHANGED <<connects, requests, replies>>,
         AtWork(attempt.step) = AtWork(step), AskedBy(attempt.step) + 1 <= AskedBy(step)
  PROVE  CountInv'
  <1>1. asked' = asked + 1 /\ ready' = asked' /\ attempt' = [attempt EXCEPT !.step = step, !.size = size]
    BY DEF Ask, GetPassword
  <1>2. "step" \in DOMAIN attempt' /\ attempt'.step = step
    BY <1>1 DEF CountInv
  <1>3. AskedBy(step) \in 0..2 /\ AskedBy(attempt.step) \in 0..2
    BY Counts DEF AtWork
  <1>4. asked \in Nat
    BY DEF CountInv
  <1>5. asked' \in Nat /\ ready' \in 0..asked' /\ asked' - asked <= AskedBy(step) - AskedBy(attempt.step)
    BY <1>1, <1>3, <1>4
  <1> QED
    BY <1>2, <1>5, ChainCounts

LEMMA CountStep == CountInv /\ [Next]_vars => CountInv'
  <1> SUFFICES ASSUME CountInv, [Next]_vars PROVE CountInv'
    OBVIOUS
  <1>1. CASE Connects
    <2>1. /\ attempt.step = "idle" /\ requests # <<>> /\ requests' = Tail(requests)
          /\ UNCHANGED <<connects, replies, asked, ready>>
          /\ "step" \in DOMAIN attempt' /\ attempt'.step = "auto"
      BY <1>1 DEF Connects, At
    <2>2. IsList(requests') /\ Len(requests) \in Nat /\ Len(requests') = Len(requests) - 1
      BY <2>1, ListTaken DEF CountInv
    <2>3. AtWork("idle") = 0 /\ AtWork("auto") = 1 /\ AskedBy("idle") = 0 /\ AskedBy("auto") = 0
      BY DEF AtWork, AskedBy
    <2> QED
      BY <2>1, <2>2, <2>3 DEF CountInv
  <1>2. CASE Connect
    <2>1. /\ connects < MaxConnects /\ connects' = connects + 1 /\ \E r : requests' = Append(requests, r)
          /\ UNCHANGED <<attempt, replies, asked, ready>>
      BY <1>2 DEF Connect, OnStrand
    <2>2. IsList(requests') /\ Len(requests) \in Nat /\ Len(requests') = Len(requests) + 1
      BY <2>1, ListAppended DEF CountInv
    <2>3. AtWork(attempt.step) \in 0..1
      BY Counts
    <2>4. connects' \in 0..MaxConnects
      BY <2>1, LoginAssumption DEF LoginAssumption, CountInv
    <2> QED
      BY <2>1, <2>2, <2>3, <2>4 DEF CountInv
  <1>3. CASE AuthPublicKeyAuto \/ AuthKey \/ GotPhrase \/ TryPrompted
    <2>1. /\ UNCHANGED <<connects, requests, replies, asked, ready>>
          /\ \/ attempt.step = "auto" /\ (Go("success") \/ Go("key"))
             \/ attempt.step = "imported" /\ (Go("success") \/ Go("known"))
             \/ attempt.step = "phrase" /\ (Go("imported") \/ Go("known"))
             \/ attempt.step = "password" /\ (Go("success") \/ Go("denied"))
      BY <1>3 DEF AuthPublicKeyAuto, AuthKey, GotPhrase, TryPrompted, At
    <2> QED
      BY <2>1, GoCounts DEF AtWork, AskedBy
  <1>4. CASE ImportKey
    <2>1. /\ UNCHANGED <<connects, requests, replies>> /\ attempt.step = "key"
          /\ \/ (Go("known") \/ Go("imported")) /\ UNCHANGED <<asked, ready>>
             \/ Ask("phrase", Full)
      BY <1>4 DEF ImportKey, At
    <2> QED
      BY <2>1, GoCounts, AskCounts DEF AtWork, AskedBy
  <1>5. CASE TryKnownPasswords
    <2>1. /\ UNCHANGED <<connects, requests, replies>> /\ attempt.step = "known"
          /\ \/ Go("success") /\ UNCHANGED <<asked, ready>>
             \/ \E size : Ask("password", size)
      BY <1>5 DEF TryKnownPasswords, At
    <2> QED
      BY <2>1, GoCounts, AskCounts DEF AtWork, AskedBy
  <1>6. CASE AddSession \/ FailToAuthenticate
    <2>1. /\ UNCHANGED <<connects, requests, asked, ready>> /\ attempt' = Idle
          /\ attempt.step \in {"success", "denied"}
          /\ replies' = [all |-> replies.all + 1, ids |-> replies.ids + 1] \/ replies' = [replies EXCEPT !.all = @ + 1]
      BY <1>6 DEF AddSession, FailToAuthenticate, Reply, At
    <2>2. "step" \in DOMAIN attempt' /\ attempt'.step = "idle"
      BY <2>1 DEF Idle
    <2>3. /\ replies' \in [all : Nat, ids : Nat] /\ replies'.all = replies.all + 1
          /\ replies'.ids <= replies'.all
      BY <2>1 DEF CountInv
    <2>4. AtWork("idle") = 0 /\ AskedBy("idle") = 0 /\ AtWork(attempt.step) = 1 /\ AskedBy(attempt.step) = 2
      BY <2>1 DEF AtWork, AskedBy
    <2>5. Len(requests) \in Nat
      BY ListAppended DEF CountInv
    <2> QED
      BY SMTT(30), <2>1, <2>2, <2>3, <2>4, <2>5 DEF CountInv
  <1>7. CASE ResetReady
    <2>1. ready' = 0 /\ UNCHANGED <<attempt, asked, connects, requests, replies>>
      BY <1>7 DEF ResetReady, strand
    <2> QED
      BY <2>1 DEF CountInv
  <1>8. CASE PromptDone \/ OpenDialog \/ Type \/ Confirm \/ Cancel \/ Escape \/ PasswordChanges \/ UNCHANGED vars
    <2>1. UNCHANGED <<attempt, asked, ready, connects, requests, replies>>
      BY <1>8 DEF PromptDone, OpenDialog, Type, Confirm, Cancel, Escape, PasswordChanges, vars, strand
    <2> QED
      BY <2>1 DEF CountInv
  <1> QED
    BY <1>1, <1>2, <1>3, <1>4, <1>5, <1>6, <1>7, <1>8 DEF Next, Strand, Window, Page

\* What the page types is what the strand may get.
TextInv ==
    /\ prompts \in Seq(Nat) /\ dones \in Seq([prompt : Nat, text : Texts])
    /\ dialog \in [state : {"closed", "open", "closing", "escaped"}, prompt : Nat]
    /\ input \in Texts /\ promise \in {None, Cancelled} \cup Passwords

LEMMA CloseDialogTyped ==
  ASSUME TextInv, NEW text \in Texts, CloseDialog(text)
  PROVE  /\ dones' \in Seq([prompt : Nat, text : Texts])
         /\ dialog' \in [state : {"closed", "open", "closing", "escaped"}, prompt : Nat]
  <1> DEFINE m == [prompt |-> dialog.prompt, text |-> text]
  <1>1. m \in [prompt : Nat, text : Texts]
    BY DEF TextInv
  <1>2. dones' = Append(dones, m)
    BY DEF CloseDialog
  <1> HIDE DEF m
  <1>3. dones' \in Seq([prompt : Nat, text : Texts])
    BY <1>1, <1>2, AppendProperties DEF TextInv
  <1> QED
    BY <1>3 DEF CloseDialog, TextInv

LEMMA TextStep == TextInv /\ CountInv /\ [Next]_vars => TextInv'
  <1> SUFFICES ASSUME TextInv, CountInv, [Next]_vars PROVE TextInv'
    OBVIOUS
  <1>1. CASE ImportKey \/ TryKnownPasswords
    <2>1. /\ UNCHANGED <<dialog, dones, input>>
          /\ UNCHANGED <<promise, prompts>> \/ \E step, size : Ask(step, size)
      BY <1>1 DEF ImportKey, TryKnownPasswords
    <2>2. ASSUME NEW step, NEW size, Ask(step, size)
          PROVE  prompts' \in Seq(Nat) /\ promise' = None
      <3>1. prompts' = Append(prompts, asked') /\ asked' \in Nat /\ promise' = None
        BY <2>2 DEF Ask, GetPassword, CountInv
      <3> QED
        BY <3>1, AppendProperties DEF TextInv
    <2> QED
      BY <2>1, <2>2 DEF TextInv
  <1>2. CASE PromptDone
    <2>1. dones # <<>> /\ dones' = Tail(dones) /\ UNCHANGED <<prompts, dialog, input>>
      BY <1>2 DEF PromptDone
    <2>2. dones' \in Seq([prompt : Nat, text : Texts]) /\ Head(dones) \in [prompt : Nat, text : Texts]
      BY <2>1, HeadTailProperties DEF TextInv
    <2>3. promise' \in {promise, Cancelled} \/ (Head(dones).text # <<>> /\ promise' = Head(dones).text)
      BY <1>2 DEF PromptDone
    <2> QED
      BY <2>1, <2>2, <2>3 DEF TextInv, Texts
  <1>3. CASE OpenDialog
    <2>1. /\ prompts # <<>> /\ prompts' = Tail(prompts) /\ UNCHANGED <<promise, dones>>
          /\ dialog' = [state |-> "open", prompt |-> Head(prompts)] /\ input' = <<>>
      BY <1>3 DEF OpenDialog, Opened
    <2>2. prompts' \in Seq(Nat) /\ Head(prompts) \in Nat
      BY <2>1, HeadTailProperties DEF TextInv
    <2> QED
      BY <2>1, <2>2 DEF TextInv, Texts
  <1>4. CASE Confirm \/ Cancel
    <2>1. /\ \E text \in Texts : CloseDialog(text)
          /\ input' \in Texts /\ UNCHANGED <<promise, prompts>>
      BY <1>4 DEF Confirm, Cancel, TextInv, Texts
    <2> QED
      BY <2>1, CloseDialogTyped DEF TextInv
  <1>5. CASE Escape
    <2>1. dialog' = [dialog EXCEPT !.state = "escaped"] /\ UNCHANGED <<promise, prompts, dones, input>>
      BY <1>5 DEF Escape
    <2> QED
      BY <2>1 DEF TextInv
  <1>6. CASE Type
    <2>1. input' \in Texts /\ UNCHANGED <<promise, prompts, dones, dialog>>
      BY <1>6 DEF Type, Texts
    <2> QED
      BY <2>1 DEF TextInv
  <1>7. CASE \/ Connects \/ AuthPublicKeyAuto \/ AuthKey \/ GotPhrase \/ TryPrompted \/ AddSession
             \/ FailToAuthenticate \/ ResetReady \/ Connect \/ PasswordChanges \/ UNCHANGED vars
    <2>1. UNCHANGED <<promise, prompts, dones, dialog, input>>
      BY <1>7 DEF Connects, AuthPublicKeyAuto, AuthKey, GotPhrase, TryPrompted, AddSession,
         FailToAuthenticate, ResetReady, Connect, PasswordChanges, vars, page
    <2> QED
      BY <2>1 DEF TextInv
  <1> QED
    BY <1>1, <1>2, <1>3, <1>4, <1>5, <1>6, <1>7 DEF Next, Strand, Window, Page

(* Types; among them: a connect asks the user twice at most, for the key's *)
(* phrase and for the password, and has one reply.                         *)
THEOREM LoginTypeCorrect == Spec => []TypeOK
  <1>1. Init => TextInv /\ CountInv
    <2> SUFFICES ASSUME Init PROVE TextInv /\ CountInv
      OBVIOUS
    <2>1. /\ requests = <<>> /\ connects = 0 /\ attempt = [step |-> "idle"] /\ asked = 0 /\ promise = None
          /\ replies = [all |-> 0, ids |-> 0] /\ ready = 0 /\ prompts = <<>> /\ input = <<>> /\ dones = <<>>
          /\ dialog = [state |-> "closed", prompt |-> 0]
      BY DEF Init, Idle
    <2>2. IsList(requests) /\ Len(requests) = 0
      BY <2>1, EmptySeq DEF IsList
    <2>3. AtWork(attempt.step) = 0 /\ AskedBy(attempt.step) = 0 /\ "step" \in DOMAIN attempt
      BY <2>1 DEF AtWork, AskedBy
    <2>4. connects \in 0..MaxConnects
      BY <2>1, LoginAssumption DEF LoginAssumption
    <2>5. CountInv
      BY <2>1, <2>2, <2>3, <2>4 DEF CountInv
    <2> QED
      BY <2>1, <2>5 DEF TextInv, Texts
  <1>2. TextInv /\ CountInv => TypeOK
    <2> SUFFICES ASSUME TextInv, CountInv PROVE TypeOK
      OBVIOUS
    <2>1. AtWork(attempt.step) \in 0..1 /\ AskedBy(attempt.step) \in 0..2 * AtWork(attempt.step)
      BY Counts
    <2>2. Len(requests) \in Nat
      BY ListAppended DEF CountInv
    <2>3. replies.all \in Nat /\ connects \in Nat /\ MaxConnects \in Nat /\ connects <= MaxConnects
      BY LoginAssumption DEF LoginAssumption, CountInv
    <2> DEFINE w == AtWork(attempt.step)
               a == AskedBy(attempt.step)
    <2>4. replies.all + Len(requests) + w <= connects /\ asked <= 2 * replies.all + a /\ asked \in Nat
      BY DEF CountInv
    <2> HIDE DEF w, a
    <2>5. asked \in 0..2 * MaxConnects /\ replies.all + Len(requests) <= connects
      BY <2>1, <2>2, <2>3, <2>4 DEF w, a
    <2> QED
      BY <2>5 DEF TypeOK, TextInv, Texts, CountInv
  <1> QED
    BY <1>1, <1>2, TextStep, CountStep, PTL DEF Spec
=============================================================================
