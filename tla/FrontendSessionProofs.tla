------------------------- MODULE FrontendSessionProofs -------------------------
(***************************************************************************)
(* The safety properties of FrontendSession, for any channels, tabs and     *)
(* processes.                                                               *)
(*                                                                          *)
(* What protects the page from late replies is order: calls wait in one     *)
(* queue, replies come back in another, and both are one line of messages   *)
(* under way.  MayFollow says which message may stand behind which; the     *)
(* invariant is that the whole line obeys it.                               *)
(***************************************************************************)
EXTENDS FrontendSession, SequenceTheorems, WellFoundedInduction, TLAPS

Marks   == {"start", "started", "failed"}
Closers == {"disposer", "user", "engine", "dtor"}

Message ==
    [op : {"connect", "disconnect", "refused"}]
      \cup [op : {"connect"}, ok : BOOLEAN]
      \cup [op : {"create"}, sftp : BOOLEAN]
      \cup [op : {"created"}, sftp : BOOLEAN, id : Channels]
      \cup [op : Marks \cup {"remove", "output", "exit"}, id : Channels]
      \cup [op : {"close"}, id : Channels, by : Closers]

OfDisposer(m) == m.op = "close" /\ m.by = "disposer"
OfSftp(m)     == m.op \in {"create", "created"} /\ m.sftp

\* What may be under way when the engine is gone.
Late(m) ==
    \/ m.op \in {"output", "exit", "remove", "disconnect"}
    \/ m.op = "close" /\ m.by \in {"user", "dtor"}

\* Behind the disposer's close of a channel there is nothing that the engine
\* must answer, except that it starts to read another channel; a channel is
\* created, then started, then closed.
MayFollow(a, b) ==
    /\ b.op # "connect"
    /\ OfDisposer(a) => Late(b) \/ b.op \in Marks
    /\ a.op \in Marks \cup {"created", "close", "remove"} /\ b.op \in Marks => a.id # b.id
    /\ a.op = "created" /\ b.op \in {"created", "close", "remove"} => a.id # b.id
    /\ ~(OfSftp(a) /\ OfSftp(b))

Has(s) == {s[i] : i \in DOMAIN s}
Chain(s) == \A i, j \in DOMAIN s : i < j => MayFollow(s[i], s[j])

\* The letters of in are ahead of the requests of req.
Line(in, req) ==
    /\ in \in Seq(Message) /\ req \in Seq(Message)
    /\ Chain(in) /\ Chain(req)
    /\ \A a \in Has(in), b \in Has(req) : MayFollow(a, b)

-----------------------------------------------------------------------------
(* Lines: taking the head, appending, marking the head. *)

LEMMA TakenFromChain ==
  ASSUME NEW s \in Seq(Message), s # <<>>, Chain(s)
  PROVE  /\ Head(s) \in Message /\ Tail(s) \in Seq(Message) /\ Chain(Tail(s))
         /\ Has(s) = {Head(s)} \cup Has(Tail(s))
         /\ \A b \in Has(Tail(s)) : MayFollow(Head(s), b)
  <1> DEFINE t == Tail(s)
  <1>1. /\ Len(s) \in Nat /\ 1 <= Len(s) /\ DOMAIN s = 1..Len(s)
        /\ Head(s) = s[1] /\ s[1] \in Message
    BY EmptySeq, LenProperties, HeadTailProperties, ElementOfSeq
  <1>2. t \in Seq(Message) /\ Len(t) = Len(s) - 1 /\ \A i \in 1..Len(t) : t[i] = s[i + 1]
    BY HeadTailProperties
  <1>3. DOMAIN t = 1..(Len(s) - 1)
    BY <1>2, LenProperties
  <1> HIDE DEF t
  <1>4. \A i \in 1..Len(s) : i = 1 \/ (i - 1 \in 1..(Len(s) - 1) /\ s[i] = t[i - 1])
    BY <1>1, <1>2
  <1>5. \A i \in 1..(Len(s) - 1) : i + 1 \in 1..Len(s) /\ 1 < i + 1 /\ t[i] = s[i + 1]
    BY <1>1, <1>2
  <1>6. Chain(t)
    <2>1. ASSUME NEW i \in DOMAIN t, NEW j \in DOMAIN t, i < j PROVE MayFollow(t[i], t[j])
      <3>1. i + 1 \in DOMAIN s /\ j + 1 \in DOMAIN s /\ i + 1 < j + 1
        BY <1>1, <1>3, <1>5, <2>1
      <3> QED
        BY <1>3, <1>5, <3>1 DEF Chain
    <2> QED
      BY <2>1 DEF Chain
  <1>7. Has(s) = {s[1]} \cup Has(t)
    <2>1. Has(s) \subseteq {s[1]} \cup Has(t)
      BY <1>1, <1>3, <1>4 DEF Has
    <2>2. {s[1]} \cup Has(t) \subseteq Has(s)
      BY <1>1, <1>3, <1>5 DEF Has
    <2> QED
      BY <2>1, <2>2
  <1>8. \A b \in Has(t) : MayFollow(s[1], b)
    BY <1>1, <1>3, <1>5 DEF Chain, Has
  <1> QED
    BY <1>1, <1>2, <1>6, <1>7, <1>8 DEF t

LEMMA AppendedToChain ==
  ASSUME NEW s \in Seq(Message), NEW m \in Message, Chain(s), \A a \in Has(s) : MayFollow(a, m)
  PROVE  /\ Append(s, m) \in Seq(Message) /\ Chain(Append(s, m))
         /\ Has(Append(s, m)) = Has(s) \cup {m}
         /\ Append(s, m) # <<>>
  <1> DEFINE t == Append(s, m)
  <1>1. /\ t \in Seq(Message) /\ Len(t) = Len(s) + 1 /\ t[Len(s) + 1] = m
        /\ \A i \in 1..Len(s) : t[i] = s[i]
    BY AppendProperties
  <1>2. Len(s) \in Nat /\ DOMAIN s = 1..Len(s) /\ DOMAIN t = 1..(Len(s) + 1)
    BY <1>1, LenProperties
  <1> HIDE DEF t
  <1>3. DOMAIN t = DOMAIN s \cup {Len(s) + 1} /\ \A i \in DOMAIN s : i < Len(s) + 1
    BY <1>2
  <1>4. Has(t) = Has(s) \cup {m}
    BY <1>1, <1>2, <1>3 DEF Has
  <1>5. ASSUME NEW i \in DOMAIN t, NEW j \in DOMAIN t, i < j PROVE MayFollow(t[i], t[j])
    <2>1. i \in DOMAIN s
      BY <1>2, <1>5
    <2>2. CASE j \in DOMAIN s
      BY <1>1, <1>2, <1>5, <2>1, <2>2 DEF Chain
    <2>3. CASE j = Len(s) + 1
      BY <1>1, <1>2, <2>1, <2>3 DEF Has
    <2> QED
      BY <1>3, <2>2, <2>3
  <1>6. t # <<>>
    BY <1>1, <1>2, EmptySeq
  <1> QED
    BY <1>1, <1>4, <1>5, <1>6 DEF Chain, t

LEMMA Took ==
  ASSUME NEW in, NEW req, Line(in, req), req # <<>>
  PROVE  /\ Head(req) \in Message /\ Line(in, Tail(req))
         /\ Has(req) = {Head(req)} \cup Has(Tail(req))
         /\ \A a \in Has(in) : MayFollow(a, Head(req))
         /\ \A b \in Has(Tail(req)) : MayFollow(Head(req), b)
  BY TakenFromChain DEF Line

LEMMA Came ==
  ASSUME NEW in, NEW req, Line(in, req), in # <<>>
  PROVE  /\ Head(in) \in Message /\ Line(Tail(in), req)
         /\ Has(in) = {Head(in)} \cup Has(Tail(in))
         /\ \A b \in Has(Tail(in)) \cup Has(req) : MayFollow(Head(in), b)
  <1>1. /\ Head(in) \in Message /\ Tail(in) \in Seq(Message) /\ Chain(Tail(in))
        /\ Has(in) = {Head(in)} \cup Has(Tail(in))
        /\ \A b \in Has(Tail(in)) : MayFollow(Head(in), b)
    BY TakenFromChain DEF Line
  <1> QED
    BY <1>1 DEF Line

LEMMA Sent ==
  ASSUME NEW in, NEW req, Line(in, req), NEW m \in Message,
         \A a \in Has(in) \cup Has(req) : MayFollow(a, m)
  PROVE  Line(in, Append(req, m)) /\ Has(Append(req, m)) = Has(req) \cup {m}
  BY AppendedToChain DEF Line

LEMMA Told ==
  ASSUME NEW in, NEW req, Line(in, req), NEW m \in Message,
         \A a \in Has(in) : MayFollow(a, m), \A b \in Has(req) : MayFollow(m, b)
  PROVE  Line(Append(in, m), req) /\ Has(Append(in, m)) = Has(in) \cup {m}
  BY AppendedToChain DEF Line

LEMMA Marked ==
  ASSUME NEW in, NEW req, Line(in, req), req # <<>>, Head(req).op \in Marks, NEW mark \in Marks
  PROVE  LET s == [req EXCEPT ![1].op = mark]
             m == [op |-> mark, id |-> Head(req).id]
         IN  Line(in, s) /\ m \in Message /\ Has(s) = {m} \cup Has(Tail(req))
  <1> DEFINE s == [req EXCEPT ![1].op = mark]
             h == req[1]
             m == [op |-> mark, id |-> h.id]
  <1>1. /\ req \in Seq(Message) /\ Len(req) \in Nat /\ 1 <= Len(req) /\ DOMAIN req = 1..Len(req)
        /\ Head(req) = h /\ h \in Message
        /\ \A i \in 1..Len(req) : req[i] \in Message
    BY EmptySeq, LenProperties, HeadTailProperties, ElementOfSeq DEF Line
  <1>2. h \in [op : Marks \cup {"remove", "output", "exit"}, id : Channels] /\ h.op \in Marks
    BY <1>1 DEF Message, Marks
  <1>3. m \in Message /\ [h EXCEPT !.op = mark] = m
    BY <1>2 DEF Message, Marks
  <1>4. s = [i \in 1..Len(req) |-> IF i = 1 THEN m ELSE req[i]]
    BY <1>1, <1>3
  <1> HIDE DEF s, m, h
  <1>5. s \in Seq(Message) /\ Len(s) = Len(req) /\ DOMAIN s = 1..Len(req)
    <2>1. \A i \in 1..Len(req) : (IF i = 1 THEN m ELSE req[i]) \in Message
      BY <1>1, <1>3
    <2> QED
      BY <1>1, <1>4, <2>1
  <1>6. s[1] = m /\ \A i \in 1..Len(req) : i # 1 => s[i] = req[i]
    BY <1>1, <1>4
  <1>7. m.op \in Marks /\ m.id = h.id
    BY DEF m
  <1>8. \A x : (MayFollow(h, x) => MayFollow(m, x)) /\ (MayFollow(x, h) => MayFollow(x, m))
    BY <1>2, <1>7 DEF MayFollow, Marks, OfDisposer, OfSftp, Late
  <1>9. Chain(s)
    BY <1>1, <1>5, <1>6, <1>8 DEF Chain, Line, h
  <1>10. \A a \in Has(in), b \in Has(s) : MayFollow(a, b)
    BY <1>1, <1>5, <1>6, <1>8 DEF Has, Line, h
  <1>11. Has(s) = {m} \cup Has(Tail(req))
    <2>1. /\ Tail(req) \in Seq(Message) /\ DOMAIN Tail(req) = 1..(Len(req) - 1)
          /\ \A i \in 1..(Len(req) - 1) : Tail(req)[i] = req[i + 1]
      <3>1. Tail(req) \in Seq(Message) /\ Len(Tail(req)) = Len(req) - 1
            /\ \A i \in 1..Len(Tail(req)) : Tail(req)[i] = req[i + 1]
        BY <1>1, EmptySeq, HeadTailProperties
      <3> QED
        BY <3>1, LenProperties
    <2>2. \A i \in 1..(Len(req) - 1) : i + 1 \in 1..Len(req) /\ i + 1 # 1
      BY <1>1
    <2>3. \A i \in 1..Len(req) : i = 1 \/ (i - 1 \in 1..(Len(req) - 1) /\ s[i] = Tail(req)[i - 1])
      BY <1>1, <1>6, <2>1
    <2>4. ASSUME NEW i \in 1..Len(req) PROVE s[i] \in {m} \cup Has(Tail(req))
      <3>1. CASE i = 1
        BY <1>6, <3>1
      <3>2. CASE i - 1 \in DOMAIN Tail(req) /\ s[i] = Tail(req)[i - 1]
        BY <3>2 DEF Has
      <3> QED
        BY <2>1, <2>3, <3>1, <3>2
    <2>5. {m} \cup Has(Tail(req)) \subseteq Has(s)
      BY <1>1, <1>5, <1>6, <2>1, <2>2 DEF Has
    <2>6. Has(s) \subseteq {m} \cup Has(Tail(req))
      BY <1>5, <2>4 DEF Has
    <2> QED
      BY <2>5, <2>6
  <1> QED
    BY <1>1, <1>3, <1>5, <1>9, <1>10, <1>11 DEF Line, s, m, h

-----------------------------------------------------------------------------
(***************************************************************************)
(* The inductive invariant of the ssh engine.                              *)
(***************************************************************************)
Letters  == Has(inbox)
Waits    == Has(requests)
UnderWay == Letters \cup Waits

SshTypeOK ==
    /\ engine \in {"connecting", "open", "gone"} /\ blocked \in BOOLEAN /\ disposing \in BOOLEAN
    /\ channels \subseteq Channels /\ panels \subseteq Channels /\ opened \subseteq Channels
    /\ file \in Channels \cup {None, "wanted", "there"} /\ tab \in {"open", "closed"}
    /\ session \in {"none", "alive", "removed"}
    /\ held \subseteq Channels /\ reading \subseteq Channels /\ ids \subseteq Channels
    /\ inbox \in Seq(Message) /\ requests \in Seq(Message)

\* The engine connects, has one close of its disposer under way or none,
\* and leaves nothing behind that it would have to answer.
EngineInv ==
    /\ engine = "connecting" =>
          channels = {} /\ ids = {} /\ ~disposing /\ \A m \in UnderWay : m.op = "connect"
    /\ engine # "connecting" => \A m \in UnderWay : m.op # "connect"
    /\ engine = "gone" => \A m \in UnderWay : Late(m)
    /\ engine # "gone" => \A m \in UnderWay : m.op # "disconnect"
    /\ engine = "open" => (disposing <=> \E m \in UnderWay : OfDisposer(m))
    /\ disposing <=> blocked

\* Every id that is used was given out.
IdInv ==
    /\ channels \subseteq ids /\ reading \subseteq ids /\ held \subseteq ids
    /\ file \in Channels => file \in ids
    /\ \A m \in UnderWay :
          m.op \in Marks \cup {"created", "close", "remove", "output", "exit"} => m.id \in ids

\* A channel that is to be read is there, so no start fails and the engine
\* closes none for that.
StartInv ==
    /\ \A m \in UnderWay : m.op \in Marks => m.id \in channels /\ engine = "open" /\ m.op # "failed"
    /\ \A m \in Waits : m.op = "start" => m.id \in held
    /\ \A m \in UnderWay : m.op = "close" => m.by # "engine"
    /\ \A m \in Letters : m.op \notin {"start", "remove", "disconnect"}
    /\ \A m \in Letters : m.op = "close" => m.by # "dtor"

\* A channel that was created is unknown to the page until the reply comes.
CreateInv ==
    /\ \A m \in Letters : m.op = "created" =>
          m.id \notin channels /\ m.id \notin reading /\ (m.sftp <=> m.id \notin held)
    /\ \A m \in Waits : m.op # "created"
    /\ \A m \in UnderWay : OfSftp(m) => file = "there"

\* Channels the page and the backend do not both know are being told of.
HeldInv ==
    /\ engine = "open" => \A c \in held : c \in channels \/ \E m \in Letters : m.op = "created" /\ m.id = c
    /\ file \notin held
    /\ \A m \in Letters : m.op = "close" => m.id \notin held
    /\ \A m \in Waits : m.op = "close" /\ m.by = "dtor" => m.id \notin channels
    /\ engine = "open" /\ ~disposing =>
          /\ \A c \in channels : c \notin held /\ c # file =>
                \E m \in Letters : m.op \in {"close", "exit"} /\ m.id = c
          /\ \A r \in Waits : r.op = "remove" /\ r.id \in channels =>
                \E m \in Letters : m.op = "exit" /\ m.id = r.id

SshInv ==
    /\ SshTypeOK /\ Line(inbox, requests)
    /\ EngineInv /\ IdInv /\ StartInv /\ CreateInv /\ HeldInv

LEMMA HandleCreateKeeps ==
  ASSUME SshInv, HandleCreate
  PROVE  SshInv'
  <1> DEFINE h == Head(requests)
             W == Has(Tail(requests))
  <1>1. /\ requests # <<>> /\ h.op = "create" /\ requests' = Tail(requests)
        /\ UNCHANGED <<engine, blocked, disposing, channels, panels, file, tab, session, reading, opened>>
    BY DEF HandleCreate, Handling, tabVars
  <1>2. /\ h \in Message /\ Line(inbox, requests') /\ Waits = {h} \cup W /\ Waits' = W
        /\ \A a \in Letters : MayFollow(a, h)
        /\ \A b \in W : MayFollow(h, b)
    BY <1>1, Took DEF SshInv, Letters, Waits
  <1>3. ASSUME NEW c \in Channels \ ids,
               held' = IF h.sftp THEN held ELSE held \cup {c}, ids' = ids \cup {c},
               Reply([op |-> "created", sftp |-> h.sftp, id |-> c])
        PROVE  SshInv'
    <2> DEFINE m == [op |-> "created", sftp |-> h.sftp, id |-> c]
    <2>1. m \in Message /\ m.op = "created" /\ m.id = c /\ m.sftp = h.sftp /\ h.sftp \in BOOLEAN
      BY <1>1, <1>2 DEF Message, Marks
    <2> HIDE DEF m, h, W
    <2>2. /\ \A a \in Letters : MayFollow(a, m)
          /\ \A b \in W : MayFollow(m, b)
      BY <1>1, <1>2, <1>3, <2>1 DEF SshInv, IdInv, UnderWay, MayFollow, OfSftp, OfDisposer, Late, Marks
    <2>3. Line(inbox', requests') /\ Letters' = Letters \cup {m}
      BY <1>1, <1>2, <1>3, <2>1, <2>2, Told DEF Reply, Letters, W, m
    <2>4. SshTypeOK'
      BY <1>1, <1>3, <2>3 DEF SshInv, SshTypeOK, Line
    <2>5. EngineInv'
      BY <1>1, <1>2, <1>3, <2>1, <2>3 DEF SshInv, EngineInv, UnderWay, OfDisposer, Late
    <2>6. IdInv'
      BY <1>1, <1>2, <1>3, <2>1, <2>3 DEF SshInv, IdInv, UnderWay
    <2>7. StartInv'
      BY <1>1, <1>2, <1>3, <2>1, <2>3 DEF SshInv, StartInv, UnderWay, Marks
    <2>8. CreateInv'
      BY <1>1, <1>2, <1>3, <2>1, <2>3 DEF SshInv, CreateInv, IdInv, UnderWay, OfSftp
    <2>9. HeldInv'
      BY <1>1, <1>2, <1>3, <2>1, <2>3 DEF SshInv, HeldInv, IdInv, SshTypeOK, UnderWay
    <2> QED
      BY <2>3, <2>4, <2>5, <2>6, <2>7, <2>8, <2>9 DEF SshInv
  <1>4. ASSUME Reply([op |-> "refused"]), UNCHANGED <<held, ids>>
        PROVE  SshInv'
    <2> DEFINE m == [op |-> "refused"]
    <2>1. m \in Message /\ m.op = "refused"
      BY DEF Message
    <2> HIDE DEF m, h, W
    <2>2. /\ \A a \in Letters : MayFollow(a, m)
          /\ \A b \in W : MayFollow(m, b)
      BY <1>1, <1>2, <2>1 DEF MayFollow, OfSftp, OfDisposer, Late, Marks
    <2>3. Line(inbox', requests') /\ Letters' = Letters \cup {m}
      BY <1>1, <1>2, <1>4, <2>1, <2>2, Told DEF Reply, Letters, W, m
    <2>4. SshTypeOK'
      BY <1>1, <1>4, <2>3 DEF SshInv, SshTypeOK, Line
    <2>5. EngineInv'
      BY <1>1, <1>2, <1>4, <2>1, <2>3 DEF SshInv, EngineInv, UnderWay, OfDisposer, Late
    <2>6. IdInv'
      BY <1>1, <1>2, <1>4, <2>1, <2>3 DEF SshInv, IdInv, UnderWay, Marks
    <2>7. StartInv'
      BY <1>1, <1>2, <1>4, <2>1, <2>3 DEF SshInv, StartInv, UnderWay, Marks
    <2>8. CreateInv'
      BY <1>1, <1>2, <1>4, <2>1, <2>3 DEF SshInv, CreateInv, UnderWay, OfSftp
    <2>9. HeldInv'
      BY <1>1, <1>2, <1>4, <2>1, <2>3 DEF SshInv, HeldInv
    <2> QED
      BY <2>3, <2>4, <2>5, <2>6, <2>7, <2>8, <2>9 DEF SshInv
  <1> QED
    BY <1>1, <1>3, <1>4 DEF HandleCreate

LEMMA HandleConnectKeeps ==
  ASSUME SshInv, HandleConnect
  PROVE  SshInv'
  <1> DEFINE h == Head(requests)
             W == Has(Tail(requests))
  <1>1. /\ requests # <<>> /\ h.op = "connect" /\ requests' = Tail(requests)
        /\ session' \in {session, "alive"}
        /\ UNCHANGED <<engine, blocked, disposing, channels, panels, file, tab, held, reading, ids, opened>>
    BY DEF HandleConnect, Handling, tabVars
  <1>2. /\ h \in Message /\ Line(inbox, Tail(requests)) /\ Waits = {h} \cup W
        /\ \A a \in Letters : MayFollow(a, h)
        /\ \A b \in W : MayFollow(h, b)
    BY <1>1, Took DEF SshInv, Letters, Waits
  <1>3. PICK ok \in BOOLEAN : Reply([op |-> "connect", ok |-> ok])
    BY DEF HandleConnect
  <1> DEFINE m == [op |-> "connect", ok |-> ok]
  <1>4. m \in Message /\ m.op = "connect"
    BY DEF Message
  <1> HIDE DEF m, h, W
  <1>5. Letters = {} /\ \A b \in W : MayFollow(m, b)
    BY <1>1, <1>2, <1>4 DEF MayFollow, OfSftp, OfDisposer, Late, Marks
  <1>6. Line(inbox', requests') /\ Letters' = Letters \cup {m} /\ Waits' = W
    BY <1>1, <1>2, <1>3, <1>4, <1>5, Told DEF Reply, Letters, Waits, W, m
  <1>7. SshTypeOK'
    BY <1>1, <1>2, <1>4, <1>5, <1>6 DEF SshInv, SshTypeOK, Line
  <1>8. EngineInv'
    BY <1>1, <1>2, <1>4, <1>5, <1>6 DEF SshInv, EngineInv, UnderWay, OfDisposer, Late
  <1>9. IdInv'
    BY <1>1, <1>2, <1>4, <1>5, <1>6 DEF SshInv, IdInv, UnderWay, Marks
  <1>10. StartInv'
    BY <1>1, <1>2, <1>4, <1>5, <1>6 DEF SshInv, StartInv, UnderWay, Marks
  <1>11. CreateInv'
    BY <1>1, <1>2, <1>4, <1>5, <1>6 DEF SshInv, CreateInv, IdInv, UnderWay, OfSftp
  <1>12. HeldInv'
    BY <1>1, <1>2, <1>4, <1>5, <1>6 DEF SshInv, HeldInv, IdInv, SshTypeOK, UnderWay
  <1> QED
    BY <1>6, <1>7, <1>8, <1>9, <1>10, <1>11, <1>12 DEF SshInv

LEMMA HandleStartReadingKeeps ==
  ASSUME SshInv, HandleStartReading
  PROVE  SshInv'
  <1> DEFINE h == Head(requests)
             W == Has(Tail(requests))
  <1>1. /\ requests # <<>> /\ h.op = "start"
        /\ reading' = IF h.id \in held THEN reading \cup {h.id} ELSE reading
        /\ requests' = [requests EXCEPT ![1].op = IF h.id \in held THEN "started" ELSE "failed"]
        /\ UNCHANGED <<engine, blocked, disposing, channels, panels, file, tab, inbox, session, held, ids, opened>>
    BY DEF HandleStartReading, tabVars
  <1>2. /\ h \in Message /\ Line(inbox, Tail(requests)) /\ Waits = {h} \cup W
        /\ \A a \in Letters : MayFollow(a, h)
        /\ \A b \in W : MayFollow(h, b)
    BY <1>1, Took DEF SshInv, Letters, Waits
  <1> DEFINE m == [op |-> "started", id |-> h.id]
  <1> HIDE DEF h, W
  <1>3. h.id \in held
    BY <1>1, <1>2 DEF SshInv, StartInv
  <1>4. Line(inbox, requests') /\ m \in Message /\ Has(requests') = {m} \cup W
    BY <1>1, <1>3, Marked DEF SshInv, Marks, h, W
  <1>5. m.op = "started" /\ m.id = h.id
    OBVIOUS
  <1> HIDE DEF m
  <1>6. Line(inbox', requests') /\ Letters' = Letters /\ Waits' = {m} \cup W /\ reading' = reading \cup {h.id}
    BY <1>1, <1>3, <1>4 DEF Letters, Waits
  <1>7. \A a \in Letters : a.op = "created" => a.id # h.id
    BY <1>1, <1>2 DEF MayFollow, Marks
  <1>8. SshTypeOK'
    BY <1>1, <1>2, <1>3, <1>5, <1>6, <1>7 DEF SshInv, SshTypeOK, Line
  <1>9. EngineInv'
    BY <1>1, <1>2, <1>3, <1>5, <1>6, <1>7 DEF SshInv, EngineInv, UnderWay, OfDisposer, Late
  <1>10. IdInv'
    BY <1>1, <1>2, <1>3, <1>5, <1>6, <1>7 DEF SshInv, IdInv, UnderWay, Marks
  <1>11. StartInv'
    BY <1>1, <1>2, <1>3, <1>5, <1>6, <1>7 DEF SshInv, StartInv, UnderWay, Marks
  <1>12. CreateInv'
    BY <1>1, <1>2, <1>3, <1>5, <1>6, <1>7 DEF SshInv, CreateInv, IdInv, UnderWay, OfSftp
  <1>13. HeldInv'
    BY <1>1, <1>2, <1>3, <1>5, <1>6, <1>7 DEF SshInv, HeldInv, IdInv, SshTypeOK, UnderWay
  <1> QED
    BY <1>6, <1>8, <1>9, <1>10, <1>11, <1>12, <1>13 DEF SshInv

LEMMA ReplyToStartKeeps ==
  ASSUME SshInv, ReplyToStart
  PROVE  SshInv'
  <1> DEFINE h == Head(requests)
             W == Has(Tail(requests))
  <1>1. /\ requests # <<>> /\ h.op \in {"started", "failed"} /\ requests' = Tail(requests)
        /\ inbox' = Append(inbox, h)
        /\ UNCHANGED <<engine, blocked, disposing, channels, panels, file, tab, session, held, reading, ids, opened>>
    BY DEF ReplyToStart, Reply, tabVars, ssh
  <1>2. /\ h \in Message /\ Line(inbox, Tail(requests)) /\ Waits = {h} \cup W
        /\ \A a \in Letters : MayFollow(a, h)
        /\ \A b \in W : MayFollow(h, b)
    BY <1>1, Took DEF SshInv, Letters, Waits
  <1> HIDE DEF h, W
  <1>3. Line(inbox', requests') /\ Letters' = Letters \cup {h} /\ Waits' = W
    BY <1>1, <1>2, Told DEF Letters, Waits, W
  <1>4. SshTypeOK'
    BY <1>1, <1>2, <1>3 DEF SshInv, SshTypeOK, Line
  <1>5. EngineInv'
    BY <1>1, <1>2, <1>3 DEF SshInv, EngineInv, UnderWay, OfDisposer, Late
  <1>6. IdInv'
    BY <1>1, <1>2, <1>3 DEF SshInv, IdInv, UnderWay, Marks
  <1>7. StartInv'
    BY <1>1, <1>2, <1>3 DEF SshInv, StartInv, UnderWay, Marks
  <1>8. CreateInv'
    BY <1>1, <1>2, <1>3 DEF SshInv, CreateInv, IdInv, UnderWay, OfSftp
  <1>9. HeldInv'
    BY <1>1, <1>2, <1>3 DEF SshInv, HeldInv, IdInv, SshTypeOK, UnderWay
  <1> QED
    BY <1>3, <1>4, <1>5, <1>6, <1>7, <1>8, <1>9 DEF SshInv

LEMMA HandleCloseKeeps ==
  ASSUME SshInv, HandleClose
  PROVE  SshInv'
  <1> DEFINE h == Head(requests)
             W == Has(Tail(requests))
  <1>1. /\ requests # <<>> /\ h.op = "close" /\ requests' = Tail(requests)
        /\ held' = held \ {h.id} /\ reading' = reading \ {h.id}
        /\ IF h.by = "dtor" THEN inbox' = inbox ELSE inbox' = Append(inbox, h)
        /\ UNCHANGED <<engine, blocked, disposing, channels, panels, file, tab, session, ids, opened>>
    BY DEF HandleClose, Handling, RemoveChannel, Reply, tabVars
  <1>2. /\ h \in Message /\ Line(inbox, Tail(requests)) /\ Waits = {h} \cup W
        /\ \A a \in Letters : MayFollow(a, h)
        /\ \A b \in W : MayFollow(h, b)
    BY <1>1, Took DEF SshInv, Letters, Waits
  <1> HIDE DEF h, W
  <1>3. \A b \in W : b.op \in Marks => b.id # h.id
    BY <1>1, <1>2 DEF MayFollow
  <1>4. \A a \in Letters : a.op = "created" => a.id # h.id
    BY <1>1, <1>2 DEF MayFollow
  <1>5. CASE h.by = "dtor"
    <2>1. Line(inbox', requests') /\ Letters' = Letters /\ Waits' = W
      BY <1>1, <1>2, <1>5 DEF Letters, Waits, W
    <2>2. SshTypeOK'
      BY <1>1, <1>2, <1>3, <1>4, <1>5, <2>1 DEF SshInv, SshTypeOK, Line
    <2>3. EngineInv'
      BY <1>1, <1>2, <1>3, <1>4, <1>5, <2>1 DEF SshInv, EngineInv, UnderWay, OfDisposer, Late
    <2>4. IdInv'
      BY <1>1, <1>2, <1>3, <1>4, <1>5, <2>1 DEF SshInv, IdInv, UnderWay, Marks
    <2>5. StartInv'
      BY <1>1, <1>2, <1>3, <1>4, <1>5, <2>1 DEF SshInv, StartInv, UnderWay, Marks
    <2>6. CreateInv'
      BY <1>1, <1>2, <1>3, <1>4, <1>5, <2>1 DEF SshInv, CreateInv, IdInv, UnderWay, OfSftp
    <2>7. HeldInv'
      BY <1>1, <1>2, <1>3, <1>4, <1>5, <2>1 DEF SshInv, HeldInv, IdInv, SshTypeOK, UnderWay
    <2> QED
      BY <2>1, <2>2, <2>3, <2>4, <2>5, <2>6, <2>7 DEF SshInv
  <1>6. CASE h.by # "dtor"
    <2>1. Line(inbox', requests') /\ Letters' = Letters \cup {h} /\ Waits' = W
      <3>1. inbox' = Append(inbox, h) /\ requests' = Tail(requests)
        BY <1>1, <1>6
      <3> QED
        BY <1>2, <3>1, Told DEF Letters, Waits, W
    <2>2. SshTypeOK'
      BY <1>1, <1>2, <1>3, <1>4, <1>6, <2>1 DEF SshInv, SshTypeOK, Line
    <2>3. EngineInv'
      BY <1>1, <1>2, <1>3, <1>4, <1>6, <2>1 DEF SshInv, EngineInv, UnderWay, OfDisposer, Late
    <2>4. IdInv'
      BY <1>1, <1>2, <1>3, <1>4, <1>6, <2>1 DEF SshInv, IdInv, UnderWay, Marks
    <2>5. StartInv'
      BY <1>1, <1>2, <1>3, <1>4, <1>6, <2>1 DEF SshInv, StartInv, UnderWay, Marks
    <2>6. CreateInv'
      BY <1>1, <1>2, <1>3, <1>4, <1>6, <2>1 DEF SshInv, CreateInv, IdInv, UnderWay, OfSftp
    <2>7. HeldInv'
      BY <1>1, <1>2, <1>3, <1>4, <1>6, <2>1 DEF SshInv, HeldInv, IdInv, SshTypeOK, UnderWay
    <2> QED
      BY <2>1, <2>2, <2>3, <2>4, <2>5, <2>6, <2>7 DEF SshInv
  <1> QED
    BY <1>5, <1>6

LEMMA HandleRemoveKeeps ==
  ASSUME SshInv, HandleRemove
  PROVE  SshInv'
  <1> DEFINE h == Head(requests)
             W == Has(Tail(requests))
  <1>1. /\ requests # <<>> /\ h.op = "remove" /\ requests' = Tail(requests)
        /\ held' = held \ {h.id} /\ reading' = reading \ {h.id}
        /\ UNCHANGED <<engine, blocked, disposing, channels, panels, file, tab, inbox, session, ids, opened>>
    BY DEF HandleRemove, Handling, RemoveChannel, tabVars
  <1>2. /\ h \in Message /\ Line(inbox, Tail(requests)) /\ Waits = {h} \cup W
        /\ \A a \in Letters : MayFollow(a, h)
        /\ \A b \in W : MayFollow(h, b)
    BY <1>1, Took DEF SshInv, Letters, Waits
  <1> HIDE DEF h, W
  <1>3. \A b \in W : b.op \in Marks => b.id # h.id
    BY <1>1, <1>2 DEF MayFollow
  <1>4. \A a \in Letters : a.op = "created" => a.id # h.id
    BY <1>1, <1>2 DEF MayFollow
  <1>5. Line(inbox', requests') /\ Letters' = Letters /\ Waits' = W
    BY <1>1, <1>2 DEF Letters, Waits, W
  <1>6. SshTypeOK'
    BY <1>1, <1>2, <1>3, <1>4, <1>5 DEF SshInv, SshTypeOK, Line
  <1>7. EngineInv'
    BY <1>1, <1>2, <1>3, <1>4, <1>5 DEF SshInv, EngineInv, UnderWay, OfDisposer, Late
  <1>8. IdInv'
    BY <1>1, <1>2, <1>3, <1>4, <1>5 DEF SshInv, IdInv, UnderWay, Marks
  <1>9. StartInv'
    BY <1>1, <1>2, <1>3, <1>4, <1>5 DEF SshInv, StartInv, UnderWay, Marks
  <1>10. CreateInv'
    BY <1>1, <1>2, <1>3, <1>4, <1>5 DEF SshInv, CreateInv, IdInv, UnderWay, OfSftp
  <1>11. HeldInv'
    BY <1>1, <1>2, <1>3, <1>4, <1>5 DEF SshInv, HeldInv, IdInv, SshTypeOK, UnderWay
  <1> QED
    BY <1>5, <1>6, <1>7, <1>8, <1>9, <1>10, <1>11 DEF SshInv

LEMMA HandleDisconnectKeeps ==
  ASSUME SshInv, HandleDisconnect
  PROVE  SshInv'
  <1> DEFINE h == Head(requests)
             W == Has(Tail(requests))
  <1>1. /\ requests # <<>> /\ h.op = "disconnect" /\ requests' = Tail(requests)
        /\ held' = {} /\ reading' = {} /\ session' \in {session, "removed"}
        /\ UNCHANGED <<engine, blocked, disposing, channels, panels, file, tab, inbox, ids, opened>>
    BY DEF HandleDisconnect, Handling, tabVars
  <1>2. /\ h \in Message /\ Line(inbox, Tail(requests)) /\ Waits = {h} \cup W
        /\ \A a \in Letters : MayFollow(a, h)
        /\ \A b \in W : MayFollow(h, b)
    BY <1>1, Took DEF SshInv, Letters, Waits
  <1> HIDE DEF h, W
  <1>3. engine = "gone"
    BY <1>1, <1>2 DEF SshInv, EngineInv, UnderWay
  <1>4. Line(inbox', requests') /\ Letters' = Letters /\ Waits' = W
    BY <1>1, <1>2 DEF Letters, Waits, W
  <1>5. \A b \in UnderWay : b.op \notin Marks /\ b.op # "created"
    BY <1>3 DEF SshInv, EngineInv, Late, Marks
  <1>6. SshTypeOK'
    BY <1>1, <1>2, <1>3, <1>4, <1>5 DEF SshInv, SshTypeOK, Line
  <1>7. EngineInv'
    BY <1>1, <1>2, <1>3, <1>4, <1>5 DEF SshInv, EngineInv, UnderWay, OfDisposer, Late
  <1>8. IdInv'
    BY <1>1, <1>2, <1>3, <1>4, <1>5 DEF SshInv, IdInv, UnderWay, Marks
  <1>9. StartInv'
    BY <1>1, <1>2, <1>3, <1>4, <1>5 DEF SshInv, StartInv, UnderWay, Marks
  <1>10. CreateInv'
    BY <1>1, <1>2, <1>3, <1>4, <1>5 DEF SshInv, CreateInv, IdInv, UnderWay, OfSftp
  <1>11. HeldInv'
    BY <1>1, <1>2, <1>3, <1>4, <1>5 DEF SshInv, HeldInv, IdInv, SshTypeOK, UnderWay
  <1> QED
    BY <1>4, <1>6, <1>7, <1>8, <1>9, <1>10, <1>11 DEF SshInv

LEMMA OutputKeeps ==
  ASSUME SshInv, Output
  PROVE  SshInv'
  <1>1. PICK c \in reading \ opened : inbox' = Append(inbox, [op |-> "output", id |-> c])
    BY DEF Output
  <1> DEFINE m == [op |-> "output", id |-> c]
  <1>2. UNCHANGED <<engine, blocked, disposing, channels, panels, file, tab, requests, session, held, reading, ids, opened>>
    BY DEF Output, tabVars, ssh
  <1>3. m \in Message /\ m.op = "output" /\ m.id = c /\ c \in ids
    BY DEF SshInv, SshTypeOK, IdInv, Message
  <1>4. \A a \in UnderWay : a.op # "connect"
    BY <1>3 DEF SshInv, EngineInv
  <1>5. inbox' = Append(inbox, m)
    BY <1>1
  <1> HIDE DEF m
  <1>6. /\ \A a \in Letters : MayFollow(a, m)
        /\ \A b \in Waits : MayFollow(m, b)
    BY <1>3, <1>4 DEF MayFollow, OfSftp, OfDisposer, Late, Marks, UnderWay
  <1>7. Line(inbox', requests') /\ Letters' = Letters \cup {m} /\ Waits' = Waits
    BY <1>2, <1>3, <1>5, <1>6, Told DEF SshInv, Letters, Waits
  <1>8. SshTypeOK'
    BY <1>2, <1>3, <1>7 DEF SshInv, SshTypeOK, Line
  <1>9. EngineInv'
    BY <1>2, <1>3, <1>7 DEF SshInv, EngineInv, UnderWay, OfDisposer, Late
  <1>10. IdInv'
    BY <1>2, <1>3, <1>7 DEF SshInv, IdInv, UnderWay, Marks
  <1>11. StartInv'
    BY <1>2, <1>3, <1>7 DEF SshInv, StartInv, UnderWay, Marks
  <1>12. CreateInv'
    BY <1>2, <1>3, <1>7 DEF SshInv, CreateInv, IdInv, UnderWay, OfSftp
  <1>13. HeldInv'
    BY <1>2, <1>3, <1>7 DEF SshInv, HeldInv, IdInv, SshTypeOK, UnderWay
  <1> QED
    BY <1>7, <1>8, <1>9, <1>10, <1>11, <1>12, <1>13 DEF SshInv

LEMMA RemoteExitKeeps ==
  ASSUME SshInv, RemoteExit
  PROVE  SshInv'
  <1>1. PICK c \in reading : /\ reading' = reading \ {c}
                            /\ requests' = Append(requests, [op |-> "remove", id |-> c])
                            /\ inbox' = Append(inbox, [op |-> "exit", id |-> c])
    BY DEF RemoteExit, Send
  <1> DEFINE r == [op |-> "remove", id |-> c]
             m == [op |-> "exit", id |-> c]
  <1>2. UNCHANGED <<engine, blocked, disposing, channels, panels, file, tab, session, held, ids, opened>>
    BY DEF RemoteExit, tabVars
  <1>3. /\ m \in Message /\ m.op = "exit" /\ m.id = c /\ c \in ids
        /\ r \in Message /\ r.op = "remove" /\ r.id = c
    BY DEF SshInv, SshTypeOK, IdInv, Message
  <1>4. \A a \in UnderWay : a.op # "connect"
    BY <1>3 DEF SshInv, EngineInv
  <1>5. inbox' = Append(inbox, m) /\ requests' = Append(requests, r)
    BY <1>1
  <1> HIDE DEF m, r
  <1>6. \A a \in Letters : a.op = "created" => a.id # c
    BY <1>1 DEF SshInv, CreateInv
  <1>7. \A a \in Letters \cup Waits : MayFollow(a, r)
    <2>1. \A a \in Waits : a.op # "created"
      BY DEF SshInv, CreateInv
    <2> QED
      BY <1>3, <1>6, <2>1 DEF MayFollow, OfSftp, OfDisposer, Late, Marks
  <1>8. Line(inbox, requests') /\ Waits' = Waits \cup {r}
    BY <1>3, <1>5, <1>7, Sent DEF SshInv, Letters, Waits
  <1>9. /\ \A a \in Letters : MayFollow(a, m)
        /\ \A b \in Waits' : MayFollow(m, b)
    BY <1>3, <1>4, <1>8 DEF MayFollow, OfSftp, OfDisposer, Late, Marks, UnderWay
  <1>10. Line(inbox', requests') /\ Letters' = Letters \cup {m}
    BY <1>3, <1>5, <1>8, <1>9, Told DEF Letters, Waits
  <1>11. SshTypeOK'
    BY <1>1, <1>2, <1>3, <1>8, <1>10 DEF SshInv, SshTypeOK, Line
  <1>12. EngineInv'
    BY <1>1, <1>2, <1>3, <1>8, <1>10 DEF SshInv, EngineInv, UnderWay, OfDisposer, Late
  <1>13. IdInv'
    BY <1>1, <1>2, <1>3, <1>8, <1>10 DEF SshInv, IdInv, UnderWay, Marks
  <1>14. StartInv'
    BY <1>1, <1>2, <1>3, <1>8, <1>10 DEF SshInv, StartInv, UnderWay, Marks
  <1>15. CreateInv'
    BY <1>1, <1>2, <1>3, <1>8, <1>10 DEF SshInv, CreateInv, IdInv, UnderWay, OfSftp
  <1>16. HeldInv'
    BY <1>1, <1>2, <1>3, <1>8, <1>10 DEF SshInv, HeldInv, IdInv, SshTypeOK, UnderWay
  <1> QED
    BY <1>10, <1>11, <1>12, <1>13, <1>14, <1>15, <1>16 DEF SshInv


LEMMA OnConnectedKeeps ==
  ASSUME SshInv, OnConnected
  PROVE  SshInv'
  <1> DEFINE h == Head(inbox)
             L == Has(Tail(inbox))
  <1>1. /\ inbox # <<>> /\ h.op = "connect" /\ inbox' = Tail(inbox) /\ engine' = "open"
        /\ UNCHANGED <<blocked, disposing, channels, panels, tab, session, held, reading, ids, opened>>
    BY DEF OnConnected, Got, ssh
  <1>2. /\ h \in Message /\ Line(Tail(inbox), requests) /\ Letters = {h} \cup L
        /\ \A b \in L \cup Waits : MayFollow(h, b)
    BY <1>1, Came DEF SshInv, Letters, Waits
  <1> HIDE DEF h, L
  <1>3. engine = "connecting"
    BY <1>1, <1>2 DEF SshInv, SshTypeOK, EngineInv, UnderWay
  <1>4. L = {} /\ Waits = {} /\ channels = {} /\ ids = {} /\ held = {} /\ reading = {} /\ ~disposing
    <2>1. \A b \in L \cup Waits : b.op = "connect"
      BY <1>2, <1>3 DEF SshInv, EngineInv, UnderWay
    <2>2. \A b \in L \cup Waits : b.op # "connect"
      BY <1>2 DEF MayFollow
    <2> QED
      BY <1>3, <2>1, <2>2 DEF SshInv, EngineInv, IdInv
  <1>5. CASE UNCHANGED <<requests, file>>
    <2>1. Line(inbox', requests') /\ Letters' = {} /\ Waits' = {}
      BY <1>1, <1>2, <1>4, <1>5 DEF Letters, Waits, L
    <2>2. file \in Channels => file \in ids
      BY DEF SshInv, IdInv
    <2>3. SshTypeOK'
      BY <1>1, <1>4, <1>5, <2>1, <2>2 DEF SshInv, SshTypeOK, Line
    <2>4. EngineInv'
      BY <1>1, <1>4, <1>5, <2>1, <2>2 DEF SshInv, EngineInv, UnderWay, OfDisposer, Late
    <2>5. IdInv'
      BY <1>1, <1>4, <1>5, <2>1, <2>2 DEF SshInv, IdInv, UnderWay, Marks
    <2>6. StartInv'
      BY <1>1, <1>4, <1>5, <2>1, <2>2 DEF SshInv, StartInv, UnderWay, Marks
    <2>7. CreateInv'
      BY <1>1, <1>4, <1>5, <2>1, <2>2 DEF SshInv, CreateInv, IdInv, UnderWay, OfSftp
    <2>8. HeldInv'
      BY <1>1, <1>4, <1>5, <2>1, <2>2 DEF SshInv, HeldInv, IdInv, SshTypeOK, UnderWay
    <2> QED
      BY <2>1, <2>3, <2>4, <2>5, <2>6, <2>7, <2>8 DEF SshInv
  <1>6. CASE NewChannel(TRUE) /\ file' = "there"
    <2> DEFINE m == [op |-> "create", sftp |-> TRUE]
    <2>1. m \in Message /\ m.op = "create" /\ OfSftp(m)
      BY DEF Message, OfSftp
    <2>2. requests' = Append(requests, m)
      BY <1>6 DEF NewChannel, Send
    <2> HIDE DEF m
    <2>3. Line(inbox', requests') /\ Letters' = {} /\ Waits' = {m}
      BY <1>1, <1>2, <1>4, <2>1, <2>2, Sent DEF Letters, Waits, L
    <2>4. "there" \notin Channels
      BY SshAssumption DEF SshAssumption
    <2>5. SshTypeOK'
      BY <1>1, <1>4, <1>6, <2>1, <2>3, <2>4 DEF SshInv, SshTypeOK, Line
    <2>6. EngineInv'
      BY <1>1, <1>4, <1>6, <2>1, <2>3, <2>4 DEF SshInv, EngineInv, UnderWay, OfDisposer, Late
    <2>7. IdInv'
      BY <1>1, <1>4, <1>6, <2>1, <2>3, <2>4 DEF SshInv, IdInv, UnderWay, Marks
    <2>8. StartInv'
      BY <1>1, <1>4, <1>6, <2>1, <2>3, <2>4 DEF SshInv, StartInv, UnderWay, Marks
    <2>9. CreateInv'
      BY <1>1, <1>4, <1>6, <2>1, <2>3, <2>4 DEF SshInv, CreateInv, IdInv, UnderWay, OfSftp
    <2>10. HeldInv'
      BY <1>1, <1>4, <1>6, <2>1, <2>3, <2>4 DEF SshInv, HeldInv, IdInv, SshTypeOK, UnderWay
    <2> QED
      BY <2>3, <2>5, <2>6, <2>7, <2>8, <2>9, <2>10 DEF SshInv
  <1> QED
    BY <1>5, <1>6 DEF OnConnected

LEMMA OnConnectFailedKeeps ==
  ASSUME SshInv, OnConnectFailed
  PROVE  SshInv'
  <1> DEFINE h == Head(inbox)
             L == Has(Tail(inbox))
  <1>1. /\ inbox # <<>> /\ h.op = "connect" /\ inbox' = Tail(inbox) /\ Dispose
        /\ UNCHANGED <<channels, file, session, held, reading, ids, opened>>
    BY DEF OnConnectFailed, Got, ssh
  <1>2. /\ h \in Message /\ Line(Tail(inbox), requests) /\ Letters = {h} \cup L
        /\ \A b \in L \cup Waits : MayFollow(h, b)
    BY <1>1, Came DEF SshInv, Letters, Waits
  <1> HIDE DEF h, L
  <1>3. engine = "connecting"
    BY <1>1, <1>2 DEF SshInv, SshTypeOK, EngineInv, UnderWay
  <1>4. L = {} /\ Waits = {} /\ channels = {} /\ ids = {} /\ held = {} /\ reading = {} /\ ~disposing
    <2>1. \A b \in L \cup Waits : b.op = "connect"
      BY <1>2, <1>3 DEF SshInv, EngineInv, UnderWay
    <2>2. \A b \in L \cup Waits : b.op # "connect"
      BY <1>2 DEF MayFollow
    <2> QED
      BY <1>3, <2>1, <2>2 DEF SshInv, EngineInv, IdInv
  <1> DEFINE m == [op |-> "disconnect"]
  <1>5. m \in Message /\ m.op = "disconnect"
    BY DEF Message
  <1>6. /\ requests' = Append(requests, m) /\ engine' = "gone" /\ panels' = {} /\ tab' \in {tab, "closed"}
        /\ blocked' /\ disposing' /\ blocked' \in BOOLEAN /\ disposing' \in BOOLEAN
    BY <1>1, <1>4 DEF Dispose, Disposer, Disconnect
  <1> HIDE DEF m
  <1>7. Line(inbox', requests') /\ Letters' = {} /\ Waits' = {m}
    BY <1>1, <1>2, <1>4, <1>5, <1>6, Sent DEF Letters, Waits, L
  <1>8. SshTypeOK'
    BY <1>1, <1>4, <1>5, <1>6, <1>7 DEF SshInv, SshTypeOK, Line
  <1>9. EngineInv'
    BY <1>1, <1>4, <1>5, <1>6, <1>7 DEF SshInv, EngineInv, UnderWay, OfDisposer, Late
  <1>10. IdInv'
    BY <1>1, <1>4, <1>5, <1>6, <1>7 DEF SshInv, IdInv, UnderWay, Marks
  <1>11. StartInv'
    BY <1>1, <1>4, <1>5, <1>6, <1>7 DEF SshInv, StartInv, UnderWay, Marks
  <1>12. CreateInv'
    BY <1>1, <1>4, <1>5, <1>6, <1>7 DEF SshInv, CreateInv, IdInv, UnderWay, OfSftp
  <1>13. HeldInv'
    BY <1>1, <1>4, <1>5, <1>6, <1>7 DEF SshInv, HeldInv, IdInv, SshTypeOK, UnderWay
  <1> QED
    BY <1>7, <1>8, <1>9, <1>10, <1>11, <1>12, <1>13 DEF SshInv

LEMMA CreateChannelKeeps ==
  ASSUME SshInv, CreateChannel
  PROVE  SshInv'
  <1> DEFINE m == [op |-> "create", sftp |-> FALSE]
  <1>1. /\ engine = "open" /\ ~blocked /\ requests' = Append(requests, m)
        /\ UNCHANGED <<engine, blocked, disposing, channels, panels, file, tab, inbox, session, held, reading, ids, opened>>
    BY DEF CreateChannel, NewChannel, Send, tabVars, ssh
  <1>2. m \in Message /\ m.op = "create" /\ ~OfSftp(m)
    BY DEF Message, OfSftp
  <1> HIDE DEF m
  <1>3. \A a \in UnderWay : ~OfDisposer(a)
    BY <1>1 DEF SshInv, EngineInv
  <1>4. \A a \in Letters \cup Waits : MayFollow(a, m)
    BY <1>2, <1>3 DEF MayFollow, Marks, UnderWay
  <1>5. Line(inbox', requests') /\ Letters' = Letters /\ Waits' = Waits \cup {m}
    BY <1>1, <1>2, <1>4, Sent DEF SshInv, Letters, Waits
  <1>6. SshTypeOK'
    BY <1>1, <1>2, <1>5 DEF SshInv, SshTypeOK, Line
  <1>7. EngineInv'
    BY <1>1, <1>2, <1>5 DEF SshInv, EngineInv, UnderWay, OfDisposer, Late
  <1>8. IdInv'
    BY <1>1, <1>2, <1>5 DEF SshInv, IdInv, UnderWay, Marks
  <1>9. StartInv'
    BY <1>1, <1>2, <1>5 DEF SshInv, StartInv, UnderWay, Marks
  <1>10. CreateInv'
    BY <1>1, <1>2, <1>5 DEF SshInv, CreateInv, IdInv, UnderWay, OfSftp
  <1>11. HeldInv'
    BY <1>1, <1>2, <1>5 DEF SshInv, HeldInv, IdInv, SshTypeOK, UnderWay
  <1> QED
    BY <1>5, <1>6, <1>7, <1>8, <1>9, <1>10, <1>11 DEF SshInv

LEMMA OnCreatedKeeps ==
  ASSUME SshInv, OnCreated
  PROVE  SshInv'
  <1> DEFINE h == Head(inbox)
             L == Has(Tail(inbox))
  <1>1. /\ inbox # <<>> /\ h.op \in {"created", "refused"} /\ inbox' = Tail(inbox)
        /\ UNCHANGED <<engine, blocked, disposing, panels, tab, session, held, reading, ids, opened>>
    BY DEF OnCreated, Got, TooLate, tabVars, Send, ssh
  <1>2. /\ h \in Message /\ Line(Tail(inbox), requests) /\ Letters = {h} \cup L
        /\ \A b \in L \cup Waits : MayFollow(h, b)
    BY <1>1, Came DEF SshInv, Letters, Waits
  <1> HIDE DEF h, L
  <1>3. engine = "open"
    BY <1>1, <1>2 DEF SshInv, SshTypeOK, EngineInv, UnderWay, Late
  <1>4. CASE h.op = "refused"
    <2>1. UNCHANGED <<channels, file, requests>>
      BY <1>4 DEF OnCreated, TooLate, tabVars, h
    <2>2. Line(inbox', requests') /\ Letters' = L /\ Waits' = Waits
      BY <1>1, <1>2, <2>1 DEF Letters, Waits, L
    <2>3. SshTypeOK'
      BY <1>1, <1>2, <1>3, <1>4, <2>1, <2>2 DEF SshInv, SshTypeOK, Line
    <2>4. EngineInv'
      BY <1>1, <1>2, <1>3, <1>4, <2>1, <2>2 DEF SshInv, EngineInv, UnderWay, OfDisposer, Late
    <2>5. IdInv'
      BY <1>1, <1>2, <1>3, <1>4, <2>1, <2>2 DEF SshInv, IdInv, UnderWay, Marks
    <2>6. StartInv'
      BY <1>1, <1>2, <1>3, <1>4, <2>1, <2>2 DEF SshInv, StartInv, UnderWay, Marks
    <2>7. CreateInv'
      BY <1>1, <1>2, <1>3, <1>4, <2>1, <2>2 DEF SshInv, CreateInv, IdInv, UnderWay, OfSftp
    <2>8. HeldInv'
      BY <1>1, <1>2, <1>3, <1>4, <2>1, <2>2 DEF SshInv, HeldInv, IdInv, SshTypeOK, UnderWay
    <2> QED
      BY <2>2, <2>3, <2>4, <2>5, <2>6, <2>7, <2>8 DEF SshInv
  <1>5. CASE h.op = "created" /\ h.sftp
    <2>1. channels' = channels \cup {h.id} /\ file' = h.id /\ requests' = requests
      BY <1>3, <1>5 DEF OnCreated, TooLate, tabVars, h
    <2>2. Line(inbox', requests') /\ Letters' = L /\ Waits' = Waits
      BY <1>1, <1>2, <2>1 DEF Letters, Waits, L
    <2>3. h.id \in Channels /\ h.id \notin channels /\ h.id \notin held /\ h.id \notin reading /\ h.id \in ids
      BY <1>2, <1>5 DEF SshInv, SshTypeOK, CreateInv, IdInv, UnderWay
    <2>4. /\ \A b \in L \cup Waits : ~OfSftp(b)
          /\ \A b \in L \cup Waits : b.op \in Marks \cup {"created", "close", "remove"} => b.id # h.id
      BY <1>2, <1>5 DEF MayFollow, OfSftp, Marks
    <2>5. file = "there" /\ "there" \notin Channels
      BY <1>2, <1>5, SshAssumption DEF SshInv, CreateInv, UnderWay, OfSftp, SshAssumption
    <2>6. SshTypeOK'
      BY <1>1, <1>2, <1>3, <1>5, <2>1, <2>2, <2>3, <2>4, <2>5 DEF SshInv, SshTypeOK, Line
    <2>7. EngineInv'
      BY <1>1, <1>2, <1>3, <1>5, <2>1, <2>2, <2>3, <2>4, <2>5 DEF SshInv, EngineInv, UnderWay, OfDisposer, Late
    <2>8. IdInv'
      BY <1>1, <1>2, <1>3, <1>5, <2>1, <2>2, <2>3, <2>4, <2>5 DEF SshInv, IdInv, UnderWay, Marks
    <2>9. StartInv'
      BY <1>1, <1>2, <1>3, <1>5, <2>1, <2>2, <2>3, <2>4, <2>5 DEF SshInv, StartInv, UnderWay, Marks
    <2>10. CreateInv'
      BY <1>1, <1>2, <1>3, <1>5, <2>1, <2>2, <2>3, <2>4, <2>5 DEF SshInv, CreateInv, IdInv, UnderWay, OfSftp
    <2>11. HeldInv'
      BY <1>1, <1>2, <1>3, <1>5, <2>1, <2>2, <2>3, <2>4, <2>5 DEF SshInv, HeldInv, IdInv, SshTypeOK, UnderWay
    <2> QED
      BY <2>2, <2>6, <2>7, <2>8, <2>9, <2>10, <2>11 DEF SshInv
  <1>6. CASE h.op = "created" /\ ~h.sftp
    <2> DEFINE m == [op |-> "start", id |-> h.id]
    <2>1. channels' = channels \cup {h.id} /\ file' = file /\ requests' = Append(requests, m)
      BY <1>3, <1>6 DEF OnCreated, TooLate, tabVars, h, Send
    <2>2. h.id \in Channels /\ h.id \notin channels /\ h.id \in held /\ h.id \notin reading /\ h.id \in ids
      BY <1>2, <1>6 DEF SshInv, SshTypeOK, CreateInv, IdInv, UnderWay
    <2>3. m \in Message /\ m.op = "start" /\ m.id = h.id
      BY <2>2 DEF Message, Marks
    <2> HIDE DEF m
    <2>4. \A b \in L \cup Waits : b.op \in Marks \cup {"created", "close", "remove"} => b.id # h.id
      BY <1>2, <1>6 DEF MayFollow, Marks
    <2>5. \A a \in L \cup Waits : MayFollow(a, m)
      BY <2>3, <2>4 DEF MayFollow, Marks, OfSftp
    <2>6. Line(inbox', requests') /\ Letters' = L /\ Waits' = Waits \cup {m}
      BY <1>1, <1>2, <2>1, <2>3, <2>5, Sent DEF Letters, Waits, L
    <2>7. SshTypeOK'
      BY <1>1, <1>2, <1>3, <1>6, <2>1, <2>2, <2>3, <2>4, <2>6 DEF SshInv, SshTypeOK, Line
    <2>8. EngineInv'
      BY <1>1, <1>2, <1>3, <1>6, <2>1, <2>2, <2>3, <2>4, <2>6 DEF SshInv, EngineInv, UnderWay, OfDisposer, Late
    <2>9. IdInv'
      BY <1>1, <1>2, <1>3, <1>6, <2>1, <2>2, <2>3, <2>4, <2>6 DEF SshInv, IdInv, UnderWay, Marks
    <2>10. StartInv'
      BY <1>1, <1>2, <1>3, <1>6, <2>1, <2>2, <2>3, <2>4, <2>6 DEF SshInv, StartInv, UnderWay, Marks
    <2>11. CreateInv'
      BY <1>1, <1>2, <1>3, <1>6, <2>1, <2>2, <2>3, <2>4, <2>6 DEF SshInv, CreateInv, IdInv, UnderWay, OfSftp
    <2>12. HeldInv'
      BY <1>1, <1>2, <1>3, <1>6, <2>1, <2>2, <2>3, <2>4, <2>6 DEF SshInv, HeldInv, IdInv, SshTypeOK, UnderWay
    <2> QED
      BY <2>6, <2>7, <2>8, <2>9, <2>10, <2>11, <2>12 DEF SshInv
  <1> QED
    BY <1>1, <1>4, <1>5, <1>6

LEMMA OnStartedKeeps ==
  ASSUME SshInv, OnStarted
  PROVE  SshInv'
  <1> DEFINE h == Head(inbox)
             L == Has(Tail(inbox))
  <1>1. /\ inbox # <<>> /\ h.op \in {"started", "failed"} /\ inbox' = Tail(inbox)
    BY DEF OnStarted, Got
  <1>2. /\ h \in Message /\ Line(Tail(inbox), requests) /\ Letters = {h} \cup L
        /\ \A b \in L \cup Waits : MayFollow(h, b)
    BY <1>1, Came DEF SshInv, Letters, Waits
  <1> HIDE DEF h, L
  <1>3. engine = "open" /\ h.op = "started" /\ h.id \in Channels
    BY <1>1, <1>2 DEF SshInv, StartInv, UnderWay, Marks, SshTypeOK
  <1>4. /\ panels' = panels \cup {h.id} /\ opened' = opened \cup {h.id}
        /\ UNCHANGED <<engine, blocked, disposing, channels, file, tab, requests, session, held, reading, ids>>
    BY <1>3 DEF OnStarted, OpenPanel, ssh, h
  <1>5. Line(inbox', requests') /\ Letters' = L /\ Waits' = Waits
    BY <1>1, <1>2, <1>4 DEF Letters, Waits, L
  <1>6. SshTypeOK'
    BY <1>2, <1>3, <1>4, <1>5 DEF SshInv, SshTypeOK, Line
  <1>7. EngineInv'
    BY <1>2, <1>3, <1>4, <1>5 DEF SshInv, EngineInv, UnderWay, OfDisposer, Late
  <1>8. IdInv'
    BY <1>2, <1>3, <1>4, <1>5 DEF SshInv, IdInv, UnderWay, Marks
  <1>9. StartInv'
    BY <1>2, <1>3, <1>4, <1>5 DEF SshInv, StartInv, UnderWay, Marks
  <1>10. CreateInv'
    BY <1>2, <1>3, <1>4, <1>5 DEF SshInv, CreateInv, IdInv, UnderWay, OfSftp
  <1>11. HeldInv'
    BY <1>2, <1>3, <1>4, <1>5 DEF SshInv, HeldInv, IdInv, SshTypeOK, UnderWay
  <1> QED
    BY <1>5, <1>6, <1>7, <1>8, <1>9, <1>10, <1>11 DEF SshInv

LEMMA OnOutputKeeps ==
  ASSUME SshInv, OnOutput
  PROVE  SshInv'
  <1> DEFINE h == Head(inbox)
             L == Has(Tail(inbox))
  <1>1. /\ inbox # <<>> /\ h.op = "output" /\ inbox' = Tail(inbox)
        /\ UNCHANGED <<engine, blocked, disposing, channels, panels, file, tab, requests, session, held, reading, ids, opened>>
    BY DEF OnOutput, Got, tabVars, ssh
  <1>2. /\ h \in Message /\ Line(Tail(inbox), requests) /\ Letters = {h} \cup L
        /\ \A b \in L \cup Waits : MayFollow(h, b)
    BY <1>1, Came DEF SshInv, Letters, Waits
  <1> HIDE DEF h, L
  <1>3. Line(inbox', requests') /\ Letters' = L /\ Waits' = Waits
    BY <1>1, <1>2 DEF Letters, Waits, L
  <1>4. SshTypeOK'
    BY <1>1, <1>2, <1>3 DEF SshInv, SshTypeOK, Line
  <1>5. EngineInv'
    BY <1>1, <1>2, <1>3 DEF SshInv, EngineInv, UnderWay, OfDisposer, Late
  <1>6. IdInv'
    BY <1>1, <1>2, <1>3 DEF SshInv, IdInv, UnderWay, Marks
  <1>7. StartInv'
    BY <1>1, <1>2, <1>3 DEF SshInv, StartInv, UnderWay, Marks
  <1>8. CreateInv'
    BY <1>1, <1>2, <1>3 DEF SshInv, CreateInv, IdInv, UnderWay, OfSftp
  <1>9. HeldInv'
    BY <1>1, <1>2, <1>3 DEF SshInv, HeldInv, IdInv, SshTypeOK, UnderWay
  <1> QED
    BY <1>3, <1>4, <1>5, <1>6, <1>7, <1>8, <1>9 DEF SshInv

LEMMA OnExitKeeps ==
  ASSUME SshInv, OnExit
  PROVE  SshInv'
  <1> DEFINE h == Head(inbox)
             L == Has(Tail(inbox))
  <1>1. /\ inbox # <<>> /\ h.op = "exit" /\ inbox' = Tail(inbox)
        /\ UNCHANGED <<channels, file, session, held, reading, ids, opened>>
    BY DEF OnExit, Got, ssh
  <1>2. /\ h \in Message /\ Line(Tail(inbox), requests) /\ Letters = {h} \cup L
        /\ \A b \in L \cup Waits : MayFollow(h, b)
    BY <1>1, Came DEF SshInv, Letters, Waits
  <1> HIDE DEF h, L
  <1>3. CASE /\ h.id \in channels /\ engine # "gone" => disposing
             /\ UNCHANGED <<engine, blocked, disposing, panels, tab, requests>>
    <2>1. Line(inbox', requests') /\ Letters' = L /\ Waits' = Waits
      BY <1>1, <1>2, <1>3 DEF Letters, Waits, L
    <2>2. SshTypeOK'
      BY <1>1, <1>2, <1>3, <2>1 DEF SshInv, SshTypeOK, Line
    <2>3. EngineInv'
      BY <1>1, <1>2, <1>3, <2>1 DEF SshInv, EngineInv, UnderWay, OfDisposer, Late
    <2>4. IdInv'
      BY <1>1, <1>2, <1>3, <2>1 DEF SshInv, IdInv, UnderWay, Marks
    <2>5. StartInv'
      BY <1>1, <1>2, <1>3, <2>1 DEF SshInv, StartInv, UnderWay, Marks
    <2>6. CreateInv'
      BY <1>1, <1>2, <1>3, <2>1 DEF SshInv, CreateInv, IdInv, UnderWay, OfSftp
    <2>7. HeldInv'
      BY <1>1, <1>2, <1>3, <2>1 DEF SshInv, HeldInv, IdInv, SshTypeOK, UnderWay
    <2> QED
      BY <2>1, <2>2, <2>3, <2>4, <2>5, <2>6, <2>7 DEF SshInv
  <1>4. ASSUME h.id \in channels, engine # "gone", ~disposing, blocked', disposing',
               blocked' \in BOOLEAN, disposing' \in BOOLEAN,
               UNCHANGED <<engine, panels, tab>>,
               NEW c \in channels, requests' = Append(requests, [op |-> "close", id |-> c, by |-> "disposer"])
        PROVE  SshInv'
    <2> DEFINE m == [op |-> "close", id |-> c, by |-> "disposer"]
    <2>1. engine = "open"
      BY <1>4 DEF SshInv, SshTypeOK, EngineInv
    <2>2. m \in Message /\ m.op = "close" /\ m.id = c /\ m.by = "disposer" /\ OfDisposer(m) /\ c \in ids
      BY DEF Message, Closers, SshInv, SshTypeOK, IdInv, OfDisposer
    <2>3. requests' = Append(requests, m)
      BY <1>4
    <2> HIDE DEF m
    <2>4. \A a \in L \cup Waits : MayFollow(a, m)
      <3>1. \A a \in L \cup Waits : ~OfDisposer(a) /\ (a.op = "created" => a.id # c)
        BY <1>2, <1>4, <2>1 DEF SshInv, EngineInv, CreateInv, UnderWay
      <3> QED
        BY <2>2, <3>1 DEF MayFollow, Marks, OfSftp
    <2>5. Line(inbox', requests') /\ Letters' = L /\ Waits' = Waits \cup {m}
      BY <1>1, <1>2, <2>2, <2>3, <2>4, Sent DEF Letters, Waits, L
    <2>6. SshTypeOK'
      BY <1>1, <1>2, <1>4, <2>1, <2>2, <2>5 DEF SshInv, SshTypeOK, Line
    <2>7. EngineInv'
      BY <1>1, <1>2, <1>4, <2>1, <2>2, <2>5 DEF SshInv, EngineInv, UnderWay, OfDisposer, Late
    <2>8. IdInv'
      BY <1>1, <1>2, <1>4, <2>1, <2>2, <2>5 DEF SshInv, IdInv, UnderWay, Marks
    <2>9. StartInv'
      BY <1>1, <1>2, <1>4, <2>1, <2>2, <2>5 DEF SshInv, StartInv, UnderWay, Marks
    <2>10. CreateInv'
      BY <1>1, <1>2, <1>4, <2>1, <2>2, <2>5 DEF SshInv, CreateInv, IdInv, UnderWay, OfSftp
    <2>11. HeldInv'
      BY <1>1, <1>2, <1>4, <2>1, <2>2, <2>5 DEF SshInv, HeldInv, IdInv, SshTypeOK, UnderWay
    <2> QED
      BY <2>5, <2>6, <2>7, <2>8, <2>9, <2>10, <2>11 DEF SshInv
  <1>5. CASE h.id \in channels /\ engine # "gone" /\ ~disposing
    <2>1. Dispose
      BY <1>5 DEF OnExit, h
    <2>2. /\ blocked' /\ disposing' /\ blocked' \in BOOLEAN /\ disposing' \in BOOLEAN
          /\ Disposer(channels, requests) /\ channels # {}
      BY <1>5, <2>1 DEF Dispose
    <2>3. /\ \E c \in channels : requests' = Append(requests, [op |-> "close", id |-> c, by |-> "disposer"])
          /\ UNCHANGED <<engine, panels, tab>>
      BY <2>2, Zenon DEF Disposer
    <2> QED
      BY <1>4, <1>5, <2>2, <2>3
  <1>6. CASE ~(h.id \in channels /\ engine # "gone" /\ ~disposing)
    <2>1. CASE h.id \in channels /\ engine # "gone"
      <3>1. Dispose /\ disposing /\ blocked
        BY <1>6, <2>1 DEF OnExit, h, SshInv, EngineInv
      <3>2. UNCHANGED <<requests, engine, panels, tab>> /\ blocked' = TRUE /\ disposing' = TRUE
        BY <3>1, Zenon DEF Dispose
      <3>3. blocked' = blocked /\ disposing' = disposing
        BY <3>1, <3>2 DEF SshInv, SshTypeOK
      <3> QED
        BY <1>3, <3>1, <3>2, <3>3
    <2>2. CASE ~(h.id \in channels /\ engine # "gone")
      <3>1. UNCHANGED <<engine, blocked, disposing, panels, tab, requests>>
        BY <2>2, Zenon DEF OnExit, h
      <3> QED
        BY <1>3, <2>2, <3>1
    <2> QED
      BY <2>1, <2>2
  <1> QED
    BY <1>5, <1>6

LEMMA CloseByUserKeeps ==
  ASSUME SshInv, CloseByUser
  PROVE  SshInv'
  <1>1. PICK c \in panels : ClosePanel(c)
    BY DEF CloseByUser
  <1>2. /\ engine = "open" /\ panels' = panels \ {c}
        /\ UNCHANGED <<engine, blocked, disposing, channels, file, tab, inbox, session, held, reading, ids, opened>>
    BY <1>1 DEF CloseByUser, ClosePanel, ssh
  <1>3. CASE c \notin channels
    <2>1. requests' = requests
      BY <1>1, <1>3 DEF ClosePanel
    <2>2. Line(inbox', requests') /\ Letters' = Letters /\ Waits' = Waits
      BY <1>2, <2>1 DEF SshInv, Letters, Waits
    <2>3. SshTypeOK'
      BY <1>2, <2>2 DEF SshInv, SshTypeOK, Line
    <2>4. EngineInv'
      BY <1>2, <2>2 DEF SshInv, EngineInv, UnderWay, OfDisposer, Late
    <2>5. IdInv'
      BY <1>2, <2>2 DEF SshInv, IdInv, UnderWay, Marks
    <2>6. StartInv'
      BY <1>2, <2>2 DEF SshInv, StartInv, UnderWay, Marks
    <2>7. CreateInv'
      BY <1>2, <2>2 DEF SshInv, CreateInv, IdInv, UnderWay, OfSftp
    <2>8. HeldInv'
      BY <1>2, <2>2 DEF SshInv, HeldInv, IdInv, SshTypeOK, UnderWay
    <2> QED
      BY <2>2, <2>3, <2>4, <2>5, <2>6, <2>7, <2>8 DEF SshInv
  <1>4. CASE c \in channels
    <2> DEFINE m == [op |-> "close", id |-> c, by |-> "user"]
    <2>1. requests' = Append(requests, m)
      BY <1>1, <1>4 DEF ClosePanel, Send
    <2>2. m \in Message /\ m.op = "close" /\ m.id = c /\ m.by = "user" /\ c \in ids
      BY <1>4 DEF Message, Closers, SshInv, SshTypeOK, IdInv
    <2> HIDE DEF m
    <2>3. \A a \in Letters \cup Waits : MayFollow(a, m)
      <3>1. \A a \in Letters \cup Waits : a.op = "created" => a.id # c
        BY <1>4 DEF SshInv, CreateInv
      <3> QED
        BY <2>2, <3>1 DEF MayFollow, Marks, OfSftp, Late
    <2>4. Line(inbox', requests') /\ Letters' = Letters /\ Waits' = Waits \cup {m}
      BY <1>2, <2>1, <2>2, <2>3, Sent DEF SshInv, Letters, Waits
    <2>5. SshTypeOK'
      BY <1>2, <1>4, <2>2, <2>4 DEF SshInv, SshTypeOK, Line
    <2>6. EngineInv'
      BY <1>2, <1>4, <2>2, <2>4 DEF SshInv, EngineInv, UnderWay, OfDisposer, Late
    <2>7. IdInv'
      BY <1>2, <1>4, <2>2, <2>4 DEF SshInv, IdInv, UnderWay, Marks
    <2>8. StartInv'
      BY <1>2, <1>4, <2>2, <2>4 DEF SshInv, StartInv, UnderWay, Marks
    <2>9. CreateInv'
      BY <1>2, <1>4, <2>2, <2>4 DEF SshInv, CreateInv, IdInv, UnderWay, OfSftp
    <2>10. HeldInv'
      BY <1>2, <1>4, <2>2, <2>4 DEF SshInv, HeldInv, IdInv, SshTypeOK, UnderWay
    <2> QED
      BY <2>4, <2>5, <2>6, <2>7, <2>8, <2>9, <2>10 DEF SshInv
  <1> QED
    BY <1>3, <1>4


LEMMA OnClosedKeeps ==
  ASSUME SshInv, OnClosed
  PROVE  SshInv'
  <1> DEFINE h == Head(inbox)
             L == Has(Tail(inbox))
             d == [op |-> "close", id |-> h.id, by |-> "dtor"]
             again == IF h.id \in channels THEN Append(requests, d) ELSE requests
             R == Has(again)
  <1>1. /\ inbox # <<>> /\ h.op = "close" /\ inbox' = Tail(inbox)
        /\ UNCHANGED <<session, held, reading, ids>>
    BY DEF OnClosed, Got, ssh
  <1>2. /\ h \in Message /\ Line(Tail(inbox), requests) /\ Letters = {h} \cup L
        /\ \A b \in L \cup Waits : MayFollow(h, b)
    BY <1>1, Came DEF SshInv, Letters, Waits
  <1>3. h.id \in ids /\ h.id \in Channels /\ h.id \notin held /\ h.by \in {"disposer", "user"}
    <2>1. h.by \in Closers
      BY <1>1, <1>2 DEF Message, Closers, Marks
    <2> HIDE DEF h
    <2> QED
      BY <1>1, <1>2, <2>1 DEF SshInv, SshTypeOK, IdInv, HeldInv, StartInv, UnderWay, Closers
  <1>4. d \in Message /\ d.op = "close" /\ d.id = h.id /\ d.by = "dtor"
    BY <1>3 DEF Message, Closers
  <1>5. /\ Line(Tail(inbox), again) /\ Waits \subseteq R /\ R \subseteq Waits \cup {d}
    <2>1. CASE h.id \in channels
      <3>1. again = Append(requests, d)
        BY <2>1
      <3> HIDE DEF h, d, again
      <3>2. \A a \in L \cup Waits : a.op = "created" => a.id # h.id
        BY <1>2, <2>1 DEF SshInv, CreateInv
      <3> HIDE DEF L
      <3>3. \A a \in L \cup Waits : MayFollow(a, d)
        BY <1>4, <3>2 DEF MayFollow, Marks, OfSftp, Late
      <3>4. Line(Tail(inbox), Append(requests, d)) /\ Has(Append(requests, d)) = Waits \cup {d}
        BY <1>2, <1>4, <3>3, Sent DEF Waits, L
      <3> QED
        BY <3>1, <3>4
    <2>2. CASE h.id \notin channels
      BY <1>2, <2>2 DEF Waits
    <2> QED
      BY <2>1, <2>2
  <1>6. CASE engine = "gone"
    <2>1. UNCHANGED <<engine, blocked, disposing, channels, panels, file, tab, requests, opened>>
      BY <1>6, Zenon DEF OnClosed, TooLate, tabVars
    <2> HIDE DEF h, L
    <2>2. Line(inbox', requests') /\ Letters' = L /\ Waits' = Waits
      BY <1>1, <1>2, <2>1 DEF Letters, Waits, L
    <2>3. SshTypeOK'
      BY <1>1, <1>2, <1>6, <2>1, <2>2 DEF SshInv, SshTypeOK, Line
    <2>4. EngineInv'
      BY <1>1, <1>2, <1>6, <2>1, <2>2 DEF SshInv, EngineInv, UnderWay, OfDisposer, Late
    <2>5. IdInv'
      BY <1>1, <1>2, <1>6, <2>1, <2>2 DEF SshInv, IdInv, UnderWay, Marks
    <2>6. StartInv'
      BY <1>1, <1>2, <1>6, <2>1, <2>2 DEF SshInv, StartInv, UnderWay, Marks
    <2>7. CreateInv'
      BY <1>1, <1>2, <1>6, <2>1, <2>2 DEF SshInv, CreateInv, IdInv, UnderWay, OfSftp
    <2>8. HeldInv'
      BY <1>1, <1>2, <1>6, <2>1, <2>2 DEF SshInv, HeldInv, IdInv, SshTypeOK, UnderWay
    <2> QED
      BY <2>2, <2>3, <2>4, <2>5, <2>6, <2>7, <2>8 DEF SshInv
  <1>7. CASE engine # "gone" /\ h.by = "disposer"
    <2>1. /\ channels' = channels \ {h.id} /\ Disposer(channels', again)
          /\ UNCHANGED <<blocked, disposing, file, opened>>
      BY <1>7, Zenon DEF OnClosed
    <2> HIDE DEF h, L, d, again, R
    <2>2. engine = "open" /\ disposing
      BY <1>1, <1>2, <1>7 DEF SshInv, SshTypeOK, EngineInv, UnderWay, OfDisposer
    <2>3. /\ \A a \in L \cup R : Late(a) \/ a.op \in Marks
          /\ \A a \in L \cup R : a.op \in Marks => a.id # h.id
      BY <1>1, <1>2, <1>4, <1>5, <1>7 DEF MayFollow, OfDisposer, Late, Marks
    <2>4. \A a \in L \cup R : a.op \in Marks => a \in UnderWay /\ a.id \in channels'
      BY <1>2, <1>4, <1>5, <2>1, <2>3 DEF SshInv, StartInv, UnderWay, Marks
    <2>5. CASE channels' = {}
      <3> DEFINE m == [op |-> "disconnect"]
      <3>1. m \in Message /\ m.op = "disconnect"
        BY DEF Message
      <3>2. requests' = Append(again, m) /\ engine' = "gone" /\ panels' = {} /\ tab' \in {tab, "closed"}
        BY <2>1, <2>5 DEF Disposer, Disconnect
      <3> HIDE DEF m
      <3>3. \A a \in L \cup R : Late(a)
        BY <2>3, <2>4, <2>5
      <3>4. \A a \in L \cup R : MayFollow(a, m)
        BY <3>1 DEF MayFollow, Marks, OfSftp, Late
      <3>5. Line(inbox', requests') /\ Letters' = L /\ Waits' = R \cup {m}
        BY <1>1, <1>5, <3>1, <3>2, <3>4, Sent DEF Letters, Waits, L, R
      <3>6. SshTypeOK'
        BY <1>1, <1>2, <1>3, <1>4, <1>5, <2>1, <2>2, <3>1, <3>2, <3>3, <3>5 DEF SshInv, SshTypeOK, Line
      <3>7. EngineInv'
        BY <1>1, <1>2, <1>3, <1>4, <1>5, <2>1, <2>2, <3>1, <3>2, <3>3, <3>5 DEF SshInv, EngineInv, UnderWay, OfDisposer, Late
      <3>8. IdInv'
        BY <1>1, <1>2, <1>3, <1>4, <1>5, <2>1, <2>2, <3>1, <3>2, <3>3, <3>5 DEF SshInv, IdInv, UnderWay, Marks
      <3>9. StartInv'
        BY <1>1, <1>2, <1>3, <1>4, <1>5, <2>1, <2>2, <3>1, <3>2, <3>3, <3>5 DEF SshInv, StartInv, UnderWay, Marks, Late
      <3>10. CreateInv'
        BY <1>1, <1>2, <1>3, <1>4, <1>5, <2>1, <2>2, <3>1, <3>2, <3>3, <3>5 DEF SshInv, CreateInv, IdInv, UnderWay, OfSftp
      <3>11. HeldInv'
        BY <1>1, <1>2, <1>3, <1>4, <1>5, <2>1, <2>2, <3>1, <3>2, <3>3, <3>5 DEF SshInv, HeldInv, IdInv, SshTypeOK, UnderWay
      <3> QED
        BY <3>5, <3>6, <3>7, <3>8, <3>9, <3>10, <3>11 DEF SshInv
    <2>6. CASE channels' # {}
      <3>1. PICK k \in channels' : requests' = Append(again, [op |-> "close", id |-> k, by |-> "disposer"])
        BY <2>1, <2>6, Zenon DEF Disposer
      <3>2. UNCHANGED <<engine, panels, tab>>
        BY <2>1, <2>6, Zenon DEF Disposer
      <3> DEFINE m == [op |-> "close", id |-> k, by |-> "disposer"]
      <3>3. m \in Message /\ m.op = "close" /\ m.id = k /\ m.by = "disposer" /\ OfDisposer(m) /\ k \in ids /\ k \in channels
        BY <2>1 DEF Message, Closers, SshInv, SshTypeOK, IdInv, OfDisposer
      <3>4. requests' = Append(again, m)
        BY <3>1
      <3> HIDE DEF m
      <3>5. \A a \in L \cup R : ~OfDisposer(a) /\ a.op # "created"
        BY <2>3 DEF Late, OfDisposer, Marks
      <3>6. \A a \in L \cup R : MayFollow(a, m)
        BY <3>3, <3>5 DEF MayFollow, Marks, OfSftp
      <3>7. Line(inbox', requests') /\ Letters' = L /\ Waits' = R \cup {m}
        BY <1>1, <1>5, <3>3, <3>4, <3>6, Sent DEF Letters, Waits, L, R
      <3>8. SshTypeOK'
        BY <1>1, <1>2, <1>3, <1>4, <1>5, <2>1, <2>2, <2>3, <2>4, <3>2, <3>3, <3>7 DEF SshInv, SshTypeOK, Line
      <3>9. EngineInv'
        BY <1>1, <1>2, <1>3, <1>4, <1>5, <2>1, <2>2, <2>3, <2>4, <3>2, <3>3, <3>7 DEF SshInv, EngineInv, UnderWay, OfDisposer, Late
      <3>10. IdInv'
        BY <1>1, <1>2, <1>3, <1>4, <1>5, <2>1, <2>2, <2>3, <2>4, <3>2, <3>3, <3>7 DEF SshInv, IdInv, UnderWay, Marks
      <3>11. StartInv'
        BY <1>1, <1>2, <1>3, <1>4, <1>5, <2>1, <2>2, <2>3, <2>4, <3>2, <3>3, <3>7 DEF SshInv, StartInv, UnderWay, Marks
      <3>12. CreateInv'
        BY <1>1, <1>2, <1>3, <1>4, <1>5, <2>1, <2>2, <2>3, <2>4, <3>2, <3>3, <3>7 DEF SshInv, CreateInv, IdInv, UnderWay, OfSftp
      <3>13. HeldInv'
        BY <1>1, <1>2, <1>3, <1>4, <1>5, <2>1, <2>2, <2>3, <2>4, <3>2, <3>3, <3>7 DEF SshInv, HeldInv, IdInv, SshTypeOK, UnderWay
      <3> QED
        BY <3>7, <3>8, <3>9, <3>10, <3>11, <3>12, <3>13 DEF SshInv
    <2> QED
      BY <2>5, <2>6
  <1>8. CASE engine # "gone" /\ h.by # "disposer"
    <2>1. /\ channels' = channels \ {h.id} /\ requests' = again
          /\ UNCHANGED <<engine, blocked, disposing, panels, file, tab, opened>>
      BY <1>8, Zenon DEF OnClosed
    <2> HIDE DEF h, L, d, again
    <2>2. engine = "open" /\ ~OfDisposer(h) /\ ~OfDisposer(d)
      BY <1>1, <1>2, <1>4, <1>8 DEF SshInv, SshTypeOK, EngineInv, UnderWay, OfDisposer
    <2>3. Line(inbox', requests') /\ Letters' = L /\ Waits' = R
      BY <1>1, <1>5, <2>1 DEF Letters, Waits, L
    <2> HIDE DEF R
    <2>4. \A a \in L \cup R : a.op \in Marks => a.id # h.id
      BY <1>1, <1>2, <1>4, <1>5 DEF MayFollow, Marks
    <2>5. SshTypeOK'
      BY <1>1, <1>2, <1>3, <1>4, <1>5, <2>1, <2>2, <2>3, <2>4 DEF SshInv, SshTypeOK, Line
    <2>6. EngineInv'
      BY <1>1, <1>2, <1>3, <1>4, <1>5, <2>1, <2>2, <2>3, <2>4 DEF SshInv, EngineInv, UnderWay, OfDisposer, Late
    <2>7. IdInv'
      BY <1>1, <1>2, <1>3, <1>4, <1>5, <2>1, <2>2, <2>3, <2>4 DEF SshInv, IdInv, UnderWay, Marks
    <2>8. StartInv'
      BY <1>1, <1>2, <1>3, <1>4, <1>5, <2>1, <2>2, <2>3, <2>4 DEF SshInv, StartInv, UnderWay, Marks
    <2>9. CreateInv'
      BY <1>1, <1>2, <1>3, <1>4, <1>5, <2>1, <2>2, <2>3, <2>4 DEF SshInv, CreateInv, IdInv, UnderWay, OfSftp
    <2>10. HeldInv'
      BY <1>1, <1>2, <1>3, <1>4, <1>5, <2>1, <2>2, <2>3, <2>4 DEF SshInv, HeldInv, IdInv, SshTypeOK, UnderWay
    <2> QED
      BY <2>3, <2>5, <2>6, <2>7, <2>8, <2>9, <2>10 DEF SshInv
  <1> QED
    BY <1>6, <1>7, <1>8

LEMMA SshInitOK == SshInit => SshInv
  <1> SUFFICES ASSUME SshInit PROVE SshInv
    OBVIOUS
  <1> DEFINE m == [op |-> "connect"]
  <1>1. m \in Message /\ m.op = "connect"
    BY DEF Message
  <1>2. /\ engine = "connecting" /\ blocked \in BOOLEAN /\ disposing \in BOOLEAN /\ ~blocked /\ ~disposing
        /\ channels = {} /\ panels = {} /\ file \in {None, "wanted"} /\ tab = "open"
        /\ requests = <<m>> /\ inbox = <<>>
        /\ session = "none" /\ held = {} /\ reading = {} /\ ids = {} /\ opened = {}
    BY DEF SshInit
  <1> HIDE DEF m
  <1>3. /\ inbox \in Seq(Message) /\ DOMAIN inbox = {}
        /\ requests \in Seq(Message) /\ DOMAIN requests = {1} /\ requests[1] = m
    BY <1>1, <1>2
  <1>4. Letters = {} /\ Waits = {m} /\ Line(inbox, requests)
    BY <1>3 DEF Letters, Waits, Line, Chain, Has
  <1>5. file \notin Channels
    BY <1>2, SshAssumption DEF SshAssumption
  <1> QED
    BY <1>1, <1>2, <1>3, <1>4, <1>5
       DEF SshInv, SshTypeOK, EngineInv, IdInv, StartInv, CreateInv, HeldInv, UnderWay, OfDisposer, OfSftp, Late, Marks

LEMMA SshStep == SshInv /\ [SshNext]_sshVars => SshInv'
  <1> SUFFICES ASSUME SshInv, [SshNext]_sshVars PROVE SshInv'
    OBVIOUS
  <1>1. CASE UNCHANGED sshVars
    BY <1>1 DEF sshVars, tabVars, ssh, SshInv, SshTypeOK, EngineInv, IdInv, StartInv, CreateInv, HeldInv,
                UnderWay, Letters, Waits
  <1>2. CASE SshNext
    BY <1>2, HandleConnectKeeps, HandleCreateKeeps, HandleStartReadingKeeps, ReplyToStartKeeps,
       HandleCloseKeeps, HandleRemoveKeeps, HandleDisconnectKeeps, OutputKeeps, RemoteExitKeeps,
       OnConnectedKeeps, OnConnectFailedKeeps, CreateChannelKeeps, OnCreatedKeeps, OnStartedKeeps,
       OnClosedKeeps, OnOutputKeeps, OnExitKeeps, CloseByUserKeeps
       DEF SshNext, Strand, Page
  <1> QED
    BY <1>1, <1>2

LEMMA FrontendSshStep == SshInv /\ [FrontendNext]_frontendVars => SshInv'
  <1>1. [FrontendNext]_frontendVars => [SshNext]_sshVars
    BY DEF FrontendNext, SshEngine, ExecutingEngine, frontendVars
  <1> QED
    BY <1>1, SshStep

LEMMA SshAlways == FrontendSpec => []SshInv
  <1>1. FrontendInit => SshInv
    BY SshInitOK DEF FrontendInit
  <1> QED
    BY <1>1, FrontendSshStep, PTL DEF FrontendSpec

(* The replies to what the engine asked for on its own find it alive,      *)
(* whatever dies, is closed or is created while it is disposed of.         *)
THEOREM RepliesAreInTime == FrontendSpec => []RepliesFindTheirEngine
  <1>1. SshInv => RepliesFindTheirEngine
    <2>1. SUFFICES ASSUME SshInv, engine = "gone", inbox # <<>>
                   PROVE  \/ Head(inbox).op \in {"output", "exit"}
                          \/ Head(inbox).op = "close" /\ Head(inbox).by = "user"
      BY DEF RepliesFindTheirEngine
    <2>2. Head(inbox) \in Letters
      BY <2>1, Came DEF SshInv, Letters
    <2> QED
      BY <2>1, <2>2 DEF SshInv, EngineInv, StartInv, UnderWay, Late
  <1> QED
    BY <1>1, SshAlways, PTL

(* With nothing under way the page and the backend know the same channels. *)
THEOREM ChannelsAgreeAtRest == FrontendSpec => []ChannelsAgree
  <1>1. SshInv => ChannelsAgree
    <2>1. SUFFICES ASSUME SshInv, requests = <<>>, inbox = <<>>, engine = "open"
                   PROVE  held = channels \ {file}
      BY DEF ChannelsAgree
    <2>2. Letters = {} /\ Waits = {}
      BY <2>1 DEF Letters, Waits, Has
    <2>3. ~disposing
      BY <2>1, <2>2 DEF SshInv, EngineInv, UnderWay
    <2> QED
      BY <2>1, <2>2, <2>3 DEF SshInv, HeldInv
  <1> QED
    BY <1>1, SshAlways, PTL

-----------------------------------------------------------------------------
(***************************************************************************)
(* Local shells.  The page is told of a death only when the child was      *)
(* reaped, and what is reaped stays so.                                    *)
(***************************************************************************)
TabRecord == [engine : 1..MaxSessions, process : Processes \cup {Nobody}, title : Processes \cup {Nobody},
              step : {"opening", "layout", "panel", "open", "failed"}, timer : BOOLEAN, visible : BOOLEAN]

LocalLetter ==
    [op : {"spawned", "listed"}, engine : 1..MaxSessions, process : Processes \cup {Nobody}]
      \cup [op : {"died"}, process : Processes]

LocalCall ==
    [op : {"spawn", "exit", "list"}, engine : 1..MaxSessions, process : Processes \cup {Nobody}]

LocalTypeOK ==
    /\ child \in [Processes -> {"none", "running", "stopped", "dead", "reaped"}]
    /\ store \subseteq Processes
    /\ mail \in Seq(LocalLetter) /\ calls \in Seq(LocalCall) /\ sessions \in Seq(TabRecord)
    /\ added \in 0..MaxSessions

DeathIsReaped ==
    \A i \in DOMAIN mail : mail[i].op = "died" => child[mail[i].process] = "reaped"

LocalInv == LocalTypeOK /\ DeathIsReaped

LEMMA OneMore ==
  ASSUME NEW S, NEW s \in Seq(S), NEW m \in S
  PROVE  /\ Append(s, m) \in Seq(S) /\ DOMAIN s = 1..Len(s) /\ Len(s) \in Nat
         /\ DOMAIN Append(s, m) = DOMAIN s \cup {Len(s) + 1}
         /\ Append(s, m)[Len(s) + 1] = m
         /\ \A i \in DOMAIN s : Append(s, m)[i] = s[i]
  <1>1. /\ Append(s, m) \in Seq(S) /\ Len(Append(s, m)) = Len(s) + 1 /\ Append(s, m)[Len(s) + 1] = m
        /\ \A i \in 1..Len(s) : Append(s, m)[i] = s[i]
    BY AppendProperties
  <1>2. DOMAIN s = 1..Len(s) /\ Len(s) \in Nat /\ DOMAIN Append(s, m) = 1..(Len(s) + 1)
    BY <1>1, LenProperties
  <1>3. 1..(Len(s) + 1) = 1..Len(s) \cup {Len(s) + 1}
    BY <1>2
  <1> QED
    BY <1>1, <1>2, <1>3

LEMMA OneLess ==
  ASSUME NEW S, NEW s \in Seq(S), s # <<>>
  PROVE  /\ Head(s) \in S /\ Tail(s) \in Seq(S) /\ Head(s) = s[1] /\ 1 \in DOMAIN s
         /\ \A i \in DOMAIN Tail(s) : i + 1 \in DOMAIN s /\ Tail(s)[i] = s[i + 1]
  <1> DEFINE t == Tail(s)
  <1>1. /\ Len(s) \in Nat /\ 1 <= Len(s) /\ DOMAIN s = 1..Len(s)
        /\ Head(s) = s[1] /\ s[1] \in S
    BY EmptySeq, LenProperties, HeadTailProperties, ElementOfSeq
  <1>2. t \in Seq(S) /\ Len(t) = Len(s) - 1 /\ \A i \in 1..Len(t) : t[i] = s[i + 1]
    BY HeadTailProperties
  <1>3. DOMAIN t = 1..(Len(s) - 1)
    BY <1>2, LenProperties
  <1> HIDE DEF t
  <1>4. \A i \in DOMAIN t : i + 1 \in DOMAIN s /\ t[i] = s[i + 1]
    BY <1>1, <1>2, <1>3
  <1> QED
    BY <1>1, <1>2, <1>4 DEF t

\* A sequence whose places are all replaced.
LEMMA Replaced ==
  ASSUME NEW S, NEW n \in Nat, NEW s, s = [i \in 1..n |-> s[i]], \A i \in 1..n : s[i] \in S
  PROVE  s \in Seq(S) /\ DOMAIN s = 1..n /\ Len(s) = n
  OBVIOUS

\* Children that are reaped stay so, and what the page is told of is reaped.
DeathStep ==
    /\ \A p \in Processes : child[p] = "reaped" => child'[p] = "reaped"
    /\ \/ mail' = mail
       \/ mail # <<>> /\ mail' = Tail(mail)
       \/ \E m \in LocalLetter : mail' = Append(mail, m) /\ (m.op = "died" => child'[m.process] = "reaped")

LEMMA DeathStepKeeps ==
  ASSUME LocalInv, DeathStep
  PROVE  mail' \in Seq(LocalLetter) /\ DeathIsReaped'
  <1>1. mail \in Seq(LocalLetter) /\ \A i \in DOMAIN mail : mail[i] \in LocalLetter
    BY LenProperties, ElementOfSeq DEF LocalInv, LocalTypeOK
  <1>2. \A m \in LocalLetter : m.op = "died" => m.process \in Processes
    BY DEF LocalLetter
  <1>3. \A i \in DOMAIN mail : mail[i].op = "died" => child'[mail[i].process] = "reaped"
    BY <1>1, <1>2 DEF LocalInv, DeathIsReaped, DeathStep
  <1>4. CASE mail' = mail
    BY <1>1, <1>3, <1>4 DEF DeathIsReaped
  <1>5. CASE mail # <<>> /\ mail' = Tail(mail)
    <2>1. mail' \in Seq(LocalLetter) /\ \A i \in DOMAIN mail' : i + 1 \in DOMAIN mail /\ mail'[i] = mail[i + 1]
      BY <1>1, <1>5, OneLess
    <2> QED
      BY <1>3, <2>1 DEF DeathIsReaped
  <1>6. ASSUME NEW m \in LocalLetter, mail' = Append(mail, m), m.op = "died" => child'[m.process] = "reaped"
        PROVE  mail' \in Seq(LocalLetter) /\ DeathIsReaped'
    <2>1. /\ mail' \in Seq(LocalLetter) /\ DOMAIN mail' = DOMAIN mail \cup {Len(mail) + 1}
          /\ mail'[Len(mail) + 1] = m /\ \A i \in DOMAIN mail : mail'[i] = mail[i]
      BY <1>1, <1>6, OneMore
    <2> QED
      BY <1>3, <1>6, <2>1 DEF DeathIsReaped
  <1> QED
    BY <1>4, <1>5, <1>6 DEF DeathStep

\* Tabs keep their engines, and only that of a process that was reaped goes.
TabStep ==
    /\ sessions' \in Seq(TabRecord)
    /\ \A i \in DOMAIN sessions :
          \/ \E j \in DOMAIN sessions' : sessions'[j].engine = sessions[i].engine
          \/ child[sessions[i].process] = "reaped"

\* The tabs after a change that leaves their engines.
LEMMA TabsChanged ==
  ASSUME LocalInv, sessions' = [i \in DOMAIN sessions |-> sessions'[i]],
         \A i \in DOMAIN sessions : sessions'[i] \in TabRecord /\ sessions'[i].engine = sessions[i].engine
  PROVE  TabStep
  <1>1. DOMAIN sessions = 1..Len(sessions) /\ Len(sessions) \in Nat
    BY LenProperties DEF LocalInv, LocalTypeOK
  <1>2. sessions' \in Seq(TabRecord) /\ DOMAIN sessions' = DOMAIN sessions
    BY <1>1, Replaced
  <1> QED
    BY <1>2 DEF TabStep

LEMMA TabsKept ==
  ASSUME LocalInv, sessions' = sessions
  PROVE  TabStep
  BY DEF TabStep, LocalInv, LocalTypeOK

LEMMA TabsTyped ==
  ASSUME LocalInv
  PROVE  /\ sessions \in Seq(TabRecord) /\ DOMAIN sessions = 1..Len(sessions) /\ Len(sessions) \in Nat
         /\ \A i \in DOMAIN sessions : sessions[i] \in TabRecord
  BY LenProperties, ElementOfSeq DEF LocalInv, LocalTypeOK

LocalStep ==
    /\ child' \in [Processes -> {"none", "running", "stopped", "dead", "reaped"}]
    /\ store' \subseteq Processes /\ calls' \in Seq(LocalCall) /\ added' \in 0..MaxSessions
    /\ DeathStep /\ TabStep

LEMMA NothingLocal ==
  ASSUME LocalInv, UNCHANGED <<child, calls, store, mail, sessions, added>>
  PROVE  LocalStep
  BY TabsKept DEF LocalStep, DeathStep, LocalInv, LocalTypeOK

LEMMA BecomesKeeps ==
  ASSUME LocalInv, NEW p \in Processes, NEW from, NEW to \in {"stopped", "dead"},
         "reaped" \notin from, Becomes(p, from, to)
  PROVE  LocalStep
  <1>1. child' = [child EXCEPT ![p] = to] /\ child[p] # "reaped" /\ UNCHANGED <<calls, store, mail, sessions, added>>
    BY DEF Becomes, area
  <1>2. TabStep
    BY <1>1, TabsKept
  <1>3. child' \in [Processes -> {"none", "running", "stopped", "dead", "reaped"}]
    BY <1>1 DEF LocalInv, LocalTypeOK
  <1>4. DeathStep
    BY <1>1 DEF DeathStep, LocalInv, LocalTypeOK
  <1> QED
    BY <1>1, <1>2, <1>3, <1>4 DEF LocalStep, LocalInv, LocalTypeOK

LEMMA CallTaken ==
  ASSUME LocalInv, calls # <<>>
  PROVE  /\ Tail(calls) \in Seq(LocalCall)
         /\ Head(calls).engine \in 1..MaxSessions /\ Head(calls).process \in Processes \cup {Nobody}
  <1>1. Tail(calls) \in Seq(LocalCall) /\ Head(calls) \in LocalCall
    BY OneLess DEF LocalInv, LocalTypeOK
  <1> QED
    BY <1>1 DEF LocalCall

LEMMA HandleSpawnKeeps ==
  ASSUME LocalInv, HandleSpawn
  PROVE  LocalStep
  <1>1. calls # <<>> /\ calls' = Tail(calls) /\ UNCHANGED <<sessions, added>>
    BY DEF HandleSpawn, Calling, area
  <1>2. TabStep /\ calls' \in Seq(LocalCall) /\ Head(calls).engine \in 1..MaxSessions
    BY <1>1, CallTaken, TabsKept
  <1>3. ASSUME NEW p \in Processes, Emplaced(p),
               Tell([op |-> "spawned", engine |-> Head(calls).engine, process |-> p])
        PROVE  LocalStep
    <2> DEFINE m == [op |-> "spawned", engine |-> Head(calls).engine, process |-> p]
    <2>1. m \in LocalLetter /\ m.op # "died"
      BY <1>2 DEF LocalLetter
    <2>2. mail' = Append(mail, m) /\ child' = [child EXCEPT ![p] = "running"] /\ child[p] = "none"
          /\ store' = store \cup {p}
      BY <1>3 DEF Tell, Emplaced, Spawned
    <2> HIDE DEF m
    <2>3. DeathStep /\ child' \in [Processes -> {"none", "running", "stopped", "dead", "reaped"}]
      BY <2>1, <2>2 DEF DeathStep, LocalInv, LocalTypeOK
    <2> QED
      BY <1>1, <1>2, <2>2, <2>3 DEF LocalStep, LocalInv, LocalTypeOK
  <1>4. ASSUME Tell([op |-> "spawned", engine |-> Head(calls).engine, process |-> Nobody]),
               UNCHANGED <<child, store>>
        PROVE  LocalStep
    <2> DEFINE m == [op |-> "spawned", engine |-> Head(calls).engine, process |-> Nobody]
    <2>1. m \in LocalLetter /\ m.op # "died"
      BY <1>2 DEF LocalLetter
    <2>2. mail' = Append(mail, m)
      BY <1>4 DEF Tell
    <2> HIDE DEF m
    <2>3. DeathStep
      BY <1>4, <2>1, <2>2 DEF DeathStep
    <2> QED
      BY <1>1, <1>2, <1>4, <2>3 DEF LocalStep, LocalInv, LocalTypeOK
  <1> QED
    BY <1>3, <1>4 DEF HandleSpawn

LEMMA EraseReaps ==
  ASSUME LocalInv, NEW p \in store, Erase(p)
  PROVE  /\ child' \in [Processes -> {"none", "running", "stopped", "dead", "reaped"}]
         /\ store' \subseteq Processes /\ child'[p] = "reaped"
         /\ \A q \in Processes : child[q] = "reaped" => child'[q] = "reaped"
  <1>1. child' = [child EXCEPT ![p] = "reaped"] /\ store' = store \ {p}
    BY DEF Erase
  <1> QED
    BY <1>1 DEF LocalInv, LocalTypeOK

LEMMA HandleExitKeeps ==
  ASSUME LocalInv, HandleExit
  PROVE  LocalStep
  <1>1. calls # <<>> /\ calls' = Tail(calls) /\ UNCHANGED <<mail, sessions, added>>
    BY DEF HandleExit, Calling, area
  <1>2. TabStep /\ calls' \in Seq(LocalCall)
    BY <1>1, CallTaken, TabsKept
  <1>3. CASE Head(calls).process \in store
    <2>1. Erase(Head(calls).process)
      BY <1>3 DEF HandleExit
    <2> QED
      BY <1>1, <1>2, <1>3, <2>1, EraseReaps DEF LocalStep, DeathStep, LocalInv, LocalTypeOK
  <1>4. CASE Head(calls).process \notin store
    <2>1. UNCHANGED <<store, child>>
      BY <1>4 DEF HandleExit, system
    <2> QED
      BY <1>1, <1>2, <2>1 DEF LocalStep, DeathStep, LocalInv, LocalTypeOK
  <1> QED
    BY <1>3, <1>4

LEMMA HandleListKeeps ==
  ASSUME LocalInv, HandleList
  PROVE  LocalStep
  <1> DEFINE m == [op |-> "listed", engine |-> Head(calls).engine, process |-> Listed(Head(calls).process)]
  <1>1. calls # <<>> /\ calls' = Tail(calls) /\ mail' = Append(mail, m) /\ UNCHANGED <<child, store, sessions, added>>
    BY DEF HandleList, Calling, Tell, area, system
  <1>2. TabStep /\ calls' \in Seq(LocalCall) /\ Head(calls).engine \in 1..MaxSessions
    BY <1>1, CallTaken, TabsKept
  <1>3. m \in LocalLetter /\ m.op # "died"
    <2>1. Listed(Head(calls).process) \in Processes \cup {Nobody}
      BY DEF Listed, LocalInv, LocalTypeOK
    <2> QED
      BY <1>2, <2>1 DEF LocalLetter
  <1> HIDE DEF m
  <1>4. DeathStep
    BY <1>1, <1>3 DEF DeathStep
  <1> QED
    BY <1>1, <1>2, <1>4 DEF LocalStep, LocalInv, LocalTypeOK

\* A death is told of when the child was reaped.
LEMMA HandleNoticeKeeps ==
  ASSUME LocalInv, HandleNotice
  PROVE  LocalStep
  <1>1. PICK p \in notices : NotifyChildExit(p)
    BY DEF HandleNotice
  <1>2. UNCHANGED <<calls, sessions, added>>
    BY DEF HandleNotice, area
  <1>3. TabStep
    BY <1>2, TabsKept
  <1>4. CASE p \in store
    <2> DEFINE m == [op |-> "died", process |-> p]
    <2>1. Erase(p) /\ mail' = Append(mail, m)
      BY <1>1, <1>4 DEF NotifyChildExit, Tell
    <2>2. m \in LocalLetter /\ m.process = p
      BY <1>4 DEF LocalLetter, LocalInv, LocalTypeOK
    <2> HIDE DEF m
    <2>3. DeathStep
      BY <1>4, <2>1, <2>2, EraseReaps DEF DeathStep
    <2> QED
      BY <1>2, <1>3, <1>4, <2>1, <2>3, EraseReaps DEF LocalStep, LocalInv, LocalTypeOK
  <1>5. CASE p \notin store
    <2>1. UNCHANGED <<store, child, mail>>
      BY <1>1, <1>5 DEF NotifyChildExit, system
    <2> QED
      BY <1>2, <2>1, NothingLocal
  <1> QED
    BY <1>4, <1>5

\* What the page does to its tabs and its calls, when no tab goes.
LEMMA PageKeeps ==
  ASSUME LocalInv, TabStep, UNCHANGED <<child, store>>, added' \in 0..MaxSessions,
         mail' = mail \/ (mail # <<>> /\ mail' = Tail(mail)),
         calls' = calls \/ \E c \in LocalCall : calls' = Append(calls, c)
  PROVE  LocalStep
  <1>1. DeathStep
    BY DEF DeathStep
  <1>2. calls' \in Seq(LocalCall)
    <2>1. calls \in Seq(LocalCall)
      BY DEF LocalInv, LocalTypeOK
    <2>2. \A c \in LocalCall : Append(calls, c) \in Seq(LocalCall)
      BY <2>1, AppendProperties
    <2> QED
      BY <2>1, <2>2
  <1> QED
    BY <1>1, <1>2 DEF LocalStep, LocalInv, LocalTypeOK

LEMMA CallMade ==
  ASSUME NEW op \in {"spawn", "exit", "list"}, NEW e \in 1..MaxSessions, NEW p \in Processes \cup {Nobody}
  PROVE  [op |-> op, engine |-> e, process |-> p] \in LocalCall
  BY DEF LocalCall

LEMMA AddSessionKeeps ==
  ASSUME LocalInv, AddSession
  PROVE  LocalStep
  <1> DEFINE shown == [i \in DOMAIN sessions |-> [sessions[i] EXCEPT !.visible = @ /\ i - 1 # selected]]
             new == [engine |-> added', process |-> Nobody, title |-> Nobody, step |-> "opening",
                     timer |-> FALSE, visible |-> TRUE]
  <1>1. /\ added' = added + 1 /\ added < MaxSessions /\ sessions' = Append(shown, new)
        /\ calls' = Append(calls, [op |-> "spawn", engine |-> added', process |-> Nobody])
        /\ UNCHANGED <<child, store, mail>>
    BY DEF AddSession, system
  <1>2. added' \in 1..MaxSessions /\ added' \in 0..MaxSessions
    BY <1>1, LocalAssumption DEF LocalAssumption, LocalInv, LocalTypeOK
  <1>3. new \in TabRecord
    BY <1>2 DEF TabRecord
  <1>4. \A i \in DOMAIN sessions : shown[i] \in TabRecord /\ shown[i].engine = sessions[i].engine
    <2>1. ASSUME NEW i \in DOMAIN sessions, NEW v
          PROVE  /\ [sessions[i] EXCEPT !.visible = sessions[i].visible /\ v] \in TabRecord
                 /\ [sessions[i] EXCEPT !.visible = sessions[i].visible /\ v].engine = sessions[i].engine
      BY TabsTyped DEF TabRecord
    <2> QED
      BY <2>1
  <1>5. shown \in Seq(TabRecord) /\ DOMAIN shown = DOMAIN sessions
    <2>1. DOMAIN sessions = 1..Len(sessions) /\ Len(sessions) \in Nat
      BY TabsTyped
    <2>2. shown = [i \in 1..Len(sessions) |-> shown[i]]
      BY <2>1
    <2> HIDE DEF shown
    <2> QED
      BY <1>4, <2>1, <2>2, Replaced
  <1> HIDE DEF shown, new
  <1>6. TabStep
    <2>1. /\ sessions' \in Seq(TabRecord)
          /\ \A i \in DOMAIN shown : i \in DOMAIN sessions' /\ sessions'[i] = shown[i]
      BY <1>1, <1>3, <1>5, OneMore
    <2> QED
      BY <1>4, <1>5, <2>1 DEF TabStep
  <1>7. \E c \in LocalCall : calls' = Append(calls, c)
    BY <1>1, <1>2, CallMade
  <1> QED
    BY <1>1, <1>2, <1>6, <1>7, PageKeeps

\* One tab is changed but for its engine.
LEMMA TabChanged ==
  ASSUME LocalInv, NEW i \in DOMAIN sessions, NEW new \in TabRecord, new.engine = sessions[i].engine,
         sessions' = [sessions EXCEPT ![i] = new]
  PROVE  TabStep
  <1>1. sessions' = [j \in DOMAIN sessions |-> sessions'[j]]
    OBVIOUS
  <1>2. \A j \in DOMAIN sessions : sessions'[j] = IF j = i THEN new ELSE sessions[j]
    OBVIOUS
  <1>3. \A j \in DOMAIN sessions : sessions'[j] \in TabRecord /\ sessions'[j].engine = sessions[j].engine
    BY <1>2, TabsTyped
  <1> QED
    BY <1>1, <1>3, TabsChanged

LEMMA SelectTabKeeps ==
  ASSUME LocalInv, SelectTab
  PROVE  LocalStep
  <1>1. PICK i \in DOMAIN sessions :
            sessions' = [j \in DOMAIN sessions |-> [sessions[j] EXCEPT !.visible = (j = i)]]
    BY DEF SelectTab
  <1>2. UNCHANGED <<child, store, mail, calls, added>>
    BY DEF SelectTab, system
  <1>3. \A j \in DOMAIN sessions : sessions'[j] \in TabRecord /\ sessions'[j].engine = sessions[j].engine
    <2>1. ASSUME NEW j \in DOMAIN sessions, NEW v \in BOOLEAN
          PROVE  /\ [sessions[j] EXCEPT !.visible = v] \in TabRecord
                 /\ [sessions[j] EXCEPT !.visible = v].engine = sessions[j].engine
      BY TabsTyped DEF TabRecord
    <2>2. \A j \in DOMAIN sessions : (j = i) \in BOOLEAN
      OBVIOUS
    <2> QED
      BY <1>1, <2>1, <2>2
  <1>4. sessions' = [j \in DOMAIN sessions |-> sessions'[j]]
    BY <1>1
  <1> QED
    BY <1>2, <1>3, <1>4, TabsChanged, PageKeeps DEF LocalInv, LocalTypeOK

LEMMA CreateSingleChannelKeeps ==
  ASSUME LocalInv, CreateSingleChannel
  PROVE  LocalStep
  <1>1. PICK i \in DOMAIN sessions :
            /\ calls' = Append(calls, [op |-> "spawn", engine |-> sessions[i].engine, process |-> Nobody])
            /\ sessions' = [sessions EXCEPT ![i].step = "panel"]
    BY DEF CreateSingleChannel
  <1>2. UNCHANGED <<child, store, mail, added>>
    BY DEF CreateSingleChannel, system
  <1> DEFINE new == [sessions[i] EXCEPT !.step = "panel"]
  <1>3. new \in TabRecord /\ new.engine = sessions[i].engine /\ new.engine \in 1..MaxSessions
    BY TabsTyped DEF TabRecord
  <1>4. sessions' = [sessions EXCEPT ![i] = new]
    BY <1>1
  <1> HIDE DEF new
  <1>5. TabStep
    BY <1>3, <1>4, TabChanged
  <1>6. \E c \in LocalCall : calls' = Append(calls, c)
    BY <1>1, <1>3, CallMade
  <1> QED
    BY <1>2, <1>5, <1>6, PageKeeps DEF LocalInv, LocalTypeOK

LEMMA ProcInfoTimerKeeps ==
  ASSUME LocalInv, ProcInfoTimer
  PROVE  LocalStep
  <1>1. PICK i \in DOMAIN sessions :
            /\ sessions' = [sessions EXCEPT ![i].timer = FALSE]
            /\ calls' = Append(calls, [op |-> "list", engine |-> sessions[i].engine, process |-> sessions[i].process])
    BY DEF ProcInfoTimer
  <1>2. UNCHANGED <<child, store, mail, added>>
    BY DEF ProcInfoTimer, system
  <1> DEFINE new == [sessions[i] EXCEPT !.timer = FALSE]
  <1>3. new \in TabRecord /\ new.engine = sessions[i].engine /\ new.engine \in 1..MaxSessions
        /\ sessions[i].process \in Processes \cup {Nobody}
    BY TabsTyped DEF TabRecord
  <1>4. sessions' = [sessions EXCEPT ![i] = new]
    BY <1>1
  <1> HIDE DEF new
  <1>5. TabStep
    BY <1>3, <1>4, TabChanged
  <1>6. \E c \in LocalCall : calls' = Append(calls, c)
    BY <1>1, <1>3, CallMade
  <1> QED
    BY <1>2, <1>5, <1>6, PageKeeps DEF LocalInv, LocalTypeOK

LEMMA LetterTaken ==
  ASSUME LocalInv, mail # <<>>
  PROVE  /\ Head(mail) \in LocalLetter /\ Head(mail).process \in Processes \cup {Nobody}
         /\ Head(mail).op # "died" => Head(mail).engine \in 1..MaxSessions
         /\ Head(mail).op = "died" => child[Head(mail).process] = "reaped"
  <1>1. Head(mail) \in LocalLetter /\ Head(mail) = mail[1] /\ 1 \in DOMAIN mail
    BY OneLess DEF LocalInv, LocalTypeOK
  <1> QED
    BY <1>1 DEF LocalLetter, LocalInv, DeathIsReaped

LEMMA PlaceOfTab ==
  ASSUME LocalInv, NEW e
  PROVE  PositionOf(e) \in Nat
  <1>1. DOMAIN sessions \subseteq Nat /\ Len(sessions) + 1 \in Nat
    BY TabsTyped
  <1> QED
    BY <1>1 DEF PositionOf

LEMMA PositionOfTab ==
  ASSUME LocalInv, NEW e, ~(PositionOf(e) > Len(sessions))
  PROVE  PositionOf(e) \in DOMAIN sessions
  <1>1. Len(sessions) \in Nat
    BY TabsTyped
  <1>2. \E i \in DOMAIN sessions : sessions[i].engine = e
    BY <1>1 DEF PositionOf
  <1> QED
    BY <1>2 DEF PositionOf

LEMMA OnListedKeeps ==
  ASSUME LocalInv, OnListed
  PROVE  LocalStep
  <1> DEFINE p == Head(mail).process
             i == PositionOf(Head(mail).engine)
             new == [sessions[i] EXCEPT !.title = IF p = Nobody THEN @ ELSE p]
  <1>1. mail # <<>> /\ mail' = Tail(mail) /\ UNCHANGED <<child, store, added, calls>>
    BY DEF OnListed, Letter, system
  <1>2. p \in Processes \cup {Nobody}
    BY <1>1, LetterTaken
  <1>3. TabStep
    <2>1. CASE i > Len(sessions)
      BY <2>1, TabsKept DEF OnListed
    <2>2. CASE ~(i > Len(sessions))
      <3>1. i \in DOMAIN sessions
        BY <2>2, PositionOfTab
      <3>2. new \in TabRecord /\ new.engine = sessions[i].engine
        BY <1>2, <3>1, TabsTyped DEF TabRecord
      <3>3. sessions' = [sessions EXCEPT ![i] = new]
        BY <2>2 DEF OnListed
      <3> QED
        BY <3>1, <3>2, <3>3, TabChanged
    <2> QED
      BY <2>1, <2>2
  <1> QED
    BY <1>1, <1>3, PageKeeps DEF LocalInv, LocalTypeOK

LEMMA TabSettled ==
  ASSUME NEW shown \in TabRecord, NEW p \in Processes \cup {Nobody}, NEW timer \in BOOLEAN
  PROVE  LET new == [shown EXCEPT !.process = p, !.timer = timer,
                       !.step = IF shown.step = "opening" THEN "layout" ELSE "open"]
         IN  new \in TabRecord /\ new.engine = shown.engine
  BY DEF TabRecord

LEMMA OnSpawnedKeeps ==
  ASSUME LocalInv, OnSpawned
  PROVE  LocalStep
  <1> DEFINE p == Head(mail).process
             e == Head(mail).engine
             i == PositionOf(e)
  <1>1. mail # <<>> /\ mail' = Tail(mail) /\ Head(mail).op = "spawned" /\ UNCHANGED <<child, store, added>>
    BY DEF OnSpawned, Letter, system
  <1>2. p \in Processes \cup {Nobody} /\ e \in 1..MaxSessions
    BY <1>1, LetterTaken
  <1>3. CASE UNCHANGED <<sessions, calls>>
    BY <1>1, <1>3, TabsKept, PageKeeps DEF LocalInv, LocalTypeOK
  <1> DEFINE settled == [sessions[i] EXCEPT !.process = p, !.timer = sessions[i].engine \in Ptys,
                           !.step = IF sessions[i].step = "opening" THEN "layout" ELSE "open"]
  <1>4. CASE i \in DOMAIN sessions /\ UNCHANGED calls /\ sessions' = [sessions EXCEPT ![i] = settled]
    <2>1. sessions[i] \in TabRecord
      BY <1>4, TabsTyped
    <2>2. (sessions[i].engine \in Ptys) \in BOOLEAN
      OBVIOUS
    <2>3. settled \in TabRecord /\ settled.engine = sessions[i].engine
      BY ZenonT(60), <1>2, <2>1, <2>2, TabSettled
    <2> HIDE DEF settled, i, p, e
    <2>4. TabStep
      BY <1>4, <2>3, TabChanged
    <2> QED
      BY <1>1, <1>4, <2>4, PageKeeps DEF LocalInv, LocalTypeOK
  <1>5. CASE /\ i \in DOMAIN sessions /\ sessions' = [sessions EXCEPT ![i].step = "failed"]
             /\ calls' = Append(calls, [op |-> "exit", engine |-> e, process |-> Nobody])
    <2> DEFINE new == [sessions[i] EXCEPT !.step = "failed"]
    <2>1. sessions[i] \in TabRecord
      BY <1>5, TabsTyped
    <2>2. new \in TabRecord /\ new.engine = sessions[i].engine
      BY <2>1 DEF TabRecord
    <2>3. sessions' = [sessions EXCEPT ![i] = new]
      BY <1>5
    <2>4. TabStep
      BY <1>5, <2>2, <2>3, TabChanged
    <2>5. \E c \in LocalCall : calls' = Append(calls, c)
      BY <1>2, <1>5, CallMade
    <2> QED
      BY <1>1, <2>4, <2>5, PageKeeps DEF LocalInv, LocalTypeOK
  <1>6. CASE i > Len(sessions)
    <2>1. i \in Nat /\ Len(sessions) \in Nat
      BY PlaceOfTab, TabsTyped
    <2>2. ~(i <= Len(sessions))
      BY <1>6, <2>1
    <2>3. UNCHANGED <<sessions, calls>>
      BY <1>6, <2>2 DEF OnSpawned
    <2> QED
      BY <1>3, <2>3
  <1>7. CASE ~(i > Len(sessions))
    <2>1. i \in DOMAIN sessions /\ i <= Len(sessions)
      BY <1>7, PositionOfTab, TabsTyped
    <2>2. \/ UNCHANGED <<sessions, calls>>
          \/ sessions' = [sessions EXCEPT ![i] = settled] /\ UNCHANGED calls
          \/ /\ sessions' = [sessions EXCEPT ![i].step = "failed"]
             /\ calls' = Append(calls, [op |-> "exit", engine |-> e, process |-> Nobody])
      BY <1>7, <2>1 DEF OnSpawned
    <2> HIDE DEF settled, i, p, e
    <2> QED
      BY <1>3, <1>4, <1>5, <2>1, <2>2
  <1> QED
    BY <1>6, <1>7

\* Whatever is made visible or hidden, the tabs are the same.
LEMMA SelectedKeepsEngines ==
  ASSUME LocalInv, NEW index \in Int
  PROVE  /\ SetSelected(index)[1] = [k \in DOMAIN sessions |-> SetSelected(index)[1][k]]
         /\ \A k \in DOMAIN sessions : /\ SetSelected(index)[1][k] \in TabRecord
                                       /\ SetSelected(index)[1][k].engine = sessions[k].engine
  <1>1. ASSUME NEW k \in DOMAIN sessions, NEW v \in BOOLEAN
        PROVE  /\ [sessions[k] EXCEPT !.visible = v] \in TabRecord
               /\ [sessions[k] EXCEPT !.visible = v].engine = sessions[k].engine
    BY TabsTyped DEF TabRecord
  <1> DEFINE raised == [k \in DOMAIN sessions |->
                 [sessions[k] EXCEPT !.visible = IF k = index + 1 THEN TRUE ELSE @ /\ k - 1 # selected]]
             lowered == [k \in DOMAIN sessions |-> [sessions[k] EXCEPT !.visible = @ /\ k - 1 # selected]]
  <1>2. SetSelected(index)[1] = raised \/ SetSelected(index)[1] = lowered
    BY DEF SetSelected
  <1>3. /\ raised = [k \in DOMAIN sessions |-> raised[k]]
        /\ \A k \in DOMAIN sessions : raised[k] \in TabRecord /\ raised[k].engine = sessions[k].engine
    <2>1. \A k \in DOMAIN sessions :
             (IF k = index + 1 THEN TRUE ELSE sessions[k].visible /\ k - 1 # selected) \in BOOLEAN
      OBVIOUS
    <2> QED
      BY <1>1, <2>1
  <1>4. /\ lowered = [k \in DOMAIN sessions |-> lowered[k]]
        /\ \A k \in DOMAIN sessions : lowered[k] \in TabRecord /\ lowered[k].engine = sessions[k].engine
    <2>1. \A k \in DOMAIN sessions : (sessions[k].visible /\ k - 1 # selected) \in BOOLEAN
      OBVIOUS
    <2> QED
      BY <1>1, <2>1
  <1> HIDE DEF raised, lowered
  <1> QED
    BY <1>2, <1>3, <1>4

LEMMA RemoveSessionKeeps ==
  ASSUME LocalInv, NEW i \in DOMAIN sessions, child[sessions[i].process] = "reaped", RemoveSession(i),
         UNCHANGED <<child, store, added>>, mail # <<>>, mail' = Tail(mail)
  PROVE  LocalStep
  <1> DEFINE n == Len(sessions)
             at(j) == IF j < i THEN j ELSE j + 1
             moved == IF sessions[i].visible /\ n > 1 THEN SetSelected(i - 2) ELSE <<sessions, selected>>
             moved1 == moved[1]
  <1>1. /\ sessions' = [j \in 1..(n - 1) |-> moved1[at(j)]]
        /\ calls' = Append(calls, [op |-> "exit", engine |-> sessions[i].engine, process |-> sessions[i].process])
    BY DEF RemoveSession, Leave
  <1>2. DOMAIN sessions = 1..n /\ n \in Nat /\ i \in 1..n
    BY TabsTyped
  <1>3. \A k \in 1..n : moved1[k] \in TabRecord /\ moved1[k].engine = sessions[k].engine
    <2>1. i - 2 \in Int
      BY <1>2
    <2>2. CASE sessions[i].visible /\ n > 1
      <3>1. moved1 = SetSelected(i - 2)[1]
        BY <2>2
      <3> HIDE DEF moved1
      <3> QED
        BY <1>2, <2>1, <3>1, SelectedKeepsEngines
    <2>3. CASE ~(sessions[i].visible /\ n > 1)
      <3>1. moved1 = sessions
        BY <2>3
      <3> HIDE DEF moved1
      <3> QED
        BY <1>2, <3>1, TabsTyped
    <2> QED
      BY <2>2, <2>3
  <1> HIDE DEF moved1
  <1>4. n - 1 \in Nat /\ \A j \in 1..(n - 1) : at(j) \in 1..n
    BY <1>2
  <1>5. \A j \in 1..(n - 1) : sessions'[j] = moved1[at(j)]
    BY <1>1
  <1>6. sessions' \in Seq(TabRecord) /\ DOMAIN sessions' = 1..(n - 1)
    <2>1. sessions' = [j \in 1..(n - 1) |-> sessions'[j]]
      BY <1>1
    <2> HIDE DEF at, n
    <2> QED
      BY <1>3, <1>4, <1>5, <2>1, Replaced
  <1>7. ASSUME NEW k \in 1..n, k # i
        PROVE  \E j \in 1..(n - 1) : at(j) = k
    <2>1. CASE k < i
      BY <1>2, <1>7, <2>1
    <2>2. CASE k > i
      <3>1. k - 1 \in 1..(n - 1) /\ at(k - 1) = k
        BY <1>2, <2>2
      <3> QED
        BY <3>1
    <2> QED
      BY <1>2, <1>7, <2>1, <2>2
  <1>8. TabStep
    <2>1. ASSUME NEW k \in DOMAIN sessions
          PROVE  \/ \E j \in DOMAIN sessions' : sessions'[j].engine = sessions[k].engine
                 \/ child[sessions[k].process] = "reaped"
      <3>1. CASE k = i
        BY <3>1
      <3>2. CASE k # i
        <4>1. PICK j \in 1..(n - 1) : at(j) = k
          BY <1>2, <1>7, <3>2
        <4> HIDE DEF at, n
        <4>2. sessions'[j].engine = sessions[k].engine
          BY <1>2, <1>3, <1>5, <4>1
        <4> QED
          BY <1>6, <4>2
      <3> QED
        BY <3>1, <3>2
    <2> QED
      BY <1>6, <2>1 DEF TabStep
  <1>9. \E c \in LocalCall : calls' = Append(calls, c)
    <2>1. sessions[i].engine \in 1..MaxSessions /\ sessions[i].process \in Processes \cup {Nobody}
      BY TabsTyped DEF TabRecord
    <2> QED
      BY <1>1, <2>1, CallMade
  <1> QED
    BY <1>8, <1>9, PageKeeps DEF LocalInv, LocalTypeOK

\* A set of naturals has a least member.
LEMMA LeastOne ==
  ASSUME NEW T, T \subseteq Nat, T # {}
  PROVE  \E x \in T : \A y \in T : x <= y
  <1> DEFINE R == OpToRel(<, Nat)
  <1>1. IsWellFoundedOn(R, Nat)
    BY NatLessThanWellFounded
  <1>2. \A x, y \in Nat : y < x => <<y, x>> \in R
    BY DEF OpToRel
  <1> HIDE DEF R
  <1>3. PICK x \in T : \A y \in T : ~(<<y, x>> \in R)
    BY <1>1, WFMin
  <1>4. \A y \in T : ~(y < x)
    BY <1>2, <1>3
  <1> QED
    BY <1>3, <1>4

\* The tab that goes is the first of the process that died.
LEMMA ProcessDiedKeeps ==
  ASSUME LocalInv, ProcessDied
  PROVE  LocalStep
  <1> DEFINE of == {k \in DOMAIN sessions : sessions[k].process = Head(mail).process}
             i == CHOOSE k \in of : \A j \in of : k <= j
             n == Len(sessions)
  <1>1. mail # <<>> /\ mail' = Tail(mail) /\ Head(mail).op = "died" /\ UNCHANGED <<child, store, added>>
    BY DEF ProcessDied, Letter, system
  <1>2. child[Head(mail).process] = "reaped"
    BY <1>1, LetterTaken
  <1>3. CASE of = {}
    <2>1. UNCHANGED <<sessions, calls>>
      BY <1>3 DEF ProcessDied
    <2> QED
      BY <1>1, <2>1, TabsKept, PageKeeps DEF LocalInv, LocalTypeOK
  <1>4. CASE of # {}
    <2>1. RemoveSession(i)
      BY <1>4 DEF ProcessDied
    <2>2. DOMAIN sessions = 1..n /\ n \in Nat
      BY TabsTyped
    <2>3. of \subseteq Nat /\ of \subseteq DOMAIN sessions
      BY <2>2
    <2>4. \E k \in of : \A j \in of : k <= j
      <3> HIDE DEF of
      <3> QED
        BY <1>4, <2>3, LeastOne
    <2>5. i \in of
      BY <2>4
    <2>6. i \in DOMAIN sessions /\ child[sessions[i].process] = "reaped"
      BY <1>2, <2>5
    <2> HIDE DEF of, i, n
    <2> QED
      BY <1>1, <2>1, <2>6, RemoveSessionKeeps
  <1> QED
    BY <1>3, <1>4

LEMMA LocalInitOK == LocalInit => LocalInv
  <1> SUFFICES ASSUME LocalInit PROVE LocalInv
    OBVIOUS
  <1>1. /\ child = [p \in Processes |-> "none"] /\ store = {} /\ added = 0
        /\ mail = <<>> /\ calls = <<>> /\ sessions = <<>>
    BY DEF LocalInit
  <1>2. 0 \in 0..MaxSessions
    BY LocalAssumption DEF LocalAssumption
  <1> QED
    BY <1>1, <1>2 DEF LocalInv, LocalTypeOK, DeathIsReaped

LEMMA LocalStepOK == LocalInv /\ [LocalNext]_localVars => LocalStep
  <1> SUFFICES ASSUME LocalInv, [LocalNext]_localVars PROVE LocalStep
    OBVIOUS
  <1>1. CASE UNCHANGED localVars
    <2>1. UNCHANGED <<child, calls, store, mail, sessions, added>>
      BY <1>1 DEF localVars, system, area
    <2> QED
      BY <2>1, NothingLocal
  <1>2. CASE Die
    BY <1>2, BecomesKeeps DEF Die
  <1>3. CASE Stop
    <2>1. Stops \subseteq Processes
      BY LocalAssumption DEF LocalAssumption, Processes
    <2> QED
      BY <1>3, <2>1, BecomesKeeps DEF Stop
  <1>4. CASE SignalHandler
    <2>1. UNCHANGED <<child, calls, store, mail, sessions, added>>
      BY <1>4 DEF SignalHandler, area
    <2> QED
      BY <2>1, NothingLocal
  <1>5. CASE ChildSignalTimer
    <2>1. UNCHANGED <<child, calls, store, mail, sessions, added>>
      BY <1>5 DEF ChildSignalTimer, system, area
    <2> QED
      BY <2>1, NothingLocal
  <1>6. CASE LocalNext /\ ~(Die \/ Stop \/ SignalHandler \/ ChildSignalTimer)
    BY <1>6, HandleNoticeKeeps, HandleSpawnKeeps, HandleExitKeeps, HandleListKeeps, OnSpawnedKeeps,
       OnListedKeeps, ProcessDiedKeeps, AddSessionKeeps, SelectTabKeeps, CreateSingleChannelKeeps,
       ProcInfoTimerKeeps
       DEF LocalNext, WindowThread, LocalPage
  <1> QED
    BY <1>1, <1>2, <1>3, <1>4, <1>5, <1>6

LEMMA LocalInvKept == LocalInv /\ LocalStep => LocalInv'
  BY DeathStepKeeps DEF LocalStep, TabStep, LocalInv, LocalTypeOK

LEMMA FrontendLocalStep == LocalInv /\ [FrontendNext]_frontendVars => LocalStep
  <1>1. [FrontendNext]_frontendVars => [LocalNext]_localVars
    BY DEF FrontendNext, SshEngine, ExecutingEngine, frontendVars
  <1> QED
    BY <1>1, LocalStepOK

(* A tab is closed only when its process is gone and reaped: however the   *)
(* letters, deaths and calls of several tabs are interleaved, the tab that *)
(* SessionArea::processDied removes is one whose own child is waited for.  *)
THEOREM TabClosesAfterItsProcess == FrontendSpec => TabClosesWithItsProcess
  <1>1. FrontendInit => LocalInv
    BY LocalInitOK DEF FrontendInit
  <1>2. LocalInv /\ [FrontendNext]_frontendVars => LocalInv'
    BY FrontendLocalStep, LocalInvKept
  <1>3. LocalInv /\ [FrontendNext]_frontendVars =>
          [\A i \in DOMAIN sessions :
              (\A j \in DOMAIN sessions' : sessions'[j].engine # sessions[i].engine)
                  => child[sessions[i].process] = "reaped"]_localVars
    BY FrontendLocalStep DEF LocalStep, TabStep
  <1> QED
    BY <1>1, <1>2, <1>3, PTL DEF FrontendSpec, TabClosesWithItsProcess
=============================================================================
