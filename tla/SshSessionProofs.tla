--------------------------- MODULE SshSessionProofs ---------------------------
(***************************************************************************)
(* Theorems about the objects of an SSH session: every task of the         *)
(* processing thread finds its object although it holds a plain pointer,   *)
(* no file handle is forgotten, and every channel is told to close.  They  *)
(* rest on what the strand does between pushing a task and going on: it    *)
(* waits for whatever makes or ends an object, and pushes nothing behind.  *)
(***************************************************************************)
EXTENDS SshSession, SequenceTheorems, TLAPS

-----------------------------------------------------------------------------
(* The queue of the processing thread. *)

ChannelOps == {"createChannel", "closeChannel", "write"}
SftpOps == {"createSftp", "closeSftp", "sftp"}
StreamOps == {"openFile", "stream", "transfer", "rest", "closeStream", "closeHandle"}
Task == [op : ChannelOps \cup SftpOps \cup StreamOps, obj : Channels \cup Sftps \cup Streams, waited : BOOLEAN]

\* A task is about an object of its kind; a stream's was opened by its SFTP session.
OfItsKind(t) ==
    /\ t.op \in ChannelOps => t.obj \in Channels
    /\ t.op \in SftpOps => t.obj \in Sftps
    /\ t.op \in StreamOps => t.obj \in Streams /\ sftpOf[t.obj] # None
    /\ t.op \in {"closeChannel", "closeSftp"} => t.obj \in finalized

\* What makes or ends an object is waited for until it is done.
NotGivenUp(t) ==
    /\ t.op \in {"createChannel", "createSftp", "closeChannel", "closeSftp", "closeStream"} => t.waited
    /\ t.op \in {"write", "closeHandle"} => ~t.waited

\* The strand waits for one task at a time, after which it pushes no other.
AwaitedInv ==
    \A i \in DOMAIN queue : queue[i].waited =>
        /\ doing # Idle /\ ans = "none" /\ doing.obj = queue[i].obj
        /\ doing.op = queue[i].op \/ (doing.op = "transfer" /\ queue[i].op = "rest")
        /\ \A j \in DOMAIN queue : j > i => queue[j].op \in {"rest", "closeHandle"} /\ ~queue[j].waited

\* The object of a task is in its container.
Kept(t) ==
    /\ t.op = "write" => t.obj \in RangeOf(channels)
    /\ t.op = "sftp" => t.obj \in RangeOf(sftps)
    /\ t.op \in {"stream", "transfer", "closeStream"} => t.obj \in RangeOf(streams[sftpOf[t.obj]])

TasksInv == \A i \in DOMAIN queue : OfItsKind(queue[i]) /\ NotGivenUp(queue[i]) /\ Kept(queue[i])

ContainersInv ==
    /\ queue \in Seq(Task) /\ channels \in Seq(Channels) /\ sftps \in Seq(Sftps)
    /\ streams \in [Sftps -> Seq(Streams)] /\ sftpOf \in [Streams -> Sftps \cup {None}]
    /\ \A s \in Sftps : RangeOf(streams[s]) \subseteq {f \in Streams : sftpOf[f] = s}
    /\ finalized \subseteq Channels \cup Sftps

SessionInv == ContainersInv /\ TasksInv /\ AwaitedInv

\* A channel that the server opened is ours until it is told to close.
OpenedInv ==
    /\ opened \cap Channels \subseteq said \cup RangeOf(channels)
    /\ down \in {"sftps", "stop", "done"} =>
          channels = <<>> /\ \A i \in DOMAIN queue : queue[i].op # "createChannel"

-----------------------------------------------------------------------------
(* Sequences. *)

LEMMA Objects ==
  /\ None \notin Channels /\ None \notin Sftps /\ None \notin Streams
  /\ Channels \cap Sftps = {} /\ Channels \cap Streams = {} /\ Sftps \cap Streams = {}
  BY SshSessionAssumption DEF SshSessionAssumption

LEMMA Appended ==
  ASSUME NEW S, NEW s \in Seq(S), NEW x \in S
  PROVE  /\ Append(s, x) \in Seq(S) /\ RangeOf(Append(s, x)) = RangeOf(s) \cup {x}
         /\ \A i \in DOMAIN Append(s, x) :
               (i \in DOMAIN s /\ Append(s, x)[i] = s[i]) \/ (i = Len(s) + 1 /\ Append(s, x)[i] = x)
         /\ \A i \in DOMAIN s : i \in DOMAIN Append(s, x) /\ Append(s, x)[i] = s[i] /\ i < Len(s) + 1
  <1> DEFINE a == Append(s, x)
  <1>1. /\ a \in Seq(S) /\ Len(a) = Len(s) + 1 /\ Len(s) \in Nat /\ DOMAIN s = 1..Len(s) /\ DOMAIN a = 1..Len(a)
        /\ \A i \in 1..Len(s) : a[i] = s[i]
        /\ a[Len(s) + 1] = x
    BY AppendProperties, LenProperties
  <1> HIDE DEF a
  <1>2. /\ \A i \in DOMAIN a : (i \in DOMAIN s /\ a[i] = s[i]) \/ (i = Len(s) + 1 /\ a[i] = x)
        /\ \A i \in DOMAIN s : i \in DOMAIN a /\ a[i] = s[i] /\ i < Len(s) + 1
        /\ Len(s) + 1 \in DOMAIN a
    BY <1>1
  <1>3. RangeOf(a) = RangeOf(s) \cup {x}
    BY <1>1, <1>2 DEF RangeOf
  <1> QED
    BY <1>1, <1>2, <1>3 DEF a

LEMMA Dropped ==
  ASSUME NEW S, NEW s \in Seq(S), NEW x
  PROVE  /\ Drop(s, x) \in Seq(S)
         /\ RangeOf(Drop(s, x)) \subseteq RangeOf(s) /\ RangeOf(s) \ {x} \subseteq RangeOf(Drop(s, x))
  <1>1. CASE x \notin RangeOf(s)
    BY <1>1 DEF Drop
  <1>2. CASE x \in RangeOf(s)
    <2> DEFINE n == CHOOSE i \in DOMAIN s : s[i] = x
               a == SubSeq(s, 1, n - 1)
               b == SubSeq(s, n + 1, Len(s))
               d == a \o b
    <2>1. n \in DOMAIN s /\ s[n] = x
      BY <1>2 DEF RangeOf
    <2>2. DOMAIN s = 1..Len(s) /\ Len(s) \in Nat /\ \A i \in 1..Len(s) : s[i] \in S
      BY LenProperties, ElementOfSeq
    <2>3. Drop(s, x) = d
      BY <1>2 DEF Drop
    <2> HIDE DEF n
    <2>4. n \in Nat /\ 1 <= n /\ n <= Len(s)
      BY <2>1, <2>2
    <2>5. /\ a \in Seq(S) /\ Len(a) = n - 1 /\ \A i \in 1..(n - 1) : a[i] = s[i]
      <3>1. \A i \in 1..(n - 1) : s[i] \in S
        BY <2>2, <2>4
      <3>2. /\ a \in Seq(S) /\ Len(a) = IF 1 <= n - 1 THEN n - 1 - 1 + 1 ELSE 0
            /\ \A i \in 1..(n - 1 - 1 + 1) : a[i] = s[1 + i - 1]
        BY <2>4, <3>1, SubSeqProperties
      <3> HIDE DEF a
      <3> QED
        BY <2>4, <3>2
    <2>6. /\ b \in Seq(S) /\ Len(b) = Len(s) - n /\ \A i \in 1..(Len(s) - n) : b[i] = s[n + i]
      <3>1. \A i \in (n + 1)..Len(s) : s[i] \in S
        BY <2>2, <2>4
      <3>2. /\ b \in Seq(S) /\ Len(b) = IF n + 1 <= Len(s) THEN Len(s) - (n + 1) + 1 ELSE 0
            /\ \A i \in 1..(Len(s) - (n + 1) + 1) : b[i] = s[n + 1 + i - 1]
        BY <2>2, <2>4, <3>1, SubSeqProperties
      <3> HIDE DEF b
      <3>3. Len(b) = Len(s) - n
        <4>1. \A k, l \in Nat : k <= l => (IF k + 1 <= l THEN l - (k + 1) + 1 ELSE 0) = l - k
          OBVIOUS
        <4> QED
          BY <2>2, <2>4, <3>2, <4>1
      <3>4. ASSUME NEW i \in 1..(Len(s) - n) PROVE b[i] = s[n + i]
        <4>1. i \in 1..(Len(s) - (n + 1) + 1) /\ n + 1 + i - 1 = n + i
          BY <2>2, <2>4
        <4> QED
          BY <3>2, <4>1
      <3> QED
        BY <3>2, <3>3, <3>4
    <2> HIDE DEF a, b
    <2>7. /\ d \in Seq(S) /\ Len(d) = Len(a) + Len(b) /\ DOMAIN d = 1..Len(d)
          /\ \A i \in 1..Len(a) : d[i] = a[i]
          /\ \A i \in 1..Len(b) : d[Len(a) + i] = b[i]
      <3>1. d \in Seq(S) /\ Len(d) = Len(a) + Len(b)
        BY <2>5, <2>6, ConcatProperties
      <3>2. \A i \in 1..Len(d) : d[i] = IF i <= Len(a) THEN a[i] ELSE b[i - Len(a)]
        BY <2>5, <2>6, ConcatProperties
      <3>3. Len(a) \in Nat /\ Len(b) \in Nat
        BY <2>5, <2>6, LenProperties
      <3>4. DOMAIN d = 1..Len(d)
        BY <3>1, LenProperties
      <3> HIDE DEF d
      <3>5. \A i \in 1..Len(a) : d[i] = a[i]
        BY <3>1, <3>2, <3>3
      <3>6. ASSUME NEW i \in 1..Len(b) PROVE d[Len(a) + i] = b[i]
        <4>1. Len(a) + i \in 1..Len(d) /\ ~(Len(a) + i <= Len(a)) /\ Len(a) + i - Len(a) = i
          BY <3>1, <3>3
        <4> QED
          BY <3>2, <4>1
      <3> QED
        BY <3>1, <3>4, <3>5, <3>6
    <2> HIDE DEF d
    <2>8. ASSUME NEW i \in DOMAIN d PROVE \E k \in DOMAIN s : d[i] = s[k]
      <3>1. CASE i <= n - 1
        <4>1. i \in 1..Len(a) /\ i \in 1..(n - 1) /\ i \in DOMAIN s
          BY <2>2, <2>4, <2>5, <2>7, <3>1
        <4> QED
          BY <2>5, <2>7, <4>1
      <3>2. CASE ~(i <= n - 1)
        <4> DEFINE j == i - (n - 1)
        <4>1. j \in 1..Len(b) /\ j \in 1..(Len(s) - n) /\ i = Len(a) + j /\ n + j \in DOMAIN s
          BY SMTT(30), <2>2, <2>4, <2>5, <2>6, <2>7, <3>2
        <4> HIDE DEF j
        <4>2. d[i] = s[n + j]
          BY <2>6, <2>7, <4>1
        <4> QED
          BY <4>1, <4>2
      <3> QED
        BY <3>1, <3>2
    <2>9. ASSUME NEW k \in DOMAIN s, k # n PROVE \E i \in DOMAIN d : d[i] = s[k]
      <3>1. CASE k < n
        <4>1. k \in 1..Len(a) /\ k \in 1..(n - 1) /\ k \in DOMAIN d
          BY <2>2, <2>4, <2>5, <2>6, <2>7, <3>1
        <4> QED
          BY <2>5, <2>7, <4>1
      <3>2. CASE k > n
        <4> DEFINE j == k - n
        <4>1. j \in 1..Len(b) /\ j \in 1..(Len(s) - n) /\ Len(a) + j \in DOMAIN d /\ n + j = k
          BY SMTT(30), <2>2, <2>4, <2>5, <2>6, <2>7, <3>2
        <4> HIDE DEF j
        <4>2. d[Len(a) + j] = s[k]
          BY <2>6, <2>7, <4>1
        <4> QED
          BY <4>1, <4>2
      <3> QED
        BY <2>2, <2>4, <2>9, <3>1, <3>2
    <2>10. \A y \in RangeOf(d) : y \in RangeOf(s)
      BY <2>8 DEF RangeOf
    <2>11. \A y \in RangeOf(s) : y # x => y \in RangeOf(d)
      BY <2>1, <2>9 DEF RangeOf
    <2> QED
      BY <2>3, <2>7, <2>10, <2>11
  <1> QED
    BY <1>1, <1>2

\* The queue after its first task has run, which pushed at most one.
LEMMA Shifted ==
  ASSUME NEW S, NEW q \in Seq(S), q # <<>>, NEW r, r = <<>> \/ \E x \in S : r = <<x>>
  PROVE  LET p == Tail(q) \o r
         IN  /\ p \in Seq(S) /\ 1 \in DOMAIN q /\ Head(q) = q[1] /\ q[1] \in S
             /\ \A i \in DOMAIN p : \/ i + 1 \in DOMAIN q /\ i + 1 > 1 /\ p[i] = q[i + 1]
                                    \/ i = Len(q) /\ r = <<p[i]>>
             /\ \A i \in DOMAIN q : i = 1 \/ (i - 1 \in DOMAIN p /\ p[i - 1] = q[i])
             /\ \A x \in S : r = <<x>> => Len(q) \in DOMAIN p /\ p[Len(q)] = x
             /\ DOMAIN p \subseteq Nat /\ DOMAIN q \subseteq Nat /\ \A i \in DOMAIN q : i <= Len(q)
  <1> DEFINE a == Tail(q)
             p == a \o r
  <1>1. /\ a \in Seq(S) /\ Len(a) = Len(q) - 1 /\ \A i \in 1..Len(a) : a[i] = q[i + 1]
        /\ Head(q) \in S /\ Head(q) = q[1]
    BY HeadTailProperties
  <1>2. /\ Len(q) \in Nat /\ Len(q) >= 1 /\ DOMAIN q = 1..Len(q)
    BY LenProperties, EmptySeq
  <1>3. r \in Seq(S) /\ Len(r) \in {0, 1} /\ (r = <<>> => Len(r) = 0) /\ \A x \in S : r = <<x>> => Len(r) = 1 /\ r[1] = x
    <2>1. <<>> \in Seq(S) /\ Len(<<>>) = 0
      BY EmptySeq
    <2>2. \A x \in S : <<x>> \in Seq(S) /\ Len(<<x>>) = 1 /\ <<x>>[1] = x
      OBVIOUS
    <2>3. Len(r) \in {0, 1}
      BY <2>1, <2>2
    <2> QED
      BY <2>1, <2>2, <2>3
  <1>4. Len(r) = 1 => r = <<r[1]>>
    OBVIOUS
  <1> HIDE DEF a
  <1>5. /\ p \in Seq(S) /\ Len(p) = Len(a) + Len(r)
        /\ \A i \in 1..Len(p) : p[i] = IF i <= Len(a) THEN a[i] ELSE r[i - Len(a)]
    <2>1. a \in Seq(S) /\ r \in Seq(S)
      BY <1>1, <1>3
    <2>2. /\ p \in Seq(S) /\ Len(p) = Len(a) + Len(r)
          /\ \A i \in 1..(Len(a) + Len(r)) : p[i] = IF i <= Len(a) THEN a[i] ELSE r[i - Len(a)]
      BY <2>1, ConcatProperties, Zenon
    <2> QED
      BY <2>2
  <1>6. DOMAIN p = 1..Len(p)
    BY <1>5, LenProperties
  <1> HIDE DEF p
  <1>7. ASSUME NEW i \in DOMAIN p
        PROVE  \/ i + 1 \in DOMAIN q /\ i + 1 > 1 /\ p[i] = q[i + 1]
               \/ i = Len(q) /\ r = <<p[i]>>
    <2>1. CASE i <= Len(a)
      <3>1. i \in 1..Len(a) /\ i \in 1..Len(p) /\ i + 1 \in DOMAIN q /\ i + 1 > 1
        BY <1>1, <1>2, <1>6, <2>1
      <3> QED
        BY <1>1, <1>5, <2>1, <3>1
    <2>2. CASE ~(i <= Len(a))
      <3>1. i = Len(q) /\ i - Len(a) = 1 /\ Len(r) = 1 /\ i \in 1..Len(p)
        <4>1. Len(r) \in {0, 1} /\ Len(p) = Len(a) + Len(r) /\ Len(a) = Len(q) - 1 /\ i \in 1..Len(p)
          BY <1>1, <1>3, <1>5, <1>6
        <4>2. \A k, j \in Nat, l \in {0, 1} : j <= k - 1 + l /\ ~(j <= k - 1) => j = k /\ j - (k - 1) = 1 /\ l = 1
          OBVIOUS
        <4>3. i \in Nat /\ i <= Len(p)
          BY <4>1
        <4>4. i <= Len(q) - 1 + Len(r) /\ ~(i <= Len(q) - 1)
          BY <2>2, <4>1, <4>3
        <4>5. i = Len(q) /\ i - (Len(q) - 1) = 1 /\ Len(r) = 1
          BY <1>2, <4>1, <4>2, <4>3, <4>4
        <4> QED
          BY <4>1, <4>5
      <3>2. p[i] = r[1]
        BY <1>5, <2>2, <3>1
      <3> QED
        BY <1>4, <3>1, <3>2
    <2> QED
      BY <2>1, <2>2
  <1>8. ASSUME NEW i \in DOMAIN q, i # 1 PROVE i - 1 \in DOMAIN p /\ p[i - 1] = q[i]
    <2> DEFINE j == i - 1
    <2>1. j \in 1..Len(a) /\ j \in 1..Len(p) /\ j <= Len(a) /\ j + 1 = i
      BY <1>1, <1>2, <1>3, <1>5, <1>8
    <2> HIDE DEF j
    <2>2. j \in DOMAIN p /\ p[j] = q[i]
      BY <1>1, <1>5, <1>6, <2>1
    <2> QED
      BY <2>2 DEF j
  <1>9. ASSUME NEW x \in S, r = <<x>> PROVE Len(q) \in DOMAIN p /\ p[Len(q)] = x
    <2>1. Len(r) = 1 /\ r[1] = x
      BY <1>3, <1>9
    <2>2. Len(q) \in 1..Len(p) /\ ~(Len(q) <= Len(a)) /\ Len(q) - Len(a) = 1
      BY <1>1, <1>2, <1>5, <2>1
    <2> QED
      BY <1>5, <1>6, <2>1, <2>2
  <1> QED
    BY <1>1, <1>2, <1>5, <1>6, <1>7, <1>8, <1>9 DEF p, a

-----------------------------------------------------------------------------
(* The steps, by what they do to the queue. *)

Grown ==
    /\ RangeOf(channels) \subseteq RangeOf(channels') /\ RangeOf(sftps) \subseteq RangeOf(sftps')
    /\ \A s \in Sftps : RangeOf(streams[s]) \subseteq RangeOf(streams'[s])

\* Nothing is pushed or run; perhaps the strand's call returns.
Quiet ==
    /\ UNCHANGED <<queue, owners, remote, opened, said, finalized>>
    /\ \/ UNCHANGED <<doing, ans>>
       \/ ans # "none" /\ doing' = Idle
    /\ \/ down' \in {down, "channels"} \/ down \in {"sftps", "stop"}
       \/ down = "channels" /\ doing = Idle /\ channels = <<>>

\* The strand pushes a task.
Pushes(t) ==
    /\ t \in Task /\ doing = Idle /\ queue' = Append(queue, t)
    /\ IF t.waited THEN doing' = [op |-> t.op, obj |-> t.obj] /\ ans' = "none" ELSE UNCHANGED doing
    /\ OfItsKind(t)' /\ NotGivenUp(t) /\ Kept(t)
    /\ t.op \in {"stream", "transfer", "closeStream"} => sftpOf[t.obj] # None
    /\ t.op \notin {"rest", "closeHandle"}
    /\ UNCHANGED <<channels, sftps, streams, owned, remote, opened, said, down>>
    /\ finalized \subseteq finalized' /\ finalized' \subseteq Channels \cup Sftps
    /\ sftpOf' \in [Streams -> Sftps \cup {None}]
    /\ \A f \in Streams : sftpOf[f] # None => sftpOf'[f] = sftpOf[f]
    /\ t.op = "createChannel" => down = "no"

LEMMA CallPushes ==
  ASSUME NEW op, NEW x, Call(op, x)
  PROVE  LET t == [op |-> op, obj |-> x, waited |-> TRUE]
         IN  /\ doing = Idle /\ queue' = Append(queue, t) /\ down = "no"
             /\ doing' = [op |-> op, obj |-> x] /\ ans' = "none"
  BY DEF Call, CanCall

LEMMA CreatePushes ==
  ASSUME SessionInv, CreatePtyChannel \/ CreateSftpSession
  PROVE  \E t : Pushes(t)
  <1>1. PICK op \in {"createChannel", "createSftp"}, x \in Channels \cup Sftps :
            /\ Call(op, x)
            /\ op = "createChannel" => x \in Channels
            /\ op = "createSftp" => x \in Sftps
    BY DEF CreatePtyChannel, CreateSftpSession
  <1> DEFINE t == [op |-> op, obj |-> x, waited |-> TRUE]
  <1>2. /\ doing = Idle /\ queue' = Append(queue, t) /\ down = "no"
        /\ doing' = [op |-> op, obj |-> x] /\ ans' = "none"
    BY <1>1, CallPushes
  <1>3. UNCHANGED <<owners, remote, opened, said, finalized, down>>
    BY DEF CreatePtyChannel, CreateSftpSession, server, strands, ending
  <1>4. t \in Task /\ t.op = op /\ t.obj = x /\ t.waited
    BY DEF Task, ChannelOps, SftpOps
  <1> HIDE DEF t
  <1>5. OfItsKind(t)' /\ NotGivenUp(t) /\ Kept(t)
    BY <1>1, <1>4 DEF OfItsKind, NotGivenUp, Kept, ChannelOps, SftpOps, StreamOps
  <1>6. Pushes(t)
    BY <1>1, <1>2, <1>3, <1>4, <1>5 DEF Pushes, owners, SessionInv, ContainersInv
  <1> QED
    BY <1>6

\* What is alive while the strand is idle is in its container.
LEMMA AliveInContainer ==
  ASSUME doing = Idle, NEW x \in Channels \cup Sftps \cup Streams, Alive(x), SessionInv
  PROVE  /\ x \in Channels => x \in RangeOf(channels)
         /\ x \in Sftps => x \in RangeOf(sftps)
         /\ x \in Streams => sftpOf[x] # None /\ x \in RangeOf(streams[sftpOf[x]])
  <1>1. RangeOf(channels) \subseteq Channels /\ RangeOf(sftps) \subseteq Sftps
    BY ElementOfSeq, LenProperties DEF RangeOf, SessionInv, ContainersInv
  <1> QED
    BY <1>1, Objects DEF Alive, Idle

LEMMA RequestPushes ==
  ASSUME SessionInv, SftpRequest \/ TransferAll \/ CloseStream
  PROVE  \E t : Pushes(t)
  <1>1. PICK op \in {"sftp", "stream", "transfer", "closeStream"}, x \in Sftps \cup Streams :
            Call(op, x) /\ Alive(x) /\ (op = "sftp" => x \in Sftps) /\ (op # "sftp" => x \in Streams)
    BY DEF SftpRequest, TransferAll, CloseStream
  <1> DEFINE t == [op |-> op, obj |-> x, waited |-> TRUE]
  <1>2. /\ doing = Idle /\ queue' = Append(queue, t) /\ down = "no"
        /\ doing' = [op |-> op, obj |-> x] /\ ans' = "none"
    BY <1>1, CallPushes
  <1>3. UNCHANGED <<owners, remote, opened, said, finalized, down>>
    BY DEF SftpRequest, TransferAll, CloseStream, server, strands, ending
  <1>4. t \in Task /\ t.op = op /\ t.obj = x /\ t.waited
    BY DEF Task, SftpOps, StreamOps
  <1> HIDE DEF t
  <1>5. /\ x \in Sftps => x \in RangeOf(sftps)
        /\ x \in Streams => sftpOf[x] # None /\ x \in RangeOf(streams[sftpOf[x]])
    BY <1>1, <1>2, AliveInContainer
  <1>6. OfItsKind(t)' /\ NotGivenUp(t) /\ Kept(t)
    BY <1>1, <1>3, <1>4, <1>5 DEF OfItsKind, NotGivenUp, Kept, ChannelOps, SftpOps, StreamOps, owners
  <1>7. /\ t.op \in {"stream", "transfer", "closeStream"} => sftpOf[t.obj] # None
        /\ t.op \notin {"rest", "closeHandle", "createChannel"}
    BY <1>1, <1>4, <1>5
  <1>8. Pushes(t)
    BY <1>2, <1>3, <1>4, <1>6, <1>7 DEF Pushes, owners, SessionInv, ContainersInv
  <1> QED
    BY <1>8

LEMMA OpenPushes ==
  ASSUME SessionInv, OpenFile
  PROVE  \E t : Pushes(t)
  <1>1. PICK s \in Sftps, f \in Streams :
            /\ sftpOf[f] = None /\ sftpOf' = [sftpOf EXCEPT ![f] = s] /\ Call("openFile", f)
    BY DEF OpenFile
  <1> DEFINE t == [op |-> "openFile", obj |-> f, waited |-> TRUE]
  <1>2. /\ doing = Idle /\ queue' = Append(queue, t) /\ down = "no"
        /\ doing' = [op |-> "openFile", obj |-> f] /\ ans' = "none"
    BY <1>1, CallPushes
  <1>3. UNCHANGED <<channels, sftps, streams, owned, remote, opened, said, finalized, down>>
    BY DEF OpenFile, server, strands, ending
  <1>4. t \in Task /\ t.op = "openFile" /\ t.obj = f /\ t.waited
    BY DEF Task, StreamOps
  <1> HIDE DEF t
  <1>5. /\ sftpOf' \in [Streams -> Sftps \cup {None}] /\ sftpOf'[f] = s /\ s # None
        /\ \A g \in Streams : sftpOf[g] # None => sftpOf'[g] = sftpOf[g]
    BY <1>1, Objects DEF SessionInv, ContainersInv
  <1>6. OfItsKind(t)' /\ NotGivenUp(t) /\ Kept(t)
    BY <1>1, <1>4, <1>5 DEF OfItsKind, NotGivenUp, Kept, ChannelOps, SftpOps, StreamOps
  <1>7. Pushes(t)
    BY <1>2, <1>3, <1>4, <1>5, <1>6 DEF Pushes, SessionInv, ContainersInv
  <1> QED
    BY <1>7

LEMMA WritePushes ==
  ASSUME SessionInv, WriteOrResize
  PROVE  \E t : Pushes(t)
  <1>1. PICK c \in Channels : Alive(c) /\ queue' = Append(queue, [op |-> "write", obj |-> c, waited |-> FALSE])
    BY DEF WriteOrResize
  <1>2. doing = Idle /\ UNCHANGED <<owners, remote, opened, said, finalized, down, doing>>
    BY DEF WriteOrResize, CanCall, server, strands, ending
  <1> DEFINE t == [op |-> "write", obj |-> c, waited |-> FALSE]
  <1>3. t \in Task /\ t.op = "write" /\ t.obj = c /\ t.waited = FALSE /\ queue' = Append(queue, t)
    BY <1>1 DEF Task, ChannelOps
  <1> HIDE DEF t
  <1>4. c \in RangeOf(channels)
    BY <1>1, <1>2, AliveInContainer
  <1>5. OfItsKind(t)' /\ NotGivenUp(t) /\ Kept(t)
    BY <1>3, <1>4 DEF OfItsKind, NotGivenUp, Kept, ChannelOps, SftpOps, StreamOps
  <1>6. Pushes(t)
    BY <1>2, <1>3, <1>5 DEF Pushes, owners, SessionInv, ContainersInv
  <1> QED
    BY <1>6

LEMMA ClosePushes ==
  ASSUME SessionInv, NEW op \in {"closeChannel", "closeSftp"}, NEW x \in Channels \cup Sftps,
         op = "closeChannel" => x \in Channels, op = "closeSftp" => x \in Sftps,
         doing = Idle, Finalize(x, op), doing' = [op |-> op, obj |-> x], ans' = "none",
         UNCHANGED <<owners, remote, opened, said, down>>
  PROVE  \E t : Pushes(t)
  <1> DEFINE t == [op |-> op, obj |-> x, waited |-> TRUE]
  <1>1. queue' = Append(queue, t) /\ finalized' = finalized \cup {x}
    BY DEF Finalize
  <1>2. t \in Task /\ t.op = op /\ t.obj = x /\ t.waited
    BY DEF Task, ChannelOps, SftpOps
  <1> HIDE DEF t
  <1>3. OfItsKind(t)' /\ NotGivenUp(t) /\ Kept(t)
    BY <1>1, <1>2 DEF OfItsKind, NotGivenUp, Kept, ChannelOps, SftpOps, StreamOps
  <1>4. Pushes(t)
    BY <1>1, <1>2, <1>3 DEF Pushes, owners, SessionInv, ContainersInv
  <1> QED
    BY <1>4

LEMMA RemovePushes ==
  ASSUME SessionInv, RemoveChannel \/ CloseSftp
  PROVE  \E t : Pushes(t)
  <1>1. PICK op \in {"closeChannel", "closeSftp"}, x \in Channels \cup Sftps :
            /\ op = "closeChannel" => x \in Channels
            /\ op = "closeSftp" => x \in Sftps
            /\ Finalize(x, op) /\ doing' = [op |-> op, obj |-> x] /\ ans' = "none"
    BY DEF RemoveChannel, CloseSftp
  <1>2. doing = Idle /\ UNCHANGED <<owners, remote, opened, said, down>>
    BY DEF RemoveChannel, CloseSftp, CanCall, server, ending
  <1> QED
    BY <1>1, <1>2, ClosePushes

LEMMA ShutdownStep ==
  ASSUME SessionInv, Shutdown
  PROVE  Quiet \/ \E t : Pushes(t)
  <1>1. CASE StopThread
    BY <1>1 DEF StopThread, Quiet, owners, server, strands, caller
  <1>2. ASSUME NEW container, NEW op \in {"closeChannel", "closeSftp"}, CloseBack(container, op),
               (container = channels /\ op = "closeChannel") \/ (container = sftps /\ op = "closeSftp")
        PROVE  \E t : Pushes(t)
    <2> DEFINE x == container[Len(container)]
    <2>1. container # <<>> /\ container \in Seq(IF op = "closeChannel" THEN Channels ELSE Sftps)
      BY <1>2 DEF CloseBack, SessionInv, ContainersInv
    <2>2. x \in IF op = "closeChannel" THEN Channels ELSE Sftps
      BY <2>1, EmptySeq, LenProperties, ElementOfSeq
    <2>3. /\ doing = Idle /\ Finalize(x, op) /\ doing' = [op |-> op, obj |-> x] /\ ans' = "none"
          /\ UNCHANGED <<owners, remote, opened, said, down>>
      BY <1>2 DEF CloseBack, server, ending
    <2> HIDE DEF x
    <2>4. x \in Channels \cup Sftps /\ (op = "closeChannel" => x \in Channels) /\ (op = "closeSftp" => x \in Sftps)
      BY <2>2
    <2> QED
      BY <2>3, <2>4, ClosePushes
  <1>3. CASE RemoveAllChannels \/ RemoveAllSftpSessions
    <2>1. \/ CloseBack(channels, "closeChannel") \/ CloseBack(sftps, "closeSftp")
          \/ /\ doing = Idle /\ (down = "channels" => channels = <<>>) /\ down \in {"channels", "sftps"}
             /\ UNCHANGED <<queue, owners, server, strands, caller>>
      BY <1>3 DEF RemoveAllChannels, RemoveAllSftpSessions, RemoveAll
    <2> QED
      BY <1>2, <2>1 DEF Quiet, owners, server, strands, caller
  <1> QED
    BY <1>1, <1>3 DEF Shutdown

\* What a task leaves in the queue.
Leaves(t, r) ==
    \/ r = <<>>
    \/ \E n \in Task : /\ r = <<n>> /\ n.op \in {"rest", "closeHandle"} /\ OfItsKind(n) /\ NotGivenUp(n) /\ n.obj = t.obj
                       /\ n.waited => t.waited /\ n.op = "rest" /\ t.op = "transfer" /\ UNCHANGED ans

\* A task runs.
Runs(t, r) ==
    /\ queue # <<>> /\ t = Head(queue) /\ t \in Task /\ OfItsKind(t) /\ NotGivenUp(t)
    /\ queue' = Tail(queue) \o r /\ Leaves(t, r)
    /\ (t.waited \/ UNCHANGED ans)
    /\ UNCHANGED <<doing, sftpOf, finalized, down>>
    /\ channels' \in Seq(Channels) /\ sftps' \in Seq(Sftps) /\ streams' \in [Sftps -> Seq(Streams)]
    /\ \A s \in Sftps : RangeOf(streams'[s]) \subseteq {f \in Streams : sftpOf[f] = s}
    /\ Grown \/ t.op \in {"closeChannel", "closeSftp", "closeStream"}
    \* the handles
    /\ owned' \subseteq owned \cup Streams
    /\ \A f \in remote' : f \in remote \/ f \in owned'
    /\ t.op = "closeHandle" => t.obj \notin remote'
    /\ \A f \in owned : \/ f \in owned' \/ sftpOf[f] \in finalized
                        \/ r = <<[op |-> "closeHandle", obj |-> f, waited |-> FALSE]>>
    \* the channels
    /\ said \subseteq said' /\ opened' \cap Channels \subseteq opened \cup RangeOf(channels')
    /\ RangeOf(channels) \subseteq RangeOf(channels') \cup said'
    /\ t.op = "createChannel" \/ RangeOf(channels') \subseteq RangeOf(channels)

LEMMA FirstTask ==
  ASSUME SessionInv, queue # <<>>
  PROVE  LET t == Head(queue)
         IN  /\ t \in Task /\ OfItsKind(t) /\ NotGivenUp(t) /\ Kept(t) /\ t = queue[1] /\ 1 \in DOMAIN queue
  <1>1. queue \in Seq(Task) /\ Head(queue) = queue[1] /\ Head(queue) \in Task
    BY HeadTailProperties DEF SessionInv, ContainersInv
  <1>2. 1 \in DOMAIN queue
    BY <1>1, EmptySeq, LenProperties
  <1> QED
    BY <1>1, <1>2 DEF SessionInv, TasksInv

\* Nothing is pushed and no container changes.
LEMMA RunsPlain ==
  ASSUME SessionInv, queue # <<>>, NEW t, t = Head(queue), queue' = Tail(queue) \o <<>>,
         t.waited \/ UNCHANGED ans, UNCHANGED <<doing, owners, opened, said, finalized, down>>,
         remote' = IF t.op = "closeHandle" THEN remote \ {t.obj} ELSE remote
  PROVE  Runs(t, <<>>)
  BY FirstTask DEF Runs, Leaves, Grown, owners, SessionInv, ContainersInv

LEMMA RunTaskRuns ==
  ASSUME SessionInv, RunTask
  PROVE  \E t, r : Runs(t, r)
  <1> DEFINE t == Head(queue)
  <1>1. /\ queue # <<>> /\ t \in Task /\ OfItsKind(t) /\ NotGivenUp(t) /\ Kept(t)
        /\ UNCHANGED <<doing, down>>
    BY FirstTask DEF RunTask, ending
  <1>2. \/ CreatesChannel(t) \/ CreatesSftp(t) \/ ClosesChannel(t) \/ ClosesSftp(t)
        \/ OpensFile(t) \/ Transfers(t) \/ ClosesStream(t) \/ ClosesHandle(t) \/ Performs(t)
    BY DEF RunTask
  <1>3. /\ channels \in Seq(Channels) /\ sftps \in Seq(Sftps) /\ streams \in [Sftps -> Seq(Streams)]
        /\ sftpOf \in [Streams -> Sftps \cup {None}]
        /\ \A s \in Sftps : RangeOf(streams[s]) \subseteq {f \in Streams : sftpOf[f] = s}
    BY DEF SessionInv, ContainersInv
  <1>4. t = Head(queue)
    OBVIOUS
  <1> HIDE DEF t
  <1>5. ASSUME NEW a, Answer(t, a) PROVE t.waited \/ UNCHANGED ans
    BY <1>5 DEF Answer
  <1>6. CASE Performs(t) \/ ClosesHandle(t)
    <2>1. /\ queue' = Tail(queue) \o <<>> /\ (t.waited \/ UNCHANGED ans)
          /\ UNCHANGED <<owners, opened, said, finalized>>
          /\ remote' = IF t.op = "closeHandle" THEN remote \ {t.obj} ELSE remote
      BY <1>5, <1>6 DEF Performs, ClosesHandle, Push, server, strands
    <2> QED
      BY <1>1, <1>4, <2>1, RunsPlain
  <1>7. CASE CreatesChannel(t)
    <2>1. /\ t.op = "createChannel" /\ queue' = Tail(queue) \o <<>> /\ (t.waited \/ UNCHANGED ans)
          /\ UNCHANGED <<sftps, streams, sftpOf, owned, remote, said, finalized>>
          /\ \/ channels' = Append(channels, t.obj) /\ opened' = opened \cup {t.obj}
             \/ UNCHANGED <<channels, opened>>
      BY <1>5, <1>7 DEF CreatesChannel, Push, strands
    <2>2. t.obj \in Channels
      BY <1>1, <2>1 DEF OfItsKind, ChannelOps
    <2>3. Append(channels, t.obj) \in Seq(Channels) /\ RangeOf(Append(channels, t.obj)) = RangeOf(channels) \cup {t.obj}
      BY <1>3, <2>2, Appended
    <2>4. /\ channels' \in Seq(Channels) /\ RangeOf(channels) \subseteq RangeOf(channels')
          /\ opened' \cap Channels \subseteq opened \cup RangeOf(channels')
      BY <1>3, <2>1, <2>3
    <2>5. Runs(t, <<>>)
      BY <1>1, <1>3, <1>4, <2>1, <2>4 DEF Runs, Leaves, Grown
    <2> QED
      BY <2>5
  <1>8. CASE CreatesSftp(t)
    <2>1. /\ t.op = "createSftp" /\ queue' = Tail(queue) \o <<>> /\ (t.waited \/ UNCHANGED ans)
          /\ UNCHANGED <<channels, streams, sftpOf, owned, remote, said, finalized>>
          /\ \/ sftps' = Append(sftps, t.obj) /\ opened' = opened \cup {t.obj}
             \/ UNCHANGED <<sftps, opened>>
      BY <1>5, <1>8 DEF CreatesSftp, Push, strands
    <2>2. t.obj \in Sftps /\ t.obj \notin Channels
      BY <1>1, <2>1, Objects DEF OfItsKind, SftpOps
    <2>3. Append(sftps, t.obj) \in Seq(Sftps) /\ RangeOf(Append(sftps, t.obj)) = RangeOf(sftps) \cup {t.obj}
      BY <1>3, <2>2, Appended
    <2>4. /\ sftps' \in Seq(Sftps) /\ RangeOf(sftps) \subseteq RangeOf(sftps')
          /\ opened' \cap Channels \subseteq opened
      BY <1>3, <2>1, <2>2, <2>3
    <2>5. Runs(t, <<>>)
      BY <1>1, <1>3, <1>4, <2>1, <2>4 DEF Runs, Leaves, Grown
    <2> QED
      BY <2>5
  <1>9. CASE ClosesChannel(t)
    <2>1. /\ t.op = "closeChannel" /\ queue' = Tail(queue) \o <<>> /\ (t.waited \/ UNCHANGED ans)
          /\ UNCHANGED <<sftps, streams, sftpOf, owned, remote, opened, finalized>>
          /\ said' = said \cup {t.obj} /\ channels' = Drop(channels, t.obj)
      BY <1>5, <1>9 DEF ClosesChannel, Push, strands
    <2>2. /\ channels' \in Seq(Channels) /\ RangeOf(channels') \subseteq RangeOf(channels)
          /\ RangeOf(channels) \subseteq RangeOf(channels') \cup said'
      BY <1>3, <2>1, Dropped
    <2>3. Runs(t, <<>>)
      BY <1>1, <1>3, <1>4, <2>1, <2>2 DEF Runs, Leaves
    <2> QED
      BY <2>3
  <1>10. CASE ClosesSftp(t)
    <2>1. /\ t.op = "closeSftp" /\ queue' = Tail(queue) \o <<>> /\ (t.waited \/ UNCHANGED ans)
          /\ UNCHANGED <<channels, sftpOf, remote, opened, said, finalized>>
          /\ owned' = owned \ RangeOf(streams[t.obj]) /\ streams' = [streams EXCEPT ![t.obj] = <<>>]
          /\ sftps' = Drop(sftps, t.obj)
      BY <1>5, <1>10 DEF ClosesSftp, Push, strands, server
    <2>2. t.obj \in Sftps /\ t.obj \in finalized
      BY <1>1, <2>1 DEF OfItsKind, SftpOps
    <2>3. sftps' \in Seq(Sftps)
      BY <1>3, <2>1, Dropped
    <2>4. \A f \in owned : f \in owned' \/ sftpOf[f] \in finalized
      BY <1>3, <2>1, <2>2
    <2>5. /\ streams' \in [Sftps -> Seq(Streams)]
          /\ \A s \in Sftps : RangeOf(streams'[s]) \subseteq {f \in Streams : sftpOf[f] = s}
      <3>1. <<>> \in Seq(Streams) /\ RangeOf(<<>>) = {}
        BY EmptySeq DEF RangeOf
      <3>2. /\ streams' \in [Sftps -> Seq(Streams)]
            /\ \A s \in Sftps : streams'[s] = IF s = t.obj THEN <<>> ELSE streams[s]
        BY <1>3, <2>1, <3>1
      <3> QED
        BY <1>3, <3>1, <3>2
    <2>6. Runs(t, <<>>)
      BY <1>1, <1>3, <1>4, <2>1, <2>3, <2>4, <2>5 DEF Runs, Leaves
    <2> QED
      BY <2>6
  <1>11. CASE OpensFile(t)
    <2> DEFINE s == sftpOf[t.obj]
    <2>1. /\ t.op = "openFile" /\ queue' = Tail(queue) \o <<>> /\ (t.waited \/ UNCHANGED ans)
          /\ UNCHANGED <<channels, sftps, sftpOf, opened, said, finalized>>
          /\ \/ /\ streams' = [streams EXCEPT ![s] = Append(streams[s], t.obj)]
                /\ owned' = owned \cup {t.obj} /\ remote' = remote \cup {t.obj}
             \/ UNCHANGED <<streams, owned, remote>>
      BY <1>5, <1>11 DEF OpensFile, Push, strands
    <2>2. t.obj \in Streams /\ s \in Sftps
      BY <1>1, <1>3, <2>1 DEF OfItsKind, StreamOps
    <2>3. /\ Append(streams[s], t.obj) \in Seq(Streams)
          /\ RangeOf(Append(streams[s], t.obj)) = RangeOf(streams[s]) \cup {t.obj}
      BY <1>3, <2>2, Appended
    <2>4. /\ streams' \in [Sftps -> Seq(Streams)]
          /\ \A p \in Sftps : RangeOf(streams'[p]) \subseteq {f \in Streams : sftpOf[f] = p}
          /\ \A p \in Sftps : RangeOf(streams[p]) \subseteq RangeOf(streams'[p])
      <3>1. CASE streams' = [streams EXCEPT ![s] = Append(streams[s], t.obj)]
        <4>1. /\ streams' \in [Sftps -> Seq(Streams)]
              /\ \A p \in Sftps : streams'[p] = IF p = s THEN Append(streams[s], t.obj) ELSE streams[p]
          BY <1>3, <2>2, <2>3, <3>1
        <4> QED
          BY ZenonT(60), <1>3, <2>2, <2>3, <4>1
      <3> QED
        BY <1>3, <2>1, <3>1
    <2>5. /\ owned' \subseteq owned \cup Streams /\ \A f \in owned : f \in owned'
          /\ \A f \in remote' : f \in remote \/ f \in owned'
      BY <2>1, <2>2
    <2> HIDE DEF s
    <2>6. /\ t.op = "openFile" /\ queue' = Tail(queue) \o <<>> /\ (t.waited \/ UNCHANGED ans)
          /\ UNCHANGED <<channels, sftps, sftpOf, opened, said, finalized>>
      BY <2>1
    <2>7. Runs(t, <<>>)
      BY <1>1, <1>3, <1>4, <2>4, <2>5, <2>6 DEF Runs, Leaves, Grown
    <2> QED
      BY <2>7
  <1>12. CASE Transfers(t)
    <2>1. /\ t.op \in {"transfer", "rest"} /\ UNCHANGED <<owners, remote, opened, said, finalized>>
          /\ \/ queue' = Tail(queue) \o <<>> /\ (t.waited \/ UNCHANGED ans)
             \/ queue' = Tail(queue) \o <<[t EXCEPT !.op = "rest"]>> /\ UNCHANGED ans /\ t.op = "transfer"
      BY <1>5, <1>12 DEF Transfers, Push, strands, server
    <2>2. CASE queue' = Tail(queue) \o <<>> /\ (t.waited \/ UNCHANGED ans)
      BY <1>1, <1>4, <2>1, <2>2, RunsPlain
    <2>3. CASE queue' = Tail(queue) \o <<[t EXCEPT !.op = "rest"]>> /\ UNCHANGED ans /\ t.op = "transfer"
      <3> DEFINE n == [t EXCEPT !.op = "rest"]
      <3>1. n \in Task /\ n.op = "rest" /\ n.obj = t.obj /\ n.waited = t.waited
        BY <1>1 DEF Task, StreamOps
      <3> HIDE DEF n
      <3>2. OfItsKind(n) /\ NotGivenUp(n)
        BY <1>1, <2>3, <3>1 DEF OfItsKind, NotGivenUp, ChannelOps, SftpOps, StreamOps
      <3>3. Leaves(t, <<n>>)
        BY <2>3, <3>1, <3>2 DEF Leaves
      <3>4. queue' = Tail(queue) \o <<n>>
        BY <2>3 DEF n
      <3>5. Runs(t, <<n>>)
        BY <1>1, <1>3, <1>4, <2>1, <2>3, <3>3, <3>4 DEF Runs, Grown, owners
      <3> QED
        BY <3>5
    <2> QED
      BY <2>1, <2>2, <2>3
  <1>13. CASE ClosesStream(t)
    <2> DEFINE s == sftpOf[t.obj]
               n == [op |-> "closeHandle", obj |-> t.obj, waited |-> FALSE]
               r == IF t.obj \in owned /\ s \notin finalized THEN <<n>> ELSE <<>>
    <2>1. /\ t.op = "closeStream" /\ queue' = Tail(queue) \o r /\ (t.waited \/ UNCHANGED ans)
          /\ UNCHANGED <<channels, sftps, sftpOf, remote, opened, said, finalized>>
          /\ owned' = owned \ {t.obj} /\ streams' = [streams EXCEPT ![s] = Drop(streams[s], t.obj)]
      BY <1>5, <1>13 DEF ClosesStream, Push, strands, server
    <2>2. t.obj \in Streams /\ s \in Sftps
      BY <1>1, <1>3, <2>1 DEF OfItsKind, StreamOps
    <2>3. /\ Drop(streams[s], t.obj) \in Seq(Streams)
          /\ RangeOf(Drop(streams[s], t.obj)) \subseteq RangeOf(streams[s])
      BY <1>3, <2>2, Dropped
    <2>4. /\ streams' \in [Sftps -> Seq(Streams)]
          /\ \A p \in Sftps : RangeOf(streams'[p]) \subseteq {f \in Streams : sftpOf[f] = p}
      <3>1. /\ streams' \in [Sftps -> Seq(Streams)]
            /\ \A p \in Sftps : streams'[p] = IF p = s THEN Drop(streams[s], t.obj) ELSE streams[p]
        BY <1>3, <2>1, <2>2, <2>3
      <3> QED
        BY <1>3, <2>2, <2>3, <3>1
    <2>5. Leaves(t, r)
      <3>1. n \in Task /\ n.op = "closeHandle" /\ n.obj = t.obj /\ n.waited = FALSE
        BY <2>2 DEF Task, StreamOps
      <3>2. r = <<>> \/ r = <<n>>
        OBVIOUS
      <3> HIDE DEF n, r
      <3>3. OfItsKind(n) /\ NotGivenUp(n)
        BY <2>2, <3>1, <1>3, Objects DEF OfItsKind, NotGivenUp, ChannelOps, SftpOps, StreamOps
      <3> QED
        BY <3>1, <3>2, <3>3 DEF Leaves
    <2>6. \A f \in owned : f \in owned' \/ sftpOf[f] \in finalized
                           \/ r = <<[op |-> "closeHandle", obj |-> f, waited |-> FALSE]>>
      BY <2>1
    <2> HIDE DEF r
    <2>7. Runs(t, r)
      BY <1>1, <1>3, <1>4, <2>1, <2>4, <2>5, <2>6 DEF Runs
    <2> QED
      BY <2>7
  <1> QED
    BY <1>2, <1>6, <1>7, <1>8, <1>9, <1>10, <1>11, <1>12, <1>13

LEMMA Steps ==
  ASSUME SessionInv, [Next]_vars
  PROVE  Quiet \/ GiveUp \/ (\E t : Pushes(t)) \/ (\E t, r : Runs(t, r))
  <1>1. CASE \/ UNCHANGED vars \/ Start \/ StartReading \/ RemoveUnknownChannel \/ Return
             \/ RemoveSession \/ ReadsExit \/ PostsRemoval \/ ChannelEnds
    <2>1. UNCHANGED <<queue, owners, remote, opened, said, finalized>> /\ down' \in {down, "channels"}
      BY <1>1 DEF vars, Start, StartReading, RemoveUnknownChannel, Return, RemoveSession, ReadsExit, PostsRemoval,
                  ChannelEnds, threadVars, server, strands, ending
    <2>2. UNCHANGED <<doing, ans>> \/ (ans # "none" /\ doing' = Idle)
      BY <1>1 DEF vars, Start, StartReading, RemoveUnknownChannel, Return, RemoveSession, ReadsExit, PostsRemoval,
                  ChannelEnds, caller
    <2> QED
      BY <2>1, <2>2 DEF Quiet
  <1>2. CASE \/ CreatePtyChannel \/ CreateSftpSession \/ WriteOrResize \/ RemoveChannel \/ SftpRequest \/ OpenFile
             \/ TransferAll \/ CloseStream \/ CloseSftp
    BY <1>2, CreatePushes, WritePushes, RemovePushes, RequestPushes, OpenPushes
  <1>3. CASE RunTask
    BY <1>3, RunTaskRuns
  <1>4. CASE Shutdown
    BY <1>4, ShutdownStep
  <1> QED
    BY <1>1, <1>2, <1>3, <1>4 DEF Next, Strand, Worker

\* What a task needs is not lost while the containers grow.
LEMMA TaskStays ==
  ASSUME TasksInv, NEW k \in DOMAIN queue, NEW i, queue'[i] = queue[k], finalized \subseteq finalized',
         \A f \in Streams : sftpOf[f] # None => sftpOf'[f] = sftpOf[f], sftpOf \in [Streams -> Sftps \cup {None}],
         Grown \/ queue[k].op \in {"rest", "closeHandle"}
  PROVE  OfItsKind(queue[i])' /\ NotGivenUp(queue[i])' /\ Kept(queue[i])'
  <1> DEFINE t == queue[k]
  <1>1. OfItsKind(t) /\ NotGivenUp(t) /\ Kept(t)
    BY DEF TasksInv
  <1>2. OfItsKind(queue[i])'
    BY <1>1 DEF OfItsKind
  <1>3. Kept(queue[i])'
    <2>1. CASE Grown
      <3>1. t.op = "write" => t.obj \in RangeOf(channels')
        BY <1>1, <2>1 DEF Kept, Grown
      <3>2. t.op = "sftp" => t.obj \in RangeOf(sftps')
        BY <1>1, <2>1 DEF Kept, Grown
      <3>3. ASSUME t.op \in {"stream", "transfer", "closeStream"} PROVE t.obj \in RangeOf(streams'[sftpOf'[t.obj]])
        <4>1. t.obj \in RangeOf(streams[sftpOf[t.obj]]) /\ t.obj \in Streams /\ sftpOf[t.obj] # None
          BY <1>1, <3>3 DEF Kept, OfItsKind, StreamOps
        <4>2. sftpOf[t.obj] \in Sftps /\ sftpOf'[t.obj] = sftpOf[t.obj]
          BY <4>1
        <4> QED
          BY <2>1, <4>1, <4>2 DEF Grown
      <3> QED
        BY <3>1, <3>2, <3>3 DEF Kept
    <2>2. CASE t.op \in {"rest", "closeHandle"}
      BY <2>2 DEF Kept
    <2> QED
      BY <2>1, <2>2
  <1> QED
    BY <1>1, <1>2, <1>3

LEMMA QuietKeeps ==
  ASSUME SessionInv, Quiet
  PROVE  SessionInv'
  <1>1. UNCHANGED <<queue, channels, sftps, streams, sftpOf, finalized>>
    BY DEF Quiet, owners
  <1>2. ContainersInv' /\ TasksInv'
    BY <1>1 DEF SessionInv, ContainersInv, TasksInv, OfItsKind, NotGivenUp, Kept
  <1>3. AwaitedInv'
    BY <1>1 DEF SessionInv, AwaitedInv, Quiet
  <1> QED
    BY <1>2, <1>3 DEF SessionInv

LEMMA PushesKeeps ==
  ASSUME SessionInv, NEW t, Pushes(t)
  PROVE  SessionInv'
  <1> DEFINE n == Len(queue) + 1
  <1>1. queue \in Seq(Task) /\ t \in Task /\ queue' = Append(queue, t)
    BY DEF SessionInv, ContainersInv, Pushes
  <1>2. /\ queue' \in Seq(Task)
        /\ \A i \in DOMAIN queue' : (i \in DOMAIN queue /\ queue'[i] = queue[i]) \/ (i = n /\ queue'[i] = t)
        /\ \A i \in DOMAIN queue : i \in DOMAIN queue' /\ i < n
        /\ DOMAIN queue \subseteq Nat /\ n \in Nat
    BY <1>1, Appended, LenProperties
  <1> HIDE DEF n
  <1>3. ContainersInv'
    <2>1. \A s \in Sftps : RangeOf(streams[s]) \subseteq {f \in Streams : sftpOf'[f] = s}
      BY Objects DEF SessionInv, ContainersInv, Pushes
    <2> QED
      BY <1>2, <2>1 DEF SessionInv, ContainersInv, Pushes
  <1>4. ASSUME NEW i \in DOMAIN queue' PROVE OfItsKind(queue[i])' /\ NotGivenUp(queue[i])' /\ Kept(queue[i])'
    <2>1. CASE i \in DOMAIN queue /\ queue'[i] = queue[i]
      <3>1. /\ Grown /\ finalized \subseteq finalized' /\ sftpOf \in [Streams -> Sftps \cup {None}] /\ TasksInv
            /\ \A f \in Streams : sftpOf[f] # None => sftpOf'[f] = sftpOf[f]
        BY DEF Pushes, Grown, SessionInv, ContainersInv
      <3> QED
        BY <2>1, <3>1, TaskStays
    <2>2. CASE queue'[i] = t
      <3>1. OfItsKind(t)' /\ NotGivenUp(t) /\ Kept(t) /\ UNCHANGED <<channels, sftps, streams>>
        BY DEF Pushes
      <3>2. Kept(t)'
        <4>1. t.op \in {"stream", "transfer", "closeStream"} => sftpOf'[t.obj] = sftpOf[t.obj]
          BY <3>1 DEF Pushes, OfItsKind, StreamOps
        <4> QED
          BY <3>1, <4>1 DEF Kept
      <3>3. OfItsKind(queue[i])'
        BY <2>2, <3>1 DEF OfItsKind
      <3>4. Kept(queue[i])'
        BY <2>2, <3>2 DEF Kept
      <3>5. NotGivenUp(queue[i])'
        BY <2>2, <3>1 DEF NotGivenUp
      <3> QED
        BY <3>3, <3>4, <3>5
    <2> QED
      BY <1>2, <2>1, <2>2
  <1>5. AwaitedInv'
    <2>1. doing = Idle /\ \A i \in DOMAIN queue : ~queue[i].waited
      BY DEF Pushes, SessionInv, AwaitedInv
    <2>2. ASSUME NEW i \in DOMAIN queue', queue'[i].waited
          PROVE  i = n /\ queue'[i] = t /\ t.waited
      BY <1>2, <2>1, <2>2
    <2>3. ASSUME t.waited PROVE doing' # Idle /\ ans' = "none" /\ doing'.obj = t.obj /\ doing'.op = t.op
      <3>1. doing' = [op |-> t.op, obj |-> t.obj] /\ ans' = "none"
        BY <2>3 DEF Pushes
      <3>2. t.obj # None
        BY <1>1, Objects DEF Task
      <3> QED
        BY <3>1, <3>2 DEF Idle
    <2>4. \A j \in DOMAIN queue' : ~(j > n)
      BY <1>2
    <2> QED
      BY <2>2, <2>3, <2>4 DEF AwaitedInv
  <1> QED
    BY <1>3, <1>4, <1>5 DEF SessionInv, TasksInv

LEMMA GiveUpKeeps ==
  ASSUME SessionInv, GiveUp
  PROVE  SessionInv'
  <1>1. /\ queue' = [i \in DOMAIN queue |-> [queue[i] EXCEPT !.waited = FALSE]]
        /\ doing.op \in {"sftp", "stream", "openFile", "transfer"} /\ doing' = Idle
        /\ UNCHANGED <<channels, sftps, streams, sftpOf, finalized>>
    BY DEF GiveUp, owners, strands
  <1>2. queue \in Seq(Task) /\ DOMAIN queue = 1..Len(queue) /\ Len(queue) \in Nat /\ \A i \in DOMAIN queue : queue[i] \in Task
    BY LenProperties, ElementOfSeq DEF SessionInv, ContainersInv
  <1>3. ASSUME NEW i \in DOMAIN queue
        PROVE  LET t == [queue[i] EXCEPT !.waited = FALSE]
               IN  t \in Task /\ t.op = queue[i].op /\ t.obj = queue[i].obj /\ t.waited = FALSE
    BY <1>2 DEF Task
  <1>4. /\ queue' \in [1..Len(queue) -> Task] /\ DOMAIN queue' = DOMAIN queue
        /\ \A i \in DOMAIN queue : /\ queue'[i].op = queue[i].op /\ queue'[i].obj = queue[i].obj
                                   /\ queue'[i].waited = FALSE
    BY <1>1, <1>2, <1>3
  <1>5. queue' \in Seq(Task)
    BY <1>2, <1>4, SeqDef
  <1>6. ContainersInv'
    BY <1>1, <1>5 DEF SessionInv, ContainersInv
  <1>7. TasksInv'
    <2>1. ASSUME NEW i \in DOMAIN queue' PROVE OfItsKind(queue[i])' /\ NotGivenUp(queue[i])' /\ Kept(queue[i])'
      <3>1. OfItsKind(queue[i]) /\ NotGivenUp(queue[i]) /\ Kept(queue[i])
        BY <1>4 DEF SessionInv, TasksInv
      <3>2. ~queue[i].waited \/ queue[i].op \in {"sftp", "stream", "openFile", "transfer", "rest"}
        BY <1>1, <1>4 DEF SessionInv, AwaitedInv
      <3>3. OfItsKind(queue[i])' /\ Kept(queue[i])'
        BY <1>1, <1>4, <3>1 DEF OfItsKind, Kept
      <3>4. NotGivenUp(queue[i])'
        BY <1>4, <3>1, <3>2 DEF NotGivenUp
      <3> QED
        BY <3>3, <3>4
    <2> QED
      BY <2>1 DEF TasksInv
  <1>8. AwaitedInv'
    BY <1>4 DEF AwaitedInv
  <1> QED
    BY <1>6, <1>7, <1>8 DEF SessionInv

\* The queue after a task: those behind it, and what it left.
LEMMA RunsShifts ==
  ASSUME SessionInv, NEW t, NEW r, Runs(t, r)
  PROVE  /\ queue' \in Seq(Task) /\ 1 \in DOMAIN queue /\ t = queue[1]
         /\ \A i \in DOMAIN queue' : \/ i + 1 \in DOMAIN queue /\ i + 1 > 1 /\ queue'[i] = queue[i + 1]
                                     \/ i = Len(queue) /\ r = <<queue'[i]>> /\ Leaves(t, <<queue'[i]>>)
         /\ \A i \in DOMAIN queue : i = 1 \/ (i - 1 \in DOMAIN queue' /\ queue'[i - 1] = queue[i])
         /\ \A x \in Task : r = <<x>> => Len(queue) \in DOMAIN queue' /\ queue'[Len(queue)] = x
         /\ DOMAIN queue' \subseteq Nat /\ DOMAIN queue \subseteq Nat /\ \A i \in DOMAIN queue : i <= Len(queue)
         /\ Len(queue) \in Nat
  <1>1. queue \in Seq(Task) /\ queue # <<>> /\ queue' = Tail(queue) \o r /\ t = Head(queue) /\ Leaves(t, r)
    BY DEF Runs, SessionInv, ContainersInv
  <1>2. r = <<>> \/ \E x \in Task : r = <<x>>
    BY <1>1 DEF Leaves
  <1>3. Len(queue) \in Nat
    BY <1>1, LenProperties
  <1> DEFINE p == Tail(queue) \o r
  <1>4. /\ p \in Seq(Task) /\ 1 \in DOMAIN queue /\ Head(queue) = queue[1]
        /\ \A i \in DOMAIN p : \/ i + 1 \in DOMAIN queue /\ i + 1 > 1 /\ p[i] = queue[i + 1]
                               \/ i = Len(queue) /\ r = <<p[i]>>
        /\ \A i \in DOMAIN queue : i = 1 \/ (i - 1 \in DOMAIN p /\ p[i - 1] = queue[i])
        /\ \A x \in Task : r = <<x>> => Len(queue) \in DOMAIN p /\ p[Len(queue)] = x
        /\ DOMAIN p \subseteq Nat /\ DOMAIN queue \subseteq Nat /\ \A i \in DOMAIN queue : i <= Len(queue)
    BY <1>1, <1>2, Shifted
  <1>5. queue' = p
    BY <1>1
  <1> HIDE DEF p
  <1>6. \A i \in DOMAIN p : r = <<p[i]>> => Leaves(t, <<p[i]>>)
    BY <1>1
  <1> QED
    BY <1>1, <1>3, <1>4, <1>5, <1>6

LEMMA RunsKeeps ==
  ASSUME SessionInv, NEW t, NEW r, Runs(t, r)
  PROVE  SessionInv'
  <1>1. /\ queue' \in Seq(Task) /\ 1 \in DOMAIN queue /\ t = queue[1]
        /\ \A i \in DOMAIN queue' : \/ i + 1 \in DOMAIN queue /\ i + 1 > 1 /\ queue'[i] = queue[i + 1]
                                    \/ i = Len(queue) /\ r = <<queue'[i]>> /\ Leaves(t, <<queue'[i]>>)
        /\ DOMAIN queue' \subseteq Nat /\ DOMAIN queue \subseteq Nat /\ \A i \in DOMAIN queue : i <= Len(queue)
        /\ Len(queue) \in Nat
    BY RunsShifts
  <1>2. ContainersInv'
    BY <1>1 DEF Runs, SessionInv, ContainersInv
  <1>3. /\ \A i \in DOMAIN queue : queue[i].waited =>
            /\ doing # Idle /\ ans = "none" /\ doing.obj = queue[i].obj
            /\ doing.op = queue[i].op \/ (doing.op = "transfer" /\ queue[i].op = "rest")
        /\ \A i, j \in DOMAIN queue : queue[i].waited /\ j > i =>
               queue[j].op \in {"rest", "closeHandle"} /\ ~queue[j].waited
    BY DEF SessionInv, AwaitedInv
  <1>4. ASSUME NEW i \in DOMAIN queue' PROVE OfItsKind(queue[i])' /\ NotGivenUp(queue[i])' /\ Kept(queue[i])'
    <2>1. CASE i + 1 \in DOMAIN queue /\ i + 1 > 1 /\ queue'[i] = queue[i + 1]
      <3>1. Grown \/ queue[i + 1].op \in {"rest", "closeHandle"}
        <4>1. CASE t.op \in {"closeChannel", "closeSftp", "closeStream"}
          <5>1. queue[1].waited
            BY <1>1, <4>1 DEF Runs, NotGivenUp
          <5> QED
            BY <1>1, <1>3, <2>1, <5>1
        <4>2. CASE t.op \notin {"closeChannel", "closeSftp", "closeStream"}
          BY <4>2 DEF Runs
        <4> QED
          BY <4>1, <4>2
      <3>2. /\ TasksInv /\ finalized \subseteq finalized' /\ sftpOf \in [Streams -> Sftps \cup {None}]
            /\ \A f \in Streams : sftpOf[f] # None => sftpOf'[f] = sftpOf[f]
        BY DEF Runs, SessionInv, ContainersInv
      <3> DEFINE k == i + 1
      <3>3. k \in DOMAIN queue /\ queue'[i] = queue[k] /\ (Grown \/ queue[k].op \in {"rest", "closeHandle"})
        BY <2>1, <3>1
      <3> HIDE DEF k
      <3> QED
        BY <3>2, <3>3, TaskStays
    <2>2. CASE Leaves(t, <<queue'[i]>>)
      <3>1. PICK n \in Task : <<queue'[i]>> = <<n>> /\ n.op \in {"rest", "closeHandle"} /\ OfItsKind(n) /\ NotGivenUp(n)
        BY <2>2 DEF Leaves
      <3>2. queue'[i] = n
        BY <3>1
      <3>3. UNCHANGED <<sftpOf, finalized>>
        BY DEF Runs
      <3> QED
        BY <3>1, <3>2, <3>3 DEF OfItsKind, NotGivenUp, Kept
    <2> QED
      BY <1>1, <2>1, <2>2
  \* A task that is waited for stays the only one, and the last but for what tasks leave.
  <1>5. ASSUME NEW i \in DOMAIN queue', queue'[i].waited
        PROVE  /\ doing' # Idle /\ ans' = "none" /\ doing'.obj = queue'[i].obj
               /\ doing'.op = queue'[i].op \/ (doing'.op = "transfer" /\ queue'[i].op = "rest")
               /\ \A j \in DOMAIN queue' : j > i => queue'[j].op \in {"rest", "closeHandle"} /\ ~queue'[j].waited
    <2>1. CASE i + 1 \in DOMAIN queue /\ i + 1 > 1 /\ queue'[i] = queue[i + 1]
      <3>1. ~t.waited
        BY <1>1, <1>3, <1>5, <2>1
      <3>2. doing' = doing /\ ans' = ans
        BY <3>1 DEF Runs
      <3>3. ASSUME NEW j \in DOMAIN queue', j > i PROVE queue'[j].op \in {"rest", "closeHandle"} /\ ~queue'[j].waited
        <4>1. CASE j + 1 \in DOMAIN queue /\ queue'[j] = queue[j + 1]
          <5>1. j + 1 > i + 1
            BY <1>1, <3>3
          <5> QED
            BY <1>3, <1>5, <2>1, <4>1, <5>1
        <4>2. CASE Leaves(t, <<queue'[j]>>)
          <5>1. PICK n \in Task : <<queue'[j]>> = <<n>> /\ n.op \in {"rest", "closeHandle"} /\ (n.waited => t.waited)
            BY <4>2 DEF Leaves
          <5>2. queue'[j] = n
            BY <5>1
          <5> QED
            BY <3>1, <5>1, <5>2
        <4> QED
          BY <1>1, <4>1, <4>2
      <3> QED
        BY <1>3, <1>5, <2>1, <3>2, <3>3
    <2>2. CASE i = Len(queue) /\ Leaves(t, <<queue'[i]>>)
      <3>1. PICK n \in Task : /\ <<queue'[i]>> = <<n>> /\ n.obj = t.obj
                              /\ n.waited => t.waited /\ n.op = "rest" /\ t.op = "transfer" /\ UNCHANGED ans
        BY <2>2 DEF Leaves
      <3>2. queue'[i] = n
        BY <3>1
      <3>3. t.waited /\ n.op = "rest" /\ t.op = "transfer" /\ ans' = ans /\ doing' = doing
        BY <1>5, <3>1, <3>2 DEF Runs
      <3>4. ASSUME NEW j \in DOMAIN queue', j > i PROVE FALSE
        <4>1. j + 1 \in DOMAIN queue \/ j = Len(queue)
          BY <1>1
        <4> QED
          BY <1>1, <2>2, <3>4, <4>1
      <3> QED
        BY <1>1, <1>3, <3>1, <3>2, <3>3, <3>4
    <2> QED
      BY <1>1, <2>1, <2>2
  <1>6. AwaitedInv'
    BY <1>5 DEF AwaitedInv
  <1> QED
    BY <1>2, <1>4, <1>6 DEF SessionInv, TasksInv

LEMMA SessionStep == SessionInv /\ [Next]_vars => SessionInv'
  BY Steps, QuietKeeps, PushesKeeps, GiveUpKeeps, RunsKeeps

LEMMA SessionInit == Init => SessionInv
  <1> SUFFICES ASSUME Init PROVE SessionInv
    OBVIOUS
  <1>1. <<>> \in Seq(Task) /\ <<>> \in Seq(Channels) /\ <<>> \in Seq(Sftps) /\ <<>> \in Seq(Streams)
        /\ RangeOf(<<>>) = {} /\ DOMAIN <<>> = {}
    BY EmptySeq DEF RangeOf
  <1> QED
    BY <1>1 DEF Init, SessionInv, ContainersInv, TasksInv, AwaitedInv

-----------------------------------------------------------------------------
(* Handles. *)

HandlesInv == NoHandleIsLost /\ owned \cup remote \subseteq Streams

\* What giving up leaves of a task.
LEMMA GiveUpTasks ==
  ASSUME SessionInv, GiveUp
  PROVE  /\ DOMAIN queue' = DOMAIN queue
         /\ \A i \in DOMAIN queue : queue'[i].op = queue[i].op /\ queue'[i].obj = queue[i].obj
  <1>1. \A i \in DOMAIN queue : queue[i] \in Task
    BY ElementOfSeq, LenProperties DEF SessionInv, ContainersInv
  <1>2. queue' = [i \in DOMAIN queue |-> [queue[i] EXCEPT !.waited = FALSE]]
    BY DEF GiveUp
  <1>3. ASSUME NEW i \in DOMAIN queue
        PROVE  LET t == [queue[i] EXCEPT !.waited = FALSE]
               IN  t.op = queue[i].op /\ t.obj = queue[i].obj
    BY <1>1 DEF Task
  <1> QED
    BY <1>2, <1>3

LEMMA HandlesStep ==
  ASSUME SessionInv, HandlesInv, [Next]_vars
  PROVE  HandlesInv'
  <1>1. CASE Quiet
    BY <1>1 DEF Quiet, HandlesInv, NoHandleIsLost, owners
  <1>2. CASE GiveUp
    BY <1>2, GiveUpTasks DEF GiveUp, HandlesInv, NoHandleIsLost, owners, server, strands
  <1>3. ASSUME NEW t, Pushes(t) PROVE HandlesInv'
    <2>1. UNCHANGED <<owned, remote>> /\ finalized \subseteq finalized' /\ owned \cup remote \subseteq Streams
      BY <1>3 DEF Pushes, HandlesInv
    <2>2. \A i \in DOMAIN queue : i \in DOMAIN queue' /\ queue'[i] = queue[i]
      <3>1. queue \in Seq(Task) /\ t \in Task /\ queue' = Append(queue, t)
        BY <1>3 DEF SessionInv, ContainersInv, Pushes
      <3> QED
        BY <3>1, Appended
    <2>3. ASSUME NEW f \in remote', sftpOf[f] \in finalized PROVE sftpOf'[f] \in finalized'
      <3>1. f \in Streams /\ sftpOf[f] # None
        BY <2>1, <2>3, Objects DEF SessionInv, ContainersInv
      <3> QED
        BY <1>3, <2>1, <2>3, <3>1 DEF Pushes
    <2>4. ASSUME NEW f \in remote'
          PROVE  f \in owned' \/ (\E i \in DOMAIN queue' : queue'[i].op = "closeHandle" /\ queue'[i].obj = f)
                 \/ sftpOf'[f] \in finalized'
      BY <2>1, <2>2, <2>3 DEF HandlesInv, NoHandleIsLost
    <2> QED
      BY <2>1, <2>4 DEF HandlesInv, NoHandleIsLost
  <1>4. ASSUME NEW t, NEW r, Runs(t, r) PROVE HandlesInv'
    <2>1. /\ 1 \in DOMAIN queue /\ t = queue[1]
          /\ \A i \in DOMAIN queue : i = 1 \/ (i - 1 \in DOMAIN queue' /\ queue'[i - 1] = queue[i])
          /\ \A x \in Task : r = <<x>> => Len(queue) \in DOMAIN queue' /\ queue'[Len(queue)] = x
      BY <1>4, RunsShifts
    <2>2. UNCHANGED <<sftpOf, finalized>> /\ owned' \cup remote' \subseteq Streams
      BY <1>4 DEF Runs, HandlesInv
    <2>3. ASSUME NEW f \in remote', f \notin owned', sftpOf[f] \notin finalized
          PROVE  \E i \in DOMAIN queue' : queue'[i].op = "closeHandle" /\ queue'[i].obj = f
      <3>1. f \in remote
        BY <1>4, <2>3 DEF Runs
      <3>2. CASE f \in owned
        <4> DEFINE x == [op |-> "closeHandle", obj |-> f, waited |-> FALSE]
        <4>1. r = <<x>>
          BY <1>4, <2>3, <3>2 DEF Runs
        <4>2. x \in Task /\ x.op = "closeHandle" /\ x.obj = f
          BY <3>1 DEF Task, StreamOps, HandlesInv
        <4> HIDE DEF x
        <4> QED
          BY <2>1, <4>1, <4>2
      <3>3. CASE f \notin owned
        <4>1. PICK i \in DOMAIN queue : queue[i].op = "closeHandle" /\ queue[i].obj = f
          BY <2>3, <3>1, <3>3 DEF HandlesInv, NoHandleIsLost
        <4>2. i # 1
          BY <1>4, <2>1, <4>1 DEF Runs
        <4> QED
          BY <2>1, <4>1, <4>2
      <3> QED
        BY <3>2, <3>3
    <2> QED
      BY <2>2, <2>3 DEF HandlesInv, NoHandleIsLost
  <1> QED
    BY <1>1, <1>2, <1>3, <1>4, Steps

-----------------------------------------------------------------------------
(* Channels. *)

LEMMA OpenedStep ==
  ASSUME SessionInv, OpenedInv, [Next]_vars
  PROVE  OpenedInv'
  <1>1. CASE Quiet
    <2>1. ASSUME down = "channels", doing = Idle, channels = <<>>
          PROVE  \A i \in DOMAIN queue : queue[i].op # "createChannel"
      BY <2>1 DEF SessionInv, AwaitedInv, TasksInv, NotGivenUp
    <2> QED
      BY <1>1, <2>1 DEF Quiet, OpenedInv, owners
  <1>2. CASE GiveUp
    BY <1>2, GiveUpTasks DEF GiveUp, OpenedInv, owners, server, strands, ending
  <1>3. ASSUME NEW t, Pushes(t) PROVE OpenedInv'
    <2>1. \A i \in DOMAIN queue' : (i \in DOMAIN queue /\ queue'[i] = queue[i]) \/ queue'[i] = t
      <3>1. queue \in Seq(Task) /\ t \in Task /\ queue' = Append(queue, t)
        BY <1>3 DEF SessionInv, ContainersInv, Pushes
      <3> QED
        BY <3>1, Appended
    <2> QED
      BY <1>3, <2>1 DEF Pushes, OpenedInv
  <1>4. ASSUME NEW t, NEW r, Runs(t, r) PROVE OpenedInv'
    <2>1. /\ 1 \in DOMAIN queue /\ t = queue[1]
          /\ \A i \in DOMAIN queue' : (i + 1 \in DOMAIN queue /\ queue'[i] = queue[i + 1]) \/ Leaves(t, <<queue'[i]>>)
      BY <1>4, RunsShifts
    <2>2. opened' \cap Channels \subseteq said' \cup RangeOf(channels')
      BY <1>4 DEF Runs, OpenedInv
    <2>3. ASSUME down' \in {"sftps", "stop", "done"}
          PROVE  channels' = <<>> /\ \A i \in DOMAIN queue' : queue'[i].op # "createChannel"
      <3>1. channels = <<>> /\ \A i \in DOMAIN queue : queue[i].op # "createChannel"
        BY <1>4, <2>3 DEF Runs, OpenedInv
      <3>2. channels' = <<>>
        <4>1. channels' \in Seq(Channels) /\ RangeOf(channels') \subseteq RangeOf(channels)
          BY <1>4, <2>1, <3>1 DEF Runs
        <4>2. RangeOf(channels) = {}
          BY <3>1, EmptySeq DEF RangeOf
        <4> QED
          BY <4>1, <4>2, EmptySeq, LenProperties DEF RangeOf
      <3>3. ASSUME NEW i \in DOMAIN queue', Leaves(t, <<queue'[i]>>) PROVE queue'[i].op # "createChannel"
        <4>1. PICK n \in Task : <<queue'[i]>> = <<n>> /\ n.op \in {"rest", "closeHandle"}
          BY <3>3 DEF Leaves
        <4> QED
          BY <4>1
      <3> QED
        BY <2>1, <3>1, <3>2, <3>3
    <2> QED
      BY <2>2, <2>3 DEF OpenedInv
  <1> QED
    BY <1>1, <1>2, <1>3, <1>4, Steps

-----------------------------------------------------------------------------
(* Theorems. *)

(* Tasks hold plain pointers: each one finds its channel, SFTP session or  *)
(* stream alive when it runs, also one whose caller has given up waiting.  *)
THEOREM PointersAreGood == Spec => TasksFindTheirObjects
  <1>1. ASSUME SessionInv, RunTask PROVE Finds(Head(queue))
    <2> DEFINE t == Head(queue)
    <2>1. t \in Task /\ OfItsKind(t) /\ NotGivenUp(t) /\ Kept(t) /\ t = queue[1] /\ 1 \in DOMAIN queue
      BY <1>1, FirstTask DEF RunTask
    <2> HIDE DEF t
    <2>2. CASE t.waited
      <3>1. doing.obj = t.obj
        BY <1>1, <2>1, <2>2 DEF SessionInv, AwaitedInv
      <3> QED
        BY <3>1 DEF Finds, Alive, t
    <2>3. CASE ~t.waited
      <3>1. CASE t.op \in {"write", "sftp"}
        BY <2>1, <3>1 DEF Kept, Finds, Alive, t
      <3>2. CASE t.op \in {"stream", "transfer", "closeStream"}
        BY <2>1, <3>2 DEF Kept, OfItsKind, StreamOps, Finds, Alive, t
      <3>3. CASE t.op \in {"createChannel", "createSftp", "openFile", "closeHandle", "rest"}
        BY <3>3 DEF Finds, t
      <3>4. CASE t.op \in {"closeChannel", "closeSftp"}
        BY <2>1, <2>3, <3>4 DEF NotGivenUp
      <3>5. t.op \in ChannelOps \cup SftpOps \cup StreamOps
        BY <2>1 DEF Task
      <3> QED
        BY <3>1, <3>2, <3>3, <3>4, <3>5 DEF ChannelOps, SftpOps, StreamOps
    <2> QED
      BY <2>2, <2>3
  <1>2. SessionInv /\ [Next]_vars => [queue' # queue /\ RunTask => Finds(Head(queue))]_vars
    BY <1>1
  <1> QED
    BY <1>2, SessionInit, SessionStep, PTL DEF Spec, TasksFindTheirObjects

(* A file that is open at the server belongs to a stream or to a queued    *)
(* sftp_close(), until its whole SFTP session is closed: also when the     *)
(* backend gives up waiting for the future, or closes a stream during a    *)
(* transfer.                                                               *)
THEOREM HandlesAreKept == Spec => []NoHandleIsLost
  <1>1. Init => HandlesInv
    BY DEF Init, HandlesInv, NoHandleIsLost
  <1>2. SessionInv /\ HandlesInv /\ [Next]_vars => HandlesInv'
    BY HandlesStep
  <1>3. HandlesInv => NoHandleIsLost
    BY DEF HandlesInv
  <1> QED
    BY <1>1, <1>2, <1>3, SessionInit, SessionStep, PTL DEF Spec

(* Every channel the server opened is told that it is closed before the    *)
(* connection is cut, whoever closes it: removeChannel() or ~Session().    *)
THEOREM ChannelsAreClosed == Spec => []ChannelsAreClosedBeforeDisconnect
  <1>1. Init => OpenedInv
    BY DEF Init, OpenedInv
  <1>2. SessionInv /\ OpenedInv /\ [Next]_vars => OpenedInv'
    BY OpenedStep
  <1>3. OpenedInv => ChannelsAreClosedBeforeDisconnect
    <2>1. channels = <<>> => RangeOf(channels) = {}
      BY EmptySeq DEF RangeOf
    <2> QED
      BY <2>1 DEF OpenedInv, ChannelsAreClosedBeforeDisconnect
  <1> QED
    BY <1>1, <1>2, <1>3, SessionInit, SessionStep, PTL DEF Spec
=============================================================================
