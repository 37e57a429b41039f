-------------------------- MODULE PublishQueueProofs --------------------------
(***************************************************************************)
(* What the publish queue guarantees for every queue length, every number   *)
(* of publications, and every behavior of the session, the client and the   *)
(* tasks, restarts included.                                                *)
(***************************************************************************)
EXTENDS PublishQueue, SequenceTheorems, TLAPS

-----------------------------------------------------------------------------
(***************************************************************************)
(* Sequences.                                                               *)
(***************************************************************************)

\* A sequence of length at most one, taken from the front of another.
LEMMA FrontSplit ==
    ASSUME NEW S, NEW q \in Seq(S), q # <<>>
    PROVE  /\ Head(q) \in S /\ <<Head(q)>> \in Seq(S) /\ Tail(q) \in Seq(S)
           /\ Len(<<Head(q)>>) = 1 /\ Len(Tail(q)) = Len(q) - 1
           /\ q = <<Head(q)>> \o Tail(q)
<1>1. Head(q) \in S /\ Tail(q) \in Seq(S) /\ Len(Tail(q)) = Len(q) - 1
  BY HeadTailProperties
<1>2. <<Head(q)>> \in Seq(S) /\ Len(<<Head(q)>>) = 1
  BY <1>1
<1>3. q = <<Head(q)>> \o Tail(q)
  OBVIOUS
<1> QED
  BY <1>1, <1>2, <1>3


\* The entries of a concatenation.
LEMMA ConcatEntries ==
    ASSUME NEW S, NEW a \in Seq(S), NEW b \in Seq(S), NEW c, c = a \o b
    PROVE  /\ c \in Seq(S) /\ Len(a) \in Nat /\ Len(b) \in Nat
           /\ Len(c) = Len(a) + Len(b)
           /\ \A i \in 1..Len(c) :
                 c[i] = IF i <= Len(a) THEN a[i] ELSE b[i - Len(a)]
<1>1. /\ a \o b \in Seq(S) /\ Len(a \o b) = Len(a) + Len(b)
      /\ \A i \in 1..Len(a) + Len(b) :
            (a \o b)[i] = IF i <= Len(a) THEN a[i] ELSE b[i - Len(a)]
  BY ConcatProperties
<1>2. Len(a) \in Nat /\ Len(b) \in Nat
  BY LenProperties
<1> QED
  BY <1>1, <1>2

\* A sequence of one entry.
LEMMA Singleton ==
    ASSUME NEW S, NEW q \in Seq(S), Len(q) = 1
    PROVE  q[1] \in S /\ q = <<q[1]>>
<1>1. q[1] \in S
  BY ElementOfSeq
<1>2. <<q[1]>> \in Seq(S) /\ Len(<<q[1]>>) = 1
  BY <1>1
<1>3. \A i \in 1..Len(q) : q[i] = <<q[1]>>[i]
  OBVIOUS
<1> QED
  BY <1>1, <1>2, <1>3, SeqEqual

\* Concatenation by a name, so that a leaf is not led into its definition.
Cat(s, t) == s \o t

LEMMA Associative ==
    ASSUME NEW S, NEW s \in Seq(S), NEW t \in Seq(S), NEW u \in Seq(S)
    PROVE  Cat(Cat(s, t), u) = Cat(s, Cat(t, u))
<1>1. (s \o t) \o u = s \o (t \o u)
  BY ConcatAssociative
<1> QED
  BY <1>1 DEF Cat

\* The empty sequence is neutral, in the middle too.
LEMMA EmptyMiddle ==
    ASSUME NEW S, NEW a \in Seq(S), NEW b \in Seq(S), NEW c \in Seq(S)
    PROVE  /\ (a \o <<>>) \o c = a \o c
           /\ (a \o <<>>) \o (b \o c) = (a \o b) \o c
           /\ ((a \o b) \o <<>>) \o c = (a \o b) \o c
           /\ (a \o <<>>) \o <<>> = a
           /\ <<>> \in Seq(S) /\ Len(<<>>) = 0
           /\ a \o b \in Seq(S)
<1>1. a \o <<>> = a
  BY ConcatEmptySeq
<1>2. a \o b \in Seq(S)
  BY ConcatProperties
<1>3. (a \o b) \o <<>> = a \o b
  BY <1>2, ConcatEmptySeq
<1>4. a \o (b \o c) = (a \o b) \o c
  <2>1. Cat(Cat(a, b), c) = Cat(a, Cat(b, c))
    BY Associative
  <2> QED
    BY <2>1 DEF Cat
<1> QED
  BY <1>1, <1>2, <1>3, <1>4
-----------------------------------------------------------------------------
(***************************************************************************)
(* Types, and the contents of the queue.                                    *)
(***************************************************************************)
QueueInv == TypeOK /\ NothingLostOrReordered

\* A task that starts to publish changes neither the queue nor the history.
LEMMA PublishType ==
    ASSUME TypeOK, NEW t \in Tasks, NEW ks \in Seq(Kinds), Publish(t, ks)
    PROVE  sending' \in [Tasks -> Seq(Messages)] /\ count' \in 0..MaxMessages
<1>1. Len(ks) \in Nat /\ count \in Nat /\ count + Len(ks) <= MaxMessages
  BY DEF Publish, TypeOK
<1> DEFINE burst == [n \in 1..Len(ks) |-> Msg(t, ks[n], n)]
<1>2. ASSUME NEW n \in 1..Len(ks) PROVE Msg(t, ks[n], n) \in Messages
  <2>1. ks[n] \in Kinds
    OBVIOUS
  <2>2. count + n \in 1..MaxMessages
    BY <1>1, PublishQueueAssumption
  <2> QED
    BY <2>1, <2>2 DEF Msg, Messages
<1>3. burst \in Seq(Messages)
  BY <1>1, <1>2
<1>4. sending' = [sending EXCEPT ![t] = burst]
  BY DEF Publish
<1> HIDE DEF burst
<1> QED
  BY <1>1, <1>3, <1>4, PublishQueueAssumption DEF Publish, TypeOK

\* Every caller publishes a sequence of kinds for some task.
LEMMA CallerPublishes ==
    ASSUME Callers
    PROVE  \E t \in Tasks, ks \in Seq(Kinds) : Publish(t, ks)
<1>1. {Main, Heartbeat, SysEvt, Mqtt} \subseteq Tasks
  BY DEF Tasks
<1>2. /\ <<"boot_completed">> \in Seq(Kinds) /\ <<"heartbeat">> \in Seq(Kinds)
      /\ <<"motion_detected">> \in Seq(Kinds)
  BY DEF Kinds
<1>3. \A cmd \in DOMAIN Replies : Replies[cmd] \in Seq(Kinds)
  <2>1. /\ DOMAIN Replies = {"ping", "config_updated", "config_refused", "capture"}
        /\ Replies["ping"] = <<"reply">>
        /\ Replies["config_updated"] = <<"config_updated", "reply">>
        /\ Replies["config_refused"] = <<"reply">>
        /\ Replies["capture"] = <<"reply", "capture_failed">>
    BY DEF Replies
  <2>2. /\ <<"reply">> \in Seq(Kinds)
        /\ <<"config_updated", "reply">> \in Seq(Kinds)
        /\ <<"reply", "capture_failed">> \in Seq(Kinds)
    BY DEF Kinds
  <2> QED
    BY <2>1, <2>2
<1> QED
  BY <1>1, <1>2, <1>3
     DEF Callers, BootCompleted, HeartbeatDue, MotionDetected, Command

LEMMA CallersInv == QueueInv /\ Callers => QueueInv'
<1> SUFFICES ASSUME QueueInv, Callers PROVE QueueInv'
  OBVIOUS
<1>1. PICK t \in Tasks, ks \in Seq(Kinds) : Publish(t, ks)
  BY CallerPublishes
<1>2. sending' \in [Tasks -> Seq(Messages)] /\ count' \in 0..MaxMessages
  BY <1>1, PublishType DEF QueueInv
<1>3. UNCHANGED <<queue, link, history>> /\ booted' \in BOOLEAN
  BY DEF Callers, BootCompleted, HeartbeatDue, MotionDetected, Command,
         QueueInv, TypeOK
<1> QED
  BY <1>2, <1>3
     DEF QueueInv, TypeOK, NothingLostOrReordered, queue, link, history

\* Appending to the last of three concatenated sequences.
LEMMA AppendToThird ==
    \A a, b, c \in Seq(Messages), m \in Messages :
        Append((a \o b) \o c, m) = (a \o b) \o Append(c, m)
<1> TAKE a, b, c \in Seq(Messages), m \in Messages
<1> DEFINE ab == a \o b
<1>1. ab \in Seq(Messages)
  BY ConcatProperties
<1> DEFINE one == <<m>>
<1>2. one \in Seq(Messages)
  OBVIOUS
<1> HIDE DEF ab, one
<1>3. ab \o c \in Seq(Messages)
  BY <1>1, ConcatProperties
<1>4. Append(ab \o c, m) = (ab \o c) \o one
  BY <1>3, AppendIsConcat DEF one
<1>5. (ab \o c) \o one = ab \o (c \o one)
  <2>1. Cat(Cat(ab, c), one) = Cat(ab, Cat(c, one))
    BY <1>1, <1>2, Associative
  <2> QED
    BY <2>1 DEF Cat
<1>6. c \o one = Append(c, m)
  BY AppendIsConcat DEF one
<1> QED
  BY <1>4, <1>5, <1>6 DEF ab

LEMMA PushInv ==
    ASSUME QueueInv, NEW t \in Tasks, PushSucceeds(t)
    PROVE  QueueInv'
<1> DEFINE m == Head(sending[t])
<1>1. m \in Messages /\ Tail(sending[t]) \in Seq(Messages)
  BY FrontSplit DEF PushSucceeds, QueueInv, TypeOK
<1>2. s_queue \in Seq(Messages) /\ Len(s_queue) < QueueLength
  BY PublishQueueAssumption DEF PushSucceeds, Full, QueueInv, TypeOK
<1>3. s_queue' \in Seq(Messages) /\ Len(s_queue') <= QueueLength
  BY <1>1, <1>2, AppendProperties, PublishQueueAssumption DEF PushSucceeds
<1>4. sending' \in [Tasks -> Seq(Messages)]
  BY <1>1 DEF PushSucceeds, QueueInv, TypeOK
<1>5. pushed' \in Seq(Messages)
  BY <1>1, AppendProperties DEF PushSucceeds, QueueInv, TypeOK
<1>6. NothingLostOrReordered'
  <2>1. pushed' = Append((handed \o item) \o s_queue, m)
    BY DEF PushSucceeds, QueueInv, NothingLostOrReordered
  <2>2. s_queue' = Append(s_queue, m) /\ UNCHANGED <<handed, item>>
    BY DEF PushSucceeds
  <2>3. handed \in Seq(Messages) /\ item \in Seq(Messages)
    BY DEF QueueInv, TypeOK
  <2>4. \A x \in Messages : Append((handed \o item) \o s_queue, x)
                            = (handed \o item) \o Append(s_queue, x)
    BY <1>2, <2>3, AppendToThird
  <2> QED
    BY <1>1, <2>1, <2>2, <2>4 DEF NothingLostOrReordered
<1> QED
  BY <1>3, <1>4, <1>5, <1>6 DEF PushSucceeds, QueueInv, TypeOK, link

\* Both ways to lose what is in RAM leave what the client has.
LEMMA WipeInv ==
    ASSUME QueueInv, s_queue' = <<>>, item' = <<>>, worker' = "receive",
           sending' = [u \in Tasks |-> <<>>],
           booted' = FALSE, session' = FALSE, s_connected' = FALSE,
           pushed' = handed, UNCHANGED <<count, handed>>,
           refused' \subseteq Messages
    PROVE  QueueInv'
<1>1. handed \in Seq(Messages)
  BY DEF QueueInv, TypeOK
<1>2. <<>> \in Seq(Messages) /\ Len(<<>>) = 0 /\ (handed \o <<>>) \o <<>> = handed
  BY <1>1, EmptyMiddle
<1>3. TypeOK'
  <2>1. sending' \in [Tasks -> Seq(Messages)]
    BY <1>2
  <2>2. s_queue' \in Seq(Messages) /\ Len(s_queue') <= QueueLength
    BY <1>2, PublishQueueAssumption
  <2>3. item' \in Seq(Messages) /\ Len(item') = 0
    BY <1>2
  <2>4. /\ worker' \in {"receive", "check", "publish", "delay"}
        /\ Len(item') = IF worker' = "receive" THEN 0 ELSE 1
    BY <2>3
  <2>5. booted' \in BOOLEAN /\ session' \in BOOLEAN /\ s_connected' \in BOOLEAN
    OBVIOUS
  <2>6. /\ count' \in 0..MaxMessages /\ pushed' \in Seq(Messages)
        /\ handed' \in Seq(Messages)
    BY <1>1 DEF QueueInv, TypeOK
  <2> QED
    BY <2>1, <2>2, <2>3, <2>4, <2>5, <2>6 DEF TypeOK
<1>4. NothingLostOrReordered'
  BY <1>2 DEF NothingLostOrReordered
<1> QED
  BY <1>3, <1>4 DEF QueueInv

LEMMA TimeoutInv ==
    ASSUME QueueInv, NEW t \in Tasks, PushTimesOut(t)
    PROVE  QueueInv'
<1>1. /\ Head(sending[t]) \in Messages /\ Tail(sending[t]) \in Seq(Messages)
      /\ refused' \subseteq Messages
  BY FrontSplit DEF PushTimesOut, QueueInv, TypeOK
<1>2. CASE t = Main
  BY <1>1, <1>2, WipeInv DEF PushTimesOut
<1>3. CASE t # Main
  <2>1. sending' \in [Tasks -> Seq(Messages)]
    BY <1>1, <1>3 DEF PushTimesOut, QueueInv, TypeOK
  <2> QED
    BY <1>1, <1>3, <2>1
       DEF PushTimesOut, QueueInv, TypeOK, NothingLostOrReordered, queue, link
<1> QED
  BY <1>2, <1>3

LEMMA WorkerInv == QueueInv /\ Worker => QueueInv'
<1> SUFFICES ASSUME QueueInv, Worker PROVE QueueInv'
  OBVIOUS
<1> USE DEF QueueInv
<1>1. CASE Receive
  <2>1. s_queue \in Seq(Messages) /\ s_queue # <<>> /\ handed \in Seq(Messages)
    BY <1>1 DEF Receive, TypeOK
  <2>2. /\ item' = <<Head(s_queue)>> /\ s_queue' = Tail(s_queue)
        /\ item' \in Seq(Messages) /\ s_queue' \in Seq(Messages)
        /\ Len(item') = 1 /\ Len(s_queue') = Len(s_queue) - 1
        /\ s_queue = item' \o s_queue'
    BY <1>1, <2>1, FrontSplit DEF Receive
  <2>3. item = <<>>
    BY <1>1 DEF Receive, TypeOK
  <2>4. NothingLostOrReordered'
    BY <1>1, <2>1, <2>2, <2>3, EmptyMiddle
       DEF Receive, NothingLostOrReordered, history
  <2>5. TypeOK'
    BY <1>1, <2>2, PublishQueueAssumption DEF Receive, TypeOK, tasks, link, history
  <2> QED
    BY <2>4, <2>5
<1>2. CASE CheckConnected \/ ClientRefuses \/ DelayOver
  BY <1>2 DEF CheckConnected, ClientRefuses, DelayOver, Retry, TypeOK,
              NothingLostOrReordered, tasks, link, history
<1>3. CASE ClientAccepts
  <2>1. /\ handed \in Seq(Messages) /\ item \in Seq(Messages)
        /\ s_queue \in Seq(Messages)
    BY DEF TypeOK
  <2>2. /\ handed' = handed \o item /\ item' = <<>>
        /\ UNCHANGED <<s_queue, pushed>>
    BY <1>3 DEF ClientAccepts
  <2>3. NothingLostOrReordered'
    BY <2>1, <2>2, EmptyMiddle DEF NothingLostOrReordered
  <2>4. handed' \in Seq(Messages) /\ item' \in Seq(Messages) /\ Len(item') = 0
    BY <2>1, <2>2, EmptyMiddle
  <2>5. TypeOK'
    BY <1>3, <2>4 DEF ClientAccepts, TypeOK, tasks, link
  <2> QED
    BY <2>3, <2>5
<1> QED
  BY <1>1, <1>2, <1>3 DEF Worker

LEMMA QueueInit == Init => QueueInv
<1> SUFFICES ASSUME Init PROVE QueueInv
  OBVIOUS
<1>1. <<>> \in Seq(Messages) /\ Len(<<>>) = 0 /\ (<<>> \o <<>>) \o <<>> = <<>>
  BY EmptyMiddle
<1>2. TypeOK
  <2>1. sending \in [Tasks -> Seq(Messages)]
    BY <1>1 DEF Init
  <2>2. s_queue \in Seq(Messages) /\ Len(s_queue) <= QueueLength
    BY <1>1, PublishQueueAssumption DEF Init
  <2>3. item \in Seq(Messages) /\ Len(item) = 0
    BY <1>1 DEF Init
  <2>4. pushed \in Seq(Messages) /\ handed \in Seq(Messages)
    BY <1>1 DEF Init
  <2>5. count \in 0..MaxMessages
    BY PublishQueueAssumption DEF Init
  <2>6. /\ worker \in {"receive", "check", "publish", "delay"}
        /\ Len(item) = IF worker = "receive" THEN 0 ELSE 1
    BY <2>3 DEF Init
  <2>7. /\ booted \in BOOLEAN /\ session \in BOOLEAN /\ s_connected \in BOOLEAN
        /\ refused \subseteq Messages
    BY DEF Init
  <2> QED
    BY <2>1, <2>2, <2>3, <2>4, <2>5, <2>6, <2>7 DEF TypeOK
<1>3. NothingLostOrReordered
  BY <1>1 DEF Init, NothingLostOrReordered
<1> QED
  BY <1>2, <1>3 DEF QueueInv

LEMMA QueueNext == QueueInv /\ [Next]_vars => QueueInv'
<1> SUFFICES ASSUME QueueInv, [Next]_vars PROVE QueueInv'
  OBVIOUS
<1>1. CASE SessionOpens \/ SessionDrops \/ OnConnected \/ OnDisconnected
            \/ UNCHANGED vars
  BY <1>1 DEF SessionOpens, SessionDrops, OnConnected, OnDisconnected, vars,
              Flag!Opens, Flag!Drops, Flag!Raised, Flag!Lowered, QueueInv, TypeOK,
              NothingLostOrReordered, queue, tasks, history
<1>2. CASE Restart
  BY <1>2, WipeInv DEF Restart, QueueInv, TypeOK
<1>3. ASSUME NEW t \in Tasks, PushSucceeds(t) \/ PushTimesOut(t)
      PROVE  QueueInv'
  BY <1>3, PushInv, TimeoutInv
<1> QED
  BY <1>1, <1>2, <1>3, CallersInv, WorkerInv DEF Next

\* Every state of the outgoing path is well typed; the queue never holds more
\* than QueueLength publications.
THEOREM QueueTypeCorrect == Spec => []TypeOK
<1>1. QueueInv => TypeOK
  BY DEF QueueInv
<1> QED
  BY <1>1, QueueInit, QueueNext, PTL DEF Spec

\* Every publication whose push returned ESP_OK is with the client, in the
\* worker's hands or in the queue, once and in the order of the pushes.
THEOREM NothingLost == Spec => []NothingLostOrReordered
<1>1. QueueInv => NothingLostOrReordered
  BY DEF QueueInv
<1> QED
  BY <1>1, QueueInit, QueueNext, PTL DEF Spec
-----------------------------------------------------------------------------
(***************************************************************************)
(* The order of one task's publications.  Ids are given out in the order in *)
(* which publications are made, so what a task still has to push is newer   *)
(* than what it has pushed, and none of it has been refused.                *)
(***************************************************************************)
SendingOrdered ==
    \A t \in Tasks : \A i \in 1..Len(sending[t]) :
        /\ sending[t][i].src = t
        /\ sending[t][i].id <= count
        /\ sending[t][i] \notin refused
        /\ \A j \in 1..Len(sending[t]) :
              i < j => sending[t][i].id < sending[t][j].id
        /\ \A j \in 1..Len(pushed) :
              pushed[j].src = t => pushed[j].id < sending[t][i].id

PushedOrdered ==
    /\ \A i \in 1..Len(pushed) : pushed[i].id <= count
    /\ \A i, j \in 1..Len(pushed) :
          i < j /\ pushed[i].src = pushed[j].src => pushed[i].id < pushed[j].id

RefusedKnown == \A m \in refused : m.id <= count

OrderInv == SendingOrdered /\ PushedOrdered /\ RefusedKnown

\* What the client has is the front of what was pushed.
LEMMA HandedIsFront ==
    ASSUME QueueInv
    PROVE  /\ handed \in Seq(Messages) /\ pushed \in Seq(Messages)
           /\ Len(pushed) = Len(handed) + Len(item) + Len(s_queue)
           /\ \A i \in 1..Len(handed) : pushed[i] = handed[i]
           /\ Len(item) = 1 => pushed[Len(handed) + 1] = item[1]
           /\ Len(handed) \in Nat /\ Len(item) \in Nat /\ Len(s_queue) \in Nat
<1>1. /\ handed \in Seq(Messages) /\ item \in Seq(Messages)
      /\ s_queue \in Seq(Messages) /\ pushed \in Seq(Messages)
  BY DEF QueueInv, TypeOK
<1> DEFINE hi == handed \o item
<1>2. /\ hi \in Seq(Messages) /\ Len(hi) = Len(handed) + Len(item)
      /\ Len(handed) \in Nat /\ Len(item) \in Nat
      /\ \A i \in 1..Len(hi) : hi[i] = IF i <= Len(handed) THEN handed[i]
                                       ELSE item[i - Len(handed)]
  BY <1>1, ConcatEntries
<1> HIDE DEF hi
<1>3. pushed = hi \o s_queue
  BY DEF QueueInv, NothingLostOrReordered, hi
<1>4. /\ Len(pushed) = Len(hi) + Len(s_queue)
      /\ Len(hi) \in Nat /\ Len(s_queue) \in Nat
      /\ \A i \in 1..Len(pushed) : pushed[i] = IF i <= Len(hi) THEN hi[i]
                                               ELSE s_queue[i - Len(hi)]
  <2> DEFINE c == hi \o s_queue
  <2>1. /\ Len(c) = Len(hi) + Len(s_queue)
        /\ Len(hi) \in Nat /\ Len(s_queue) \in Nat
        /\ \A i \in 1..Len(c) : c[i] = IF i <= Len(hi) THEN hi[i]
                                        ELSE s_queue[i - Len(hi)]
    <3>1. hi \in Seq(Messages) /\ s_queue \in Seq(Messages)
      BY <1>1, <1>2
    <3> HIDE DEF c
    <3>2. c = hi \o s_queue
      BY DEF c
    <3> QED
      BY ONLY <3>1, <3>2, ConcatEntries
  <2>2. pushed = c
    BY <1>3
  <2> HIDE DEF c
  <2> QED
    BY <2>1, <2>2
<1>5. \A i \in 1..Len(handed) : pushed[i] = handed[i]
  BY <1>2, <1>4
<1>6. Len(item) = 1 => pushed[Len(handed) + 1] = item[1]
  BY <1>2, <1>4
<1> QED
  BY <1>1, <1>2, <1>4, <1>5, <1>6

\* Ids are numbers, wherever a publication is.
LEMMA IdsAreNumbers ==
    ASSUME TypeOK
    PROVE  /\ \A i \in 1..Len(pushed) : pushed[i].id \in Nat
           /\ \A m \in refused : m.id \in Nat
           /\ \A u \in Tasks : \A i \in 1..Len(sending[u]) : sending[u][i].id \in Nat
           /\ count \in Nat
<1>1. \A m \in Messages : m.id \in Nat
  BY PublishQueueAssumption DEF Messages
<1>2. /\ pushed \in Seq(Messages) /\ refused \subseteq Messages /\ count \in Nat
      /\ \A u \in Tasks : sending[u] \in Seq(Messages)
  BY PublishQueueAssumption DEF TypeOK
<1>3. \A i \in 1..Len(pushed) : pushed[i] \in Messages
  BY <1>2, ElementOfSeq
<1>4. \A u \in Tasks : \A i \in 1..Len(sending[u]) : sending[u][i] \in Messages
  BY <1>2, ElementOfSeq
<1> QED
  BY <1>1, <1>2, <1>3, <1>4

LEMMA BurstOrder ==
    ASSUME QueueInv, OrderInv, NEW t \in Tasks, NEW ks \in Seq(Kinds),
           Publish(t, ks), UNCHANGED <<pushed, refused>>
    PROVE  OrderInv'
<1> DEFINE burst == [n \in 1..Len(ks) |-> Msg(t, ks[n], n)]
<1>1. Len(ks) \in Nat /\ count \in Nat /\ count' = count + Len(ks)
  BY DEF Publish, QueueInv, TypeOK
<1>2. /\ Len(burst) = Len(ks)
      /\ \A n \in 1..Len(ks) : burst[n].src = t /\ burst[n].id = count + n
  BY <1>1 DEF Msg
<1>3. sending' = [sending EXCEPT ![t] = burst]
  BY DEF Publish
<1> HIDE DEF burst
<1>4. /\ sending'[t] = burst
      /\ \A u \in Tasks : u # t => sending'[u] = sending[u]
  BY <1>3 DEF QueueInv, TypeOK
<1>5. /\ \A i \in 1..Len(pushed) : pushed[i].id \in Nat
      /\ \A m \in refused : m.id \in Nat
      /\ \A u \in Tasks : \A i \in 1..Len(sending[u]) : sending[u][i].id \in Nat
  BY IdsAreNumbers DEF QueueInv
<1>6. PushedOrdered' /\ RefusedKnown'
  BY <1>1, <1>5 DEF OrderInv, PushedOrdered, RefusedKnown
<1>7. SendingOrdered'
  <2> SUFFICES ASSUME NEW u \in Tasks, NEW i \in 1..Len(sending'[u])
               PROVE  /\ sending'[u][i].src = u
                      /\ sending'[u][i].id <= count'
                      /\ sending'[u][i] \notin refused
                      /\ \A j \in 1..Len(sending'[u]) :
                            i < j => sending'[u][i].id < sending'[u][j].id
                      /\ \A j \in 1..Len(pushed) :
                            pushed[j].src = u => pushed[j].id < sending'[u][i].id
    BY DEF SendingOrdered
  <2>1. CASE u = t
    <3>1. burst[i].src = t /\ burst[i].id = count + i /\ i \in 1..Len(ks)
      BY <1>2, <1>4, <2>1
    <3>2. burst[i] \notin refused
      BY <1>1, <1>5, <3>1 DEF OrderInv, RefusedKnown
    <3>3. \A j \in 1..Len(pushed) : pushed[j].id < burst[i].id
      BY <1>1, <1>5, <3>1 DEF OrderInv, PushedOrdered
    <3>4. \A j \in 1..Len(burst) : i < j => burst[i].id < burst[j].id
      BY <1>1, <1>2, <3>1
    <3> QED
      BY <1>1, <1>4, <2>1, <3>1, <3>2, <3>3, <3>4
  <2>2. CASE u # t
    <3>1. sending'[u] = sending[u] /\ i \in 1..Len(sending[u])
      BY <1>4, <2>2
    <3>2. sending[u][i].id <= count'
      BY <1>1, <1>5, <3>1 DEF OrderInv, SendingOrdered
    <3> QED
      BY <3>1, <3>2 DEF OrderInv, SendingOrdered
  <2> QED
    BY <2>1, <2>2
<1> QED
  BY <1>6, <1>7 DEF OrderInv

LEMMA CallersOrder == QueueInv /\ OrderInv /\ Callers => OrderInv'
<1> SUFFICES ASSUME QueueInv, OrderInv, Callers PROVE OrderInv'
  OBVIOUS
<1>1. PICK t \in Tasks, ks \in Seq(Kinds) : Publish(t, ks)
  BY CallerPublishes
<1>2. UNCHANGED <<pushed, refused>>
  BY DEF Callers, BootCompleted, HeartbeatDue, MotionDetected, Command, history
<1> QED
  BY <1>1, <1>2, BurstOrder

\* The first publication of task t moves from sending[t] to the end of pushed.
LEMMA PushOrder ==
    ASSUME QueueInv, OrderInv, NEW t \in Tasks, PushSucceeds(t)
    PROVE  OrderInv'
<1> DEFINE s == sending[t]
           m == Head(sending[t])
<1>1. /\ s \in Seq(Messages) /\ s # <<>> /\ Len(s) \in Nat /\ Len(s) > 0
      /\ Len(Tail(s)) = Len(s) - 1 /\ m = s[1]
      /\ \A i \in 1..Len(Tail(s)) : Tail(s)[i] = s[i + 1]
  BY DEF PushSucceeds, QueueInv, TypeOK
<1>2. /\ pushed \in Seq(Messages) /\ Len(pushed) \in Nat /\ m \in Messages
      /\ Len(pushed') = Len(pushed) + 1
      /\ \A i \in 1..Len(pushed) : pushed'[i] = pushed[i]
      /\ pushed'[Len(pushed) + 1] = m
  BY <1>1 DEF PushSucceeds, QueueInv, TypeOK
<1>3. /\ sending'[t] = Tail(s)
      /\ \A u \in Tasks : u # t => sending'[u] = sending[u]
      /\ UNCHANGED <<refused, count>>
  BY DEF PushSucceeds, QueueInv, TypeOK
<1>4. /\ \A i \in 1..Len(pushed) : pushed[i].id \in Nat
      /\ \A u \in Tasks : \A i \in 1..Len(sending[u]) : sending[u][i].id \in Nat
      /\ count \in Nat
  BY IdsAreNumbers DEF QueueInv
<1>5. /\ \A i \in 1..Len(s) : /\ s[i].src = t /\ s[i].id <= count
                              /\ s[i] \notin refused /\ s[i].id \in Nat
      /\ \A i, j \in 1..Len(s) : i < j => s[i].id < s[j].id
      /\ \A i \in 1..Len(s), j \in 1..Len(pushed) :
            pushed[j].src = t => pushed[j].id < s[i].id
  BY <1>4 DEF OrderInv, SendingOrdered
<1>6. m.src = t /\ m.id <= count
  BY <1>1, <1>5
<1> HIDE DEF s, m
<1>7. PushedOrdered'
  <2>1. ASSUME NEW i \in 1..Len(pushed') PROVE pushed'[i].id <= count
    <3>1. i \in 1..Len(pushed) \/ i = Len(pushed) + 1
      BY <1>2
    <3> QED
      BY <1>2, <1>6, <3>1 DEF OrderInv, PushedOrdered
  <2>2. ASSUME NEW i \in 1..Len(pushed'), NEW j \in 1..Len(pushed'),
               i < j, pushed'[i].src = pushed'[j].src
        PROVE  pushed'[i].id < pushed'[j].id
    <3>1. i \in 1..Len(pushed) /\ pushed'[i] = pushed[i]
      BY <1>2, <2>2
    <3>2. CASE j \in 1..Len(pushed)
      <4>1. pushed'[j] = pushed[j]
        BY <1>2, <3>2
      <4> QED
        BY <2>2, <3>1, <3>2, <4>1 DEF OrderInv, PushedOrdered
    <3>3. CASE j = Len(pushed) + 1
      <4>1. pushed'[j] = s[1] /\ 1 \in 1..Len(s) /\ pushed[i].src = t
        BY <1>1, <1>2, <1>6, <2>2, <3>1, <3>3
      <4>2. pushed[i].id < s[1].id
        BY <1>5, <3>1, <4>1
      <4> QED
        BY <3>1, <4>1, <4>2
    <3> QED
      BY <1>2, <3>2, <3>3
  <2> QED
    BY <1>3, <2>1, <2>2 DEF PushedOrdered
<1>8. SendingOrdered'
  <2> SUFFICES ASSUME NEW u \in Tasks, NEW i \in 1..Len(sending'[u])
               PROVE  /\ sending'[u][i].src = u
                      /\ sending'[u][i].id <= count'
                      /\ sending'[u][i] \notin refused'
                      /\ \A j \in 1..Len(sending'[u]) :
                            i < j => sending'[u][i].id < sending'[u][j].id
                      /\ \A j \in 1..Len(pushed') :
                            pushed'[j].src = u => pushed'[j].id < sending'[u][i].id
    BY DEF SendingOrdered
  <2>1. CASE u = t
    <3> DEFINE r == Tail(s)
    <3>0. /\ sending'[u] = r /\ Len(r) = Len(s) - 1 /\ Len(s) \in Nat
          /\ \A j \in 1..Len(r) : r[j] = s[j + 1]
      BY <1>1, <1>3, <2>1
    <3> HIDE DEF r
    <3>1. /\ sending'[u][i] = s[i + 1] /\ i + 1 \in 1..Len(s)
          /\ Len(sending'[u]) = Len(s) - 1
      BY <3>0
    <3>2. \A j \in 1..Len(sending'[u]) : sending'[u][j] = s[j + 1] /\ j + 1 \in 1..Len(s)
      <4>1. ASSUME NEW j \in 1..Len(r) PROVE r[j] = s[j + 1] /\ j + 1 \in 1..Len(s)
        BY <3>0
      <4> QED
        BY <3>0, <4>1
    <3>3. ASSUME NEW j \in 1..Len(sending'[u]), i < j
          PROVE  s[i + 1].id < s[j + 1].id
      <4>1. /\ i + 1 \in 1..Len(s) /\ j + 1 \in 1..Len(s) /\ i + 1 < j + 1
        BY <3>0, <3>1, <3>2, <3>3
      <4> QED
        BY <1>5, <4>1
    <3>4. ASSUME NEW j \in 1..Len(pushed'), pushed'[j].src = u
          PROVE  pushed'[j].id < s[i + 1].id
      <4>1. CASE j \in 1..Len(pushed)
        <5>1. pushed'[j] = pushed[j]
          BY <1>2, <4>1
        <5> QED
          BY <1>5, <2>1, <3>1, <3>4, <4>1, <5>1
      <4>2. CASE j = Len(pushed) + 1
        <5>1. pushed'[j] = s[1] /\ 1 \in 1..Len(s) /\ 1 < i + 1
          BY <1>1, <1>2, <4>2
        <5> QED
          BY <1>5, <3>1, <5>1
      <4> QED
        BY <1>2, <4>1, <4>2
    <3> QED
      BY <1>3, <1>5, <2>1, <3>1, <3>2, <3>3, <3>4
  <2>2. CASE u # t
    <3>1. sending'[u] = sending[u] /\ i \in 1..Len(sending[u])
      BY <1>3, <2>2
    <3>2. ASSUME NEW j \in 1..Len(pushed'), pushed'[j].src = u
          PROVE  pushed'[j].id < sending[u][i].id
      <4>1. j \in 1..Len(pushed)
        BY <1>2, <1>6, <2>2, <3>2
      <4>2. pushed'[j] = pushed[j]
        BY <1>2, <4>1
      <4> QED
        BY <3>1, <3>2, <4>1, <4>2 DEF OrderInv, SendingOrdered
    <3> QED
      BY <1>3, <3>1, <3>2 DEF OrderInv, SendingOrdered
  <2> QED
    BY <2>1, <2>2
<1>9. RefusedKnown'
  BY <1>3 DEF OrderInv, RefusedKnown
<1> QED
  BY <1>7, <1>8, <1>9 DEF OrderInv

\* A wipe leaves nothing to push, and what the client has.
LEMMA WipeOrder ==
    ASSUME QueueInv, OrderInv, sending' = [u \in Tasks |-> <<>>],
           pushed' = handed, UNCHANGED count, RefusedKnown'
    PROVE  OrderInv'
<1>1. SendingOrdered'
  <2>1. ASSUME NEW t \in Tasks PROVE Len(sending'[t]) = 0
    OBVIOUS
  <2> QED
    BY <2>1 DEF SendingOrdered
<1>2. /\ Len(handed) \in Nat /\ Len(pushed) \in Nat /\ Len(handed) <= Len(pushed)
      /\ \A i \in 1..Len(handed) : i \in 1..Len(pushed) /\ pushed[i] = handed[i]
  <2>1. Len(handed) \in Nat /\ Len(item) \in Nat /\ Len(s_queue) \in Nat
    BY DEF QueueInv, TypeOK
  <2> QED
    BY <2>1, HandedIsFront
<1>3. PushedOrdered'
  BY <1>2 DEF OrderInv, PushedOrdered
<1> QED
  BY <1>1, <1>3 DEF OrderInv

LEMMA TimeoutOrder ==
    ASSUME QueueInv, OrderInv, NEW t \in Tasks, PushTimesOut(t)
    PROVE  OrderInv'
<1> DEFINE s == sending[t]
<1>1. /\ s \in Seq(Messages) /\ s # <<>> /\ Len(s) \in Nat /\ Len(s) > 0
      /\ Len(Tail(s)) = Len(s) - 1 /\ Head(s) = s[1] /\ 1 \in 1..Len(s)
      /\ \A i \in 1..Len(Tail(s)) : Tail(s)[i] = s[i + 1]
  BY DEF PushTimesOut, QueueInv, TypeOK
<1>2. refused' = refused \cup {s[1]} /\ UNCHANGED count
  BY <1>1 DEF PushTimesOut
<1>3. RefusedKnown'
  BY <1>1, <1>2 DEF OrderInv, RefusedKnown, SendingOrdered
<1>4. CASE t = Main
  BY <1>2, <1>3, <1>4, WipeOrder DEF PushTimesOut
<1>5. CASE t # Main
  <2>1. /\ sending'[t] = Tail(s) /\ UNCHANGED pushed
        /\ \A u \in Tasks : u # t => sending'[u] = sending[u]
    BY <1>5 DEF PushTimesOut, QueueInv, TypeOK
  <2>2. /\ \A i \in 1..Len(s) : s[i].id \in Nat
        /\ \A u \in Tasks : \A i \in 1..Len(sending[u]) : sending[u][i].src = u
        /\ \A i, j \in 1..Len(s) : i < j => s[i].id < s[j].id
        /\ \A i \in 1..Len(s) : s[i].id <= count /\ s[i] \notin refused
        /\ \A i \in 1..Len(s), j \in 1..Len(pushed) :
              pushed[j].src = t => pushed[j].id < s[i].id
    BY IdsAreNumbers DEF QueueInv, OrderInv, SendingOrdered
  <2> HIDE DEF s
  <2>3. SendingOrdered'
    <3> SUFFICES ASSUME NEW u \in Tasks, NEW i \in 1..Len(sending'[u])
                 PROVE  /\ sending'[u][i].src = u
                        /\ sending'[u][i].id <= count
                        /\ sending'[u][i] \notin refused'
                        /\ \A j \in 1..Len(sending'[u]) :
                              i < j => sending'[u][i].id < sending'[u][j].id
                        /\ \A j \in 1..Len(pushed) :
                              pushed[j].src = u => pushed[j].id < sending'[u][i].id
      BY <1>2, <2>1 DEF SendingOrdered
    <3>1. CASE u = t
      <4>1. \A j \in 1..Len(sending'[u]) : sending'[u][j] = s[j + 1] /\ j + 1 \in 1..Len(s)
        BY <1>1, <2>1, <3>1
      <4>2. /\ sending'[u][i] = s[i + 1] /\ i + 1 \in 1..Len(s) /\ 1 < i + 1
        BY <1>1, <2>1, <3>1
      <4>3. s[1].id < s[i + 1].id
        BY <1>1, <2>2, <4>2
      <4>4. s[i + 1] \notin refused'
        BY <1>1, <1>2, <2>2, <4>2, <4>3
      <4>5. \A j \in 1..Len(sending'[u]) : i < j => s[i + 1].id < s[j + 1].id
        BY <1>1, <2>2, <4>1, <4>2
      <4>6. s[i + 1].src = t
        BY <2>2, <4>2 DEF s
      <4> QED
        BY <2>2, <3>1, <4>1, <4>2, <4>4, <4>5, <4>6
    <3>2. CASE u # t
      <4>1. sending'[u] = sending[u] /\ i \in 1..Len(sending[u])
        BY <2>1, <3>2
      <4>2. s[1].src = t /\ sending[u][i].src = u
        BY <1>1, <2>2, <4>1 DEF s
      <4>3. sending[u][i] \notin refused'
        BY <1>2, <3>2, <4>1, <4>2 DEF OrderInv, SendingOrdered
      <4> QED
        BY <4>1, <4>3 DEF OrderInv, SendingOrdered
    <3> QED
      BY <3>1, <3>2
  <2>4. PushedOrdered'
    BY <1>2, <2>1 DEF OrderInv, PushedOrdered
  <2> QED
    BY <1>3, <2>3, <2>4 DEF OrderInv
<1> QED
  BY <1>4, <1>5

LEMMA OrderNext == QueueInv /\ OrderInv /\ [Next]_vars => OrderInv'
<1> SUFFICES ASSUME QueueInv, OrderInv, [Next]_vars PROVE OrderInv'
  OBVIOUS
<1>1. CASE Worker \/ SessionOpens \/ SessionDrops \/ OnConnected
           \/ OnDisconnected \/ UNCHANGED vars
  <2>1. UNCHANGED <<sending, pushed, refused, count>>
    BY <1>1 DEF Worker, Receive, CheckConnected, ClientAccepts, ClientRefuses,
                DelayOver, SessionOpens, SessionDrops, OnConnected,
                OnDisconnected, vars, tasks, history
  <2> QED
    BY <2>1 DEF OrderInv, SendingOrdered, PushedOrdered, RefusedKnown
<1>2. CASE Restart
  <2>1. RefusedKnown'
    BY <1>2 DEF Restart, OrderInv, RefusedKnown
  <2> QED
    BY <1>2, <2>1, WipeOrder DEF Restart
<1>3. ASSUME NEW t \in Tasks, PushSucceeds(t) \/ PushTimesOut(t)
      PROVE  OrderInv'
  BY <1>3, PushOrder, TimeoutOrder
<1> QED
  BY <1>1, <1>2, <1>3, CallersOrder DEF Next

LEMMA OrderInit == Init => OrderInv
<1> SUFFICES ASSUME Init PROVE OrderInv
  OBVIOUS
<1>1. Len(pushed) = 0 /\ refused = {} /\ \A t \in Tasks : Len(sending[t]) = 0
  BY DEF Init
<1> QED
  BY <1>1 DEF OrderInv, SendingOrdered, PushedOrdered, RefusedKnown

\* The publications of one task reach the client in the order in which the
\* task made them, across any number of restarts.
THEOREM OrderKept == Spec => []TaskOrderKept
<1>1. QueueInv /\ OrderInv => TaskOrderKept
  <2> SUFFICES ASSUME QueueInv, OrderInv, NEW i \in DOMAIN handed,
                      NEW j \in DOMAIN handed, i < j, handed[i].src = handed[j].src
               PROVE  handed[i].id < handed[j].id
    BY DEF TaskOrderKept
  <2>1. Len(handed) \in Nat /\ Len(item) \in Nat /\ Len(s_queue) \in Nat
        /\ DOMAIN handed = 1..Len(handed)
    BY DEF QueueInv, TypeOK
  <2>2. /\ i \in 1..Len(pushed) /\ pushed[i] = handed[i]
        /\ j \in 1..Len(pushed) /\ pushed[j] = handed[j]
    BY <2>1, HandedIsFront
  <2> QED
    BY <2>2 DEF OrderInv, PushedOrdered
<1> QED
  BY <1>1, QueueInit, QueueNext, OrderInit, OrderNext, PTL DEF Spec
-----------------------------------------------------------------------------
(***************************************************************************)
(* The queue implements the FIFO.                                           *)
(***************************************************************************)
LEMMA FifoStep ==
    QueueInv /\ OrderInv /\ [Next]_vars => [Fifo!Next]_(Fifo!vars)
<1> SUFFICES ASSUME QueueInv, OrderInv, [Next]_vars
             PROVE  [Fifo!Next]_(Fifo!vars)
  OBVIOUS
<1> USE PublishQueueAssumption
<1>1. /\ Len(handed) \in Nat /\ Len(item) \in Nat /\ Len(s_queue) \in Nat
      /\ Len(item) <= 1 /\ QueueLength \in Nat
      /\ Len(pushed) = Len(handed) + Len(item) + Len(s_queue)
      /\ handed \in Seq(Messages) /\ pushed \in Seq(Messages)
  BY HandedIsFront DEF QueueInv, TypeOK
<1>2. ASSUME NEW t \in Tasks, PushSucceeds(t) PROVE Fifo!Accept
  <2>1. Fifo!Waiting <= QueueLength
    <3>1. Len(s_queue) < QueueLength
      BY <1>1, <1>2 DEF PushSucceeds, Full
    <3>2. Len(pushed) - Len(handed) <= QueueLength
      BY <1>1, <3>1
    <3> QED
      BY <3>2 DEF Fifo!Waiting
  <2>2. Head(sending[t]) \in Messages \ refused
    <3>1. /\ sending[t] \in Seq(Messages) /\ sending[t] # <<>>
          /\ 1 \in 1..Len(sending[t]) /\ Head(sending[t]) = sending[t][1]
          /\ sending[t][1] \in Messages
      BY <1>2 DEF PushSucceeds, QueueInv, TypeOK
    <3> QED
      BY <3>1 DEF OrderInv, SendingOrdered
  <2> QED
    BY <1>2, <2>1, <2>2 DEF Fifo!Accept, PushSucceeds
<1>3. ASSUME NEW t \in Tasks, PushTimesOut(t) PROVE Fifo!Refuse
  <2>1. Fifo!Waiting >= QueueLength
    BY <1>1, <1>3 DEF Fifo!Waiting, PushTimesOut, Full
  <2>2. Head(sending[t]) \in Messages
    BY <1>3 DEF PushTimesOut, QueueInv, TypeOK
  <2>3. pushed' \in {pushed, handed} /\ UNCHANGED handed
    BY <1>3 DEF PushTimesOut
  <2> QED
    BY <1>3, <2>1, <2>2, <2>3 DEF Fifo!Refuse, PushTimesOut
<1>4. CASE ClientAccepts
  <2>1. Len(item) = 1
    BY <1>4 DEF ClientAccepts, QueueInv, TypeOK
  <2>2. item \in Seq(Messages)
    BY DEF QueueInv, TypeOK
  <2>3. item = <<item[1]>> /\ item[1] \in Messages
    BY <2>1, <2>2, Singleton
  <2>4. handed \o item = Append(handed, item[1])
    BY <1>1, <2>3, AppendIsConcat
  <2>5. pushed[Len(handed) + 1] = item[1]
    BY <2>1, HandedIsFront
  <2>6. Fifo!Waiting > 0
    BY <1>1, <2>1 DEF Fifo!Waiting
  <2> QED
    BY <1>4, <2>4, <2>5, <2>6 DEF Fifo!HandOver, Fifo!Next, ClientAccepts
<1>5. CASE Restart
  BY <1>5 DEF Restart, Fifo!Wipe, Fifo!Next
<1>6. CASE Callers \/ Receive \/ CheckConnected \/ ClientRefuses \/ DelayOver
           \/ SessionOpens \/ SessionDrops \/ OnConnected \/ OnDisconnected
           \/ UNCHANGED vars
  BY <1>6 DEF Callers, BootCompleted, HeartbeatDue, MotionDetected, Command,
              Receive, CheckConnected, ClientRefuses, DelayOver, SessionOpens,
              SessionDrops, OnConnected, OnDisconnected, vars, history, Fifo!vars
<1> QED
  BY <1>2, <1>3, <1>4, <1>5, <1>6 DEF Next, Worker, Fifo!Next

\* publish_queue.c is the FIFO its callers are promised.
THEOREM ImplementsFifo == Spec => FifoSpec
<1>1. Init => Fifo!Init
  BY DEF Init, Fifo!Init
<1> QED
  BY <1>1, QueueInit, QueueNext, OrderInit, OrderNext, FifoStep, PTL
     DEF Spec, FifoSpec, Fifo!Spec
=============================================================================
