-------------------------- MODULE CommandRouterProofs --------------------------
(***************************************************************************)
(* What a command is worth, for every payload, every buffer and queue size, *)
(* every number of messages, and every behavior of the session: it runs at  *)
(* most once and whole, and its publications go out at most once, in the    *)
(* order of the code, whatever the reboot tasks publish past the queue.     *)
(***************************************************************************)
EXTENDS CommandRouter, SequenceTheorems, TLAPS

-----------------------------------------------------------------------------
(***************************************************************************)
(* Sequences, entry by entry.                                               *)
(***************************************************************************)
LEMMA AppendEntries ==
    ASSUME NEW S, NEW s \in Seq(S), NEW x \in S, NEW t, t = Append(s, x)
    PROVE  /\ t \in Seq(S) /\ Len(s) \in Nat /\ Len(t) = Len(s) + 1
           /\ DOMAIN s = 1..Len(s) /\ DOMAIN t = 1..(Len(s) + 1)
           /\ \A i \in DOMAIN s : t[i] = s[i]
           /\ t[Len(s) + 1] = x
  BY AppendProperties

LEMMA TailEntries ==
    ASSUME NEW S, NEW s \in Seq(S), s # <<>>
    PROVE  /\ Head(s) \in S /\ Head(s) = s[1] /\ 1 \in DOMAIN s
           /\ Tail(s) \in Seq(S) /\ Len(Tail(s)) = Len(s) - 1
           /\ DOMAIN s = 1..Len(s) /\ DOMAIN Tail(s) = 1..(Len(s) - 1)
           /\ Len(s) \in Nat
           /\ \A i \in DOMAIN Tail(s) : i + 1 \in DOMAIN s /\ Tail(s)[i] = s[i + 1]
  BY HeadTailProperties, LenProperties

LEMMA ConcatEntries ==
    ASSUME NEW S, NEW a \in Seq(S), NEW b \in Seq(S), NEW i \in DOMAIN (a \o b)
    PROVE  /\ Len(a) \in Nat /\ DOMAIN a = 1..Len(a) /\ i \in Nat
           /\ \/ i \in DOMAIN a /\ (a \o b)[i] = a[i]
              \/ i > Len(a) /\ i - Len(a) \in DOMAIN b /\ (a \o b)[i] = b[i - Len(a)]
<1>1. /\ a \o b \in Seq(S) /\ Len(a \o b) = Len(a) + Len(b)
      /\ \A j \in 1..Len(a) + Len(b) :
            (a \o b)[j] = IF j <= Len(a) THEN a[j] ELSE b[j - Len(a)]
  BY ConcatProperties
<1>2. /\ Len(a) \in Nat /\ Len(b) \in Nat
      /\ DOMAIN a = 1..Len(a) /\ DOMAIN b = 1..Len(b) /\ DOMAIN (a \o b) = 1..Len(a \o b)
  BY <1>1, LenProperties
<1> QED
  BY <1>1, <1>2
-----------------------------------------------------------------------------
(***************************************************************************)
(* The events esp-mqtt makes of a message.                                  *)
(***************************************************************************)

\* The bytes left for fragment i of a payload of n > 0 bytes.
LEMMA SomethingLeft ==
    ASSUME NEW n \in Nat \ {0}, NEW b \in Nat \ {0},
           NEW i \in 1..(1 + (n - 1) \div b)
    PROVE  n - (i - 1) * b >= 1
<1> DEFINE d == (n - 1) \div b
<1>1. d \in Nat /\ b * d <= n - 1
  OBVIOUS
<1>2. i - 1 \in Nat /\ i - 1 <= d
  BY <1>1
<1> HIDE DEF d
<1>3. (i - 1) * b <= b * d
  <2>1. PICK k \in Nat : d = (i - 1) + k
    BY <1>1, <1>2
  <2>2. b * d = (i - 1) * b + k * b
    BY <1>2, <2>1
  <2>3. k * b >= 0 /\ (i - 1) * b \in Int
    BY <1>2
  <2> QED
    BY <1>1, <2>2, <2>3
<1> QED
  BY <1>1, <1>2, <1>3

LEMMA EventMade ==
    ASSUME NEW u \in Topics \cup {""}, NEW l \in Nat, NEW o \in Nat,
           NEW k \in Nat \cup {Missing}, NEW n \in 1..MaxMessages
    PROVE  [topic |-> u, len |-> l, msg |-> n, object_end |-> o, id_len |-> k] \in Event
  BY Zenon DEF Event

LEMMA NoEventType == NoEvent \in Event
<1>1. /\ 1 \in 1..MaxMessages /\ 0 \in Nat
      /\ "" \in Topics \cup {""} /\ Missing \in Nat \cup {Missing}
  BY RouterAssumption
<1>2. [topic |-> "", len |-> 0, msg |-> 1, object_end |-> 0, id_len |-> Missing] \in Event
  BY <1>1, EventMade, Zenon
<1>3. NoEvent = [topic |-> "", len |-> 0, msg |-> 1, object_end |-> 0, id_len |-> Missing]
  BY DEF NoEvent
<1> QED
  BY <1>2, <1>3

LEMMA FragmentEntries ==
    ASSUME NEW t \in Topics, NEW p \in Payloads, NEW n \in 1..MaxMessages
    PROVE  /\ Fragments(t, p, n) \in Seq(Event)
           /\ \A i \in DOMAIN Fragments(t, p, n) :
                 LET e == Fragments(t, p, n)[i]
                 IN  /\ e.msg = n /\ (e.topic # "" => i = 1)
                     /\ e.len > 0 => e.object_end <= e.len
<1> DEFINE last == 1 + (IF p.len = 0 THEN 0 ELSE (p.len - 1) \div ClientBuffer)
           left(i) == p.len - (i - 1) * ClientBuffer
           here(i) == IF left(i) > ClientBuffer THEN ClientBuffer ELSE left(i)
           f == Fragments(t, p, n)
<1>1. /\ p.len \in Nat /\ p.object_end \in Nat /\ p.id_len \in Nat \cup {Missing}
      /\ p.again \in BOOLEAN /\ ClientBuffer \in Nat \ {0}
  BY RouterAssumption
<1>2. last \in Nat
  BY <1>1
<1>3. ASSUME NEW i \in 1..last PROVE left(i) \in Nat /\ here(i) \in Nat
  <2>1. CASE p.len = 0
    <3>1. i = 1
      BY <2>1
    <3> QED
      BY <1>1, <2>1, <3>1
  <2>2. CASE p.len # 0
    <3>1. left(i) >= 1
      BY <1>1, <2>2, SomethingLeft
    <3>2. left(i) \in Int
      BY <1>1, <1>2
    <3> HIDE DEF left
    <3> QED
      BY <1>1, <3>1, <3>2
  <2> QED
    BY <2>1, <2>2
<1>4. f = [i \in 1..last |->
            [topic |-> IF i = 1 THEN t ELSE "", len |-> here(i), msg |-> n,
             object_end |-> IF i > 1 THEN (IF p.again THEN 1 ELSE 0)
                            ELSE IF p.object_end <= here(i) THEN p.object_end ELSE 0,
             id_len |-> p.id_len]]
  BY DEF Fragments
<1> HIDE DEF here, f, last
<1>5. ASSUME NEW i \in 1..last
      PROVE  /\ f[i] \in Event /\ f[i].msg = n /\ (f[i].topic # "" => i = 1)
             /\ f[i].len > 0 => f[i].object_end <= f[i].len
  <2> DEFINE o == IF i > 1 THEN (IF p.again THEN 1 ELSE 0)
                  ELSE IF p.object_end <= here(i) THEN p.object_end ELSE 0
             u == IF i = 1 THEN t ELSE ""
             h == here(i)
             k == p.id_len
  <2>1. h \in Nat /\ i \in Nat /\ i >= 1
    BY <1>2, <1>3
  <2>2. o \in Nat /\ (h > 0 => o <= h)
    BY <1>1, <2>1
  <2>3. u \in Topics \cup {""} /\ (u # "" => i = 1) /\ k \in Nat \cup {Missing}
    BY <1>1
  <2>4. f[i] = [topic |-> u, len |-> h, msg |-> n, object_end |-> o, id_len |-> k]
    BY <1>4
  <2> HIDE DEF o, u, h, k
  <2>5. f[i] \in Event
    <3>1. o \in Nat /\ h \in Nat /\ u \in Topics \cup {""} /\ k \in Nat \cup {Missing}
      BY <2>1, <2>2, <2>3
    <3>2. [topic |-> u, len |-> h, msg |-> n, object_end |-> o, id_len |-> k] \in Event
      BY <3>1, EventMade, Zenon
    <3> QED
      BY <2>4, <3>2, Zenon
  <2>6. f[i].msg = n /\ f[i].topic = u /\ f[i].object_end = o /\ f[i].len = h
    BY <2>4
  <2> QED
    BY <2>2, <2>3, <2>5, <2>6
<1>6. f \in Seq(Event) /\ DOMAIN f = 1..last
  <2>1. DOMAIN f = 1..last /\ f = [i \in 1..last |-> f[i]]
    BY <1>4
  <2>2. f \in [1..last -> Event]
    BY <1>5, <2>1
  <2> QED
    BY <1>2, <2>1, <2>2, SeqDef
<1> QED
  BY <1>5, <1>6 DEF f
-----------------------------------------------------------------------------
(***************************************************************************)
(* Types.                                                                   *)
(***************************************************************************)
LEMMA Pairs ==
    ASSUME NEW a \in Kinds, NEW b \in Kinds
    PROVE  <<a>> \o <<b>> = <<a, b>> /\ <<a>> \o <<>> = <<a>> /\ <<>> \o <<b>> = <<b>>
<1>1. <<a>> \in Seq(Kinds) /\ <<b>> \in Seq(Kinds) /\ <<>> \in Seq(Kinds)
  OBVIOUS
<1>2. <<a>> \o <<b>> = Append(<<a>>, b)
  BY <1>1, AppendIsConcat
<1>3. Append(<<a>>, b) = <<a, b>>
  <2>1. /\ Append(<<a>>, b) \in Seq(Kinds) /\ Len(Append(<<a>>, b)) = 2
        /\ Append(<<a>>, b)[1] = a /\ Append(<<a>>, b)[2] = b
    BY <1>1, AppendProperties
  <2>2. /\ <<a, b>> \in Seq(Kinds) /\ Len(<<a, b>>) = 2
        /\ <<a, b>>[1] = a /\ <<a, b>>[2] = b
    OBVIOUS
  <2> DEFINE s == Append(<<a>>, b)
             t == <<a, b>>
  <2>3. \A i \in 1..2 : s[i] = t[i]
    BY <2>1, <2>2
  <2> HIDE DEF s, t
  <2>4. s \in Seq(Kinds) /\ t \in Seq(Kinds) /\ Len(s) = 2 /\ Len(t) = 2
    BY <2>1, <2>2 DEF s, t
  <2>5. s = t
    BY <2>3, <2>4, SeqEqual
  <2> QED
    BY <2>5 DEF s, t
<1> QED
  BY <1>1, <1>2, <1>3, ConcatEmptySeq

LEMMA PublishesKinds ==
    ASSUME NEW e \in Event, NEW ks \in Publishes(e)
    PROVE  ks \in {<<>>, <<"reply">>, <<"config_updated">>, <<"config_updated", "reply">>,
                   <<"capture_failed">>, <<"reply", "capture_failed">>}
<1> DEFINE reply == IF ReplyTopicFits(e.id_len) THEN <<"reply">> ELSE <<>>
<1>1. reply = <<"reply">> \/ reply = <<>>
  OBVIOUS
<1>2. /\ <<"config_updated">> \o <<"reply">> = <<"config_updated", "reply">>
      /\ <<"config_updated">> \o <<>> = <<"config_updated">>
      /\ <<"reply">> \o <<"capture_failed">> = <<"reply", "capture_failed">>
      /\ <<>> \o <<"capture_failed">> = <<"capture_failed">>
  BY Pairs DEF Kinds
<1>3. ks \in {reply, <<"config_updated">> \o reply, reply \o <<"capture_failed">>}
  BY DEF Publishes
<1> HIDE DEF reply
<1> QED
  BY <1>1, <1>2, <1>3

\* The steps that leave the handler alone.
Quiet == \/ SessionOpens \/ SessionDrops \/ Reboot \/ Restart

LEMMA TypeQuiet == TypeOK /\ Quiet => TypeOK'
<1> SUFFICES ASSUME TypeOK, Quiet PROVE TypeOK'
  OBVIOUS
<1>1. <<>> \in Seq(Event) /\ <<>> \in Seq(Kinds) /\ <<>> \in Seq(Publication) /\ Len(<<>>) = 0
  OBVIOUS
<1>2. CASE SessionOpens \/ SessionDrops
  BY <1>1, <1>2 DEF TypeOK, SessionOpens, SessionDrops, router, outbound
<1>3. ASSUME NEW n \in 1..MaxMessages, RebootReply(n) PROVE TypeOK'
  <2>1. [msg |-> n, kind |-> "reply"] \in Publication
    BY DEF Publication, Kinds
  <2>2. handed' \in Seq(Publication)
    <3>1. handed' = handed \/ handed' = Append(handed, [msg |-> n, kind |-> "reply"])
      BY <1>3 DEF RebootReply
    <3> QED
      BY <2>1, <3>1, AppendEntries DEF TypeOK
  <2>3. reboots' \in [1..MaxMessages -> Stages]
    BY <1>3 DEF RebootReply, TypeOK, Stages
  <2> QED
    BY <1>3, <2>2, <2>3 DEF RebootReply, TypeOK
<1>4. ASSUME Down, UNCHANGED <<count, handed, executed>> PROVE TypeOK'
  <2>1. reboots' \in [1..MaxMessages -> Stages]
    BY <1>4 DEF Down, Stages
  <2>2. Len(queue') <= QueueLength + 1
    BY <1>1, <1>4, RouterAssumption DEF Down
  <2> QED
    BY <1>1, <1>4, <2>1, <2>2, NoEventType DEF Down, TypeOK
<1> QED
  BY <1>2, <1>3, <1>4 DEF Quiet, Reboot, RebootNow, Restart

LEMMA TypeDeliver == TypeOK /\ Deliver => TypeOK'
<1> SUFFICES ASSUME TypeOK, Deliver PROVE TypeOK'
  OBVIOUS
<1>1. count' \in 1..MaxMessages /\ count' \in 0..MaxMessages
  BY RouterAssumption DEF TypeOK, Deliver
<1>2. PICK t \in Topics, p \in Payloads : inbox' = inbox \o Fragments(t, p, count')
  BY DEF Deliver
<1>3. inbox' \in Seq(Event)
  BY <1>1, <1>2, FragmentEntries, ConcatProperties DEF TypeOK
<1> QED
  BY <1>1, <1>3 DEF TypeOK, Deliver, router, outbound

\* What an event does to the handler's state.
LEMMA HandleStep ==
    ASSUME TypeOK, Handle
    PROVE  LET e == Head(inbox)
           IN  /\ e \in Event /\ e = inbox[1] /\ 1 \in DOMAIN inbox /\ current' = e
               /\ \/ /\ ~Accepts(e) /\ UNCHANGED <<todo, reboots, executed>>
                  \/ /\ Accepts(e) /\ executed' = Append(executed, e)
                     /\ todo' \in {<<>>, <<"reply">>, <<"config_updated">>,
                                   <<"config_updated", "reply">>, <<"capture_failed">>,
                                   <<"reply", "capture_failed">>}
                     /\ \/ reboots' = reboots
                        \/ /\ reboots' = [reboots EXCEPT ![e.msg] = "publish"]
                           /\ todo' = <<>>
<1> DEFINE e == Head(inbox)
<1>1. e \in Event /\ e = inbox[1] /\ 1 \in DOMAIN inbox /\ current' = e
  BY TailEntries DEF TypeOK, Handle
<1>2. CASE ~Accepts(e)
  BY <1>1, <1>2 DEF Handle
<1>3. CASE Accepts(e)
  <2>1. /\ executed' = Append(executed, e)
        /\ ScheduleReboot(e) \/ Answer(e) \/ NoMemory
    BY <1>3 DEF Handle
  <2>2. CASE ScheduleReboot(e)
    BY <1>1, <1>3, <2>1, <2>2 DEF ScheduleReboot
  <2>3. CASE Answer(e)
    BY <1>1, <1>3, <2>1, <2>3, PublishesKinds DEF Answer
  <2>4. CASE NoMemory
    BY <1>1, <1>3, <2>1, <2>4 DEF NoMemory
  <2> QED
    BY <2>1, <2>2, <2>3, <2>4
<1> QED
  BY <1>2, <1>3

LEMMA TypeHandle == TypeOK /\ Handle => TypeOK'
<1> SUFFICES ASSUME TypeOK, Handle PROVE TypeOK'
  OBVIOUS
<1> DEFINE e == Head(inbox)
<1>1. e \in Event /\ inbox' \in Seq(Event) /\ e.msg \in 1..MaxMessages
  <2>1. e \in Event /\ inbox' \in Seq(Event)
    BY TailEntries DEF TypeOK, Handle
  <2> QED
    BY <2>1 DEF Event
<1>2. executed' \in Seq(Event)
  BY <1>1, HandleStep, AppendEntries DEF TypeOK
<1>3. todo' \in Seq(Kinds)
  <2>1. {<<>>, <<"reply">>, <<"config_updated">>, <<"config_updated", "reply">>,
         <<"capture_failed">>, <<"reply", "capture_failed">>} \subseteq Seq(Kinds)
    BY DEF Kinds
  <2> QED
    BY <2>1, HandleStep DEF TypeOK
<1>4. reboots' \in [1..MaxMessages -> Stages]
  BY <1>1, HandleStep DEF TypeOK, Stages
<1> QED
  BY <1>1, <1>2, <1>3, <1>4, HandleStep DEF TypeOK, Handle, outbound

LEMMA TypePush == TypeOK /\ Push => TypeOK'
<1> SUFFICES ASSUME TypeOK, Push PROVE TypeOK'
  OBVIOUS
<1> DEFINE m == [msg |-> current.msg, kind |-> Head(todo)]
<1>1. m \in Publication /\ todo' \in Seq(Kinds)
  BY TailEntries DEF TypeOK, Push, Publication, Event
<1>2. /\ queue' \in Seq(Publication) /\ Len(queue') <= QueueLength + 1
      /\ queue' = queue \/ queue' = Append(queue, m)
  <2>1. ASSUME Room, queue' = Append(queue, m)
        PROVE  queue' \in Seq(Publication) /\ Len(queue') <= QueueLength + 1
    <3> HIDE DEF m
    <3> QED
      BY <1>1, <2>1, AppendEntries, RouterAssumption DEF Room, TypeOK
  <2>2. (Room /\ queue' = Append(queue, m)) \/ queue' = queue
    BY DEF Push
  <2>3. queue \in Seq(Publication) /\ Len(queue) <= QueueLength + 1
    BY DEF TypeOK
  <2> QED
    BY <2>1, <2>2, <2>3
<1> QED
  BY <1>1, <1>2 DEF TypeOK, Push

LEMMA TypeHandOver == TypeOK /\ HandOver => TypeOK'
<1> SUFFICES ASSUME TypeOK, HandOver PROVE TypeOK'
  OBVIOUS
<1>1. /\ Head(queue) \in Publication /\ queue' \in Seq(Publication)
      /\ Len(queue') <= QueueLength + 1
  <2>1. queue \in Seq(Publication) /\ Len(queue) \in Nat /\ Len(queue) <= QueueLength + 1
    BY DEF TypeOK
  <2>2. queue # <<>> /\ queue' = Tail(queue)
    BY DEF HandOver
  <2>3. /\ Head(queue) \in Publication /\ queue' \in Seq(Publication)
        /\ Len(queue') = Len(queue) - 1
    BY <2>1, <2>2, TailEntries
  <2>4. QueueLength \in Nat
    BY RouterAssumption
  <2> QED
    BY <2>1, <2>3, <2>4
<1>2. handed' \in Seq(Publication)
  BY <1>1, AppendEntries DEF TypeOK, HandOver
<1> QED
  BY <1>1, <1>2 DEF TypeOK, HandOver, router

LEMMA TypeInit == Init => TypeOK
<1> SUFFICES ASSUME Init PROVE TypeOK
  OBVIOUS
<1>1. <<>> \in Seq(Event) /\ <<>> \in Seq(Kinds) /\ <<>> \in Seq(Publication) /\ Len(<<>>) = 0
  OBVIOUS
<1>2. [n \in 1..MaxMessages |-> "none"] \in [1..MaxMessages -> Stages]
  BY DEF Stages
<1> QED
  <2>1. 0 \in 0..MaxMessages /\ 0 <= QueueLength + 1 /\ FALSE \in BOOLEAN
    BY RouterAssumption
  <2>2. connected \in BOOLEAN /\ count \in 0..MaxMessages /\ Len(queue) <= QueueLength + 1
    BY <1>1, <2>1 DEF Init
  <2> QED
    BY <1>1, <1>2, <2>2, NoEventType DEF Init, TypeOK

LEMMA TypeNext == TypeOK /\ [Next]_vars => TypeOK'
<1> SUFFICES ASSUME TypeOK, [Next]_vars PROVE TypeOK'
  OBVIOUS
<1>1. CASE UNCHANGED vars
  BY <1>1 DEF vars, TypeOK
<1> QED
  BY <1>1, TypeQuiet, TypeDeliver, TypeHandle, TypePush, TypeHandOver DEF Next, Quiet

\* The router's and the reboot tasks' variables are well typed, and the queue
\* never holds more than its length, with one more in the worker's hands.
THEOREM RouterTypeCorrect == Spec => []TypeOK
  BY TypeInit, TypeNext, PTL DEF Spec
-----------------------------------------------------------------------------
(***************************************************************************)
(* Why a message is dispatched at most once: of its events only the first   *)
(* has a topic, and no event that has one belongs to a message that ran.    *)
(***************************************************************************)
HasTopic(e) == e.topic # ""

Fresh ==
    /\ \A i \in DOMAIN inbox : HasTopic(inbox[i]) =>
          inbox[i].msg <= count /\ ~Ran(inbox[i].msg)
    /\ \A i, j \in DOMAIN inbox :
          i # j /\ HasTopic(inbox[i]) /\ HasTopic(inbox[j]) => inbox[i].msg # inbox[j].msg
    /\ \A i \in DOMAIN inbox : inbox[i].len > 0 => inbox[i].object_end <= inbox[i].len
    /\ \A i \in DOMAIN executed : executed[i].msg <= count

RanInv == TypeOK /\ Fresh /\ RunsOnceAndWhole

LEMMA EventNumbers ==
    ASSUME NEW s \in Seq(Event)
    PROVE  /\ Len(s) \in Nat /\ DOMAIN s = 1..Len(s)
           /\ \A i \in DOMAIN s : s[i].msg \in Nat /\ s[i].len \in Nat /\ s[i].object_end \in Nat
<1>1. Len(s) \in Nat /\ DOMAIN s = 1..Len(s)
  BY LenProperties
<1>2. \A i \in DOMAIN s : s[i] \in Event
  BY <1>1, ElementOfSeq
<1>3. \A e \in Event : e.msg \in Nat /\ e.len \in Nat /\ e.object_end \in Nat
  <2>1. \A e \in Event : e.msg \in 1..MaxMessages /\ e.len \in Nat /\ e.object_end \in Nat
    BY Zenon DEF Event
  <2>2. 1..MaxMessages \subseteq Nat
    BY RouterAssumption
  <2> QED
    BY <2>1, <2>2
<1> QED
  BY <1>1, <1>2, <1>3

LEMMA FreshDeliver == RanInv /\ Deliver => Fresh' /\ RunsOnceAndWhole'
<1> SUFFICES ASSUME RanInv, Deliver PROVE Fresh' /\ RunsOnceAndWhole'
  OBVIOUS
<1>1. /\ count \in Nat /\ count' = count + 1 /\ count' \in 1..MaxMessages
      /\ executed' = executed
  BY RouterAssumption DEF RanInv, TypeOK, Deliver, router
<1>2. PICK t \in Topics, p \in Payloads : inbox' = inbox \o Fragments(t, p, count')
  BY DEF Deliver
<1> DEFINE f == Fragments(t, p, count')
<1>3. /\ f \in Seq(Event)
      /\ \A i \in DOMAIN f : /\ f[i].msg = count' /\ (HasTopic(f[i]) => i = 1)
                             /\ f[i].len > 0 => f[i].object_end <= f[i].len
  BY <1>1, FragmentEntries DEF HasTopic
<1>4. inbox \in Seq(Event) /\ inbox' = inbox \o f
  BY <1>2 DEF RanInv, TypeOK
<1> HIDE DEF f
<1> DEFINE Old(i) == i \in DOMAIN inbox /\ inbox'[i] = inbox[i]
           k(i) == i - Len(inbox)
           New(i) == k(i) \in DOMAIN f /\ inbox'[i] = f[k(i)]
<1>5. ASSUME NEW i \in DOMAIN inbox'
      PROVE  (Old(i) \/ New(i)) /\ i \in Nat /\ Len(inbox) \in Nat
  <2>1. i \in DOMAIN (inbox \o f)
    BY <1>4
  <2> QED
    BY <1>3, <1>4, <2>1, ConcatEntries
<1>6. ASSUME NEW i \in DOMAIN inbox
      PROVE  /\ inbox[i].msg \in Nat
             /\ HasTopic(inbox[i]) => inbox[i].msg <= count /\ inbox[i].msg < count'
  <2>1. inbox[i].msg \in Nat
    BY <1>4, EventNumbers
  <2>2. HasTopic(inbox[i]) => inbox[i].msg <= count
    BY DEF RanInv, Fresh
  <2> QED
    BY <1>1, <2>1, <2>2
<1>7. ASSUME NEW j \in DOMAIN executed PROVE executed[j].msg < count'
  <2>1. executed[j].msg \in Nat
    BY EventNumbers DEF RanInv, TypeOK
  <2>2. executed[j].msg <= count
    BY DEF RanInv, Fresh
  <2> QED
    BY <1>1, <2>1, <2>2
<1>8. ASSUME NEW i \in DOMAIN inbox', HasTopic(inbox'[i])
      PROVE  /\ inbox'[i].msg <= count'
             /\ \A j \in DOMAIN executed' : executed'[j].msg # inbox'[i].msg
  <2>1. CASE Old(i)
    <3>1. inbox'[i].msg <= count'
      BY <1>1, <1>6, <1>8, <2>1
    <3>2. ~Ran(inbox'[i].msg)
      BY <1>8, <2>1 DEF RanInv, Fresh
    <3> QED
      BY <1>1, <3>1, <3>2 DEF Ran
  <2>2. CASE New(i)
    <3>1. inbox'[i].msg = count'
      BY <1>3, <2>2
    <3>2. ASSUME NEW j \in DOMAIN executed' PROVE executed'[j].msg # count'
      <4>1. executed[j].msg < count'
        BY <1>1, <1>7
      <4> QED
        BY <1>1, <4>1
    <3> QED
      BY <1>1, <3>1, <3>2
  <2> QED
    BY <1>5, <2>1, <2>2
<1>9. ASSUME NEW i \in DOMAIN inbox', NEW j \in DOMAIN inbox', i # j,
             HasTopic(inbox'[i]), HasTopic(inbox'[j])
      PROVE  inbox'[i].msg # inbox'[j].msg
  <2>1. CASE Old(i) /\ Old(j)
    BY <1>9, <2>1 DEF RanInv, Fresh
  <2>2. CASE Old(i) /\ New(j)
    <3>1. inbox'[j].msg = count' /\ inbox'[i].msg < count' /\ inbox'[i].msg \in Nat
      BY <1>3, <1>6, <1>9, <2>2
    <3> QED
      BY <1>1, <3>1
  <2>3. CASE New(i) /\ Old(j)
    <3>1. inbox'[i].msg = count' /\ inbox'[j].msg < count' /\ inbox'[j].msg \in Nat
      BY <1>3, <1>6, <1>9, <2>3
    <3> QED
      BY <1>1, <3>1
  <2>4. CASE New(i) /\ New(j)
    <3>1. k(i) = 1 /\ k(j) = 1
      BY <1>3, <1>9, <2>4
    <3> QED
      BY <1>5, <1>9, <3>1
  <2> QED
    BY <1>5, <2>1, <2>2, <2>3, <2>4
<1>10. ASSUME NEW i \in DOMAIN inbox', inbox'[i].len > 0
       PROVE  inbox'[i].object_end <= inbox'[i].len
  <2>1. CASE Old(i)
    BY <1>10, <2>1 DEF RanInv, Fresh
  <2>2. CASE New(i)
    BY <1>3, <1>10, <2>2
  <2> QED
    BY <1>5, <2>1, <2>2
<1>11. ASSUME NEW j \in DOMAIN executed' PROVE executed'[j].msg <= count'
  <2>1. executed[j].msg < count' /\ executed[j].msg \in Nat
    BY <1>1, <1>7, EventNumbers DEF RanInv, TypeOK
  <2> QED
    BY <1>1, <2>1
<1>12. RunsOnceAndWhole'
  BY <1>1 DEF RanInv, RunsOnceAndWhole
<1> QED
  BY <1>8, <1>9, <1>10, <1>11, <1>12 DEF Fresh, Ran

LEMMA FreshHandle == RanInv /\ Handle => Fresh' /\ RunsOnceAndWhole'
<1> SUFFICES ASSUME RanInv, Handle PROVE Fresh' /\ RunsOnceAndWhole'
  OBVIOUS
<1> DEFINE e == Head(inbox)
<1>1. /\ inbox \in Seq(Event) /\ inbox # <<>> /\ inbox' = Tail(inbox)
      /\ executed \in Seq(Event) /\ count' = count
  BY DEF RanInv, TypeOK, Handle
<1>2. /\ e \in Event /\ e = inbox[1] /\ 1 \in DOMAIN inbox
      /\ DOMAIN inbox' \subseteq Nat \ {0}
      /\ \A i \in DOMAIN inbox' : i + 1 \in DOMAIN inbox /\ inbox'[i] = inbox[i + 1]
  BY <1>1, TailEntries
<1>3. ASSUME NEW i \in DOMAIN inbox'
      PROVE  /\ HasTopic(inbox'[i]) => inbox'[i].msg <= count' /\ ~Ran(inbox'[i].msg)
             /\ HasTopic(inbox'[i]) /\ HasTopic(e) => inbox'[i].msg # e.msg
             /\ inbox'[i].len > 0 => inbox'[i].object_end <= inbox'[i].len
  <2>1. i + 1 \in DOMAIN inbox /\ inbox'[i] = inbox[i + 1] /\ i + 1 # 1
    BY <1>2
  <2> QED
    BY <1>1, <1>2, <2>1 DEF RanInv, Fresh
<1>4. ASSUME NEW i \in DOMAIN inbox', NEW j \in DOMAIN inbox', i # j,
             HasTopic(inbox'[i]), HasTopic(inbox'[j])
      PROVE  inbox'[i].msg # inbox'[j].msg
  <2>1. /\ i + 1 \in DOMAIN inbox /\ inbox'[i] = inbox[i + 1]
        /\ j + 1 \in DOMAIN inbox /\ inbox'[j] = inbox[j + 1] /\ i + 1 # j + 1
    BY <1>2, <1>4
  <2> QED
    BY <1>4, <2>1 DEF RanInv, Fresh
<1>5. CASE executed' = executed
  <2>1. Fresh'
    BY <1>1, <1>3, <1>4, <1>5 DEF RanInv, Fresh, Ran
  <2>2. RunsOnceAndWhole'
    BY <1>5 DEF RanInv, RunsOnceAndWhole
  <2> QED
    BY <2>1, <2>2
<1>6. CASE Accepts(e) /\ executed' = Append(executed, e)
  <2>1. HasTopic(e)
    BY <1>6 DEF Accepts, IsCommand, HasTopic
  <2>2. e.len > 0 /\ e.object_end > 0 /\ e.object_end \in Nat /\ e.len \in Nat
    BY <1>1, <1>2, <1>6, EventNumbers DEF Accepts, HasObject
  <2>3. ~Ran(e.msg) /\ e.msg <= count /\ e.object_end <= e.len
    BY <1>2, <2>1, <2>2 DEF RanInv, Fresh
  <2> DEFINE last == Len(executed) + 1
  <2>4. /\ DOMAIN executed = 1..Len(executed) /\ DOMAIN executed' = 1..last
        /\ Len(executed) \in Nat
        /\ \A i \in DOMAIN executed : executed'[i] = executed[i]
        /\ executed'[last] = e
    BY <1>1, <1>2, <1>6, AppendEntries
  <2>5. \A i \in DOMAIN executed' :
           \/ i \in DOMAIN executed /\ executed'[i] = executed[i]
           \/ i = last /\ executed'[i] = e
    BY <2>4
  <2> HIDE DEF last, e
  <2>6. \A i \in DOMAIN executed : executed[i].msg # e.msg
    BY <2>3 DEF Ran
  <2>7. RunsOnceAndWhole'
    <3>1. ASSUME NEW i \in DOMAIN executed', NEW j \in DOMAIN executed',
                 executed'[i].msg = executed'[j].msg
          PROVE  i = j
      BY <2>5, <2>6, <3>1 DEF RanInv, RunsOnceAndWhole
    <3>2. \A i \in DOMAIN executed' : executed'[i].object_end \in 1..executed'[i].len
      BY <2>2, <2>3, <2>5 DEF RanInv, RunsOnceAndWhole
    <3> QED
      BY <3>1, <3>2 DEF RunsOnceAndWhole
  <2>8. ASSUME NEW i \in DOMAIN inbox', HasTopic(inbox'[i])
        PROVE  \A j \in DOMAIN executed' : executed'[j].msg # inbox'[i].msg
    BY <1>3, <2>1, <2>5, <2>8 DEF Ran
  <2>9. \A i \in DOMAIN executed' : executed'[i].msg <= count'
    BY <1>1, <2>3, <2>5 DEF RanInv, Fresh
  <2> QED
    BY <1>3, <1>4, <2>7, <2>8, <2>9 DEF Fresh, Ran
<1> QED
  BY <1>5, <1>6, HandleStep DEF RanInv

LEMMA RanNext == RanInv /\ [Next]_vars => RanInv'
<1> SUFFICES ASSUME RanInv, [Next]_vars PROVE Fresh' /\ RunsOnceAndWhole'
  <2> TypeOK /\ [Next]_vars => TypeOK'
    BY TypeNext
  <2> QED
    BY DEF RanInv
<1>1. CASE inbox' \in {inbox, <<>>} /\ UNCHANGED <<count, executed>>
  <2>1. DOMAIN <<>> = {}
    OBVIOUS
  <2> QED
    BY <1>1, <2>1 DEF RanInv, Fresh, RunsOnceAndWhole, Ran
<1>2. CASE SessionOpens \/ SessionDrops \/ Push \/ HandOver \/ Reboot \/ Restart \/ UNCHANGED vars
  BY <1>1, <1>2 DEF SessionOpens, SessionDrops, Push, HandOver, Reboot, RebootReply,
                    RebootNow, Restart, Down, router, outbound, vars
<1> QED
  BY <1>2, FreshDeliver, FreshHandle DEF Next

LEMMA RanInit == Init => RanInv
  BY TypeInit DEF Init, RanInv, Fresh, RunsOnceAndWhole, Ran

\* A message is dispatched at most once, and only when its whole object was in
\* the data looked at, however esp-mqtt cuts it into events.
THEOREM RunsOnce == Spec => []RunsOnceAndWhole
<1>1. RanInv => RunsOnceAndWhole
  BY DEF RanInv
<1> QED
  BY <1>1, RanInit, RanNext, PTL DEF Spec
-----------------------------------------------------------------------------
(***************************************************************************)
(* Why the publications of a message go out once and in order: what the     *)
(* client has, what the queue holds and what the handler has still to push  *)
(* are one line, in the order of the kinds; and a reboot task that has not  *)
(* published answers a message of which nothing is in that line.            *)
(***************************************************************************)
Precedes(k, l) == \E a, b \in DOMAIN Order : a < b /\ k = Order[a] /\ l = Order[b]
Before(p, q) == p.msg = q.msg => Precedes(p.kind, q.kind)

Ordered(s) == \A i, j \in DOMAIN s : i < j => Before(s[i], s[j])
AllBefore(s, q) == \A i \in DOMAIN s : Before(s[i], q)
Without(s, n) == \A i \in DOMAIN s : s[i].msg # n

Pub(k) == [msg |-> current.msg, kind |-> k]

Line ==
    /\ Ordered(handed) /\ Ordered(queue)
    /\ \A j \in DOMAIN queue : AllBefore(handed, queue[j])

Pending ==
    /\ todo # <<>> => Ran(current.msg)
    /\ \A i, j \in DOMAIN todo : i < j => Precedes(todo[i], todo[j])
    /\ \A i \in DOMAIN todo : AllBefore(handed, Pub(todo[i])) /\ AllBefore(queue, Pub(todo[i]))

Answered ==
    /\ \A i \in DOMAIN handed : Ran(handed[i].msg)
    /\ \A i \in DOMAIN queue : Ran(queue[i].msg)

Unsaid ==
    \A n \in 1..MaxMessages : reboots[n] = "publish" =>
        /\ Ran(n) /\ Without(handed, n) /\ Without(queue, n)
        /\ todo # <<>> => current.msg # n

LineInv == Line /\ Pending /\ Answered /\ Unsaid

LEMMA KindsOrdered ==
    /\ Precedes("config_updated", "reply") /\ Precedes("reply", "capture_failed")
    /\ \A k : ~Precedes(k, k)
<1>1. /\ DOMAIN Order = {1, 2, 3} /\ Order[1] = "config_updated"
      /\ Order[2] = "reply" /\ Order[3] = "capture_failed"
  BY DEF Order
<1>2. \A a, b \in DOMAIN Order : a < b => Order[a] # Order[b]
  BY <1>1
<1> QED
  BY <1>1, <1>2 DEF Precedes

LEMMA AppendLine ==
    ASSUME NEW s \in Seq(Publication), NEW x \in Publication
    PROVE  /\ Ordered(s) /\ AllBefore(s, x) => Ordered(Append(s, x))
           /\ \A q : AllBefore(s, q) /\ Before(x, q) => AllBefore(Append(s, x), q)
           /\ \A n : Without(s, n) /\ x.msg # n => Without(Append(s, x), n)
           /\ \A i \in DOMAIN Append(s, x) :
                 Append(s, x)[i] = x \/ (i \in DOMAIN s /\ Append(s, x)[i] = s[i])
<1> DEFINE t == Append(s, x)
           last == Len(s) + 1
<1>1. /\ Len(s) \in Nat /\ DOMAIN s = 1..Len(s) /\ DOMAIN t = 1..last
      /\ \A i \in DOMAIN s : t[i] = s[i]
      /\ t[last] = x
  BY AppendEntries
<1>2. \A i \in DOMAIN t :
         \/ i \in DOMAIN s /\ t[i] = s[i]
         \/ i = last /\ t[i] = x
  BY <1>1
<1>3. \A i, j \in DOMAIN t : i < j => i \in DOMAIN s /\ i # last
  BY <1>1
<1> HIDE DEF t, last
<1>4. Ordered(s) /\ AllBefore(s, x) => Ordered(t)
  BY <1>2, <1>3 DEF Ordered, AllBefore
<1>5. \A q : AllBefore(s, q) /\ Before(x, q) => AllBefore(t, q)
  BY <1>2 DEF AllBefore
<1>6. \A n : Without(s, n) /\ x.msg # n => Without(t, n)
  BY <1>2 DEF Without
<1> QED
  BY <1>2, <1>4, <1>5, <1>6 DEF t

LEMMA TailLine ==
    ASSUME NEW s \in Seq(Publication), s # <<>>
    PROVE  /\ Head(s) \in Publication /\ Head(s) = s[1] /\ 1 \in DOMAIN s
           /\ Ordered(s) => Ordered(Tail(s)) /\ \A i \in DOMAIN Tail(s) : Before(Head(s), Tail(s)[i])
           /\ \A q : AllBefore(s, q) => AllBefore(Tail(s), q)
           /\ \A n : Without(s, n) => Without(Tail(s), n)
           /\ \A i \in DOMAIN Tail(s) : i + 1 \in DOMAIN s /\ Tail(s)[i] = s[i + 1]
<1> DEFINE t == Tail(s)
<1>1. /\ Head(s) \in Publication /\ Head(s) = s[1] /\ 1 \in DOMAIN s
      /\ DOMAIN t \subseteq Nat \ {0}
      /\ \A i \in DOMAIN t : i + 1 \in DOMAIN s /\ t[i] = s[i + 1]
  BY TailEntries
<1> HIDE DEF t
<1>2. ASSUME Ordered(s) PROVE Ordered(t) /\ \A i \in DOMAIN t : Before(Head(s), t[i])
  <2>1. ASSUME NEW i \in DOMAIN t, NEW j \in DOMAIN t, i < j PROVE Before(t[i], t[j])
    <3>1. i + 1 < j + 1 /\ i + 1 \in DOMAIN s /\ j + 1 \in DOMAIN s
      BY <1>1, <2>1
    <3>2. Before(s[i + 1], s[j + 1])
      BY <1>2, <3>1 DEF Ordered
    <3> QED
      BY <1>1, <3>2
  <2>2. ASSUME NEW i \in DOMAIN t PROVE Before(Head(s), t[i])
    <3>1. 1 < i + 1 /\ i + 1 \in DOMAIN s
      BY <1>1
    <3>2. Before(s[1], s[i + 1])
      BY <1>1, <1>2, <3>1 DEF Ordered
    <3> QED
      BY <1>1, <3>2
  <2> QED
    BY <2>1, <2>2 DEF Ordered
<1>3. \A q : AllBefore(s, q) => AllBefore(t, q)
  BY <1>1 DEF AllBefore
<1>4. \A n : Without(s, n) => Without(t, n)
  BY <1>1 DEF Without
<1> QED
  BY <1>1, <1>2, <1>3, <1>4 DEF t

\* Nothing of a message that did not run is in the line.
LEMMA NothingSaid ==
    ASSUME Answered, NEW n, ~Ran(n)
    PROVE  /\ Without(handed, n) /\ Without(queue, n)
           /\ \A q : q.msg = n => AllBefore(handed, q) /\ AllBefore(queue, q)
  BY DEF Answered, Without, AllBefore, Before

LEMMA LineHandle == RanInv /\ LineInv /\ Handle => LineInv'
<1> SUFFICES ASSUME RanInv, LineInv, Handle PROVE LineInv'
  OBVIOUS
<1> DEFINE e == Head(inbox)
<1>1. /\ e \in Event /\ e = inbox[1] /\ 1 \in DOMAIN inbox /\ current' = e
      /\ todo = <<>> /\ queue' = queue /\ handed' = handed /\ TypeOK
      /\ e.msg \in 1..MaxMessages
  <2>1. e \in Event /\ e = inbox[1] /\ 1 \in DOMAIN inbox /\ current' = e
    BY HandleStep DEF RanInv
  <2>2. e.msg \in 1..MaxMessages
    BY <2>1, Zenon DEF Event
  <2> QED
    BY <2>1, <2>2 DEF Handle, outbound, RanInv
<1>2. Line'
  BY <1>1 DEF LineInv, Line
<1>3. CASE UNCHANGED <<todo, reboots, executed>>
  <2>1. DOMAIN todo' = {} /\ todo' = <<>>
    BY <1>1, <1>3
  <2>2. Pending'
    BY <1>1, <2>1 DEF Pending
  <2>3. Answered'
    BY <1>1, <1>3 DEF LineInv, Answered, Ran
  <2>4. Unsaid'
    BY <1>1, <1>3, <2>1 DEF LineInv, Unsaid, Ran
  <2> QED
    BY <1>2, <2>2, <2>3, <2>4 DEF LineInv
<1>4. CASE Accepts(e) /\ executed' = Append(executed, e)
  <2>1. ~Ran(e.msg)
    <3>1. HasTopic(e)
      BY <1>4 DEF Accepts, IsCommand, HasTopic
    <3> QED
      BY <1>1, <3>1 DEF RanInv, Fresh
  <2>2. /\ \A i \in DOMAIN executed : i \in DOMAIN executed' /\ executed'[i] = executed[i]
        /\ \E i \in DOMAIN executed' : executed'[i] = e
    <3>1. /\ DOMAIN executed = 1..Len(executed) /\ Len(executed) \in Nat
          /\ DOMAIN executed' = 1..(Len(executed) + 1)
          /\ \A i \in DOMAIN executed : executed'[i] = executed[i]
          /\ executed'[Len(executed) + 1] = e
      BY <1>1, <1>4, AppendEntries DEF TypeOK
    <3> QED
      BY <3>1
  <2>3. /\ \A n : Ran(n) => \E i \in DOMAIN executed' : executed'[i].msg = n
        /\ \E i \in DOMAIN executed' : executed'[i].msg = e.msg
    BY <2>2 DEF Ran
  <2>4. /\ Without(handed, e.msg) /\ Without(queue, e.msg)
        /\ \A q : q.msg = e.msg => AllBefore(handed, q) /\ AllBefore(queue, q)
    BY <2>1, NothingSaid DEF LineInv
  <2>5. \A i, j \in DOMAIN todo' : i < j => Precedes(todo'[i], todo'[j])
    <3>1. todo' \in {<<>>, <<"reply">>, <<"config_updated">>, <<"config_updated", "reply">>,
                     <<"capture_failed">>, <<"reply", "capture_failed">>}
      BY <1>1, HandleStep
    <3> QED
      BY <3>1, KindsOrdered
  <2>6. Answered'
    BY <1>1, <2>3 DEF LineInv, Answered, Ran
  <2>7. Pending'
    <3>1. \A k : Pub(k)'.msg = e.msg
      BY <1>1 DEF Pub
    <3>2. \A i \in DOMAIN todo' :
             AllBefore(handed', Pub(todo[i])') /\ AllBefore(queue', Pub(todo[i])')
      BY <1>1, <2>4 DEF Pub
    <3> QED
      BY <1>1, <2>3, <2>5, <3>2 DEF Pending, Ran
  <2>8. Unsaid'
    <3> SUFFICES ASSUME NEW n \in 1..MaxMessages, reboots'[n] = "publish"
                 PROVE  /\ \E i \in DOMAIN executed' : executed'[i].msg = n
                        /\ Without(handed, n) /\ Without(queue, n)
                        /\ todo' # <<>> => e.msg # n
      BY <1>1 DEF Unsaid, Ran
    <3>1. CASE reboots[n] = "publish"
      BY <2>1, <2>3, <3>1 DEF LineInv, Unsaid
    <3>2. CASE reboots[n] # "publish"
      <4>1. n = e.msg /\ todo' = <<>>
        BY <1>1, <3>2, HandleStep DEF TypeOK
      <4> QED
        BY <2>3, <2>4, <4>1
    <3> QED
      BY <3>1, <3>2
  <2> QED
    BY <1>2, <2>6, <2>7, <2>8 DEF LineInv
<1> QED
  BY <1>1, <1>3, <1>4, HandleStep

LEMMA LinePush == RanInv /\ LineInv /\ Push => LineInv'
<1> SUFFICES ASSUME RanInv, LineInv, Push PROVE LineInv'
  OBVIOUS
<1> DEFINE m == Pub(Head(todo))
<1>1. /\ todo # <<>> /\ todo' = Tail(todo) /\ current' = current /\ handed' = handed
      /\ reboots' = reboots /\ executed' = executed
      /\ queue' = queue \/ queue' = Append(queue, m)
      /\ todo \in Seq(Kinds) /\ queue \in Seq(Publication)
  BY DEF Push, Pub, RanInv, TypeOK
<1>2. /\ Head(todo) = todo[1] /\ Head(todo) \in Kinds /\ 1 \in DOMAIN todo
      /\ DOMAIN todo' \subseteq Nat \ {0}
      /\ \A i \in DOMAIN todo' : i + 1 \in DOMAIN todo /\ todo'[i] = todo[i + 1]
  BY <1>1, TailEntries
<1>3. m \in Publication /\ m.msg = current.msg /\ m.kind = todo[1]
  <2>1. current.msg \in 1..MaxMessages
    BY Zenon DEF RanInv, TypeOK, Event
  <2> QED
    BY <1>2, <2>1 DEF Pub, Publication
<1> HIDE DEF m
<1>4. Ran(m.msg) /\ AllBefore(handed, m) /\ AllBefore(queue, m)
  BY <1>1, <1>2, <1>3 DEF LineInv, Pending, m
<1>5. Line'
  <2>1. CASE queue' = queue
    BY <1>1, <2>1 DEF LineInv, Line
  <2>2. CASE queue' = Append(queue, m)
    <3>1. Ordered(queue')
      BY <1>1, <1>3, <1>4, <2>2, AppendLine DEF LineInv, Line
    <3>2. \A j \in DOMAIN queue' : AllBefore(handed, queue'[j])
      BY <1>1, <1>3, <1>4, <2>2, AppendLine DEF LineInv, Line
    <3> QED
      BY <1>1, <3>1, <3>2 DEF LineInv, Line
  <2> QED
    BY <1>1, <2>1, <2>2
<1>6. ASSUME NEW i \in DOMAIN todo'
      PROVE  AllBefore(handed', Pub(todo'[i])) /\ AllBefore(queue', Pub(todo'[i]))
  <2>1. i + 1 \in DOMAIN todo /\ todo'[i] = todo[i + 1] /\ 1 < i + 1
    BY <1>2
  <2>2. AllBefore(handed, Pub(todo[i + 1])) /\ AllBefore(queue, Pub(todo[i + 1]))
    BY <2>1 DEF LineInv, Pending
  <2>3. Before(m, Pub(todo[i + 1]))
    <3>1. Precedes(todo[1], todo[i + 1])
      BY <1>2, <2>1 DEF LineInv, Pending
    <3> QED
      BY <1>3, <3>1 DEF Before, Pub
  <2>4. AllBefore(queue', Pub(todo[i + 1]))
    BY <1>1, <1>3, <2>2, <2>3, AppendLine
  <2> QED
    BY <1>1, <2>1, <2>2, <2>4
<1>7. Pending'
  <2>1. \A i, j \in DOMAIN todo' : i < j => Precedes(todo'[i], todo'[j])
    BY <1>2 DEF LineInv, Pending
  <2>2. todo' # <<>> => Ran(current.msg)
    BY <1>3, <1>4
  <2> QED
    BY <1>1, <1>6, <2>1, <2>2 DEF Pending, Pub, Ran
<1>8. Answered'
  <2>1. ASSUME NEW i \in DOMAIN queue' PROVE Ran(queue'[i].msg)
    <3>1. queue'[i] = m \/ (i \in DOMAIN queue /\ queue'[i] = queue[i])
      BY <1>1, <1>3, AppendLine
    <3>2. i \in DOMAIN queue => Ran(queue[i].msg)
      BY DEF LineInv, Answered
    <3> QED
      BY <1>4, <3>1, <3>2
  <2> QED
    BY <1>1, <2>1 DEF LineInv, Answered, Ran
<1>9. Unsaid'
  <2> SUFFICES ASSUME NEW n \in 1..MaxMessages, reboots[n] = "publish"
               PROVE  /\ Ran(n) /\ Without(handed, n) /\ Without(queue', n)
                      /\ todo' # <<>> => current.msg # n
    BY <1>1 DEF Unsaid, Ran
  <2>1. Ran(n) /\ Without(handed, n) /\ Without(queue, n) /\ current.msg # n
    BY <1>1 DEF LineInv, Unsaid
  <2>2. Without(queue', n)
    BY <1>1, <1>3, <2>1, AppendLine
  <2> QED
    BY <2>1, <2>2
<1> QED
  BY <1>5, <1>7, <1>8, <1>9 DEF LineInv

LEMMA LineHandOver == RanInv /\ LineInv /\ HandOver => LineInv'
<1> SUFFICES ASSUME RanInv, LineInv, HandOver PROVE LineInv'
  OBVIOUS
<1> DEFINE m == Head(queue)
<1>1. /\ queue \in Seq(Publication) /\ queue # <<>> /\ handed \in Seq(Publication)
      /\ handed' = Append(handed, m) /\ queue' = Tail(queue)
      /\ UNCHANGED router
  BY DEF HandOver, RanInv, TypeOK
<1>2. /\ m \in Publication /\ m = queue[1] /\ 1 \in DOMAIN queue
      /\ Ordered(queue') /\ \A i \in DOMAIN queue' : Before(m, queue'[i])
      /\ \A q : AllBefore(queue, q) => AllBefore(queue', q)
      /\ \A n : Without(queue, n) => Without(queue', n)
      /\ \A i \in DOMAIN queue' : i + 1 \in DOMAIN queue /\ queue'[i] = queue[i + 1]
  BY <1>1, TailLine DEF LineInv, Line
<1>3. /\ Ordered(handed) /\ AllBefore(handed, m) => Ordered(handed')
      /\ \A q : AllBefore(handed, q) /\ Before(m, q) => AllBefore(handed', q)
      /\ \A n : Without(handed, n) /\ m.msg # n => Without(handed', n)
      /\ \A i \in DOMAIN handed' :
            handed'[i] = m \/ (i \in DOMAIN handed /\ handed'[i] = handed[i])
  BY <1>1, <1>2, AppendLine
<1> HIDE DEF m
<1>4. Line'
  <2>1. Ordered(handed')
    BY <1>2, <1>3 DEF LineInv, Line
  <2>2. ASSUME NEW j \in DOMAIN queue' PROVE AllBefore(handed', queue'[j])
    <3>1. AllBefore(handed, queue'[j])
      BY <1>2 DEF LineInv, Line
    <3> QED
      BY <1>2, <1>3, <3>1
  <2> QED
    BY <1>2, <2>1, <2>2 DEF Line
<1>5. ASSUME NEW i \in DOMAIN todo
      PROVE  AllBefore(handed', Pub(todo[i])) /\ AllBefore(queue', Pub(todo[i]))
  <2>1. AllBefore(handed, Pub(todo[i])) /\ AllBefore(queue, Pub(todo[i]))
    BY DEF LineInv, Pending
  <2>2. Before(m, Pub(todo[i]))
    BY <1>2, <2>1 DEF AllBefore
  <2> QED
    BY <1>2, <1>3, <2>1, <2>2
<1>6. Pending'
  BY <1>1, <1>5 DEF LineInv, Pending, router, Pub, Ran
<1>7. Answered'
  <2>1. ASSUME NEW i \in DOMAIN handed' PROVE Ran(handed'[i].msg)
    BY <1>2, <1>3 DEF LineInv, Answered
  <2>2. ASSUME NEW i \in DOMAIN queue' PROVE Ran(queue'[i].msg)
    BY <1>2 DEF LineInv, Answered
  <2> QED
    BY <1>1, <2>1, <2>2 DEF Answered, Ran, router
<1>8. Unsaid'
  <2> SUFFICES ASSUME NEW n \in 1..MaxMessages, reboots[n] = "publish"
               PROVE  /\ Ran(n) /\ Without(handed', n) /\ Without(queue', n)
                      /\ todo # <<>> => current.msg # n
    BY <1>1 DEF Unsaid, Ran, router
  <2>1. /\ Ran(n) /\ Without(handed, n) /\ Without(queue, n)
        /\ todo # <<>> => current.msg # n
    BY DEF LineInv, Unsaid
  <2>2. m.msg # n
    BY <1>2, <2>1 DEF Without
  <2> QED
    BY <1>2, <1>3, <2>1, <2>2
<1> QED
  BY <1>4, <1>6, <1>7, <1>8 DEF LineInv

LEMMA LineRebootReply ==
    ASSUME RanInv, LineInv, NEW n \in 1..MaxMessages, RebootReply(n)
    PROVE  LineInv'
<1> DEFINE m == [msg |-> n, kind |-> "reply"]
<1>1. /\ handed \in Seq(Publication) /\ m \in Publication /\ m.msg = n
      /\ handed' = handed \/ handed' = Append(handed, m)
      /\ UNCHANGED <<todo, current, queue, executed>>
      /\ reboots[n] = "publish" /\ reboots' = [reboots EXCEPT ![n] = "delay"]
      /\ reboots \in [1..MaxMessages -> Stages]
  BY DEF RebootReply, RanInv, TypeOK, Publication, Kinds
<1>2. /\ Ran(n) /\ Without(handed, n) /\ Without(queue, n)
      /\ todo # <<>> => current.msg # n
  BY <1>1 DEF LineInv, Unsaid
<1>3. AllBefore(handed, m)
  BY <1>1, <1>2 DEF AllBefore, Without, Before
<1>4. /\ \A j \in DOMAIN queue : Before(m, queue[j])
      /\ \A i \in DOMAIN todo : Before(m, Pub(todo[i]))
  <2>1. \A i \in DOMAIN todo : todo # <<>>
    OBVIOUS
  <2> QED
    BY <1>1, <1>2, <2>1 DEF Without, Before, Pub
<1> HIDE DEF m
<1>5. /\ Ordered(handed')
      /\ \A q : AllBefore(handed, q) /\ Before(m, q) => AllBefore(handed', q)
      /\ \A k : Without(handed, k) /\ k # n => Without(handed', k)
      /\ \A i \in DOMAIN handed' :
            handed'[i] = m \/ (i \in DOMAIN handed /\ handed'[i] = handed[i])
  <2>1. Ordered(handed)
    BY DEF LineInv, Line
  <2>2. CASE handed' = handed
    BY <2>1, <2>2
  <2>3. CASE handed' = Append(handed, m)
    BY <1>1, <1>3, <2>1, <2>3, AppendLine
  <2> QED
    BY <1>1, <2>2, <2>3
<1>6. Line'
  BY <1>1, <1>4, <1>5 DEF LineInv, Line
<1>7. ASSUME NEW i \in DOMAIN todo PROVE AllBefore(handed', Pub(todo[i]))
  BY <1>4, <1>5 DEF LineInv, Pending
<1>8. Pending'
  BY <1>1, <1>7 DEF LineInv, Pending, Pub, Ran
<1>9. Answered'
  <2>1. ASSUME NEW i \in DOMAIN handed' PROVE Ran(handed'[i].msg)
    BY <1>1, <1>2, <1>5 DEF LineInv, Answered
  <2> QED
    BY <1>1, <2>1 DEF LineInv, Answered, Ran
<1>10. Unsaid'
  <2> SUFFICES ASSUME NEW k \in 1..MaxMessages, reboots'[k] = "publish"
               PROVE  /\ Ran(k) /\ Without(handed', k) /\ Without(queue, k)
                      /\ todo # <<>> => current.msg # k
    BY <1>1 DEF Unsaid, Ran
  <2>1. k # n /\ reboots[k] = "publish"
    BY <1>1
  <2> QED
    BY <1>5, <2>1 DEF LineInv, Unsaid
<1> QED
  BY <1>6, <1>8, <1>9, <1>10 DEF LineInv

\* A restart wipes the queue and the tasks; what the client has stays.
LEMMA LineDown ==
    ASSUME LineInv, Down, UNCHANGED <<handed, executed>>
    PROVE  LineInv'
<1>1. /\ todo' = <<>> /\ queue' = <<>> /\ DOMAIN <<>> = {}
      /\ \A n \in 1..MaxMessages : reboots'[n] = "none"
  BY DEF Down
<1>2. Line' /\ Pending'
  BY <1>1 DEF LineInv, Line, Pending, Ordered
<1>3. Answered' /\ Unsaid'
  BY <1>1 DEF LineInv, Answered, Unsaid, Ran
<1> QED
  BY <1>2, <1>3 DEF LineInv

LEMMA LineNext == RanInv /\ LineInv /\ [Next]_vars => LineInv'
<1> SUFFICES ASSUME RanInv, LineInv, [Next]_vars PROVE LineInv'
  OBVIOUS
<1>1. CASE UNCHANGED <<todo, current, queue, reboots, handed, executed>>
  BY <1>1 DEF LineInv, Line, Pending, Answered, Unsaid, Pub, Ran
<1>2. CASE SessionOpens \/ SessionDrops \/ Deliver \/ UNCHANGED vars
  BY <1>1, <1>2 DEF SessionOpens, SessionDrops, Deliver, router, outbound, vars
<1>3. CASE Reboot \/ Restart
  BY <1>3, LineRebootReply, LineDown DEF Reboot, RebootNow, Restart
<1> QED
  BY <1>2, <1>3, LineHandle, LinePush, LineHandOver DEF Next

LEMMA LineInit == Init => LineInv
<1> SUFFICES ASSUME Init PROVE LineInv
  OBVIOUS
<1>1. /\ todo = <<>> /\ queue = <<>> /\ handed = <<>> /\ DOMAIN <<>> = {}
      /\ \A n \in 1..MaxMessages : reboots[n] = "none"
  BY DEF Init
<1> QED
  BY <1>1 DEF LineInv, Line, Pending, Answered, Unsaid, Ordered

\* The invariant holds: fresh events, and one line of publications per message.
THEOREM RouterCorrect == Spec => [](RanInv /\ LineInv)
  BY RanInit, RanNext, LineInit, LineNext, PTL DEF Spec

LEMMA LineOrders == RanInv /\ LineInv => EventsInOrder
<1> SUFFICES ASSUME RanInv, LineInv, NEW i \in DOMAIN handed, NEW j \in DOMAIN handed,
                    handed[i].msg = handed[j].msg, i < j
             PROVE  Precedes(handed[i].kind, handed[j].kind)
  BY DEF EventsInOrder, Precedes
<1> QED
  BY DEF LineInv, Line, Ordered, Before

\* config_updated reaches the client before the reply of its command, and a
\* capture's reply before its capture_failed, whatever is refused or wiped.
THEOREM EventsKeepOrder == Spec => []EventsInOrder
  BY RouterCorrect, LineOrders, PTL

\* No publication is handed over twice and each answers a message that was
\* dispatched: one reply at most, although the reboot task goes past the queue.
THEOREM OneReply == Spec => []AtMostOneReply
<1>1. RanInv /\ LineInv => AtMostOneReply
  <2> SUFFICES ASSUME RanInv, LineInv PROVE AtMostOneReply
    OBVIOUS
  <2>1. ASSUME NEW i \in DOMAIN handed, NEW j \in DOMAIN handed, i < j
        PROVE  handed[i] # handed[j]
    BY <2>1, KindsOrdered DEF LineInv, Line, Ordered, Before
  <2>2. DOMAIN handed \subseteq Int
    BY LenProperties DEF RanInv, TypeOK
  <2>3. \A i, j \in DOMAIN handed : handed[i] = handed[j] => i = j
    BY <2>1, <2>2
  <2> QED
    BY <2>3 DEF AtMostOneReply, LineInv, Answered
<1> QED
  BY <1>1, RouterCorrect, PTL

ShortIds ==
    \A i \in DOMAIN executed : executed[i].id_len \in Nat /\ executed[i].id_len < RequestIdMax

\* What a reboot under way says of the messages executed.
RebootsAsked == \A n \in 1..MaxMessages : reboots[n] # "none" => AskedToReboot(n)

\* What was executed goes on having been.
LEMMA AskedAppended ==
    ASSUME TypeOK, NEW e \in Event, executed' = Append(executed, e), NEW n \in 1..MaxMessages
    PROVE  /\ AskedToReboot(n) => AskedToReboot(n)'
           /\ e.msg = n /\ e.topic = "reboot" /\ ReplyTopicFits(e.id_len) => AskedToReboot(n)'
<1>1. /\ DOMAIN executed = 1..Len(executed) /\ Len(executed) \in Nat
      /\ DOMAIN executed' = 1..(Len(executed) + 1)
      /\ \A i \in DOMAIN executed : executed'[i] = executed[i]
      /\ executed'[Len(executed) + 1] = e
  BY AppendEntries DEF TypeOK
<1>2. AskedToReboot(n)' <=> \E i \in DOMAIN executed' :
          /\ executed'[i].msg = n /\ executed'[i].topic = "reboot"
          /\ ReplyTopicFits(executed'[i].id_len)
  BY DEF AskedToReboot, ReplyTopicFits, Prefix, ReplyPart
<1>3. \A i \in DOMAIN executed : i \in DOMAIN executed'
  BY <1>1
<1>4. Len(executed) + 1 \in DOMAIN executed'
  BY <1>1
<1>5. ASSUME AskedToReboot(n) PROVE AskedToReboot(n)'
  BY <1>1, <1>2, <1>3, <1>5 DEF AskedToReboot
<1> QED
  BY <1>1, <1>2, <1>4, <1>5

LEMMA AskedSame ==
    ASSUME UNCHANGED executed, NEW n
    PROVE  AskedToReboot(n)' <=> AskedToReboot(n)
  BY DEF AskedToReboot, ReplyTopicFits, Prefix, ReplyPart

LEMMA AskedNext == TypeOK /\ RebootsAsked /\ [Next]_vars => RebootsAsked'
<1> SUFFICES ASSUME TypeOK, RebootsAsked, [Next]_vars,
                    NEW n \in 1..MaxMessages, reboots'[n] # "none"
             PROVE  AskedToReboot(n)'
  BY DEF RebootsAsked
<1>1. CASE Handle
  <2> DEFINE e == Head(inbox)
  <2>1. e \in Event
    BY <1>1, HandleStep
  <2> HIDE DEF e
  <2>2. CASE UNCHANGED <<executed, reboots>>
    BY <2>2, AskedSame DEF RebootsAsked
  <2>3. CASE executed' = Append(executed, e) /\ UNCHANGED reboots
    BY <2>1, <2>3, AskedAppended DEF RebootsAsked
  <2>4. CASE executed' = Append(executed, e) /\ e.topic = "reboot" /\ ScheduleReboot(e)
    <3>1. CASE ReplyTopicFits(e.id_len) /\ e.msg = n
      BY <2>1, <2>4, <3>1, AskedAppended
    <3>2. CASE ~(ReplyTopicFits(e.id_len) /\ e.msg = n)
      <4>1. reboots[n] # "none"
        BY <2>4, <3>2 DEF ScheduleReboot, TypeOK
      <4> QED
        BY <2>1, <2>4, <4>1, AskedAppended DEF RebootsAsked
    <3> QED
      BY <3>1, <3>2
  <2> QED
    BY <1>1, <2>2, <2>3, <2>4 DEF Handle, Answer, NoMemory, e
<1>2. CASE Reboot
  <2>1. UNCHANGED executed /\ reboots[n] # "none"
    BY <1>2 DEF Reboot, RebootReply, RebootNow, Down, TypeOK
  <2> QED
    BY <2>1, AskedSame DEF RebootsAsked
<1>3. CASE Restart
  BY <1>3 DEF Restart, Down
<1>4. CASE SessionOpens \/ SessionDrops \/ Deliver \/ Push \/ HandOver \/ UNCHANGED vars
  <2>1. UNCHANGED <<executed, reboots>>
    BY <1>4 DEF SessionOpens, SessionDrops, Deliver, Push, HandOver, router, vars
  <2> QED
    BY <2>1, AskedSame DEF RebootsAsked
<1> QED
  BY <1>1, <1>2, <1>3, <1>4 DEF Next

\* With buffers as large as the identifiers they must hold, a command that is
\* executed has a reply topic, unless its request_id is the empty string; and a
\* reboot is under way only for an executed cmd/reboot with a reply topic.
THEOREM TopicsFit == Spec => []ExecutedHasTopic
<1>1. Init => ShortIds
  BY DEF Init, ShortIds
<1>2. ASSUME TypeOK, ShortIds, Handle PROVE ShortIds'
  <2> DEFINE e == Head(inbox)
  <2>1. CASE executed' = executed
    BY <1>2, <2>1 DEF ShortIds
  <2>2. CASE Accepts(e) /\ executed' = Append(executed, e)
    <3>1. e \in Event
      BY <1>2, HandleStep
    <3>2. e.id_len \in Nat \cup {Missing}
      BY <3>1, Zenon DEF Event
    <3>3. e.id_len \in Nat /\ e.id_len < RequestIdMax
      BY <2>2, <3>2 DEF Accepts, HasRequestId
    <3> HIDE DEF e
    <3>4. \A i \in DOMAIN executed' :
             executed'[i] = e \/ (i \in DOMAIN executed /\ executed'[i] = executed[i])
      <4>1. /\ DOMAIN executed = 1..Len(executed) /\ Len(executed) \in Nat
            /\ DOMAIN executed' = 1..(Len(executed) + 1)
            /\ \A i \in DOMAIN executed : executed'[i] = executed[i]
            /\ executed'[Len(executed) + 1] = e
        BY <1>2, <2>2, <3>1, AppendEntries DEF TypeOK
      <4> QED
        BY <4>1
    <3> QED
      BY <1>2, <3>3, <3>4 DEF ShortIds
  <2> QED
    BY <1>2, <2>1, <2>2, HandleStep
<1>3. TypeOK /\ ShortIds /\ [Next]_vars => ShortIds'
  <2> SUFFICES ASSUME TypeOK, ShortIds, [Next]_vars PROVE ShortIds'
    OBVIOUS
  <2>1. CASE executed' = executed
    BY <2>1 DEF ShortIds
  <2>2. CASE ~Handle
    BY <2>1, <2>2 DEF Next, SessionOpens, SessionDrops, Deliver, Push, HandOver, Reboot,
                      RebootReply, RebootNow, Restart, router, outbound, vars
  <2> QED
    BY <1>2, <2>2
<1>4. ShortIds /\ RebootsAsked => ExecutedHasTopic
  <2> SUFFICES ASSUME ShortIds, BuffersFit, RebootsAsked, NEW i \in DOMAIN executed, executed[i].id_len # 0
               PROVE  ReplyTopicFits(executed[i].id_len)
    BY DEF ExecutedHasTopic, RebootsAsked
  <2> DEFINE n == executed[i].id_len
  <2>1. n \in Nat /\ n < RequestIdMax /\ n # 0
    BY DEF ShortIds
  <2> HIDE DEF n
  <2>2. NodeLen \in Nat /\ RequestIdMax \in Nat /\ TopicMax \in Nat
    BY RouterAssumption
  <2>3. ReplyTopicFits(n)
    BY <2>1, <2>2 DEF ReplyTopicFits, BuffersFit, Prefix, ReplyPart
  <2> QED
    BY <2>3 DEF n
<1>5. Init => RebootsAsked
  BY DEF Init, RebootsAsked
<1> QED
  BY <1>1, <1>3, <1>4, <1>5, AskedNext, RouterTypeCorrect, PTL DEF Spec
=============================================================================
