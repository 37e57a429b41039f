-------------------------- MODULE ImageTransferProofs --------------------------
(***************************************************************************)
(* What a receiver has of an image, for every set of captures, every length *)
(* of image and of chunk, every room in the topics, the queue and on the    *)
(* connection, and however often the connection is lost.                    *)
(***************************************************************************)
EXTENDS ImageTransfer, FiniteSetTheorems, FunctionTheorems, TLAPS

-----------------------------------------------------------------------------
(***************************************************************************)
(* The chunks of an image.                                                  *)
(***************************************************************************)
\* As many chunks as the length asks for, none of them empty.
LEMMA ChunksCover ==
    ASSUME NEW c \in Captures
    PROVE  /\ ChunkCount(c) \in Nat
           /\ DataLen[c] <= ChunkCount(c) * ChunkSize
           /\ ChunkCount(c) * ChunkSize < DataLen[c] + ChunkSize
<1>1. DataLen[c] \in Nat /\ ChunkSize \in Nat /\ ChunkSize > 0
  BY ImageAssumption
<1>2. ASSUME NEW d \in Nat, NEW s \in Nat, s > 0
      PROVE  LET n == (d + s - 1) \div s
             IN  n \in Nat /\ d <= n * s /\ n * s < d + s
  BY <1>2, SMT
<1> QED
  BY <1>1, <1>2 DEF ChunkCount

\* A chunk starts where the one before it ends; each is full but the last.
LEMMA ChunksFollow ==
    ASSUME NEW c \in Captures, NEW i \in Nat, i < ChunkCount(c)
    PROVE  /\ Offset(i) \in Nat
           /\ ChunkLen(c, i) \in 1..ChunkSize
           /\ IF i + 1 = ChunkCount(c) THEN Offset(i) + ChunkLen(c, i) = DataLen[c]
              ELSE Offset(i) + ChunkLen(c, i) = Offset(i + 1)
<1> DEFINE n == ChunkCount(c)
           s == ChunkSize
           d == DataLen[c]
<1>1. d \in Nat /\ s \in Nat /\ s > 0 /\ n \in Nat /\ d <= n * s /\ n * s < d + s
  BY ChunksCover, ImageAssumption
<1>2. i < n
  OBVIOUS
<1> HIDE DEF n
<1>3. i * s \in Nat /\ (i + 1) * s = i * s + s /\ (n - 1) * s = n * s - s
      /\ n * s \in Nat
  BY <1>1, SMT
<1>4. (i + 1) * s <= n * s
  BY <1>1, <1>2, SMT
<1>5. i + 1 = n \/ (i + 2) * s <= n * s
  BY <1>1, <1>2, SMT
<1>6. (i + 2) * s = i * s + s + s
  BY <1>1, SMT
<1> DEFINE o == i * s
           t == n * s
<1>7. /\ o \in Nat /\ t \in Nat /\ o + s <= t /\ d <= t /\ t < d + s
      /\ i + 1 = n => t = o + s
      /\ i + 1 # n => o + s + s <= t
  BY <1>1, <1>2, <1>3, <1>4, <1>5, <1>6
<1> HIDE DEF o, t
<1>8. /\ Offset(i) = o /\ Offset(i + 1) = o + s
      /\ ChunkLen(c, i) = IF d - o > s THEN s ELSE d - o
  BY <1>3 DEF Offset, ChunkLen, o
<1>9. CASE i + 1 = n
  BY <1>1, <1>7, <1>8, <1>9 DEF n
<1>10. CASE i + 1 # n
  BY <1>1, <1>7, <1>8, <1>10 DEF n
<1> QED
  BY <1>9, <1>10

\* A part carries its capture and its number.
LEMMA PartIs ==
    ASSUME NEW c \in Captures, NEW k \in Nat
    PROVE  Part(c, k).capture = c /\ Part(c, k).part = k
  BY DEF Part

\* What a chunk's part says of it.
LEMMA ChunkPart ==
    ASSUME NEW c \in Captures, NEW k \in 1..ChunkCount(c)
    PROVE  Part(c, k).from = Offset(k - 1) /\ Part(c, k).len = ChunkLen(c, k - 1)
<1>1. k # Meta /\ k # Done(c)
  BY ChunksCover DEF Meta, Done
<1> QED
  BY <1>1 DEF Part

\* The done marker comes after the metadata.
LEMMA DoneIsNat == \A c \in Captures : Done(c) \in Nat /\ Done(c) > 0
<1> TAKE c \in Captures
<1>1. ChunkCount(c) \in Nat
  BY ChunksCover, Zenon
<1> QED
  BY <1>1 DEF Done

\* The chunks are the parts from 1 to the chunk count.
LEMMA ChunkIs ==
    ASSUME NEW c \in Captures, NEW k \in Nat
    PROVE  /\ k < Done(c) + 1 => (IsChunk(Part(c, k)) <=> k \in 1..ChunkCount(c))
           /\ ~IsChunk(Part(c, Done(c))) /\ ~IsChunk(Part(c, Meta))
<1>1. ChunkCount(c) \in Nat /\ Done(c) = ChunkCount(c) + 1 /\ Done(c) \in Nat
  BY ChunksCover, DoneIsNat, Zenon DEF Done
<1>2. Part(c, k).capture = c /\ Part(c, k).part = k
  BY PartIs
<1>3. /\ Part(c, Done(c)).capture = c /\ Part(c, Done(c)).part = Done(c)
      /\ Part(c, Meta).capture = c /\ Part(c, Meta).part = Meta
  BY <1>1, PartIs DEF Meta
<1> QED
  BY <1>1, <1>2, <1>3 DEF IsChunk, Meta
-----------------------------------------------------------------------------
(***************************************************************************)
(* What holds between two steps.                                            *)
(***************************************************************************)
Parts == {Part(c, k) : c \in Captures, k \in Nat}

TypeInv ==
    /\ status \in [Captures -> {"idle", "running", "ok", "failed"}]
    /\ next \in [Captures -> Nat]
    /\ queue \in Seq(Parts) /\ wire \in Seq(Parts)
    /\ outbox \subseteq Parts /\ got \subseteq Parts /\ lost \subseteq Parts

\* How far a call has come.
Progress ==
    \A c \in Captures :
        /\ next[c] <= Done(c) + 1
        /\ status[c] = "idle" => next[c] = 0
        /\ status[c] = "running" => next[c] <= Done(c)
        /\ status[c] = "ok" => next[c] = Done(c) + 1

\* Where a part can be that has been pushed.
UnderWay == Items(queue) \cup Items(wire) \cup outbox
Everywhere == UnderWay \cup got \cup lost

\* Only what has been pushed is anywhere, and all of it is somewhere.
Known == \A p \in Everywhere : p.part < next[p.capture]
NothingGone == \A c \in Captures, k \in Nat : k < next[c] => Part(c, k) \in Everywhere

KeptIsQos1 == \A p \in outbox : ~IsChunk(p)

\* No chunk is behind the done marker of its image.
DoneLast ==
    /\ \A i \in DOMAIN queue : \A d \in Parts :
          IsChunk(queue[i]) /\ d = Part(queue[i].capture, Done(queue[i].capture)) =>
              /\ d \notin Items(wire) \cup outbox \cup got
              /\ \A j \in DOMAIN queue : queue[j] = d => i < j
    /\ \A i \in DOMAIN wire : \A d \in Parts :
          IsChunk(wire[i]) /\ d = Part(wire[i].capture, Done(wire[i].capture)) =>
              /\ d \notin got
              /\ \A j \in DOMAIN wire : wire[j] = d => i < j

Inv == TypeInv /\ Progress /\ Known /\ NothingGone /\ KeptIsQos1 /\ DoneLast

\* A transfer that reported success and has nothing left under way.
SuccessIsWhole ==
    \A c \in Captures :
        status[c] = "ok" /\ (\A p \in UnderWay : p.capture # c) =>
            \A k \in Meta..Done(c) : Part(c, k) \in got \cup lost
-----------------------------------------------------------------------------
\* What a sequence is with one more element, and without its first.
LEMMA Appended ==
    ASSUME NEW S, NEW s \in Seq(S), NEW e \in S
    PROVE  /\ Append(s, e) \in Seq(S) /\ Len(Append(s, e)) = Len(s) + 1
           /\ DOMAIN Append(s, e) = 1..(Len(s) + 1) /\ DOMAIN s = 1..Len(s)
           /\ Len(s) \in Nat
           /\ \A i \in 1..Len(s) : Append(s, e)[i] = s[i]
           /\ Append(s, e)[Len(s) + 1] = e
  OBVIOUS

LEMMA Shortened ==
    ASSUME NEW S, NEW s \in Seq(S), s # <<>>
    PROVE  /\ Tail(s) \in Seq(S) /\ Len(Tail(s)) = Len(s) - 1
           /\ DOMAIN Tail(s) = 1..(Len(s) - 1) /\ DOMAIN s = 1..Len(s)
           /\ Len(s) \in Nat \ {0}
           /\ Head(s) = s[1] /\ s[1] \in S
           /\ \A i \in 1..(Len(s) - 1) : Tail(s)[i] = s[i + 1]
  OBVIOUS

LEMMA ItemsAppended ==
    ASSUME NEW S, NEW s \in Seq(S), NEW e \in S
    PROVE  Items(Append(s, e)) = Items(s) \cup {e}
<1>1. \A i \in 1..(Len(s) + 1) : i \in 1..Len(s) \/ i = Len(s) + 1
  BY Appended
<1> QED
  BY <1>1, Appended DEF Items

LEMMA ItemsShortened ==
    ASSUME NEW S, NEW s \in Seq(S), s # <<>>
    PROVE  Items(s) = Items(Tail(s)) \cup {Head(s)}
<1> DEFINE t == Tail(s)
<1>1. /\ Len(s) \in Nat \ {0} /\ DOMAIN t = 1..(Len(s) - 1) /\ DOMAIN s = 1..Len(s)
      /\ Head(s) = s[1] /\ \A i \in 1..(Len(s) - 1) : t[i] = s[i + 1]
  BY Shortened
<1> HIDE DEF t
<1>2. \A i \in 1..Len(s) : i = 1 \/ (i - 1 \in 1..(Len(s) - 1) /\ (i - 1) + 1 = i)
  BY <1>1
<1>3. \A i \in 1..(Len(s) - 1) : i + 1 \in 1..Len(s)
  BY <1>1
<1>4. 1 \in 1..Len(s)
  BY <1>1
<1>5. Items(s) \subseteq Items(t) \cup {Head(s)}
  <2> SUFFICES ASSUME NEW i \in 1..Len(s) PROVE s[i] \in Items(t) \cup {Head(s)}
    BY <1>1 DEF Items
  <2>1. CASE i = 1
    BY <1>1, <2>1
  <2>2. CASE i # 1
    <3>1. i - 1 \in DOMAIN t /\ t[i - 1] = s[i]
      BY <1>1, <1>2, <2>2
    <3> QED
      BY <3>1 DEF Items
  <2> QED
    BY <2>1, <2>2
<1>6. Items(t) \cup {Head(s)} \subseteq Items(s)
  BY <1>1, <1>3, <1>4 DEF Items
<1> QED
  BY <1>5, <1>6 DEF t

LEMMA ItemsAre == ASSUME NEW S, NEW s \in Seq(S) PROVE Items(s) \subseteq S
  BY DEF Items

\* A part is known by its capture and its number.
LEMMA PartsAre ==
    ASSUME NEW p \in Parts
    PROVE  p.capture \in Captures /\ p.part \in Nat /\ p = Part(p.capture, p.part)
<1>1. PICK c \in Captures, k \in Nat : p = Part(c, k)
  BY DEF Parts
<1> QED
  BY <1>1, PartIs

\* The done marker of an image.
LEMMA DonePart ==
    ASSUME NEW c \in Captures
    PROVE  /\ Part(c, Done(c)) \in Parts /\ ~IsChunk(Part(c, Done(c)))
           /\ Part(c, Done(c)).capture = c /\ Part(c, Done(c)).part = Done(c)
  BY DoneIsNat, PartIs, ChunkIs DEF Parts

\* Where all pushed parts are, in a state of its own.
LEMMA TypesOf ==
    ASSUME TypeInv
    PROVE  Everywhere \subseteq Parts
  BY ItemsAre DEF TypeInv, Everywhere, UnderWay

\* At power-up nothing has been pushed.
LEMMA InvInit == Init => Inv
<1> SUFFICES ASSUME Init PROVE Inv
  OBVIOUS
<1>1. TypeInv
  BY DEF Init, TypeInv
<1>2. Progress
  <2> SUFFICES ASSUME NEW c \in Captures
               PROVE  /\ 0 <= Done(c) + 1 /\ status[c] = "idle" /\ next[c] = 0
    BY DEF Progress
  <2> QED
    BY DoneIsNat DEF Init
<1>3. Known /\ KeptIsQos1 /\ DoneLast
  BY DEF Init, Known, Everywhere, UnderWay, Items, KeptIsQos1, DoneLast
<1>4. NothingGone
  BY DEF Init, NothingGone
<1> QED
  BY <1>1, <1>2, <1>3, <1>4 DEF Inv

\* The parts of the invariant in the state after a step.
LEMMA After ==
    /\ Parts' = Parts
    /\ Progress' <=>
          \A c \in Captures :
              /\ next'[c] <= Done(c) + 1
              /\ status'[c] = "idle" => next'[c] = 0
              /\ status'[c] = "running" => next'[c] <= Done(c)
              /\ status'[c] = "ok" => next'[c] = Done(c) + 1
    /\ Everywhere' = Items(queue') \cup Items(wire') \cup outbox' \cup got' \cup lost'
    /\ NothingGone' <=> \A c \in Captures, k \in Nat : k < next'[c] => Part(c, k) \in Everywhere'
    /\ KeptIsQos1' <=> \A p \in outbox' : ~IsChunk(p)
    /\ DoneLast' <=>
          /\ \A i \in DOMAIN queue' : \A d \in Parts :
                IsChunk(queue'[i]) /\ d = Part(queue'[i].capture, Done(queue'[i].capture)) =>
                    /\ d \notin Items(wire') \cup outbox' \cup got'
                    /\ \A j \in DOMAIN queue' : queue'[j] = d => i < j
          /\ \A i \in DOMAIN wire' : \A d \in Parts :
                IsChunk(wire'[i]) /\ d = Part(wire'[i].capture, Done(wire'[i].capture)) =>
                    /\ d \notin got'
                    /\ \A j \in DOMAIN wire' : wire'[j] = d => i < j
<1>1. Progress' <=>
          \A c \in Captures :
              /\ next'[c] <= Done(c) + 1
              /\ status'[c] = "idle" => next'[c] = 0
              /\ status'[c] = "running" => next'[c] <= Done(c)
              /\ status'[c] = "ok" => next'[c] = Done(c) + 1
  BY DEF Progress, Done, ChunkCount
<1>2. Everywhere' = Items(queue') \cup Items(wire') \cup outbox' \cup got' \cup lost'
  BY DEF Everywhere, UnderWay, Items
<1>3. NothingGone' <=> \A c \in Captures, k \in Nat : k < next'[c] => Part(c, k) \in Everywhere'
  BY DEF NothingGone, Part, Offset, ChunkLen, Done, ChunkCount, Meta
<1>4. KeptIsQos1' <=> \A p \in outbox' : ~IsChunk(p)
  BY DEF KeptIsQos1, IsChunk, Meta, Done, ChunkCount
<1>5. Parts' = Parts
  BY DEF Parts, Part, Offset, ChunkLen, Done, ChunkCount, Meta
<1>6. DoneLast' <=>
          /\ \A i \in DOMAIN queue' : \A d \in Parts' :
                IsChunk(queue'[i]) /\ d = Part(queue'[i].capture, Done(queue'[i].capture)) =>
                    /\ d \notin Items(wire') \cup outbox' \cup got'
                    /\ \A j \in DOMAIN queue' : queue'[j] = d => i < j
          /\ \A i \in DOMAIN wire' : \A d \in Parts' :
                IsChunk(wire'[i]) /\ d = Part(wire'[i].capture, Done(wire'[i].capture)) =>
                    /\ d \notin got'
                    /\ \A j \in DOMAIN wire' : wire'[j] = d => i < j
  BY DEF DoneLast, Items, IsChunk, Part, Offset, ChunkLen, Done, ChunkCount, Meta
<1> QED
  BY <1>1, <1>2, <1>3, <1>4, <1>5, <1>6

\* A call starts with nothing pushed.
LEMMA CallKeeps ==
    ASSUME Inv, NEW c \in Captures, Call(c)
    PROVE  Inv'
<1>1. /\ UNCHANGED <<next, queue, wire, outbox, got, lost>>
      /\ status[c] = "idle" /\ status' = [status EXCEPT ![c] = "running"]
  BY DEF Call, net
<1>2. TypeInv'
  BY <1>1, After DEF Inv, TypeInv
<1>3. Progress'
  BY <1>1, DoneIsNat, After DEF Inv, TypeInv, Progress
<1>4. Everywhere' = Everywhere
  BY <1>1, After DEF Everywhere, UnderWay
<1>5. Known' /\ NothingGone' /\ KeptIsQos1' /\ DoneLast'
  BY <1>1, <1>4, After DEF Inv, Known, NothingGone, KeptIsQos1, DoneLast
<1> QED
  BY <1>2, <1>3, <1>5 DEF Inv

\* A push that fails leaves what was pushed where it is.
LEMMA FailureKeeps ==
    ASSUME Inv, NEW c \in Captures, status[c] = "running",
           Failed(c), UNCHANGED <<queue, net>>
    PROVE  Inv'
<1>1. /\ UNCHANGED <<next, queue, wire, outbox, got, lost>>
      /\ status' = [status EXCEPT ![c] = "failed"]
  BY DEF Failed, net
<1>2. TypeInv'
  BY <1>1, After DEF Inv, TypeInv
<1>3. Progress'
  BY <1>1, After DEF Inv, TypeInv, Progress
<1>4. Everywhere' = Everywhere
  BY <1>1, After DEF Everywhere, UnderWay
<1>5. Known' /\ NothingGone' /\ KeptIsQos1' /\ DoneLast'
  BY <1>1, <1>4, After DEF Inv, Known, NothingGone, KeptIsQos1, DoneLast
<1> QED
  BY <1>2, <1>3, <1>5 DEF Inv

\* A part that has not been pushed is nowhere.
LEMMA NotPushed ==
    ASSUME Inv, NEW c \in Captures, NEW k \in Nat, k >= next[c]
    PROVE  Part(c, k) \notin Everywhere
  BY PartIs DEF Inv, TypeInv, Known

\* The part pushed is the next one of its capture, behind all that waits.
LEMMA PushKeeps ==
    ASSUME Inv, NEW c \in Captures, status[c] = "running",
           queue' = Append(queue, Part(c, next[c])), Pushed(c), UNCHANGED net
    PROVE  Inv'
<1> DEFINE e == Part(c, next[c])
           n == Len(queue)
<1>1. /\ UNCHANGED <<wire, outbox, got, lost>>
      /\ next[c] \in Nat /\ next[c] <= Done(c) /\ Done(c) \in Nat
      /\ next' = [next EXCEPT ![c] = @ + 1]
      /\ status' = [status EXCEPT ![c] = IF next[c] = Done(c) THEN "ok" ELSE @]
      /\ e \in Parts /\ e.capture = c /\ e.part = next[c]
      /\ queue \in Seq(Parts) /\ queue' = Append(queue, e)
  BY DoneIsNat, PartIs DEF Inv, TypeInv, Progress, Pushed, net, Parts
<1> HIDE DEF e
<1>2. /\ queue' \in Seq(Parts) /\ n \in Nat /\ DOMAIN queue' = 1..(n + 1)
      /\ DOMAIN queue = 1..n /\ queue'[n + 1] = e
      /\ \A i \in 1..n : queue'[i] = queue[i]
      /\ Items(queue') = Items(queue) \cup {e}
  BY <1>1, Appended, ItemsAppended
<1>3. TypeInv'
  <2>1. /\ next' \in [Captures -> Nat]
        /\ status' \in [Captures -> {"idle", "running", "ok", "failed"}]
    BY <1>1 DEF Inv, TypeInv
  <2> QED
    BY <1>1, <1>2, <2>1, After DEF Inv, TypeInv
<1>4. Progress'
  BY <1>1, After DEF Inv, TypeInv, Progress
<1>5. Everywhere' = Everywhere \cup {e}
  BY <1>1, <1>2, After DEF Everywhere, UnderWay
<1>6. Known'
  <2> SUFFICES ASSUME NEW p \in Everywhere' PROVE p.part < next'[p.capture]
    BY DEF Known
  <2>1. CASE p = e
    BY <1>1, <2>1 DEF Inv, TypeInv
  <2>2. CASE p \in Everywhere
    <3>1. p.part < next[p.capture] /\ p.capture \in Captures /\ p.part \in Nat
      BY <2>2, TypesOf, PartsAre DEF Inv, Known
    <3> QED
      BY <1>1, <3>1 DEF Inv, TypeInv
  <2> QED
    BY <1>5, <2>1, <2>2
<1>7. NothingGone'
  <2> SUFFICES ASSUME NEW d \in Captures, NEW k \in Nat, k < next'[d]
               PROVE  Part(d, k) \in Everywhere'
    BY After
  <2>1. (d = c /\ k = next[c]) \/ k < next[d]
    BY <1>1 DEF Inv, TypeInv
  <2> QED
    BY <1>5, <2>1 DEF Inv, NothingGone, e
<1>8. KeptIsQos1'
  BY <1>1, After DEF Inv, KeptIsQos1
<1>9. DoneLast'
  <2>1. ASSUME NEW i \in DOMAIN queue', NEW d \in Parts, IsChunk(queue'[i]),
               d = Part(queue'[i].capture, Done(queue'[i].capture))
        PROVE  /\ d \notin Items(wire) \cup outbox \cup got
               /\ \A j \in DOMAIN queue' : queue'[j] = d => i < j
    <3>1. CASE i = n + 1
      <4>1. d = Part(c, Done(c)) /\ d \notin Everywhere
        BY <1>1, <1>2, <2>1, <3>1, NotPushed
      <4>2. d # e
        BY <1>2, <2>1, <3>1, <4>1, DonePart
      <4>3. d \notin Items(queue')
        BY <1>2, <4>1, <4>2 DEF Everywhere, UnderWay
      <4> QED
        BY <4>1, <4>3 DEF Everywhere, UnderWay, Items
    <3>2. CASE i # n + 1
      <4>1. i \in 1..n /\ queue'[i] = queue[i]
        BY <1>2, <3>2
      <4>2. /\ d \notin Items(wire) \cup outbox \cup got
            /\ \A j \in DOMAIN queue : queue[j] = d => i < j
        BY <1>2, <2>1, <4>1 DEF Inv, DoneLast
      <4>3. \A j \in 1..(n + 1) : j \in 1..n \/ (j = n + 1 /\ i < j)
        BY <1>2, <4>1
      <4> QED
        BY <1>2, <4>2, <4>3
    <3> QED
      BY <3>1, <3>2
  <2> QED
    BY <1>1, <2>1, After DEF Inv, DoneLast
<1> QED
  BY <1>3, <1>4, <1>6, <1>7, <1>8, <1>9 DEF Inv

\* A part in the queue has no done marker of its image ahead of it.
LEMMA HandOverKeeps ==
    ASSUME Inv, HandOver
    PROVE  Inv'
<1> DEFINE e == queue[1]
           n == Len(queue)
           m == Len(wire)
<1>1. /\ UNCHANGED <<status, next, got, lost>>
      /\ queue \in Seq(Parts) /\ queue # <<>> /\ queue' = Tail(queue)
      /\ wire \in Seq(Parts) /\ outbox \subseteq Parts
  BY DEF Inv, TypeInv, HandOver
<1>2. /\ queue' \in Seq(Parts) /\ n \in Nat \ {0}
      /\ DOMAIN queue' = 1..(n - 1) /\ DOMAIN queue = 1..n
      /\ Head(queue) = e /\ e \in Parts /\ 1 \in DOMAIN queue
      /\ \A i \in 1..(n - 1) : queue'[i] = queue[i + 1]
      /\ Items(queue) = Items(queue') \cup {e}
  BY <1>1, Shortened, ItemsShortened
<1> HIDE DEF e
<1>3. /\ wire' = Append(wire, e)
      /\ outbox' = IF IsChunk(e) THEN outbox ELSE outbox \cup {e}
  <2>1. Head(queue) = e /\ Qos(e) = IF IsChunk(e) THEN 0 ELSE 1
    BY <1>2 DEF Qos
  <2>2. Qos(e) = 1 <=> ~IsChunk(e)
    <3>1. CASE IsChunk(e)
      BY <2>1, <3>1
    <3>2. CASE ~IsChunk(e)
      BY <2>1, <3>2
    <3> QED
      BY <3>1, <3>2
  <2>3. wire' = Append(wire, e) /\ outbox' = IF Qos(e) = 1 THEN outbox \cup {e} ELSE outbox
    BY <2>1 DEF HandOver
  <2> QED
    BY <2>2, <2>3
<1>4. /\ wire' \in Seq(Parts) /\ m \in Nat /\ DOMAIN wire' = 1..(m + 1)
      /\ DOMAIN wire = 1..m /\ wire'[m + 1] = e
      /\ \A i \in 1..m : wire'[i] = wire[i]
      /\ Items(wire') = Items(wire) \cup {e}
  BY <1>1, <1>2, <1>3, Appended, ItemsAppended
<1>5. TypeInv'
  BY <1>1, <1>2, <1>3, <1>4, After DEF Inv, TypeInv
<1>6. Progress'
  BY <1>1, After DEF Inv, Progress
<1>7. Everywhere' = Everywhere
  BY <1>1, <1>2, <1>3, <1>4, After DEF Everywhere, UnderWay
<1>8. Known' /\ NothingGone'
  BY <1>1, <1>7, After DEF Inv, Known, NothingGone
<1>9. KeptIsQos1'
  BY <1>3, After DEF Inv, KeptIsQos1
<1>10. DoneLast'
  <2>1. ASSUME NEW i \in DOMAIN queue', NEW d \in Parts, IsChunk(queue'[i]),
               d = Part(queue'[i].capture, Done(queue'[i].capture))
        PROVE  /\ d \notin Items(wire') \cup outbox' \cup got
               /\ \A j \in DOMAIN queue' : queue'[j] = d => i < j
    <3>1. i + 1 \in DOMAIN queue /\ queue'[i] = queue[i + 1] /\ i \in Nat
      BY <1>2
    <3>2. /\ d \notin Items(wire) \cup outbox \cup got
          /\ \A j \in DOMAIN queue : queue[j] = d => i + 1 < j
      BY <2>1, <3>1 DEF Inv, DoneLast
    <3>3. d # e
      BY <1>2, <3>1, <3>2 DEF e
    <3>4. ASSUME NEW j \in 1..(n - 1), queue'[j] = d PROVE i < j
      <4>1. j + 1 \in DOMAIN queue /\ queue[j + 1] = d
        BY <1>2, <3>4
      <4> QED
        BY <3>1, <3>2, <4>1
    <3> QED
      BY <1>2, <1>3, <1>4, <3>2, <3>3, <3>4
  <2>2. ASSUME NEW i \in DOMAIN wire', NEW d \in Parts, IsChunk(wire'[i]),
               d = Part(wire'[i].capture, Done(wire'[i].capture))
        PROVE  /\ d \notin got
               /\ \A j \in DOMAIN wire' : wire'[j] = d => i < j
    <3>1. CASE i = m + 1
      <4>1. /\ d \notin Items(wire) \cup got
        BY <1>2, <1>4, <2>2, <3>1 DEF Inv, DoneLast, e
      <4>2. d # e
        BY <1>2, <1>4, <2>2, <3>1, PartsAre, DonePart
      <4> QED
        BY <1>4, <4>1, <4>2 DEF Items
    <3>2. CASE i # m + 1
      <4>1. i \in 1..m /\ wire'[i] = wire[i]
        BY <1>4, <3>2
      <4>2. d \notin got /\ \A j \in DOMAIN wire : wire[j] = d => i < j
        BY <1>4, <2>2, <4>1 DEF Inv, DoneLast
      <4>3. \A j \in 1..(m + 1) : j \in 1..m \/ (j = m + 1 /\ i < j)
        BY <1>4, <4>1
      <4> QED
        BY <1>4, <4>2, <4>3
    <3> QED
      BY <3>1, <3>2
  <2> QED
    BY <1>1, <2>1, <2>2, After
<1> QED
  BY <1>5, <1>6, <1>8, <1>9, <1>10 DEF Inv

\* What is sent again is no chunk and goes behind the chunks on their way.
LEMMA ResendKeeps ==
    ASSUME Inv, Resend
    PROVE  Inv'
<1> DEFINE m == Len(wire)
<1>1. PICK e \in outbox : wire' = Append(wire, e)
  BY DEF Resend
<1>2. /\ UNCHANGED <<status, next, queue, outbox, got, lost>>
      /\ wire \in Seq(Parts) /\ e \in Parts /\ ~IsChunk(e)
  BY <1>1 DEF Inv, TypeInv, Resend, KeptIsQos1
<1>3. /\ wire' \in Seq(Parts) /\ m \in Nat /\ DOMAIN wire' = 1..(m + 1)
      /\ DOMAIN wire = 1..m /\ wire'[m + 1] = e
      /\ \A i \in 1..m : wire'[i] = wire[i]
      /\ Items(wire') = Items(wire) \cup {e}
  BY <1>1, <1>2, Appended, ItemsAppended
<1>4. TypeInv'
  BY <1>2, <1>3, After DEF Inv, TypeInv
<1>5. Progress' /\ KeptIsQos1'
  BY <1>2, After DEF Inv, Progress, KeptIsQos1
<1>6. Everywhere' = Everywhere
  BY <1>2, <1>3, After DEF Everywhere, UnderWay
<1>7. Known' /\ NothingGone'
  BY <1>2, <1>6, After DEF Inv, Known, NothingGone
<1>8. DoneLast'
  <2>1. ASSUME NEW i \in DOMAIN queue, NEW d \in Parts, IsChunk(queue[i]),
               d = Part(queue[i].capture, Done(queue[i].capture))
        PROVE  /\ d \notin Items(wire') \cup outbox \cup got
               /\ \A j \in DOMAIN queue : queue[j] = d => i < j
    BY <1>3, <2>1 DEF Inv, DoneLast
  <2>2. ASSUME NEW i \in DOMAIN wire', NEW d \in Parts, IsChunk(wire'[i]),
               d = Part(wire'[i].capture, Done(wire'[i].capture))
        PROVE  /\ d \notin got
               /\ \A j \in DOMAIN wire' : wire'[j] = d => i < j
    <3>1. i \in 1..m /\ wire'[i] = wire[i]
      BY <1>2, <1>3, <2>2
    <3>2. d \notin got /\ \A j \in DOMAIN wire : wire[j] = d => i < j
      BY <1>3, <2>2, <3>1 DEF Inv, DoneLast
    <3>3. \A j \in 1..(m + 1) : j \in 1..m \/ (j = m + 1 /\ i < j)
      BY <1>3, <3>1
    <3> QED
      BY <1>3, <3>2, <3>3
  <2> QED
    BY <1>2, <2>1, <2>2, After
<1> QED
  BY <1>4, <1>5, <1>7, <1>8 DEF Inv

\* The part received first is the one sent first.
LEMMA DeliverKeeps ==
    ASSUME Inv, Deliver
    PROVE  Inv'
<1> DEFINE e == wire[1]
           m == Len(wire)
<1>1. /\ UNCHANGED <<status, next, queue, lost>>
      /\ wire \in Seq(Parts) /\ wire # <<>> /\ wire' = Tail(wire)
      /\ outbox \subseteq Parts /\ got \subseteq Parts
  BY DEF Inv, TypeInv, Deliver
<1>2. /\ wire' \in Seq(Parts) /\ m \in Nat \ {0}
      /\ DOMAIN wire' = 1..(m - 1) /\ DOMAIN wire = 1..m
      /\ Head(wire) = e /\ e \in Parts /\ 1 \in DOMAIN wire
      /\ \A i \in 1..(m - 1) : wire'[i] = wire[i + 1]
      /\ Items(wire) = Items(wire') \cup {e}
  BY <1>1, Shortened, ItemsShortened
<1> HIDE DEF e
<1>3. got' = got \cup {e} /\ outbox' = outbox \ {e}
  BY <1>2 DEF Deliver
<1>4. TypeInv'
  BY <1>1, <1>2, <1>3, After DEF Inv, TypeInv
<1>5. Progress' /\ KeptIsQos1'
  BY <1>1, <1>3, After DEF Inv, Progress, KeptIsQos1
<1>6. Everywhere' = Everywhere
  BY <1>1, <1>2, <1>3, After DEF Everywhere, UnderWay
<1>7. Known' /\ NothingGone'
  BY <1>1, <1>6, After DEF Inv, Known, NothingGone
<1>8. DoneLast'
  <2>1. ASSUME NEW i \in DOMAIN queue, NEW d \in Parts, IsChunk(queue[i]),
               d = Part(queue[i].capture, Done(queue[i].capture))
        PROVE  /\ d \notin Items(wire') \cup outbox' \cup got'
               /\ \A j \in DOMAIN queue : queue[j] = d => i < j
    BY <1>2, <1>3, <2>1 DEF Inv, DoneLast
  <2>2. ASSUME NEW i \in DOMAIN wire', NEW d \in Parts, IsChunk(wire'[i]),
               d = Part(wire'[i].capture, Done(wire'[i].capture))
        PROVE  /\ d \notin got'
               /\ \A j \in DOMAIN wire' : wire'[j] = d => i < j
    <3>1. i + 1 \in DOMAIN wire /\ wire'[i] = wire[i + 1] /\ i \in Nat
      BY <1>2
    <3>2. d \notin got /\ \A j \in DOMAIN wire : wire[j] = d => i + 1 < j
      BY <2>2, <3>1 DEF Inv, DoneLast
    <3>3. d # e
      BY <1>2, <3>1, <3>2 DEF e
    <3>4. ASSUME NEW j \in 1..(m - 1), wire'[j] = d PROVE i < j
      <4>1. j + 1 \in DOMAIN wire /\ wire[j + 1] = d
        BY <1>2, <3>4
      <4> QED
        BY <3>1, <3>2, <4>1
    <3> QED
      BY <1>2, <1>3, <3>2, <3>3, <3>4
  <2> QED
    BY <1>1, <2>1, <2>2, After
<1> QED
  BY <1>4, <1>5, <1>7, <1>8 DEF Inv

\* What a lost connection takes is accounted for.
LEMMA BreakKeeps ==
    ASSUME Inv, Break
    PROVE  Inv'
<1>1. PICK kept \in SUBSET outbox :
          outbox' = kept /\ lost' = lost \cup ((Items(wire) \cup outbox) \ kept)
  BY DEF Break
<1>2. UNCHANGED <<status, next, queue, got>> /\ wire' = <<>>
  BY DEF Break
<1>3. /\ Items(wire) \subseteq Parts /\ Items(wire') = {} /\ DOMAIN wire' = {}
      /\ wire' \in Seq(Parts)
  BY <1>2, ItemsAre DEF Inv, TypeInv, Items
<1>4. TypeInv'
  BY <1>1, <1>2, <1>3, After DEF Inv, TypeInv
<1>5. Progress' /\ KeptIsQos1'
  BY <1>1, <1>2, After DEF Inv, Progress, KeptIsQos1
<1>6. Everywhere' = Everywhere
  BY <1>1, <1>2, <1>3, After DEF Everywhere, UnderWay
<1>7. Known' /\ NothingGone'
  BY <1>2, <1>6, After DEF Inv, Known, NothingGone
<1>8. DoneLast'
  BY <1>1, <1>2, <1>3, After DEF Inv, DoneLast
<1> QED
  BY <1>4, <1>5, <1>7, <1>8 DEF Inv

\* A restart ends the calls under way and empties all but what was received.
LEMMA RestartKeeps ==
    ASSUME Inv, Restart
    PROVE  Inv'
<1>1. /\ UNCHANGED <<next, got>> /\ queue' = <<>> /\ wire' = <<>> /\ outbox' = {}
      /\ status' = [d \in Captures |-> IF status[d] = "running" THEN "failed" ELSE status[d]]
      /\ lost' = lost \cup Items(queue) \cup Items(wire) \cup outbox
  BY DEF Restart
<1>2. /\ Items(wire) \subseteq Parts /\ Items(wire') = {} /\ DOMAIN wire' = {}
      /\ Items(queue) \subseteq Parts /\ Items(queue') = {} /\ DOMAIN queue' = {}
      /\ wire' \in Seq(Parts) /\ queue' \in Seq(Parts)
  BY <1>1, ItemsAre DEF Inv, TypeInv, Items
<1>3. TypeInv'
  <2>1. status' \in [Captures -> {"idle", "running", "ok", "failed"}]
    BY <1>1 DEF Inv, TypeInv
  <2> QED
    BY <1>1, <1>2, <2>1, After DEF Inv, TypeInv
<1>4. Progress' /\ KeptIsQos1'
  BY <1>1, After DEF Inv, TypeInv, Progress, KeptIsQos1
<1>5. Everywhere' = Everywhere
  BY <1>1, <1>2, After DEF Everywhere, UnderWay
<1>6. Known' /\ NothingGone'
  BY <1>1, <1>5, After DEF Inv, Known, NothingGone
<1>7. DoneLast'
  BY <1>1, <1>2, After DEF Inv, DoneLast
<1> QED
  BY <1>3, <1>4, <1>6, <1>7 DEF Inv

\* No step breaks the invariant.
LEMMA InvNext == Inv /\ [Next]_vars => Inv'
<1> SUFFICES ASSUME Inv, [Next]_vars PROVE Inv'
  OBVIOUS
<1>1. CASE UNCHANGED vars
  <2>1. UNCHANGED <<status, next, queue, wire, outbox, got, lost>>
    BY <1>1 DEF vars
  <2>2. TypeInv' /\ Progress'
    BY <2>1, After DEF Inv, TypeInv, Progress
  <2>3. Everywhere' = Everywhere
    BY <2>1, After DEF Everywhere, UnderWay
  <2>4. Known' /\ NothingGone' /\ KeptIsQos1' /\ DoneLast'
    BY <2>1, <2>3, After DEF Inv, Known, NothingGone, KeptIsQos1, DoneLast
  <2> QED
    BY <2>2, <2>4 DEF Inv
<1>2. ASSUME NEW c \in Captures, Call(c) PROVE Inv'
  BY <1>2, CallKeeps
<1>3. ASSUME NEW c \in Captures, Publish(c) PROVE Inv'
  BY <1>3, PushKeeps, FailureKeeps DEF Publish
<1> QED
  BY <1>1, <1>2, <1>3, HandOverKeeps, DeliverKeeps, ResendKeeps, BreakKeeps,
     RestartKeeps DEF Next

\* In every reachable state all that was pushed is under way, received or lost
\* with a connection or a restart, and no chunk is behind its done marker.
THEOREM Invariance == Spec => []Inv
<1> QED
  BY InvInit, InvNext, PTL DEF Spec
-----------------------------------------------------------------------------
(***************************************************************************)
(* What the receiver of a done marker can conclude from the chunk count.    *)
(***************************************************************************)
\* All chunks of an image.
Image(c) == {Part(c, k) : k \in 1..ChunkCount(c)}

\* There are as many of them as announced: their numbers tell them apart.
LEMMA ImageSize ==
    ASSUME NEW c \in Captures
    PROVE  IsFiniteSet(Image(c)) /\ Cardinality(Image(c)) = ChunkCount(c)
<1> DEFINE n == ChunkCount(c)
           f == [k \in 1..n |-> Part(c, k)]
<1>1. n \in Nat
  BY ChunksCover, Zenon
<1>2. \A k \in 1..n : Part(c, k).part = k
  BY <1>1, PartIs
<1>3. f \in Bijection(1..n, Image(c))
  <2>1. f \in [1..n -> Image(c)] /\ \A k \in 1..n : f[k] = Part(c, k)
    BY DEF Image
  <2>2. \A k, l \in 1..n : f[k] = f[l] => k = l
    BY <1>2, <2>1
  <2>3. \A p \in Image(c) : \E k \in 1..n : f[k] = p
    BY <2>1 DEF Image
  <2> HIDE DEF f, n
  <2> QED
    BY <2>1, <2>2, <2>3, Fun_IsBij
<1>4. ExistsBijection(1..n, Image(c))
  BY <1>3 DEF ExistsBijection
<1> HIDE DEF n
<1>5. Cardinality(Image(c)) = n
  BY <1>1, <1>4, FS_CountingElements
<1>6. IsFiniteSet(Image(c))
  BY <1>1, <1>4, FS_NatBijection
<1> QED
  BY <1>5, <1>6 DEF n

\* The bytes of the chunk with index i.
LEMMA BytesOf ==
    ASSUME NEW c \in Captures, NEW i \in Nat, i < ChunkCount(c)
    PROVE  /\ Offset(i) \in Nat /\ Offset(i + 1) = Offset(i) + ChunkSize
           /\ Bytes(Part(c, i + 1)) = {b \in 0..(DataLen[c] - 1) :
                                          Offset(i) <= b /\ b < Offset(i) + ChunkSize}
<1>1. ChunkCount(c) \in Nat /\ DataLen[c] \in Nat /\ ChunkSize \in Nat \ {0}
  BY ChunksCover, ImageAssumption
<1>2. i + 1 \in 1..ChunkCount(c) /\ (i + 1) - 1 = i
  BY <1>1
<1>3. Part(c, i + 1).from = Offset(i) /\ Part(c, i + 1).len = ChunkLen(c, i)
  BY <1>2, ChunkPart
<1>4. /\ Offset(i) \in Nat /\ ChunkLen(c, i) \in 1..ChunkSize
      /\ IF i + 1 = ChunkCount(c) THEN Offset(i) + ChunkLen(c, i) = DataLen[c]
         ELSE Offset(i) + ChunkLen(c, i) = Offset(i + 1)
  BY ChunksFollow
<1>5. Offset(i + 1) = Offset(i) + ChunkSize
  BY <1>1, SMT DEF Offset
<1>6. Offset(i) + ChunkLen(c, i) <= DataLen[c]
  <2>1. ChunkLen(c, i) = IF DataLen[c] - Offset(i) > ChunkSize THEN ChunkSize
                         ELSE DataLen[c] - Offset(i)
    BY DEF ChunkLen
  <2> QED
    BY <1>1, <1>4, <2>1
<1>7. ChunkLen(c, i) = ChunkSize \/ Offset(i) + ChunkLen(c, i) = DataLen[c]
  BY <1>1, <1>4, <1>5
<1> QED
  BY <1>1, <1>3, <1>4, <1>5, <1>6, <1>7 DEF Bytes

\* The chunks make up the image, and no two of them share a byte.
LEMMA ImageIsWhole ==
    ASSUME NEW c \in Captures
    PROVE  /\ UNION {Bytes(p) : p \in Image(c)} = 0..(DataLen[c] - 1)
           /\ \A p, q \in Image(c) : p # q => Bytes(p) \cap Bytes(q) = {}
<1> DEFINE n == ChunkCount(c)
           s == ChunkSize
           d == DataLen[c]
<1>1. n \in Nat /\ d \in Nat /\ s \in Nat \ {0} /\ d <= n * s
  BY ChunksCover, ImageAssumption
<1>2. \A k \in 1..n : k - 1 \in Nat /\ k - 1 < n /\ (k - 1) + 1 = k
  BY <1>1
<1>3. \A k \in 1..n : Bytes(Part(c, k)) =
          {b \in 0..(d - 1) : Offset(k - 1) <= b /\ b < Offset(k - 1) + s}
  <2> TAKE k \in 1..n
  <2> QED
    BY <1>2, BytesOf
<1>4. \A p \in Image(c) : \E k \in 1..n : p = Part(c, k)
  BY DEF Image
<1> HIDE DEF n, s, d
<1>5. ASSUME NEW b \in 0..(d - 1) PROVE \E p \in Image(c) : b \in Bytes(p)
  <2> DEFINE i == b \div s
  <2>1. i \in Nat /\ i * s <= b /\ b < i * s + s
    BY <1>1, SMT
  <2> HIDE DEF i
  <2>2. i < n
    <3> SUFFICES ASSUME n <= i PROVE FALSE
      BY <1>1, <2>1
    <3>1. n * s <= i * s
      BY <1>1, <2>1, SMT
    <3>2. i * s \in Nat /\ n * s \in Nat
      BY <1>1, <2>1, SMT
    <3> QED
      BY <1>1, <2>1, <3>1, <3>2
  <2>3. i + 1 \in 1..n /\ (i + 1) - 1 = i
    BY <1>1, <2>1, <2>2
  <2>4. Offset(i) <= b /\ b < Offset(i) + s
    BY <2>1 DEF Offset, s
  <2>5. b \in Bytes(Part(c, i + 1))
    BY <1>3, <2>3, <2>4
  <2> QED
    BY <2>3, <2>5 DEF Image, n
<1>6. \A p \in Image(c) : Bytes(p) \subseteq 0..(d - 1)
  BY <1>3, <1>4
<1>7. ASSUME NEW k \in 1..n, NEW l \in 1..n, k < l
      PROVE  Bytes(Part(c, k)) \cap Bytes(Part(c, l)) = {}
  <2>1. k - 1 \in Nat /\ l - 1 \in Nat /\ (k - 1) + 1 <= l - 1
    BY <1>1, <1>7
  <2>2. ASSUME NEW x \in Nat, NEW y \in Nat, x + 1 <= y PROVE x * s + s <= y * s
    BY <1>1, <2>2, SMT
  <2>3. (k - 1) * s + s <= (l - 1) * s /\ (k - 1) * s \in Nat /\ (l - 1) * s \in Nat
    <3>1. \A x \in Nat : x * s \in Nat
      BY <1>1, SMT
    <3> QED
      BY <2>1, <2>2, <3>1
  <2>4. Offset(k - 1) + s <= Offset(l - 1) /\ Offset(k - 1) \in Nat /\ Offset(l - 1) \in Nat
    BY <2>3 DEF Offset, s
  <2> QED
    BY <1>1, <1>3, <2>4
<1>8. ASSUME NEW p \in Image(c), NEW q \in Image(c), p # q
      PROVE  Bytes(p) \cap Bytes(q) = {}
  <2>1. PICK k \in 1..n : p = Part(c, k)
    BY <1>4
  <2>2. PICK l \in 1..n : q = Part(c, l)
    BY <1>4
  <2>3. k < l \/ l < k
    BY <1>1, <1>8, <2>1, <2>2
  <2> QED
    BY <1>7, <2>1, <2>2, <2>3
<1> QED
  BY <1>5, <1>6, <1>8 DEF d

(***************************************************************************)
(* Once the done marker of an image is received no chunk of it is on its    *)
(* way; if none was lost, as many as announced have been received; and if   *)
(* as many have been received, they are the image.                          *)
(***************************************************************************)
THEOREM DoneEndsWholeImage == Spec => []DoneMeansComplete
<1>1. ASSUME Inv PROVE DoneMeansComplete
  <2> SUFFICES ASSUME NEW c \in Captures, Part(c, Done(c)) \in got
               PROVE  LET chunks == Chunks(c, got)
                          complete == Cardinality(chunks) = ChunkCount(c)
                      IN  /\ Chunks(c, Items(queue) \cup Items(wire)) = {}
                          /\ Chunks(c, lost) = {} => complete
                          /\ complete =>
                                /\ UNION {Bytes(p) : p \in chunks} = 0..(DataLen[c] - 1)
                                /\ \A p, q \in chunks : p # q => Bytes(p) \cap Bytes(q) = {}
    BY DEF DoneMeansComplete
  <2> DEFINE chunks == Chunks(c, got)
             n == ChunkCount(c)
             z == Part(c, Done(c))
  <2>1. /\ n \in Nat /\ Done(c) = n + 1 /\ z \in Parts /\ z.capture = c /\ z.part = n + 1
        /\ z \in Everywhere
    BY ChunksCover, DonePart, Zenon DEF Done, Everywhere
  <2>2. next[c] = n + 2
    <3>1. n + 1 < next[c] /\ next[c] <= n + 1 + 1 /\ next[c] \in Nat
      BY <1>1, <2>1 DEF Inv, TypeInv, Known, Progress
    <3> QED
      BY <2>1, <3>1
  <2>3. ASSUME NEW p \in Everywhere, p.capture = c, IsChunk(p)
        PROVE  p \in Image(c)
    <3>1. p \in Parts /\ p.part < n + 2
      BY <1>1, <2>2, <2>3, TypesOf DEF Inv, Known
    <3>2. p = Part(c, p.part) /\ p.part \in Nat
      BY <2>3, <3>1, PartsAre
    <3>3. p.part \in 1..n
      BY <2>1, <2>3, <3>1, <3>2, ChunkIs
    <3> QED
      BY <3>2, <3>3 DEF Image
  <2>4. chunks \subseteq Image(c)
    BY <2>3 DEF Chunks, Everywhere
  <2>5. Chunks(c, Items(queue) \cup Items(wire)) = {}
    <3> SUFFICES ASSUME NEW p \in Items(queue) \cup Items(wire), p.capture = c, IsChunk(p)
                 PROVE  FALSE
      BY DEF Chunks
    <3>1. CASE p \in Items(queue)
      <4>1. PICK i \in DOMAIN queue : p = queue[i]
        BY <3>1 DEF Items
      <4> QED
        BY <1>1, <2>1, <4>1 DEF Inv, DoneLast
    <3>2. CASE p \in Items(wire)
      <4>1. PICK i \in DOMAIN wire : p = wire[i]
        BY <3>2 DEF Items
      <4> QED
        BY <1>1, <2>1, <4>1 DEF Inv, DoneLast
    <3> QED
      BY <3>1, <3>2
  <2>6. ASSUME Chunks(c, lost) = {} PROVE chunks = Image(c)
    <3> SUFFICES ASSUME NEW k \in 1..n PROVE Part(c, k) \in chunks
      BY <2>4 DEF Image
    <3>1. k \in Nat /\ k < next[c] /\ k < Done(c) + 1
      BY <2>1, <2>2
    <3>2. Part(c, k) \in Everywhere
      BY <1>1, <3>1 DEF Inv, NothingGone
    <3>3. IsChunk(Part(c, k)) /\ Part(c, k).capture = c
      BY <3>1, ChunkIs, PartIs
    <3>4. Part(c, k) \notin outbox
      BY <1>1, <3>3 DEF Inv, KeptIsQos1
    <3>5. Part(c, k) \notin Items(queue) \cup Items(wire) /\ Part(c, k) \notin lost
      BY <2>5, <2>6, <3>3 DEF Chunks
    <3> QED
      BY <3>2, <3>3, <3>4, <3>5 DEF Everywhere, UnderWay, Chunks
  <2>7. ASSUME Cardinality(chunks) = n PROVE chunks = Image(c)
    BY <2>4, <2>7, ImageSize, FS_Subset
  <2> QED
    BY <2>5, <2>6, <2>7, ImageSize, ImageIsWhole
<1> QED
  BY <1>1, Invariance, PTL

\* Of a transfer that reported success every part has been received or was lost
\* with a connection or a restart, as soon as nothing of it is under way.
THEOREM SuccessArrivesWhole == Spec => []SuccessIsWhole
<1>1. ASSUME Inv PROVE SuccessIsWhole
  <2> SUFFICES ASSUME NEW c \in Captures, status[c] = "ok",
                      \A p \in UnderWay : p.capture # c,
                      NEW k \in Meta..Done(c)
               PROVE  Part(c, k) \in got \cup lost
    BY DEF SuccessIsWhole
  <2>1. next[c] = Done(c) + 1 /\ Done(c) \in Nat
    BY <1>1, DoneIsNat DEF Inv, Progress
  <2>2. k \in Nat /\ k < next[c]
    BY <2>1 DEF Meta
  <2>3. Part(c, k) \in Everywhere /\ Part(c, k).capture = c
    BY <1>1, <2>2, PartIs DEF Inv, NothingGone
  <2> QED
    BY <2>3 DEF Everywhere
<1> QED
  BY <1>1, Invariance, PTL
=============================================================================
