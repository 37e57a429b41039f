------------------------- MODULE MotionDetectionProofs -------------------------
(***************************************************************************)
(* The PIR detector for every set of settings, every width of a word and    *)
(* every interleaving of the interrupt, the worker and the two tasks that   *)
(* apply settings.                                                          *)
(***************************************************************************)
EXTENDS MotionDetection, SequenceTheorems, FiniteSetTheorems, TLAPS

Doers == Appliers \cup {"worker"}
Stores == [word: Words, value: Nat]

-----------------------------------------------------------------------------
(***************************************************************************)
(* A 64-bit time and its two words.                                         *)
(***************************************************************************)
LEMMA Quotient == ASSUME NEW t \in Nat, NEW w \in Nat, w > 0 PROVE t \div w \in Nat
  OBVIOUS

LEMMA Remainder == ASSUME NEW t \in Nat, NEW w \in Nat, w > 0 PROVE t % w \in Nat
  OBVIOUS

LEMMA Division ==
    ASSUME NEW t \in Nat, NEW w \in Nat, w > 0,
           NEW r \in Nat, r = t % w, NEW q \in Nat, q = t \div w
    PROVE  w * q + r = t
  OBVIOUS

LEMMA Product ==
    ASSUME NEW q \in Nat, NEW w \in Nat
    PROVE  q * w \in Nat /\ q * w = w * q
<1>1. q * w \in Nat
  OBVIOUS
<1>2. q * w = w * q
  OBVIOUS
<1> QED
  BY <1>1, <1>2

LEMMA TimeInWords ==
    ASSUME NEW t \in Nat
    PROVE  \E hi, lo \in Nat : /\ hi = t \div WordSize /\ lo = t % WordSize
                               /\ hi * WordSize \in Nat
                               /\ hi * WordSize + lo = t
<1>1. WordSize \in Nat /\ WordSize > 0
  BY MotionAssumption
<1> DEFINE hi == t \div WordSize
           lo == t % WordSize
<1>2. hi \in Nat
  BY <1>1, Quotient
<1>3. lo \in Nat
  BY <1>1, Remainder
<1>4. hi = t \div WordSize /\ lo = t % WordSize
  OBVIOUS
<1> HIDE DEF hi, lo
<1>5. WordSize * hi + lo = t
  BY <1>1, <1>2, <1>3, <1>4, Division
<1>6. hi * WordSize \in Nat /\ hi * WordSize = WordSize * hi
  BY <1>1, <1>2, Product
<1>7. hi * WordSize + lo = t
  BY <1>5, <1>6, Zenon
<1> QED
  BY <1>2, <1>3, <1>4, <1>6, <1>7, Zenon

\* Time 0 is two zeros.
LEMMA ZeroQuotient == ASSUME NEW w \in Nat, w > 0 PROVE 0 \div w = 0
  OBVIOUS

LEMMA ZeroRemainder == ASSUME NEW w \in Nat, w > 0 PROVE 0 % w = 0
  OBVIOUS

LEMMA ZeroTime == 0 \div WordSize = 0 /\ 0 % WordSize = 0
<1>1. WordSize \in Nat /\ WordSize > 0
  BY MotionAssumption
<1> QED
  BY <1>1, ZeroQuotient, ZeroRemainder

LEMMA StoreTypes ==
    /\ \A w \in Words, v \in Nat : Store(w, v) \in SUBSET Stores
    /\ \A t \in Nat : StoreUntil(t) \in SUBSET Stores /\ StoreLast(t) \in SUBSET Stores
<1>1. ASSUME NEW w \in Words, NEW v \in Nat PROVE Store(w, v) \in SUBSET Stores
  BY DEF Store, Stores
<1>2. {"until_hi", "until_lo", "last_hi", "last_lo"} \subseteq Words
  BY DEF Words
<1>3. ASSUME NEW t \in Nat
      PROVE  StoreUntil(t) \in SUBSET Stores /\ StoreLast(t) \in SUBSET Stores
  <2>1. PICK hi \in Nat, lo \in Nat : hi = t \div WordSize /\ lo = t % WordSize
    BY TimeInWords
  <2>2. /\ StoreUntil(t) = Store("until_hi", hi) \cup Store("until_lo", lo)
        /\ StoreLast(t) = Store("last_hi", hi) \cup Store("last_lo", lo)
    BY <2>1 DEF StoreUntil, StoreLast, StoreTime
  <2> QED
    BY <1>1, <1>2, <2>2
<1> QED
  BY <1>1, <1>3

\* The plan of one group, once a store of it is done.
LEMMA OneGroup == ASSUME NEW g PROVE <<g>>[1] = g /\ Tail(<<g>>) = <<>>
  OBVIOUS

LEMMA OneGroupLess == ASSUME NEW g, NEW x PROVE [<<g>> EXCEPT ![1] = x] = <<x>>
  OBVIOUS

-----------------------------------------------------------------------------
(***************************************************************************)
(* Types.                                                                   *)
(***************************************************************************)

\* One store: a word takes its value, and what is left of the plan is made of
\* parts of the groups it had.
LEMMA StoreStep ==
    ASSUME TypeOK, NEW t \in Doers, DoStore(t)
    PROVE  \E w \in plan[t][1] :
              /\ w \in Stores /\ 1 \in 1..Len(plan[t])
              /\ s_state' = [s_state EXCEPT ![w.word] = w.value]
              /\ plan' \in [Doers -> Seq(SUBSET Stores)]
              /\ plan'[t] = After(plan[t], w)
              /\ \A u \in Doers : u # t => plan'[u] = plan[u]
              /\ \A j \in 1..Len(plan'[t]) :
                    \E i \in 1..Len(plan[t]) : plan'[t][j] \subseteq plan[t][i]
<1> DEFINE p == plan[t]
<1>1. /\ plan \in [Doers -> Seq(SUBSET Stores)] /\ p \in Seq(SUBSET Stores)
      /\ p # <<>> /\ Len(p) \in Nat /\ 1 \in 1..Len(p) /\ Head(p) = p[1]
      /\ p[1] \in SUBSET Stores
  BY DEF TypeOK, DoStore, Doers, Stores
<1>2. PICK w \in p[1] :
         /\ s_state' = [s_state EXCEPT ![w.word] = w.value]
         /\ plan' = [plan EXCEPT ![t] = After(p, w)]
  BY <1>1 DEF DoStore
<1> DEFINE q == After(p, w)
<1>3. /\ plan'[t] = q
      /\ \A u \in Doers : u # t => plan'[u] = plan[u]
      /\ plan' = [u \in Doers |-> plan'[u]]
  BY <1>1, <1>2
<1>4. w \in Stores
  BY <1>1, <1>2
<1>5. /\ q \in Seq(SUBSET Stores)
      /\ \A j \in 1..Len(q) : \E i \in 1..Len(p) : q[j] \subseteq p[i]
  <2>1. CASE p[1] = {w}
    <3>1. q = Tail(p)
      BY <2>1 DEF After
    <3>2. /\ Tail(p) \in Seq(SUBSET Stores) /\ Len(Tail(p)) = Len(p) - 1
          /\ \A i \in 1..Len(Tail(p)) : Tail(p)[i] = p[i + 1]
      BY <1>1, HeadTailProperties
    <3> HIDE DEF q, p
    <3>3. \A j \in 1..Len(q) : j + 1 \in 1..Len(p) /\ q[j] \subseteq p[j + 1]
      BY <1>1, <3>1, <3>2
    <3> QED
      BY <3>1, <3>2, <3>3
  <2>2. CASE p[1] # {w}
    <3>1. q = [p EXCEPT ![1] = p[1] \ {w}]
      BY <2>2 DEF After
    <3> HIDE DEF p, q
    <3>2. p[1] \ {w} \in SUBSET Stores
      BY <1>1
    <3>3. /\ q \in Seq(SUBSET Stores) /\ Len(q) = Len(p)
          /\ \A j \in 1..Len(p) : q[j] = IF j = 1 THEN p[1] \ {w} ELSE p[j]
      BY <1>1, <3>1, <3>2, ExceptSeq
    <3> QED
      BY <1>1, <3>3
  <2> QED
    BY <2>1, <2>2
<1> HIDE DEF q, p
<1>6. plan' \in [Doers -> Seq(SUBSET Stores)] /\ plan'[t] = q
      /\ \A u \in Doers : u # t => plan'[u] = plan[u]
  BY <1>1, <1>3, <1>5
<1> QED
  BY <1>1, <1>2, <1>4, <1>5, <1>6 DEF p, q

(***************************************************************************)
(* What a plan may hold: nothing outside an application, only timings until *)
(* its branch is taken, only zeros for the last trigger; and the worker's   *)
(* is the time of the trigger it has just accepted.                         *)
(***************************************************************************)
TimingWords == {"warmup_ms", "cooldown_ms"}
LastWords == {"last_hi", "last_lo"}

PlanOf(a) ==
    /\ apply[a].at \in {"ready", "done"} => plan[a] = <<>>
    /\ apply[a].at = "branch" =>
          \A i \in 1..Len(plan[a]) : \A w \in plan[a][i] : w.word \in TimingWords
    /\ \A i \in 1..Len(plan[a]) : \A w \in plan[a][i] :
          w.word \in LastWords => w.value = 0

WorkerPlan ==
    plan["worker"] # <<>> =>
        /\ pc = "post"
        /\ \E g \in SUBSET StoreLast(now_us) : plan["worker"] = <<g>>

Shape == (\A a \in Appliers : PlanOf(a)) /\ WorkerPlan

Typed == TypeOK /\ Shape

LEMMA TypedInit == Init => Typed
<1> SUFFICES ASSUME Init PROVE Typed
  OBVIOUS
<1>1. <<>> \in Seq(SUBSET [word: Words, value: Nat]) /\ Len(<<>>) = 0
  OBVIOUS
<1>2. (CHOOSE s \in Settings : TRUE) \in Settings
  BY MotionAssumption
<1>3. s_state \in [Words -> Nat]
  BY MotionAssumption DEF Init
<1>4. apply \in [Appliers -> [at: {"ready", "branch", "leave", "done"},
                              was_started: BOOLEAN, s: Settings]]
  BY <1>2 DEF Init, Ready
<1>5. notified \in BOOLEAN /\ revoked \in BOOLEAN /\ muddled \in BOOLEAN
  BY Zenon DEF Init
<1>6. TypeOK
  BY <1>1, <1>3, <1>4, <1>5, MotionAssumption DEF Init, TypeOK
<1>7. Shape
  BY DEF Init, Shape, PlanOf, WorkerPlan, Ready, Appliers
<1> QED
  BY <1>6, <1>7 DEF Typed

\* A store of an applier.
LEMMA ApplierStoreTyped ==
    ASSUME Typed, NEW a \in Appliers, DoStore(a)
    PROVE  Typed'
<1>1. a \in Doers /\ "worker" \in Doers /\ "worker" # a /\ Appliers \subseteq Doers
  BY DEF Doers, Appliers
<1>2. UNCHANGED <<now, notified, applying, worker, events>>
  BY DEF DoStore
<1>3. PICK w \in plan[a][1] :
              /\ w \in Stores /\ 1 \in 1..Len(plan[a])
              /\ s_state' = [s_state EXCEPT ![w.word] = w.value]
              /\ plan' \in [Doers -> Seq(SUBSET Stores)]
              /\ \A u \in Doers : u # a => plan'[u] = plan[u]
              /\ \A j \in 1..Len(plan'[a]) :
                    \E i \in 1..Len(plan[a]) : plan'[a][j] \subseteq plan[a][i]
  BY <1>1, StoreStep DEF Typed
<1>4. TypeOK'
  BY <1>2, <1>3 DEF Typed, TypeOK, Stores, Doers, applying, worker
<1>5. WorkerPlan'
  BY <1>1, <1>2, <1>3 DEF Typed, Shape, WorkerPlan, worker
<1>6. ASSUME NEW b \in Appliers PROVE PlanOf(b)'
  <2>1. CASE b # a
    <3>1. plan'[b] = plan[b] /\ apply' = apply /\ window' = window
      BY <1>1, <1>2, <1>3, <2>1 DEF applying
    <3>2. PlanOf(b)
      BY DEF Typed, Shape
    <3> QED
      BY <3>1, <3>2 DEF PlanOf
  <2>2. CASE b = a
    <3>1. ~(apply[a].at \in {"ready", "done"})
      BY <1>1 DEF Typed, Shape, PlanOf, DoStore
    <3> QED
      BY <1>2, <1>3, <2>2, <3>1 DEF Typed, Shape, PlanOf, applying
  <2> QED
    BY <2>1, <2>2
<1> QED
  BY <1>4, <1>5, <1>6 DEF Typed, Shape

\* A store of the worker.
LEMMA WorkerStore ==
    ASSUME Typed, DoStore("worker")
    PROVE  \E g \in SUBSET StoreLast(now_us) : \E w \in g :
              /\ pc = "post" /\ plan["worker"] = <<g>> /\ w \in Stores
              /\ s_state' = [s_state EXCEPT ![w.word] = w.value]
              /\ plan'["worker"] = IF g = {w} THEN <<>> ELSE <<g \ {w}>>
              /\ \A a \in Appliers : plan'[a] = plan[a]
              /\ plan' \in [Doers -> Seq(SUBSET Stores)]
<1>1. "worker" \in Doers /\ \A a \in Appliers : a \in Doers /\ a # "worker"
  BY DEF Doers, Appliers
<1>2. PICK w \in plan["worker"][1] :
              /\ w \in Stores /\ 1 \in 1..Len(plan["worker"])
              /\ s_state' = [s_state EXCEPT ![w.word] = w.value]
              /\ plan' \in [Doers -> Seq(SUBSET Stores)]
              /\ plan'["worker"] = After(plan["worker"], w)
              /\ \A u \in Doers : u # "worker" => plan'[u] = plan[u]
  BY <1>1, StoreStep DEF Typed
<1>3. PICK g \in SUBSET StoreLast(now_us) : plan["worker"] = <<g>> /\ pc = "post"
  BY DEF Typed, Shape, WorkerPlan, DoStore
<1>4. plan["worker"][1] = g
  BY <1>3
<1>5. After(<<g>>, w) = IF g = {w} THEN <<>> ELSE <<g \ {w}>>
  BY OneGroup, OneGroupLess DEF After
<1>6. plan'["worker"] = IF g = {w} THEN <<>> ELSE <<g \ {w}>>
  BY <1>2, <1>3, <1>5
<1> QED
  BY <1>1, <1>2, <1>3, <1>4, <1>6

LEMMA WorkerStoreTyped ==
    ASSUME Typed, DoStore("worker")
    PROVE  Typed'
<1>0. PICK g \in SUBSET StoreLast(now_us) : \E w \in g :
              /\ pc = "post" /\ plan["worker"] = <<g>> /\ w \in Stores
              /\ s_state' = [s_state EXCEPT ![w.word] = w.value]
              /\ plan'["worker"] = IF g = {w} THEN <<>> ELSE <<g \ {w}>>
              /\ \A a \in Appliers : plan'[a] = plan[a]
              /\ plan' \in [Doers -> Seq(SUBSET Stores)]
  BY WorkerStore
<1>1. PICK w \in g :
              /\ pc = "post" /\ plan["worker"] = <<g>> /\ w \in Stores
              /\ s_state' = [s_state EXCEPT ![w.word] = w.value]
              /\ plan'["worker"] = IF g = {w} THEN <<>> ELSE <<g \ {w}>>
              /\ \A a \in Appliers : plan'[a] = plan[a]
              /\ plan' \in [Doers -> Seq(SUBSET Stores)]
  BY <1>0
<1>2. UNCHANGED <<now, notified, apply, updates, window, muddled, revoked, pc,
                  now_us, cooldown, fell, prev, events>>
  BY DEF DoStore, applying, worker
<1>3. TypeOK'
  BY <1>1, <1>2 DEF Typed, TypeOK, Stores, Doers
<1>4. \A a \in Appliers : PlanOf(a)'
  BY <1>1, <1>2 DEF Typed, Shape, PlanOf
<1>5. StoreLast(now_us)' = StoreLast(now_us)
  BY <1>2 DEF StoreLast, StoreTime, Store
<1>6. WorkerPlan'
  BY <1>1, <1>2, <1>5 DEF WorkerPlan
<1> QED
  BY <1>3, <1>4, <1>6 DEF Typed, Shape

\* A step of an application: its plan is replaced by one of its own.
LEMMA ApplyTyped ==
    ASSUME Typed, NEW a \in Appliers, Apply(a)
    PROVE  Typed'
<1> DEFINE Ats == {"ready", "branch", "leave", "done"}
           Entries == [at: Ats, was_started: BOOLEAN, s: Settings]
<1>1. /\ apply \in [Appliers -> Entries] /\ apply[a] \in Entries
      /\ plan \in [Doers -> Seq(SUBSET Stores)]
      /\ a \in Doers /\ a # "worker" /\ "worker" \in Doers /\ Appliers \subseteq Doers
      /\ s_state \in [Words -> Nat] /\ now \in Nat
      /\ \A s \in Settings : s.warmup_ms \in Nat /\ s.cooldown_ms \in Nat
  BY MotionAssumption DEF Typed, TypeOK, Doers, Stores, Appliers
<1>2. ASSUME apply' \in [Appliers -> Entries],
             \A b \in Appliers : b # a => apply'[b] = apply[b],
             NEW q \in Seq(SUBSET Stores), plan' = [plan EXCEPT ![a] = q],
             apply'[a].at \in {"ready", "done"} => q = <<>>,
             apply'[a].at = "branch" =>
                \A i \in 1..Len(q) : \A w \in q[i] : w.word \in TimingWords,
             \A i \in 1..Len(q) : \A w \in q[i] : w.word \in LastWords => w.value = 0,
             UNCHANGED <<now, notified, s_state, pc, now_us, cooldown, events, fell>>,
             updates' \in 0..MaxUpdates, window' \in Nat, muddled' \in BOOLEAN,
             revoked' \in BOOLEAN, prev' \in 0..MaxTime
      PROVE  Typed'
  <2>1. /\ plan' \in [Doers -> Seq(SUBSET Stores)] /\ plan'[a] = q
        /\ \A u \in Doers : u # a => plan'[u] = plan[u]
    BY <1>1, <1>2
  <2>2. TypeOK'
    BY <1>2, <2>1 DEF Typed, TypeOK, Doers, Stores
  <2>3. ASSUME NEW b \in Appliers PROVE PlanOf(b)'
    BY <1>1, <1>2, <2>1 DEF Typed, Shape, PlanOf
  <2>4. StoreLast(now_us)' = StoreLast(now_us)
    BY <1>2 DEF StoreLast, StoreTime, Store
  <2>5. WorkerPlan'
    BY <1>1, <1>2, <2>1, <2>4 DEF Typed, Shape, WorkerPlan
  <2> QED
    BY <2>2, <2>3, <2>5 DEF Typed, Shape
<1>3. /\ window \in Nat /\ revoked \in BOOLEAN /\ prev \in 0..MaxTime
      /\ Judging \in BOOLEAN /\ muddled \in BOOLEAN /\ 0 \in 0..MaxTime
      /\ updates \in 0..MaxUpdates /\ MaxUpdates \in Nat
  BY MotionAssumption DEF Typed, TypeOK, Judging
<1>4. ASSUME NEW s \in Settings, Enter(a, s) PROVE Typed'
  <2> DEFINE q == <<Store("warmup_ms", s.warmup_ms), Store("cooldown_ms", s.cooldown_ms)>>
             e == [at |-> "branch", s |-> s, was_started |-> s_state["started"] = 1]
  <2>1. apply' = [apply EXCEPT ![a] = e] /\ plan' = [plan EXCEPT ![a] = q]
    BY <1>4 DEF Enter
  <2>2. e \in Entries /\ e.at = "branch"
    OBVIOUS
  <2>3. /\ q \in Seq(SUBSET Stores)
        /\ \A i \in 1..Len(q) : \A w \in q[i] : w.word \in TimingWords
    <3>1. "warmup_ms" \in Words /\ "cooldown_ms" \in Words
      BY DEF Words
    <3>2. /\ Store("warmup_ms", s.warmup_ms) \in SUBSET Stores
          /\ Store("cooldown_ms", s.cooldown_ms) \in SUBSET Stores
      BY <1>1, <3>1, StoreTypes
    <3>3. /\ \A w \in Store("warmup_ms", s.warmup_ms) : w.word \in TimingWords
          /\ \A w \in Store("cooldown_ms", s.cooldown_ms) : w.word \in TimingWords
      BY DEF Store, TimingWords
    <3>4. \A A, B \in SUBSET Stores : /\ <<A, B>> \in Seq(SUBSET Stores)
                                      /\ \A i \in 1..Len(<<A, B>>) :
                                            <<A, B>>[i] = A \/ <<A, B>>[i] = B
      OBVIOUS
    <3> QED
      BY <3>2, <3>3, <3>4
  <2> HIDE DEF q, e
  <2>4. /\ apply' \in [Appliers -> Entries] /\ apply'[a] = e
        /\ \A b \in Appliers : b # a => apply'[b] = apply[b]
    BY <1>1, <2>1, <2>2
  <2>5. \A i \in 1..Len(q) : \A w \in q[i] : ~(w.word \in LastWords)
    BY <2>3 DEF TimingWords, LastWords
  <2>6. UNCHANGED <<now, notified, s_state, pc, now_us, cooldown, events, fell,
                    revoked, prev>>
    BY <1>4 DEF Enter, worker
  <2>7. updates' \in 0..MaxUpdates /\ window' \in Nat
    BY <1>3, <1>4 DEF Enter
  <2>8. muddled' \in BOOLEAN
    BY <1>4, Zenon DEF Enter
  <2>9. revoked' \in BOOLEAN
    BY <1>3, <2>6, Zenon
  <2>10. prev' \in 0..MaxTime
    BY <1>3, <2>6
  <2> QED
    BY <1>2, <2>1, <2>2, <2>3, <2>4, <2>5, <2>6, <2>7, <2>8, <2>9, <2>10
<1>5. ASSUME apply' = Settled(a)
      PROVE  /\ apply' \in [Appliers -> Entries] /\ apply'[a].at = "leave"
             /\ \A b \in Appliers : b # a => apply'[b] = apply[b]
  <2> DEFINE e == [Ready EXCEPT !.at = "leave"]
  <2>1. apply' = [apply EXCEPT ![a] = e]
    BY <1>5 DEF Settled
  <2>2. e \in Entries /\ e.at = "leave"
    <3>1. (CHOOSE s \in Settings : TRUE) \in Settings
      BY MotionAssumption
    <3> QED
      BY <3>1 DEF Ready
  <2> HIDE DEF e
  <2> QED
    BY <1>1, <2>1, <2>2
<1>6. ASSUME NEW A \in SUBSET Stores, NEW B \in SUBSET Stores, NEW C \in SUBSET Stores,
             NEW q, q = <<A, B, C>>,
             \A w \in A \cup B \cup C : w.word \in LastWords => w.value = 0
      PROVE  /\ q \in Seq(SUBSET Stores)
             /\ \A i \in 1..Len(q) : \A w \in q[i] : w.word \in LastWords => w.value = 0
  <2>1. q \in Seq(SUBSET Stores) /\ Len(q) = 3 /\ q[1] = A /\ q[2] = B /\ q[3] = C
    BY <1>6
  <2>2. \A i \in 1..Len(q) : q[i] = A \/ q[i] = B \/ q[i] = C
    BY <2>1
  <2> QED
    BY <1>6, <2>1, <2>2
<1>7. /\ "started" \in Words /\ Store("started", 0) \in SUBSET Stores
      /\ Store("started", 1) \in SUBSET Stores
      /\ \A t \in Nat : StoreUntil(t) \in SUBSET Stores
      /\ StoreLast(0) \in SUBSET Stores
  BY StoreTypes DEF Words
<1>8. /\ \A v : \A w \in Store("started", v) : ~(w.word \in LastWords)
      /\ \A t : \A w \in StoreUntil(t) : ~(w.word \in LastWords)
      /\ \A w \in StoreLast(0) : w.word \in LastWords /\ w.value = 0
  <2>1. 0 \div WordSize = 0 /\ 0 % WordSize = 0
    BY ZeroTime
  <2> QED
    BY <2>1 DEF Store, StoreUntil, StoreLast, StoreTime, LastWords
<1>9. CASE Disable(a)
  <2>1. DisablePlan = <<Store("started", 0), StoreUntil(0), StoreLast(0)>>
    BY DEF DisablePlan
  <2>2. /\ DisablePlan \in Seq(SUBSET Stores)
        /\ \A i \in 1..Len(DisablePlan) : \A w \in DisablePlan[i] :
              w.word \in LastWords => w.value = 0
    BY <1>6, <1>7, <1>8, <2>1
  <2>3. /\ apply' = Settled(a)
        /\ plan' = [plan EXCEPT ![a] = DisablePlan]
        /\ revoked' = Judging /\ prev' = 0
        /\ UNCHANGED <<now, notified, s_state, updates, pc, now_us, cooldown, events,
                       window, muddled, fell>>
    BY <1>9 DEF Disable
  <2>4. muddled' \in BOOLEAN
    BY <1>3, <2>3, Zenon
  <2> QED
    BY <1>2, <1>3, <1>5, <2>2, <2>3, <2>4
<1>10. CASE Start(a)
  <2> DEFINE until == now + s_state["warmup_ms"]
             q == StartPlan(until)
  <2>1. until \in Nat /\ window' \in {0, until}
    BY <1>1, <1>10 DEF Start, Words
  <2>2. q = <<StoreUntil(until), StoreLast(0), Store("started", 1)>>
    BY DEF StartPlan
  <2>3. /\ apply' = Settled(a)
        /\ plan' = [plan EXCEPT ![a] = q]
        /\ revoked' = Judging /\ prev' = 0
        /\ UNCHANGED <<now, notified, s_state, updates, pc, now_us, cooldown, events,
                       muddled, fell>>
    BY <1>10 DEF Start
  <2> HIDE DEF q, until
  <2>4. /\ q \in Seq(SUBSET Stores)
        /\ \A i \in 1..Len(q) : \A w \in q[i] : w.word \in LastWords => w.value = 0
    BY <1>6, <1>7, <1>8, <2>1, <2>2
  <2>5. window' \in Nat
    BY <2>1
  <2>6. muddled' \in BOOLEAN
    BY <1>3, <2>3, Zenon
  <2> QED
    BY <1>2, <1>3, <1>5, <2>3, <2>4, <2>5, <2>6
<1>11. CASE KeepRunning(a)
  <2> DEFINE q == <<>>
  <2>1. plan' = [plan EXCEPT ![a] = q]
    BY <1>1, <1>11 DEF KeepRunning
  <2>2. q \in Seq(SUBSET Stores) /\ Len(q) = 0 /\ q = <<>>
    OBVIOUS
  <2> HIDE DEF q
  <2>3. /\ apply' = Settled(a)
        /\ UNCHANGED <<now, notified, s_state, updates, pc, now_us, cooldown, events,
                       fell, window, muddled, revoked, prev>>
    BY <1>11 DEF KeepRunning, worker
  <2>6. window' \in Nat /\ prev' \in 0..MaxTime /\ updates' \in 0..MaxUpdates
    BY <1>3, <2>3
  <2>7. revoked' \in BOOLEAN /\ muddled' \in BOOLEAN
    BY <1>3, <2>3, Zenon
  <2>8. \A i \in 1..Len(q) : FALSE
    BY <2>2
  <2>9. UNCHANGED <<now, notified, s_state, pc, now_us, cooldown, events, fell>>
    BY <2>3
  <2> QED
    BY <2>8, <2>9, <1>2, <1>5, <2>1, <2>2, <2>3, <2>6, <2>7
<1>12. CASE Leave(a)
  <2> DEFINE q == <<>>
  <2>1. plan' = [plan EXCEPT ![a] = q]
    BY <1>1, <1>12 DEF Leave
  <2>2. q \in Seq(SUBSET Stores) /\ Len(q) = 0 /\ q = <<>>
    OBVIOUS
  <2> HIDE DEF q
  <2> DEFINE e == IF a = "main" THEN [Ready EXCEPT !.at = "done"] ELSE Ready
  <2>3. /\ apply' = [apply EXCEPT ![a] = e]
        /\ UNCHANGED <<now, notified, s_state, updates, pc, now_us, cooldown, events,
                       fell, window, muddled, revoked, prev>>
    BY <1>12 DEF Leave, worker
  <2>4. e \in Entries /\ e.at \in {"ready", "done"}
    <3>1. (CHOOSE s \in Settings : TRUE) \in Settings
      BY MotionAssumption
    <3> QED
      BY <3>1 DEF Ready
  <2> HIDE DEF e
  <2>5. /\ apply' \in [Appliers -> Entries] /\ apply'[a] = e
        /\ \A b \in Appliers : b # a => apply'[b] = apply[b]
    BY <1>1, <2>3, <2>4
  <2>6. window' \in Nat /\ prev' \in 0..MaxTime /\ updates' \in 0..MaxUpdates
    BY <1>3, <2>3
  <2>7. revoked' \in BOOLEAN /\ muddled' \in BOOLEAN
    BY <1>3, <2>3, Zenon
  <2>8. \A i \in 1..Len(q) : FALSE
    BY <2>2
  <2>9. UNCHANGED <<now, notified, s_state, pc, now_us, cooldown, events, fell>>
    BY <2>3
  <2> QED
    BY <2>8, <2>9, <1>2, <2>1, <2>2, <2>3, <2>4, <2>5, <2>6, <2>7
<1> QED
  BY <1>4, <1>9, <1>10, <1>11, <1>12 DEF Apply

\* A step of the worker other than a store.
Rounds == Take \/ TestStarted \/ Sample \/ TestWarmup \/ ReadCooldown
          \/ TestTriggered \/ Ignore \/ Accept \/ Post \/ PostTimesOut

LEMMA RoundsTyped ==
    ASSUME Typed, Rounds
    PROVE  Typed'
<1>1. "worker" \in Doers /\ \A a \in Appliers : a \in Doers /\ a # "worker"
  BY DEF Doers, Appliers
<1>2. \A a \in Appliers : PlanOf(a)'
  <2>1. UNCHANGED apply /\ \A a \in Appliers : plan'[a] = plan[a]
    BY <1>1 DEF Rounds, Take, TestStarted, Sample, TestWarmup, ReadCooldown,
           TestTriggered, Ignore, Accept, Post, PostTimesOut, Goto, Again, Typed, TypeOK, Doers
  <2> QED
    BY <2>1 DEF Typed, Shape, PlanOf
<1>3. CASE ~Accept
  <2>1. UNCHANGED plan /\ plan["worker"] = <<>>
    <3>1. UNCHANGED plan
      BY <1>3 DEF Rounds, Take, TestStarted, Sample, TestWarmup, ReadCooldown,
                  TestTriggered, Ignore, Post, PostTimesOut
    <3>2. pc # "post" \/ plan["worker"] = <<>>
      BY <1>3 DEF Rounds, Take, TestStarted, Sample, TestWarmup, ReadCooldown,
                  TestTriggered, Ignore, Post, PostTimesOut
    <3> QED
      BY <3>1, <3>2 DEF Typed, Shape, WorkerPlan
  <2>2. WorkerPlan'
    BY <2>1 DEF WorkerPlan
  <2>3. TypeOK'
    <3>1. now \in 1..MaxTime /\ MaxTime \in Nat /\ s_state["cooldown_ms"] \in Nat
          /\ EventQueue \in Nat
      BY MotionAssumption DEF Typed, TypeOK, Words
    <3>2. notified' \in BOOLEAN
      <4>1. notified \in BOOLEAN
        BY DEF Typed, TypeOK
      <4>2. notified' = notified \/ notified' = FALSE
        BY <1>3, Zenon DEF Rounds, Take, TestStarted, Sample, TestWarmup,
           ReadCooldown, TestTriggered, Ignore, Post, PostTimesOut
      <4> QED
        BY <4>1, <4>2, Zenon
    <3>3. revoked' \in BOOLEAN
      <4>1. revoked \in BOOLEAN
        BY DEF Typed, TypeOK
      <4>2. CASE Sample
        BY <4>2, Zenon DEF Sample
      <4>3. CASE ~Sample
        <5>1. revoked' = revoked \/ revoked' = FALSE
          BY <1>3, <4>3, Zenon DEF Rounds, Take, TestStarted, TestWarmup,
             ReadCooldown, TestTriggered, Ignore, Post, PostTimesOut, Again, Judged,
             Goto, locals
        <5> QED
          BY <4>1, <5>1, Zenon
      <4> QED
        BY <4>2, <4>3
    <3> DEFINE Rest == /\ pc' \in {"take", "started", "sample", "warmup", "cooldown",
                                   "last", "since", "post"}
                       /\ now_us' \in 0..MaxTime /\ cooldown' \in Nat
                       /\ events' \in 0..EventQueue /\ prev' \in 0..MaxTime
                       /\ fell' \in {"off", "warming", "armed"}
                       /\ UNCHANGED <<now, s_state, apply, updates, window, muddled>>
    <3>4. Rest
      <4> USE DEF Typed, TypeOK, Goto, Again, Judged, locals
      <4>1. CASE Take
        BY <3>1, <4>1 DEF Take
      <4>2. CASE TestStarted
        BY <3>1, <4>2 DEF TestStarted
      <4>3. CASE Sample
        BY <3>1, <4>3 DEF Sample
      <4>4. CASE TestWarmup
        BY <3>1, <4>4 DEF TestWarmup
      <4>5. CASE ReadCooldown
        BY <3>1, <4>5 DEF ReadCooldown
      <4>6. CASE Ignore
        BY <3>1, <4>6 DEF Ignore
      <4>7. CASE Post
        BY <3>1, <4>7 DEF Post, Room
      <4>8. CASE PostTimesOut
        BY <3>1, <4>8 DEF PostTimesOut
      <4>9. CASE TestTriggered
        BY <3>1, <4>9 DEF TestTriggered
      <4> QED
        BY <1>3, <4>1, <4>2, <4>3, <4>4, <4>5, <4>6, <4>7, <4>8, <4>9 DEF Rounds
    <3> QED
      BY <2>1, <3>2, <3>3, <3>4 DEF Typed, TypeOK
  <2> QED
    BY <1>2, <2>2, <2>3 DEF Typed, Shape
<1>4. CASE Accept
  <2> DEFINE q == StoreLast(now_us)
  <2>1. /\ plan' = [plan EXCEPT !["worker"] = <<q>>] /\ pc' = "post"
        /\ UNCHANGED <<now, s_state, apply, updates, window, muddled, notified,
                       now_us, events>>
        /\ cooldown' = 0 /\ fell' = "off"
        /\ revoked' = FALSE /\ prev' \in {0, now_us}
    BY <1>4 DEF Accept, Goto, Judged, Trigger
  <2>2. q \in SUBSET Stores
    BY StoreTypes DEF Typed, TypeOK
  <2>3. StoreLast(now_us)' = q
    BY <2>1 DEF StoreLast, StoreTime, Store
  <2> HIDE DEF q
  <2>4. plan \in [Doers -> Seq(SUBSET Stores)] /\ <<q>> \in Seq(SUBSET Stores)
    BY <2>2 DEF Typed, TypeOK, Doers, Stores
  <2>5. plan' \in [Doers -> Seq(SUBSET Stores)] /\ plan'["worker"] = <<q>>
    BY <1>1, <2>1, <2>4
  <2>6. WorkerPlan'
    BY <2>1, <2>3, <2>5 DEF WorkerPlan
  <2>7. TypeOK'
    <3>1. prev' \in 0..MaxTime
      BY <2>1, MotionAssumption DEF Typed, TypeOK
    <3>2. revoked' \in BOOLEAN
      BY <2>1, Zenon
    <3> QED
      BY <2>1, <2>5, <3>1, <3>2 DEF Typed, TypeOK, Doers, Stores
  <2> QED
    BY <1>2, <2>6, <2>7 DEF Typed, Shape
<1> QED
  BY <1>3, <1>4

LEMMA OthersTyped ==
    ASSUME Typed, Tick \/ Edge \/ HandleEvent \/ UNCHANGED vars
    PROVE  Typed'
<1>1. TypeOK'
  <2>1. MaxTime \in Nat /\ EventQueue \in Nat
    BY MotionAssumption
  <2>2. CASE Tick
    BY <2>1, <2>2 DEF Tick, Typed, TypeOK, applying, worker
  <2>3. CASE Edge
    BY <2>1, <2>3 DEF Edge, Typed, TypeOK, applying, worker
  <2>4. CASE HandleEvent
    BY <2>1, <2>4 DEF HandleEvent, Typed, TypeOK, applying, worker
  <2>5. CASE UNCHANGED vars
    BY <2>5 DEF vars, Typed, TypeOK
  <2> QED
    BY <2>2, <2>3, <2>4, <2>5
<1>2. UNCHANGED <<apply, plan, pc, now_us>>
  BY DEF Tick, Edge, HandleEvent, vars, applying, worker
<1>3. StoreLast(now_us)' = StoreLast(now_us)
  BY <1>2 DEF StoreLast, StoreTime, Store
<1>4. Shape'
  BY <1>2, <1>3 DEF Typed, Shape, PlanOf, WorkerPlan
<1> QED
  BY <1>1, <1>4 DEF Typed

LEMMA NextSplit ==
    ASSUME [Next]_vars
    PROVE  \/ Tick \/ Edge \/ HandleEvent \/ UNCHANGED vars
           \/ Rounds \/ DoStore("worker")
           \/ \E a \in Appliers : Apply(a) \/ DoStore(a)
  BY DEF Next, Worker, Rounds

LEMMA TypedNext == Typed /\ [Next]_vars => Typed'
  BY NextSplit, OthersTyped, RoundsTyped, WorkerStoreTyped, ApplyTyped,
     ApplierStoreTyped

\* Every state of the detector is well typed.
THEOREM DetectorTypeCorrect == Spec => []TypeOK
<1>1. Typed => TypeOK
  BY DEF Typed
<1> QED
  BY <1>1, TypedInit, TypedNext, PTL DEF Spec
-----------------------------------------------------------------------------
(***************************************************************************)
(* The time of the last trigger, and the windows.                           *)
(***************************************************************************)
Sampled == pc \in {"warmup", "cooldown", "last", "since", "post"}
Horizon == IF Sampled THEN now_us ELSE now

SampledPast == Sampled => now_us \in 1..now

\* Each word of the last trigger is that of one past time, or zero.
LastInv ==
    IF plan["worker"] = <<>>
    THEN \E t \in 0..Horizon : \A v \in StoreLast(t) : s_state[v.word] \in {0, v.value}
    ELSE \A v \in StoreLast(now_us) \ plan["worker"][1] :
            s_state[v.word] \in {0, v.value}

\* No application is in the middle of disabling or starting the detector.
Quiet == \A a \in Appliers : apply[a].at = "leave" => plan[a] = <<>>

\* The last trigger is the one accepted before, or about to be.
CoolInv ==
    /\ Judging /\ ~revoked => Quiet
    /\ prev > 0 =>
          /\ Quiet
          /\ prev <= Horizon
          /\ IF plan["worker"] = <<>>
             THEN Last = prev
             ELSE /\ prev = now_us
                  /\ \A v \in StoreLast(now_us) \ plan["worker"][1] :
                        s_state[v.word] = v.value

WarmInv ==
    fell = "warming" /\ ~revoked =>
        /\ pc = "warmup" => now_us < Until
        /\ pc \notin {"cooldown", "last", "since"}

DetectorInv == Typed /\ SampledPast /\ LastInv /\ CoolInv /\ WarmInv

\* The two stores of a trigger time.
LEMMA LastStores ==
    ASSUME NEW t \in Nat
    PROVE  \E hi, lo \in Nat :
              /\ StoreLast(t) = {[word |-> "last_hi", value |-> hi],
                                 [word |-> "last_lo", value |-> lo]}
              /\ hi * WordSize \in Nat /\ hi * WordSize + lo = t
<1>1. PICK hi \in Nat, lo \in Nat : /\ hi = t \div WordSize /\ lo = t % WordSize
                                    /\ hi * WordSize \in Nat /\ hi * WordSize + lo = t
  BY TimeInWords
<1>2. StoreLast(t) = {[word |-> "last_hi", value |-> hi],
                      [word |-> "last_lo", value |-> lo]}
  BY <1>1 DEF StoreLast, StoreTime, Store
<1> QED
  BY <1>1, <1>2

LEMMA LastStoreWords ==
    ASSUME NEW t \in Nat, NEW v \in StoreLast(t), NEW u \in StoreLast(t)
    PROVE  /\ v.word \in Words /\ v.word \in LastWords
           /\ v.word = u.word => v = u
<1>1. PICK hi \in Nat, lo \in Nat :
              StoreLast(t) = {[word |-> "last_hi", value |-> hi],
                              [word |-> "last_lo", value |-> lo]}
  BY LastStores
<1> DEFINE h == [word |-> "last_hi", value |-> hi]
           l == [word |-> "last_lo", value |-> lo]
<1>2. h.word = "last_hi" /\ l.word = "last_lo"
  OBVIOUS
<1>3. (v = h \/ v = l) /\ (u = h \/ u = l)
  BY <1>1
<1> HIDE DEF h, l
<1>4. v.word = u.word => v = u
  BY <1>2, <1>3
<1>5. v.word \in Words /\ v.word \in LastWords
  BY <1>2, <1>3 DEF Words, LastWords
<1> QED
  BY <1>4, <1>5

LEMMA LastBound ==
    ASSUME NEW t \in Nat, s_state \in [Words -> Nat],
           \A v \in StoreLast(t) : s_state[v.word] \in {0, v.value}
    PROVE  Last \in Nat /\ Last <= t
<1>1. PICK hi \in Nat, lo \in Nat :
              /\ StoreLast(t) = {[word |-> "last_hi", value |-> hi],
                                 [word |-> "last_lo", value |-> lo]}
              /\ hi * WordSize \in Nat /\ hi * WordSize + lo = t
  BY LastStores
<1>2. s_state["last_hi"] \in {0, hi} /\ s_state["last_lo"] \in {0, lo}
  BY <1>1
<1>3. WordSize \in Nat
  BY MotionAssumption
<1>4. 0 * WordSize = 0
  BY <1>3
<1>5. s_state["last_hi"] * WordSize \in {0, hi * WordSize}
  BY <1>2, <1>4
<1> QED
  BY <1>1, <1>2, <1>5 DEF Last

\* What a store of an applier can be.
LEMMA ApplierStore ==
    ASSUME Typed, NEW a \in Appliers, DoStore(a)
    PROVE  \E w \in Stores :
              /\ s_state' = [s_state EXCEPT ![w.word] = w.value]
              /\ w.word \in LastWords => w.value = 0
              /\ apply[a].at = "branch" => w.word \in TimingWords
              /\ apply[a].at \in {"branch", "leave"} /\ plan[a] # <<>>
              /\ plan'["worker"] = plan["worker"]
              /\ \A b \in Appliers : b # a => plan'[b] = plan[b]
<1>1. a \in Doers /\ "worker" \in Doers /\ "worker" # a /\ Appliers \subseteq Doers
  BY DEF Doers, Appliers
<1>2. PICK w \in plan[a][1] :
              /\ w \in Stores /\ 1 \in 1..Len(plan[a])
              /\ s_state' = [s_state EXCEPT ![w.word] = w.value]
              /\ \A u \in Doers : u # a => plan'[u] = plan[u]
  BY <1>1, StoreStep DEF Typed
<1>3. /\ apply[a].at \in {"ready", "branch", "leave", "done"}
      /\ plan[a] # <<>>
  BY DEF Typed, TypeOK, DoStore
<1> QED
  BY <1>1, <1>2, <1>3 DEF Typed, Shape, PlanOf

LEMMA ApplierStoreInv ==
    ASSUME DetectorInv, NEW a \in Appliers, DoStore(a)
    PROVE  SampledPast' /\ LastInv' /\ CoolInv' /\ WarmInv'
<1>1. PICK w \in Stores :
              /\ s_state' = [s_state EXCEPT ![w.word] = w.value]
              /\ w.word \in LastWords => w.value = 0
              /\ apply[a].at = "branch" => w.word \in TimingWords
              /\ apply[a].at \in {"branch", "leave"} /\ plan[a] # <<>>
              /\ plan'["worker"] = plan["worker"]
              /\ \A b \in Appliers : b # a => plan'[b] = plan[b]
  BY ApplierStore DEF DetectorInv
<1>2. UNCHANGED <<now, notified, apply, updates, window, muddled, revoked, pc,
                  now_us, cooldown, fell, prev, events>>
  BY DEF DoStore, applying, worker
<1>3. /\ Sampled' = Sampled /\ Horizon' = Horizon /\ Judging' = Judging
      /\ \A t : StoreLast(t)' = StoreLast(t)
  BY <1>2 DEF Sampled, Horizon, Judging, StoreLast, StoreTime, Store
<1>4. /\ s_state \in [Words -> Nat] /\ w.word \in Words
      /\ \A x \in Words : s_state'[x] = IF x = w.word THEN w.value ELSE s_state[x]
  BY <1>1 DEF DetectorInv, Typed, TypeOK, Stores
<1>5. SampledPast'
  BY <1>2, <1>3 DEF DetectorInv, SampledPast
<1>6. ASSUME NEW t \in Nat, NEW v \in StoreLast(t)
      PROVE  v.word \in Words /\ v.word \in LastWords
  BY LastStoreWords
<1>7. now_us \in Nat /\ Horizon \in Nat
  BY MotionAssumption DEF DetectorInv, Typed, TypeOK, Horizon
<1>8. LastInv'
  <2>1. \A t \in Nat : \A v \in StoreLast(t) :
           s_state[v.word] \in {0, v.value} => s_state'[v.word] \in {0, v.value}
    BY <1>1, <1>4, <1>6
  <2>2. CASE plan["worker"] = <<>>
    BY <1>1, <1>2, <1>3, <1>7, <2>1, <2>2 DEF DetectorInv, LastInv
  <2>3. CASE plan["worker"] # <<>>
    BY <1>1, <1>2, <1>3, <1>7, <2>1, <2>3 DEF DetectorInv, LastInv
  <2> QED
    BY <2>2, <2>3
<1>9. CASE Quiet
  <2>1. w.word \in TimingWords /\ apply[a].at = "branch"
    BY <1>1, <1>9 DEF Quiet
  <2>2. \A x \in Words \ TimingWords : s_state'[x] = s_state[x]
    BY <1>4, <2>1
  <2>3. Last' = Last /\ Until' = Until
    BY <2>2 DEF Last, Until, Words, TimingWords
  <2>4. Quiet'
    BY <1>1, <1>2, <1>9, <2>1 DEF Quiet
  <2>5. \A t \in Nat : \A v \in StoreLast(t) : s_state'[v.word] = s_state[v.word]
    BY <1>6, <2>2 DEF LastWords, TimingWords
  <2>6. CoolInv'
    <3>1. (Judging /\ ~revoked => Quiet)'
      BY <2>4
    <3>2. ASSUME prev > 0, plan["worker"] = <<>>
          PROVE  prev <= Horizon /\ Last = prev
      BY <3>2 DEF DetectorInv, CoolInv
    <3>3. ASSUME prev > 0, plan["worker"] # <<>>
          PROVE  /\ prev <= Horizon /\ prev = now_us
                 /\ \A v \in StoreLast(now_us) \ plan["worker"][1] :
                       s_state'[v.word] = v.value
      <4>1. \A v \in StoreLast(now_us) \ plan["worker"][1] : s_state[v.word] = v.value
        BY <3>3 DEF DetectorInv, CoolInv
      <4> QED
        BY <1>7, <2>5, <3>3, <4>1 DEF DetectorInv, CoolInv
    <3> QED
      BY <1>1, <1>2, <1>3, <2>3, <2>4, <3>1, <3>2, <3>3 DEF CoolInv
  <2>7. WarmInv'
    BY <1>2, <2>3 DEF DetectorInv, WarmInv
  <2> QED
    BY <1>5, <1>8, <2>6, <2>7
<1>10. CASE ~Quiet
  <2>1. ~(prev > 0) /\ (Judging => revoked)
    BY <1>10 DEF DetectorInv, CoolInv
  <2>2. CoolInv'
    BY <1>2, <1>3, <2>1 DEF CoolInv
  <2>3. WarmInv'
    BY <1>2, <2>1 DEF DetectorInv, WarmInv, Judging
  <2> QED
    BY <1>5, <1>8, <2>2, <2>3
<1> QED
  BY <1>9, <1>10

LEMMA WorkerStoreInv ==
    ASSUME DetectorInv, DoStore("worker")
    PROVE  SampledPast' /\ LastInv' /\ CoolInv' /\ WarmInv'
<1>0. PICK g \in SUBSET StoreLast(now_us) : \E w \in g :
              /\ pc = "post" /\ plan["worker"] = <<g>> /\ w \in Stores
              /\ s_state' = [s_state EXCEPT ![w.word] = w.value]
              /\ plan'["worker"] = IF g = {w} THEN <<>> ELSE <<g \ {w}>>
              /\ \A a \in Appliers : plan'[a] = plan[a]
  BY WorkerStore DEF DetectorInv
<1>1. PICK w \in g :
              /\ pc = "post" /\ plan["worker"] = <<g>> /\ w \in Stores
              /\ s_state' = [s_state EXCEPT ![w.word] = w.value]
              /\ plan'["worker"] = IF g = {w} THEN <<>> ELSE <<g \ {w}>>
              /\ \A a \in Appliers : plan'[a] = plan[a]
  BY <1>0
<1>2. UNCHANGED <<now, notified, apply, updates, window, muddled, revoked, pc,
                  now_us, cooldown, fell, prev, events>>
  BY DEF DoStore, applying, worker
<1>3. /\ Sampled' = Sampled /\ Horizon' = Horizon /\ Horizon = now_us
      /\ \A t : StoreLast(t)' = StoreLast(t)
  BY <1>1, <1>2 DEF Sampled, Horizon, StoreLast, StoreTime, Store
<1>4. /\ s_state \in [Words -> Nat] /\ w.word \in Words /\ now_us \in Nat
      /\ \A x \in Words : s_state'[x] = IF x = w.word THEN w.value ELSE s_state[x]
  <2>1. s_state \in [Words -> Nat] /\ w.word \in Words
    BY <1>1 DEF DetectorInv, Typed, TypeOK, Stores
  <2>2. now_us \in Nat
    BY MotionAssumption DEF DetectorInv, Typed, TypeOK
  <2> QED
    BY <1>1, <2>1, <2>2
<1>5. \A v, u \in StoreLast(now_us) : /\ v.word \in Words
                                      /\ v.word = u.word => v = u
  BY <1>4, LastStoreWords
<1>6. plan["worker"] # <<>> /\ plan["worker"][1] = g
  BY <1>1
<1>7. SampledPast'
  BY <1>2, <1>3 DEF DetectorInv, SampledPast
<1>8. CASE g = {w}
  <2>1. plan'["worker"] = <<>>
    BY <1>1, <1>8
  <2>2. ASSUME NEW v \in StoreLast(now_us) PROVE s_state'[v.word] \in {0, v.value}
    <3>1. CASE v = w
      BY <1>4, <3>1
    <3>2. CASE v # w
      <4>1. v.word # w.word /\ s_state'[v.word] = s_state[v.word]
        BY <1>4, <1>5, <1>8, <3>2
      <4>2. s_state[v.word] \in {0, v.value}
        BY <1>6, <1>8, <3>2 DEF DetectorInv, LastInv
      <4> QED
        BY <4>1, <4>2
    <3> QED
      BY <3>1, <3>2
  <2>3. LastInv'
    <3>1. now_us \in 0..Horizon
      BY <1>3, <1>4
    <3> QED
      BY <1>2, <1>3, <2>1, <2>2, <3>1 DEF LastInv
  <2>4. ASSUME prev > 0 PROVE Last' = prev
    <3>1. prev = now_us /\ \A v \in StoreLast(now_us) \ g : s_state[v.word] = v.value
      BY <1>6, <2>4 DEF DetectorInv, CoolInv
    <3>2. \A v \in StoreLast(now_us) : s_state'[v.word] = v.value
      BY <1>4, <1>5, <1>8, <3>1
    <3>3. PICK hi \in Nat, lo \in Nat :
              /\ StoreLast(now_us) = {[word |-> "last_hi", value |-> hi],
                                      [word |-> "last_lo", value |-> lo]}
              /\ hi * WordSize + lo = now_us
      BY <1>4, LastStores
    <3>4. s_state'["last_hi"] = hi /\ s_state'["last_lo"] = lo
      BY <3>2, <3>3
    <3> QED
      BY <3>1, <3>3, <3>4 DEF Last
  <2> QED
    BY <1>1, <1>2, <1>3, <1>7, <2>1, <2>3, <2>4
       DEF DetectorInv, CoolInv, WarmInv, Quiet, Judging
<1>9. CASE g # {w}
  <2>1. plan'["worker"] = <<g \ {w}>> /\ plan'["worker"] # <<>>
        /\ plan'["worker"][1] = g \ {w}
    BY <1>1, <1>9
  <2>2. ASSUME NEW v \in StoreLast(now_us) \ (g \ {w})
        PROVE  /\ s_state'[v.word] \in {0, v.value}
               /\ prev > 0 => s_state'[v.word] = v.value
    <3>1. CASE v = w
      BY <1>4, <3>1
    <3>2. CASE v # w
      <4>1. v.word # w.word /\ s_state'[v.word] = s_state[v.word] /\ v \notin g
        BY <1>4, <1>5, <3>2
      <4>2. s_state[v.word] \in {0, v.value} /\ (prev > 0 => s_state[v.word] = v.value)
        BY <1>6, <4>1 DEF DetectorInv, LastInv, CoolInv
      <4> QED
        BY <4>1, <4>2
    <3> QED
      BY <3>1, <3>2
  <2>3. LastInv'
    BY <1>2, <1>3, <2>1, <2>2 DEF LastInv
  <2> QED
    BY <1>1, <1>2, <1>3, <1>6, <1>7, <2>1, <2>2, <2>3
       DEF DetectorInv, CoolInv, WarmInv, Quiet, Judging
<1> QED
  BY <1>8, <1>9

LEMMA ApplyInv ==
    ASSUME DetectorInv, NEW a \in Appliers, Apply(a)
    PROVE  SampledPast' /\ LastInv' /\ CoolInv' /\ WarmInv'
<1>1. /\ "worker" # a /\ apply \in [Appliers -> [at: {"ready", "branch", "leave", "done"},
                                   was_started: BOOLEAN, s: Settings]]
      /\ plan \in [Doers -> Seq(SUBSET Stores)]
      /\ a \in Doers /\ "worker" \in Doers /\ Appliers \subseteq Doers
  BY DEF DetectorInv, Typed, TypeOK, Doers, Stores, Appliers
<1>2. /\ UNCHANGED <<now, s_state, pc, now_us, cooldown, fell>>
      /\ plan'["worker"] = plan["worker"]
  <2>1. UNCHANGED <<now, s_state, pc, now_us, cooldown, fell>>
    BY DEF Apply, Enter, Disable, Start, KeepRunning, Leave, worker
  <2>2. \E q : plan' = [plan EXCEPT ![a] = q] \/ plan' = plan
    BY DEF Apply, Enter, Disable, Start, KeepRunning, Leave
  <2> QED
    BY <1>1, <2>1, <2>2
<1>3. /\ Sampled' = Sampled /\ Horizon' = Horizon /\ Judging' = Judging
      /\ Last' = Last /\ Until' = Until /\ \A t : StoreLast(t)' = StoreLast(t)
  BY <1>2 DEF Sampled, Horizon, Judging, Last, Until, StoreLast, StoreTime, Store
<1>4. SampledPast' /\ LastInv'
  BY <1>2, <1>3 DEF DetectorInv, SampledPast, LastInv
<1>5. CASE Disable(a) \/ Start(a)
  <2>1. revoked' = Judging /\ prev' = 0
    BY <1>5 DEF Disable, Start
  <2>2. CoolInv'
    BY <1>3, <2>1 DEF CoolInv
  <2>3. WarmInv'
    <3>1. CASE Judging
      BY <2>1, <3>1 DEF WarmInv
    <3>2. CASE ~Judging
      BY <1>2, <3>2 DEF WarmInv, Judging
    <3> QED
      BY <3>1, <3>2
  <2> QED
    BY <1>4, <2>2, <2>3
<1>6. CASE ~(Disable(a) \/ Start(a))
  <2>1. UNCHANGED <<revoked, prev>>
    BY <1>6 DEF Apply, Enter, KeepRunning, Leave, worker
  <2>2. Quiet => Quiet'
    <3>1. \A b \in Appliers : b # a => apply'[b] = apply[b] /\ plan'[b] = plan[b]
      BY <1>1, <1>6 DEF Apply, Enter, KeepRunning, Leave, Settled
    <3>2. ASSUME apply'[a].at = "leave" PROVE plan'[a] = <<>>
      <4>1. CASE KeepRunning(a)
        BY <4>1 DEF KeepRunning
      <4>2. CASE Leave(a)
        <5> DEFINE e == IF a = "main" THEN [Ready EXCEPT !.at = "done"] ELSE Ready
        <5>1. apply' = [apply EXCEPT ![a] = e]
          BY <4>2 DEF Leave
        <5>2. e.at # "leave"
          BY DEF Ready
        <5> HIDE DEF e
        <5> QED
          BY <1>1, <3>2, <5>1, <5>2
      <4>3. ASSUME NEW s \in Settings, Enter(a, s) PROVE FALSE
        <5> DEFINE e == [at |-> "branch", s |-> s,
                         was_started |-> s_state["started"] = 1]
        <5>1. apply' = [apply EXCEPT ![a] = e] /\ e.at # "leave"
          BY <4>3 DEF Enter
        <5> HIDE DEF e
        <5> QED
          BY <1>1, <3>2, <5>1
      <4> QED
        BY <1>6, <4>1, <4>2, <4>3 DEF Apply
    <3> QED
      BY <3>1, <3>2 DEF Quiet
  <2>3. CoolInv'
    BY <1>2, <1>3, <2>1, <2>2 DEF DetectorInv, CoolInv
  <2>4. WarmInv'
    BY <1>2, <1>3, <2>1 DEF DetectorInv, WarmInv
  <2> QED
    BY <1>4, <2>3, <2>4
<1> QED
  BY <1>5, <1>6

LEMMA OthersInv ==
    ASSUME DetectorInv, Tick \/ Edge \/ HandleEvent \/ UNCHANGED vars
    PROVE  SampledPast' /\ LastInv' /\ CoolInv' /\ WarmInv'
<1>1. /\ UNCHANGED <<s_state, apply, plan, pc, now_us, cooldown, fell, revoked, prev>>
      /\ now' = now \/ now' = now + 1
  BY DEF Tick, Edge, HandleEvent, vars, applying, worker
<1>2. now \in Nat /\ now_us \in Nat
  BY MotionAssumption DEF DetectorInv, Typed, TypeOK
<1>3. /\ Sampled' = Sampled /\ Judging' = Judging /\ Quiet' = Quiet
      /\ Last' = Last /\ Until' = Until /\ \A t : StoreLast(t)' = StoreLast(t)
  BY <1>1 DEF Sampled, Judging, Quiet, Last, Until, StoreLast, StoreTime, Store
<1>4. Horizon' \in Nat /\ Horizon \in Nat /\ Horizon <= Horizon'
  BY <1>1, <1>2 DEF Horizon, Sampled
<1>5. SampledPast'
  BY <1>1, <1>2, <1>3 DEF DetectorInv, SampledPast
<1>6. LastInv'
  <2>1. \A t \in 0..Horizon : t \in 0..Horizon'
    BY <1>4
  <2>2. CASE plan["worker"] = <<>>
    BY <1>1, <1>3, <2>1, <2>2 DEF DetectorInv, LastInv
  <2>3. CASE plan["worker"] # <<>>
    BY <1>1, <1>3, <2>3 DEF DetectorInv, LastInv
  <2> QED
    BY <2>2, <2>3
<1>7. CoolInv'
  <2>1. prev \in Nat
    BY MotionAssumption DEF DetectorInv, Typed, TypeOK
  <2>2. prev > 0 => prev <= Horizon'
    BY <1>4, <2>1 DEF DetectorInv, CoolInv
  <2> QED
    BY <1>1, <1>3, <2>2 DEF DetectorInv, CoolInv
<1>8. WarmInv'
  BY <1>1, <1>3 DEF DetectorInv, WarmInv
<1> QED
  BY <1>5, <1>6, <1>7, <1>8

LEMMA RoundsInv ==
    ASSUME DetectorInv, Rounds
    PROVE  SampledPast' /\ LastInv' /\ CoolInv' /\ WarmInv'
<1>1. UNCHANGED <<now, s_state, apply>>
  BY DEF Rounds, Take, TestStarted, Sample, TestWarmup, ReadCooldown,
         TestTriggered, Ignore, Accept, Post, PostTimesOut, Goto, Again
<1>2. /\ now \in Nat /\ now >= 1 /\ now_us \in Nat /\ prev \in Nat
      /\ cooldown \in Nat /\ s_state \in [Words -> Nat]
  BY MotionAssumption DEF DetectorInv, Typed, TypeOK
<1>3. /\ Last' = Last /\ Until' = Until /\ \A t : (StoreLast(t))' = StoreLast(t')
  BY <1>1 DEF Last, Until, StoreLast, StoreTime, Store
<1>4. CASE ~Accept
  <2>1. UNCHANGED plan /\ plan["worker"] = <<>>
    <3>1. UNCHANGED plan
      BY <1>4 DEF Rounds, Take, TestStarted, Sample, TestWarmup, ReadCooldown,
                  TestTriggered, Ignore, Post, PostTimesOut
    <3>2. pc # "post" \/ plan["worker"] = <<>>
      BY <1>4 DEF Rounds, Take, TestStarted, Sample, TestWarmup, ReadCooldown,
                  TestTriggered, Ignore, Post, PostTimesOut
    <3> QED
      BY <3>1, <3>2 DEF DetectorInv, Typed, Shape, WorkerPlan
  <2>2. Quiet' = Quiet /\ UNCHANGED prev
    BY <1>1, <1>4, <2>1 DEF Quiet, Rounds, Take, TestStarted, Sample, TestWarmup,
       ReadCooldown, TestTriggered, Ignore, Post, PostTimesOut, locals
  \* In every such step the horizon moves on.
  <2>3. /\ Horizon <= Horizon' /\ Horizon \in Nat /\ Horizon' \in Nat
        /\ SampledPast'
    <3> USE <1>1, <1>2 DEF DetectorInv, SampledPast, Sampled, Horizon, Goto, Again, locals
    <3>1. CASE Take
      BY <3>1 DEF Take
    <3>2. CASE TestStarted
      BY <3>2 DEF TestStarted
    <3>3. CASE Sample
      BY <3>3 DEF Sample
    <3>4. CASE TestWarmup
      BY <3>4 DEF TestWarmup
    <3>5. CASE ReadCooldown
      BY <3>5 DEF ReadCooldown
    <3>6. CASE Ignore
      BY <3>6 DEF Ignore
    <3>7. CASE Post
      BY <3>7 DEF Post
    <3>8. CASE PostTimesOut
      BY <3>8 DEF PostTimesOut
    <3>9. CASE TestTriggered
      BY <3>9 DEF TestTriggered
    <3> QED
      BY <1>4, <3>1, <3>2, <3>3, <3>4, <3>5, <3>6, <3>7, <3>8, <3>9 DEF Rounds
  <2>4. LastInv'
    <3>1. PICK t \in 0..Horizon : \A v \in StoreLast(t) : s_state[v.word] \in {0, v.value}
      BY <2>1 DEF DetectorInv, LastInv
    <3>2. t \in 0..Horizon'
      BY <2>3, <3>1
    <3> QED
      BY <1>1, <2>1, <3>1, <3>2 DEF LastInv, StoreLast, StoreTime, Store
  <2>5. (Judging /\ ~revoked => Quiet)'
    <3>1. CASE Sample
      <4>1. revoked' = \E a \in Appliers : apply[a].at = "leave" /\ plan[a] # <<>>
        BY <3>1 DEF Sample
      <4>2. ~revoked' => Quiet
        BY <4>1 DEF Quiet
      <4> QED
        BY <2>2, <4>2
    <3>2. CASE ~Sample
      <4>1. Judging' => Judging /\ revoked' = revoked
        BY <1>4, <3>2 DEF Rounds, Take, TestStarted, TestWarmup, ReadCooldown,
           TestTriggered, Ignore, Post, PostTimesOut, Judging, Goto, Again, Judged, locals
      <4> QED
        BY <2>2, <4>1 DEF DetectorInv, CoolInv
    <3> QED
      BY <3>1, <3>2
  <2>6. CoolInv'
    <3>1. prev > 0 => Quiet /\ prev <= Horizon' /\ Last = prev
      BY <1>2, <2>1, <2>3 DEF DetectorInv, CoolInv
    <3> QED
      BY <1>3, <2>1, <2>2, <2>5, <3>1 DEF CoolInv
  <2>7. WarmInv'
    <3>1. CASE Sample
      <4>1. fell' = "warming" => now_us' < Until
        BY <3>1 DEF Sample
      <4>2. pc' = "warmup"
        BY <3>1 DEF Sample, Goto
      <4> QED
        BY <1>3, <4>1, <4>2 DEF WarmInv
    <3>2. CASE TestWarmup
      <4>1. CASE Warming
        BY <3>2, <4>1 DEF TestWarmup, Again, Judged, WarmInv
      <4>2. CASE ~Warming
        <5>1. fell' = "warming" /\ ~revoked' => FALSE
          BY <3>2, <4>2 DEF TestWarmup, Warming, locals, DetectorInv, WarmInv
        <5> QED
          BY <5>1 DEF WarmInv
      <4> QED
        BY <4>1, <4>2
    <3>3. CASE \/ Take \/ TestStarted \/ ReadCooldown \/ TestTriggered \/ Ignore
               \/ Post \/ PostTimesOut
      BY <3>3 DEF Take, TestStarted, ReadCooldown, TestTriggered, Ignore, Post,
                  PostTimesOut, Goto, Again, Judged, locals, DetectorInv, WarmInv
    <3> QED
      BY <1>4, <3>1, <3>2, <3>3 DEF Rounds
  <2> QED
    BY <2>3, <2>4, <2>6, <2>7
<1>5. CASE Accept
  <2> DEFINE q == StoreLast(now_us)
  <2>1. /\ plan' = [plan EXCEPT !["worker"] = <<q>>] /\ pc' = "post"
        /\ pc \in {"last", "since"} /\ UNCHANGED now_us /\ fell' = "off"
        /\ prev' = IF revoked THEN 0 ELSE now_us
    BY <1>5 DEF Accept, Goto, Judged, Trigger
  <2>2. /\ plan'["worker"] = <<q>> /\ plan'["worker"] # <<>> /\ plan'["worker"][1] = q
        /\ \A a \in Appliers : plan'[a] = plan[a]
    BY <2>1 DEF DetectorInv, Typed, TypeOK, Appliers
  <2>3. q' = q
    BY <2>1 DEF StoreLast, StoreTime, Store
  <2> HIDE DEF q
  <2>4. q \ plan'["worker"][1] = {}
    BY <2>2
  <2>5. LastInv'
    BY <2>2, <2>3, <2>4 DEF LastInv, q
  <2>6. SampledPast'
    BY <1>1, <2>1 DEF DetectorInv, SampledPast, Sampled
  <2>7. prev' > 0 => Quiet /\ prev' = now_us
    BY <1>2, <2>1 DEF DetectorInv, CoolInv, Judging
  <2>8. Quiet => Quiet'
    BY <1>1, <2>2 DEF Quiet
  <2>9. Horizon' = now_us /\ ~Judging'
    BY <2>1 DEF Horizon, Sampled, Judging
  <2>10. CoolInv'
    BY <1>2, <2>1, <2>2, <2>3, <2>4, <2>7, <2>8, <2>9 DEF CoolInv, q
  <2>11. WarmInv'
    BY <2>1 DEF WarmInv
  <2> QED
    BY <2>5, <2>6, <2>10, <2>11
<1> QED
  BY <1>4, <1>5

LEMMA DetectorInit == Init => DetectorInv
<1> SUFFICES ASSUME Init PROVE DetectorInv
  OBVIOUS
<1>1. /\ pc = "take" /\ now = 1 /\ prev = 0 /\ fell = "off" /\ plan["worker"] = <<>>
      /\ s_state["last_hi"] = 0 /\ s_state["last_lo"] = 0
  BY DEF Init, Words, Appliers
<1>2. Typed
  BY TypedInit
<1>3. LastInv
  <2>1. \A v \in StoreLast(0) : s_state[v.word] = 0
    BY <1>1, LastStoreWords DEF LastWords
  <2>2. 0 \in 0..Horizon
    BY <1>1 DEF Horizon, Sampled
  <2> QED
    BY <1>1, <2>1, <2>2 DEF LastInv
<1> QED
  BY <1>1, <1>2, <1>3 DEF DetectorInv, SampledPast, Sampled, CoolInv, WarmInv, Judging

LEMMA DetectorNext == DetectorInv /\ [Next]_vars => DetectorInv'
<1> SUFFICES ASSUME DetectorInv, [Next]_vars PROVE DetectorInv'
  OBVIOUS
<1>1. Typed'
  BY TypedNext DEF DetectorInv
<1>2. SampledPast' /\ LastInv' /\ CoolInv' /\ WarmInv'
  BY NextSplit, OthersInv, RoundsInv, WorkerStoreInv, ApplyInv, ApplierStoreInv
<1> QED
  BY <1>1, <1>2 DEF DetectorInv

LEMMA DetectorAlways == Spec => []DetectorInv
  BY DetectorInit, DetectorNext, PTL DEF Spec

\* The cooldown is never measured from a moment still to come, however the
\* stores of a trigger and of an update are interleaved.
THEOREM TriggerIsPast == Spec => []LastTriggerIsPast
<1>1. DetectorInv => LastTriggerIsPast
  <2> SUFFICES ASSUME DetectorInv, pc \in {"last", "since"} PROVE Last <= now_us
    BY DEF LastTriggerIsPast
  <2>1. plan["worker"] = <<>> /\ Horizon = now_us /\ now_us \in Nat
        /\ s_state \in [Words -> Nat]
    BY MotionAssumption
       DEF DetectorInv, Typed, TypeOK, Shape, WorkerPlan, Horizon, Sampled
  <2>2. PICK t \in 0..now_us : \A v \in StoreLast(t) : s_state[v.word] \in {0, v.value}
    BY <2>1 DEF DetectorInv, LastInv
  <2>3. Last \in Nat /\ Last <= t
    BY <2>1, <2>2, LastBound
  <2> QED
    BY <2>1, <2>2, <2>3
<1> QED
  BY <1>1, DetectorAlways, PTL

\* Two accepted triggers are the cooldown apart, unless the detector was
\* disabled or started between them.
THEOREM CooldownKept == Spec => CooldownRespected
<1>1. DetectorInv /\ [Next]_vars =>
        [Accept /\ prev > 0 /\ ~revoked => now_us - prev >= cooldown]_vars
  <2> SUFFICES ASSUME DetectorInv, Accept, prev > 0, ~revoked
               PROVE  now_us - prev >= cooldown
    OBVIOUS
  <2>1. \/ pc = "last" /\ ~Triggered
        \/ pc = "since" /\ ~Cooling
    BY DEF Accept
  <2>2. plan["worker"] = <<>> /\ Horizon = now_us /\ now_us \in Nat
        /\ prev \in Nat /\ cooldown \in Nat
    BY <2>1, MotionAssumption
       DEF DetectorInv, Typed, TypeOK, Shape, WorkerPlan, Horizon, Sampled
  <2>3. Last = prev /\ prev <= now_us
    BY <2>2 DEF DetectorInv, CoolInv
  <2> QED
    BY <2>1, <2>2, <2>3 DEF Triggered, Cooling
<1> QED
  BY <1>1, DetectorAlways, PTL DEF Spec, CooldownRespected

\* A trigger that falls in the warm-up window is not accepted, unless an
\* update disables or starts the detector before it is judged.
THEOREM WarmupKept == Spec => WarmupRespected
<1>1. DetectorInv /\ [Next]_vars => [Accept => fell # "warming" \/ revoked]_vars
  <2> SUFFICES ASSUME DetectorInv, Accept PROVE fell # "warming" \/ revoked
    OBVIOUS
  <2> QED
    BY DEF Accept, DetectorInv, WarmInv
<1> QED
  BY <1>1, DetectorAlways, PTL DEF Spec, WarmupRespected
-----------------------------------------------------------------------------
(***************************************************************************)
(* The warm-up window.  Where no two applications have overlapped since one *)
(* of them found the detector off, only one task applies at a time, and the *)
(* order of its stores keeps the detector from being seen started without   *)
(* its window.  An overlap is forgotten when an application enters alone    *)
(* and finds the detector off: it is the only one to store, and a detector  *)
(* that is off has no window to be wrong about.                             *)
(***************************************************************************)
Alone == \A a, b \in Appliers : Inside(a) /\ Inside(b) => a = b

NotStarted == s_state["started"] # 1

\* What is left of the plan of a disable or a start, and what has been done.
LeaveForm(p) ==
    \/ p = <<>>
    \/ p = DisablePlan
    \/ /\ NotStarted
       /\ \E g \in SUBSET StoreUntil(0) : p = <<g, StoreLast(0)>>
    \/ NotStarted /\ \E g \in SUBSET StoreLast(0) : p = <<g>>
    \/ /\ NotStarted
       /\ \E g \in SUBSET StoreUntil(window) :
             /\ p = <<g, StoreLast(0), Store("started", 1)>>
             /\ \A v \in StoreUntil(window) \ g : s_state[v.word] = v.value
    \/ /\ NotStarted /\ Until = window
       /\ \E g \in SUBSET StoreLast(0) : p = <<g, Store("started", 1)>>
    \/ NotStarted /\ Until = window /\ p = <<Store("started", 1)>>

Orderly ==
    /\ Alone
    /\ s_state["started"] = 1 => Until = window
    /\ \A a \in Appliers :
          /\ apply[a].at = "branch" => (apply[a].was_started <=> ~NotStarted)
          /\ apply[a].at = "leave" => LeaveForm(plan[a])

WindowInv == Typed /\ (~muddled => Orderly)

LEMMA UntilStores ==
    ASSUME NEW t \in Nat
    PROVE  \E hi, lo \in Nat :
              /\ StoreUntil(t) = {[word |-> "until_hi", value |-> hi],
                                  [word |-> "until_lo", value |-> lo]}
              /\ hi * WordSize + lo = t
<1>1. PICK hi \in Nat, lo \in Nat : /\ hi = t \div WordSize /\ lo = t % WordSize
                                    /\ hi * WordSize + lo = t
  BY TimeInWords
<1>2. StoreUntil(t) = {[word |-> "until_hi", value |-> hi],
                       [word |-> "until_lo", value |-> lo]}
  BY <1>1 DEF StoreUntil, StoreTime, Store
<1> QED
  BY <1>1, <1>2

UntilWords == {"until_hi", "until_lo"}

LEMMA UntilStoreWords ==
    ASSUME NEW t \in Nat, NEW v \in StoreUntil(t), NEW u \in StoreUntil(t)
    PROVE  v.word \in UntilWords /\ (v.word = u.word => v = u)
<1>1. PICK hi \in Nat, lo \in Nat :
              StoreUntil(t) = {[word |-> "until_hi", value |-> hi],
                               [word |-> "until_lo", value |-> lo]}
  BY UntilStores
<1> DEFINE h == [word |-> "until_hi", value |-> hi]
           l == [word |-> "until_lo", value |-> lo]
<1>2. h.word = "until_hi" /\ l.word = "until_lo"
  OBVIOUS
<1>3. (v = h \/ v = l) /\ (u = h \/ u = l)
  BY <1>1
<1> HIDE DEF h, l
<1>4. v.word = u.word => v = u
  BY <1>2, <1>3
<1>5. v.word \in UntilWords
  BY <1>2, <1>3 DEF UntilWords
<1> QED
  BY <1>4, <1>5

LEMMA UntilExact ==
    ASSUME NEW t \in Nat, \A v \in StoreUntil(t) : s_state'[v.word] = v.value
    PROVE  Until' = t
<1>1. PICK hi \in Nat, lo \in Nat :
              /\ StoreUntil(t) = {[word |-> "until_hi", value |-> hi],
                                  [word |-> "until_lo", value |-> lo]}
              /\ hi * WordSize + lo = t
  BY UntilStores
<1>2. s_state'["until_hi"] = hi /\ s_state'["until_lo"] = lo
  BY <1>1
<1> QED
  BY <1>1, <1>2 DEF Until

\* What is left of plans of three, two and one groups after a store.
LEMMA TwoTail == ASSUME NEW A, NEW B PROVE Tail(<<A, B>>) = <<B>> /\ <<A, B>>[1] = A
  OBVIOUS

LEMMA ThreeTail ==
    ASSUME NEW A, NEW B, NEW C PROVE Tail(<<A, B, C>>) = <<B, C>> /\ <<A, B, C>>[1] = A
  OBVIOUS

LEMMA TwoLess == ASSUME NEW A, NEW B, NEW x PROVE [<<A, B>> EXCEPT ![1] = x] = <<x, B>>
  OBVIOUS

LEMMA ThreeLess ==
    ASSUME NEW A, NEW B, NEW C, NEW x
    PROVE  [<<A, B, C>> EXCEPT ![1] = x] = <<x, B, C>>
  OBVIOUS

LEMMA AfterOne ==
    ASSUME NEW A, NEW w
    PROVE  After(<<A>>, w) = IF A = {w} THEN <<>> ELSE <<A \ {w}>>
  BY OneGroup, OneGroupLess DEF After

LEMMA AfterTwo ==
    ASSUME NEW A, NEW B, NEW w
    PROVE  After(<<A, B>>, w) = IF A = {w} THEN <<B>> ELSE <<A \ {w}, B>>
<1> DEFINE p == <<A, B>>
<1>1. p[1] = A /\ Tail(p) = <<B>>
  BY TwoTail
<1>2. [p EXCEPT ![1] = A \ {w}] = <<A \ {w}, B>>
  BY TwoLess
<1>3. After(p, w) = IF p[1] = {w} THEN Tail(p) ELSE [p EXCEPT ![1] = p[1] \ {w}]
  BY DEF After
<1> HIDE DEF p
<1>4. After(p, w) = IF A = {w} THEN <<B>> ELSE <<A \ {w}, B>>
  BY <1>1, <1>2, <1>3
<1> QED
  BY <1>4 DEF p

LEMMA AfterThree ==
    ASSUME NEW A, NEW B, NEW C, NEW w
    PROVE  After(<<A, B, C>>, w) = IF A = {w} THEN <<B, C>> ELSE <<A \ {w}, B, C>>
<1> DEFINE p == <<A, B, C>>
<1>1. p[1] = A /\ Tail(p) = <<B, C>>
  BY ThreeTail
<1>2. [p EXCEPT ![1] = A \ {w}] = <<A \ {w}, B, C>>
  BY ThreeLess
<1>3. After(p, w) = IF p[1] = {w} THEN Tail(p) ELSE [p EXCEPT ![1] = p[1] \ {w}]
  BY DEF After
<1> HIDE DEF p
<1>4. After(p, w) = IF A = {w} THEN <<B, C>> ELSE <<A \ {w}, B, C>>
  BY <1>1, <1>2, <1>3
<1> QED
  BY <1>4 DEF p

\* What does not touch the detector's flag, its window or an application
\* keeps the invariant.
LEMMA WindowInvKept ==
    ASSUME WindowInv, Typed', UNCHANGED <<apply, window, muddled>>,
           \A x \in {"started"} \cup UntilWords : s_state'[x] = s_state[x],
           \A a \in Appliers : apply[a].at = "leave" => plan'[a] = plan[a]
    PROVE  WindowInv'
<1> SUFFICES ASSUME ~muddled PROVE Orderly'
  BY DEF WindowInv
<1>0. Orderly
  BY DEF WindowInv
<1>1. Until' = Until /\ NotStarted' = NotStarted
  BY DEF Until, NotStarted, UntilWords
<1>2. window \in Nat
  BY DEF WindowInv, Typed, TypeOK
<1>3. /\ \A t : StoreUntil(t)' = StoreUntil(t') /\ StoreLast(t)' = StoreLast(t')
      /\ \A v : Store("started", v)' = Store("started", v')
      /\ DisablePlan' = DisablePlan
  BY DEF StoreUntil, StoreLast, StoreTime, Store, DisablePlan
<1>4. \A v \in StoreUntil(window) : s_state'[v.word] = s_state[v.word]
  BY <1>2, UntilStoreWords
<1>5. ASSUME NEW a \in Appliers, apply[a].at = "leave"
      PROVE  LeaveForm(plan[a])'
  <2> DEFINE p == plan[a]
  <2>1. LeaveForm(p)
    BY <1>0, <1>5 DEF Orderly
  <2>2. p' = p
    BY <1>5
  <2> HIDE DEF p
  <2>3. LeaveForm(p)'
    BY <1>1, <1>3, <1>4, <2>1, <2>2 DEF LeaveForm
  <2> QED
    BY <2>3 DEF p
<1>6. s_state'["started"] = 1 => Until' = window'
  BY <1>0, <1>1 DEF Orderly, UntilWords
<1>7. \A a \in Appliers : apply'[a].at = "branch" =>
                             (apply'[a].was_started <=> ~NotStarted')
  BY <1>0, <1>1 DEF Orderly
<1>8. Alone'
  BY <1>0 DEF Orderly, Alone, Inside
<1> QED
  BY <1>5, <1>6, <1>7, <1>8 DEF Orderly

LEMMA WindowInvApply ==
    ASSUME WindowInv, NEW a \in Appliers, Apply(a)
    PROVE  WindowInv'
<1>1. Typed'
  BY ApplyTyped DEF WindowInv
<1>2. /\ apply \in [Appliers -> [at: {"ready", "branch", "leave", "done"},
                                 was_started: BOOLEAN, s: Settings]]
      /\ plan \in [Doers -> Seq(SUBSET Stores)] /\ Appliers \subseteq Doers
  BY DEF WindowInv, Typed, TypeOK, Doers, Stores
<1>3. /\ UNCHANGED s_state /\ Until' = Until /\ NotStarted' = NotStarted
  BY DEF Apply, Enter, Disable, Start, KeepRunning, Leave, Until, NotStarted
<1>4. \A b \in Appliers : b # a => apply'[b] = apply[b] /\ plan'[b] = plan[b]
  BY <1>2 DEF Apply, Enter, Disable, Start, KeepRunning, Leave, Settled
<1> SUFFICES ASSUME ~muddled' PROVE Orderly'
  BY <1>1 DEF WindowInv
\* The other task is not in an application.
<1>5. /\ \A b \in Appliers : b # a => ~Inside(b)
      /\ s_state["started"] = 1 => ~muddled
  <2>1. CASE \E s \in Settings : Enter(a, s)
    BY <2>1 DEF Enter
  <2>2. CASE Disable(a) \/ Start(a) \/ KeepRunning(a) \/ Leave(a)
    <3>1. Inside(a) /\ ~muddled
      BY <2>2 DEF Disable, Start, KeepRunning, Leave, Inside
    <3> QED
      BY <3>1 DEF WindowInv, Orderly, Alone
  <2> QED
    BY <2>1, <2>2 DEF Apply
<1>6. /\ \A b \in Appliers : b # a => ~Inside(b)'
      /\ s_state["started"] = 1 => Until = window
  BY <1>4, <1>5 DEF WindowInv, Orderly, Inside
<1> SUFFICES /\ s_state["started"] = 1 => Until' = window'
             /\ apply'[a].at = "branch" => (apply'[a].was_started <=> ~NotStarted)
             /\ apply'[a].at = "leave" => LeaveForm(plan[a])'
  BY <1>3, <1>6 DEF Orderly, Alone, Inside
<1>7. ASSUME apply' = Settled(a)
      PROVE  apply'[a].at = "leave"
  BY <1>2, <1>7 DEF Settled, Ready
<1>8. CASE \E s \in Settings : Enter(a, s)
  <2>1. PICK s \in Settings : Enter(a, s)
    BY <1>8
  <2>2. /\ apply' = [apply EXCEPT ![a] = [at |-> "branch", s |-> s,
                                         was_started |-> s_state["started"] = 1]]
        /\ UNCHANGED window
    BY <2>1 DEF Enter
  <2>3. apply'[a].at = "branch" /\ (apply'[a].was_started <=> s_state["started"] = 1)
    BY <1>2, <2>2
  <2> QED
    BY <1>3, <1>6, <2>2, <2>3 DEF NotStarted
<1>9. CASE Disable(a)
  <2>1. apply' = Settled(a) /\ plan'[a] = DisablePlan /\ UNCHANGED window
    BY <1>2, <1>9 DEF Disable
  <2>2. LeaveForm(plan[a])'
    BY <2>1 DEF LeaveForm, DisablePlan, StoreUntil, StoreLast, StoreTime, Store
  <2> QED
    BY <1>3, <1>6, <1>7, <2>1, <2>2
<1>10. CASE KeepRunning(a)
  <2>1. apply' = Settled(a) /\ plan'[a] = <<>> /\ UNCHANGED window
    BY <1>2, <1>10 DEF KeepRunning
  <2>2. LeaveForm(plan[a])'
    BY <2>1 DEF LeaveForm
  <2> QED
    BY <1>3, <1>6, <1>7, <2>1, <2>2
<1>11. CASE Start(a)
  <2>1. /\ apply' = Settled(a) /\ apply[a].at = "branch" /\ ~muddled
        /\ plan'[a] = StartPlan(window') /\ ~apply[a].was_started
    BY <1>2, <1>11 DEF Start
  <2>2. NotStarted
    BY <2>1 DEF WindowInv, Orderly
  <2>3. LeaveForm(plan[a])'
    <3>1. plan'[a] = <<StoreUntil(window'), StoreLast(0), Store("started", 1)>>
      BY <2>1 DEF StartPlan
    <3>2. StoreUntil(window') \in SUBSET StoreUntil(window')
          /\ StoreUntil(window') \ StoreUntil(window') = {}
      OBVIOUS
    <3> QED
      BY <1>3, <2>2, <3>1, <3>2 DEF LeaveForm
  <2> QED
    BY <1>7, <2>1, <2>2, <2>3 DEF NotStarted
<1>12. CASE Leave(a)
  <2>1. /\ apply' = [apply EXCEPT ![a] = IF a = "main" THEN [Ready EXCEPT !.at = "done"]
                                         ELSE Ready]
        /\ UNCHANGED window
    BY <1>12 DEF Leave
  <2>2. apply'[a].at = IF a = "main" THEN "done" ELSE "ready"
    BY <1>2, <2>1 DEF Ready
  <2> QED
    BY <1>3, <1>6, <2>1, <2>2
<1> QED
  BY <1>8, <1>9, <1>10, <1>11, <1>12 DEF Apply

LEMMA WindowInvStore ==
    ASSUME WindowInv, NEW a \in Appliers, DoStore(a)
    PROVE  WindowInv'
<1>1. Typed'
  BY ApplierStoreTyped DEF WindowInv
<1>2. a \in Doers /\ Appliers \subseteq Doers /\ window \in Nat
  BY DEF Doers, WindowInv, Typed, TypeOK
<1>3. UNCHANGED <<apply, window, muddled>>
  BY DEF DoStore, applying
<1>4. PICK w \in plan[a][1] :
              /\ w \in Stores /\ 1 \in 1..Len(plan[a])
              /\ s_state' = [s_state EXCEPT ![w.word] = w.value]
              /\ plan'[a] = After(plan[a], w)
              /\ \A u \in Doers : u # a => plan'[u] = plan[u]
  BY <1>2, StoreStep DEF WindowInv, Typed
<1>5. /\ s_state \in [Words -> Nat] /\ w.word \in Words
      /\ \A x \in Words : s_state'[x] = IF x = w.word THEN w.value ELSE s_state[x]
      /\ "started" \in Words /\ UntilWords \subseteq Words
  BY <1>4 DEF WindowInv, Typed, TypeOK, Stores, Words, UntilWords
<1>6. /\ plan[a] # <<>>
      /\ apply[a].at \in {"ready", "branch", "leave", "done"}
      /\ apply[a].at \notin {"ready", "done"}
  BY DEF DoStore, WindowInv, Typed, TypeOK, Shape, PlanOf
<1>7. CASE apply[a].at = "branch"
  <2>1. w.word \in TimingWords
    BY <1>4, <1>7 DEF WindowInv, Typed, Shape, PlanOf
  <2>2. \A x \in {"started"} \cup UntilWords : s_state'[x] = s_state[x]
    BY <1>5, <2>1 DEF TimingWords, UntilWords
  <2>3. \A b \in Appliers : apply[b].at = "leave" => plan'[b] = plan[b]
    BY <1>2, <1>4, <1>7
  <2> QED
    BY <1>1, <1>3, <2>2, <2>3, WindowInvKept
<1>8. CASE apply[a].at = "leave"
  <2> SUFFICES ASSUME ~muddled PROVE Orderly'
    BY <1>1, <1>3 DEF WindowInv
  <2>0. Orderly
    BY DEF WindowInv
  <2>1. \A b \in Appliers : b # a => apply[b].at \notin {"branch", "leave"}
    BY <1>8, <2>0 DEF Orderly, Alone, Inside
  <2>2. Alone'
    BY <1>3, <2>0 DEF Orderly, Alone, Inside
  <2> DEFINE Windowed == s_state["started"] = 1 => Until = window
  <2> SUFFICES Windowed' /\ LeaveForm(plan[a])'
    BY <1>3, <1>8, <2>1, <2>2 DEF Orderly
  <2>3. ASSUME w.word \notin {"started"} \cup UntilWords
        PROVE  /\ Until' = Until /\ NotStarted' = NotStarted
               /\ Windowed'
    <3>1. \A x \in {"started"} \cup UntilWords : s_state'[x] = s_state[x]
      BY <1>5, <2>3
    <3> QED
      BY <1>3, <2>0, <3>1 DEF Until, NotStarted, Orderly, UntilWords
  <2>4. ASSUME w.word \in UntilWords, NotStarted
        PROVE  NotStarted' /\ Windowed'
    BY <1>5, <2>4 DEF NotStarted, UntilWords
  <2>5. CASE plan[a] = DisablePlan
    <3>1. /\ plan[a][1] = Store("started", 0)
          /\ After(plan[a], w) = IF plan[a][1] = {w}
                                 THEN <<StoreUntil(0), StoreLast(0)>>
                                 ELSE <<plan[a][1] \ {w}, StoreUntil(0), StoreLast(0)>>
      BY <2>5, ThreeTail, AfterThree DEF DisablePlan
    <3>2. w.word = "started" /\ w.value = 0 /\ plan[a][1] = {w}
      BY <1>4, <3>1 DEF Store
    <3>3. NotStarted'
      BY <1>5, <3>2 DEF NotStarted
    <3>4. plan'[a] = <<StoreUntil(0), StoreLast(0)>>
      BY <1>4, <3>1, <3>2
    <3>5. Windowed'
      BY <3>3 DEF NotStarted
    <3>6. StoreUntil(0) \in SUBSET StoreUntil(0)
      OBVIOUS
    <3> QED
      BY <3>3, <3>4, <3>5, <3>6 DEF LeaveForm
  <2>6. ASSUME NotStarted, NEW g \in SUBSET StoreUntil(0), plan[a] = <<g, StoreLast(0)>>
        PROVE  Windowed' /\ LeaveForm(plan[a])'
    <3>1. /\ w \in g
          /\ plan'[a] = IF g = {w} THEN <<StoreLast(0)>> ELSE <<g \ {w}, StoreLast(0)>>
      BY <1>4, <2>6, TwoTail, AfterTwo
    <3>2. w.word \in UntilWords
      BY <3>1, UntilStoreWords
    <3>3. NotStarted' /\ Windowed'
      BY <2>4, <2>6, <3>2
    <3>4. StoreLast(0) \in SUBSET StoreLast(0) /\ g \ {w} \in SUBSET StoreUntil(0)
      OBVIOUS
    <3> QED
      BY <3>1, <3>3, <3>4 DEF LeaveForm
  <2>7. ASSUME NotStarted, NEW g \in SUBSET StoreLast(0), plan[a] = <<g>>
        PROVE  Windowed' /\ LeaveForm(plan[a])'
    <3>1. w \in g /\ plan'[a] = IF g = {w} THEN <<>> ELSE <<g \ {w}>>
      BY <1>4, <2>7, OneGroup, AfterOne
    <3>2. w.word \in LastWords
      BY <3>1, LastStoreWords
    <3>3. NotStarted' /\ Windowed'
      BY <2>3, <2>7, <3>2 DEF LastWords, UntilWords
    <3>4. g \ {w} \in SUBSET StoreLast(0)
      OBVIOUS
    <3> QED
      BY <3>1, <3>3, <3>4 DEF LeaveForm
  <2>8. ASSUME NotStarted, NEW g \in SUBSET StoreUntil(window),
               plan[a] = <<g, StoreLast(0), Store("started", 1)>>,
               \A v \in StoreUntil(window) \ g : s_state[v.word] = v.value
        PROVE  Windowed' /\ LeaveForm(plan[a])'
    <3>1. /\ w \in g
          /\ plan'[a] = IF g = {w} THEN <<StoreLast(0), Store("started", 1)>>
                        ELSE <<g \ {w}, StoreLast(0), Store("started", 1)>>
      BY <1>4, <2>8, ThreeTail, AfterThree
    <3>2. w.word \in UntilWords /\ w \in StoreUntil(window)
      BY <1>2, <3>1, UntilStoreWords
    <3>3. NotStarted' /\ Windowed'
      BY <2>4, <2>8, <3>2
    <3>4. ASSUME NEW v \in StoreUntil(window) \ (g \ {w})
          PROVE  s_state'[v.word] = v.value
      <4>1. CASE v = w
        BY <1>5, <4>1
      <4>2. CASE v # w
        <5>1. v.word \in UntilWords /\ v.word # w.word
          BY <1>2, <3>2, <4>2, UntilStoreWords
        <5>2. s_state'[v.word] = s_state[v.word]
          BY <1>5, <5>1
        <5> QED
          BY <2>8, <4>2, <5>2
      <4> QED
        BY <4>1, <4>2
    <3>5. CASE g = {w}
      <4>1. Until' = window
        BY <1>2, <3>4, <3>5, UntilExact
      <4>2. StoreLast(0) \in SUBSET StoreLast(0)
        OBVIOUS
      <4> QED
        BY <1>3, <3>1, <3>3, <3>5, <4>1, <4>2 DEF LeaveForm
    <3>6. CASE g # {w}
      <4>1. g \ {w} \in SUBSET StoreUntil(window)
        OBVIOUS
      <4>2. plan'[a] = <<g \ {w}, StoreLast(0), Store("started", 1)>>
        BY <3>1, <3>6
      <4> QED
        BY <1>3, <3>3, <3>4, <4>1, <4>2 DEF LeaveForm
    <3> QED
      BY <3>5, <3>6
  <2>9. ASSUME NotStarted, Until = window, NEW g \in SUBSET StoreLast(0),
               plan[a] = <<g, Store("started", 1)>>
        PROVE  Windowed' /\ LeaveForm(plan[a])'
    <3>1. /\ w \in g
          /\ plan'[a] = IF g = {w} THEN <<Store("started", 1)>>
                        ELSE <<g \ {w}, Store("started", 1)>>
      BY <1>4, <2>9, TwoTail, AfterTwo
    <3>2. w.word \in LastWords
      BY <3>1, LastStoreWords
    <3>3. NotStarted' /\ Windowed' /\ Until' = window'
      BY <1>3, <2>3, <2>9, <3>2 DEF LastWords, UntilWords
    <3>4. g \ {w} \in SUBSET StoreLast(0)
      OBVIOUS
    <3> QED
      BY <3>1, <3>3, <3>4 DEF LeaveForm
  <2>10. ASSUME NotStarted, Until = window, plan[a] = <<Store("started", 1)>>
         PROVE  Windowed' /\ LeaveForm(plan[a])'
    <3>1. w \in Store("started", 1) /\ Store("started", 1) = {w} /\ w.word = "started"
      BY <1>4, <2>10, OneGroup DEF Store
    <3>2. plan'[a] = <<>>
      BY <1>4, <2>10, <3>1, AfterOne
    <3>3. Until' = Until
      BY <1>5, <3>1 DEF Until, UntilWords
    <3> QED
      BY <1>3, <2>10, <3>2, <3>3 DEF LeaveForm
  <2> QED
    BY <1>6, <1>8, <2>0, <2>5, <2>6, <2>7, <2>8, <2>9, <2>10 DEF Orderly, LeaveForm
<1> QED
  BY <1>6, <1>7, <1>8

LEMMA WindowInvNext == WindowInv /\ [Next]_vars => WindowInv'
<1> SUFFICES ASSUME WindowInv, [Next]_vars PROVE WindowInv'
  OBVIOUS
<1>1. Typed'
  BY TypedNext DEF WindowInv
<1>2. CASE Tick \/ Edge \/ HandleEvent \/ UNCHANGED vars
  <2>1. UNCHANGED <<apply, window, muddled, s_state, plan>>
    BY <1>2 DEF Tick, Edge, HandleEvent, vars, applying
  <2> QED
    BY <1>1, <2>1, WindowInvKept
<1>3. CASE Rounds
  <2>1. UNCHANGED <<apply, window, muddled, s_state>>
    BY <1>3 DEF Rounds, Take, TestStarted, Sample, TestWarmup, ReadCooldown,
           TestTriggered, Ignore, Accept, Post, PostTimesOut, Goto, Again
  <2>2. \A a \in Appliers : plan'[a] = plan[a]
    <3>1. \A a \in Appliers : a \in Doers /\ a # "worker"
      BY DEF Appliers, Doers
    <3>2. plan \in [Doers -> Seq(SUBSET Stores)]
      BY DEF WindowInv, Typed, TypeOK, Doers, Stores
    <3>3. \E q : plan' = plan \/ plan' = [plan EXCEPT !["worker"] = q]
      BY <1>3 DEF Rounds, Take, TestStarted, Sample, TestWarmup, ReadCooldown,
           TestTriggered, Ignore, Accept, Post, PostTimesOut
    <3> QED
      BY <3>1, <3>2, <3>3
  <2> QED
    BY <1>1, <2>1, <2>2, WindowInvKept
<1>4. CASE DoStore("worker")
  <2>1. UNCHANGED <<apply, window, muddled>> /\ now_us \in Nat /\ s_state \in [Words -> Nat]
    BY <1>4, MotionAssumption DEF DoStore, applying, WindowInv, Typed, TypeOK
  <2>2. PICK g \in SUBSET StoreLast(now_us) : \E w \in g :
              /\ w \in Stores /\ s_state' = [s_state EXCEPT ![w.word] = w.value]
              /\ \A a \in Appliers : plan'[a] = plan[a]
    BY <1>4, WorkerStore DEF WindowInv
  <2>3. PICK w \in g :
              /\ w \in Stores /\ s_state' = [s_state EXCEPT ![w.word] = w.value]
              /\ \A a \in Appliers : plan'[a] = plan[a]
    BY <2>2
  <2>4. w.word \in LastWords
    BY <2>1, LastStoreWords
  <2>5. \A x \in {"started"} \cup UntilWords : s_state'[x] = s_state[x]
    BY <2>1, <2>3, <2>4 DEF LastWords, UntilWords, Words
  <2> QED
    BY <1>1, <2>1, <2>3, <2>5, WindowInvKept
<1>5. ASSUME NEW a \in Appliers, Apply(a) \/ DoStore(a) PROVE WindowInv'
  BY <1>5, WindowInvApply, WindowInvStore
<1> QED
  BY NextSplit, <1>2, <1>3, <1>4, <1>5

LEMMA WindowInvInit == Init => WindowInv
<1> SUFFICES ASSUME Init PROVE WindowInv
  OBVIOUS
<1>1. Typed
  BY TypedInit
<1>2. /\ apply["main"].at = "ready" /\ apply["mqtt"].at = "ready"
      /\ Appliers = {"main", "mqtt"} /\ s_state["started"] = 0
  BY DEF Init, Ready, Appliers, Words
<1> QED
  BY <1>1, <1>2 DEF WindowInv, Orderly, Alone, Inside

LEMMA WindowInvAlways == Spec => []WindowInv
  BY WindowInvInit, WindowInvNext, PTL DEF Spec

\* A detector that can be seen started has the warm-up window of its last
\* start, whole, unless a command and the end of the boot have overlapped and
\* no application has found the detector off and itself alone since.
THEOREM WindowOfItsStart == Spec => []StartedHasItsWindow
<1>1. WindowInv => StartedHasItsWindow
  BY DEF WindowInv, Orderly, StartedHasItsWindow
<1> QED
  BY <1>1, WindowInvAlways, PTL

(***************************************************************************)
(* What the rest of the firmware sees of the detector, word by word as it   *)
(* is stored, is the detector that ConfigCommand switches in one step, as   *)
(* long as no two applications overlap.                                     *)
(***************************************************************************)
Started == s_state["started"] = 1
Detector == IF ~Started THEN "off" ELSE IF now < Until THEN "warming" ELSE "armed"

\* A started detector keeps its window until it is seen off.
LEMMA WindowKept ==
    ASSUME WindowInv, WindowInv', [Next]_vars, ~muddled, Started, Started'
    PROVE  Until' = Until
<1>1. CASE Tick \/ Edge \/ HandleEvent \/ UNCHANGED vars
  BY <1>1 DEF Tick, Edge, HandleEvent, vars, applying, Until
<1>2. CASE Rounds
  BY <1>2 DEF Rounds, Take, TestStarted, Sample, TestWarmup, ReadCooldown,
     TestTriggered, Ignore, Accept, Post, PostTimesOut, Goto, Again, Until
<1>3. CASE \E t \in Doers : DoStore(t)
  <2>1. UNCHANGED <<window, muddled>>
    BY <1>3 DEF DoStore, applying
  <2>2. Until = window /\ Until' = window'
    BY <2>1 DEF WindowInv, Orderly, Started
  <2> QED
    BY <2>1, <2>2
<1>4. ASSUME NEW a \in Appliers, Apply(a) PROVE Until' = Until
  BY <1>4 DEF Apply, Enter, Disable, Start, KeepRunning, Leave, Until
<1>5. "worker" \in Doers /\ Appliers \subseteq Doers
  BY DEF Doers
<1> QED
  BY NextSplit, <1>1, <1>2, <1>3, <1>4, <1>5

\* The clock does not go back.
LEMMA ClockForward ==
    ASSUME Typed, Typed', [Next]_vars
    PROVE  now \in Nat /\ now' \in Nat /\ now <= now'
<1>1. now \in Nat /\ now' \in Nat
  BY MotionAssumption DEF Typed, TypeOK
<1>2. now' = now \/ now' = now + 1
  <2>1. CASE Tick
    BY <2>1 DEF Tick
  <2>2. CASE Edge \/ HandleEvent \/ UNCHANGED vars
    BY <2>2 DEF Edge, HandleEvent, vars
  <2>3. CASE Rounds
    BY <2>3 DEF Rounds, Take, TestStarted, Sample, TestWarmup, ReadCooldown,
                TestTriggered, Ignore, Accept, Post, PostTimesOut, Goto, Again
  <2>4. CASE \E t \in Doers : DoStore(t)
    BY <2>4 DEF DoStore
  <2>5. CASE \E a \in Appliers : Apply(a)
    BY <2>5 DEF Apply, Enter, Disable, Start, KeepRunning, Leave
  <2>6. "worker" \in Doers /\ Appliers \subseteq Doers
    BY DEF Doers
  <2> QED
    BY NextSplit, <2>1, <2>2, <2>3, <2>4, <2>5, <2>6
<1> QED
  BY <1>1, <1>2

\* Where no two applications overlap, no update and no interleaving of the
\* stores of one moves the window of a running detector, so an armed one never
\* warms up again without having been off (motion_detection.c:99-102).  What
\* an overlap may do is not promised, and once it is forgotten the promise
\* holds again.
THEOREM ArmedStaysArmed ==
    Spec => [][~muddled => /\ Started /\ Started' => Until' = Until
                           /\ Detector = "armed" => Detector' # "warming"]_vars
<1>1. ASSUME WindowInv, WindowInv', [Next]_vars, ~muddled
      PROVE  /\ Started /\ Started' => Until' = Until
             /\ Detector = "armed" => Detector' # "warming"
  <2>1. Started /\ Started' => Until' = Until
    BY <1>1, WindowKept
  <2>2. now \in Nat /\ now' \in Nat /\ now <= now'
    BY <1>1, ClockForward DEF WindowInv
  <2>3. ASSUME Detector = "armed", Detector' = "warming" PROVE FALSE
    <3>1. Started /\ ~(now < Until)
      BY <2>3 DEF Detector
    <3>2. Started' /\ now' < Until'
      BY <2>3 DEF Detector
    <3>3. Until \in Nat
      BY <1>1, <3>1 DEF WindowInv, Orderly, Started, Typed, TypeOK
    <3> HIDE DEF Until
    <3> QED
      BY <2>1, <2>2, <3>1, <3>2, <3>3
  <2> QED
    BY <2>1, <2>3
<1>2. WindowInv /\ WindowInv' /\ [Next]_vars =>
        [~muddled => /\ Started /\ Started' => Until' = Until
                     /\ Detector = "armed" => Detector' # "warming"]_vars
  BY <1>1
<1> QED
  BY <1>2, WindowInvAlways, PTL DEF Spec
-----------------------------------------------------------------------------
(***************************************************************************)
(* The worker's round comes to an end: at most nine steps of the worker     *)
(* after the edge, whatever the event loop and the two appliers do, and     *)
(* nothing keeps it from the next one.                                      *)
(***************************************************************************)
StoresLeft == IF plan["worker"] = <<>> THEN 0 ELSE Cardinality(plan["worker"][1])

Left(place, stores) ==
    CASE place = "take"     -> 0
      [] place = "post"     -> 1 + stores
      [] place = "since"    -> 4
      [] place = "last"     -> 5
      [] place = "cooldown" -> 6
      [] place = "warmup"   -> 7
      [] place = "sample"   -> 8
      [] place = "started"  -> 9

StepsLeft == Left(pc, StoresLeft)

\* A plan of the worker has a store to do.
HasStore == plan["worker"] # <<>> => plan["worker"][1] # {}

LEMMA NotEmpty == ASSUME NEW g PROVE <<g>> # <<>>
  OBVIOUS

\* The stores of one time are counted: two at most.
LEMMA LastCounted ==
    ASSUME NEW t \in Nat, NEW g \in SUBSET StoreLast(t)
    PROVE  /\ IsFiniteSet(g) /\ Cardinality(g) \in 0..2
           /\ \A w \in g : Cardinality(g \ {w}) = Cardinality(g) - 1
<1>1. IsFiniteSet(StoreLast(t)) /\ Cardinality(StoreLast(t)) \in Nat /\ Cardinality(StoreLast(t)) <= 2
  <2> DEFINE hi == [word |-> "last_hi", value |-> t \div WordSize]
             lo == [word |-> "last_lo", value |-> t % WordSize]
  <2>1. StoreLast(t) = {hi} \cup {lo}
    BY DEF StoreLast, StoreTime, Store
  <2> HIDE DEF hi, lo
  <2>2. IsFiniteSet({hi}) /\ Cardinality({hi}) = 1
    BY FS_Singleton
  <2>3. /\ IsFiniteSet({hi} \cup {lo})
        /\ Cardinality({hi} \cup {lo}) = 1 \/ Cardinality({hi} \cup {lo}) = 2
    BY <2>2, FS_AddElement
  <2> QED
    BY <2>1, <2>3
<1>2. /\ IsFiniteSet(g) /\ Cardinality(g) \in Nat
      /\ Cardinality(g) <= Cardinality(StoreLast(t))
  BY <1>1, FS_Subset, FS_CardinalityType
<1>3. \A w \in g : Cardinality(g \ {w}) = Cardinality(g) - 1
  BY <1>2, FS_RemoveElement
<1> QED
  BY <1>1, <1>2, <1>3

LEMMA StoresCounted ==
    ASSUME Typed
    PROVE  StoresLeft \in 0..2 /\ (pc # "post" => StoresLeft = 0)
<1>1. CASE plan["worker"] = <<>>
  BY <1>1 DEF StoresLeft
<1>2. CASE plan["worker"] # <<>>
  <2>1. PICK g \in SUBSET StoreLast(now_us) : plan["worker"] = <<g>> /\ pc = "post"
    BY <1>2 DEF Typed, Shape, WorkerPlan
  <2>2. now_us \in Nat
    BY MotionAssumption DEF Typed, TypeOK
  <2>3. StoresLeft = Cardinality(g)
    BY <1>2, <2>1, OneGroup, NotEmpty DEF StoresLeft
  <2> QED
    BY <2>1, <2>2, <2>3, LastCounted
<1> QED
  BY <1>1, <1>2

\* What Left is at each place.
LEMMA Places ==
    ASSUME NEW n
    PROVE  /\ Left("take", n) = 0 /\ Left("post", n) = 1 + n /\ Left("since", n) = 4
           /\ Left("last", n) = 5 /\ Left("cooldown", n) = 6
           /\ Left("warmup", n) = 7 /\ Left("sample", n) = 8
           /\ Left("started", n) = 9
BY DEF Left

\* A store of the worker is one store less, and leaves no empty plan behind.
LEMMA StoreTaken ==
    ASSUME Typed, DoStore("worker")
    PROVE  /\ pc = "post" /\ pc' = "post" /\ StoresLeft' < StoresLeft
           /\ StoresLeft \in 0..2 /\ StoresLeft' \in 0..2 /\ HasStore'
<1>1. PICK g \in SUBSET StoreLast(now_us) : \E w \in g :
              /\ pc = "post" /\ plan["worker"] = <<g>>
              /\ plan'["worker"] = IF g = {w} THEN <<>> ELSE <<g \ {w}>>
  BY WorkerStore
<1>2. PICK w \in g : /\ pc = "post" /\ plan["worker"] = <<g>>
                     /\ plan'["worker"] = IF g = {w} THEN <<>> ELSE <<g \ {w}>>
  BY <1>1
<1>3. now_us \in Nat
  BY MotionAssumption DEF Typed, TypeOK
<1>4. /\ Cardinality(g) \in 0..2 /\ Cardinality(g \ {w}) = Cardinality(g) - 1
      /\ Cardinality(g \ {w}) \in 0..2
  <2>1. g \ {w} \in SUBSET StoreLast(now_us)
    OBVIOUS
  <2> QED
    BY <1>3, <2>1, LastCounted
<1>5. plan["worker"] # <<>> /\ plan["worker"][1] = g
  BY <1>2, OneGroup, NotEmpty
<1>6. StoresLeft = Cardinality(g)
  BY <1>5 DEF StoresLeft
<1>7. CASE g = {w}
  <2>1. plan'["worker"] = <<>> /\ StoresLeft' = 0
    BY <1>2, <1>7 DEF StoresLeft
  <2>2. Cardinality(g) = 1
    BY <1>7, FS_Singleton
  <2> QED
    BY <1>2, <1>6, <2>1, <2>2 DEF HasStore, DoStore, worker
<1>8. CASE g # {w}
  <2>1. plan'["worker"] = <<g \ {w}>> /\ g \ {w} # {}
    BY <1>2, <1>8
  <2>2. plan'["worker"] # <<>> /\ plan'["worker"][1] = g \ {w}
    BY <2>1, OneGroup, NotEmpty
  <2>3. StoresLeft' = Cardinality(g \ {w})
    BY <2>2 DEF StoresLeft
  <2> QED
    BY <1>2, <1>4, <1>6, <2>1, <2>2, <2>3 DEF HasStore, DoStore, worker
<1> QED
  BY <1>7, <1>8

\* Every step of the worker leaves it fewer.
LEMMA RoundTaken ==
    ASSUME Typed, Worker, pc # "take"
    PROVE  StepsLeft' < StepsLeft
<1>0. /\ StoresLeft \in 0..2 /\ (pc # "post" => StoresLeft = 0)
      /\ StepsLeft' = Left(pc', StoresLeft')
  BY StoresCounted DEF StepsLeft
<1>1. CASE \/ TestStarted \/ Sample \/ TestWarmup \/ ReadCooldown
           \/ TestTriggered \/ Ignore
  <2>1. \/ pc = "started" /\ pc' \in {"sample", "take"}
        \/ pc = "sample" /\ pc' = "warmup"
        \/ pc = "warmup" /\ pc' \in {"cooldown", "take"}
        \/ pc = "cooldown" /\ pc' = "last"
        \/ pc = "last" /\ pc' = "since"
        \/ pc = "since" /\ pc' = "take"
    BY <1>1 DEF TestStarted, Sample, TestWarmup, ReadCooldown,
                TestTriggered, Ignore, Goto, Again
  <2> QED
    BY <1>0, <2>1, Places DEF StepsLeft
<1>2. CASE Accept
  <2>1. /\ pc \in {"last", "since"} /\ pc' = "post" /\ now_us \in Nat
        /\ plan' = [plan EXCEPT !["worker"] = <<StoreLast(now_us)>>]
    BY <1>2, MotionAssumption DEF Accept, Goto, Trigger, Typed, TypeOK
  <2>2. plan'["worker"] = <<StoreLast(now_us)>>
    BY <2>1 DEF Typed, TypeOK
  <2>3. StoresLeft' = Cardinality(StoreLast(now_us))
    BY <2>2, OneGroup, NotEmpty DEF StoresLeft
  <2>4. StoresLeft' \in 0..2
    BY <2>1, <2>3, LastCounted
  <2> QED
    BY <1>0, <2>1, <2>4, Places DEF StepsLeft
<1>3. CASE Post \/ PostTimesOut
  <2>1. pc = "post" /\ pc' = "take"
    BY <1>3 DEF Post, PostTimesOut, Goto, Again
  <2> QED
    BY <1>0, <2>1, Places DEF StepsLeft
<1>4. CASE DoStore("worker")
  <2>1. /\ pc = "post" /\ pc' = "post" /\ StoresLeft' < StoresLeft
        /\ StoresLeft \in 0..2 /\ StoresLeft' \in 0..2
    BY <1>4, StoreTaken
  <2> QED
    BY <1>0, <2>1, Places DEF StepsLeft
<1> QED
  BY <1>1, <1>2, <1>3, <1>4 DEF Worker, Take

\* The appliers' steps, the clock and the interrupt leave the worker as it is.
LEMMA WorkerAlone ==
    ASSUME Typed, [Next]_vars, ~Worker
    PROVE  pc' = pc /\ plan'["worker"] = plan["worker"]
<1>1. CASE Tick \/ Edge \/ HandleEvent \/ UNCHANGED vars
  BY <1>1 DEF Tick, Edge, HandleEvent, vars, worker
<1>2. ASSUME NEW a \in Appliers, Apply(a)
      PROVE  pc' = pc /\ plan'["worker"] = plan["worker"]
  <2>1. a # "worker" /\ plan \in [Doers -> Seq(SUBSET Stores)]
    BY DEF Appliers, Typed, TypeOK, Doers, Stores
  <2>2. \E q : plan' = plan \/ plan' = [plan EXCEPT ![a] = q]
    BY <1>2 DEF Apply, Enter, Disable, Start, KeepRunning, Leave
  <2>3. pc' = pc
    BY <1>2 DEF Apply, Enter, Disable, Start, KeepRunning, Leave, worker
  <2> QED
    BY <2>1, <2>2, <2>3 DEF Doers
<1>3. ASSUME NEW a \in Appliers, DoStore(a)
      PROVE  pc' = pc /\ plan'["worker"] = plan["worker"]
  <2>1. a # "worker" /\ plan \in [Doers -> Seq(SUBSET Stores)]
    BY DEF Appliers, Typed, TypeOK, Doers, Stores
  <2>2. pc' = pc /\ \E q : plan' = [plan EXCEPT ![a] = q]
    BY <1>3 DEF DoStore, worker
  <2> QED
    BY <2>1, <2>2 DEF Doers
<1> QED
  BY NextSplit, <1>1, <1>2, <1>3 DEF Worker, Rounds

LEMMA HasStoreNext == Typed /\ HasStore /\ [Next]_vars => HasStore'
<1> SUFFICES ASSUME Typed, HasStore, [Next]_vars PROVE HasStore'
  OBVIOUS
<1>1. CASE ~Worker
  BY <1>1, WorkerAlone DEF HasStore
<1>2. CASE DoStore("worker")
  BY <1>2, StoreTaken
<1>3. CASE Accept
  <2>1. plan'["worker"] = <<StoreLast(now_us)>>
    BY <1>3 DEF Accept, Trigger, Typed, TypeOK
  <2>2. StoreLast(now_us) # {}
    BY DEF StoreLast, StoreTime, Store
  <2> QED
    BY <2>1, <2>2, OneGroup DEF HasStore
<1>4. CASE Rounds /\ ~Accept
  <2>1. plan' = plan
    BY <1>4 DEF Rounds, Take, TestStarted, Sample, TestWarmup, ReadCooldown,
                TestTriggered, Ignore, Post, PostTimesOut
  <2> QED
    BY <2>1 DEF HasStore
<1> QED
  BY <1>1, <1>2, <1>3, <1>4 DEF Worker, Rounds

\* After an edge the worker is back at its wait within nine steps of its own;
\* the appliers cannot prolong the round, a full event loop ends it, and
\* nothing in it waits for another task.
THEOREM RoundEnds ==
    Spec => /\ [](StepsLeft \in 0..9 /\ HasStore)
            /\ [][IF Worker /\ pc # "take" THEN StepsLeft' < StepsLeft
                  ELSE Worker \/ StepsLeft' = StepsLeft]_vars
<1>1. Init => Typed /\ HasStore
  BY TypedInit DEF Init, HasStore
<1>2. Typed /\ HasStore /\ [Next]_vars => (Typed /\ HasStore)'
  BY TypedNext, HasStoreNext
<1>3. Typed => StepsLeft \in 0..9
  <2> SUFFICES ASSUME Typed PROVE StepsLeft \in 0..9
    OBVIOUS
  <2>1. pc \in {"take", "started", "sample", "warmup", "cooldown", "last", "since",
              "post"}
    BY DEF Typed, TypeOK
  <2> QED
    BY <2>1, StoresCounted, Places DEF StepsLeft
<1>4. Typed /\ [Next]_vars =>
        [IF Worker /\ pc # "take" THEN StepsLeft' < StepsLeft
         ELSE Worker \/ StepsLeft' = StepsLeft]_vars
  BY RoundTaken, WorkerAlone DEF StepsLeft, StoresLeft
<1> QED
  BY <1>1, <1>2, <1>3, <1>4, PTL DEF Spec
=============================================================================
