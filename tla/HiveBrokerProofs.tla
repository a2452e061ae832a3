-------------------------- MODULE HiveBrokerProofs --------------------------
(***************************************************************************)
(* Theorems about HiveBroker for any agents, connections, cohorts, views   *)
(* and similarities, and for both kinds of build.                          *)
(***************************************************************************)
EXTENDS HiveBroker, TLAPS, FiniteSetTheorems, SequenceTheorems

-----------------------------------------------------------------------------
(* Similarity caches.                                                      *)

Ids == Agents \union Cohorts

\* A cache is square, and every cell agrees with the centroids beside it.
SoundCache(cache) ==
    LET n == Size(cache)
    IN  /\ cache \in Caches(Ids)
        /\ Len(cache.sims) = n
        /\ \A i \in 1..n : Len(cache.sims[i]) = n
        /\ cache.ids = <<>> \/ Len(cache.ids) = n
        /\ \A i, j \in 1..n : i # j =>
             cache.sims[i][j] = Similarity[<<cache.cents[i], cache.cents[j]>>]

(* A table of integers is a sequence of rows. *)
LEMMA TableIsARowSequence ==
    ASSUME NEW n \in Nat, NEW f(_, _),
           \A i, j \in 1..n : f(i, j) \in Int
    PROVE  LET t == [i \in 1..n |-> [j \in 1..n |-> f(i, j)]]
           IN  /\ t \in Seq(Seq(Int)) /\ Len(t) = n
               /\ \A i \in 1..n : Len(t[i]) = n
<1> DEFINE row(i) == [j \in 1..n |-> f(i, j)]
           t == [i \in 1..n |-> row(i)]
<1>1. \A i \in 1..n : row(i) \in Seq(Int) /\ Len(row(i)) = n
  OBVIOUS
<1> HIDE DEF row
<1>2. t \in Seq(Seq(Int)) /\ Len(t) = n /\ \A i \in 1..n : t[i] = row(i)
  BY <1>1
<1> QED  BY <1>1, <1>2 DEF row

LEMMA EmptyCacheIsSound == SoundCache(EmptyCache)
BY DEF SoundCache, EmptyCache, Caches, Size

LEMMA ClearKeepsSoundness ==
    ASSUME NEW cache, SoundCache(cache)
    PROVE  SoundCache(Clear(cache))
<1>1. /\ Clear(cache) \in Caches(Ids)
      /\ Clear(cache).ids = <<>>
      /\ Clear(cache).cents = cache.cents
      /\ Clear(cache).sims = cache.sims
  <2>1. cache \in [ids : Seq(Ids), cents : Seq(Views), sims : Seq(Seq(Int))]
    BY DEF SoundCache, Caches
  <2>2. <<>> \in Seq(Ids)
    OBVIOUS
  <2> QED  BY <2>1, <2>2, Zenon DEF Clear, Caches
<1>2. Size(Clear(cache)) = Size(cache)
  BY <1>1 DEF Size
<1> QED  BY <1>1, <1>2 DEF SoundCache

LEMMA BuildIsSound ==
    ASSUME NEW ids \in Seq(Ids), NEW cents \in Seq(Views), Len(ids) = Len(cents)
    PROVE  SoundCache(Build(ids, cents))
<1> DEFINE n == Len(cents)
           f(i, j) == IF i = j THEN Hole ELSE Similarity[<<cents[i], cents[j]>>]
           sims == [i \in 1..n |-> [j \in 1..n |-> f(i, j)]]
<1>1. \A i, j \in 1..n : f(i, j) \in Int
  BY HiveAssumption DEF Hole
<1>2. n \in Nat
  OBVIOUS
<1>3. Build(ids, cents) = [ids |-> ids, cents |-> cents, sims |-> sims]
  BY DEF Build
<1>4. \A i, j \in 1..n : sims[i][j] = f(i, j)
  OBVIOUS
<1> HIDE DEF f
<1>5. sims \in Seq(Seq(Int)) /\ Len(sims) = n /\ \A i \in 1..n : Len(sims[i]) = n
  BY <1>1, <1>2, TableIsARowSequence
<1>6. Build(ids, cents) \in Caches(Ids)
  BY <1>3, <1>5 DEF Caches
<1>7. \A i, j \in 1..n : i # j => sims[i][j] = Similarity[<<cents[i], cents[j]>>]
  BY <1>4 DEF f
<1> HIDE DEF sims, n
<1>8. Size(Build(ids, cents)) = n
  BY <1>3 DEF Size, n
<1> QED  BY <1>3, <1>5, <1>6, <1>7, <1>8 DEF SoundCache, n

LEMMA RecomputeKeepsSoundness ==
    ASSUME NEW cache, SoundCache(cache), NEW x \in 1..Size(cache),
           NEW cents \in Seq(Views), Len(cents) = Size(cache)
    PROVE  SoundCache(Recompute(cache, x, cents))
<1> DEFINE n == Size(cache)
           now == [cache.cents EXCEPT ![x] = cents[x]]
           f(i, j) == IF i # j /\ x \in {i, j}
                        THEN Similarity[<<now[i], now[j]>>] ELSE cache.sims[i][j]
           sims == [i \in 1..n |-> [j \in 1..n |-> f(i, j)]]
           new == Recompute(cache, x, cents)
<1>1. /\ cache.cents \in Seq(Views) /\ n = Len(cache.cents) /\ n \in Nat
      /\ cache.sims \in Seq(Seq(Int)) /\ Len(cache.sims) = n
      /\ cache.ids \in Seq(Ids)
      /\ DOMAIN cache.sims = 1..n
  BY DEF SoundCache, Caches, Size
<1>2. now \in Seq(Views) /\ Len(now) = n
  BY <1>1
<1>3. \A i, j \in 1..n : cache.sims[i][j] \in Int
  <2> TAKE i, j \in 1..n
  <2>1. cache.sims[i] \in Seq(Int) /\ Len(cache.sims[i]) = n
    BY <1>1 DEF SoundCache
  <2> QED  BY <2>1
<1>4. \A i, j \in 1..n : now[i] \in Views /\ now[j] \in Views
  BY <1>2
<1>5. \A i, j \in 1..n : f(i, j) \in Int
  BY <1>3, <1>4, HiveAssumption
<1>6. new = [ids |-> cache.ids, cents |-> now, sims |-> sims]
  <2> DEFINE table == [i \in DOMAIN cache.sims |-> [j \in DOMAIN cache.sims |-> f(i, j)]]
  <2>1. cache = [ids |-> cache.ids, cents |-> cache.cents, sims |-> cache.sims]
    BY DEF SoundCache, Caches
  <2>2. new = [cache EXCEPT !.cents = now, !.sims = table]
    BY Zenon DEF Recompute
  <2>3. table = sims
    BY <1>1, Zenon
  <2> HIDE DEF table, now, sims, new
  <2> QED  BY <2>1, <2>2, <2>3
<1>7. \A i, j \in 1..n : sims[i][j] = f(i, j)
  OBVIOUS
<1>8. \A i, j \in 1..n : i # j => f(i, j) = Similarity[<<now[i], now[j]>>]
  <2> SUFFICES ASSUME NEW i \in 1..n, NEW j \in 1..n, i # j, x \notin {i, j}
               PROVE  cache.sims[i][j] = Similarity[<<now[i], now[j]>>]
    OBVIOUS
  <2>1. now[i] = cache.cents[i] /\ now[j] = cache.cents[j]
    BY <1>1
  <2> QED  BY <2>1 DEF SoundCache
<1> HIDE DEF f
<1>9. sims \in Seq(Seq(Int)) /\ Len(sims) = n /\ \A i \in 1..n : Len(sims[i]) = n
  BY <1>1, <1>5, TableIsARowSequence
<1> HIDE DEF sims, now, new
<1>10. new \in Caches(Ids)
  BY <1>1, <1>2, <1>6, <1>9 DEF Caches
<1>11. Size(new) = n
  BY <1>2, <1>6 DEF Size
<1>12. cache.ids = <<>> \/ Len(cache.ids) = n
  BY DEF SoundCache
<1>13. \A i, j \in 1..n : i # j => sims[i][j] = Similarity[<<now[i], now[j]>>]
  BY <1>7, <1>8
<1> HIDE DEF n
<1>14. SoundCache(new)
  BY <1>6, <1>9, <1>10, <1>11, <1>12, <1>13 DEF SoundCache
<1> QED  BY <1>14 DEF new

LEMMA ListingsAreSequences ==
    ASSUME NEW S, IsFiniteSet(S), NEW order, NEW q \in Listings(S, order)
    PROVE  q \in Seq(S) /\ Len(q) = Cardinality(S) /\ DOMAIN q = 1..Cardinality(S)
<1>1. Cardinality(S) \in Nat
  BY FS_CardinalityType
<1> QED  BY <1>1 DEF Listings

LEMMA MappedListing ==
    ASSUME NEW S, NEW q \in Seq(S), NEW V, NEW f, \A x \in S : f[x] \in V
    PROVE  LET r == [i \in DOMAIN q |-> f[q[i]]]
           IN  r \in Seq(V) /\ Len(r) = Len(q)
OBVIOUS

-----------------------------------------------------------------------------
(* Types, the locals of the tasks and the caches.                          *)

SpeakersAreKnown == \A c \in Conns : pc[c] # "closed" => agentOf[c] \in Agents

LocalsOK == \A c \in Conns :
    /\ pc[c] = "store" => task[c].view \in Views
    /\ pc[c] \in {"refresh", "confer"} => Len(task[c].ids) = Len(task[c].cents)
    /\ pc[c] \in {"refresh", "weigh", "publish"} => Len(task[c].cents) > 0

CachesOK == (\A k \in Cohorts : SoundCache(caches[k])) /\ SoundCache(interCache)

SweepIsNotAhead == sweep.epoch <= epoch

Basics == TypeOK /\ SpeakersAreKnown /\ LocalsOK /\ CachesOK /\ SweepIsNotAhead

LEMMA NoTaskIsATask == NoTask \in Tasks
BY HiveAssumption DEF NoTask, Tasks

LEMMA BasicsHoldInitially ==
    ASSUME Init
    PROVE  Basics
<1>1. EmptyCache \in Caches(Ids) /\ SoundCache(EmptyCache)
  BY EmptyCacheIsSound DEF SoundCache
<1>2. TypeOK
  BY <1>1, NoTaskIsATask, HiveAssumption DEF Init, TypeOK, Ids, Steps
<1>3. SpeakersAreKnown /\ LocalsOK /\ CachesOK /\ SweepIsNotAhead
  BY <1>1 DEF Init, SpeakersAreKnown, LocalsOK, CachesOK, SweepIsNotAhead
<1> QED  BY <1>2, <1>3 DEF Basics

LEMMA BasicsHoldAfterHandshake ==
    ASSUME Basics, NEW c \in Conns, NEW a \in Agents, NEW k \in Cohorts,
           Handshake(c, a, k)
    PROVE  Basics'
<1> USE DEF Basics, Handshake, Goto
<1>1. task' = [task EXCEPT ![c] = [task[c] EXCEPT !.cohort = k]]
      /\ task' \in [Conns -> Tasks]
  <2>1. task[c] \in Tasks
    BY DEF TypeOK
  <2>2. [task[c] EXCEPT !.cohort = k] \in Tasks
    BY <2>1 DEF Tasks
  <2> QED  BY <2>2 DEF TypeOK
<1>2. TypeOK'
  BY <1>1 DEF TypeOK, Steps
<1>3. SpeakersAreKnown' /\ SweepIsNotAhead'
  BY DEF TypeOK, SpeakersAreKnown, SweepIsNotAhead
<1>4. LocalsOK'
  BY DEF TypeOK, LocalsOK
<1>5. CachesOK'
  BY DEF CachesOK, SoundCache
<1> QED  BY <1>2, <1>3, <1>4, <1>5

\* What is shared between the tasks has its types.
SharedOK ==
    /\ epoch \in 0..MaxEpoch
    /\ states \in [Agents -> Views \union {None}]
    /\ lastSeen \in [Agents -> (0..MaxEpoch) \union {None}]
    /\ cohortOf \in [Agents -> Cohorts \union {None}]
    /\ caches \in [Cohorts -> Caches(Ids)] /\ interCache \in Caches(Ids)
    /\ published \in [Cohorts -> Views \union {None}]
    /\ CachesOK

\* What the locals of a task at step l must be.
GoodLocals(l, r) ==
    /\ l \in Steps \ {"closed"} /\ r \in Tasks
    /\ l = "store" => r.view \in Views
    /\ l \in {"refresh", "confer"} => Len(r.ids) = Len(r.cents)
    /\ l \in {"refresh", "weigh", "publish"} => Len(r.cents) > 0

\* The task of connection c goes to step l with the locals r.
TaskStep(c, l, r) ==
    /\ pc[c] # "closed" /\ pc' = [pc EXCEPT ![c] = l]
    /\ task' = [task EXCEPT ![c] = r]
    /\ UNCHANGED <<agentOf, sweep>>

(* What is left to show of the step of a task that stays connected. *)
LEMMA BasicsHoldAfterTaskStep ==
    ASSUME Basics, NEW c \in Conns, NEW l, NEW r,
           TaskStep(c, l, r), GoodLocals(l, r), SharedOK', epoch' >= epoch
    PROVE  Basics'
<1> USE DEF Basics, TaskStep
<1>1. TypeOK'
  BY DEF TypeOK, GoodLocals, SharedOK, Ids
<1>2. SpeakersAreKnown' /\ LocalsOK'
  BY DEF TypeOK, SpeakersAreKnown, LocalsOK, GoodLocals
<1>3. CachesOK' /\ SweepIsNotAhead'
  BY DEF TypeOK, SharedOK, SweepIsNotAhead
<1> QED  BY <1>1, <1>2, <1>3

\* What is not written keeps its type.
LEMMA UnchangedCachesAreTyped ==
    ASSUME Basics, UNCHANGED <<caches, interCache>>
    PROVE  /\ caches' \in [Cohorts -> Caches(Ids)]
           /\ interCache' \in Caches(Ids)
           /\ CachesOK'
<1>0. caches' = caches /\ interCache' = interCache
  OBVIOUS
<1>1. CachesOK'
  BY <1>0 DEF Basics, CachesOK
<1>2. interCache' \in Caches(Ids)
  BY DEF Basics, TypeOK, Ids
<1>3. caches' \in [Cohorts -> Caches(Ids)]
  BY DEF Basics, TypeOK, Ids
<1> QED  BY <1>1, <1>2, <1>3

LEMMA UnchangedSharedIsTyped ==
    ASSUME Basics, UNCHANGED shared
    PROVE  SharedOK' /\ epoch' >= epoch
<1>1. UNCHANGED <<epoch, states, lastSeen, cohortOf, published>>
      /\ UNCHANGED <<caches, interCache>>
  BY DEF shared
<1>2. epoch' >= epoch
  BY <1>1, HiveAssumption DEF Basics, TypeOK
<1> QED  BY <1>1, <1>2, UnchangedCachesAreTyped DEF SharedOK, Basics, TypeOK

LEMMA TaskIsTyped ==
    ASSUME Basics, NEW c \in Conns
    PROVE  task[c] \in Tasks
BY DEF Basics, TypeOK

LEMMA NoTaskIsGood ==
    \A l \in {"answer", "ready", "announce", "panicked"} : GoodLocals(l, NoTask)
BY NoTaskIsATask DEF GoodLocals, Steps

LEMMA BasicsHoldAfterGreet ==
    ASSUME Basics, NEW c \in Conns, Greet(c)
    PROVE  Basics'
<1>1. CachesOK' /\ caches' \in [Cohorts -> Caches(Ids)] /\ interCache' \in Caches(Ids)
  <2>1. SoundCache(interCache') /\ \A l \in Cohorts : SoundCache(caches'[l])
    BY ClearKeepsSoundness DEF Greet, Basics, CachesOK, TypeOK
  <2>2. \A l \in Cohorts : caches'[l] \in Caches(Ids)
    BY <2>1 DEF SoundCache
  <2>3. caches' \in [Cohorts -> Caches(Ids)]
    BY <2>2 DEF Greet, Basics, TypeOK
  <2> QED  BY <2>1, <2>3 DEF CachesOK, SoundCache
<1>2. SharedOK' /\ epoch' >= epoch
  BY <1>1, HiveAssumption DEF Greet, SharedOK, Basics, TypeOK
<1>3. TaskStep(c, "answer", NoTask)
  BY DEF Greet, Goto, TaskStep
<1> QED  BY <1>2, <1>3, NoTaskIsGood, BasicsHoldAfterTaskStep

\* What a task does at the sockets touches neither the maps nor its locals.
LEMMA BasicsHoldAtTheSockets ==
    ASSUME Basics, NEW c \in Conns,
           Join(c) \/ TakeClients(c) \/ Deliver(c) \/ Answer(c, TRUE)
    PROVE  Basics'
<1>1. SharedOK' /\ epoch' >= epoch
  BY UnchangedSharedIsTyped DEF Join, TakeClients, Deliver, Answer
<1>2. \A l \in {"join", "ready", "send"} : GoodLocals(l, task[c])
  BY TaskIsTyped DEF GoodLocals, Steps
<1>3. \E l \in {"join", "ready", "send"} : TaskStep(c, l, task[c])
  BY DEF Join, TakeClients, Deliver, Answer, Goto, TaskStep, Basics, TypeOK
<1> QED  BY <1>1, <1>2, <1>3, BasicsHoldAfterTaskStep

LEMMA BasicsHoldAfterAnswer ==
    ASSUME Basics, NEW c \in Conns, NEW ok \in BOOLEAN, Answer(c, ok)
    PROVE  Basics'
<1>1. CASE ok = TRUE
  BY <1>1, BasicsHoldAtTheSockets
<1>2. CASE ok = FALSE
  <2>1. /\ pc' = [pc EXCEPT ![c] = "closed"]
        /\ agentOf' = [agentOf EXCEPT ![c] = None]
        /\ UNCHANGED <<shared, task, sweep>>
    BY <1>2 DEF Answer, End, Goto
  <2>2. SharedOK'
    BY <2>1, UnchangedSharedIsTyped
  <2>3. TypeOK'
    BY <2>1, <2>2 DEF SharedOK, Basics, TypeOK, Steps, Ids
  <2>4. SpeakersAreKnown' /\ SweepIsNotAhead' /\ LocalsOK'
    BY <2>1 DEF Basics, TypeOK, SpeakersAreKnown, SweepIsNotAhead, LocalsOK, shared
  <2> QED  BY <2>2, <2>3, <2>4 DEF SharedOK, Basics
<1> QED  BY <1>1, <1>2

LEMMA BasicsHoldAfterSubmit ==
    ASSUME Basics, NEW c \in Conns, NEW v \in Views, Submit(c, v)
    PROVE  Basics'
<1> DEFINE r == [task[c] EXCEPT !.view = v, !.epoch = epoch + 1]
<1>1. epoch + 1 \in 0..MaxEpoch
  BY HiveAssumption DEF Submit, Basics, TypeOK
<1>2. GoodLocals("store", r)
  BY <1>1, TaskIsTyped DEF GoodLocals, Steps, Tasks
<1>3. TaskStep(c, "store", r)
  BY DEF Submit, Goto, TaskStep, Basics, TypeOK
<1>4. SharedOK' /\ epoch' >= epoch
  <2>1. UNCHANGED <<caches, interCache>>
    BY DEF Submit
  <2>2. epoch' >= epoch
    BY HiveAssumption DEF Submit, Basics, TypeOK
  <2> QED  BY <1>1, <2>1, <2>2, UnchangedCachesAreTyped DEF Submit, SharedOK, Basics, TypeOK
<1> HIDE DEF r
<1> QED  BY <1>2, <1>3, <1>4, BasicsHoldAfterTaskStep

LEMMA BasicsHoldAfterStore ==
    ASSUME Basics, NEW c \in Conns, Store(c)
    PROVE  Basics'
<1> DEFINE moved == states[agentOf[c]] # task[c].view
           r == [task[c] EXCEPT !.view = None, !.changed = moved]
<1>1. GoodLocals("mark", r)
  <2>1. moved \in BOOLEAN
    OBVIOUS
  <2> HIDE DEF moved
  <2> QED  BY <2>1, TaskIsTyped DEF Tasks, GoodLocals, Steps
<1>2. TaskStep(c, "mark", r)
  BY DEF Store, Goto, TaskStep, Basics, TypeOK
<1>3. SharedOK' /\ epoch' >= epoch
  <2>1. UNCHANGED <<caches, interCache>>
    BY DEF Store
  <2>2. epoch' >= epoch
    BY HiveAssumption DEF Store, Basics, TypeOK
  <2> QED  BY <2>1, <2>2, UnchangedCachesAreTyped DEF Store, SharedOK, Basics, TypeOK, LocalsOK
<1> HIDE DEF r
<1> QED  BY <1>1, <1>2, <1>3, BasicsHoldAfterTaskStep

LEMMA BasicsHoldAfterMarkSeen ==
    ASSUME Basics, NEW c \in Conns, MarkSeen(c)
    PROVE  Basics'
<1>1. GoodLocals("screen", task[c])
  BY TaskIsTyped DEF GoodLocals, Steps
<1>2. TaskStep(c, "screen", task[c])
  BY DEF MarkSeen, Goto, TaskStep, Basics, TypeOK
<1>3. task[c].epoch \in 0..MaxEpoch
  BY TaskIsTyped DEF Tasks
<1>4. SharedOK' /\ epoch' >= epoch
  <2>1. UNCHANGED <<caches, interCache>>
    BY DEF MarkSeen
  <2>2. epoch' >= epoch
    BY HiveAssumption DEF MarkSeen, Basics, TypeOK
  <2> QED  BY <1>3, <2>1, <2>2, UnchangedCachesAreTyped DEF MarkSeen, SharedOK, Basics, TypeOK
<1> QED  BY <1>1, <1>2, <1>4, BasicsHoldAfterTaskStep

LEMMA BasicsHoldAfterScreen ==
    ASSUME Basics, NEW c \in Conns, Screen(c)
    PROVE  Basics'
<1> DEFINE k == cohortOf[agentOf[c]]
           e == task[c].epoch
           seen == {a \in Agents : lastSeen[a] # None}
           silent == {a \in seen : e - lastSeen[a] > MaxSilent}
           ahead == {a \in seen : lastSeen[a] > e}
           r == [task[c] EXCEPT !.cohort = k, !.epoch = 0,
                                !.silent = silent, !.ahead = ahead]
<1>1. SharedOK' /\ epoch' >= epoch
  BY UnchangedSharedIsTyped DEF Screen
<1>2. CASE Return(c)
  <2>1. TaskStep(c, "announce", NoTask) \/ TaskStep(c, "ready", NoTask)
    BY <1>2 DEF Screen, Return, Goto, TaskStep
  <2> QED  BY <1>1, <2>1, NoTaskIsGood, BasicsHoldAfterTaskStep
<1>3. CASE k # None /\ task' = [task EXCEPT ![c] = r] /\ Goto(c, "collect")
  <2>1. silent \in SUBSET Agents /\ ahead \in SUBSET Agents /\ k \in Cohorts
    BY <1>3 DEF Screen, Basics, TypeOK, SpeakersAreKnown
  <2>2. TaskStep(c, "collect", r)
    BY <1>3 DEF Screen, Goto, TaskStep
  <2> HIDE DEF silent, ahead, k
  <2>3. r \in Tasks
    <3>1. 0 \in 0..MaxEpoch /\ k \in Cohorts \union {None}
      BY <2>1, HiveAssumption
    <3> QED  BY <2>1, <3>1, TaskIsTyped DEF Tasks
  <2> HIDE DEF r
  <2>4. GoodLocals("collect", r)
    BY <2>3 DEF GoodLocals, Steps
  <2> QED  BY <1>1, <2>2, <2>4, BasicsHoldAfterTaskStep
<1> QED  BY <1>2, <1>3 DEF Screen, Basics, TypeOK

LEMMA BasicsHoldAfterCollect ==
    ASSUME Basics, NEW c \in Conns, Collect(c)
    PROVE  Basics'
<1> DEFINE peers == PeersOf(c)
           low == [task[c] EXCEPT !.changed = FALSE, !.silent = {}, !.ahead = {}]
<1>1. SharedOK' /\ epoch' >= epoch
  BY UnchangedSharedIsTyped DEF Collect
<1>2. task[c] \in Tasks
  BY TaskIsTyped
<1>3. CASE Die(c)
  <2>1. TaskStep(c, "panicked", NoTask)
    BY <1>3 DEF Collect, Die, Goto, TaskStep
  <2> QED  BY <1>1, <2>1, NoTaskIsGood, BasicsHoldAfterTaskStep
<1>4. CASE Goto(c, "withdraw") /\ task' = [task EXCEPT ![c] = low]
  <2>1. TaskStep(c, "withdraw", low)
    BY <1>4 DEF Collect, Goto, TaskStep
  <2>2. GoodLocals("withdraw", low)
    BY <1>2 DEF GoodLocals, Steps, Tasks
  <2> HIDE DEF low
  <2> QED  BY <1>1, <2>1, <2>2, BasicsHoldAfterTaskStep
<1>5. ASSUME Cardinality(peers) >= 2, Goto(c, "refresh"),
             NEW q \in Listings(peers, Rank),
             task' = [task EXCEPT ![c] =
                        [task[c] EXCEPT !.ids = q,
                                        !.cents = [i \in DOMAIN q |-> states[q[i]]],
                                        !.silent = {}, !.ahead = {}]]
      PROVE  Basics'
  <2> DEFINE cents == [i \in DOMAIN q |-> states[q[i]]]
             r == [task[c] EXCEPT !.ids = q, !.cents = cents, !.silent = {}, !.ahead = {}]
  <2>1. IsFiniteSet(peers) /\ peers \subseteq Agents /\ \A a \in peers : states[a] \in Views
    BY HiveAssumption, FS_Subset DEF PeersOf, Basics, TypeOK
  <2>2. q \in Seq(peers) /\ Len(q) = Cardinality(peers)
    BY <2>1, ListingsAreSequences
  <2>3. cents \in Seq(Views) /\ Len(cents) = Len(q)
    BY <2>1, <2>2, MappedListing
  <2>4. q \in Seq(Agents \union Cohorts)
    BY <2>1, <2>2
  <2>5. TaskStep(c, "refresh", r)
    BY <1>5 DEF Collect, Goto, TaskStep
  <2> HIDE DEF cents
  <2>6. r \in Tasks /\ r.ids = q /\ r.cents = cents
    BY <1>2, <2>3, <2>4 DEF Tasks
  <2>7. Len(cents) > 0
    BY <1>5, <2>1, <2>2, <2>3, FS_CardinalityType
  <2> HIDE DEF r
  <2>8. GoodLocals("refresh", r)
    BY <2>3, <2>6, <2>7 DEF GoodLocals, Steps
  <2> QED  BY <1>1, <2>5, <2>8, BasicsHoldAfterTaskStep
<1> QED  BY <1>3, <1>4, <1>5 DEF Collect, Basics, TypeOK

LEMMA BasicsHoldAfterRefresh ==
    ASSUME Basics, NEW c \in Conns, Refresh(c)
    PROVE  Basics'
<1> DEFINE t == task[c]
           k == t.cohort
           rows == {x \in 1..Len(caches[k].ids) : caches[k].ids[x] = agentOf[c]}
           r == [task[c] EXCEPT !.changed = FALSE, !.ids = <<>>]
<1>1. t \in Tasks /\ t.ids \in Seq(Ids) /\ t.cents \in Seq(Views)
      /\ Len(t.ids) = Len(t.cents) /\ Len(t.cents) > 0
  BY TaskIsTyped DEF Refresh, Basics, LocalsOK, Tasks, Ids
<1>2. \A l \in Cohorts : SoundCache(caches[l])
  BY DEF Basics, CachesOK
<1>3. \A l \in Cohorts : SoundCache(caches'[l])
  <2> SUFFICES ASSUME NEW l \in Cohorts
               PROVE  SoundCache(caches'[l])
    OBVIOUS
  <2>1. CASE l # k \/ UNCHANGED caches
    BY <1>2, <2>1 DEF Refresh, Basics, TypeOK
  <2>2. CASE l = k /\ caches' = [caches EXCEPT ![k] = Build(t.ids, t.cents)]
    <3>1. caches'[l] = Build(t.ids, t.cents)
      BY <2>2 DEF Basics, TypeOK
    <3> QED  BY <1>1, <3>1, BuildIsSound
  <2>3. ASSUME l = k, Size(caches[k]) = Len(t.cents), NEW x \in rows,
               caches' = [caches EXCEPT ![k] = Recompute(@, x, t.cents)]
        PROVE  SoundCache(caches'[l])
    <3>1. caches'[l] = Recompute(caches[l], x, t.cents)
      BY <2>3 DEF Basics, TypeOK
    <3>2. SoundCache(caches[l]) /\ x \in 1..Len(caches[l].ids)
      BY <1>2, <2>3
    <3>3. x \in 1..Size(caches[l])
      BY <3>2 DEF SoundCache
    <3> QED  BY <1>1, <2>3, <3>1, <3>2, <3>3, RecomputeKeepsSoundness
  <2> QED  BY <2>1, <2>2, <2>3 DEF Refresh
<1>4. caches' \in [Cohorts -> Caches(Ids)]
  <2>1. \A l \in Cohorts : caches'[l] \in Caches(Ids)
    BY <1>3 DEF SoundCache
  <2>2. \E f : caches' = [l \in Cohorts |-> f[l]]
    BY DEF Refresh, Basics, TypeOK
  <2> QED  BY <2>1, <2>2
<1>5. interCache' = interCache
  BY DEF Refresh
<1>6. CachesOK' /\ interCache' \in Caches(Ids)
  BY <1>3, <1>5 DEF Basics, CachesOK, TypeOK, Ids
<1>7. SharedOK' /\ epoch' >= epoch
  <2>1. epoch' >= epoch
    BY HiveAssumption DEF Refresh, Basics, TypeOK
  <2> QED  BY <1>4, <1>6, <2>1 DEF Refresh, SharedOK, Basics, TypeOK
<1>8. TaskStep(c, "weigh", r)
  BY DEF Refresh, Goto, TaskStep, Basics, TypeOK
<1>9. GoodLocals("weigh", r)
  <2>1. <<>> \in Seq(Agents \union Cohorts) /\ FALSE \in BOOLEAN
    OBVIOUS
  <2>2. r \in Tasks /\ r.cents = t.cents
    BY <1>1, <2>1, Zenon DEF Tasks
  <2> QED  BY <1>1, <2>2 DEF GoodLocals, Steps
<1> HIDE DEF r
<1> QED  BY <1>7, <1>8, <1>9, BasicsHoldAfterTaskStep

LEMMA BasicsHoldAfterWeigh ==
    ASSUME Basics, NEW c \in Conns, Weigh(c)
    PROVE  Basics'
<1> DEFINE r == [task[c] EXCEPT !.cents = <<>>]
<1>1. SharedOK' /\ epoch' >= epoch
  BY UnchangedSharedIsTyped DEF Weigh
<1>2. task[c] \in Tasks /\ Len(task[c].cents) > 0
  BY TaskIsTyped DEF Weigh, Basics, LocalsOK
<1>3. CASE Die(c)
  <2>1. TaskStep(c, "panicked", NoTask)
    BY <1>3 DEF Weigh, Die, Goto, TaskStep
  <2> QED  BY <1>1, <2>1, NoTaskIsGood, BasicsHoldAfterTaskStep
<1>4. CASE Goto(c, "publish") /\ UNCHANGED task
  <2>1. TaskStep(c, "publish", task[c]) /\ GoodLocals("publish", task[c])
    BY <1>2, <1>4 DEF Weigh, Goto, TaskStep, Basics, TypeOK, GoodLocals, Steps
  <2> QED  BY <1>1, <2>1, BasicsHoldAfterTaskStep
<1>5. CASE Goto(c, "withdraw") /\ task' = [task EXCEPT ![c].cents = <<>>]
  <2>1. TaskStep(c, "withdraw", r)
    BY <1>5 DEF Weigh, Goto, TaskStep, Basics, TypeOK
  <2>2. <<>> \in Seq(Views)
    OBVIOUS
  <2>3. r \in Tasks
    BY <1>2, <2>2, Zenon DEF Tasks
  <2> HIDE DEF r
  <2>4. GoodLocals("withdraw", r)
    BY <2>3 DEF GoodLocals, Steps
  <2> QED  BY <1>1, <2>1, <2>4, BasicsHoldAfterTaskStep
<1> QED  BY <1>3, <1>4, <1>5 DEF Weigh

LEMMA BasicsHoldAfterStage2 ==
    ASSUME Basics, NEW c \in Conns, Gather(c) \/ Confer(c) \/ Decide(c)
    PROVE  Basics'
<1>1. CASE Gather(c)
  <2>1. SharedOK' /\ epoch' >= epoch
    BY <1>1, UnchangedSharedIsTyped DEF Gather
  <2>2. CASE Return(c)
    <3>1. TaskStep(c, "announce", NoTask) \/ TaskStep(c, "ready", NoTask)
      BY <1>1, <2>2 DEF Gather, Return, Goto, TaskStep
    <3> QED  BY <2>1, <3>1, NoTaskIsGood, BasicsHoldAfterTaskStep
  <2>3. ASSUME NEW q \in Listings(Voting, [k \in Cohorts |-> k]), Goto(c, "confer"),
               task' = [task EXCEPT ![c] =
                          [task[c] EXCEPT !.ids = q,
                                          !.cents = [i \in DOMAIN q |-> published[q[i]]]]]
        PROVE  Basics'
    <3> DEFINE cents == [i \in DOMAIN q |-> published[q[i]]]
               r == [task[c] EXCEPT !.ids = q, !.cents = cents]
    <3>1. /\ IsFiniteSet(Voting) /\ Voting \subseteq Cohorts
          /\ \A k \in Voting : published[k] \in Views
      BY HiveAssumption, FS_Subset DEF Voting, Basics, TypeOK
    <3>2. q \in Seq(Voting)
      BY <3>1, ListingsAreSequences
    <3>3. cents \in Seq(Views) /\ Len(cents) = Len(q)
      BY <3>1, <3>2, MappedListing
    <3>4. q \in Seq(Agents \union Cohorts)
      BY <3>1, <3>2
    <3>5. TaskStep(c, "confer", r)
      BY <1>1, <2>3 DEF Gather, Goto, TaskStep
    <3> HIDE DEF cents
    <3>6. r \in Tasks /\ r.ids = q /\ r.cents = cents
      BY <3>3, <3>4, TaskIsTyped DEF Tasks
    <3> HIDE DEF r
    <3>7. GoodLocals("confer", r)
      BY <3>3, <3>6 DEF GoodLocals, Steps
    <3> QED  BY <2>1, <3>5, <3>7, BasicsHoldAfterTaskStep
  <2> QED  BY <1>1, <2>2, <2>3 DEF Gather, Basics, TypeOK
<1>2. CASE Confer(c)
  <2>1. task[c].ids \in Seq(Ids) /\ task[c].cents \in Seq(Views)
        /\ Len(task[c].ids) = Len(task[c].cents)
    BY <1>2, TaskIsTyped DEF Confer, Basics, LocalsOK, Tasks, Ids
  <2>2. SoundCache(interCache')
    BY <1>2, <2>1, BuildIsSound DEF Confer, Basics, CachesOK
  <2>3. interCache' \in Caches(Ids)
    BY <2>2 DEF SoundCache
  <2>4. caches' = caches
    BY <1>2 DEF Confer
  <2>5. CachesOK' /\ caches' \in [Cohorts -> Caches(Ids)]
    BY <2>2, <2>4 DEF Basics, CachesOK, TypeOK, Ids
  <2>6. epoch' >= epoch
    BY <1>2, HiveAssumption DEF Confer, Basics, TypeOK
  <2>7. SharedOK'
    BY <1>2, <2>3, <2>5 DEF Confer, SharedOK, Basics, TypeOK
  <2>8. TaskStep(c, "decide", task[c]) /\ GoodLocals("decide", task[c])
    BY <1>2, TaskIsTyped DEF Confer, Goto, TaskStep, Basics, TypeOK, GoodLocals, Steps
  <2> QED  BY <2>6, <2>7, <2>8, BasicsHoldAfterTaskStep
<1>3. CASE Decide(c)
  <2>1. SharedOK' /\ epoch' >= epoch
    BY <1>3, UnchangedSharedIsTyped DEF Decide
  <2>2. \E l \in {"announce", "ready", "panicked"} : TaskStep(c, l, NoTask)
    BY <1>3 DEF Decide, Return, Alert, Die, Goto, TaskStep
  <2> QED  BY <2>1, <2>2, NoTaskIsGood, BasicsHoldAfterTaskStep
<1> QED  BY <1>1, <1>2, <1>3

LEMMA BasicsHoldAfterPublishing ==
    ASSUME Basics, NEW c \in Conns, Publish(c) \/ Withdraw(c)
    PROVE  Basics'
<1>1. UNCHANGED <<caches, interCache>> /\ epoch' >= epoch
  BY HiveAssumption DEF Publish, Withdraw, Basics, TypeOK
<1>2. CASE Publish(c)
  <2> DEFINE cents == task[c].cents
             v == Bundle({cents[i] : i \in DOMAIN cents})
             r == [task[c] EXCEPT !.cents = <<>>, !.cohort = None]
  <2>1. cents \in Seq(Views) /\ Len(cents) > 0
    BY <1>2, TaskIsTyped DEF Publish, Basics, LocalsOK, Tasks
  <2>2. {cents[i] : i \in DOMAIN cents} \in (SUBSET Views) \ {{}}
    <3>1. 1 \in DOMAIN cents /\ \A i \in DOMAIN cents : cents[i] \in Views
      BY <2>1
    <3> QED  BY <3>1
  <2>3. v \in Views
    BY <2>2, HiveAssumption
  <2>4. SharedOK'
    BY <1>1, <1>2, <2>3, UnchangedCachesAreTyped DEF Publish, SharedOK, Basics, TypeOK
  <2>5. TaskStep(c, "gather", r)
    BY <1>2 DEF Publish, Goto, TaskStep, Basics, TypeOK
  <2>6. <<>> \in Seq(Views) /\ None \in Cohorts \union {None}
    OBVIOUS
  <2>7. r \in Tasks
    BY <2>6, TaskIsTyped, Zenon DEF Tasks
  <2> HIDE DEF r
  <2>8. GoodLocals("gather", r)
    BY <2>7 DEF GoodLocals, Steps
  <2> QED  BY <1>1, <2>4, <2>5, <2>8, BasicsHoldAfterTaskStep
<1>3. CASE Withdraw(c)
  <2>1. SharedOK'
    BY <1>1, <1>3, UnchangedCachesAreTyped DEF Withdraw, Return, SharedOK, Basics, TypeOK
  <2>2. TaskStep(c, "announce", NoTask) \/ TaskStep(c, "ready", NoTask)
    BY <1>3 DEF Withdraw, Return, Goto, TaskStep
  <2> QED  BY <1>1, <2>1, <2>2, NoTaskIsGood, BasicsHoldAfterTaskStep
<1> QED  BY <1>2, <1>3

LEMMA BasicsHoldAfterLeaving ==
    ASSUME Basics, NEW c \in Conns, HangUp(c) \/ CloseStates(c) \/ CloseSeen(c)
    PROVE  Basics'
<1>1. UNCHANGED <<caches, interCache>> /\ epoch' >= epoch
  BY HiveAssumption DEF HangUp, CloseStates, CloseSeen, shared, Basics, TypeOK
<1>2. SharedOK'
  BY <1>1, UnchangedCachesAreTyped
     DEF HangUp, CloseStates, CloseSeen, shared, SharedOK, Basics, TypeOK
<1>3. CASE HangUp(c) \/ CloseStates(c)
  <2>1. GoodLocals("leaving", task[c]) /\ GoodLocals("closing", task[c])
    BY TaskIsTyped DEF GoodLocals, Steps
  <2>2. TaskStep(c, "leaving", task[c]) \/ TaskStep(c, "closing", task[c])
    BY <1>3 DEF HangUp, CloseStates, Goto, TaskStep, Basics, TypeOK
  <2> QED  BY <1>1, <1>2, <2>1, <2>2, BasicsHoldAfterTaskStep
<1>4. CASE CloseSeen(c)
  <2> DEFINE k == cohortOf[agentOf[c]]
             r == [task[c] EXCEPT !.cohort = k]
  <2>1. k \in Cohorts \union {None}
    BY <1>4 DEF CloseSeen, Basics, TypeOK, SpeakersAreKnown
  <2>2. TaskStep(c, "clearing", r)
    BY <1>4 DEF CloseSeen, Goto, TaskStep, Basics, TypeOK
  <2> HIDE DEF k
  <2>3. GoodLocals("clearing", r)
    BY <2>1, TaskIsTyped DEF GoodLocals, Steps, Tasks
  <2> HIDE DEF r
  <2> QED  BY <1>1, <1>2, <2>2, <2>3, BasicsHoldAfterTaskStep
<1> QED  BY <1>3, <1>4

LEMMA BasicsHoldAfterCloseCaches ==
    ASSUME Basics, NEW c \in Conns, CloseCaches(c)
    PROVE  Basics'
<1> USE DEF Basics
<1>1. task' = [task EXCEPT ![c] = NoTask] /\ task' \in [Conns -> Tasks]
  BY NoTaskIsATask DEF CloseCaches, TypeOK
<1>2. /\ pc' = [pc EXCEPT ![c] = "closed"]
      /\ agentOf' = [agentOf EXCEPT ![c] = None]
  BY DEF CloseCaches, End, Goto, TypeOK
<1>3. CachesOK' /\ caches' \in [Cohorts -> Caches(Ids)] /\ interCache' \in Caches(Ids)
  <2>1. SoundCache(interCache') /\ \A l \in Cohorts : SoundCache(caches'[l])
    BY ClearKeepsSoundness DEF CloseCaches, CachesOK, TypeOK
  <2>2. \A l \in Cohorts : caches'[l] \in Caches(Ids)
    BY <2>1 DEF SoundCache
  <2>3. caches' \in [Cohorts -> Caches(Ids)]
    BY <2>2 DEF CloseCaches, TypeOK
  <2> QED  BY <2>1, <2>3 DEF CachesOK, SoundCache
<1>4. TypeOK'
  BY <1>1, <1>2, <1>3 DEF CloseCaches, TypeOK, Steps, Ids
<1>5. SpeakersAreKnown' /\ SweepIsNotAhead' /\ LocalsOK'
  BY <1>1, <1>2 DEF CloseCaches, TypeOK, SpeakersAreKnown, SweepIsNotAhead, LocalsOK
<1> QED  BY <1>3, <1>4, <1>5

LEMMA BasicsHoldAfterSweep ==
    ASSUME Basics, Sweep
    PROVE  Basics'
<1> USE DEF Basics
<1>1. UNCHANGED <<pc, agentOf, task>> /\ epoch' = epoch
  BY DEF Sweep, SweepWakes, SweepHolds, SweepPrunes, shared
<1>2. /\ sweep' \in [at : {"asleep", "awake", "holding"}, epoch : 0..MaxEpoch]
      /\ sweep'.epoch <= epoch
  BY HiveAssumption DEF Sweep, SweepWakes, SweepHolds, SweepPrunes, TypeOK, SweepIsNotAhead
<1>3. CachesOK' /\ caches' \in [Cohorts -> Caches(Ids)] /\ interCache' \in Caches(Ids)
  <2>1. CASE UNCHANGED <<caches, interCache>>
    BY <2>1, UnchangedCachesAreTyped
  <2>2. CASE SweepPrunes
    <3>1. SoundCache(interCache') /\ \A l \in Cohorts : SoundCache(caches'[l])
      BY <2>2, ClearKeepsSoundness DEF SweepPrunes, CachesOK, TypeOK
    <3>2. \A l \in Cohorts : caches'[l] \in Caches(Ids)
      BY <3>1 DEF SoundCache
    <3>3. caches' \in [Cohorts -> Caches(Ids)]
      BY <2>2, <3>2 DEF SweepPrunes
    <3> QED  BY <3>1, <3>3 DEF CachesOK, SoundCache
  <2> QED  BY <2>1, <2>2 DEF Sweep, SweepWakes, SweepHolds, shared
<1>4. /\ states' \in [Agents -> Views \union {None}]
      /\ cohortOf' \in [Agents -> Cohorts \union {None}]
      /\ lastSeen' = lastSeen /\ published' = published
  BY DEF Sweep, SweepWakes, SweepHolds, SweepPrunes, shared, TypeOK
<1>5. TypeOK'
  BY <1>1, <1>2, <1>3, <1>4 DEF TypeOK, Ids
<1>6. SpeakersAreKnown' /\ SweepIsNotAhead' /\ LocalsOK'
  BY <1>1, <1>2 DEF SpeakersAreKnown, SweepIsNotAhead, LocalsOK
<1> QED  BY <1>3, <1>5, <1>6

LEMMA BasicsHoldAfterNext ==
    ASSUME Basics, [Next]_vars
    PROVE  Basics'
<1>1. CASE UNCHANGED vars
  <2>1. UNCHANGED <<pc, agentOf, task, sweep>> /\ UNCHANGED shared
    BY <1>1 DEF vars
  <2>2. SharedOK'
    BY <2>1, UnchangedSharedIsTyped
  <2>3. TypeOK'
    BY <2>1, <2>2 DEF SharedOK, Basics, TypeOK, Ids
  <2>4. SpeakersAreKnown' /\ LocalsOK' /\ SweepIsNotAhead'
    BY <2>1 DEF Basics, SpeakersAreKnown, LocalsOK, SweepIsNotAhead, shared
  <2> QED  BY <2>2, <2>3, <2>4 DEF SharedOK, Basics
<1>2. CASE \E c \in Conns, a \in Agents, k \in Cohorts : Handshake(c, a, k)
  BY <1>2, BasicsHoldAfterHandshake
<1>3. CASE \/ \E c \in Conns : Greet(c)
           \/ \E c \in Conns, ok \in BOOLEAN : Answer(c, ok)
  BY <1>3, BasicsHoldAfterGreet, BasicsHoldAfterAnswer
<1>4. CASE \E c \in Conns, v \in Views : Submit(c, v)
  BY <1>4, BasicsHoldAfterSubmit
<1>5. CASE \E c \in Conns : Consolidate(c)
  BY <1>5, BasicsHoldAfterStore, BasicsHoldAfterMarkSeen, BasicsHoldAfterScreen,
     BasicsHoldAfterCollect, BasicsHoldAfterRefresh, BasicsHoldAfterWeigh,
     BasicsHoldAfterPublishing, BasicsHoldAfterStage2 DEF Consolidate
<1>6. CASE \E c \in Conns : HangUp(c) \/ Disconnect(c)
  BY <1>6, BasicsHoldAfterLeaving, BasicsHoldAfterCloseCaches DEF Disconnect
<1>7. CASE \E c \in Conns : Join(c) \/ TakeClients(c) \/ Deliver(c)
  BY <1>7, BasicsHoldAtTheSockets
<1>8. CASE Sweep
  BY <1>8, BasicsHoldAfterSweep
<1> QED  BY <1>1, <1>2, <1>3, <1>4, <1>5, <1>6, <1>7, <1>8 DEF Next

LEMMA BasicsHold == Spec => []Basics
BY BasicsHoldInitially, BasicsHoldAfterNext, PTL DEF Spec

(* Every variable keeps the type of the field it models. *)
THEOREM HiveTypeCorrect == Spec => []TypeOK
<1>1. Basics => TypeOK
  BY DEF Basics
<1> QED  BY <1>1, BasicsHold, PTL

(* Whatever the order in which tasks rebuild, refresh and clear the caches, *)
(* a cache never pairs a centroid with another centroid's similarity.       *)
THEOREM HiveCachesAreConsistent == Spec => []CachesAreConsistent
<1>1. Basics => CachesAreConsistent
  BY DEF Basics, CachesOK, SoundCache, CachesAreConsistent
<1> QED  BY <1>1, BasicsHold, PTL

-----------------------------------------------------------------------------
(* What is stored about an agent, and who may take it away.                *)

\* A disconnect removes the submission first, and nobody can store another
\* until it has removed the last-seen epoch as well.
ClosingHasNoState == \A c \in Conns : pc[c] = "closing" => states[agentOf[c]] = None

\* Where a task has not joined, or has already forgotten its agent.
Outside == {"closed", "greeting", "answer", "join", "clearing"}

\* What is stored has an owner that has not begun to forget it.
Owned == \A a \in Agents : states[a] # None \/ lastSeen[a] # None =>
    \E c \in Conns : agentOf[c] = a /\ pc[c] \notin Outside

Ownership == ClosingHasNoState /\ Owned /\ SubmissionsCanExpire

\* A step by which a task moves on, keeps its agent and stores nothing.
QuietStep(c) ==
    /\ UNCHANGED <<states, lastSeen, agentOf>>
    /\ \E l \in Steps \ {"closing"} :
         /\ pc' = [pc EXCEPT ![c] = l]
         /\ pc[c] # "mark"
         /\ l \in Outside => pc[c] \in Outside

LEMMA MovesAreQuiet ==
    ASSUME NEW c \in Conns, NEW l \in Steps \ ({"closing"} \union Outside),
           UNCHANGED <<states, lastSeen, agentOf>>,
           pc' = [pc EXCEPT ![c] = l], pc[c] # "mark"
    PROVE  QuietStep(c)
BY DEF QuietStep

LEMMA QuietStepsKeepOwnership ==
    ASSUME Basics, Ownership, NEW c \in Conns, QuietStep(c)
    PROVE  Ownership'
<1> USE DEF Basics, TypeOK, Ownership, QuietStep
<1>1. ClosingHasNoState'
  BY DEF ClosingHasNoState
<1>2. Owned'
  BY DEF Owned
<1>3. SubmissionsCanExpire'
  BY DEF SubmissionsCanExpire
<1> QED  BY <1>1, <1>2, <1>3

LEMMA OwnershipAfterTask ==
    ASSUME Basics, Ownership, NEW c \in Conns,
           \/ \E v \in Views : Submit(c, v)
           \/ Consolidate(c) \/ TakeClients(c) \/ Deliver(c) \/ HangUp(c)
    PROVE  Ownership'
<1>1. CASE Store(c)
  <2>1. agentOf[c] \in Agents /\ \A d \in Conns : pc[d] # "closing"
    BY <1>1 DEF Store, StatesFree, Basics, SpeakersAreKnown
  <2>2. /\ pc' = [pc EXCEPT ![c] = "mark"] /\ UNCHANGED <<lastSeen, agentOf>>
        /\ \A a \in Agents : a # agentOf[c] => states'[a] = states[a]
    BY <1>1 DEF Store, Goto, Basics, TypeOK
  <2>3. ClosingHasNoState'
    BY <2>1, <2>2 DEF ClosingHasNoState, Basics, TypeOK
  <2>4. Owned'
    BY <1>1, <2>2 DEF Owned, Outside, Ownership, Basics, TypeOK, Store
  <2>5. SubmissionsCanExpire'
    BY <1>1, <2>2 DEF SubmissionsCanExpire, Ownership, Basics, TypeOK, Store
  <2> QED  BY <2>3, <2>4, <2>5 DEF Ownership
<1>2. CASE MarkSeen(c)
  <2>1. agentOf[c] \in Agents /\ task[c].epoch # None
    BY <1>2, TaskIsTyped, HiveAssumption DEF MarkSeen, Basics, SpeakersAreKnown, Tasks
  <2>2. /\ pc' = [pc EXCEPT ![c] = "screen"] /\ UNCHANGED <<states, agentOf>>
        /\ \A a \in Agents : a # agentOf[c] => lastSeen'[a] = lastSeen[a]
        /\ lastSeen'[agentOf[c]] # None
    BY <1>2, <2>1 DEF MarkSeen, Goto, Basics, TypeOK
  <2>3. ClosingHasNoState'
    BY <2>2 DEF ClosingHasNoState, Ownership, Basics, TypeOK
  <2>4. Owned'
    BY <1>2, <2>2 DEF Owned, Outside, Ownership, Basics, TypeOK, MarkSeen
  <2>5. SubmissionsCanExpire'
    BY <2>2 DEF SubmissionsCanExpire, Ownership, Basics, TypeOK
  <2> QED  BY <2>3, <2>4, <2>5 DEF Ownership
<1>3. CASE QuietStep(c)
  BY <1>3, QuietStepsKeepOwnership
<1>4. ASSUME ~Store(c), ~MarkSeen(c)
      PROVE  QuietStep(c)
  <2> USE DEF QuietStep, Outside, Goto, Steps
  <2>1. CASE \E v \in Views : Submit(c, v)
    <3>1. /\ UNCHANGED <<states, lastSeen, agentOf>>
          /\ pc[c] = "ready" /\ pc' = [pc EXCEPT ![c] = "store"]
      BY <2>1, Zenon DEF Submit
    <3> QED  BY <3>1, MovesAreQuiet
  <2>9. CASE HangUp(c)
    <3>1. /\ UNCHANGED <<states, lastSeen, agentOf>>
          /\ pc[c] = "ready" /\ pc' = [pc EXCEPT ![c] = "leaving"]
      BY <2>9 DEF HangUp, shared
    <3> QED  BY <3>1, MovesAreQuiet
  <2>2. CASE Screen(c)
    BY <2>2 DEF Screen, Return, shared
  <2>3. CASE Collect(c)
    BY <2>3 DEF Collect, Die, shared
  <2>4. CASE Refresh(c)
    <3>1. /\ UNCHANGED <<states, lastSeen, agentOf>>
          /\ pc[c] = "refresh" /\ pc' = [pc EXCEPT ![c] = "weigh"]
      BY <2>4, Zenon DEF Refresh
    <3> QED  BY <3>1, MovesAreQuiet
  <2>5. CASE Weigh(c)
    BY <2>5 DEF Weigh, Die, shared
  <2>6. CASE Withdraw(c) \/ Publish(c)
    BY <2>6 DEF Withdraw, Publish, Return
  <2>7. CASE Gather(c)
    BY <2>7 DEF Gather, Return, shared
  <2>8. CASE Confer(c) \/ Decide(c)
    BY <2>8 DEF Confer, Decide, Return, Alert, Die, shared
  <2>10. CASE TakeClients(c) \/ Deliver(c)
    BY <2>10 DEF TakeClients, Deliver, shared
  <2> QED  BY <1>4, <2>1, <2>2, <2>3, <2>4, <2>5, <2>6, <2>7, <2>8, <2>9, <2>10
           DEF Consolidate
<1> QED  BY <1>1, <1>2, <1>3, <1>4

LEMMA OwnershipAfterHandshake ==
    ASSUME Basics, Ownership, NEW c \in Conns, NEW a \in Agents,
           \/ \E k \in Cohorts : Handshake(c, a, k)
           \/ Greet(c) \/ (\E ok \in BOOLEAN : Answer(c, ok)) \/ Join(c)
    PROVE  Ownership'
<1>1. /\ UNCHANGED <<states, lastSeen>>
      /\ pc[c] \in {"closed", "greeting", "answer", "join"}
      /\ \E l \in {"closed", "greeting", "answer", "join", "ready"} :
             pc' = [pc EXCEPT ![c] = l]
      /\ \A d \in Conns : d # c => agentOf'[d] = agentOf[d]
      /\ agentOf' \in [Conns -> Agents \union {None}]
  BY DEF Handshake, Greet, Answer, Join, Goto, End, shared, Basics, TypeOK
<1>2. \A d \in Conns \ {c} : pc'[d] = pc[d] /\ agentOf'[d] = agentOf[d]
  BY <1>1 DEF Basics, TypeOK
<1>3. pc'[c] # "closing"
  BY <1>1 DEF Basics, TypeOK
<1>4. ClosingHasNoState'
  BY <1>1, <1>2, <1>3 DEF ClosingHasNoState, Ownership
<1>5. Owned'
  BY <1>1, <1>2 DEF Owned, Outside, Ownership
<1>6. SubmissionsCanExpire'
  BY <1>1, <1>2 DEF SubmissionsCanExpire, Ownership
<1> QED  BY <1>4, <1>5, <1>6 DEF Ownership

LEMMA OwnershipAfterDisconnect ==
    ASSUME Basics, Ownership, NEW c \in Conns, Disconnect(c)
    PROVE  Ownership'
<1> USE DEF Basics, TypeOK, Ownership
<1>0. agentOf[c] \in Agents
  BY DEF Disconnect, CloseStates, CloseSeen, CloseCaches, SpeakersAreKnown
<1>1. CASE CloseStates(c)
  <2>1. /\ pc' = [pc EXCEPT ![c] = "closing"] /\ UNCHANGED <<lastSeen, agentOf>>
        /\ pc[c] = "leaving" /\ states' = [states EXCEPT ![agentOf[c]] = None]
    BY <1>1 DEF CloseStates, Goto
  <2>2. ClosingHasNoState'
    BY <1>0, <2>1 DEF ClosingHasNoState, SpeakersAreKnown
  <2>3. Owned' /\ SubmissionsCanExpire'
    BY <1>0, <2>1 DEF Owned, Outside, SubmissionsCanExpire
  <2> QED  BY <2>2, <2>3
<1>2. CASE CloseSeen(c)
  <2>1. /\ pc' = [pc EXCEPT ![c] = "clearing"] /\ UNCHANGED <<states, agentOf>>
        /\ pc[c] = "closing" /\ lastSeen' = [lastSeen EXCEPT ![agentOf[c]] = None]
    BY <1>2 DEF CloseSeen, Goto
  <2>2. states[agentOf[c]] = None
    BY <2>1 DEF ClosingHasNoState
  <2>3. ClosingHasNoState' /\ Owned'
    BY <1>0, <2>1, <2>2 DEF ClosingHasNoState, Owned, Outside
  <2>4. SubmissionsCanExpire'
    BY <1>0, <2>1, <2>2 DEF SubmissionsCanExpire
  <2> QED  BY <2>3, <2>4
<1>3. CASE CloseCaches(c)
  <2>1. /\ pc' = [pc EXCEPT ![c] = "closed"] /\ UNCHANGED <<states, lastSeen>>
        /\ pc[c] = "clearing" /\ agentOf' = [agentOf EXCEPT ![c] = None]
    BY <1>3 DEF CloseCaches, End, Goto
  <2>2. ClosingHasNoState' /\ Owned'
    BY <2>1 DEF ClosingHasNoState, Owned, Outside
  <2>3. SubmissionsCanExpire'
    BY <2>1 DEF SubmissionsCanExpire
  <2> QED  BY <2>2, <2>3
<1> QED  BY <1>1, <1>2, <1>3 DEF Disconnect

LEMMA OwnershipAfterSweep ==
    ASSUME Basics, Ownership, Sweep \/ UNCHANGED vars
    PROVE  Ownership'
<1>1. /\ UNCHANGED <<pc, agentOf, lastSeen>>
      /\ \A a \in Agents : states'[a] \in {states[a], None}
  BY DEF Sweep, SweepWakes, SweepHolds, SweepPrunes, shared, vars
<1>2. ClosingHasNoState'
  BY <1>1 DEF ClosingHasNoState, Ownership, Basics, SpeakersAreKnown
<1>3. Owned' /\ SubmissionsCanExpire'
  BY <1>1 DEF Owned, SubmissionsCanExpire, Ownership
<1> QED  BY <1>2, <1>3 DEF Ownership

LEMMA OwnershipHolds == Spec => []Ownership
<1>1. Init => Ownership
  BY DEF Init, Ownership, ClosingHasNoState, Owned, SubmissionsCanExpire
<1>2. ASSUME Basics, Ownership, [Next]_vars
      PROVE  Ownership'
  <2>1. CASE \E c \in Conns, a \in Agents, k \in Cohorts : Handshake(c, a, k)
    BY <1>2, <2>1, OwnershipAfterHandshake
  <2>2. CASE \E c \in Conns : Greet(c) \/ (\E ok \in BOOLEAN : Answer(c, ok)) \/ Join(c)
    <3>1. PICK c \in Conns : Greet(c) \/ (\E ok \in BOOLEAN : Answer(c, ok)) \/ Join(c)
      BY <2>2
    <3>2. agentOf[c] \in Agents
      BY <1>2, <3>1 DEF Greet, Answer, Join, Basics, SpeakersAreKnown
    <3> QED  BY <1>2, <3>1, <3>2, OwnershipAfterHandshake
  <2>3. CASE \E c \in Conns : \/ \E v \in Views : Submit(c, v)
                             \/ Consolidate(c) \/ TakeClients(c) \/ Deliver(c)
                             \/ HangUp(c)
    BY <1>2, <2>3, OwnershipAfterTask
  <2>4. CASE \E c \in Conns : Disconnect(c)
    BY <1>2, <2>4, OwnershipAfterDisconnect
  <2>5. CASE Sweep \/ UNCHANGED vars
    BY <1>2, <2>5, OwnershipAfterSweep
  <2> QED  BY <1>2, <2>1, <2>2, <2>3, <2>4, <2>5 DEF Next
<1> QED  BY <1>1, <1>2, BasicsHold, PTL DEF Spec

(* The agent whose connections were all closed has left neither submission  *)
(* nor last-seen epoch, however its tasks and the sweep interleaved.        *)
THEOREM HiveForgetsTheGone == Spec => []GoneAgentsLeaveNothing
<1>1. Ownership => GoneAgentsLeaveNothing
  BY DEF Ownership, Owned, Outside, GoneAgentsLeaveNothing
<1> QED  BY <1>1, OwnershipHolds, PTL

(* Every stored submission has, or is about to get, the last-seen epoch by  *)
(* which the sweep can remove it.                                           *)
THEOREM HiveSubmissionsCanExpire == Spec => []SubmissionsCanExpire
<1>1. Ownership => SubmissionsCanExpire
  BY DEF Ownership
<1> QED  BY <1>1, OwnershipHolds, PTL

(* A submission goes with its own disconnect, or when its agent has been    *)
(* silent for more than MAX_SILENT_EPOCHS by the time it is removed.        *)
THEOREM HiveSweepIsJust == Spec => SweepTakesOnlyTheSilent
<1> DEFINE Just == \A a \in Agents : states[a] # None /\ states'[a] = None =>
             \/ \E c \in Conns : agentOf[c] = a /\ pc[c] = "leaving"
             \/ lastSeen[a] # None /\ epoch - lastSeen[a] > MaxSilent
<1>1. ASSUME Basics, Next
      PROVE  Just
  <2> SUFFICES ASSUME NEW a \in Agents, states[a] # None, states'[a] = None
               PROVE  \/ \E c \in Conns : agentOf[c] = a /\ pc[c] = "leaving"
                      \/ lastSeen[a] # None /\ epoch - lastSeen[a] > MaxSilent
    OBVIOUS
  <2>1. CASE \E c \in Conns : CloseStates(c)
    BY <1>1, <2>1 DEF CloseStates, Basics, TypeOK
  <2>2. ASSUME NEW c \in Conns, Store(c)
        PROVE  FALSE
    <3>1. task[c].view \in Views
      BY <1>1, <2>2 DEF Store, Basics, LocalsOK
    <3> QED  BY <1>1, <2>2, <3>1, HiveAssumption DEF Store, Basics, TypeOK
  <2>3. CASE SweepPrunes
    <3>1. a \in Dead
      BY <2>3 DEF SweepPrunes
    <3>2. sweep.epoch <= epoch /\ sweep.epoch \in Int /\ epoch \in Int
      BY <1>1, HiveAssumption DEF Basics, TypeOK, SweepIsNotAhead
    <3>3. lastSeen[a] \in Int /\ MaxSilent \in Int
      BY <1>1, <3>1, HiveAssumption DEF Dead, Basics, TypeOK
    <3> QED  BY <3>1, <3>2, <3>3 DEF Dead
  <2>4. CASE UNCHANGED states
    BY <2>4
  <2> QED  BY <1>1, <2>1, <2>2, <2>3, <2>4
       DEF Next, Handshake, Greet, Answer, Join, TakeClients, Deliver,
           Submit, Consolidate, MarkSeen, Screen, Collect,
           Refresh, Weigh, Withdraw, Publish, Gather, Confer, Decide, HangUp,
           Disconnect, CloseSeen, CloseCaches, Sweep, SweepWakes, SweepHolds, shared
<1>2. Basics /\ [Next]_vars => [Just]_vars
  BY <1>1
<1> QED  BY <1>2, BasicsHold, PTL DEF Spec, SweepTakesOnlyTheSilent
=============================================================================
