--------------------------- MODULE HiveMemoryProofs ---------------------------
(***************************************************************************)
(* The memory of the hive is backed by its ledger, for any number of       *)
(* connections and any bounds.                                             *)
(***************************************************************************)
EXTENDS HiveMemory, TLAPS

LEMMA RecordsAreTyped == TypeOK => Records \in Seq(Lessons)
BY DEF TypeOK, Records

LEMMA UpdatesAreTyped ==
    ASSUME NEW new \in BOOLEAN, NEW i \in Nat \ {0}, NEW s \in Lessons
    PROVE  UpdateOf(new, i, s) \in Updates
BY DEF UpdateOf, Updates

LEMMA LockdownsAreTyped == NoUpdate \in Updates /\ \A u \in Updates : u.cluster \in Lessons
BY DEF NoUpdate, Updates, Lessons

\* What is compacted is a sequence of records again.
LEMMA CompactedIsTyped ==
    ASSUME NEW recs \in Seq(Lessons), NEW m \in 1..Len(recs),
           NEW g \in Groupings(Len(recs), m)
    PROVE  Compacted(recs, m, g) \in Seq(Lessons) /\ Compacted(recs, m, g) # <<>>
<1>1. \A j \in 1..m : UNION {recs[i] : i \in {i \in DOMAIN recs : g[i] = j}} \in Lessons
  BY DEF Lessons
<1>2. Compacted(recs, m, g) \in [1..m -> Lessons]
  BY <1>1 DEF Compacted
<1>3. m \in Nat \ {0}
  OBVIOUS
<1> QED  BY <1>2, <1>3

\* And it still stands for everything the records stood for.
LEMMA CompactionKeepsEverything ==
    ASSUME NEW recs \in Seq(Lessons), NEW m \in 1..Len(recs),
           NEW g \in Groupings(Len(recs), m), NEW s, InRecords(s, recs)
    PROVE  InRecords(s, Compacted(recs, m, g))
<1>1. PICK i \in DOMAIN recs : s \in recs[i]
  BY DEF InRecords
<1>2. g \in [1..Len(recs) -> 1..m] /\ i \in 1..Len(recs)
  BY DEF Groupings
<1>3. g[i] \in 1..m
  BY <1>2
<1>4. s \in Compacted(recs, m, g)[g[i]]
  BY <1>1, <1>3 DEF Compacted
<1>5. DOMAIN Compacted(recs, m, g) = 1..m
  BY DEF Compacted
<1> QED  BY <1>3, <1>4, <1>5 DEF InRecords

LEMMA AppendKeepsRecords ==
    ASSUME NEW recs \in Seq(Lessons), NEW r \in Lessons, NEW s
    PROVE  InRecords(s, Append(recs, r)) <=> InRecords(s, recs) \/ s \in r
<1>1. Len(Append(recs, r)) = Len(recs) + 1 /\ Append(recs, r)[Len(recs) + 1] = r
  OBVIOUS
<1>2. \A i \in 1..Len(recs) : Append(recs, r)[i] = recs[i]
  OBVIOUS
<1>3. /\ DOMAIN recs = 1..Len(recs)
      /\ DOMAIN Append(recs, r) = 1..(Len(recs) + 1)
  OBVIOUS
<1> QED  BY <1>1, <1>2, <1>3 DEF InRecords

LEMMA HeadOrTail ==
    ASSUME NEW recs \in Seq(Lessons), recs # <<>>, NEW s, InRecords(s, recs)
    PROVE  s \in Head(recs) \/ (Len(recs) # 1 /\ InRecords(s, Tail(recs)))
<1>1. PICK i \in 1..Len(recs) : s \in recs[i]
  BY DEF InRecords
<1>2. CASE i = 1
  BY <1>1, <1>2
<1>3. CASE i # 1
  <2>0. Len(Tail(recs)) = Len(recs) - 1 /\ Len(recs) \in Nat
    OBVIOUS
  <2>1. i - 1 \in 1..Len(Tail(recs)) /\ Tail(recs)[i - 1] = recs[i] /\ Len(recs) # 1
    BY <1>3, <2>0
  <2>2. DOMAIN Tail(recs) = 1..Len(Tail(recs))
    OBVIOUS
  <2> QED  BY <1>1, <2>1, <2>2 DEF InRecords
<1> QED  BY <1>2, <1>3

-----------------------------------------------------------------------------

\* What the compactor is about to write is there to be written.
BatchInHand == compactor.at \in {"loaded", "rewriting"} => compactor.batch # <<>>

TypeInv == TypeOK /\ BatchInHand

LEMMA SieveKeepsTypes ==
    ASSUME TypeInv, NEW c \in Conns, Sieve(c)
    PROVE  TypeInv'
<1> USE MemoryAssumption DEF TypeInv
<1>1. spent.lessons \in 0..MaxLessons /\ spent.lessons < MaxLessons
  BY DEF Sieve, TypeOK
<1>2. Lesson \in 1..MaxLessons /\ spent.lessons + 1 \in 0..MaxLessons
  BY <1>1 DEF Lesson
<1>3. {Lesson} \in Lessons
  BY <1>2 DEF Lessons
<1>4. spent' \in [lessons : 0..MaxLessons, seals : 0..MaxSeals,
                  sleeps : 0..MaxSleeps, boots : 0..MaxBoots]
  <2>1. spent' = [spent EXCEPT !.lessons = spent.lessons + 1]
    BY DEF Sieve
  <2> QED  BY <1>2, <2>1 DEF TypeOK
<1>5. CASE Found(c)
  <2>1. UpdateOf(TRUE, Len(clusters) + 1, {Lesson}) \in Updates
    <3>1. Len(clusters) + 1 \in Nat \ {0}
      BY DEF TypeOK
    <3> QED  BY <1>3, <3>1, UpdatesAreTyped
  <2>2. clusters' \in Seq(Lessons)
    BY <1>3, <1>5 DEF Found, TypeOK
  <2>3. update' \in [Conns -> Updates]
    BY <1>5, <2>1 DEF Found, TypeOK
  <2>4. pc' \in [Conns -> Steps]
    BY <1>5 DEF Found, Goto, Steps, TypeOK
  <2> QED  BY <1>4, <2>2, <2>3, <2>4 DEF Sieve, TypeOK, BatchInHand
<1>6. CASE \E i \in DOMAIN clusters : Merge(c, i)
  <2>1. PICK i \in DOMAIN clusters : Merge(c, i)
    BY <1>6
  <2>2. clusters[i] \union {Lesson} \in Lessons /\ i \in Nat \ {0}
    BY <1>3 DEF TypeOK, Lessons
  <2>3. UpdateOf(FALSE, i, clusters[i] \union {Lesson}) \in Updates
    BY <2>2, UpdatesAreTyped
  <2>4. clusters' \in Seq(Lessons)
    BY <2>1, <2>2 DEF Merge, TypeOK
  <2>5. update' \in [Conns -> Updates]
    BY <2>1, <2>3 DEF Merge, TypeOK
  <2>6. pc' \in [Conns -> Steps]
    BY <2>1 DEF Merge, Goto, Steps, TypeOK
  <2> QED  BY <1>4, <2>4, <2>5, <2>6 DEF Sieve, TypeOK, BatchInHand
<1>7. CASE Discard
  BY <1>4, <1>7 DEF Discard, Sieve, TypeOK, BatchInHand
<1> QED  BY <1>5, <1>6, <1>7 DEF Sieve

\* An agent holds a replica from the answer to its handshake on.
ReplicasAreThere == \A d \in Conns : pc[d] # "closed" => replicas[d] # None

\* An update keeps the replica of an agent a sequence of clusters.
LEMMA AppliedIsTyped ==
    ASSUME NEW r \in Seq(Lessons), NEW u \in Updates
    PROVE  Applied(r, u) \in Seq(Lessons) /\ Applied(r, u) # None
<1>1. u.cluster \in Lessons
  BY LockdownsAreTyped
<1>2. Applied(r, u) \in Seq(Lessons)
  <2>1. CASE u.fresh
    BY <1>1, <2>1 DEF Applied
  <2>2. CASE ~u.fresh
    <3>1. Applied(r, u) \in [1..Len(r) -> Lessons]
      BY <1>1, <2>2 DEF Applied
    <3> QED  BY <3>1
  <2> QED  BY <2>1, <2>2
<1>3. Applied(r, u) \in Seq(SUBSET Nat)
  BY <1>2 DEF Lessons
<1> QED  BY <1>2, <1>3, MemoryAssumption

LEMMA WriteKeepsReplicas ==
    ASSUME TypeInv, ReplicasAreThere, NEW c \in Conns, NEW d \in Conns, Write(c, d)
    PROVE  /\ replicas' \in [Conns -> Seq(Lessons) \union {None}]
           /\ ReplicasAreThere'
<1>1. CASE ~Joined(d)
  BY <1>1 DEF Write, TypeInv, TypeOK, ReplicasAreThere
<1>2. CASE Joined(d)
  <2>1. replicas[d] \in Seq(Lessons) /\ update[c] \in Updates
    BY <1>2 DEF Joined, TypeInv, TypeOK, ReplicasAreThere
  <2>2. replicas' = [replicas EXCEPT ![d] = Applied(replicas[d], update[c])]
    BY <1>2 DEF Write
  <2>3. Applied(replicas[d], update[c]) \in Seq(Lessons)
        /\ Applied(replicas[d], update[c]) # None
    BY <2>1, AppliedIsTyped
  <2> QED  BY <2>2, <2>3 DEF Write, TypeInv, TypeOK, ReplicasAreThere
<1> QED  BY <1>1, <1>2

LEMMA BroadcastKeepsTypes ==
    ASSUME TypeInv, ReplicasAreThere, NEW c \in Conns, Broadcast(c)
    PROVE  TypeInv'
<1> USE DEF TypeInv, Goto, TypeOK, BatchInHand, Steps
<1>1. CASE TakeClients(c)
  BY <1>1 DEF TakeClients
<1>2. ASSUME NEW d \in Conns, Write(c, d)
      PROVE  TypeInv'
  <2>1. replicas' \in [Conns -> Seq(Lessons) \union {None}]
    BY <1>2, WriteKeepsReplicas
  <2> QED  BY <1>2, <2>1 DEF Write
<1>3. CASE ReleaseClients(c)
  BY <1>3, LockdownsAreTyped DEF ReleaseClients
<1> QED  BY <1>1, <1>2, <1>3 DEF Broadcast

LEMMA CompactKeepsTypes ==
    ASSUME TypeInv, Compact
    PROVE  TypeInv'
<1> USE MemoryAssumption DEF TypeInv
<1>1. CASE SleepCycle
  <2>1. spent.sleeps + 1 \in 0..MaxSleeps /\ spent' = [spent EXCEPT !.sleeps = spent.sleeps + 1]
    BY <1>1 DEF SleepCycle, TypeOK
  <2>2. spent' \in [lessons : 0..MaxLessons, seals : 0..MaxSeals,
                    sleeps : 0..MaxSleeps, boots : 0..MaxBoots]
    BY <2>1 DEF TypeOK
  <2> QED  BY <1>1, <2>2 DEF SleepCycle, TypeOK, BatchInHand
<1>2. CASE LoadRecords
  <2>1. CASE compactor' = Asleep
    BY <1>2, <2>1 DEF LoadRecords, Asleep, TypeOK, BatchInHand
  <2>2. CASE \E m \in 1..Len(Records) : \E g \in Groupings(Len(Records), m) :
            compactor' = [at |-> "loaded", batch |-> Compacted(Records, m, g)]
    <3>0. PICK m \in 1..Len(Records) : \E g \in Groupings(Len(Records), m) :
            compactor' = [at |-> "loaded", batch |-> Compacted(Records, m, g)]
      BY <2>2, Zenon
    <3>1. PICK g \in Groupings(Len(Records), m) :
            compactor' = [at |-> "loaded", batch |-> Compacted(Records, m, g)]
      BY <3>0, Zenon
    <3>2. compactor'.batch \in Seq(Lessons) /\ compactor'.batch # <<>>
      BY <3>1, RecordsAreTyped, CompactedIsTyped
    <3> QED  BY <1>2, <3>1, <3>2 DEF LoadRecords, TypeOK, BatchInHand
  <2> QED  BY <1>2, <2>1, <2>2 DEF LoadRecords
<1>3. CASE RemoveFile
  BY <1>3 DEF RemoveFile, TypeOK, BatchInHand
<1>4. CASE Rewrite
  <2>1. compactor.batch \in Seq(Lessons) /\ compactor.batch # <<>>
    BY <1>4 DEF Rewrite, TypeOK, BatchInHand
  <2>2. Head(compactor.batch) \in Lessons /\ Tail(compactor.batch) \in Seq(Lessons)
        /\ (Len(compactor.batch) # 1 => Tail(compactor.batch) # <<>>)
    <3>1. Head(compactor.batch) \in Lessons /\ Tail(compactor.batch) \in Seq(Lessons)
      BY <2>1
    <3>2. Len(Tail(compactor.batch)) = Len(compactor.batch) - 1 /\ Len(compactor.batch) \in Nat
      BY <2>1
    <3>3. ASSUME Tail(compactor.batch) = <<>>
          PROVE  Len(compactor.batch) = 1
      <4>0. Len(<<>>) = 0
        OBVIOUS
      <4>1. Len(Tail(compactor.batch)) = 0
        BY <3>3, <4>0, Zenon
      <4> QED  BY <3>2, <4>1
    <3> QED  BY <3>1, <3>3
  <2>3. file' \in Seq(Lessons)
    BY <1>4, <2>2, RecordsAreTyped DEF Rewrite
  <2>4. compactor' \in [at : {"asleep", "due", "loaded", "rewriting"}, batch : Seq(Lessons)]
    <3>1. CASE Len(compactor.batch) = 1
      BY <1>4, <3>1 DEF Rewrite, Asleep
    <3>2. CASE Len(compactor.batch) # 1
      <4>1. compactor' = [compactor EXCEPT !.batch = Tail(compactor.batch)]
        BY <1>4, <3>2 DEF Rewrite
      <4> QED  BY <2>2, <4>1 DEF TypeOK
    <3> QED  BY <3>1, <3>2
  <2>5. BatchInHand'
    BY <1>4, <2>2 DEF Rewrite, Asleep, TypeOK, BatchInHand
  <2> QED  BY <1>4, <2>3, <2>4, <2>5 DEF Rewrite, TypeOK
<1> QED  BY <1>1, <1>2, <1>3, <1>4 DEF Compact

LEMMA ConnectionKeepsTypes ==
    ASSUME TypeInv, ReplicasAreThere, NEW c \in Conns,
           Connection(c) \/ Learn(c) \/ Broadcast(c) \/ Seal(c)
    PROVE  TypeInv'
<1> USE DEF TypeInv
<1>1. CASE Connection(c)
  <2>1. CASE Greet(c)
    BY <2>1 DEF Greet, Goto, TypeOK, BatchInHand, Steps
  <2>2. CASE Join(c)
    BY <2>2 DEF Join, Goto, TypeOK, BatchInHand, Steps
  <2>3. CASE HangUp(c)
    BY <2>3 DEF HangUp, Goto, TypeOK, BatchInHand, Steps
  <2>4. ASSUME NEW ok \in BOOLEAN, Answer(c, ok)
        PROVE  TypeInv'
    BY <2>4 DEF Answer, Goto, TypeOK, BatchInHand, Steps
  <2> QED  BY <1>1, <2>1, <2>2, <2>3, <2>4 DEF Connection
<1>2. CASE Sieve(c)
  BY <1>2, SieveKeepsTypes
<1>3. CASE Record(c)
  <2>1. file' \in Seq(Lessons)
    BY <1>3, RecordsAreTyped, LockdownsAreTyped DEF Record, TypeOK
  <2> QED  BY <1>3, <2>1 DEF Record, Goto, TypeOK, BatchInHand, Steps
<1>4. CASE Broadcast(c)
  BY <1>4, BroadcastKeepsTypes
<1>5. CASE SealFile(c)
  <2>1. spent.seals + 1 \in 0..MaxSeals /\ spent' = [spent EXCEPT !.seals = spent.seals + 1]
    BY <1>5, MemoryAssumption DEF SealFile, TypeOK
  <2>2. spent' \in [lessons : 0..MaxLessons, seals : 0..MaxSeals,
                    sleeps : 0..MaxSleeps, boots : 0..MaxBoots]
    BY <2>1 DEF TypeOK
  <2> QED  BY <1>5, <2>2 DEF SealFile, Goto, TypeOK, BatchInHand, Steps
<1>6. CASE CreateFile(c)
  BY <1>6 DEF CreateFile, Goto, TypeOK, BatchInHand, Steps
<1>7. CASE ClearClusters(c)
  BY <1>7 DEF ClearClusters, Goto, TypeOK, BatchInHand, Steps
<1> QED  BY <1>1, <1>2, <1>3, <1>4, <1>5, <1>6, <1>7 DEF Learn, Seal

LEMMA RestartKeepsTypes ==
    ASSUME TypeInv, Restart
    PROVE  TypeInv'
<1>1. spent.boots + 1 \in 0..MaxBoots /\ spent' = [spent EXCEPT !.boots = spent.boots + 1]
  BY MemoryAssumption DEF Restart, TypeInv, TypeOK
<1>2. spent' \in [lessons : 0..MaxLessons, seals : 0..MaxSeals,
                  sleeps : 0..MaxSleeps, boots : 0..MaxBoots]
  BY <1>1 DEF TypeInv, TypeOK
<1> QED  BY <1>2, LockdownsAreTyped DEF Restart, Asleep, TypeInv, TypeOK, BatchInHand, Steps

LEMMA ReplicasStayThere ==
    ASSUME TypeInv, ReplicasAreThere, [Next]_vars
    PROVE  ReplicasAreThere'
<1> USE MemoryAssumption DEF TypeInv, ReplicasAreThere
<1>1. ASSUME NEW c \in Conns, Connection(c)
      PROVE  ReplicasAreThere'
  <2>1. clusters # None
    <3>1. clusters \in Seq(SUBSET Nat)
      BY DEF TypeOK, Lessons
    <3> QED  BY <3>1
  <2>2. CASE Greet(c)
    BY <2>1, <2>2 DEF Greet, Goto, TypeOK
  <2>3. CASE Join(c)
    BY <2>3 DEF Join, Goto, TypeOK
  <2>4. CASE HangUp(c)
    BY <2>4 DEF HangUp, Goto, TypeOK
  <2>5. ASSUME NEW ok \in BOOLEAN, Answer(c, ok)
        PROVE  ReplicasAreThere'
    BY <2>5 DEF Answer, Goto, TypeOK
  <2> QED  BY <1>1, <2>2, <2>3, <2>4, <2>5 DEF Connection
<1>2. ASSUME NEW c \in Conns, NEW d \in Conns, Write(c, d)
      PROVE  ReplicasAreThere'
  BY <1>2, WriteKeepsReplicas
<1>3. ASSUME NEW c \in Conns,
             Sieve(c) \/ Record(c) \/ Seal(c) \/ TakeClients(c) \/ ReleaseClients(c)
      PROVE  ReplicasAreThere'
  <2>1. UNCHANGED replicas /\ pc[c] # "closed"
        /\ \A d \in Conns : d # c => pc'[d] = pc[d]
    BY <1>3 DEF Sieve, Found, Merge, Discard, Record, Seal, SealFile, CreateFile,
                ClearClusters, TakeClients, ReleaseClients, Goto, TypeOK
  <2> QED  BY <2>1
<1>4. CASE Compact \/ UNCHANGED vars
  BY <1>4 DEF Compact, SleepCycle, LoadRecords, RemoveFile, Rewrite, vars
<1>5. CASE Restart
  BY <1>5 DEF Restart
<1> QED  BY <1>1, <1>2, <1>3, <1>4, <1>5 DEF Next, Learn, Broadcast

LEMMA TypeInvHolds == Spec => [](TypeInv /\ ReplicasAreThere)
<1>1. Init => TypeInv /\ ReplicasAreThere
  BY MemoryAssumption, LockdownsAreTyped
     DEF Init, TypeInv, ReplicasAreThere, TypeOK, BatchInHand, Asleep, Steps
<1>2. TypeInv /\ ReplicasAreThere /\ [Next]_vars => (TypeInv /\ ReplicasAreThere)'
  <2> SUFFICES ASSUME TypeInv, ReplicasAreThere, [Next]_vars
               PROVE  TypeInv'
    BY ReplicasStayThere
  <2>1. CASE \E c \in Conns : Connection(c) \/ Learn(c) \/ Broadcast(c) \/ Seal(c)
    BY <2>1, ConnectionKeepsTypes
  <2>2. CASE Compact
    BY <2>2, CompactKeepsTypes
  <2>3. CASE Restart
    BY <2>3, RestartKeepsTypes
  <2>4. CASE UNCHANGED vars
    BY <2>4 DEF TypeInv, TypeOK, BatchInHand, vars
  <2> QED  BY <2>1, <2>2, <2>3, <2>4 DEF Next
<1> QED  BY <1>1, <1>2, PTL DEF Spec

(* The variables of the memory keep their types.                           *)
THEOREM MemoryTypeCorrect == Spec => []TypeOK
<1>1. TypeInv => TypeOK
  BY DEF TypeInv
<1> QED  BY <1>1, TypeInvHolds, PTL

-----------------------------------------------------------------------------

\* The compactor has read all that the ledger holds: while it has file_mutex
\* nobody appends, and a seal only takes records away.
BatchIsComplete ==
    compactor.at = "loaded" =>
        \A s : InRecords(s, Records) => InRecords(s, compactor.batch)

Backed(s) ==
    \/ InRecords(s, Records)
    \/ compactor.at = "rewriting" /\ InRecords(s, compactor.batch)
    \/ \E c \in Conns : pc[c] = "append" /\ s \in update[c].cluster

BackedInv == MemoryIsBacked /\ BatchIsComplete

LEMMA NothingInNothing == \A s : ~InRecords(s, <<>>)
BY DEF InRecords

\* What was backed stays backed when the clusters stay what they are.
LEMMA StaysBacked ==
    ASSUME BackedInv, UNCHANGED clusters, Sealing => Sealing',
           \A s : Backed(s) => Backed(s)'
    PROVE  MemoryIsBacked'
<1> SUFFICES ASSUME ~Sealing', NEW i \in DOMAIN clusters', NEW s \in clusters'[i]
             PROVE  Backed(s)'
  BY DEF MemoryIsBacked, Backed
<1>1. Backed(s)
  BY DEF BackedInv, MemoryIsBacked, Backed
<1> QED  BY <1>1

LEMMA SieveKeepsBacking ==
    ASSUME TypeInv, BackedInv, NEW c \in Conns, Sieve(c)
    PROVE  BackedInv'
<1>1. BatchIsComplete'
  BY DEF BackedInv, BatchIsComplete, Sieve, Records
<1>2. CASE Discard
  BY <1>1, <1>2 DEF Sieve, Discard, BackedInv, MemoryIsBacked, Records, Sealing
<1>3. ASSUME NEW s \in Lessons, update' = [update EXCEPT ![c] = UpdateOf(TRUE, Len(clusters) + 1, s)]
                \/ \E i \in DOMAIN clusters : update' = [update EXCEPT ![c] = UpdateOf(FALSE, i, s)]
      PROVE  update'[c].cluster = s
  BY <1>3 DEF UpdateOf, TypeInv, TypeOK
<1>4. ASSUME ~Discard
      PROVE  /\ pc' = [pc EXCEPT ![c] = "append"] /\ pc[c] = "ready"
             /\ \A d \in Conns : pc[d] # "append"
             /\ UNCHANGED <<file, compactor>>
             /\ \A i \in DOMAIN clusters' : \A s \in clusters'[i] :
                    s \in update'[c].cluster \/ (i \in DOMAIN clusters /\ s \in clusters[i])
  <2>1. /\ pc' = [pc EXCEPT ![c] = "append"] /\ pc[c] = "ready"
        /\ \A d \in Conns : pc[d] # "append" /\ UNCHANGED <<file, compactor>>
    BY <1>4 DEF Sieve, Found, Merge, Goto, ClustersFree
  <2>2. CASE Found(c)
    <3>1. clusters' = Append(clusters, {Lesson}) /\ clusters \in Seq(Lessons)
      BY <2>2 DEF Found, TypeInv, TypeOK
    <3>2. update'[c].cluster = {Lesson}
      BY <2>2 DEF Found, UpdateOf, TypeInv, TypeOK
    <3>3. \A i \in DOMAIN clusters' : \A s \in clusters'[i] :
                s = Lesson \/ (i \in DOMAIN clusters /\ s \in clusters[i])
      BY <3>1
    <3> QED  BY <2>1, <3>2, <3>3
  <2>3. CASE \E i \in DOMAIN clusters : Merge(c, i)
    <3>1. PICK i \in DOMAIN clusters : Merge(c, i)
      BY <2>3
    <3>2. update'[c].cluster = clusters[i] \union {Lesson}
      BY <3>1 DEF Merge, UpdateOf, TypeInv, TypeOK
    <3>3. clusters' = [clusters EXCEPT ![i] = clusters[i] \union {Lesson}]
      BY <3>1 DEF Merge
    <3> QED  BY <2>1, <3>2, <3>3
  <2> QED  BY <1>4, <2>2, <2>3 DEF Sieve
<1>5. CASE ~Discard
  <2> SUFFICES ASSUME ~Sealing', NEW i \in DOMAIN clusters', NEW s \in clusters'[i]
               PROVE  Backed(s)'
    BY <1>1 DEF BackedInv, MemoryIsBacked, Backed
  <2>1. pc'[c] = "append"
    BY <1>4, <1>5 DEF TypeInv, TypeOK
  <2>2. CASE s \in update'[c].cluster
    BY <2>1, <2>2 DEF Backed
  <2>3. CASE i \in DOMAIN clusters /\ s \in clusters[i]
    <3>1. ~Sealing
      BY <1>4, <1>5 DEF Sealing, TypeInv, TypeOK
    <3>2. Backed(s)
      BY <2>3, <3>1 DEF BackedInv, MemoryIsBacked, Backed
    <3> QED  BY <1>4, <1>5, <3>2 DEF Backed, Records
  <2> QED  BY <1>4, <1>5, <2>2, <2>3
<1> QED  BY <1>2, <1>5

\* Appending a record creates the file if need be.
LEMMA RecordAppends ==
    ASSUME TypeInv, NEW c \in Conns, Record(c)
    PROVE  \A s : InRecords(s, Records') <=> InRecords(s, Records) \/ s \in update[c].cluster
<1>1. Records \in Seq(Lessons) /\ update[c].cluster \in Lessons
  BY RecordsAreTyped, LockdownsAreTyped DEF TypeInv, TypeOK
<1>2. file' = Append(Records, update[c].cluster) /\ file' # None
  <2>1. Append(Records, update[c].cluster) \in Seq(SUBSET Nat)
    BY <1>1 DEF Lessons
  <2> QED  BY <2>1, MemoryAssumption DEF Record
<1> QED  BY <1>1, <1>2, AppendKeepsRecords DEF Records

LEMMA RewriteAppends ==
    ASSUME TypeInv, Rewrite
    PROVE  \A s : InRecords(s, Records')
                    <=> InRecords(s, Records) \/ s \in Head(compactor.batch)
<1>1. /\ compactor.batch \in Seq(Lessons) /\ compactor.batch # <<>>
      /\ Records \in Seq(Lessons)
  BY RecordsAreTyped DEF Rewrite, TypeInv, TypeOK, BatchInHand
<1>2. Head(compactor.batch) \in Lessons
  BY <1>1
<1>3. file' = Append(Records, Head(compactor.batch)) /\ file' # None
  <2>1. Append(Records, Head(compactor.batch)) \in Seq(SUBSET Nat)
    BY <1>1, <1>2 DEF Lessons
  <2> QED  BY <2>1, MemoryAssumption DEF Rewrite
<1> QED  BY <1>1, <1>2, <1>3, AppendKeepsRecords DEF Records

LEMMA RecordKeepsBacking ==
    ASSUME TypeInv, BackedInv, NEW c \in Conns, Record(c)
    PROVE  BackedInv'
<1>1. \A s : InRecords(s, Records') <=> InRecords(s, Records) \/ s \in update[c].cluster
  BY RecordAppends
<1>2. BatchIsComplete'
  BY DEF Record, FileFree, BatchIsComplete
<1>3. \A s : Backed(s) => Backed(s)'
  BY <1>1 DEF Record, Goto, Backed, FileFree, TypeInv, TypeOK
<1>4. Sealing => Sealing'
  BY DEF Record, Goto, Sealing, TypeInv, TypeOK
<1> QED  BY <1>2, <1>3, <1>4, StaysBacked DEF Record, BackedInv

LEMMA CompactKeepsBacking ==
    ASSUME TypeInv, BackedInv, Compact
    PROVE  BackedInv'
<1>0. UNCHANGED <<clusters, pc, update>>
  BY DEF Compact, SleepCycle, LoadRecords, RemoveFile, Rewrite
<1>1. Sealing => Sealing'
  BY <1>0 DEF Sealing
<1>2. CASE SleepCycle
  <2>1. /\ UNCHANGED Records /\ compactor.at = "asleep" /\ compactor'.at = "due"
    BY <1>2 DEF SleepCycle, Records
  <2>2. BatchIsComplete' /\ \A s : Backed(s) => Backed(s)'
    BY <1>0, <2>1 DEF BatchIsComplete, Backed
  <2> QED  BY <1>0, <1>1, <2>2, StaysBacked DEF BackedInv
<1>3. CASE LoadRecords
  <2>1. UNCHANGED Records /\ compactor.at = "due"
    BY <1>3 DEF LoadRecords, Records
  <2>2. \A s : Backed(s) => Backed(s)'
    BY <1>0, <2>1 DEF Backed
  <2>3. BatchIsComplete'
    <3>1. CASE compactor' = Asleep
      BY <3>1 DEF Asleep, BatchIsComplete
    <3>2. CASE \E m \in 1..Len(Records) : \E g \in Groupings(Len(Records), m) :
              compactor' = [at |-> "loaded", batch |-> Compacted(Records, m, g)]
      <4>1. PICK m \in 1..Len(Records) : \E g \in Groupings(Len(Records), m) :
              compactor' = [at |-> "loaded", batch |-> Compacted(Records, m, g)]
        BY <3>2, Zenon
      <4>2. PICK g \in Groupings(Len(Records), m) :
              compactor' = [at |-> "loaded", batch |-> Compacted(Records, m, g)]
        BY <4>1, Zenon
      <4>3. Records \in Seq(Lessons)
        BY RecordsAreTyped DEF TypeInv
      <4>4. compactor'.batch = Compacted(Records, m, g)
        BY <4>2
      <4>5. \A s : InRecords(s, Records) => InRecords(s, compactor'.batch)
        BY <4>3, <4>4, CompactionKeepsEverything
      <4> QED  BY <2>1, <4>5 DEF BatchIsComplete
    <3> QED  BY <1>3, <3>1, <3>2 DEF LoadRecords
  <2> QED  BY <1>0, <1>1, <2>2, <2>3, StaysBacked DEF BackedInv
<1>4. CASE RemoveFile
  <2>1. \A s : InRecords(s, Records) => InRecords(s, compactor.batch)
    BY <1>4 DEF RemoveFile, BackedInv, BatchIsComplete
  <2>2. compactor.at = "loaded" /\ compactor'.at = "rewriting" /\ compactor'.batch = compactor.batch
    BY <1>4 DEF RemoveFile, TypeInv, TypeOK
  <2>3. BatchIsComplete' /\ \A s : Backed(s) => Backed(s)'
    BY <1>0, <2>1, <2>2 DEF BatchIsComplete, Backed
  <2> QED  BY <1>0, <1>1, <2>3, StaysBacked DEF BackedInv
<1>5. CASE Rewrite
  <2>1. /\ compactor.batch \in Seq(Lessons) /\ compactor.batch # <<>>
        /\ Records \in Seq(Lessons) /\ compactor.at = "rewriting"
    BY <1>5, RecordsAreTyped DEF Rewrite, TypeInv, TypeOK, BatchInHand
  <2>4. \A s : InRecords(s, Records') <=> InRecords(s, Records) \/ s \in Head(compactor.batch)
    BY <1>5, RewriteAppends
  <2>5. \A s : InRecords(s, compactor.batch) =>
            InRecords(s, Records') \/ (compactor'.at = "rewriting" /\ InRecords(s, compactor'.batch))
    <3>1. ASSUME NEW s, InRecords(s, compactor.batch), s \notin Head(compactor.batch)
          PROVE  compactor'.at = "rewriting" /\ InRecords(s, compactor'.batch)
      <4>1. Len(compactor.batch) # 1 /\ InRecords(s, Tail(compactor.batch))
        BY <2>1, <3>1, HeadOrTail
      <4>2. compactor'.at = "rewriting" /\ compactor'.batch = Tail(compactor.batch)
        BY <1>5, <2>1, <4>1 DEF Rewrite, TypeInv, TypeOK
      <4> QED  BY <4>1, <4>2
    <3> QED  BY <2>4, <3>1
  <2>6. compactor'.at # "loaded"
    BY <1>5, <2>1 DEF Rewrite, Asleep, TypeInv, TypeOK
  <2>7. BatchIsComplete' /\ \A s : Backed(s) => Backed(s)'
    BY <1>0, <2>1, <2>4, <2>5, <2>6 DEF BatchIsComplete, Backed
  <2> QED  BY <1>0, <1>1, <2>7, StaysBacked DEF BackedInv
<1> QED  BY <1>2, <1>3, <1>4, <1>5 DEF Compact

\* A seal takes records away, and while it lasts nothing is claimed of the
\* clusters; at its end there are none.
LEMMA SealKeepsBacking ==
    ASSUME TypeInv, BackedInv, NEW c \in Conns, Seal(c)
    PROVE  BackedInv'
<1>1. CASE SealFile(c) \/ CreateFile(c)
  <2>1. Records' = <<>> /\ UNCHANGED compactor
    BY <1>1 DEF SealFile, CreateFile, Records
  <2>2. pc'[c] \in {"sealed", "clearing"}
    BY <1>1 DEF SealFile, CreateFile, Goto, TypeInv, TypeOK
  <2>3. BatchIsComplete'
    BY <2>1, NothingInNothing DEF BatchIsComplete
  <2>4. Sealing'
    BY <2>2 DEF Sealing
  <2> QED  BY <2>3, <2>4 DEF BackedInv, MemoryIsBacked
<1>2. CASE ClearClusters(c)
  <2>1. clusters' = <<>> /\ UNCHANGED <<file, compactor>>
    BY <1>2 DEF ClearClusters
  <2>2. BatchIsComplete'
    BY <2>1 DEF BackedInv, BatchIsComplete, Records
  <2> QED  BY <2>1, <2>2 DEF BackedInv, MemoryIsBacked
<1> QED  BY <1>1, <1>2 DEF Seal

LEMMA OthersKeepBacking ==
    ASSUME TypeInv, BackedInv, NEW c \in Conns, Connection(c) \/ Broadcast(c)
    PROVE  BackedInv'
<1>1. UNCHANGED <<clusters, file, compactor>>
  BY DEF Connection, Greet, Answer, Join, HangUp,
         Broadcast, TakeClients, Write, ReleaseClients
<1>2. pc[c] \notin {"append", "sealed", "clearing"}
      /\ \A d \in Conns \ {c} : pc'[d] = pc[d] /\ update'[d] = update[d]
  BY DEF Connection, Greet, Answer, Join, HangUp, Broadcast, TakeClients, Write,
         ReleaseClients, Goto, TypeInv, TypeOK
<1>3. BatchIsComplete'
  BY <1>1 DEF BackedInv, BatchIsComplete, Records
<1>4. \A s : Backed(s) => Backed(s)'
  BY <1>1, <1>2 DEF Backed, Records
<1>5. Sealing => Sealing'
  BY <1>2 DEF Sealing
<1> QED  BY <1>1, <1>3, <1>4, <1>5, StaysBacked DEF BackedInv

LEMMA BackedAlways == Spec => []BackedInv
<1>1. Init => BackedInv
  BY DEF Init, BackedInv, MemoryIsBacked, BatchIsComplete, Asleep
<1>2. ASSUME TypeInv, BackedInv, [Next]_vars
      PROVE  BackedInv'
  <2>1. CASE \E c \in Conns : Connection(c) \/ Learn(c) \/ Broadcast(c) \/ Seal(c)
    BY <1>2, <2>1, OthersKeepBacking, SieveKeepsBacking, RecordKeepsBacking,
       SealKeepsBacking DEF Learn
  <2>2. CASE Compact
    BY <1>2, <2>2, CompactKeepsBacking
  <2>3. CASE Restart
    BY <2>3 DEF Restart, Asleep, BackedInv, MemoryIsBacked, BatchIsComplete
  <2>4. CASE UNCHANGED vars
    <3>1. BatchIsComplete' /\ (Sealing => Sealing') /\ \A s : Backed(s) => Backed(s)'
      BY <1>2, <2>4 DEF vars, BackedInv, BatchIsComplete, Records, Sealing, Backed
    <3> QED  BY <1>2, <2>4, <3>1, StaysBacked DEF vars, BackedInv
  <2> QED  BY <1>2, <2>1, <2>2, <2>3, <2>4 DEF Next
<1> QED  BY <1>1, <1>2, TypeInvHolds, PTL DEF Spec

(* The clusters in memory stay backed by the ledger through every order of  *)
(* consolidations, compactions, seals and restarts.                         *)
THEOREM MemoryStaysBacked == Spec => []MemoryIsBacked
<1>1. BackedInv => MemoryIsBacked
  BY DEF BackedInv
<1> QED  BY <1>1, BackedAlways, PTL

-----------------------------------------------------------------------------
(* What the ledger keeps.                                                  *)

\* What the ledger holds, or the compactor has in hand between the removal of
\* the file and its last record.
InLedger(s) ==
    \/ InRecords(s, Records)
    \/ compactor.at = "rewriting" /\ InRecords(s, compactor.batch)

\* What was once appended to the ledger leaves it only when it is sealed or when
\* the broker starts again: no compaction loses a record, whatever is appended
\* or sealed while it runs (compact_ledger, trigger_quarantine).
LedgerForgetsOnlySealed ==
    [][\/ \E c \in Conns : SealFile(c) \/ CreateFile(c)
       \/ Restart
       \/ \A s \in 1..MaxLessons : InLedger(s) => InLedger(s)']_vars

LEMMA CompactKeepsLedger ==
    ASSUME TypeInv, BatchIsComplete, Compact, NEW s, InLedger(s)
    PROVE  InLedger(s)'
<1>1. CASE SleepCycle
  BY <1>1 DEF SleepCycle, InLedger, Records
<1>2. CASE LoadRecords
  BY <1>2 DEF LoadRecords, InLedger, Records
<1>3. CASE RemoveFile
  <2>1. compactor'.at = "rewriting" /\ compactor'.batch = compactor.batch
    BY <1>3 DEF RemoveFile, TypeInv, TypeOK
  <2>2. InRecords(s, compactor.batch)
    BY <1>3 DEF RemoveFile, BatchIsComplete, InLedger
  <2> QED  BY <2>1, <2>2 DEF InLedger
<1>4. CASE Rewrite
  <2>1. /\ compactor.batch \in Seq(Lessons) /\ compactor.batch # <<>>
        /\ Records \in Seq(Lessons) /\ compactor.at = "rewriting"
    BY <1>4, RecordsAreTyped DEF Rewrite, TypeInv, TypeOK, BatchInHand
  <2>3. InRecords(s, Records') <=> InRecords(s, Records) \/ s \in Head(compactor.batch)
    BY <1>4, RewriteAppends
  <2>4. CASE InRecords(s, Records) \/ s \in Head(compactor.batch)
    BY <2>3, <2>4 DEF InLedger
  <2>5. CASE s \notin Head(compactor.batch) /\ InRecords(s, compactor.batch)
    <3>1. Len(compactor.batch) # 1 /\ InRecords(s, Tail(compactor.batch))
      BY <2>1, <2>5, HeadOrTail
    <3>2. compactor'.at = "rewriting" /\ compactor'.batch = Tail(compactor.batch)
      BY <1>4, <2>1, <3>1 DEF Rewrite, TypeInv, TypeOK
    <3> QED  BY <3>1, <3>2 DEF InLedger
  <2> QED  BY <2>1, <2>4, <2>5 DEF InLedger
<1> QED  BY <1>1, <1>2, <1>3, <1>4 DEF Compact

\* The ledger loses nothing but by a seal or a restart, through every order of
\* appends, compactions and seals: an append waits while the compactor has
\* read and not yet removed the file.
THEOREM LedgerForgetsNothingElse == Spec => LedgerForgetsOnlySealed
<1> DEFINE Kept == \A s \in 1..MaxLessons : InLedger(s) => InLedger(s)'
           Sealed == \E c \in Conns : SealFile(c) \/ CreateFile(c)
<1>1. ASSUME TypeInv, BatchIsComplete, Next PROVE Sealed \/ Restart \/ Kept
  <2>1. CASE Compact
    BY <1>1, <2>1, CompactKeepsLedger
  <2>2. ASSUME NEW c \in Conns, Record(c) PROVE Kept
    <3>1. UNCHANGED compactor /\ \A s : InRecords(s, Records) => InRecords(s, Records')
      BY <1>1, <2>2, RecordAppends DEF Record
    <3> QED  BY <3>1 DEF InLedger
  <2>3. ASSUME NEW c \in Conns,
               Connection(c) \/ Sieve(c) \/ Broadcast(c) \/ ClearClusters(c)
        PROVE  Kept
    <3>1. UNCHANGED <<file, compactor>>
      BY <2>3 DEF Connection, Greet, Answer, Join, HangUp, Sieve, ClearClusters,
                  Broadcast, TakeClients, Write, ReleaseClients
    <3> QED  BY <3>1 DEF InLedger, Records
  <2> QED  BY <1>1, <2>1, <2>2, <2>3 DEF Next, Learn, Seal
<1>2. TypeInv /\ BackedInv /\ [Next]_vars => [Sealed \/ Restart \/ Kept]_vars
  BY <1>1 DEF BackedInv
<1> QED  BY <1>2, TypeInvHolds, BackedAlways, PTL DEF Spec, LedgerForgetsOnlySealed

=============================================================================
