------------------------------ MODULE HiveMemory ------------------------------
(***************************************************************************)
(* The shared memory of the hive (src/broker.rs, src/ledger.rs and the     *)
(* agents' side in src/main.rs).  A consolidation that reached consensus   *)
(* passes the sieve: it is merged into a cluster, starts one, or is        *)
(* discarded as noise; the cluster's centroid is appended to the ledger    *)
(* file and the cluster is broadcast to the agents.  The background task   *)
(* compacts the ledger, an agent that reports an attack has it sealed, and *)
(* a broker that starts reads it back.                                     *)
(*                                                                         *)
(* A consolidation is a number.  A cluster, and the record of a centroid,  *)
(* is the set of consolidations it was bundled from.  Which cluster a      *)
(* centroid is close to, and which records are alike, is left open.        *)
(* HiveBroker says how consensus is reached.                               *)
(***************************************************************************)
EXTENDS Integers, Sequences

CONSTANTS
    Conns,              \* connections that can be open at the same time
    None,               \* no file, no replica
    MaxLessons,         \* bound: consolidations that reach the sieve
    MaxSeals,           \* bound: attacks reported
    MaxSleeps,          \* bound: compactions
    MaxBoots            \* bound: restarts of the broker

ASSUME MemoryAssumption ==
    /\ MaxLessons \in Nat /\ MaxSeals \in Nat /\ MaxSleeps \in Nat /\ MaxBoots \in Nat
    /\ None \notin Seq(SUBSET Nat)

VARIABLES
    clusters,           \* dejavu_clusters
    file,               \* the records of the ledger file, or None
    pc,                 \* pc[c]: where the task of connection c is
    update,             \* update[c]: what the task has to broadcast
    unsent,             \* the clients that the broadcast has yet to write to
    replicas,           \* replicas[c]: the clusters of the agent at c, or None
    compactor,          \* the background task: where it is, what it will write
    spent               \* consolidations, seals, compactions and restarts so far

vars == <<clusters, file, pc, update, unsent, replicas, compactor, spent>>

-----------------------------------------------------------------------------

\* What is sent until there is an update, as a PanicLockdown is: it changes no
\* clusters of an agent.
NoUpdate == [fresh |-> FALSE, index |-> 0, cluster |-> {}]

Asleep == [at |-> "asleep", batch |-> <<>>]

\* A missing file loads as an empty one.
Records == IF file = None THEN <<>> ELSE file

\* The sieve holds dejavu_clusters from its change until the record is written.
ClustersFree == \A c \in Conns : pc[c] # "append"

(* Mutant of FileFree: the append does not take file_mutex. *)
FileAlwaysFree == TRUE

\* The compactor holds file_mutex from its reading to its last record.
FileFree == compactor.at \notin {"loaded", "rewriting"}

\* A broadcast holds clients until it has written to every one of them.
ClientsFree == \A c \in Conns : pc[c] # "sending"

Goto(c, l) == pc' = [pc EXCEPT ![c] = l]

Init ==
    /\ clusters = <<>>
    /\ file = None
    /\ pc = [c \in Conns |-> "closed"]
    /\ update = [c \in Conns |-> NoUpdate]
    /\ unsent = {}
    /\ replicas = [c \in Conns |-> None]
    /\ compactor = Asleep
    /\ spent = [lessons |-> 0, seals |-> 0, sleeps |-> 0, boots |-> 0]

-----------------------------------------------------------------------------
(* The connections.                                                        *)

\* The answer to the handshake holds a copy of the clusters ...
Greet(c) ==
    /\ pc[c] = "closed"
    /\ ClustersFree
    /\ replicas' = [replicas EXCEPT ![c] = clusters]
    /\ Goto(c, "greeted")
    /\ UNCHANGED <<clusters, file, update, unsent, compactor, spent>>

\* ... and is written when the agent reads it, or the task returns ...
Answer(c, ok) ==
    /\ pc[c] = "greeted"
    /\ IF ok THEN Goto(c, "joining") /\ UNCHANGED replicas
             ELSE Goto(c, "closed") /\ replicas' = [replicas EXCEPT ![c] = None]
    /\ UNCHANGED <<clusters, file, update, unsent, compactor, spent>>

\* ... and the connection joins the clients afterwards.
Join(c) ==
    /\ pc[c] = "joining"
    /\ ClientsFree
    /\ Goto(c, "ready")
    /\ UNCHANGED <<clusters, file, update, unsent, replicas, compactor, spent>>

HangUp(c) ==
    /\ pc[c] = "ready"
    /\ replicas' = [replicas EXCEPT ![c] = None]
    /\ Goto(c, "closed")
    /\ UNCHANGED <<clusters, file, update, unsent, compactor, spent>>

-----------------------------------------------------------------------------
(* goldilocks_sieve.                                                       *)

Lesson == spent.lessons + 1

(* Mutant of UpdateOf: the index is counted from zero. *)
UpdateFromZero(new, i, s) == [fresh |-> new, index |-> i - 1, cluster |-> s]

UpdateOf(new, i, s) == [fresh |-> new, index |-> i, cluster |-> s]

\* The first cluster, or fission: a cluster of its own.
Found(c) ==
    /\ clusters' = Append(clusters, {Lesson})
    /\ update' = [update EXCEPT ![c] = UpdateOf(TRUE, Len(clusters) + 1, {Lesson})]
    /\ Goto(c, "append")

Merge(c, i) ==
    LET s == clusters[i] \union {Lesson}
    IN  /\ clusters' = [clusters EXCEPT ![i] = s]
        /\ update' = [update EXCEPT ![c] = UpdateOf(FALSE, i, s)]
        /\ Goto(c, "append")

\* Noise is like no cluster, and there is one it could have been like.
Discard == clusters # <<>> /\ UNCHANGED <<clusters, update, pc>>

Sieve(c) ==
    /\ pc[c] = "ready"
    /\ ClustersFree
    /\ spent.lessons < MaxLessons
    /\ Found(c) \/ (\E i \in DOMAIN clusters : Merge(c, i)) \/ Discard
    /\ spent' = [spent EXCEPT !.lessons = @ + 1]
    /\ UNCHANGED <<file, unsent, replicas, compactor>>

\* append_record, creating the file if need be; then the locks are given back.
Record(c) ==
    /\ pc[c] = "append"
    /\ FileFree
    /\ file' = Append(Records, update[c].cluster)
    /\ Goto(c, "broadcast")
    /\ UNCHANGED <<clusters, update, unsent, replicas, compactor, spent>>

-----------------------------------------------------------------------------
(* broadcast, and the agents.                                              *)

Joined(c) == pc[c] \notin {"closed", "greeted", "joining"}

\* A new cluster is pushed, another replaces the one at its index if any.
Applied(replica, u) ==
    IF u.fresh THEN Append(replica, u.cluster)
    ELSE [i \in DOMAIN replica |-> IF i = u.index THEN u.cluster ELSE replica[i]]

TakeClients(c) ==
    /\ pc[c] = "broadcast"
    /\ ClientsFree
    /\ unsent' = {d \in Conns : Joined(d)}
    /\ Goto(c, "sending")
    /\ UNCHANGED <<clusters, file, update, replicas, compactor, spent>>

\* A client reads the update, or its connection is gone.  Nothing limits how
\* long it may take, and whatever it has read it has applied in order.
Write(c, d) ==
    /\ pc[c] = "sending"
    /\ d \in unsent
    /\ unsent' = unsent \ {d}
    /\ replicas' = IF Joined(d) THEN [replicas EXCEPT ![d] = Applied(@, update[c])]
                   ELSE replicas
    /\ UNCHANGED <<clusters, file, pc, update, compactor, spent>>

ReleaseClients(c) ==
    /\ pc[c] = "sending"
    /\ unsent = {}
    /\ update' = [update EXCEPT ![c] = NoUpdate]
    /\ Goto(c, "ready")
    /\ UNCHANGED <<clusters, file, unsent, replicas, compactor, spent>>

-----------------------------------------------------------------------------
(* trigger_quarantine, when an agent reports an attack.  It takes          *)
(* dejavu_clusters only to clear them, and file_mutex not at all; then the *)
(* lockdown is broadcast.                                                  *)

SealFile(c) ==
    /\ pc[c] = "ready"
    /\ spent.seals < MaxSeals
    /\ file' = None
    /\ spent' = [spent EXCEPT !.seals = @ + 1]
    /\ Goto(c, "sealed")
    /\ UNCHANGED <<clusters, update, unsent, replicas, compactor>>

CreateFile(c) ==
    /\ pc[c] = "sealed"
    /\ file' = <<>>
    /\ Goto(c, "clearing")
    /\ UNCHANGED <<clusters, update, unsent, replicas, compactor, spent>>

ClearClusters(c) ==
    /\ pc[c] = "clearing"
    /\ ClustersFree
    /\ clusters' = <<>>
    /\ Goto(c, "broadcast")
    /\ UNCHANGED <<file, update, unsent, replicas, compactor, spent>>

-----------------------------------------------------------------------------
(* The compactor.                                                          *)

\* The ways to sort n records into m groups, a group being numbered by the
\* first record in it.
Groupings(n, m) ==
    {g \in [1..n -> 1..m] :
        /\ \A j \in 1..m : \E i \in 1..n : g[i] = j
        /\ \A i \in 1..n : g[i] = 1 \/ \E h \in 1..(i - 1) : g[i] <= g[h] + 1}

\* One record per group, bundled from its members.
Compacted(recs, m, g) ==
    [j \in 1..m |-> UNION {recs[i] : i \in {i \in DOMAIN recs : g[i] = j}}]

\* Now and then a look at the ledger, without file_mutex, finds it due.
SleepCycle ==
    /\ compactor.at = "asleep"
    /\ Records # <<>>
    /\ spent.sleeps < MaxSleeps
    /\ compactor' = [at |-> "due", batch |-> <<>>]
    /\ spent' = [spent EXCEPT !.sleeps = @ + 1]
    /\ UNCHANGED <<clusters, file, pc, update, unsent, replicas>>

LoadRecords ==
    LET n == Len(Records)
    IN  /\ compactor.at = "due"
        /\ \/ Records = <<>> /\ compactor' = Asleep
           \/ \E m \in 1..n : \E g \in Groupings(n, m) :
                compactor' = [at |-> "loaded", batch |-> Compacted(Records, m, g)]
        /\ UNCHANGED <<clusters, file, pc, update, unsent, replicas, spent>>

(* Mutant of RemoveFile: dejavu_clusters is taken while file_mutex is held. *)
RemoveFileUnderBoth ==
    /\ compactor.at = "loaded"
    /\ ClustersFree
    /\ file' = None
    /\ compactor' = [compactor EXCEPT !.at = "rewriting"]
    /\ UNCHANGED <<clusters, pc, update, unsent, replicas, spent>>

RemoveFile ==
    /\ compactor.at = "loaded"
    /\ file' = None
    /\ compactor' = [compactor EXCEPT !.at = "rewriting"]
    /\ UNCHANGED <<clusters, pc, update, unsent, replicas, spent>>

Rewrite ==
    /\ compactor.at = "rewriting"
    /\ file' = Append(Records, Head(compactor.batch))
    /\ compactor' = IF Len(compactor.batch) = 1 THEN Asleep
                    ELSE [compactor EXCEPT !.batch = Tail(@)]
    /\ UNCHANGED <<clusters, pc, update, unsent, replicas, spent>>

-----------------------------------------------------------------------------

\* The broker is stopped and started.  The ledger's key is derived from a
\* random vector of the process: what another process wrote does not
\* decrypt, and is put under quarantine.
Restart ==
    /\ spent.boots < MaxBoots
    /\ clusters' = <<>>
    /\ file' = IF Records = <<>> THEN file ELSE <<>>
    /\ pc' = [c \in Conns |-> "closed"]
    /\ update' = [c \in Conns |-> NoUpdate]
    /\ unsent' = {}
    /\ replicas' = [c \in Conns |-> None]
    /\ compactor' = Asleep
    /\ spent' = [spent EXCEPT !.boots = @ + 1]

Connection(c) == Greet(c) \/ (\E ok \in BOOLEAN : Answer(c, ok)) \/ Join(c) \/ HangUp(c)

Learn(c) == Sieve(c) \/ Record(c)

Broadcast(c) == TakeClients(c) \/ (\E d \in Conns : Write(c, d)) \/ ReleaseClients(c)

Seal(c) == SealFile(c) \/ CreateFile(c) \/ ClearClusters(c)

Compact == SleepCycle \/ LoadRecords \/ RemoveFile \/ Rewrite

Next ==
    \/ \E c \in Conns : Connection(c) \/ Learn(c) \/ Broadcast(c) \/ Seal(c)
    \/ Compact
    \/ Restart

Spec == Init /\ [][Next]_vars

-----------------------------------------------------------------------------

Steps == {"closed", "greeted", "joining", "ready", "append", "broadcast", "sending",
          "sealed", "clearing"}

Lessons == SUBSET (1..MaxLessons)

Updates == [fresh : BOOLEAN, index : Nat \ {0}, cluster : Lessons] \union {NoUpdate}

(* Every variable has the type of the field it models.                     *)
TypeOK ==
    /\ clusters \in Seq(Lessons)
    /\ file \in Seq(Lessons) \union {None}
    /\ pc \in [Conns -> Steps]
    /\ update \in [Conns -> Updates]
    /\ unsent \subseteq Conns
    /\ replicas \in [Conns -> Seq(Lessons) \union {None}]
    /\ compactor \in [at : {"asleep", "due", "loaded", "rewriting"}, batch : Seq(Lessons)]
    /\ spent \in [lessons : 0..MaxLessons, seals : 0..MaxSeals,
                  sleeps : 0..MaxSleeps, boots : 0..MaxBoots]

InRecords(s, recs) == \E i \in DOMAIN recs : s \in recs[i]

Sealing == \E c \in Conns : pc[c] \in {"sealed", "clearing"}

(* What the hive remembers is in the ledger: a consolidation that is part   *)
(* of a cluster is part of a record, or the compactor has yet to write it   *)
(* back, or its own task is about to append it.  No append is destroyed by  *)
(* a rewrite and no cluster survives the sealing of its records, though     *)
(* compaction, sieve and quarantine take their locks one by one.            *)
MemoryIsBacked ==
    ~Sealing =>
        \A i \in DOMAIN clusters : \A s \in clusters[i] :
            \/ InRecords(s, Records)
            \/ compactor.at = "rewriting" /\ InRecords(s, compactor.batch)
            \/ \E c \in Conns : pc[c] = "append" /\ s \in update[c].cluster

-----------------------------------------------------------------------------
(* Progress.                                                               *)

\* Every task runs when it can, and tokio's locks are handed on in order.
\* Nothing makes an agent read, so neither Answer nor Write is fair.
FairSpec ==
    /\ Spec
    /\ \A c \in Conns :
         SF_vars(Join(c) \/ Record(c) \/ TakeClients(c) \/ ReleaseClients(c)
                    \/ CreateFile(c) \/ ClearClusters(c))
    /\ WF_vars(LoadRecords \/ RemoveFile \/ Rewrite)

AtTheMemory(c) == pc[c] \in {"append", "sealed", "clearing"}

AtTheSockets(c) == pc[c] \in {"greeted", "joining", "broadcast", "sending"}

(* Whatever the agents do, a task that holds or waits for the locks of the  *)
(* memory gets away from there: the sieve waits for file_mutex under        *)
(* dejavu_clusters (broker.rs:1042), and nobody the other way round.  At    *)
(* the sockets it is done in the end, unless its own agent never reads the  *)
(* answer, or some agent never reads a broadcast, whose task has the        *)
(* clients until it does (broker.rs:403-409).                               *)
MemorySettles ==
    \A c \in Conns :
        /\ AtTheMemory(c) ~> ~AtTheMemory(c)
        /\ \/ <>[](pc[c] = "greeted")
           \/ <>[](unsent # {})
           \/ AtTheSockets(c) ~> ~AtTheSockets(c)

(* An agent that applied an update calls its memory synchronized            *)
(* (main.rs:722): when no task has an update to send, the clusters of       *)
(* every agent that has joined are those of the broker.                     *)
ReplicasAreInSync ==
    (\A c \in Conns : pc[c] \in {"closed", "ready"}) =>
        \A c \in Conns : pc[c] = "ready" => replicas[c] = clusters
=============================================================================
