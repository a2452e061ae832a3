------------------------------ MODULE HiveBroker ------------------------------
(***************************************************************************)
(* The consensus of the hive (src/broker.rs).  A broker accepts the        *)
(* connections of agents; every connection is a task that assigns its      *)
(* agent to a cohort, runs process_consolidation for each submission, and  *)
(* cleans up when the socket closes.  One more task sweeps out the agents  *)
(* that have been silent for too long.  The tasks share maps, each under a *)
(* lock of its own that is held for a statement or two, so an action here  *)
(* is what one task does between two locks.  The lock of the clients is    *)
(* another matter: a broadcast holds it while it writes to one agent after *)
(* the other, and an agent may be in no hurry to read.                     *)
(*                                                                         *)
(* A centroid is a view.  Anxiety and re-entry ticks only weigh the copies *)
(* in a bundle and are left out; what a submission does to the shared      *)
(* memory once consensus is reached is HiveMemory's.                       *)
(***************************************************************************)
EXTENDS Integers, FiniteSets, Sequences, FiniteSetsExt

CONSTANTS
    Agents,             \* agent ids
    Conns,              \* connections that can be open at the same time
    Cohorts,            \* cohort indices
    Roles,              \* Roles[a]: the cohorts agent a may ask for
    Rank,               \* the order in which a HashMap lists its agents
    Views,              \* centroids; two views differ by more than 0.001
    Outlook,            \* Outlook[a]: the views agent a may submit
    Similarity,         \* Similarity[<<v, w>>], in percent
    Bundle(_),          \* the majority bundle of a set of views
    Floor,              \* CONSENSUS_FLOOR, in percent
    MaxSilent,          \* MAX_SILENT_EPOCHS
    OverflowChecks,     \* the build panics when u64 subtraction wraps
    MaxEpoch,           \* bound: submissions in a run
    MaxBusy,            \* bound: tasks at work at the same time
    None                \* nothing stored under a key

ASSUME HiveAssumption ==
    /\ IsFiniteSet(Agents) /\ IsFiniteSet(Conns) /\ IsFiniteSet(Cohorts)
    /\ Cohorts \subseteq Nat
    /\ Roles \in [Agents -> SUBSET Cohorts]
    /\ Rank \in [Agents -> Nat]
    /\ \A a, b \in Agents : a # b => Rank[a] # Rank[b]
    /\ Outlook \in [Agents -> SUBSET Views]
    /\ Similarity \in [Views \X Views -> Int]
    /\ \A v, w \in Views : Similarity[<<v, w>>] = Similarity[<<w, v>>]
    /\ \A S \in SUBSET Views : S # {} => Bundle(S) \in Views
    /\ Floor \in Int /\ MaxSilent \in Nat
    /\ MaxEpoch \in Nat /\ MaxBusy \in Nat
    /\ OverflowChecks \in BOOLEAN
    /\ None \notin Agents /\ None \notin Views /\ None \notin Nat

VARIABLES
    epoch,              \* consolidation_epoch
    states,             \* states[a]: the view in agent_states, or None
    lastSeen,           \* lastSeen[a]: last_seen_tick, or None
    cohortOf,           \* cohortOf[a]: cohort_of_agent, or None
    caches,             \* caches[k]: the similarity cache of cohort k
    interCache,         \* the similarity cache between cohorts
    published,          \* published[k]: cohort_centroids, or None
    pc,                 \* pc[c]: where the task of connection c is
    agentOf,            \* agentOf[c]: who it speaks for, None before that
    task,               \* task[c]: the locals of its process_consolidation
    sweep               \* the sweeping task: where it is, the epoch it read

shared == <<epoch, states, lastSeen, cohortOf, caches, interCache, published>>
vars == <<shared, pc, agentOf, task, sweep>>

-----------------------------------------------------------------------------
(* SimilarityCache.  Hole is the NEG_INFINITY of an invalidated cell.      *)

Hole == -1000

Pairs(n) == {p \in (1..n) \X (1..n) : p[1] < p[2]}

EmptyCache == [ids |-> <<>>, cents |-> <<>>, sims |-> <<>>]

Size(cache) == Len(cache.cents)

Build(ids, cents) ==
    LET n == Len(cents)
    IN  [ids |-> ids, cents |-> cents,
         sims |-> [i \in 1..n |-> [j \in 1..n |->
                     IF i = j THEN Hole ELSE Similarity[<<cents[i], cents[j]>>]]]]

(* Mutant of Recompute: the column is not mirrored. *)
RecomputeTheRowOnly(cache, x, cents) ==
    LET now == [cache.cents EXCEPT ![x] = cents[x]]
    IN  [cache EXCEPT !.cents = now,
            !.sims = [i \in DOMAIN @ |-> [j \in DOMAIN @ |->
                IF i # j /\ x = i THEN Similarity[<<now[i], now[j]>>] ELSE @[i][j]]]]

\* invalidate and recompute: row and column x, after cents[x], against the
\* centroids that are in the cache.
Recompute(cache, x, cents) ==
    LET now == [cache.cents EXCEPT ![x] = cents[x]]
    IN  [cache EXCEPT !.cents = now,
            !.sims = [i \in DOMAIN @ |-> [j \in DOMAIN @ |->
                IF i # j /\ x \in {i, j} THEN Similarity[<<now[i], now[j]>>]
                ELSE @[i][j]]]]

\* agent_ids.clear(): the sizes of sims and centroids stay what they were.
Clear(cache) == [cache EXCEPT !.ids = <<>>]

\* The mean similarity of the first n rows reaches CONSENSUS_FLOOR.
Coherent(cache, n) ==
    MapThenSumSet(LAMBDA p : cache.sims[p[1]][p[2]], Pairs(n))
        >= Floor * Cardinality(Pairs(n))

\* A HashMap lists its keys in the order of their buckets; a cohort
\* snapshot is sorted by index.
Listings(S, order) ==
    {q \in [1..Cardinality(S) -> S] :
        \A i, j \in 1..Cardinality(S) : i < j => order[q[i]] < order[q[j]]}

-----------------------------------------------------------------------------
(* The locks that are held from one action to the next.                    *)

(* Mutant of StatesFree: the disconnect gives agent_states back at once. *)
StatesAlwaysFree == TRUE

\* A disconnect holds agent_states until it has last_seen_tick as well.
StatesFree == \A c \in Conns : pc[c] # "closing"

\* The sweep holds last_seen_tick until it has agent_states as well.
SeenFree == sweep.at # "holding"

\* A broadcast holds clients until it has written to every one of them.
ClientsFree == \A c \in Conns : pc[c] # "send"

Busy(c) == pc[c] \notin {"closed", "ready", "panicked"}

\* One more task may take up its next message, or the sweep its round.
MayBegin ==
    Cardinality({c \in Conns : Busy(c)}) + (IF sweep.at = "asleep" THEN 0 ELSE 1)
        < MaxBusy

\* A local is reset once the code no longer reads it.
NoTask == [view |-> None, epoch |-> 0, changed |-> FALSE, cohort |-> None,
           silent |-> {}, ahead |-> {}, ids |-> <<>>, cents |-> <<>>]

Goto(c, l) == pc' = [pc EXCEPT ![c] = l]

\* process_consolidation returns by way of the memory: with a SyncUpdate to
\* broadcast, or with nothing for noise, and the next message is read.
Return(c) ==
    /\ Goto(c, "announce") \/ Goto(c, "ready")
    /\ task' = [task EXCEPT ![c] = NoTask]

\* It returns early with a DissonanceAlert, which is always broadcast.
Alert(c) == Goto(c, "announce") /\ task' = [task EXCEPT ![c] = NoTask]

\* A panic kills the task of the connection, and nothing is cleaned up.
Die(c) == Goto(c, "panicked") /\ task' = [task EXCEPT ![c] = NoTask]

\* The task of the connection ends, and the broker can accept another.
End(c) == Goto(c, "closed") /\ agentOf' = [agentOf EXCEPT ![c] = None]

Init ==
    /\ epoch = 0
    /\ states = [a \in Agents |-> None]
    /\ lastSeen = [a \in Agents |-> None]
    /\ cohortOf = [a \in Agents |-> None]
    /\ caches = [k \in Cohorts |-> EmptyCache]
    /\ interCache = EmptyCache
    /\ published = [k \in Cohorts |-> None]
    /\ pc = [c \in Conns |-> "closed"]
    /\ agentOf = [c \in Conns |-> None]
    /\ task = [c \in Conns |-> NoTask]
    /\ sweep = [at |-> "asleep", epoch |-> 0]

-----------------------------------------------------------------------------
(* The handshake.                                                          *)

\* assign_cohort; an agent may come back, or come twice, in another role.
Handshake(c, a, k) ==
    /\ pc[c] = "closed"
    /\ k \in Roles[a]
    /\ MayBegin
    /\ agentOf' = [agentOf EXCEPT ![c] = a]
    /\ cohortOf' = [cohortOf EXCEPT ![a] = k]
    /\ task' = [task EXCEPT ![c].cohort = k]
    /\ Goto(c, "greeting")
    /\ UNCHANGED <<epoch, states, lastSeen, caches, interCache, published, sweep>>

\* An agent that has a submission is reconnecting: its caches are cleared.
Greet(c) ==
    LET back == states[agentOf[c]] # None
        k == task[c].cohort
    IN  /\ pc[c] = "greeting"
        /\ StatesFree
        /\ caches' = IF back THEN [caches EXCEPT ![k] = Clear(@)] ELSE caches
        /\ interCache' = IF back THEN Clear(interCache) ELSE interCache
        /\ task' = [task EXCEPT ![c] = NoTask]
        /\ Goto(c, "answer")
        /\ UNCHANGED <<epoch, states, lastSeen, cohortOf, published, agentOf, sweep>>

\* The answer is written when the agent reads it.  When it cannot be written
\* the task returns and cleans nothing up.
Answer(c, ok) ==
    /\ pc[c] = "answer"
    /\ IF ok THEN Goto(c, "join") /\ UNCHANGED agentOf ELSE End(c)
    /\ UNCHANGED <<shared, task, sweep>>

\* The connection is added to the clients.
Join(c) ==
    /\ pc[c] = "join"
    /\ ClientsFree
    /\ Goto(c, "ready")
    /\ UNCHANGED <<shared, agentOf, task, sweep>>

-----------------------------------------------------------------------------
(* process_consolidation, stage 1.                                         *)

Submit(c, v) ==
    /\ pc[c] = "ready"
    /\ v \in Outlook[agentOf[c]]
    /\ epoch < MaxEpoch
    /\ MayBegin
    /\ epoch' = epoch + 1
    /\ task' = [task EXCEPT ![c].view = v, ![c].epoch = epoch + 1]
    /\ Goto(c, "store")
    /\ UNCHANGED <<states, lastSeen, cohortOf, caches, interCache, published,
                   agentOf, sweep>>

Store(c) ==
    LET a == agentOf[c]
    IN  /\ pc[c] = "store"
        /\ StatesFree
        /\ states' = [states EXCEPT ![a] = task[c].view]
        /\ task' = [task EXCEPT ![c].view = None,
                               ![c].changed = states[a] # task[c].view]
        /\ Goto(c, "mark")
        /\ UNCHANGED <<epoch, lastSeen, cohortOf, caches, interCache, published,
                       agentOf, sweep>>

MarkSeen(c) ==
    /\ pc[c] = "mark"
    /\ SeenFree
    /\ lastSeen' = [lastSeen EXCEPT ![agentOf[c]] = task[c].epoch]
    /\ Goto(c, "screen")
    /\ UNCHANGED <<epoch, states, cohortOf, caches, interCache, published,
                   agentOf, task, sweep>>

\* The cohort of the agent, and from the last-seen snapshot whom the filter
\* will leave out.  An agent seen at a later epoch than this task's own makes
\* current_epoch - t wrap to a huge number, or panic, see Collect.
Screen(c) ==
    LET k == cohortOf[agentOf[c]]
        e == task[c].epoch
        seen == {a \in Agents : lastSeen[a] # None}
    IN  /\ pc[c] = "screen"
        /\ \/ /\ k = None
              /\ Return(c)
           \/ /\ k # None
              /\ task' = [task EXCEPT ![c].cohort = k, ![c].epoch = 0,
                            ![c].silent = {a \in seen : e - lastSeen[a] > MaxSilent},
                            ![c].ahead = {a \in seen : lastSeen[a] > e}]
              /\ Goto(c, "collect")
        /\ UNCHANGED <<shared, agentOf, sweep>>

\* The peers: submissions of the cohort that the filter leaves in.
PeersOf(c) ==
    {a \in Agents : /\ states[a] # None
                    /\ a \notin task[c].silent \union task[c].ahead
                    /\ cohortOf[a] = task[c].cohort}

Collect(c) ==
    LET peers == PeersOf(c)
    IN  /\ pc[c] = "collect"
        /\ StatesFree
        /\ \/ /\ OverflowChecks
              /\ \E a \in task[c].ahead : states[a] # None
              /\ Die(c)
           \/ /\ ~(OverflowChecks /\ \E a \in task[c].ahead : states[a] # None)
              /\ Cardinality(peers) < 2
              /\ Goto(c, "withdraw")
              /\ task' = [task EXCEPT ![c].changed = FALSE,
                            ![c].silent = {}, ![c].ahead = {}]
           \/ /\ ~(OverflowChecks /\ \E a \in task[c].ahead : states[a] # None)
              /\ Cardinality(peers) >= 2
              /\ \E q \in Listings(peers, Rank) :
                    task' = [task EXCEPT ![c].ids = q,
                                ![c].cents = [i \in DOMAIN q |-> states[q[i]]],
                                ![c].silent = {}, ![c].ahead = {}]
              /\ Goto(c, "refresh")
        /\ UNCHANGED <<shared, agentOf, sweep>>

\* The cohort's cache is rebuilt when its size is not that of the snapshot;
\* otherwise a submission that moved refreshes its own row, if it is listed.
Refresh(c) ==
    LET t == task[c]
        k == t.cohort
        rows == {x \in 1..Len(caches[k].ids) : caches[k].ids[x] = agentOf[c]}
    IN  /\ pc[c] = "refresh"
        /\ \/ /\ Size(caches[k]) # Len(t.cents)
              /\ caches' = [caches EXCEPT ![k] = Build(t.ids, t.cents)]
           \/ /\ Size(caches[k]) = Len(t.cents)
              /\ t.changed
              /\ \E x \in rows : caches' = [caches EXCEPT ![k] = Recompute(@, x, t.cents)]
           \/ /\ Size(caches[k]) = Len(t.cents)
              /\ ~t.changed \/ rows = {}
              /\ UNCHANGED caches
        /\ task' = [task EXCEPT ![c].changed = FALSE, ![c].ids = <<>>]
        /\ Goto(c, "weigh")
        /\ UNCHANGED <<epoch, states, lastSeen, cohortOf, interCache, published,
                       agentOf, sweep>>

\* The similarities are read under a lock taken anew: the cache may be
\* another task's by now, and too small for this one's indices.
Weigh(c) ==
    LET n == Len(task[c].cents)
        cache == caches[task[c].cohort]
    IN  /\ pc[c] = "weigh"
        /\ IF Size(cache) < n
             THEN Die(c)
             ELSE IF Coherent(cache, n)
                    THEN Goto(c, "publish") /\ UNCHANGED task
                    ELSE Goto(c, "withdraw") /\ task' = [task EXCEPT ![c].cents = <<>>]
        /\ UNCHANGED <<shared, agentOf, sweep>>

\* Too few peers, or too little coherence: the cohort abstains from stage 2.
Withdraw(c) ==
    /\ pc[c] = "withdraw"
    /\ published' = [published EXCEPT ![task[c].cohort] = None]
    /\ Return(c)
    /\ UNCHANGED <<epoch, states, lastSeen, cohortOf, caches, interCache,
                   agentOf, sweep>>

Publish(c) ==
    LET cents == task[c].cents
        v == Bundle({cents[i] : i \in DOMAIN cents})
    IN  /\ pc[c] = "publish"
        /\ published' = [published EXCEPT ![task[c].cohort] = v]
        /\ task' = [task EXCEPT ![c].cents = <<>>, ![c].cohort = None]
        /\ Goto(c, "gather")
        /\ UNCHANGED <<epoch, states, lastSeen, cohortOf, caches, interCache,
                       agentOf, sweep>>

-----------------------------------------------------------------------------
(* process_consolidation, stage 2: the cohorts that did not abstain.       *)

(* Mutant of Voting: the cohorts that abstain are not left out. *)
EveryCohort == Cohorts

Voting == {k \in Cohorts : published[k] # None}

Gather(c) ==
    /\ pc[c] = "gather"
    /\ \/ Cardinality(Voting) < 2 /\ Return(c)
       \/ /\ Cardinality(Voting) >= 2
          /\ \E q \in Listings(Voting, [k \in Cohorts |-> k]) :
                task' = [task EXCEPT ![c].ids = q,
                            ![c].cents = [i \in DOMAIN q |-> published[q[i]]]]
          /\ Goto(c, "confer")
    /\ UNCHANGED <<shared, agentOf, sweep>>

\* Only a change in the number of cohorts rebuilds the cache between them.
Confer(c) ==
    LET t == task[c]
    IN  /\ pc[c] = "confer"
        /\ interCache' = IF Size(interCache) # Len(t.cents)
                           THEN Build(t.ids, t.cents) ELSE interCache
        /\ Goto(c, "decide")
        /\ UNCHANGED <<epoch, states, lastSeen, cohortOf, caches, published,
                       agentOf, task, sweep>>

\* Consensus between the cohorts, or dissonance.
Decide(c) ==
    LET n == Len(task[c].cents)
    IN  /\ pc[c] = "decide"
        /\ IF Size(interCache) < n
             THEN Die(c)
             ELSE IF Coherent(interCache, n) THEN Return(c) ELSE Alert(c)
        /\ UNCHANGED <<shared, agentOf, sweep>>

-----------------------------------------------------------------------------
(* broadcast.                                                              *)

TakeClients(c) ==
    /\ pc[c] = "announce"
    /\ ClientsFree
    /\ Goto(c, "send")
    /\ UNCHANGED <<shared, agentOf, task, sweep>>

\* Every client has read the message, or its socket was closed; nothing
\* limits how long one may take.
Deliver(c) ==
    /\ pc[c] = "send"
    /\ Goto(c, "ready")
    /\ UNCHANGED <<shared, agentOf, task, sweep>>

-----------------------------------------------------------------------------
(* The disconnect.                                                         *)

HangUp(c) ==
    /\ pc[c] = "ready"
    /\ MayBegin
    /\ Goto(c, "leaving")
    /\ UNCHANGED <<shared, agentOf, task, sweep>>

CloseStates(c) ==
    /\ pc[c] = "leaving"
    /\ StatesFree
    /\ states' = [states EXCEPT ![agentOf[c]] = None]
    /\ Goto(c, "closing")
    /\ UNCHANGED <<epoch, lastSeen, cohortOf, caches, interCache, published,
                   agentOf, task, sweep>>

(* Mutant of CloseSeen: the last-seen epoch is left behind. *)
CloseSeenKeepsTheEpoch(c) ==
    LET a == agentOf[c]
    IN  /\ pc[c] = "closing"
        /\ SeenFree
        /\ cohortOf' = [cohortOf EXCEPT ![a] = None]
        /\ task' = [task EXCEPT ![c].cohort = cohortOf[a]]
        /\ Goto(c, "clearing")
        /\ UNCHANGED <<epoch, states, lastSeen, caches, interCache, published,
                       agentOf, sweep>>

CloseSeen(c) ==
    LET a == agentOf[c]
    IN  /\ pc[c] = "closing"
        /\ SeenFree
        /\ lastSeen' = [lastSeen EXCEPT ![a] = None]
        /\ cohortOf' = [cohortOf EXCEPT ![a] = None]
        /\ task' = [task EXCEPT ![c].cohort = cohortOf[a]]
        /\ Goto(c, "clearing")
        /\ UNCHANGED <<epoch, states, caches, interCache, published, agentOf, sweep>>

CloseCaches(c) ==
    LET k == task[c].cohort
    IN  /\ pc[c] = "clearing"
        /\ caches' = IF k # None THEN [caches EXCEPT ![k] = Clear(@)] ELSE caches
        /\ interCache' = IF k # None THEN Clear(interCache) ELSE interCache
        /\ task' = [task EXCEPT ![c] = NoTask]
        /\ End(c)
        /\ UNCHANGED <<epoch, states, lastSeen, cohortOf, published, sweep>>

-----------------------------------------------------------------------------
(* The sweep of the background task, once a minute.                        *)

SweepWakes ==
    /\ sweep.at = "asleep"
    /\ MayBegin
    /\ sweep' = [at |-> "awake", epoch |-> epoch]
    /\ UNCHANGED <<shared, pc, agentOf, task>>

SweepHolds ==
    /\ sweep.at = "awake"
    /\ sweep' = [sweep EXCEPT !.at = "holding"]
    /\ UNCHANGED <<shared, pc, agentOf, task>>

(* Mutant of Dead: an agent with no last-seen epoch counts as dead. *)
DeadOrNeverSeen ==
    {a \in Agents : /\ states[a] # None
                    /\ lastSeen[a] = None \/ sweep.epoch - lastSeen[a] > MaxSilent}

\* saturating_sub: an agent seen after the epoch was read is not dead.
Dead ==
    {a \in Agents : /\ states[a] # None
                    /\ lastSeen[a] # None
                    /\ sweep.epoch - lastSeen[a] > MaxSilent}

(* Mutant of SweepPrunes: last_seen_tick is given back only after a prune. *)
SweepKeepsTheLock ==
    LET hit == {cohortOf[a] : a \in Dead}
    IN  /\ sweep.at = "holding"
        /\ StatesFree
        /\ Dead # {}
        /\ states' = [a \in Agents |-> IF a \in Dead THEN None ELSE states[a]]
        /\ cohortOf' = [a \in Agents |-> IF a \in Dead THEN None ELSE cohortOf[a]]
        /\ caches' = [k \in Cohorts |-> IF k \in hit THEN Clear(caches[k]) ELSE caches[k]]
        /\ interCache' = Clear(interCache)
        /\ sweep' = [at |-> "asleep", epoch |-> 0]
        /\ UNCHANGED <<epoch, lastSeen, published, pc, agentOf, task>>

SweepPrunes ==
    LET hit == {cohortOf[a] : a \in Dead}
    IN  /\ sweep.at = "holding"
        /\ StatesFree
        /\ states' = [a \in Agents |-> IF a \in Dead THEN None ELSE states[a]]
        /\ cohortOf' = [a \in Agents |-> IF a \in Dead THEN None ELSE cohortOf[a]]
        /\ caches' = [k \in Cohorts |-> IF k \in hit THEN Clear(caches[k]) ELSE caches[k]]
        /\ interCache' = IF Dead # {} THEN Clear(interCache) ELSE interCache
        /\ sweep' = [at |-> "asleep", epoch |-> 0]
        /\ UNCHANGED <<epoch, lastSeen, published, pc, agentOf, task>>

-----------------------------------------------------------------------------

Sweep == SweepWakes \/ SweepHolds \/ SweepPrunes

Consolidate(c) ==
    \/ Store(c) \/ MarkSeen(c) \/ Screen(c) \/ Collect(c) \/ Refresh(c) \/ Weigh(c)
    \/ Withdraw(c) \/ Publish(c) \/ Gather(c) \/ Confer(c) \/ Decide(c)

Disconnect(c) == CloseStates(c) \/ CloseSeen(c) \/ CloseCaches(c)

Next ==
    \/ \E c \in Conns, a \in Agents, k \in Cohorts : Handshake(c, a, k)
    \/ \E c \in Conns : Greet(c)
    \/ \E c \in Conns, ok \in BOOLEAN : Answer(c, ok)
    \/ \E c \in Conns : Join(c)
    \/ \E c \in Conns, v \in Views : Submit(c, v)
    \/ \E c \in Conns : Consolidate(c)
    \/ \E c \in Conns : TakeClients(c) \/ Deliver(c)
    \/ \E c \in Conns : HangUp(c)
    \/ \E c \in Conns : Disconnect(c)
    \/ Sweep

Spec == Init /\ [][Next]_vars

-----------------------------------------------------------------------------

Steps == {"closed", "greeting", "answer", "join", "ready", "store", "mark",
          "screen", "collect", "refresh", "weigh", "withdraw", "publish",
          "gather", "confer", "decide", "announce", "send",
          "leaving", "closing", "clearing", "panicked"}

Caches(ids) ==
    [ids : Seq(ids), cents : Seq(Views), sims : Seq(Seq(Int))]

Tasks ==
    [view : Views \union {None}, epoch : 0..MaxEpoch, changed : BOOLEAN,
     cohort : Cohorts \union {None}, silent : SUBSET Agents,
     ahead : SUBSET Agents, ids : Seq(Agents \union Cohorts), cents : Seq(Views)]

(* Every variable has the type of the field it models. *)
TypeOK ==
    /\ epoch \in 0..MaxEpoch
    /\ states \in [Agents -> Views \union {None}]
    /\ lastSeen \in [Agents -> (0..MaxEpoch) \union {None}]
    /\ cohortOf \in [Agents -> Cohorts \union {None}]
    /\ caches \in [Cohorts -> Caches(Agents \union Cohorts)]
    /\ interCache \in Caches(Agents \union Cohorts)
    /\ published \in [Cohorts -> Views \union {None}]
    /\ pc \in [Conns -> Steps]
    /\ agentOf \in [Conns -> Agents \union {None}]
    /\ task \in [Conns -> Tasks]
    /\ sweep \in [at : {"asleep", "awake", "holding"}, epoch : 0..MaxEpoch]

(* What the hive stores about an agent, its submission and the epoch it was *)
(* last seen, is owned by a connection that is still there (or died in a    *)
(* panic): whatever the order of reconnections, late submissions and        *)
(* sweeps, the agent whose connections were all closed leaves nothing.      *)
GoneAgentsLeaveNothing ==
    \A a \in Agents : states[a] # None \/ lastSeen[a] # None =>
        \E c \in Conns :
            agentOf[c] = a /\ pc[c] \notin {"closed", "greeting", "answer", "join"}

(* No submission escapes the sweep, which skips agents without a last-seen  *)
(* epoch: a stored submission has one, or its task is about to write it.    *)
(* This is what the disconnect holds two locks at a time for.               *)
SubmissionsCanExpire ==
    \A a \in Agents : states[a] # None /\ lastSeen[a] = None =>
        \E c \in Conns : agentOf[c] = a /\ pc[c] = "mark"

(* Whoever rebuilt, refreshed or cleared a cache last, every cell off the   *)
(* diagonal is the similarity of the two centroids beside it, no cell is    *)
(* left invalidated, and the ids are those of its rows or were cleared.     *)
CachesAreConsistent ==
    \A cache \in {caches[k] : k \in Cohorts} \union {interCache} :
        LET n == Size(cache)
        IN  /\ Len(cache.sims) = n
            /\ cache.ids = <<>> \/ Len(cache.ids) = n
            /\ \A i, j \in 1..n : i # j =>
                 cache.sims[i][j] = Similarity[<<cache.cents[i], cache.cents[j]>>]

(* Only a disconnect of its own agent or a sweep takes a submission away,   *)
(* and the sweep only after the agent has been silent for more than         *)
(* MAX_SILENT_EPOCHS of the epochs there have been by then, although it     *)
(* decides with an epoch it read two locks earlier.                         *)
SweepTakesOnlyTheSilent ==
    [][\A a \in Agents : states[a] # None /\ states'[a] = None =>
         \/ \E c \in Conns : agentOf[c] = a /\ pc[c] = "leaving"
         \/ lastSeen[a] # None /\ epoch - lastSeen[a] > MaxSilent]_vars

-----------------------------------------------------------------------------
(* Progress.                                                               *)

\* The sweep has last_seen_tick and waits for agent_states; a disconnect has
\* agent_states and waits for last_seen_tick.
LockCycle == sweep.at = "holding" /\ ~StatesFree

\* tokio's scheduler runs every task that can run, and its locks are handed
\* on in the order they were asked for.  Nothing makes an agent read what is
\* written to it, so neither Answer nor Deliver is fair.
FairSpec ==
    /\ Spec
    /\ \A c \in Conns :
         SF_vars(Greet(c) \/ Join(c) \/ Consolidate(c) \/ TakeClients(c)
                    \/ Disconnect(c))
    /\ SF_vars(SweepHolds \/ SweepPrunes)

AtTheSockets(c) == pc[c] \in {"answer", "join", "announce", "send"}

(* Every handshake, submission and disconnect is dealt with, or its task    *)
(* panics, or gets as far as the sockets, whatever other tasks wait for     *)
(* there: only the sweep and a disconnect, waiting for each other, can keep *)
(* it from that.  And at the sockets it is done in the end, unless its own  *)
(* agent never reads the answer, or some broadcast always has the clients   *)
(* (broker.rs:403-409 holds them while it writes, for as long as it takes). *)
TasksSettle ==
    \A c \in Conns :
        /\ Busy(c) ~> ~Busy(c) \/ AtTheSockets(c) \/ LockCycle
        /\ \/ <>[](pc[c] = "answer")
           \/ <>[]~ClientsFree
           \/ AtTheSockets(c) ~> ~Busy(c)

(* The tests list among the key invariants that the lock hierarchy survives *)
(* 10,000 concurrent consolidations (broker.rs:1607): no two tasks wait for *)
(* each other.                                                              *)
NoLockCycle == ~LockCycle

(* An agent is excluded from a quorum when it has not submitted for         *)
(* MAX_SILENT_EPOCHS epochs (broker.rs:81-83), so an agent that was seen    *)
(* after this task's own epoch is not.                                      *)
OnlyTheSilentAreExcluded ==
    [][\A c \in Conns : pc[c] = "collect" /\ pc'[c] # "collect" =>
         \A a \in task[c].ahead : states[a] # None /\ cohortOf[a] = task[c].cohort =>
            pc'[c] = "refresh" /\ a \in {task'[c].ids[i] : i \in DOMAIN task'[c].ids}]_vars

(* A cleared cache is rebuilt by the next consolidation of its cohort, as   *)
(* the disconnect says of it (broker.rs:1488-1491).                         *)
ClearedCachesAreRebuilt ==
    [][\A c \in Conns : Refresh(c) =>
         LET k == task[c].cohort
         IN  caches[k].ids = <<>> => caches'[k] = Build(task[c].ids, task[c].cents)]_vars
=============================================================================
