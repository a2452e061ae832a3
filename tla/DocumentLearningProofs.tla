----------------------- MODULE DocumentLearningProofs -----------------------
(***************************************************************************)
(* Theorems about DocumentLearning for every value of its constants.  What *)
(* the document operations do to the service is one of its own steps, an   *)
(* insertion, or a withdrawal from the engine alone, so that the lemmas    *)
(* about the service carry over.                                           *)
(***************************************************************************)
EXTENDS DocumentLearning, ConversationServiceProofs

-----------------------------------------------------------------------------
(* Items.                                                                  *)

ItemsType == items \in [Documents -> Seq(Item)]

LEMMA SeqDomain ==
    ASSUME NEW S, NEW s \in Seq(S)
    PROVE  /\ DOMAIN s = 1 .. Len(s) /\ Len(s) \in Nat
           /\ DOMAIN s \subseteq Nat \ {0}
           /\ \A i \in DOMAIN s : s[i] \in S
<1>1. DOMAIN s = 1 .. Len(s) /\ Len(s) \in Nat
  BY LenProperties
<1> QED  BY <1>1, ElementOfSeq

\* What a review writes: one item, and of it the status and the link.
LEMMA ReviewWrites ==
    ASSUME ItemsType, NEW d \in Documents, NEW i \in DOMAIN items[d],
           NEW s \in {"proposed", "accepted", "rejected", "committed"},
           NEW a \in Ids \cup {0}, Review(d, i, s, a)
    PROVE  /\ items' \in [Documents -> Seq(Item)]
           /\ \A e \in Documents : DOMAIN items'[e] = DOMAIN items[e]
           /\ \A e \in Documents : \A j \in DOMAIN items[e] :
                e # d \/ j # i => items'[e][j] = items[e][j]
           /\ items'[d][i] = [claim |-> items[d][i].claim, status |-> s,
                              assertion |-> a]
<1> DEFINE v == [claim |-> items[d][i].claim, status |-> s, assertion |-> a]
<1>1. items[d] \in Seq(Item)
  BY DEF ItemsType
<1>2. i \in 1 .. Len(items[d]) /\ DOMAIN items[d] = 1 .. Len(items[d])
      /\ items[d][i] \in Item
  BY <1>1, SeqDomain
<1>3. v \in Item
  BY <1>2 DEF Item
<1> HIDE DEF v
<1>4. /\ [items[d] EXCEPT ![i] = v] \in Seq(Item)
      /\ Len([items[d] EXCEPT ![i] = v]) = Len(items[d])
      /\ \A j \in 1 .. Len(items[d]) :
            [items[d] EXCEPT ![i] = v][j] = IF j = i THEN v ELSE items[d][j]
  BY <1>1, <1>2, <1>3, ExceptSeq
<1>5. items' = [items EXCEPT ![d] = [items[d] EXCEPT ![i] = v]]
  BY DEF Review, v, ItemsType
<1>6. DOMAIN [items[d] EXCEPT ![i] = v] = DOMAIN items[d]
  OBVIOUS
<1>7. \A e \in Documents : items'[e] =
        IF e = d THEN [items[d] EXCEPT ![i] = v] ELSE items[e]
  BY <1>5 DEF ItemsType
<1>8. items' \in [Documents -> Seq(Item)]
  BY <1>4, <1>5 DEF ItemsType
<1> QED  BY <1>2, <1>3, <1>4, <1>6, <1>7, <1>8 DEF v

LEMMA ReviewLinks ==
    ASSUME ItemsType, NEW d \in Documents, NEW i \in DOMAIN items[d],
           NEW s \in {"proposed", "accepted", "rejected", "committed"},
           NEW a \in Ids \cup {0}, Review(d, i, s, a)
    PROVE  /\ \A e \in Documents : DOMAIN items'[e] = DOMAIN items[e]
           /\ \A e \in Documents : \A j \in DOMAIN items[e] :
                e # d \/ j # i => items'[e][j] = items[e][j]
           /\ items'[d][i].assertion = a
           /\ items'[d][i].claim = items[d][i].claim
<1>1. /\ \A e \in Documents : DOMAIN items'[e] = DOMAIN items[e]
      /\ \A e \in Documents : \A j \in DOMAIN items[e] :
            e # d \/ j # i => items'[e][j] = items[e][j]
      /\ items'[d][i] = [claim |-> items[d][i].claim, status |-> s, assertion |-> a]
  BY ReviewWrites
<1> QED  BY <1>1

\* What store_document writes: the proposals, none of them linked.
LEMMA StoreWrites ==
    ASSUME ItemsType, job.doc \in Documents, StoreItems
    PROVE  /\ items' \in [Documents -> Seq(Item)]
           /\ \A e \in Documents : e # job.doc => items'[e] = items[e]
           /\ \A i \in DOMAIN items'[job.doc] :
                LET x == items'[job.doc][i]
                IN  /\ x.assertion = 0
                    /\ x.status = IF x.claim = NoClaim THEN "rejected" ELSE "proposed"
<1> DEFINE p == Proposals[job.doc]
           s == [i \in DOMAIN p |->
                    [claim |-> p[i],
                     status |-> IF p[i] = NoClaim THEN "rejected" ELSE "proposed",
                     assertion |-> 0]]
<1>1. p \in Seq(Claims \cup {NoClaim})
  BY DocumentAssumption
<1>2. DOMAIN p = 1 .. Len(p) /\ Len(p) \in Nat /\ \A i \in DOMAIN p : p[i] \in Claims \cup {NoClaim}
  BY <1>1, SeqDomain
<1>3. s \in [1 .. Len(p) -> Item]
  BY <1>2 DEF Item
<1>4. s \in Seq(Item)
  BY <1>2, <1>3, SeqDef
<1>5. items' = [items EXCEPT ![job.doc] = s]
  BY DEF StoreItems
<1>6. /\ items' \in [Documents -> Seq(Item)]
      /\ \A e \in Documents : e # job.doc => items'[e] = items[e]
      /\ items'[job.doc] = s
  BY <1>4, <1>5 DEF ItemsType
<1>7. \A i \in DOMAIN s : /\ s[i].assertion = 0
                          /\ s[i].status = IF s[i].claim = NoClaim THEN "rejected"
                                           ELSE "proposed"
  OBVIOUS
<1> HIDE DEF s
<1> QED  BY <1>6, <1>7

-----------------------------------------------------------------------------
(* Type correctness.  To know what a job works on, the rows have to be     *)
(* known: an item is linked exactly while it is committed, and an item     *)
(* without a claim is never accepted.                                      *)

Row(x) ==
    /\ x.status = "committed" <=> x.assertion # 0
    /\ x.claim = NoClaim => x.status = "rejected"

ItemRows == \A d \in Documents : \A i \in DOMAIN items[d] : Row(items[d][i])

JobRows ==
    /\ job.op \in {"accept", "commit"} =>
        \A i \in job.todo : items[job.doc][i].claim # NoClaim
    /\ job.op = "remove" =>
        /\ \A i \in job.todo : items[job.doc][i].status = "committed"
        /\ documents[job.doc] # "removed"

Typed == DocumentsTypeOK /\ ItemRows /\ JobRows

LEMMA JobTyped ==
    ASSUME NEW op \in {"none", "import", "accept", "commit", "remove"},
           NEW d \in Documents \cup {NoDocument},
           NEW todo \in SUBSET (Nat \ {0}), NEW learn \in BOOLEAN
    PROVE  Job(op, d, todo, learn) \in JobType
BY DEF Job, JobType

LEMMA NoJobTyped == NoJob \in JobType /\ NoJob.op = "none" /\ NoJob.inserted = 0
BY DEF NoJob, Job, JobType

LEMMA StatusNumbers ==
    ASSUME ItemsType, NEW d \in Documents, NEW s
    PROVE  /\ WithStatus(d, s) \subseteq DOMAIN items[d]
           /\ WithStatus(d, s) \in SUBSET (Nat \ {0})
           /\ \A i \in WithStatus(d, s) : items[d][i].status = s
<1>1. items[d] \in Seq(Item)
  BY DEF ItemsType
<1> QED  BY <1>1, SeqDomain DEF WithStatus

LEMMA SourcedType ==
    ASSUME sources \in [Ids -> SUBSET (Documents \cup {Hand})],
           NEW by \in Documents \cup {Hand}
    PROVE  Sourced(by) \in [Ids -> SUBSET (Documents \cup {Hand})]
BY DEF Sourced

\* The beginning of a job, by a handler that has just taken the lock.
LEMMA BeginTyped ==
    ASSUME Typed, turn = Idle, UNCHANGED <<vars, documents, items, sources>>,
           NEW op \in {"import", "accept", "commit", "remove"},
           NEW d \in Documents, NEW todo, NEW learn \in BOOLEAN,
           todo \subseteq DOMAIN items[d],
           op \in {"accept", "commit"} =>
                \A i \in todo : items[d][i].claim # NoClaim,
           op = "remove" => /\ \A i \in todo : items[d][i].status = "committed"
                            /\ documents[d] # "removed",
           job' = Job(op, d, todo, learn)
    PROVE  Typed'
<1>1. items[d] \in Seq(Item)
  BY DEF Typed, DocumentsTypeOK
<1>2. todo \in SUBSET (Nat \ {0})
  BY <1>1, SeqDomain
<1>3. job' \in JobType /\ job'.op = op /\ job'.doc = d /\ job'.todo = todo
  <2>1. job' \in JobType
    BY <1>2, JobTyped
  <2> QED  BY <2>1 DEF Job
<1>4. TypeOK' /\ turn' = Idle'
  BY NextType DEF Typed, DocumentsTypeOK, vars, Idle
<1>5. DocumentsTypeOK'
  BY <1>3, <1>4 DEF Typed, DocumentsTypeOK
<1>6. ItemRows'
  BY DEF Typed, ItemRows, Row
<1>7. JobRows'
  BY <1>3 DEF JobRows
<1> QED  BY <1>5, <1>6, <1>7 DEF Typed

\* The end of a job, wherever it ends.
LEMMA EndTyped ==
    ASSUME Typed, TypeOK', UNCHANGED <<items, sources>>,
           documents' \in [Documents -> {"absent", "imported", "committed", "removed"}],
           job' = NoJob
    PROVE  Typed'
<1>1. DocumentsTypeOK' /\ JobRows'
  BY NoJobTyped DEF Typed, DocumentsTypeOK, JobRows, NoJob, Job
<1>2. ItemRows'
  BY DEF Typed, ItemRows, Row
<1> QED  BY <1>1, <1>2 DEF Typed

\* A review that keeps a row a row, by a job that goes on or by no job.
LEMMA ReviewTyped ==
    ASSUME Typed, UNCHANGED <<vars, documents, sources>>,
           NEW d \in Documents, NEW i \in DOMAIN items[d],
           NEW s \in {"proposed", "accepted", "rejected", "committed"},
           NEW a \in Ids \cup {0}, Review(d, i, s, a),
           s = "committed" <=> a # 0,
           items[d][i].claim = NoClaim => s = "rejected",
           job' \in JobType,
           \/ job = NoJob /\ job' = NoJob
           \/ job # NoJob /\ job'.op = job.op /\ job'.doc = job.doc
              /\ job'.todo \subseteq job.todo /\ job.op # "remove"
    PROVE  Typed'
<1>1. ItemsType
  BY DEF Typed, DocumentsTypeOK, ItemsType
<1>2. /\ items' \in [Documents -> Seq(Item)]
      /\ \A e \in Documents : DOMAIN items'[e] = DOMAIN items[e]
      /\ \A e \in Documents : \A j \in DOMAIN items[e] :
            e # d \/ j # i => items'[e][j] = items[e][j]
      /\ items'[d][i] = [claim |-> items[d][i].claim, status |-> s, assertion |-> a]
  BY <1>1, ReviewWrites
<1>3. Row(items'[d][i])
  BY <1>2 DEF Row
<1>4. ItemRows'
  BY <1>2, <1>3 DEF Typed, ItemRows
<1>5. TypeOK' /\ (turn = Idle => turn' = Idle')
  BY NextType DEF Typed, DocumentsTypeOK, vars, Idle
<1>6. DocumentsTypeOK'
  BY <1>2, <1>5 DEF Typed, DocumentsTypeOK
<1>7. \A e \in Documents : \A j \in DOMAIN items[e] :
        items'[e][j].claim = items[e][j].claim
  BY <1>2
<1>8. JobRows'
  <2>1. CASE job' = NoJob
    BY <2>1, NoJobTyped DEF JobRows
  <2>2. CASE job # NoJob /\ job'.op = job.op /\ job'.doc = job.doc
             /\ job'.todo \subseteq job.todo /\ job.op # "remove"
    BY <2>2, <1>7 DEF Typed, DocumentsTypeOK, JobRows
  <2> QED  BY <2>1, <2>2
<1> QED  BY <1>4, <1>6, <1>8 DEF Typed

-----------------------------------------------------------------------------
(* What the steps of commit and removal do to the service.                 *)

\* Everything but what an insertion or a withdrawal writes.
RestOfService == <<view, viewStale, turn, nextTurn, storageError, backup, backups>>

\* One item of the job is inserted as an assertion of its claim.
Inserts(i, a) ==
    /\ i \in job.todo /\ NextItem(i) /\ a \in Ids
    /\ items[job.doc][i].claim \in Claims
    /\ InsertAssertion(a, items[job.doc][i].claim)
    /\ engine' = Stored(engine, items[job.doc][i].claim)
    /\ factIds' = [factIds EXCEPT ![items[job.doc][i].claim] = a]
    /\ job' = [job EXCEPT !.inserted = a]

LEMMA CommitInserts ==
    ASSUME Typed, CommitNext
    PROVE  \E i, a : Inserts(i, a)
<1>1. PICK i \in job.todo, a \in Ids :
        NextItem(i) /\ CommitItem(i, a) /\ job' = [job EXCEPT !.inserted = a]
  BY DEF CommitNext
<1>2. job.op = "commit" /\ job # NoJob
  BY NoJobTyped DEF CommitNext
<1>3. items[job.doc] \in Seq(Item) /\ i \in DOMAIN items[job.doc]
  BY <1>2 DEF Typed, DocumentsTypeOK
<1>4. items[job.doc][i] \in Item
  BY <1>3, SeqDomain
<1>5. items[job.doc][i].claim \in Claims
  BY <1>2, <1>4 DEF Typed, JobRows, Item
<1> QED  BY <1>1, <1>5 DEF CommitItem, Inserts

\* The claim of a row that is there leaves the engine, and nothing else.
DropsClaim(a) ==
    /\ a \in Ids
    /\ assertions[a].status # "absent"
    /\ Withdraw(assertions[a].claim)
    /\ UNCHANGED <<storeVars, RestOfService>>

LEMMA RetractDoes ==
    ASSUME Typed, RetractNext
    PROVE  \E i \in job.todo :
            LET a == items[job.doc][i].assertion
            IN  /\ a \in Ids
                /\ job' = AfterRetraction(i, a)
                /\ \/ RetractKnowledge(a)
                   \/ DropsClaim(a)
                   \/ UNCHANGED vars
<1>1. PICK i \in job.todo :
        LET a == items[job.doc][i].assertion
        IN  /\ NextItem(i)
            /\ \/ /\ RetractAssertion(a)
                  /\ Withdraw(assertions[a].claim)
                  /\ ApplyStale(a)
               \/ /\ IF assertions[a].status = "absent"
                     THEN UNCHANGED <<engine, factIds>>
                     ELSE Withdraw(assertions[a].claim)
                  /\ UNCHANGED <<storeVars, view, viewStale>>
            /\ job' = AfterRetraction(i, a)
  BY DEF RetractNext
<1> DEFINE a == items[job.doc][i].assertion
<1>2. job.op = "remove" /\ job # NoJob /\ job.doc \in Documents
  BY NoJobTyped DEF RetractNext, Typed, DocumentsTypeOK
<1>3. items[job.doc] \in Seq(Item) /\ i \in DOMAIN items[job.doc]
  BY <1>2 DEF Typed, DocumentsTypeOK
<1>4. items[job.doc][i] \in Item
  BY <1>3, SeqDomain
<1>5. a \in Ids
  BY <1>2, <1>3, <1>4 DEF Typed, JobRows, ItemRows, Row, Item
<1>6. UNCHANGED <<turn, nextTurn, storageError, backup, backups>> /\ turn = Idle
  BY <1>2 DEF RetractNext, Typed, DocumentsTypeOK
<1>7. CASE RetractAssertion(a) /\ Withdraw(assertions[a].claim) /\ ApplyStale(a)
  <2>1. RetractKnowledge(a)
    BY <1>6, <1>7 DEF RetractKnowledge
  <2> QED  BY <1>1, <1>5, <2>1
<1>8. CASE /\ assertions[a].status = "absent" /\ UNCHANGED <<engine, factIds>>
           /\ UNCHANGED <<storeVars, view, viewStale>>
  <2>1. UNCHANGED vars
    BY <1>6, <1>8 DEF vars, memoryVars
  <2> QED  BY <1>1, <1>5, <2>1
<1>9. CASE /\ assertions[a].status # "absent" /\ Withdraw(assertions[a].claim)
           /\ UNCHANGED <<storeVars, view, viewStale>>
  <2>1. DropsClaim(a)
    BY <1>5, <1>6, <1>9 DEF DropsClaim, RestOfService
  <2> QED  BY <1>1, <1>5, <2>1
<1> QED  BY <1>1, <1>7, <1>8, <1>9

LEMMA InsertsTyped ==
    ASSUME TypeOK, NEW c \in Claims, NEW a \in Ids, InsertAssertion(a, c),
           engine' = Stored(engine, c), factIds' = [factIds EXCEPT ![c] = a],
           UNCHANGED RestOfService
    PROVE  TypeOK'
<1>1. StoreTypeOK' /\ engine' \in [Claims -> SUBSET {"clean", "contradicted"}]
  BY InsertType, StoredType DEF TypeOK
<1> QED  BY <1>1 DEF TypeOK, RestOfService

LEMMA DropsTyped ==
    ASSUME TypeOK, NEW a, DropsClaim(a)
    PROVE  TypeOK'
<1>1. /\ engine' \in [Claims -> SUBSET {"clean", "contradicted"}]
      /\ factIds' \in [Claims -> Ids \cup {0}]
  BY WithdrawType DEF TypeOK, MemoryTypeOK, DropsClaim
<1> QED  BY <1>1 DEF TypeOK, StoreTypeOK, storeVars, DropsClaim, RestOfService

LEMMA TypedInit == DocumentsInit => Typed
<1> SUFFICES ASSUME DocumentsInit PROVE Typed
  OBVIOUS
<1>1. TypeOK
  BY InitType DEF DocumentsInit
<1>2. << >> \in Seq(Item) /\ DOMAIN << >> = {}
  BY EmptySeq
<1>3. DocumentsTypeOK
  BY <1>1, <1>2, NoJobTyped DEF DocumentsInit, DocumentsTypeOK
<1> QED
  BY <1>2, <1>3, NoJobTyped DEF DocumentsInit, Typed, ItemRows, JobRows

LEMMA TypedNext == Typed /\ [DocumentsNext]_allVars => Typed'
<1> SUFFICES ASSUME Typed, [DocumentsNext]_allVars PROVE Typed'
  OBVIOUS
<1>0. ItemsType /\ TypeOK /\ job \in JobType
  BY DEF Typed, DocumentsTypeOK, ItemsType
<1>a. UNCHANGED vars => TypeOK'
  BY <1>0, NextType
<1>b. ASSUME NEW d \in Documents, NEW s,
             s \in {"proposed", "accepted", "committed"}
      PROVE  /\ WithStatus(d, s) \subseteq DOMAIN items[d]
             /\ \A i \in WithStatus(d, s) : items[d][i].status = s
             /\ \A i \in WithStatus(d, s) : items[d][i].claim # NoClaim
  <2>1. /\ WithStatus(d, s) \subseteq DOMAIN items[d]
        /\ \A i \in WithStatus(d, s) : items[d][i].status = s
    BY <1>0, StatusNumbers
  <2>2. \A i \in WithStatus(d, s) : items[d][i].claim # NoClaim
    BY <1>b, <2>1 DEF Typed, ItemRows, Row
  <2> QED  BY <2>1, <2>2
<1>1. ASSUME NEW d \in Documents, Import(d) PROVE Typed'
  <2> DEFINE opened == [documents EXCEPT ![d] = "imported"]
  <2>1. /\ documents' \in [Documents -> {"absent", "imported", "committed", "removed"}]
        /\ TypeOK' /\ turn' = Idle
        /\ UNCHANGED <<items, sources>>
    BY <1>1, <1>a DEF Import, Typed, DocumentsTypeOK, Unlocked, vars
  <2>2. /\ job' \in JobType
        /\ job'.op = "import" /\ job'.doc = d /\ job'.todo = {}
    BY <1>1, JobTyped DEF Import, Job
  <2>3. DocumentsTypeOK'
    BY <2>1, <2>2 DEF Typed, DocumentsTypeOK, Idle
  <2>4. ItemRows' /\ JobRows'
    BY <2>1, <2>2 DEF Typed, ItemRows, JobRows, Row
  <2> QED  BY <2>3, <2>4 DEF Typed
<1>2. CASE StoreItems
  <2>1. job.doc \in Documents /\ job # NoJob
    BY <1>2, NoJobTyped DEF StoreItems, Typed, DocumentsTypeOK
  <2>2. /\ items' \in [Documents -> Seq(Item)]
        /\ \A e \in Documents : e # job.doc => items'[e] = items[e]
        /\ \A i \in DOMAIN items'[job.doc] :
             LET x == items'[job.doc][i]
             IN  /\ x.assertion = 0
                 /\ x.status = IF x.claim = NoClaim THEN "rejected" ELSE "proposed"
    BY <1>0, <1>2, <2>1, StoreWrites
  <2>3. ItemRows'
    BY <2>2 DEF Typed, ItemRows, Row
  <2>4. job' = NoJob /\ TypeOK' /\ UNCHANGED <<documents, sources>>
    BY <1>2, <1>a DEF StoreItems
  <2>5. DocumentsTypeOK'
    BY <2>2, <2>4, NoJobTyped DEF Typed, DocumentsTypeOK
  <2> QED  BY <2>3, <2>4, <2>5, NoJobTyped DEF Typed, JobRows
<1>3. ASSUME NEW d \in Documents, NEW i \in DOMAIN items[d],
             Accept(d, i) \/ Reject(d, i)
      PROVE  Typed'
  BY <1>0, <1>3, ReviewTyped DEF Accept, Reject, Unlocked
<1>4. ASSUME NEW d \in Documents, NEW learn \in BOOLEAN, BeginAcceptAll(d, learn)
      PROVE  Typed'
  BY <1>4, <1>b, BeginTyped DEF BeginAcceptAll, Unlocked, documentTables
<1>5. CASE AcceptNext
  <2>1. PICK i \in job.todo :
            /\ Review(job.doc, i, "accepted", 0)
            /\ job' = [job EXCEPT !.todo = @ \ {i}]
    BY <1>5 DEF AcceptNext
  <2>2. /\ job # NoJob /\ job.doc \in Documents
        /\ i \in DOMAIN items[job.doc] /\ items[job.doc][i].claim # NoClaim
    BY <1>5, NoJobTyped DEF AcceptNext, Typed, DocumentsTypeOK, JobRows
  <2>3. /\ job' \in JobType /\ job'.op = job.op /\ job'.doc = job.doc
        /\ job'.todo \subseteq job.todo
    BY <1>0, <2>1 DEF JobType
  <2> QED  BY <1>5, <2>1, <2>2, <2>3, ReviewTyped DEF AcceptNext
<1>6. CASE EndAcceptAll
  <2>1. job # NoJob /\ job.doc \in Documents /\ turn = Idle
    BY <1>6, NoJobTyped DEF EndAcceptAll, Typed, DocumentsTypeOK
  <2>2. CASE job' = NoJob
    BY <1>6, <1>a, <2>2, EndTyped
    DEF EndAcceptAll, documentTables, Typed, DocumentsTypeOK
  <2>3. CASE job' = Job("commit", job.doc, WithStatus(job.doc, "accepted"), FALSE)
    <3> DEFINE W == WithStatus(job.doc, "accepted")
    <3>1. W \subseteq DOMAIN items[job.doc] /\ \A i \in W : items[job.doc][i].claim # NoClaim
      BY <1>b, <2>1
    <3>2. UNCHANGED <<vars, documents, items, sources>>
      BY <1>6 DEF EndAcceptAll, documentTables
    <3>3. \A d \in Documents : d = job.doc => job' = Job("commit", d, W, FALSE)
      BY <2>3
    <3> HIDE DEF W
    <3> QED  BY <2>1, <3>1, <3>2, <3>3, BeginTyped
  <2> QED  BY <1>6, <2>2, <2>3 DEF EndAcceptAll
<1>7. ASSUME NEW d \in Documents, BeginCommit(d) PROVE Typed'
  BY <1>7, <1>b, BeginTyped DEF BeginCommit, Unlocked, documentTables
<1>8. CASE CommitNext
  <2>1. PICK i, a : Inserts(i, a)
    BY <1>8, CommitInserts
  <2>2. UNCHANGED <<RestOfService, documents, items>> /\ sources' = Sourced(job.doc)
    BY <1>8 DEF CommitNext, RestOfService
  <2>3. job.op = "commit" /\ job # NoJob /\ job.doc \in Documents /\ turn = Idle
    BY <1>8, NoJobTyped DEF CommitNext, Typed, DocumentsTypeOK
  <2>4. TypeOK'
    BY <1>0, <2>1, <2>2, InsertsTyped DEF Inserts
  <2>5. sources' \in [Ids -> SUBSET (Documents \cup {Hand})]
    BY <2>2, <2>3, SourcedType DEF Typed, DocumentsTypeOK
  <2>6. /\ job' \in JobType /\ job'.op = job.op /\ job'.doc = job.doc
        /\ job'.todo = job.todo
    BY <1>0, <2>1 DEF JobType, Inserts
  <2>7. turn' = Idle'
    BY <2>2, <2>3 DEF RestOfService, Idle
  <2>8. DocumentsTypeOK'
    BY <2>2, <2>3, <2>4, <2>5, <2>6, <2>7 DEF Typed, DocumentsTypeOK
  <2> QED  BY <2>2, <2>3, <2>6, <2>8 DEF Typed, ItemRows, Row, JobRows
<1>9. CASE MarkCommitted
  <2>1. PICK i \in job.todo :
            /\ Review(job.doc, i, "committed", job.inserted)
            /\ job' = [job EXCEPT !.todo = @ \ {i}, !.inserted = 0, !.created = TRUE]
    BY <1>9 DEF MarkCommitted
  <2>2. /\ job # NoJob /\ job.doc \in Documents
        /\ i \in DOMAIN items[job.doc] /\ items[job.doc][i].claim # NoClaim
    BY <1>9, NoJobTyped DEF MarkCommitted, Typed, DocumentsTypeOK, JobRows
  <2>3. /\ job' \in JobType /\ job'.op = job.op /\ job'.doc = job.doc
        /\ job'.todo \subseteq job.todo /\ job.inserted \in Ids \cup {0}
    BY <1>0, <2>1 DEF JobType
  <2> QED  BY <1>9, <2>1, <2>2, <2>3, ReviewTyped DEF MarkCommitted
<1>10. ASSUME EndCommit \/ EndRemoval \/ CutShort PROVE Typed'
  <2>1. job # NoJob /\ job.doc \in Documents
    BY <1>10, NoJobTyped DEF EndCommit, EndRemoval, CutShort, Typed, DocumentsTypeOK
  <2>2. /\ documents' \in [Documents -> {"absent", "imported", "committed", "removed"}]
        /\ UNCHANGED <<vars, items, sources>> /\ job' = NoJob
    BY <1>10, <2>1
    DEF EndCommit, EndRemoval, CutShort, documentTables, Typed, DocumentsTypeOK
  <2> QED  BY <1>a, <2>2, EndTyped
<1>11. ASSUME NEW d \in Documents, BeginRemoval(d) PROVE Typed'
  BY <1>11, <1>b, BeginTyped DEF BeginRemoval, ToRetract, Unlocked, documentTables
<1>12. CASE RetractNext
  <2>1. PICK i \in job.todo :
          LET a == items[job.doc][i].assertion
          IN  /\ job' = AfterRetraction(i, a)
              /\ RetractKnowledge(a) \/ DropsClaim(a) \/ UNCHANGED vars
              /\ a \in Ids
    BY <1>12, RetractDoes
  <2>2. TypeOK'
    BY <1>0, <2>1, NextType, DropsTyped DEF Next, KnowledgeStep
  <2>3. job # NoJob /\ job.op = "remove" /\ job.doc \in Documents /\ turn = Idle
    BY <1>12, NoJobTyped DEF RetractNext, Typed, DocumentsTypeOK
  <2>4. UNCHANGED <<turn, documents, items, sources>>
    BY <1>12 DEF RetractNext, documentTables
  <2>5. /\ job' \in JobType /\ job'.op = job.op /\ job'.doc = job.doc
        /\ job'.todo \subseteq job.todo
    BY <1>0, <2>1 DEF JobType, AfterRetraction
  <2>6. DocumentsTypeOK'
    BY <2>2, <2>3, <2>4, <2>5 DEF Typed, DocumentsTypeOK, Idle
  <2> QED  BY <2>3, <2>4, <2>5, <2>6 DEF Typed, ItemRows, Row, JobRows
<1>13. CASE OtherOperation
  <2>1. TypeOK'
    BY <1>0, <1>13, NextType DEF OtherOperation, Next
  <2>2. sources' \in [Ids -> SUBSET (Documents \cup {Hand})]
    BY <1>13, SourcedType DEF OtherOperation, Typed, DocumentsTypeOK
  <2>3. job' = NoJob /\ UNCHANGED <<documents, items>>
    BY <1>13 DEF OtherOperation
  <2>4. DocumentsTypeOK'
    BY <2>1, <2>2, <2>3, NoJobTyped DEF Typed, DocumentsTypeOK
  <2> QED  BY <2>3, <2>4, NoJobTyped DEF Typed, ItemRows, Row, JobRows
<1>14. CASE RestartAll
  <2>1. TypeOK'
    BY <1>0, <1>14, NextType DEF RestartAll, Next
  <2> QED
    BY <1>14, <2>1, EndTyped DEF RestartAll, documentTables, Typed, DocumentsTypeOK
<1>15. CASE UNCHANGED allVars
  <2>1. UNCHANGED <<vars, documents, items, sources, job>>
    BY <1>15 DEF allVars, documentVars
  <2>2. TypeOK' /\ UNCHANGED turn
    BY <1>a, <2>1 DEF vars
  <2> QED
    BY <2>1, <2>2
    DEF Typed, DocumentsTypeOK, ItemRows, JobRows, Row, Idle, NoJob, Job
<1> QED
  BY <1>1, <1>2, <1>3, <1>4, <1>5, <1>6, <1>7, <1>8, <1>9, <1>10, <1>11,
     <1>12, <1>13, <1>14, <1>15
  DEF DocumentsNext, ReviewStep, CommitStep, RemovalStep

LEMMA TypedAlways == DocumentsSpec => []Typed
BY TypedInit, TypedNext, PTL DEF DocumentsSpec

\* The composition keeps its types, and no document operation runs inside a
\* turn: for any documents and proposals, however jobs are cut short.
THEOREM DocumentsTypeCorrect == DocumentsSpec => []DocumentsTypeOK
<1>1. Typed => DocumentsTypeOK
  BY DEF Typed
<1> QED  BY <1>1, TypedAlways, PTL

-----------------------------------------------------------------------------
(* The service under document operations.                                  *)

\* Every step of the composition is a step of the service, the insertion of a
\* committed item or the withdrawal of a claim from the engine alone.
LEMMA ServiceSteps ==
    ASSUME Typed, [DocumentsNext]_allVars
    PROVE  \/ [Next]_vars
           \/ \E i, a : Inserts(i, a) /\ UNCHANGED RestOfService
           \/ \E a : DropsClaim(a)
<1>1. ASSUME ReviewStep \/ MarkCommitted \/ EndCommit \/ EndRemoval \/ CutShort
             \/ (\E d \in Documents : BeginCommit(d) \/ BeginRemoval(d))
      PROVE  UNCHANGED vars
  BY <1>1
  DEF ReviewStep, Import, StoreItems, Accept, Reject, BeginAcceptAll, AcceptNext,
      EndAcceptAll, MarkCommitted, EndCommit, EndRemoval, CutShort, BeginCommit,
      BeginRemoval
<1>2. CASE CommitNext
  BY <1>2, CommitInserts DEF CommitNext, RestOfService
<1>3. CASE RetractNext
  <2>1. PICK i \in job.todo :
          LET a == items[job.doc][i].assertion
          IN  /\ a \in Ids
              /\ RetractKnowledge(a) \/ DropsClaim(a) \/ UNCHANGED vars
    BY <1>3, RetractDoes
  <2> QED  BY <2>1 DEF Next, KnowledgeStep
<1>4. ASSUME OtherOperation \/ RestartAll \/ UNCHANGED allVars PROVE [Next]_vars
  BY <1>4 DEF OtherOperation, RestartAll, Next, allVars
<1> QED
  BY <1>1, <1>2, <1>3, <1>4 DEF DocumentsNext, CommitStep, RemovalStep

LEMMA ServiceDurable ==
    ASSUME Typed, [DocumentsNext]_allVars
    PROVE  DurableStep
<1>1. CASE [Next]_vars
  BY <1>1, StepIsDurableStep DEF Typed, DocumentsTypeOK
<1>2. ASSUME NEW i, NEW a, Inserts(i, a), UNCHANGED RestOfService
      PROVE  DurableStep
  BY <1>2 DEF Inserts, RestOfService, DurableStep, Transaction
<1>3. ASSUME NEW a, DropsClaim(a) PROVE DurableStep
  BY <1>3 DEF DropsClaim, RestOfService, DurableStep
<1> QED  BY <1>1, <1>2, <1>3, ServiceSteps

LEMMA InsertKeepsSupported ==
    ASSUME TypeOK, FreshIds, Supported, NEW c \in Claims, NEW a \in Ids,
           InsertAssertion(a, c),
           factIds' = [factIds EXCEPT ![c] = a],
           engine' = Stored(engine, c)
    PROVE  Supported'
<1>1. PutVersion(a, "active", c) /\ a = nextAssertion
  BY DEF InsertAssertion
<1>2. \A d : ActiveWith(d) \ {a} \subseteq ActiveWith(d)'
  BY <1>1, OneRowChanges, OthersStayActive DEF TypeOK
<1>3. a >= nextAssertion
  BY <1>1 DEF TypeOK, StoreTypeOK
<1>4. \A d : a \notin ActiveWith(d)
  BY <1>3 DEF FreshIds, ActiveWith, Active, NoRow
<1>5. a \in ActiveWith(c)' /\ \A d : ActiveWith(d) \subseteq ActiveWith(d)'
  BY <1>1, <1>2, <1>4, WrittenRow DEF TypeOK
<1>6. \A d \in Claims : factIds'[d] = IF d = c THEN a ELSE factIds[d]
  BY DEF TypeOK
<1>7. a # 0
  BY StoreAssumption DEF Ids
<1>8. \A d \in Claims \ {c} : engine'[d] # {} => engine[d] # {}
  BY DEF Stored
<1> QED  BY <1>5, <1>6, <1>7, <1>8 DEF Supported

LEMMA ServiceSupported ==
    ASSUME ~ FaultyReads
    PROVE  Typed /\ FreshIds /\ Supported /\ [DocumentsNext]_allVars => Supported'
<1> SUFFICES ASSUME Typed, FreshIds, Supported, [DocumentsNext]_allVars
             PROVE  Supported'
  OBVIOUS
<1>0. TypeOK
  BY DEF Typed, DocumentsTypeOK
<1>1. CASE [Next]_vars
  BY <1>0, <1>1, SupportedNext
<1>2. ASSUME NEW i, NEW a, Inserts(i, a) PROVE Supported'
  BY <1>0, <1>2, InsertKeepsSupported DEF Inserts
<1>3. ASSUME NEW a, DropsClaim(a) PROVE Supported'
  <2>1. \A d : ActiveWith(d) \ {a} \subseteq ActiveWith(d)'
    BY <1>3 DEF DropsClaim, storeVars, ActiveWith, Active
  <2> QED  BY <1>0, <1>3, <2>1, WithdrawKeepsSupported DEF DropsClaim
<1> QED  BY <1>1, <1>2, <1>3, ServiceSteps

LEMMA TablesAlways == DocumentsSpec => [](Typed /\ FreshIds /\ Histories)
<1>1. DocumentsInit => FreshIds /\ Histories
  BY FreshIdsInit, HistoriesInit DEF DocumentsInit
<1>2. Typed => TypeOK
  BY DEF Typed, DocumentsTypeOK
<1>3. Typed /\ FreshIds /\ Histories /\ [DocumentsNext]_allVars
        => (FreshIds /\ Histories)'
  BY <1>2, ServiceDurable, FreshIdsNext, HistoriesNext
<1> QED  BY <1>1, <1>3, TypedAlways, PTL DEF DocumentsSpec

\* While reads succeed, committing and removing documents leaves the engine
\* supported too: what it answers from is an active assertion's claim, cited
\* under that assertion's id.
THEOREM LearnedEngineStaysSupported ==
    ASSUME ~ FaultyReads
    PROVE  DocumentsSpec => []EngineIsSupported
<1>1. DocumentsInit => Supported
  BY SupportedInit DEF DocumentsInit
<1>2. Typed /\ FreshIds /\ Supported /\ [DocumentsNext]_allVars => Supported'
  BY ServiceSupported
<1>3. Supported => EngineIsSupported
  BY DEF Supported, EngineIsSupported
<1> QED  BY <1>1, <1>2, <1>3, TablesAlways, PTL DEF DocumentsSpec

-----------------------------------------------------------------------------
(* What else the service promises, with documents.                         *)

LEMMA InsertKeepsCurrent ==
    ASSUME TypeOK, FreshIds, Current, NEW i, NEW a, Inserts(i, a),
           UNCHANGED RestOfService
    PROVE  Current'
<1>1. InsertAssertion(a, items[job.doc][i].claim) /\ a \in Ids
  BY DEF Inserts
<1>2. \A b \in Ids \ {a} : assertions'[b] = assertions[b]
  BY <1>1, OneRowChanges DEF InsertAssertion, TypeOK
<1>3. a >= nextAssertion
  BY <1>1, StoreAssumption DEF InsertAssertion, Ids
<1>4. \A d : a \notin ActiveWith(d)
  BY <1>1, <1>3 DEF FreshIds, ActiveWith, Active, NoRow
<1>5. \A d : ActiveWith(d) \subseteq ActiveWith(d)'
  <2>1. \A d : ActiveWith(d) \ {a} \subseteq ActiveWith(d)'
    BY <1>2, OthersStayActive DEF TypeOK
  <2> QED  BY <1>4, <2>1
<1>6. UNCHANGED <<turns, backup, turn>>
  BY <1>1 DEF InsertAssertion, RestOfService
<1> QED  BY <1>5, <1>6, GrowingKeepsCites DEF Current

LEMMA LearnedCurrentNext ==
    ASSUME ~ FaultyReads
    PROVE  Typed /\ FreshIds /\ TablesLinked /\ Supported /\ Current
                /\ [DocumentsNext]_allVars => Current'
<1> SUFFICES ASSUME Typed, FreshIds, TablesLinked, Supported, Current,
                    [DocumentsNext]_allVars
             PROVE  Current'
  OBVIOUS
<1>0. TypeOK
  BY DEF Typed, DocumentsTypeOK
<1>1. CASE [Next]_vars
  BY <1>0, <1>1, CurrentNext
<1>2. ASSUME NEW i, NEW a, Inserts(i, a), UNCHANGED RestOfService PROVE Current'
  BY <1>0, <1>2, InsertKeepsCurrent
<1>3. ASSUME NEW a, DropsClaim(a) PROVE Current'
  BY <1>3 DEF DropsClaim, storeVars, RestOfService, Current
<1> QED  BY <1>1, <1>2, <1>3, ServiceSteps

LEMMA LearnedTablesLinked ==
    DocumentsSpec => [](Typed /\ FreshIds /\ Histories /\ TablesLinked)
<1>1. DocumentsInit => TablesLinked
  BY TablesLinkedInit DEF DocumentsInit
<1>2. Typed /\ TablesLinked /\ [DocumentsNext]_allVars => TablesLinked'
  BY ServiceDurable, TablesLinkedNext DEF Typed, DocumentsTypeOK
<1> QED  BY <1>1, <1>2, TablesAlways, PTL DEF DocumentsSpec

LEMMA LearnedCurrentAlways ==
    ASSUME ~ FaultyReads
    PROVE  DocumentsSpec =>
              [](Typed /\ FreshIds /\ TablesLinked /\ Supported /\ Current)
<1>1. DocumentsInit => Supported /\ Current
  BY SupportedInit, CurrentInit DEF DocumentsInit
<1>2. Typed /\ FreshIds /\ Supported /\ [DocumentsNext]_allVars => Supported'
  BY ServiceSupported
<1>3. Typed /\ FreshIds /\ TablesLinked /\ Supported /\ Current
        /\ [DocumentsNext]_allVars => Current'
  BY LearnedCurrentNext
<1> QED  BY <1>1, <1>2, <1>3, LearnedTablesLinked, PTL DEF DocumentsSpec

\* While reads succeed, no commit and no removal of a document leaves a turn
\* fresh that rests on what it withdrew, wherever the job was cut short.
THEOREM LearnedTurnsStayCurrent ==
    ASSUME ~ FaultyReads
    PROVE  DocumentsSpec => []FreshTurnsAreCurrent
<1>1. Current => FreshTurnsAreCurrent
  BY CitesActiveWith DEF Current, FreshTurnsAreCurrent
<1> QED  BY <1>1, LearnedCurrentAlways, PTL

\* The version rows stay complete and the dependency tables in agreement
\* through every document operation, with failing reads too.
THEOREM LearnedTablesStaySound ==
    DocumentsSpec => [](HistoryIsComplete /\ ConclusionsMatchTurns)
<1>1. Histories => HistoryIsComplete
  BY DEF Histories, TellsAll, HistoryIsComplete
<1>2. TablesLinked => ConclusionsMatchTurns
  BY DEF TablesLinked, LinkedTurn, ConclusionsMatchTurns
<1> QED  BY <1>1, <1>2, LearnedTablesLinked, PTL

\* No document brings a retracted or forgotten assertion back: a commit always
\* inserts one that was never there.
THEOREM LearnedTombstonesStayFinal == DocumentsSpec => TombstonesAreFinal
<1>1. Typed => TypeOK
  BY DEF Typed, DocumentsTypeOK
<1>2. Typed /\ FreshIds /\ [DocumentsNext]_allVars
        => [NothingRevived \/ assertions' = backup.assertions]_vars
  BY <1>1, ServiceDurable, DurableIsFinal
<1> QED
  BY <1>2, TablesAlways, PTL DEF DocumentsSpec, TombstonesAreFinal

\* A document operation leaves the turns and the view alone, but for the marks.
LEMMA LearnedFlows ==
    ASSUME Typed, [DocumentsNext]_allVars
    PROVE  TurnFlow
<1>1. CASE [Next]_vars
  BY <1>1, StepFlows DEF Typed, DocumentsTypeOK
<1>2. ASSUME UNCHANGED <<turns, RestOfService>> PROVE TurnFlow
  BY <1>2 DEF RestOfService, TurnFlow, TurnsStay
<1>3. ASSUME NEW i, NEW a, Inserts(i, a), UNCHANGED RestOfService PROVE TurnFlow
  BY <1>2, <1>3 DEF Inserts, InsertAssertion
<1>4. ASSUME NEW a, DropsClaim(a) PROVE TurnFlow
  BY <1>2, <1>4 DEF DropsClaim, storeVars
<1> QED  BY <1>1, <1>3, <1>4, ServiceSteps

\* The ConversationStore shows the latest turns while documents are learned
\* and removed.
THEOREM LearnedViewStaysRecent == DocumentsSpec => []ViewIsRecent
<1>1. DocumentsInit => TurnsInOrder /\ ViewIsRecent
  BY TurnsInOrderInit
  DEF DocumentsInit, Init, StoreInit, NoTurnRow, ViewIsRecent
<1>2. Typed /\ TurnsInOrder /\ ViewIsRecent /\ [DocumentsNext]_allVars
        => (TurnsInOrder /\ ViewIsRecent)'
  BY LearnedFlows, TurnsInOrderNext, ViewIsRecentNext DEF Typed, DocumentsTypeOK
<1> QED  BY <1>1, <1>2, TypedAlways, PTL DEF DocumentsSpec

\* While reads succeed, the marks a client sees are those of the tables, when a
\* document is removed as well: remove_document marks the view by the same
\* dependents as the transaction.
THEOREM LearnedViewStaysInAgreement ==
    ASSUME ~ FaultyReads
    PROVE  DocumentsSpec => []ViewAgreesOnStaleness
<1>1. DocumentsInit => TurnsInOrder /\ ViewAgreesOnStaleness
  BY TurnsInOrderInit DEF DocumentsInit, Init, ViewAgreesOnStaleness
<1>2. Typed /\ TurnsInOrder /\ [DocumentsNext]_allVars => TurnsInOrder'
  BY LearnedFlows, TurnsInOrderNext DEF Typed, DocumentsTypeOK
<1>3. Typed /\ TurnsInOrder /\ ViewAgreesOnStaleness /\ [DocumentsNext]_allVars
        => ViewAgreesOnStaleness'
  <2> SUFFICES ASSUME Typed, TurnsInOrder, ViewAgreesOnStaleness,
                      [DocumentsNext]_allVars
               PROVE  ViewAgreesOnStaleness'
    OBVIOUS
  <2>1. CASE [Next]_vars
    BY <2>1, ViewAgreesNext DEF Typed, DocumentsTypeOK
  <2>2. ASSUME UNCHANGED <<turns, RestOfService>> PROVE ViewAgreesOnStaleness'
    BY <2>2 DEF RestOfService, ViewAgreesOnStaleness
  <2>3. ASSUME NEW i, NEW a, Inserts(i, a), UNCHANGED RestOfService
        PROVE  ViewAgreesOnStaleness'
    BY <2>2, <2>3 DEF Inserts, InsertAssertion
  <2>4. ASSUME NEW a, DropsClaim(a) PROVE ViewAgreesOnStaleness'
    BY <2>2, <2>4 DEF DropsClaim, storeVars
  <2> QED  BY <2>1, <2>3, <2>4, ServiceSteps
<1> QED  BY <1>1, <1>2, <1>3, TypedAlways, PTL DEF DocumentsSpec

-----------------------------------------------------------------------------
(* Removal.                                                                *)

\* The items a removal has gone through without a refusal are out of force.
RemovedSoFar ==
    job.op = "remove" /\ ~ job.refused =>
        \A i \in DOMAIN items[job.doc] \ job.todo :
            items[job.doc][i].status = "committed" =>
                items[job.doc][i].assertion \notin Active

LEMMA NothingComesBack ==
    ASSUME Typed, FreshIds, RetractNext
    PROVE  Active' \subseteq Active
<1>0. TypeOK /\ StoreTypeOK
  BY DEF Typed, DocumentsTypeOK, TypeOK
<1>1. PICK i \in job.todo :
        LET a == items[job.doc][i].assertion
        IN  a \in Ids /\ (RetractKnowledge(a) \/ DropsClaim(a) \/ UNCHANGED vars)
  BY RetractDoes
<1> DEFINE a == items[job.doc][i].assertion
<1>2. CASE RetractKnowledge(a)
  <2>1. PutVersion(a, "retracted", assertions[a].claim) /\ a \in Active
    BY <1>2 DEF RetractKnowledge, RetractAssertion
  <2> HIDE DEF a
  <2>2. \A b \in Ids \ {a} : assertions'[b] = assertions[b]
    BY <1>0, <2>1, OneRowChanges
  <2> QED  BY <2>1, <2>2 DEF Active
<1>3. CASE DropsClaim(a) \/ UNCHANGED vars
  BY <1>3 DEF DropsClaim, vars, storeVars, Active
<1> QED  BY <1>1, <1>2, <1>3

LEMMA RemovedSoFarNext ==
    Typed /\ FreshIds /\ RemovedSoFar /\ [DocumentsNext]_allVars => RemovedSoFar'
<1> SUFFICES ASSUME Typed, FreshIds, RemovedSoFar, [DocumentsNext]_allVars,
                    job'.op = "remove", ~ job'.refused
             PROVE  \A i \in DOMAIN items'[job'.doc] \ job'.todo :
                        items'[job'.doc][i].status = "committed" =>
                            items'[job'.doc][i].assertion \notin Active'
  BY DEF RemovedSoFar
<1>1. CASE UNCHANGED allVars
  BY <1>1 DEF allVars, documentVars, vars, storeVars, RemovedSoFar, Active
<1>2. ASSUME NEW d \in Documents, BeginRemoval(d)
      PROVE  \A i \in DOMAIN items'[job'.doc] \ job'.todo :
                items'[job'.doc][i].status # "committed"
  <2>1. job'.doc = d /\ job'.todo = ToRetract(d) /\ UNCHANGED items
    BY <1>2 DEF BeginRemoval, Job, documentTables
  <2> QED  BY <2>1 DEF ToRetract, WithStatus
<1>3. CASE RetractNext
  <2>1. PICK i \in job.todo :
          LET a == items[job.doc][i].assertion
          IN  a \in Ids /\ job' = AfterRetraction(i, a)
    BY <1>3, RetractDoes
  <2> DEFINE a == items[job.doc][i].assertion
  <2>2. /\ job'.doc = job.doc /\ job'.todo = job.todo \ {i}
        /\ job'.refused = (job.refused \/ Refused(a))
        /\ UNCHANGED items /\ job.op = "remove"
    BY <1>3, <2>1 DEF RetractNext, AfterRetraction, documentTables, Typed,
                      DocumentsTypeOK, JobType
  <2>3. ~ job.refused /\ a \notin Active \cap Active'
    BY <2>2 DEF Refused
  <2>4. Active' \subseteq Active
    BY <1>3, NothingComesBack
  <2> QED  BY <2>2, <2>3, <2>4 DEF RemovedSoFar
<1>4. ASSUME NEW d \in Documents, Import(d) PROVE FALSE
  BY <1>4 DEF Import, Job
<1>5. ASSUME NEW d \in Documents, NEW learn \in BOOLEAN, BeginAcceptAll(d, learn)
      PROVE  FALSE
  BY <1>5 DEF BeginAcceptAll, Job
<1>6. ASSUME NEW d \in Documents, BeginCommit(d) PROVE FALSE
  BY <1>6 DEF BeginCommit, Job
<1>7. ASSUME \/ StoreItems \/ EndAcceptAll \/ EndCommit \/ EndRemoval \/ CutShort
             \/ OtherOperation \/ RestartAll
             \/ \E d \in Documents : \E i \in DOMAIN items[d] : Accept(d, i) \/ Reject(d, i)
      PROVE  FALSE
  BY <1>7, NoJobTyped
  DEF StoreItems, EndAcceptAll, EndCommit, EndRemoval, CutShort, OtherOperation,
      RestartAll, Accept, Reject, Unlocked, Job
<1>8. ASSUME AcceptNext \/ CommitNext \/ MarkCommitted PROVE FALSE
  BY <1>8 DEF AcceptNext, CommitNext, MarkCommitted, Typed, DocumentsTypeOK, JobType
<1> QED
  BY <1>1, <1>2, <1>3, <1>4, <1>5, <1>6, <1>7, <1>8
  DEF DocumentsNext, ReviewStep, CommitStep, RemovalStep

\* A removal that marks its document removed has left none of the assertions
\* of its items in force, unless the database refused a retraction: for any
\* documents, and whatever happened to the assertions before.
THEOREM RemovalIsThorough == DocumentsSpec => RemovalLeavesNothing
<1> DEFINE Thorough ==
        job.op = "remove" /\ ~job.refused /\ documents'[job.doc] = "removed" =>
            \A i \in DOMAIN items[job.doc] :
                items[job.doc][i].status = "committed" =>
                    items[job.doc][i].assertion \notin Active'
<1>1. DocumentsInit => RemovedSoFar
  BY NoJobTyped DEF DocumentsInit, RemovedSoFar
<1>2. Typed /\ RemovedSoFar /\ [DocumentsNext]_allVars => Thorough
  <2> SUFFICES ASSUME Typed, RemovedSoFar, [DocumentsNext]_allVars,
                      job.op = "remove", ~job.refused,
                      documents'[job.doc] = "removed"
               PROVE  \A i \in DOMAIN items[job.doc] :
                        items[job.doc][i].status = "committed" =>
                            items[job.doc][i].assertion \notin Active'
    OBVIOUS
  <2>0. documents[job.doc] # "removed" /\ job # NoJob
    BY NoJobTyped DEF Typed, JobRows
  <2>1. EndRemoval
    BY <2>0
    DEF DocumentsNext, ReviewStep, CommitStep, RemovalStep, Import, StoreItems,
        Accept, Reject, BeginAcceptAll, AcceptNext, EndAcceptAll, BeginCommit,
        CommitNext, MarkCommitted, EndCommit, BeginRemoval, RetractNext, CutShort,
        OtherOperation, RestartAll, Unlocked, documentTables, allVars, documentVars
  <2>2. job.todo = {} /\ UNCHANGED vars
    BY <2>1 DEF EndRemoval
  <2> QED  BY <2>2 DEF RemovedSoFar, vars, storeVars, Active
<1>3. Typed /\ RemovedSoFar /\ [DocumentsNext]_allVars => [Thorough]_allVars
  BY <1>2
<1> QED
  BY <1>1, <1>3, RemovedSoFarNext, TablesAlways, PTL
  DEF DocumentsSpec, RemovalLeavesNothing

-----------------------------------------------------------------------------
(* The links from items to assertions.                                     *)

\* a was generated, and began as c unless it was forgotten.
Began(a, c) ==
    /\ a < nextAssertion
    /\ history[a] = << >> \/ history[a][1].claim = c

\* A row has at least one version.
Told == \A a \in Ids : assertions[a].status # "absent" => Len(history[a]) > 0

LEMMA ServiceTransaction ==
    ASSUME Typed, [DocumentsNext]_allVars
    PROVE  Transaction \/ UNCHANGED storeVars
<1>0. TypeOK
  BY DEF Typed, DocumentsTypeOK
<1>1. CASE OtherOperation
  BY <1>0, <1>1, KnowledgeIsTransaction DEF OtherOperation, OneTransaction
<1>2. CASE RestartAll
  BY <1>2 DEF RestartAll, Restart
<1>3. CASE CommitNext
  BY <1>3, CommitInserts DEF Inserts, Transaction
<1>4. CASE RetractNext
  BY <1>4, RetractDoes DEF RetractKnowledge, DropsClaim, Transaction, vars
<1>5. CASE UNCHANGED allVars
  BY <1>5 DEF allVars, vars
<1>6. ASSUME ReviewStep \/ MarkCommitted \/ EndCommit \/ EndRemoval \/ CutShort
             \/ (\E d \in Documents : BeginCommit(d) \/ BeginRemoval(d))
      PROVE  UNCHANGED vars
  BY <1>6
  DEF ReviewStep, Import, StoreItems, Accept, Reject, BeginAcceptAll, AcceptNext,
      EndAcceptAll, MarkCommitted, EndCommit, EndRemoval, CutShort, BeginCommit,
      BeginRemoval
<1> QED
  BY <1>1, <1>2, <1>3, <1>4, <1>5, <1>6 DEF DocumentsNext, CommitStep, RemovalStep, vars

\* A version row after another does not change the first one.
LEMMA PutVersionAppends ==
    ASSUME StoreTypeOK, NEW a \in Ids, NEW s \in {"active", "retracted"},
           NEW c \in Claims, PutVersion(a, s, c)
    PROVE  /\ Len(history'[a]) > 0
           /\ Len(history[a]) > 0 => history'[a][1] = history[a][1]
           /\ Len(history[a]) = 0 => history'[a][1].claim = c
<1> DEFINE h == history[a]
           v == [status |-> s, claim |-> c]
<1>1. h \in Seq(Version) /\ v \in Version
  BY DEF StoreTypeOK, Version
<1>2. history'[a] = Append(h, v)
  BY DEF PutVersion, StoreTypeOK
<1>3. v.claim = c
  OBVIOUS
<1> HIDE DEF h, v
<1>4. /\ Len(h) \in Nat
      /\ Len(Append(h, v)) = Len(h) + 1
      /\ Append(h, v)[Len(h) + 1] = v
      /\ \A i \in 1 .. Len(h) : Append(h, v)[i] = h[i]
  BY <1>1, AppendProperties, LenProperties
<1> QED  BY <1>2, <1>3, <1>4 DEF h

LEMMA BeginningsKept ==
    ASSUME Typed, FreshIds, Histories, Told, Transaction \/ UNCHANGED storeVars
    PROVE  /\ Told'
           /\ \A a \in Ids : \A c : Began(a, c) => Began(a, c)'
<1>0. /\ StoreTypeOK /\ nextAssertion \in Nat /\ Ids \subseteq Nat
      /\ turn.id \in TurnIds => turn.id \in Nat
  BY StoreAssumption DEF Typed, DocumentsTypeOK, TypeOK, StoreTypeOK, Ids, TurnIds
<1>1. CASE UNCHANGED storeVars
  BY <1>1 DEF storeVars, Told, Began
<1>2. ASSUME NEW a \in Ids, NEW s \in {"active", "retracted"}, NEW c \in Claims,
             PutVersion(a, s, c), UNCHANGED nextAssertion,
             assertions[a].status # "absent"
      PROVE  /\ Told'
             /\ \A b \in Ids : \A d : Began(b, d) => Began(b, d)'
  <2>1. \A b \in Ids \ {a} : /\ assertions'[b] = assertions[b]
                             /\ history'[b] = history[b]
    BY <1>0, <1>2, OneRowChanges
  <2>2. Len(history'[a]) > 0 /\ history'[a][1] = history[a][1]
    BY <1>0, <1>2, PutVersionAppends DEF Told
  <2>3. history[a] # << >>
    BY <1>2, EmptySeq DEF Told
  <2> QED  BY <1>2, <2>1, <2>2, <2>3 DEF Told, Began
<1>3. ASSUME NEW a \in Ids, NEW c \in Claims, InsertAssertion(a, c)
      PROVE  /\ Told'
             /\ \A b \in Ids : \A d : Began(b, d) => Began(b, d)'
  <2>1. /\ PutVersion(a, "active", c) /\ a = nextAssertion
        /\ nextAssertion' = nextAssertion + 1
    BY <1>3 DEF InsertAssertion
  <2>2. \A b \in Ids \ {a} : /\ assertions'[b] = assertions[b]
                             /\ history'[b] = history[b]
    BY <1>0, <2>1, OneRowChanges
  <2>3. Len(history'[a]) > 0
    BY <1>0, <2>1, PutVersionAppends
  <2>4. \A b \in Ids : \A d : Began(b, d) => b # a /\ b < nextAssertion'
    BY <1>0, <2>1 DEF Began
  <2> QED  BY <2>2, <2>3, <2>4 DEF Told, Began
<1>4. ASSUME NEW a \in Active
      PROVE  assertions[a].status # "absent" /\ assertions[a].claim \in Claims
  BY <1>0, <1>4, ActiveClaim DEF Active
<1>5. ASSUME NEW a \in Ids, ReaffirmAssertion(a) \/ RetractAssertion(a)
      PROVE  /\ Told'
             /\ \A b \in Ids : \A d : Began(b, d) => Began(b, d)'
  BY <1>2, <1>4, <1>5 DEF ReaffirmAssertion, RetractAssertion
<1>6. ASSUME NEW a \in Ids, NEW c \in Claims, CorrectAssertion(a, c)
      PROVE  /\ Told'
             /\ \A b \in Ids : \A d : Began(b, d) => Began(b, d)'
  BY <1>2, <1>4, <1>6 DEF CorrectAssertion
<1>7. ASSUME NEW a \in Ids, ForgetAssertion(a)
      PROVE  /\ Told'
             /\ \A b \in Ids : \A d : Began(b, d) => Began(b, d)'
  <2>1. \A b \in Ids : /\ assertions'[b] = IF b = a THEN NoRow ELSE assertions[b]
                       /\ history'[b] = IF b = a THEN << >> ELSE history[b]
    BY <1>0, <1>7 DEF ForgetAssertion, StoreTypeOK
  <2> QED  BY <1>7, <2>1 DEF ForgetAssertion, Told, Began, NoRow
<1>8. ASSUME NEW t, NEW E, RecordTurn(t, E)
      PROVE  /\ Told'
             /\ \A b \in Ids : \A d : Began(b, d) => Began(b, d)'
  BY <1>8 DEF RecordTurn, Told, Began
<1> QED
  BY <1>1, <1>3, <1>5, <1>6, <1>7, <1>8 DEF Transaction

\* The assertion of a new item begins as its claim.
LEMMA InsertionBegins ==
    ASSUME Typed, FreshIds, Histories, NEW a \in Ids, NEW c \in Claims,
           InsertAssertion(a, c)
    PROVE  Began(a, c)'
<1>0. StoreTypeOK /\ nextAssertion \in Nat
  BY DEF Typed, DocumentsTypeOK, TypeOK, StoreTypeOK
<1>1. /\ PutVersion(a, "active", c) /\ a = nextAssertion
      /\ nextAssertion' = nextAssertion + 1
  BY DEF InsertAssertion
<1>2. assertions[a] = NoRow
  BY <1>0, <1>1 DEF FreshIds
<1>3. Len(history[a]) = 0
  <2>1. TellsAll(assertions[a], history[a])
    BY DEF Histories
  <2>2. Len(history[a]) = assertions[a].version
    BY <2>1 DEF TellsAll
  <2>3. NoRow.version = 0
    BY DEF NoRow
  <2> QED  BY <1>2, <2>2, <2>3
<1>4. history'[a][1].claim = c
  <2>1. "active" \in {"active", "retracted"}
    OBVIOUS
  <2> QED  BY <1>0, <1>1, <1>3, <2>1, PutVersionAppends
<1>5. a < nextAssertion'
  BY <1>0, <1>1
<1> QED  BY <1>4, <1>5 DEF Began

\* Every linked item points to an assertion that began as its claim.
AllBegan ==
    \A d \in Documents : \A i \in DOMAIN items[d] :
        items[d][i].assertion # 0 => Began(items[d][i].assertion, items[d][i].claim)

\* No two items point to the same assertion.
Apart ==
    \A d, e \in Documents : \A i \in DOMAIN items[d], j \in DOMAIN items[e] :
        items[d][i].assertion = items[e][j].assertion /\ items[d][i].assertion # 0
            => d = e /\ i = j

\* What makes ItemsPointBack inductive: an assertion that waits for its mark
\* was inserted for the item the job is at, and no item points to it yet.
Linked ==
    /\ AllBegan
    /\ Apart
    /\ job.inserted # 0 =>
        /\ job.op = "commit"
        /\ \A i \in job.todo :
            NextItem(i) => Began(job.inserted, items[job.doc][i].claim)
        /\ \A d \in Documents : \A i \in DOMAIN items[d] :
            items[d][i].assertion # job.inserted

LEMMA LinkedNext ==
    Typed /\ FreshIds /\ Histories /\ Told /\ Linked /\ [DocumentsNext]_allVars
        => Linked'
<1> SUFFICES ASSUME Typed, FreshIds, Histories, Told, Linked,
                    [DocumentsNext]_allVars
             PROVE  Linked'
  OBVIOUS
<1>0. ItemsType /\ job \in JobType /\ Typed'
  BY TypedNext DEF Typed, DocumentsTypeOK, ItemsType
<1>a. \A a \in Ids : \A c : Began(a, c) => Began(a, c)'
  BY BeginningsKept, ServiceTransaction
<1>b. \A d \in Documents : \A i \in DOMAIN items[d] :
        items[d][i].assertion \in Ids \cup {0}
  <2> SUFFICES ASSUME NEW d \in Documents, NEW i \in DOMAIN items[d]
               PROVE  items[d][i].assertion \in Ids \cup {0}
    OBVIOUS
  <2>1. items[d] \in Seq(Item)
    BY <1>0 DEF ItemsType
  <2>2. items[d][i] \in Item
    BY <2>1, SeqDomain
  <2> QED  BY <2>2 DEF Item
\* A step that leaves the items alone and inserts nothing.
<1>1. ASSUME UNCHANGED items,
             \/ job'.inserted = 0
             \/ job' = job
      PROVE  Linked'
  <2>1. job.inserted # 0 => job.inserted \in Ids
    BY <1>0 DEF JobType
  <2> QED  BY <1>1, <1>a, <1>b, <2>1 DEF Linked, AllBegan, Apart, NextItem
\* A review writes one row: it unlinks it, or links it to what was inserted.
<1>2. ASSUME NEW d \in Documents, NEW i \in DOMAIN items[d],
             NEW s \in {"proposed", "accepted", "rejected", "committed"},
             Review(d, i, s, 0), job.inserted = 0, job'.inserted = 0
      PROVE  Linked'
  <2>1. /\ \A e \in Documents : DOMAIN items'[e] = DOMAIN items[e]
        /\ \A e \in Documents : \A j \in DOMAIN items[e] :
             e # d \/ j # i => items'[e][j] = items[e][j]
        /\ items'[d][i].assertion = 0
    <3>1. 0 \in Ids \cup {0}
      OBVIOUS
    <3> QED  BY <1>0, <1>2, <3>1, ReviewLinks
  <2>2. \A e \in Documents : \A j \in DOMAIN items'[e] :
          items'[e][j].assertion # 0 => items'[e][j] = items[e][j]
    BY <2>1
  <2>3. AllBegan'
    BY <1>a, <1>b, <2>1, <2>2 DEF Linked, AllBegan
  <2>4. Apart'
    BY <2>1, <2>2 DEF Linked, Apart
  <2> QED  BY <1>2, <2>3, <2>4 DEF Linked
<1>3. CASE CommitNext
  <2>1. PICK i, a : Inserts(i, a)
    BY <1>3, CommitInserts
  <2>2. UNCHANGED items /\ job.op = "commit"
    BY <1>3 DEF CommitNext
  <2>3. /\ job'.inserted = a /\ job'.op = "commit"
        /\ job'.doc = job.doc /\ job'.todo = job.todo
    BY <1>0, <2>1, <2>2 DEF JobType, Inserts
  <2>4. Began(a, items[job.doc][i].claim)'
    BY <2>1, InsertionBegins, <2>2 DEF Inserts, Began
  <2>5. \A j \in job.todo : NextItem(j) => j = i
    BY <1>0, <2>1 DEF Inserts, NextItem, JobType
  <2>6. \A d \in Documents : \A j \in DOMAIN items[d] : items[d][j].assertion # a
    <3>1. a = nextAssertion /\ a \in Nat \ {0}
      BY <2>1, StoreAssumption DEF Inserts, InsertAssertion, Ids
    <3> QED  BY <3>1 DEF Linked, AllBegan, Apart, Began
  <2> QED  BY <1>a, <1>b, <2>2, <2>3, <2>4, <2>5, <2>6 DEF Linked, AllBegan, Apart, NextItem
<1>4. CASE MarkCommitted
  <2>1. PICK i \in job.todo :
            /\ NextItem(i)
            /\ Review(job.doc, i, "committed", job.inserted)
            /\ job' = [job EXCEPT !.todo = @ \ {i}, !.inserted = 0, !.created = TRUE]
    BY <1>4 DEF MarkCommitted
  <2>2. /\ job # NoJob /\ job.doc \in Documents /\ i \in DOMAIN items[job.doc]
        /\ job.inserted \in Ids /\ job.inserted # 0
    BY <1>0, <1>4, NoJobTyped DEF MarkCommitted, Typed, DocumentsTypeOK, JobType
  <2> DEFINE W(d, b) ==
        /\ \A e \in Documents : DOMAIN items'[e] = DOMAIN items[e]
        /\ \A e \in Documents : \A j \in DOMAIN items[e] :
             e # d \/ j # i => items'[e][j] = items[e][j]
        /\ items'[d][i].assertion = b
        /\ items'[d][i].claim = items[d][i].claim
  <2>a. ASSUME NEW d \in Documents, NEW b \in Ids \cup {0}, i \in DOMAIN items[d],
               Review(d, i, "committed", b)
        PROVE  W(d, b)
    <3>1. "committed" \in {"proposed", "accepted", "rejected", "committed"}
      OBVIOUS
    <3> QED  BY <1>0, <2>a, <3>1, ReviewLinks
  <2>3. PICK d \in Documents, b \in Ids :
            d = job.doc /\ b = job.inserted /\ W(d, b)
    BY <2>1, <2>2, <2>a
  <2>4. job'.inserted = 0
    BY <1>0, <2>1 DEF JobType
  <2>5. Began(b, items[d][i].claim) /\ b # 0
    BY <2>1, <2>2, <2>3 DEF Linked, AllBegan, Apart
  <2>6. \A e \in Documents : \A j \in DOMAIN items[e] : items[e][j].assertion # b
    BY <2>2, <2>3 DEF Linked, AllBegan, Apart
  <2>7. Began(b, items[d][i].claim)'
    BY <1>a, <2>3, <2>5 DEF Began
  <2>8. AllBegan'
    BY <1>a, <1>b, <2>3, <2>7 DEF Linked, AllBegan
  <2>9. Apart'
    BY <2>3, <2>6 DEF Linked, Apart
  <2> QED  BY <2>4, <2>8, <2>9 DEF Linked
<1>5. CASE StoreItems
  <2>1. job.doc \in Documents /\ job # NoJob
    BY <1>5, NoJobTyped DEF StoreItems, Typed, DocumentsTypeOK
  <2>2. /\ \A e \in Documents : e # job.doc => items'[e] = items[e]
        /\ \A i \in DOMAIN items'[job.doc] : items'[job.doc][i].assertion = 0
    BY <1>0, <1>5, <2>1, StoreWrites
  <2>3. job'.inserted = 0
    BY <1>5, NoJobTyped DEF StoreItems
  <2> QED  BY <1>a, <1>b, <2>1, <2>2, <2>3 DEF Linked, AllBegan, Apart
<1>6. ASSUME NEW d \in Documents, NEW i \in DOMAIN items[d],
             Accept(d, i) \/ Reject(d, i)
      PROVE  Linked'
  BY <1>2, <1>6, NoJobTyped DEF Accept, Reject, Unlocked
<1>7. CASE AcceptNext
  <2>1. PICK i \in job.todo :
            /\ Review(job.doc, i, "accepted", 0)
            /\ job' = [job EXCEPT !.todo = @ \ {i}]
    BY <1>7 DEF AcceptNext
  <2>2. job # NoJob /\ job.doc \in Documents /\ i \in DOMAIN items[job.doc]
    BY <1>7, NoJobTyped DEF AcceptNext, Typed, DocumentsTypeOK
  <2>3. job.inserted = 0 /\ job'.inserted = 0
    BY <1>0, <1>7, <2>1 DEF AcceptNext, Linked, AllBegan, Apart, JobType
  <2> QED  BY <1>2, <2>1, <2>2, <2>3
<1>8. ASSUME \/ EndAcceptAll \/ EndCommit \/ EndRemoval \/ CutShort \/ RestartAll
             \/ OtherOperation
             \/ \E d \in Documents : \/ Import(d) \/ BeginCommit(d) \/ BeginRemoval(d)
                                     \/ \E learn \in BOOLEAN : BeginAcceptAll(d, learn)
      PROVE  Linked'
  <2>1. UNCHANGED items /\ job'.inserted = 0
    BY <1>8, NoJobTyped
    DEF EndAcceptAll, EndCommit, EndRemoval, CutShort, RestartAll, OtherOperation,
        Import, BeginCommit, BeginRemoval, BeginAcceptAll, documentTables, Job
  <2> QED  BY <1>1, <2>1
<1>9. CASE RetractNext
  <2>1. PICK i \in job.todo :
          LET a == items[job.doc][i].assertion
          IN  job' = AfterRetraction(i, a)
    BY <1>9, RetractDoes
  <2>2. UNCHANGED items /\ job.inserted = 0 /\ job'.inserted = 0
    BY <1>0, <1>9, <2>1
    DEF RetractNext, AfterRetraction, documentTables, Linked, AllBegan, Apart, JobType
  <2> QED  BY <1>1, <2>2
<1>10. CASE UNCHANGED allVars
  BY <1>1, <1>10 DEF allVars, documentVars
<1> QED
  BY <1>3, <1>4, <1>5, <1>6, <1>7, <1>8, <1>9, <1>10
  DEF DocumentsNext, ReviewStep, CommitStep, RemovalStep

\* A committed item points to the assertion inserted for it, and to no other
\* item's: for any documents that propose any claims, the same ones included,
\* and for commits cut short at any point and begun again.
THEOREM ItemsStayLinked == DocumentsSpec => []ItemsPointBack
<1>1. DocumentsInit => Linked /\ Told
  <2>1. DOMAIN << >> = {}
    BY EmptySeq
  <2> QED
    BY <2>1, NoJobTyped DEF DocumentsInit, Linked, AllBegan, Apart, Told, Init, StoreInit, NoRow
<1>2. Typed /\ FreshIds /\ Histories /\ Told /\ [DocumentsNext]_allVars => Told'
  BY BeginningsKept, ServiceTransaction
<1>3. Typed /\ Linked => ItemsPointBack
  BY DEF Typed, ItemRows, Row, Linked, AllBegan, Apart, Began, ItemsPointBack
<1> QED
  BY <1>1, <1>2, <1>3, LinkedNext, TablesAlways, PTL DEF DocumentsSpec

\* While a document is removed, what the items of the others point to stays in
\* force: a removal retracts what its own items point to, and no two items
\* point to the same.
THEOREM RemovalSparesOthers == DocumentsSpec => RemovalSparesTheOthers
<1> DEFINE Spares ==
        job.op = "remove" =>
            \A d \in Documents \ {job.doc} : \A i \in DOMAIN items[d] :
                items[d][i].assertion \in Active => items[d][i].assertion \in Active'
<1>1. Typed /\ ItemsPointBack /\ [DocumentsNext]_allVars => Spares
  <2> SUFFICES ASSUME Typed, ItemsPointBack, [DocumentsNext]_allVars,
                      job.op = "remove",
                      NEW d \in Documents \ {job.doc}, NEW i \in DOMAIN items[d],
                      items[d][i].assertion \in Active
               PROVE  items[d][i].assertion \in Active'
    OBVIOUS
  <2>0. /\ TypeOK /\ job # NoJob /\ job.doc \in Documents
        /\ job.todo \subseteq DOMAIN items[job.doc]
    BY NoJobTyped DEF Typed, DocumentsTypeOK
  <2>1. CASE RetractNext
    <3>1. PICK j \in job.todo :
            LET a == items[job.doc][j].assertion
            IN  a \in Ids /\ (RetractKnowledge(a) \/ DropsClaim(a) \/ UNCHANGED vars)
      BY <2>1, RetractDoes
    <3> DEFINE a == items[job.doc][j].assertion
    <3>2. items[d][i].assertion # a
      <4>1. a # 0
        BY <3>1, StoreAssumption DEF Ids
      <4> QED  BY <2>0, <3>1, <4>1 DEF ItemsPointBack
    <3>3. CASE RetractKnowledge(a)
      <4>1. PutVersion(a, "retracted", assertions[a].claim)
        BY <3>3 DEF RetractKnowledge, RetractAssertion
      <4> HIDE DEF a
      <4>2. \A b \in Ids \ {a} : assertions'[b] = assertions[b]
        BY <2>0, <3>1, <4>1, OneRowChanges DEF TypeOK, StoreTypeOK
      <4> QED  BY <3>2, <4>2 DEF Active
    <3>4. CASE DropsClaim(a) \/ UNCHANGED vars
      BY <3>4 DEF DropsClaim, vars, storeVars, Active
    <3> QED  BY <3>1, <3>3, <3>4
  <2>2. CASE UNCHANGED assertions
    BY <2>2 DEF Active
  <2>3. RetractNext \/ UNCHANGED assertions
    BY <2>0
    DEF DocumentsNext, ReviewStep, CommitStep, RemovalStep, Import, StoreItems,
        Accept, Reject, BeginAcceptAll, AcceptNext, EndAcceptAll, BeginCommit,
        CommitNext, MarkCommitted, EndCommit, BeginRemoval, EndRemoval, CutShort,
        OtherOperation, RestartAll, Restart, Unlocked, allVars, vars, storeVars
  <2> QED  BY <2>1, <2>2, <2>3
<1>2. Typed /\ ItemsPointBack /\ [DocumentsNext]_allVars => [Spares]_allVars
  BY <1>1
<1> QED
  BY <1>2, TypedAlways, ItemsStayLinked, PTL
  DEF DocumentsSpec, RemovalSparesTheOthers

=============================================================================
