-------------------------- MODULE DocumentLearning --------------------------
(***************************************************************************)
(* Learning from documents (src/conversation/service.rs and                *)
(* src/persistence/documents.rs) on top of ConversationService: a document *)
(* is imported, its items are reviewed one by one, the accepted items are  *)
(* committed as assertions, and removing the document retracts what its    *)
(* items point to.  Every operation runs under the service lock but takes  *)
(* several transactions, so it may be cut short between two of them by a   *)
(* rejected write, a panic or a crash; the job is what it has left to do.  *)
(* Reads made inside these operations are taken to succeed, and backups    *)
(* are left to ConversationService: a restore replaces these tables along  *)
(* with the assertions, from one file.                                     *)
(***************************************************************************)
EXTENDS ConversationService

CONSTANTS
    Documents,      \* the document ids ever generated
    Proposals,      \* Proposals[d]: what the text of d proposes, in order;
                    \* NoClaim is an item the extraction itself rejected
    NoDocument,     \* the document of no operation
    Hand            \* the source of what a user teaches or corrects

ASSUME DocumentAssumption ==
    /\ Proposals \in [Documents -> Seq(Claims \cup {NoClaim})]
    /\ {NoDocument, Hand} \cap Documents = {}

VARIABLES
    documents,      \* the status of each document
    items,          \* the rows of document_items of each document
    sources,        \* what an assertion was asserted from, version by version
    job             \* the document operation in progress

documentTables == <<documents, items, sources>>
documentVars == <<documents, items, sources, job>>
allVars == <<vars, documentVars>>

Item == [claim : Claims \cup {NoClaim},
         status : {"proposed", "accepted", "rejected", "committed"},
         assertion : Ids \cup {0}]

\* todo holds the numbers of the items an operation has still to go through;
\* inserted is an assertion whose item is not marked yet, refused says that the
\* database rejected a retraction.
Job(op, d, todo, learn) ==
    [op |-> op, doc |-> d, todo |-> todo, learn |-> learn,
     inserted |-> 0, created |-> FALSE, refused |-> FALSE]
NoJob == Job("none", NoDocument, {}, FALSE)
JobType ==
    [op : {"none", "import", "accept", "commit", "remove"},
     doc : Documents \cup {NoDocument},
     todo : SUBSET (Nat \ {0}), learn : BOOLEAN,
     inserted : Ids \cup {0}, created : BOOLEAN, refused : BOOLEAN]

DocumentsTypeOK ==
    /\ TypeOK
    /\ documents \in [Documents -> {"absent", "imported", "committed", "removed"}]
    /\ items \in [Documents -> Seq(Item)]
    /\ sources \in [Ids -> SUBSET (Documents \cup {Hand})]
    /\ job \in JobType
    /\ job # NoJob => /\ turn = Idle
                      /\ job.doc \in Documents
                      /\ job.todo \subseteq DOMAIN items[job.doc]

-----------------------------------------------------------------------------
(* Import and review.                                                      *)

\* Mutant of Unlocked: a document operation does not wait for a turn.
NoOtherJob == job = NoJob

\* The service lock is free.
Unlocked == turn = Idle /\ job = NoJob

\* store_document, first transaction; the content may be that of another one.
Import(d) ==
    /\ Unlocked
    /\ documents[d] = "absent"
    /\ documents' = [documents EXCEPT ![d] = "imported"]
    /\ job' = Job("import", d, {}, FALSE)
    /\ UNCHANGED <<vars, items, sources>>

\* store_document, second transaction: new_items and insert_items.
StoreItems ==
    /\ job.op = "import"
    /\ items' = [items EXCEPT ![job.doc] =
            [i \in DOMAIN Proposals[job.doc] |->
                [claim |-> Proposals[job.doc][i],
                 status |-> IF Proposals[job.doc][i] = NoClaim THEN "rejected"
                            ELSE "proposed",
                 assertion |-> 0]]]
    /\ job' = NoJob
    /\ UNCHANGED <<vars, documents, sources>>

\* set_item_review overwrites the link along with the status.
Review(d, i, status, a) ==
    items' = [items EXCEPT
                ![d][i] = [claim |-> @.claim, status |-> status, assertion |-> a]]

\* accept_document_item, whatever the status of the item or the document.
Accept(d, i) ==
    /\ Unlocked
    /\ items[d][i].claim # NoClaim
    /\ Review(d, i, "accepted", 0)
    /\ UNCHANGED <<vars, documents, sources, job>>

Reject(d, i) ==
    /\ Unlocked
    /\ Review(d, i, "rejected", 0)
    /\ UNCHANGED <<vars, documents, sources, job>>

WithStatus(d, status) == {i \in DOMAIN items[d] : items[d][i].status = status}

\* The items are read once and gone through in their order.
NextItem(i) == i \in job.todo /\ \A j \in job.todo : i <= j

\* accept_all_document_items, alone or as the first half of learn_document.
BeginAcceptAll(d, learn) ==
    /\ Unlocked
    /\ documents[d] # "absent"
    /\ job' = Job("accept", d, WithStatus(d, "proposed"), learn)
    /\ UNCHANGED <<vars, documentTables>>

AcceptNext ==
    /\ job.op = "accept"
    /\ \E i \in job.todo :
        /\ NextItem(i)
        /\ Review(job.doc, i, "accepted", 0)
        /\ job' = [job EXCEPT !.todo = @ \ {i}]
    /\ UNCHANGED <<vars, documents, sources>>

EndAcceptAll ==
    /\ job.op = "accept"
    /\ job.todo = {}
    /\ job' = IF job.learn
              THEN Job("commit", job.doc, WithStatus(job.doc, "accepted"), FALSE)
              ELSE NoJob
    /\ UNCHANGED <<vars, documentTables>>

-----------------------------------------------------------------------------
(* Commit.                                                                 *)

\* The status of the document is not looked at: a removed one can be committed.
BeginCommit(d) ==
    /\ Unlocked
    /\ documents[d] # "absent"
    /\ job' = Job("commit", d, WithStatus(d, "accepted"), FALSE)
    /\ UNCHANGED <<vars, documentTables>>

\* The sources of the assertions after a step that asserts by hand or from a
\* document.
Sourced(by) ==
    [a \in Ids |->
        IF assertions'[a].status # "active" \/ history'[a] = history[a]
        THEN IF assertions'[a] = NoRow THEN {} ELSE sources[a]
        ELSE sources[a] \cup {by}]

\* Mutants of CommitItem: the assertion map is not told, or an active
\* assertion of the same claim is used again, as a lesson would.
CommitItemUnmapped(i, a) ==
    LET c == items[job.doc][i].claim
    IN  /\ InsertAssertion(a, c)
        /\ engine' = Stored(engine, c)
        /\ UNCHANGED factIds
CommitItemOrReaffirm(i, a) ==
    LET c == items[job.doc][i].claim
    IN  /\ PersistClaim(c, a)
        /\ engine' = Stored(engine, c)
        /\ factIds' = [factIds EXCEPT ![c] = a]

\* commit_item up to the mark: always a new assertion, also for a claim that
\* another assertion carries.
CommitItem(i, a) ==
    LET c == items[job.doc][i].claim
    IN  /\ InsertAssertion(a, c)
        /\ engine' = Stored(engine, c)
        /\ factIds' = [factIds EXCEPT ![c] = a]

CommitNext ==
    /\ job.op = "commit"
    /\ job.inserted = 0
    /\ \E i \in job.todo, a \in Ids :
        /\ NextItem(i)
        /\ CommitItem(i, a)
        /\ job' = [job EXCEPT !.inserted = a]
    /\ sources' = Sourced(job.doc)
    /\ UNCHANGED <<view, viewStale, turn, nextTurn, storageError, backup, backups,
                   documents, items>>

MarkCommitted ==
    /\ job.op = "commit"
    /\ job.inserted # 0
    /\ \E i \in job.todo :
        /\ NextItem(i)
        /\ Review(job.doc, i, "committed", job.inserted)
        /\ job' = [job EXCEPT !.todo = @ \ {i}, !.inserted = 0, !.created = TRUE]
    /\ UNCHANGED <<vars, documents, sources>>

EndCommit ==
    /\ job.op = "commit"
    /\ job.todo = {}
    /\ documents' = IF job.created THEN [documents EXCEPT ![job.doc] = "committed"]
                    ELSE documents
    /\ job' = NoJob
    /\ UNCHANGED <<vars, items, sources>>

-----------------------------------------------------------------------------
(* Removal.                                                                *)

\* Mutant of ToRetract: a document that is not marked committed is taken to
\* have asserted nothing.
ToRetractIfCommitted(d) ==
    IF documents[d] = "committed" THEN WithStatus(d, "committed") ELSE {}

\* committed_assertion_ids: an item is linked exactly while it is committed.
ToRetract(d) == WithStatus(d, "committed")

BeginRemoval(d) ==
    /\ Unlocked
    /\ documents[d] \in {"imported", "committed"}
    /\ job' = Job("remove", d, ToRetract(d), FALSE)
    /\ UNCHANGED <<vars, documentTables>>

\* A retraction the database refused.
Refused(a) == a \in Active \cap Active'

\* Any error is taken for "already retracted": the loop goes on.
AfterRetraction(i, a) ==
    [job EXCEPT !.todo = @ \ {i}, !.refused = @ \/ Refused(a)]

\* One turn of the loop of remove_document: retract_knowledge, and on an error
\* (a tombstone, a missing row or a rejected write) only the engine forgets.
RetractNext ==
    /\ job.op = "remove"
    /\ \E i \in job.todo :
        LET a == items[job.doc][i].assertion
        IN  /\ NextItem(i)
            /\ \/ /\ RetractAssertion(a)
                  /\ Withdraw(assertions[a].claim)
                  /\ ApplyStale(a)
               \/ /\ IF assertions[a].status = "absent"
                     THEN UNCHANGED <<engine, factIds>>
                     ELSE Withdraw(assertions[a].claim)
                  /\ UNCHANGED <<storeVars, view, viewStale>>
            /\ job' = AfterRetraction(i, a)
    /\ UNCHANGED <<turn, nextTurn, storageError, backup, backups,
                   documentTables>>

EndRemoval ==
    /\ job.op = "remove"
    /\ job.todo = {}
    /\ documents' = [documents EXCEPT ![job.doc] = "removed"]
    /\ job' = NoJob
    /\ UNCHANGED <<vars, items, sources>>

-----------------------------------------------------------------------------
(* What else happens to the service.                                       *)

\* A write is rejected and its error returned at once, or the handler panics:
\* the rest of the job is dropped and nothing is undone.
CutShort ==
    /\ job # NoJob
    /\ job' = NoJob
    /\ UNCHANGED <<vars, documentTables>>

\* Turns and the explicit operations wait for the lock.
OtherOperation ==
    /\ job = NoJob
    /\ KnowledgeStep
    /\ sources' = Sourced(Hand)
    /\ UNCHANGED <<documents, items, job>>

RestartAll ==
    /\ Restart
    /\ job' = NoJob
    /\ UNCHANGED <<documentTables>>

-----------------------------------------------------------------------------
DocumentsInit ==
    /\ Init
    /\ documents = [d \in Documents |-> "absent"]
    /\ items = [d \in Documents |-> <<>>]
    /\ sources = [a \in Ids |-> {}]
    /\ job = NoJob

ReviewStep ==
    \/ \E d \in Documents : Import(d)
    \/ StoreItems
    \/ \E d \in Documents : \E i \in DOMAIN items[d] : Accept(d, i)
    \/ \E d \in Documents : \E i \in DOMAIN items[d] : Reject(d, i)
    \/ \E d \in Documents, learn \in BOOLEAN : BeginAcceptAll(d, learn)
    \/ AcceptNext
    \/ EndAcceptAll

CommitStep ==
    \/ \E d \in Documents : BeginCommit(d)
    \/ CommitNext
    \/ MarkCommitted
    \/ EndCommit

RemovalStep ==
    \/ \E d \in Documents : BeginRemoval(d)
    \/ RetractNext
    \/ EndRemoval

DocumentsNext ==
    \/ ReviewStep \/ CommitStep \/ RemovalStep \/ CutShort
    \/ OtherOperation \/ RestartAll

DocumentsSpec == DocumentsInit /\ [][DocumentsNext]_allVars

-----------------------------------------------------------------------------
(* Properties.                                                             *)

\* A committed item points to the assertion that was inserted for it, which
\* began as its claim unless it was forgotten, and to which no other item
\* points; every other item points to none.  So a removal can never retract an
\* assertion that a second document, or another item, relies on.
ItemsPointBack ==
    /\ \A d \in Documents : \A i \in DOMAIN items[d] :
        LET a == items[d][i].assertion
        IN  /\ items[d][i].status = "committed" <=> a # 0
            /\ a # 0 => /\ a < nextAssertion
                        /\ history[a] = <<>> \/ history[a][1].claim = items[d][i].claim
    /\ \A d, e \in Documents : \A i \in DOMAIN items[d], j \in DOMAIN items[e] :
        items[d][i].assertion = items[e][j].assertion /\ items[d][i].assertion # 0
            => d = e /\ i = j

\* A removal that marks its document removed has left none of the assertions
\* its items point to in force, whichever of them were already retracted,
\* forgotten or corrected; the exception is a retraction the database refused.
RemovalLeavesNothing ==
    [][job.op = "remove" /\ ~job.refused /\ documents'[job.doc] = "removed" =>
        \A i \in DOMAIN items[job.doc] :
            items[job.doc][i].status = "committed" =>
                items[job.doc][i].assertion \notin Active']_allVars

\* "Retracts exactly the assertions whose items point back at it"
\* (documents.rs:6): while a document is removed, what the committed items of
\* the others point to stays in force, though they say the same.
RemovalSparesTheOthers ==
    [][job.op = "remove" =>
        \A d \in Documents \ {job.doc} : \A i \in DOMAIN items[d] :
            items[d][i].assertion \in Active =>
                items[d][i].assertion \in Active']_allVars

-----------------------------------------------------------------------------
(* What the documents and comments say, and the code does not do.          *)

\* "retracts exactly the assertions whose items point back at it, so its
\* influence disappears predictably while taught-by-hand knowledge is
\* untouched" (documents.rs:6): no removal retracts what a user taught.
TaughtKnowledgeIsUntouched ==
    [][job.op = "remove" =>
        \A a \in Active : Hand \in sources[a] => a \in Active']_allVars

\* "Remove a document: retract exactly the assertions derived from it and mark
\* the document removed" (service.rs): a removed document has none in force.
RemovalRetractsDerived ==
    \A d \in Documents : documents[d] = "removed" /\ job = NoJob =>
        \A a \in Active : d \notin sources[a]

=============================================================================
