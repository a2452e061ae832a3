------------------------ MODULE ConversationService ------------------------
(***************************************************************************)
(* ConversationService (src/conversation/service.rs): the knowledge it     *)
(* keeps in memory over the durable AssertionStore.  The QaEngine is a     *)
(* cache of the active assertions, fact_assertions and rule_assertions map *)
(* a claim to the assertion that supports it, and the ConversationStore    *)
(* holds the recent turns.  A turn runs in steps under the service lock    *)
(* (interpret and dispatch, one transaction per taught claim, one          *)
(* transaction to record the turn), so no other operation interleaves with *)
(* it, but a crash can fall between any two of its transactions.           *)
(***************************************************************************)
EXTENDS AssertionStore, FiniteSets

CONSTANTS
    Norm,           \* Norm[c]: the text the engine matches c by, as a claim
    Contradicts,    \* <<c, d>>: storing c marks a stored d as contradicted
    Lessons,        \* the sequences of claims one turn may teach
    MaxEvidence,    \* bound: claims one answer cites
    MaxView,        \* max_turns_per_session of the ConversationStore
    MaxBackups,     \* bound: backups taken
    FaultyReads     \* may a read from the database fail?

ASSUME ServiceAssumption ==
    /\ Norm \in [Claims -> Claims]
    /\ Contradicts \subseteq Claims \X Claims
    /\ \A c \in Claims : <<c, c>> \notin Contradicts
    /\ \A c, d \in Claims : Kind[c] = "rule" /\ Norm[c] = Norm[d] => c = d
    /\ Lessons \subseteq Seq(Claims)
    /\ MaxEvidence \in Nat
    /\ MaxView \in Nat \ {0}
    /\ MaxBackups \in Nat
    /\ FaultyReads \in BOOLEAN

VARIABLES
    engine,         \* engine[c]: the flags of the stored copies of c
    factIds,        \* the assertion that supports a claim, 0 when unmapped
    view,           \* the turns the ConversationStore holds
    viewStale,      \* those of them it holds as stale
    turn,           \* the turn in progress under the service lock
    nextTurn,       \* the next turn id to be generated
    storageError,   \* is storage_error set?
    backup,         \* the latest backup of the database
    backups         \* how many backups were taken

memoryVars == <<engine, factIds, view, viewStale>>
vars == <<storeVars, memoryVars, turn, nextTurn, storageError, backup, backups>>

Idle == [id |-> 0, lesson |-> <<>>, evidence |-> {}, rejected |-> FALSE]
Snapshot == [assertions |-> assertions, history |-> history,
             turns |-> turns, conclusions |-> conclusions]

TypeOK ==
    /\ StoreTypeOK
    /\ engine \in [Claims -> SUBSET {"clean", "contradicted"}]
    /\ factIds \in [Claims -> Ids \cup {0}]
    /\ view \subseteq TurnIds
    /\ viewStale \subseteq view
    /\ turn \in [id : TurnIds \cup {0}, lesson : Seq(Claims),
                 evidence : SUBSET Evidence, rejected : BOOLEAN]
    /\ nextTurn \in 1 .. MaxTurns + 1
    /\ storageError \in BOOLEAN
    /\ backup \in [assertions : [Ids -> Assertion],
                   history : [Ids -> Seq(Version)],
                   turns : [TurnIds -> Turn],
                   conclusions : [TurnIds -> Conclusion]]
    /\ backups \in 0 .. MaxBackups

-----------------------------------------------------------------------------
(* The reasoning engine and the views built from the database.             *)

\* QaEngine::store_fact: one more clean copy of c; the stored copies of the
\* claims it contradicts are flagged.
Stored(e, c) ==
    [d \in Claims |->
        (IF e[d] # {} /\ <<c, d>> \in Contradicts THEN {"contradicted"} ELSE e[d])
            \cup (IF d = c THEN {"clean"} ELSE {})]

\* remove_facts_matching / remove_rules_matching: every copy of every claim
\* with the same normalised text.
Removed(e, c) ==
    [d \in Claims |-> IF Norm[d] = Norm[c] THEN {} ELSE e[d]]

RowsWith(rows, c) ==
    {a \in Ids : rows[a].status = "active" /\ rows[a].claim = c}

\* rebuild_engine: store the active assertions oldest first, so a copy ends
\* up contradicted exactly when a younger assertion contradicts it.
RebuiltEngine(rows) ==
    [c \in Claims |->
        {IF \E d \in Claims : <<d, c>> \in Contradicts
                             /\ \E b \in RowsWith(rows, d) : b > a
         THEN "contradicted" ELSE "clean" : a \in RowsWith(rows, c)}]

\* rebuild_assertion_maps: the youngest active assertion wins its claim.
RebuiltIds(rows) ==
    [c \in Claims |->
        IF RowsWith(rows, c) = {} THEN 0
        ELSE CHOOSE a \in RowsWith(rows, c) :
                \A b \in RowsWith(rows, c) : b <= a]

\* Mutant of Recent: the cap drops the newest turns.
Oldest(S) == {t \in S : Cardinality({u \in S : u < t}) < MaxView}

\* The last MaxView turns of a set; ids grow with the order of the turns.
Recent(S) == {t \in S : Cardinality({u \in S : u > t}) < MaxView}

\* load_store and load_turns.
LoadedView(rows) == Recent({t \in TurnIds : rows[t].status # "absent"})

\* Mutant of RebuildView: the stale columns are not read back.
RebuildViewFresh(rows) == view' = LoadedView(rows) /\ viewStale' = {}

RebuildView(rows) ==
    /\ view' = LoadedView(rows)
    /\ viewStale' = {t \in LoadedView(rows) : rows[t].status = "stale"}

\* Mutant of Rebuild: the assertion maps keep what they held.
RebuildKeepMaps(db) ==
    /\ engine' = RebuiltEngine(db.assertions)
    /\ RebuildView(db.turns)
    /\ UNCHANGED factIds

Rebuild(db) ==
    /\ engine' = RebuiltEngine(db.assertions)
    /\ factIds' = RebuiltIds(db.assertions)
    /\ RebuildView(db.turns)

\* remove_from_engine, apart from the turns it leaves to apply_stale.
Withdraw(c) ==
    /\ engine' = Removed(engine, c)
    /\ factIds' = [factIds EXCEPT ![c] = 0]

\* Mutants of ApplyStale: no mark reaches the ConversationStore, or one reaches
\* a turn that it does not hold.
NoApplyStale(a) == UNCHANGED <<view, viewStale>>
ApplyStaleToAll(a) ==
    /\ viewStale' = viewStale \cup Dependents(a)
    /\ UNCHANGED view

\* apply_stale, for the turns the store reports as dependents of a.
ApplyStale(a) ==
    /\ viewStale' = viewStale \cup (Dependents(a) \cap view)
    /\ UNCHANGED view

-----------------------------------------------------------------------------
(* Turns.                                                                  *)

\* Take the service lock for a new turn; its later steps run from here.
StartTurn(lesson, evidence, rejected) ==
    /\ turn = Idle
    /\ nextTurn \in TurnIds
    /\ nextTurn' = nextTurn + 1
    /\ turn' = [id |-> nextTurn, lesson |-> lesson,
                evidence |-> evidence, rejected |-> rejected]
    /\ UNCHANGED <<backup, backups>>

\* run_question and answer_about: an answer cites the stored claims it was
\* retrieved from.  A fact is cited with the assertion id its exact text maps
\* to.  A rule is looked up by the text of the event it was applied to, which
\* only has to be similar to the rule's own, so it may be cited without an id.
\* The empty set is a turn that abstained, asked back or was cancelled.
Ask(S) ==
    /\ \A c \in S : engine[c] # {}
    /\ \E unlinked \in SUBSET {c \in S : Kind[c] = "rule"} :
            StartTurn(<<>>,
                      {[id |-> IF c \in unlinked THEN 0 ELSE factIds[c],
                        claim |-> c] : c \in S},
                      FALSE)
    /\ UNCHANGED <<storeVars, memoryVars, storageError>>

\* a is the one active fact that a follow-up can mean.
OnlyCandidate(a) ==
    /\ a \in Active
    /\ Kind[assertions[a].claim] = "fact"
    /\ \A b \in Active \ {a} : Norm[assertions[b].claim] # Norm[assertions[a].claim]

\* answer_before: the fact has an earlier version that says something else.
AskBefore(a) ==
    /\ OnlyCandidate(a)
    /\ \E i \in DOMAIN history[a] :
            Norm[history[a][i].claim] # Norm[assertions[a].claim]
    /\ StartTurn(<<>>, {[id |-> a, claim |-> assertions[a].claim]}, FALSE)
    /\ UNCHANGED <<storeVars, memoryVars, storageError>>

\* answer_before and answer_correction when the rows cannot be read.
FailLookup ==
    /\ FaultyReads
    /\ StartTurn(<<>>, {}, TRUE)
    /\ storageError' = TRUE
    /\ UNCHANGED <<storeVars, memoryVars>>

\* run_teaching and teach_rule_text, up to the first transaction.
BeginLesson(lesson) ==
    /\ StartTurn(lesson, {}, FALSE)
    /\ UNCHANGED <<storeVars, memoryVars, storageError>>

\* persist_fact_assertion and persist_rule_assertion: reaffirm an active
\* assertion of the claim (the most recently updated; updated_at is not
\* modelled) or insert a new one.
PersistClaim(c, a) ==
    \/ /\ a \in ActiveWith(c)
       /\ ReaffirmAssertion(a)
    \/ /\ ActiveWith(c) = {}
       /\ InsertAssertion(a, c)

TeachClaim ==
    /\ turn.lesson # <<>>
    /\ LET c == Head(turn.lesson)
       IN  \E a \in Ids :
            /\ PersistClaim(c, a)
            /\ factIds' = [factIds EXCEPT ![c] = a]
            /\ engine' = Stored(engine, c)
    /\ turn' = [turn EXCEPT !.lesson = Tail(@)]
    /\ UNCHANGED <<view, viewStale, nextTurn, storageError, backup, backups>>

\* The cancel flag is checked before every claim.
CancelLesson ==
    /\ turn.lesson # <<>>
    /\ turn' = [turn EXCEPT !.lesson = <<>>]
    /\ UNCHANGED <<storeVars, memoryVars, nextTurn, storageError, backup, backups>>

FailLesson ==
    /\ turn' = [turn EXCEPT !.lesson = <<>>, !.rejected = TRUE]
    /\ storageError' = TRUE
    /\ UNCHANGED <<memoryVars, nextTurn, backup, backups>>

\* The transaction is rejected: nothing of the claim is stored anywhere.
RejectClaim ==
    /\ turn.lesson # <<>>
    /\ FailLesson
    /\ UNCHANGED storeVars

\* The transaction commits and the read-back after it fails: the caller sees
\* an error and leaves the engine and the map as they were.
LoseClaim ==
    /\ FaultyReads
    /\ turn.lesson # <<>>
    /\ \E a \in Ids : PersistClaim(Head(turn.lesson), a)
    /\ FailLesson

\* Mutant of FinishTurn: a turn whose lesson was rejected returns early, with
\* the lock still held.
FinishUnlessRejected ==
    /\ turn.id # 0
    /\ turn.lesson = <<>>
    /\ ~turn.rejected
    /\ view' = Recent(view \cup {turn.id})
    /\ viewStale' = viewStale \cap view'
    /\ \/ /\ RecordTurn(turn.id, turn.evidence)
          /\ UNCHANGED storageError
       \/ /\ storageError' = TRUE
          /\ UNCHANGED storeVars
    /\ turn' = Idle
    /\ UNCHANGED <<engine, factIds, nextTurn, backup, backups>>

\* The last part of handle_turn_with: the turn enters the ConversationStore
\* and is recorded in one transaction, which may be rejected.
FinishTurn ==
    /\ turn.id # 0
    /\ turn.lesson = <<>>
    /\ view' = Recent(view \cup {turn.id})
    /\ viewStale' = viewStale \cap view'
    /\ \/ /\ RecordTurn(turn.id, turn.evidence)
          /\ UNCHANGED storageError
       \/ /\ storageError' = TRUE
          /\ UNCHANGED storeVars
    /\ turn' = Idle
    /\ UNCHANGED <<engine, factIds, nextTurn, backup, backups>>

\* The worker panics between two steps of the turn: the poisoned lock is taken
\* over as it is, nothing is rolled back or rebuilt and nothing is recorded.
AbandonTurn ==
    /\ turn.id # 0
    /\ turn' = Idle
    /\ UNCHANGED <<storeVars, memoryVars, nextTurn, storageError, backup, backups>>

-----------------------------------------------------------------------------
(* Explicit knowledge operations, from the API or inside a turn.           *)

\* Mutant of Correction: the map does not learn the new text.
CorrectionUnmapped(a, c) ==
    /\ CorrectAssertion(a, c)
    /\ engine' = Stored(Removed(engine, assertions[a].claim), c)
    /\ factIds' = [factIds EXCEPT ![assertions[a].claim] = 0]
    /\ ApplyStale(a)

\* correct_knowledge, after its checks: the transaction, then the engine, the
\* map and the stale marks.
Correction(a, c) ==
    LET old == assertions[a].claim
    IN  /\ CorrectAssertion(a, c)
        /\ engine' = Stored(Removed(engine, old), c)
        /\ factIds' = [factIds EXCEPT ![old] = 0, ![c] = a]
        /\ ApplyStale(a)

\* The transaction commits and the read-back after it fails.
LostCorrection(a, c) ==
    /\ FaultyReads
    /\ CorrectAssertion(a, c)
    /\ UNCHANGED memoryVars

CorrectKnowledge(a, c) ==
    /\ turn = Idle
    /\ Correction(a, c) \/ LostCorrection(a, c)
    /\ UNCHANGED <<turn, nextTurn, storageError, backup, backups>>

\* answer_correction: the correction happens inside a turn, which cites it.
CorrectInTurn(a, c) ==
    /\ OnlyCandidate(a)
    /\ Kind[c] = "fact"
    /\ Norm[c] # Norm[assertions[a].claim]
    /\ \/ /\ Correction(a, c)
          /\ StartTurn(<<>>, {[id |-> a, claim |-> c]}, FALSE)
          /\ UNCHANGED storageError
       \/ /\ LostCorrection(a, c)
          /\ StartTurn(<<>>, {}, TRUE)
          /\ storageError' = TRUE
       \/ /\ StartTurn(<<>>, {}, TRUE)
          /\ storageError' = TRUE
          /\ UNCHANGED <<storeVars, memoryVars>>

RetractKnowledge(a) ==
    /\ turn = Idle
    /\ RetractAssertion(a)
    /\ \/ /\ Withdraw(assertions[a].claim)
          /\ ApplyStale(a)
       \/ /\ FaultyReads
          /\ UNCHANGED memoryVars
    /\ UNCHANGED <<turn, nextTurn, storageError, backup, backups>>

\* The row may be a tombstone; the engine loses its claim all the same.
ForgetKnowledge(a) ==
    /\ turn = Idle
    /\ ForgetAssertion(a)
    /\ Withdraw(assertions[a].claim)
    /\ ApplyStale(a)
    /\ UNCHANGED <<turn, nextTurn, storageError, backup, backups>>

-----------------------------------------------------------------------------
(* Backup, restore and restart.                                            *)

Backup ==
    /\ turn = Idle
    /\ backups < MaxBackups
    /\ backups' = backups + 1
    /\ backup' = Snapshot
    /\ UNCHANGED <<storeVars, memoryVars, turn, nextTurn, storageError>>

\* restore_from overwrites the database in place; then everything in memory
\* is rebuilt from it.  A failing read leaves the memory as it was, or rebuilt
\* with the maps cleared, when it is the last one that fails.
Restore ==
    /\ turn = Idle
    /\ backups > 0
    /\ assertions' = backup.assertions
    /\ history' = backup.history
    /\ turns' = backup.turns
    /\ conclusions' = backup.conclusions
    /\ \/ Rebuild(backup)
       \/ /\ FaultyReads
          /\ UNCHANGED memoryVars
       \/ /\ FaultyReads
          /\ engine' = RebuiltEngine(backup.assertions)
          /\ factIds' = [c \in Claims |-> 0]
          /\ RebuildView(backup.turns)
    /\ UNCHANGED <<nextAssertion, turn, nextTurn, storageError, backup, backups>>

\* The process dies, between any two transactions, and comes back up.
Restart ==
    /\ turn' = Idle
    /\ storageError' = FALSE
    /\ Rebuild(Snapshot)
    /\ UNCHANGED <<storeVars, nextTurn, backup, backups>>

-----------------------------------------------------------------------------
Init ==
    /\ StoreInit
    /\ engine = [c \in Claims |-> {}]
    /\ factIds = [c \in Claims |-> 0]
    /\ view = {}
    /\ viewStale = {}
    /\ turn = Idle
    /\ nextTurn = 1
    /\ storageError = FALSE
    /\ backup = Snapshot
    /\ backups = 0

LessonStep == TeachClaim \/ CancelLesson \/ RejectClaim \/ LoseClaim

\* The operations that do not replace the database or the process.
KnowledgeStep ==
    \/ \E S \in SUBSET Claims : Cardinality(S) <= MaxEvidence /\ Ask(S)
    \/ \E a \in Ids : AskBefore(a)
    \/ FailLookup
    \/ \E lesson \in Lessons : BeginLesson(lesson)
    \/ LessonStep
    \/ FinishTurn
    \/ AbandonTurn
    \/ \E a \in Ids, c \in Claims : CorrectKnowledge(a, c)
    \/ \E a \in Ids, c \in Claims : CorrectInTurn(a, c)
    \/ \E a \in Ids : RetractKnowledge(a)
    \/ \E a \in Ids : ForgetKnowledge(a)

Next == KnowledgeStep \/ Backup \/ Restore \/ Restart

Spec == Init /\ [][Next]_vars

\* A turn holds the lock and runs to its end: the loop over the lesson and
\* the recording of the turn never wait for anything.
FairSpec == Spec /\ WF_vars(LessonStep) /\ WF_vars(FinishTurn)

-----------------------------------------------------------------------------
(* Properties.                                                             *)

\* Every claim the engine can answer from is backed by the assertion its text
\* maps to: that row is active and carries exactly this claim.  So an answer
\* always cites the assertion whose change must invalidate it, and nothing
\* withdrawn is ever answered from, whatever the order of teaching,
\* correcting, retracting, forgetting, restoring and crashing.
EngineIsSupported ==
    \A c \in Claims : engine[c] # {} => factIds[c] \in ActiveWith(c)

\* A recorded turn that is not marked stale still rests on what it cited:
\* each cited assertion is active and carries the claim that was read.
FreshTurnsAreCurrent ==
    \A t \in TurnIds : turns[t].status = "fresh" =>
        \A e \in turns[t].evidence : e.id # 0 => e.id \in ActiveWith(e.claim)

\* The stale marks of the two tables agree, and a valid conclusion still links
\* every assertion its turn cites: no write that is cut short leaves a turn
\* that the next correction cannot find.
ConclusionsMatchTurns ==
    \A t \in TurnIds :
        /\ conclusions[t].status = "stale" <=> turns[t].status = "stale"
        /\ conclusions[t].status = "valid" =>
            /\ turns[t].status = "fresh"
            /\ conclusions[t].deps = {e.id : e \in turns[t].evidence} \ {0}

\* The stale marks a client sees are the durable ones: a turn in the
\* ConversationStore that the database holds is stale in both or in neither.
ViewAgreesOnStaleness ==
    \A t \in view : turns[t].status # "absent" =>
        (t \in viewStale <=> turns[t].status = "stale")

\* The ConversationStore shows the latest turns of the conversation: a
\* recorded turn it has dropped is older than everything it shows.
ViewIsRecent ==
    \A t \in TurnIds \ view : turns[t].status # "absent" =>
        /\ Cardinality(view) = MaxView
        /\ \A u \in view : t < u

\* The version rows tell the whole story of an assertion: numbered without a
\* gap, the last one the row itself, and a retraction only at the end.
HistoryIsComplete ==
    \A a \in Ids :
        /\ Len(history[a]) = assertions[a].version
        /\ assertions[a].status # "absent" =>
            history[a][assertions[a].version] =
                [status |-> assertions[a].status, claim |-> assertions[a].claim]
        /\ \A i \in DOMAIN history[a] :
            history[a][i].status = "retracted" => i = Len(history[a])

NothingRevived ==
    \A a \in Ids :
        /\ assertions[a].status = "retracted" => assertions'[a].status # "active"
        /\ assertions[a].status = "absent" /\ a < nextAssertion
            => assertions'[a].status = "absent"

\* A retracted assertion is never active again and a forgotten one never
\* comes back, except by restoring a backup taken before.
TombstonesAreFinal == [][NothingRevived \/ assertions' = backup.assertions]_vars

\* Every turn that takes the service lock gives it back.
TurnsComplete == turn.id # 0 ~> turn.id = 0

-----------------------------------------------------------------------------
(* The abstract specification this one implements.                         *)

InForce(rows) ==
    {<<a, rows[a].claim>> : a \in {b \in Ids : rows[b].status = "active"}}
AnswerOf(rows) ==
    [t \in TurnIds |->
        IF rows[t].status = "absent" THEN "none"
        ELSE IF rows[t].status = "fresh" THEN "current" ELSE "outdated"]
BasisOf(rows) ==
    [t \in TurnIds |->
        {<<e.id, e.claim>> : e \in {f \in rows[t].evidence : f.id # 0}}]

Ledger == INSTANCE KnowledgeLedger WITH
    Assertions <- Ids,
    Answers <- TurnIds,
    inForce <- InForce(assertions),
    answer <- AnswerOf(turns),
    basis <- BasisOf(turns),
    saved <- [inForce |-> InForce(backup.assertions),
              answer |-> AnswerOf(backup.turns),
              basis |-> BasisOf(backup.turns)]

\* The durable knowledge is a ledger: answers are recorded only from claims in
\* force, and the step that changes or withdraws a claim is the step that
\* outdates every answer resting on it.
ImplementsLedger == Ledger!LedgerSpec

-----------------------------------------------------------------------------
(* What the documents and comments say, and the code does not do.          *)

\* "The QaEngine is a reasoning cache rebuilt from the active assertions"
\* (service.rs:338): every active claim can be answered from.
EngineIsComplete ==
    turn = Idle => \A a \in Active : engine[assertions[a].claim] # {}

\* The same sentence, for what the engine believes: a rebuild changes nothing
\* about which of two contradicting claims stands.
RebuildKeepsBeliefs ==
    \A c \in Claims :
        engine[c] # {} =>
            ("clean" \in engine[c] <=> "clean" \in RebuiltEngine(assertions)[c])

\* "Invalidation: correcting, retracting, or forgetting an assertion marks every
\* dependent conclusion and turn stale" (DEVELOPMENT.md:340), a turn answered
\* through a rule included.
DependentTurnsAreStale ==
    \A t \in TurnIds : turns[t].status = "fresh" =>
        \A e \in turns[t].evidence : ActiveWith(e.claim) # {}

\* "fact teaching failed before reaching durable memory" (service.rs:2025): a
\* lesson that reports this has written nothing.
FailedLessonIsNotDurable ==
    [][turn.lesson # <<>> /\ ~turn.rejected /\ turn'.rejected
            => UNCHANGED storeVars]_vars

\* "Set when durable storage rejected a write for this turn" (types.rs:212).
StorageErrorIsForThisTurn ==
    [][turn.id # 0 /\ turn'.id = 0 /\ storageError' =>
            turn.rejected \/ turns'[turn.id].status = "absent"]_vars

=============================================================================
