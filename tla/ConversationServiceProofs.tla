--------------------- MODULE ConversationServiceProofs ---------------------
(***************************************************************************)
(* Theorems about ConversationService for every value of its constants.    *)
(***************************************************************************)
EXTENDS ConversationService, TLAPS, WellFoundedInduction, SequenceTheorems,
        FiniteSetTheorems

-----------------------------------------------------------------------------
(* Operators.                                                              *)

\* A non-empty set of numbers has a least member and, when it is bounded, a
\* greatest one.
LEMMA Greatest ==
    ASSUME NEW n \in Nat, NEW S \in SUBSET (1 .. n), S # {}
    PROVE  \E a \in S : \A b \in S : b <= a
<1> DEFINE T == {n - a : a \in S}
<1>1. \A a \in S : a \in Nat /\ a <= n
  OBVIOUS
<1>2. T \subseteq Nat /\ T # {}
  <2>1. \A a \in S : n - a \in Nat
    BY <1>1
  <2> QED  BY <2>1
<1>3. PICK x \in T : \A y \in T : ~ (<<y, x>> \in OpToRel(<, Nat))
  <2> HIDE DEF T
  <2> QED  BY <1>2, NatLessThanWellFounded, WFMin
<1>4. \A y \in T : ~ (y < x)
  BY <1>2, <1>3 DEF OpToRel
<1>5. PICK a \in S : x = n - a
  OBVIOUS
<1>6. ASSUME NEW b \in S PROVE b <= a
  <2>1. n - b \in T
    OBVIOUS
  <2>2. ~ (n - b < n - a)
    BY <2>1, <1>4, <1>5
  <2> QED  BY <2>2, <1>1
<1> QED  BY <1>6

LEMMA Least ==
    ASSUME NEW S \in SUBSET Nat, S # {}
    PROVE  \E a \in S : \A b \in S : a <= b
<1>1. PICK x \in S : \A y \in S : ~ (<<y, x>> \in OpToRel(<, Nat))
  BY NatLessThanWellFounded, WFMin
<1>2. \A y \in S : ~ (y < x)
  BY <1>1 DEF OpToRel
<1> QED  BY <1>2

\* A non-empty set of assertion ids has a youngest member.
LEMMA Youngest ==
    ASSUME NEW S \in SUBSET Ids, S # {}
    PROVE  \E a \in S : \A b \in S : b <= a
BY Greatest, StoreAssumption DEF Ids

\* What rebuild_assertion_maps maps a claim to: an active assertion of the
\* claim, if there is one.
LEMMA RebuiltIdsProperties ==
    ASSUME NEW rows
    PROVE  /\ RebuiltIds(rows) \in [Claims -> Ids \cup {0}]
           /\ \A c \in Claims :
                IF RowsWith(rows, c) = {} THEN RebuiltIds(rows)[c] = 0
                ELSE RebuiltIds(rows)[c] \in RowsWith(rows, c)
<1>1. ASSUME NEW c \in Claims, RowsWith(rows, c) # {}
      PROVE  RebuiltIds(rows)[c] \in RowsWith(rows, c)
  <2>1. \E a \in RowsWith(rows, c) : \A b \in RowsWith(rows, c) : b <= a
    BY <1>1, Youngest DEF RowsWith
  <2> QED  BY <1>1, <2>1 DEF RebuiltIds
<1>2. \A c \in Claims : RowsWith(rows, c) \subseteq Ids
  BY DEF RowsWith
<1>3. ASSUME NEW c \in Claims, RowsWith(rows, c) = {}
      PROVE  RebuiltIds(rows)[c] = 0
  BY <1>3 DEF RebuiltIds
<1>4. RebuiltIds(rows) \in [Claims -> Ids \cup {0}]
  <2>1. \A c \in Claims : RebuiltIds(rows)[c] \in Ids \cup {0}
    BY <1>1, <1>2, <1>3
  <2>2. RebuiltIds(rows) = [c \in Claims |-> RebuiltIds(rows)[c]]
    BY DEF RebuiltIds
  <2> QED  BY <2>1, <2>2
<1> QED  BY <1>1, <1>3, <1>4

LEMMA RebuiltEngineType ==
    ASSUME NEW rows
    PROVE  RebuiltEngine(rows) \in [Claims -> SUBSET {"clean", "contradicted"}]
BY DEF RebuiltEngine

LEMMA StoredType ==
    ASSUME NEW e \in [Claims -> SUBSET {"clean", "contradicted"}], NEW c
    PROVE  Stored(e, c) \in [Claims -> SUBSET {"clean", "contradicted"}]
BY DEF Stored

LEMMA RemovedType ==
    ASSUME NEW e \in [Claims -> SUBSET {"clean", "contradicted"}], NEW c
    PROVE  Removed(e, c) \in [Claims -> SUBSET {"clean", "contradicted"}]
BY DEF Removed

-----------------------------------------------------------------------------
(* Type correctness.                                                       *)

\* A transaction that appends a version keeps the two tables typed.
LEMMA PutVersionType ==
    ASSUME StoreTypeOK, NEW a \in Ids,
           NEW s \in {"active", "retracted"}, NEW c \in Claims,
           PutVersion(a, s, c)
    PROVE  /\ assertions' \in [Ids -> Assertion]
           /\ history' \in [Ids -> Seq(Version)]
<1>1. assertions[a].version + 1 \in Nat
  BY DEF StoreTypeOK, Assertion, NoRow
<1>2. assertions' \in [Ids -> Assertion]
  BY <1>1 DEF PutVersion, StoreTypeOK, Assertion
<1>3. [status |-> s, claim |-> c] \in Version
  BY DEF Version
<1>4. Append(history[a], [status |-> s, claim |-> c]) \in Seq(Version)
  BY <1>3, AppendProperties DEF StoreTypeOK
<1> QED  BY <1>2, <1>4 DEF PutVersion, StoreTypeOK

LEMMA StaleTablesType ==
    ASSUME StoreTypeOK, NEW a
    PROVE  /\ StaleTurns(a) \in [TurnIds -> Turn]
           /\ StaleConclusions(a) \in [TurnIds -> Conclusion]
<1>1. ASSUME NEW t \in TurnIds
      PROVE  /\ [turns[t] EXCEPT !.status = "stale"] \in Turn
             /\ [conclusions[t] EXCEPT !.status = "stale"] \in Conclusion
  BY DEF StoreTypeOK, Turn, Conclusion
<1> QED  BY <1>1 DEF StoreTypeOK, StaleTurns, StaleConclusions

\* An active row carries a claim.
LEMMA ActiveClaim ==
    ASSUME StoreTypeOK, NEW a \in Ids, assertions[a].status # "absent"
    PROVE  /\ assertions[a].claim \in Claims
           /\ assertions[a].version \in Nat
           /\ assertions[a].status \in {"active", "retracted"}
BY DEF StoreTypeOK, Assertion, NoRow

LEMMA InsertType ==
    ASSUME StoreTypeOK, NEW a, NEW c \in Claims, InsertAssertion(a, c)
    PROVE  StoreTypeOK'
<1>1. a \in Ids
  BY DEF InsertAssertion
<1>2. /\ assertions' \in [Ids -> Assertion]
      /\ history' \in [Ids -> Seq(Version)]
  BY <1>1, PutVersionType DEF InsertAssertion
<1>3. nextAssertion' \in 1 .. MaxAssertions + 1
  BY <1>1, StoreAssumption DEF InsertAssertion, Ids
<1> QED  BY <1>2, <1>3 DEF InsertAssertion, StoreTypeOK

LEMMA ReaffirmType ==
    ASSUME StoreTypeOK, NEW a, ReaffirmAssertion(a)
    PROVE  StoreTypeOK'
<1>1. a \in Ids /\ assertions[a].claim \in Claims
  BY ActiveClaim DEF ReaffirmAssertion, Active
<1>2. /\ assertions' \in [Ids -> Assertion]
      /\ history' \in [Ids -> Seq(Version)]
  BY <1>1, PutVersionType DEF ReaffirmAssertion
<1> QED  BY <1>2 DEF ReaffirmAssertion, StoreTypeOK

LEMMA CorrectType ==
    ASSUME StoreTypeOK, NEW a, NEW c \in Claims, CorrectAssertion(a, c)
    PROVE  StoreTypeOK'
<1>1. a \in Ids
  BY DEF CorrectAssertion, Active
<1>2. /\ assertions' \in [Ids -> Assertion]
      /\ history' \in [Ids -> Seq(Version)]
  BY <1>1, PutVersionType DEF CorrectAssertion
<1>3. /\ turns' \in [TurnIds -> Turn]
      /\ conclusions' \in [TurnIds -> Conclusion]
  BY StaleTablesType DEF CorrectAssertion, MarkDependentsStale
<1> QED  BY <1>2, <1>3 DEF CorrectAssertion, StoreTypeOK

LEMMA RetractType ==
    ASSUME StoreTypeOK, NEW a, RetractAssertion(a)
    PROVE  StoreTypeOK'
<1>1. a \in Ids /\ assertions[a].claim \in Claims
  BY ActiveClaim DEF RetractAssertion, Active
<1>2. /\ assertions' \in [Ids -> Assertion]
      /\ history' \in [Ids -> Seq(Version)]
  BY <1>1, PutVersionType DEF RetractAssertion
<1>3. /\ turns' \in [TurnIds -> Turn]
      /\ conclusions' \in [TurnIds -> Conclusion]
  BY StaleTablesType DEF RetractAssertion, MarkDependentsStale
<1> QED  BY <1>2, <1>3 DEF RetractAssertion, StoreTypeOK

LEMMA ForgetType ==
    ASSUME StoreTypeOK, NEW a, ForgetAssertion(a)
    PROVE  StoreTypeOK'
<1>1. assertions' \in [Ids -> Assertion]
  BY DEF ForgetAssertion, StoreTypeOK, Assertion
<1>2. history' \in [Ids -> Seq(Version)]
  <2>1. << >> \in Seq(Version)
    BY EmptySeq
  <2> QED  BY <2>1 DEF ForgetAssertion, StoreTypeOK
<1>3. turns' \in [TurnIds -> Turn]
  BY StaleTablesType DEF ForgetAssertion
<1>4. conclusions' \in [TurnIds -> Conclusion]
  <2>1. StaleConclusions(a) \in [TurnIds -> Conclusion]
    BY StaleTablesType
  <2>2. ASSUME NEW k \in Conclusion
        PROVE  [k EXCEPT !.deps = @ \ {a}] \in Conclusion
    BY DEF Conclusion
  <2> QED  BY <2>1, <2>2 DEF ForgetAssertion
<1> QED  BY <1>1, <1>2, <1>3, <1>4 DEF ForgetAssertion, StoreTypeOK

LEMMA RecordType ==
    ASSUME StoreTypeOK, NEW t \in TurnIds, NEW E \in SUBSET Evidence,
           RecordTurn(t, E)
    PROVE  StoreTypeOK'
<1> DEFINE ids == {e.id : e \in E} \ {0}
<1>1. ids \subseteq Ids
  BY DEF Evidence
<1>2. [status |-> "fresh", evidence |-> E] \in Turn
  BY DEF Turn
<1>3. NoConclusion \in Conclusion /\ [status |-> "valid", deps |-> ids] \in Conclusion
  BY <1>1 DEF NoConclusion, Conclusion
<1>4. turns' \in [TurnIds -> Turn]
  BY <1>2 DEF RecordTurn, StoreTypeOK
<1>5. conclusions' \in [TurnIds -> Conclusion]
  BY <1>3 DEF RecordTurn, StoreTypeOK
<1> QED  BY <1>4, <1>5 DEF RecordTurn, StoreTypeOK

-----------------------------------------------------------------------------
(* The steps of a turn, one lemma per operator that several actions use.   *)

\* What TypeOK says of the engine, the map, the view and the turn in progress.
MemoryTypeOK ==
    /\ engine \in [Claims -> SUBSET {"clean", "contradicted"}]
    /\ factIds \in [Claims -> Ids \cup {0}]
    /\ view \subseteq TurnIds
    /\ viewStale \subseteq view

TurnRecord == [id : TurnIds \cup {0}, lesson : Seq(Claims),
               evidence : SUBSET Evidence, rejected : BOOLEAN]

LEMMA IdleType == Idle \in TurnRecord
<1>1. << >> \in Seq(Claims)
  BY EmptySeq
<1> QED  BY <1>1 DEF Idle, TurnRecord

LEMMA StartTurnType ==
    ASSUME TypeOK, NEW lesson \in Seq(Claims), NEW E \in SUBSET Evidence,
           NEW r \in BOOLEAN, StartTurn(lesson, E, r)
    PROVE  /\ turn' \in TurnRecord
           /\ nextTurn' \in 1 .. MaxTurns + 1
           /\ backup' = backup /\ backups' = backups
BY StoreAssumption DEF StartTurn, TypeOK, TurnIds, TurnRecord

LEMMA RebuildType ==
    ASSUME NEW db, Rebuild(db)
    PROVE  MemoryTypeOK'
<1>1. LoadedView(db.turns) \subseteq TurnIds
  BY DEF LoadedView, Recent
<1>2. view' \subseteq TurnIds /\ viewStale' \subseteq view'
  BY <1>1 DEF Rebuild, RebuildView
<1>3. engine' \in [Claims -> SUBSET {"clean", "contradicted"}]
  BY RebuiltEngineType DEF Rebuild
<1>4. factIds' \in [Claims -> Ids \cup {0}]
  BY RebuiltIdsProperties DEF Rebuild
<1> QED  BY <1>2, <1>3, <1>4 DEF MemoryTypeOK

LEMMA PersistType ==
    ASSUME StoreTypeOK, NEW c \in Claims, NEW a, PersistClaim(c, a)
    PROVE  StoreTypeOK' /\ a \in Ids
<1>1. CASE a \in ActiveWith(c) /\ ReaffirmAssertion(a)
  BY <1>1, ReaffirmType DEF ActiveWith, Active
<1>2. CASE InsertAssertion(a, c)
  BY <1>2, InsertType DEF InsertAssertion
<1> QED  BY <1>1, <1>2 DEF PersistClaim

LEMMA ApplyStaleType ==
    ASSUME MemoryTypeOK, NEW a, ApplyStale(a)
    PROVE  view' \subseteq TurnIds /\ viewStale' \subseteq view'
BY DEF MemoryTypeOK, ApplyStale

LEMMA WithdrawType ==
    ASSUME MemoryTypeOK, NEW c, Withdraw(c)
    PROVE  /\ engine' \in [Claims -> SUBSET {"clean", "contradicted"}]
           /\ factIds' \in [Claims -> Ids \cup {0}]
<1>1. engine' \in [Claims -> SUBSET {"clean", "contradicted"}]
  BY RemovedType DEF MemoryTypeOK, Withdraw
<1> QED  BY <1>1 DEF MemoryTypeOK, Withdraw

LEMMA CorrectionType ==
    ASSUME TypeOK, NEW a \in Ids, NEW c \in Claims, Correction(a, c)
    PROVE  StoreTypeOK' /\ MemoryTypeOK'
<1> DEFINE old == assertions[a].claim
<1>1. StoreTypeOK'
  BY CorrectType DEF Correction, TypeOK
<1>2. engine' \in [Claims -> SUBSET {"clean", "contradicted"}]
  <2>1. Removed(engine, old) \in [Claims -> SUBSET {"clean", "contradicted"}]
    BY RemovedType DEF TypeOK
  <2> QED  BY <2>1, StoredType DEF Correction
<1>3. factIds' \in [Claims -> Ids \cup {0}]
  BY DEF Correction, TypeOK
<1>4. view' \subseteq TurnIds /\ viewStale' \subseteq view'
  BY ApplyStaleType DEF Correction, TypeOK, MemoryTypeOK
<1> QED  BY <1>1, <1>2, <1>3, <1>4 DEF MemoryTypeOK

LEMMA LostCorrectionType ==
    ASSUME TypeOK, NEW a \in Ids, NEW c \in Claims, LostCorrection(a, c)
    PROVE  StoreTypeOK' /\ MemoryTypeOK'
<1>1. StoreTypeOK'
  BY CorrectType DEF LostCorrection, TypeOK
<1> QED  BY <1>1 DEF LostCorrection, memoryVars, TypeOK, MemoryTypeOK

\* TypeOK, put together from its parts.
LEMMA TypeParts ==
    TypeOK <=>
        /\ StoreTypeOK
        /\ MemoryTypeOK
        /\ turn \in TurnRecord
        /\ nextTurn \in 1 .. MaxTurns + 1
        /\ storageError \in BOOLEAN
        /\ backup \in [assertions : [Ids -> Assertion],
                       history : [Ids -> Seq(Version)],
                       turns : [TurnIds -> Turn],
                       conclusions : [TurnIds -> Conclusion]]
        /\ backups \in 0 .. MaxBackups
BY DEF TypeOK, MemoryTypeOK, TurnRecord

LEMMA InitType == Init => TypeOK
<1> SUFFICES ASSUME Init PROVE TypeOK
  OBVIOUS
<1>1. << >> \in Seq(Version)
  BY EmptySeq
<1>2. StoreTypeOK
  BY <1>1, StoreAssumption
  DEF Init, StoreInit, StoreTypeOK, Assertion, Turn, Conclusion, NoTurnRow,
      NoConclusion
<1>3. turn \in TurnRecord
  BY IdleType DEF Init
<1>4. backup \in [assertions : [Ids -> Assertion],
                  history : [Ids -> Seq(Version)],
                  turns : [TurnIds -> Turn],
                  conclusions : [TurnIds -> Conclusion]]
  BY <1>2 DEF Init, Snapshot, StoreTypeOK
<1>5. nextTurn \in 1 .. MaxTurns + 1 /\ backups \in 0 .. MaxBackups
  BY StoreAssumption, ServiceAssumption DEF Init
<1>6. MemoryTypeOK /\ storageError \in BOOLEAN
  BY DEF Init, MemoryTypeOK
<1> QED  BY <1>2, <1>3, <1>4, <1>5, <1>6, TypeParts

\* TypeOK is preserved by every step.
LEMMA NextType == TypeOK /\ [Next]_vars => TypeOK'
<1> SUFFICES ASSUME TypeOK, [Next]_vars PROVE TypeOK'
  OBVIOUS
<1> USE DEF TypeOK, MemoryTypeOK, TurnRecord
<1>0. StoreTypeOK /\ MemoryTypeOK
  OBVIOUS
<1>1. ASSUME NEW S \in SUBSET Claims, Ask(S) PROVE TypeOK'
  <2>1. PICK U \in SUBSET {c \in S : Kind[c] = "rule"} :
            StartTurn(<<>>, {[id |-> IF c \in U THEN 0 ELSE factIds[c],
                              claim |-> c] : c \in S}, FALSE)
    BY <1>1 DEF Ask
  <2>2. {[id |-> IF c \in U THEN 0 ELSE factIds[c], claim |-> c] : c \in S}
            \in SUBSET Evidence
    BY DEF Evidence
  <2>3. << >> \in Seq(Claims)
    BY EmptySeq
  <2>4. /\ turn' \in TurnRecord
        /\ nextTurn' \in 1 .. MaxTurns + 1
        /\ backup' = backup /\ backups' = backups
    BY <2>1, <2>2, <2>3, StartTurnType
  <2> QED  BY <1>1, <2>4 DEF Ask, storeVars, memoryVars, StoreTypeOK
<1>2. ASSUME NEW a \in Ids, AskBefore(a) PROVE TypeOK'
  <2>1. {[id |-> a, claim |-> assertions[a].claim]} \in SUBSET Evidence
    BY <1>2, ActiveClaim DEF AskBefore, OnlyCandidate, Active, Evidence
  <2>2. << >> \in Seq(Claims)
    BY EmptySeq
  <2>3. /\ turn' \in TurnRecord
        /\ nextTurn' \in 1 .. MaxTurns + 1
        /\ backup' = backup /\ backups' = backups
    BY <1>2, <2>1, <2>2, StartTurnType DEF AskBefore
  <2> QED  BY <1>2, <2>3 DEF AskBefore, storeVars, memoryVars, StoreTypeOK
<1>3. CASE FailLookup
  <2>1. << >> \in Seq(Claims) /\ {} \in SUBSET Evidence
    BY EmptySeq
  <2>2. /\ turn' \in TurnRecord
        /\ nextTurn' \in 1 .. MaxTurns + 1
        /\ backup' = backup /\ backups' = backups
    BY <1>3, <2>1, StartTurnType DEF FailLookup
  <2> QED  BY <1>3, <2>2 DEF FailLookup, storeVars, memoryVars, StoreTypeOK
<1>4. ASSUME NEW lesson \in Lessons, BeginLesson(lesson) PROVE TypeOK'
  <2>1. lesson \in Seq(Claims) /\ {} \in SUBSET Evidence
    BY ServiceAssumption
  <2>2. /\ turn' \in TurnRecord
        /\ nextTurn' \in 1 .. MaxTurns + 1
        /\ backup' = backup /\ backups' = backups
    BY <1>4, <2>1, StartTurnType DEF BeginLesson
  <2> QED  BY <1>4, <2>2 DEF BeginLesson, storeVars, memoryVars, StoreTypeOK
<1>5. CASE TeachClaim
  <2>1. Head(turn.lesson) \in Claims /\ Tail(turn.lesson) \in Seq(Claims)
    BY <1>5, HeadTailProperties DEF TeachClaim
  <2>2. PICK a \in Ids : /\ PersistClaim(Head(turn.lesson), a)
                         /\ factIds' = [factIds EXCEPT ![Head(turn.lesson)] = a]
                         /\ engine' = Stored(engine, Head(turn.lesson))
    BY <1>5 DEF TeachClaim
  <2>3. StoreTypeOK'
    BY <2>1, <2>2, PersistType
  <2>4. MemoryTypeOK'
    BY <1>5, <2>1, <2>2, StoredType DEF TeachClaim
  <2>5. turn' \in TurnRecord
    BY <1>5, <2>1 DEF TeachClaim
  <2> QED  BY <1>5, <2>3, <2>4, <2>5 DEF TeachClaim
<1>6. CASE CancelLesson
  <2>1. << >> \in Seq(Claims)
    BY EmptySeq
  <2>2. turn' \in TurnRecord
    BY <1>6, <2>1 DEF CancelLesson
  <2> QED  BY <1>6, <2>2 DEF CancelLesson, storeVars, memoryVars, StoreTypeOK
<1>7. ASSUME FailLesson, StoreTypeOK' PROVE TypeOK'
  <2>1. << >> \in Seq(Claims)
    BY EmptySeq
  <2>2. turn' \in TurnRecord
    BY <1>7, <2>1 DEF FailLesson
  <2> QED  BY <1>7, <2>2 DEF FailLesson, memoryVars
<1>8. CASE RejectClaim
  BY <1>7, <1>8 DEF RejectClaim, storeVars, StoreTypeOK
<1>9. CASE LoseClaim
  <2>1. Head(turn.lesson) \in Claims
    BY <1>9, HeadTailProperties DEF LoseClaim
  <2> QED  BY <1>7, <1>9, <2>1, PersistType DEF LoseClaim
<1>10. CASE FinishTurn
  <2>1. StoreTypeOK' /\ storageError' \in BOOLEAN
    <3>1. CASE RecordTurn(turn.id, turn.evidence) /\ UNCHANGED storageError
      <4>1. turn.id \in TurnIds /\ turn.evidence \in SUBSET Evidence
        BY <1>10 DEF FinishTurn
      <4> QED  BY <3>1, <4>1, RecordType
    <3>2. CASE storageError' = TRUE /\ UNCHANGED storeVars
      BY <3>2 DEF storeVars, StoreTypeOK
    <3> QED  BY <1>10, <3>1, <3>2 DEF FinishTurn
  <2>2. view' \subseteq TurnIds /\ viewStale' \subseteq view'
    BY <1>10 DEF FinishTurn, Recent
  <2>3. turn' \in TurnRecord
    BY <1>10, IdleType DEF FinishTurn
  <2> QED  BY <1>10, <2>1, <2>2, <2>3 DEF FinishTurn
<1>11. CASE AbandonTurn
  <2>1. turn' \in TurnRecord
    BY <1>11, IdleType DEF AbandonTurn
  <2> QED  BY <1>11, <2>1 DEF AbandonTurn, storeVars, memoryVars, StoreTypeOK
<1>12. ASSUME NEW a \in Ids, NEW c \in Claims, CorrectKnowledge(a, c)
       PROVE  TypeOK'
  <2>1. StoreTypeOK' /\ MemoryTypeOK'
    BY <1>12, CorrectionType, LostCorrectionType DEF CorrectKnowledge
  <2> QED  BY <1>12, <2>1 DEF CorrectKnowledge
<1>13. ASSUME NEW a \in Ids, NEW c \in Claims, CorrectInTurn(a, c)
       PROVE  TypeOK'
  <2>1. << >> \in Seq(Claims) /\ {} \in SUBSET Evidence
        /\ {[id |-> a, claim |-> c]} \in SUBSET Evidence
    BY EmptySeq DEF Evidence
  <2>2. /\ turn' \in TurnRecord
        /\ nextTurn' \in 1 .. MaxTurns + 1
        /\ backup' = backup /\ backups' = backups
    BY <1>13, <2>1, StartTurnType DEF CorrectInTurn
  <2>3. StoreTypeOK' /\ MemoryTypeOK' /\ storageError' \in BOOLEAN
    <3>1. CASE Correction(a, c) /\ UNCHANGED storageError
      BY <3>1, CorrectionType
    <3>2. CASE LostCorrection(a, c) /\ storageError' = TRUE
      BY <3>2, LostCorrectionType
    <3>3. CASE storageError' = TRUE /\ UNCHANGED <<storeVars, memoryVars>>
      BY <3>3 DEF storeVars, memoryVars, StoreTypeOK
    <3> QED  BY <1>13, <3>1, <3>2, <3>3 DEF CorrectInTurn
  <2> QED  BY <2>2, <2>3
<1>14. ASSUME NEW a \in Ids, RetractKnowledge(a) PROVE TypeOK'
  <2>1. StoreTypeOK'
    BY <1>14, RetractType DEF RetractKnowledge
  <2>2. MemoryTypeOK'
    <3>1. CASE Withdraw(assertions[a].claim) /\ ApplyStale(a)
      BY <1>0, <3>1, WithdrawType, ApplyStaleType
    <3>2. CASE UNCHANGED memoryVars
      BY <3>2 DEF memoryVars
    <3> QED  BY <1>14, <3>1, <3>2 DEF RetractKnowledge
  <2> QED  BY <1>14, <2>1, <2>2 DEF RetractKnowledge
<1>15. ASSUME NEW a \in Ids, ForgetKnowledge(a) PROVE TypeOK'
  <2>1. StoreTypeOK'
    BY <1>15, ForgetType DEF ForgetKnowledge
  <2>2. MemoryTypeOK'
    BY <1>0, <1>15, WithdrawType, ApplyStaleType DEF ForgetKnowledge
  <2> QED  BY <1>15, <2>1, <2>2 DEF ForgetKnowledge
<1>16. CASE Backup
  <2>1. backup' \in [assertions : [Ids -> Assertion],
                     history : [Ids -> Seq(Version)],
                     turns : [TurnIds -> Turn],
                     conclusions : [TurnIds -> Conclusion]]
    BY <1>16 DEF Backup, Snapshot, StoreTypeOK
  <2>2. backups' \in 0 .. MaxBackups
    BY <1>16, ServiceAssumption DEF Backup
  <2> QED  BY <1>16, <2>1, <2>2 DEF Backup, storeVars, memoryVars, StoreTypeOK
<1>17. CASE Restore
  <2>1. StoreTypeOK'
    BY <1>17 DEF Restore, StoreTypeOK
  <2>2. MemoryTypeOK'
    <3>1. CASE Rebuild(backup)
      BY <3>1, RebuildType
    <3>2. CASE UNCHANGED memoryVars
      BY <3>2 DEF memoryVars
    <3>3. CASE /\ engine' = RebuiltEngine(backup.assertions)
               /\ factIds' = [c \in Claims |-> 0]
               /\ RebuildView(backup.turns)
      BY <3>3, RebuiltEngineType DEF RebuildView, LoadedView, Recent
    <3> QED  BY <1>17, <3>1, <3>2, <3>3 DEF Restore
  <2> QED  BY <1>17, <2>1, <2>2 DEF Restore
<1>18. CASE Restart
  <2>1. MemoryTypeOK'
    BY <1>18, RebuildType DEF Restart
  <2>2. turn' \in TurnRecord
    BY <1>18, IdleType DEF Restart
  <2> QED  BY <1>18, <2>1, <2>2 DEF Restart, storeVars, StoreTypeOK
<1>19. CASE UNCHANGED vars
  BY <1>19 DEF vars, storeVars, memoryVars, StoreTypeOK
<1> QED
  BY <1>1, <1>2, <1>3, <1>4, <1>5, <1>6, <1>8, <1>9, <1>10, <1>11, <1>12,
     <1>13, <1>14, <1>15, <1>16, <1>17, <1>18, <1>19 DEF Next, KnowledgeStep, LessonStep

\* Every table, the engine, the map, the view and the turn in progress keep
\* their types: in particular no answer cites an assertion id that does not
\* exist and the stale marks of the view are marks of turns it holds.
THEOREM TypeCorrect == Spec => []TypeOK
<1>1. Init => TypeOK
  BY InitType
<1>2. TypeOK /\ [Next]_vars => TypeOK'
  BY NextType
<1> QED  BY <1>1, <1>2, PTL DEF Spec

-----------------------------------------------------------------------------
(* What a step of the service does to the database: nothing, one           *)
(* transaction, or a restore.  The invariants of the tables follow from    *)
(* this alone, whatever happens in memory and whichever reads fail.        *)

Transaction ==
    \/ \E a \in Ids, c \in Claims : InsertAssertion(a, c)
    \/ \E a \in Ids : ReaffirmAssertion(a)
    \/ \E a \in Ids, c \in Claims : CorrectAssertion(a, c)
    \/ \E a \in Ids : RetractAssertion(a)
    \/ \E a \in Ids : ForgetAssertion(a)
    \/ turn.id \in TurnIds /\ RecordTurn(turn.id, turn.evidence)

Restored ==
    /\ assertions' = backup.assertions
    /\ history' = backup.history
    /\ turns' = backup.turns
    /\ conclusions' = backup.conclusions
    /\ UNCHANGED <<nextAssertion, backup>>

OneTransaction == (Transaction \/ UNCHANGED storeVars) /\ UNCHANGED backup

DurableStep ==
    \/ UNCHANGED <<storeVars, backup>>
    \/ UNCHANGED storeVars /\ backup' = Snapshot
    \/ Transaction /\ UNCHANGED backup
    \/ Restored

LEMMA PersistIsTransaction ==
    ASSUME NEW c \in Claims, NEW a \in Ids, PersistClaim(c, a)
    PROVE  Transaction
BY DEF PersistClaim, Transaction

LEMMA KnowledgeIsTransaction == TypeOK /\ KnowledgeStep => OneTransaction
<1> SUFFICES ASSUME TypeOK, KnowledgeStep PROVE OneTransaction
  OBVIOUS
<1>1. ASSUME NEW S \in SUBSET Claims, Ask(S) PROVE OneTransaction
  BY <1>1 DEF Ask, StartTurn, OneTransaction
<1>2. ASSUME NEW a \in Ids, AskBefore(a) PROVE OneTransaction
  BY <1>2 DEF AskBefore, StartTurn, OneTransaction
<1>3. CASE FailLookup
  BY <1>3 DEF FailLookup, StartTurn, OneTransaction
<1>4. ASSUME NEW lesson \in Lessons, BeginLesson(lesson) PROVE OneTransaction
  BY <1>4 DEF BeginLesson, StartTurn, OneTransaction
<1>5. ASSUME TeachClaim \/ LoseClaim PROVE OneTransaction
  <2>1. Head(turn.lesson) \in Claims
    BY <1>5, HeadTailProperties DEF TeachClaim, LoseClaim, TypeOK
  <2>2. PICK a \in Ids : PersistClaim(Head(turn.lesson), a)
    BY <1>5 DEF TeachClaim, LoseClaim
  <2>3. UNCHANGED backup
    BY <1>5 DEF TeachClaim, LoseClaim, FailLesson
  <2> QED  BY <2>1, <2>2, <2>3, PersistIsTransaction DEF OneTransaction
<1>6. CASE CancelLesson
  BY <1>6 DEF CancelLesson, OneTransaction
<1>7. CASE RejectClaim
  BY <1>7 DEF RejectClaim, FailLesson, OneTransaction
<1>8. CASE FinishTurn
  <2>1. turn.id \in TurnIds /\ turn.evidence \in SUBSET Evidence
    BY <1>8 DEF FinishTurn, TypeOK
  <2>2. Transaction \/ UNCHANGED storeVars
    BY <1>8, <2>1 DEF FinishTurn, Transaction
  <2> QED  BY <1>8, <2>2 DEF FinishTurn, OneTransaction
<1>9. CASE AbandonTurn
  BY <1>9 DEF AbandonTurn, OneTransaction
<1>10. ASSUME NEW a \in Ids, NEW c \in Claims, CorrectKnowledge(a, c)
       PROVE  OneTransaction
  BY <1>10 DEF CorrectKnowledge, Correction, LostCorrection, Transaction, OneTransaction
<1>11. ASSUME NEW a \in Ids, NEW c \in Claims, CorrectInTurn(a, c)
       PROVE  OneTransaction
  BY <1>11
  DEF CorrectInTurn, Correction, LostCorrection, StartTurn, Transaction, OneTransaction
<1>12. ASSUME NEW a \in Ids, RetractKnowledge(a) PROVE OneTransaction
  BY <1>12 DEF RetractKnowledge, Transaction, OneTransaction
<1>13. ASSUME NEW a \in Ids, ForgetKnowledge(a) PROVE OneTransaction
  BY <1>13 DEF ForgetKnowledge, Transaction, OneTransaction
<1> QED
  BY <1>1, <1>2, <1>3, <1>4, <1>5, <1>6, <1>7, <1>8, <1>9, <1>10, <1>11,
     <1>12, <1>13 DEF KnowledgeStep, LessonStep

LEMMA StepIsDurableStep == TypeOK /\ [Next]_vars => DurableStep
<1> SUFFICES ASSUME TypeOK, [Next]_vars PROVE DurableStep
  OBVIOUS
<1>1. CASE KnowledgeStep
  BY <1>1, KnowledgeIsTransaction DEF OneTransaction, DurableStep
<1>2. CASE Backup
  BY <1>2 DEF Backup, DurableStep
<1>3. CASE Restore
  BY <1>3 DEF Restore, Restored, DurableStep
<1>4. CASE Restart
  BY <1>4 DEF Restart, DurableStep
<1>5. CASE UNCHANGED vars
  BY <1>5 DEF vars, DurableStep
<1> QED  BY <1>1, <1>2, <1>3, <1>4, <1>5 DEF Next

-----------------------------------------------------------------------------
(* Assertion ids.                                                          *)

\* An id that was not generated yet names no row, in the backup neither.
FreshIds ==
    \A a \in Ids : a >= nextAssertion =>
        assertions[a] = NoRow /\ backup.assertions[a] = NoRow

\* The tables after a write to one assertion.
LEMMA OneRowChanges ==
    ASSUME StoreTypeOK, NEW a, NEW s, NEW c, PutVersion(a, s, c)
    PROVE  \A b \in Ids \ {a} : /\ assertions'[b] = assertions[b]
                                /\ history'[b] = history[b]
BY DEF PutVersion, StoreTypeOK

LEMMA FreshIdsInit == Init => FreshIds
BY DEF Init, StoreInit, Snapshot, FreshIds

LEMMA FreshIdsNext == TypeOK /\ FreshIds /\ DurableStep => FreshIds'
<1> SUFFICES ASSUME TypeOK, FreshIds, DurableStep PROVE FreshIds'
  OBVIOUS
<1> USE DEF FreshIds
<1>0. StoreTypeOK /\ nextAssertion \in Nat /\ Ids \subseteq Nat
  BY StoreAssumption DEF TypeOK, StoreTypeOK, Ids
<1>1. CASE UNCHANGED <<storeVars, backup>>
  BY <1>1 DEF storeVars
<1>2. CASE UNCHANGED storeVars /\ backup' = Snapshot
  BY <1>2 DEF storeVars, Snapshot
<1>3. CASE Transaction /\ UNCHANGED backup
  <2>1. ASSUME NEW a \in Ids, NEW c \in Claims, InsertAssertion(a, c)
        PROVE  FreshIds'
    <3>1. nextAssertion' = nextAssertion + 1 /\ a = nextAssertion
      BY <2>1 DEF InsertAssertion
    <3>2. ASSUME NEW b \in Ids, b >= nextAssertion'
          PROVE  b # a /\ b >= nextAssertion
      <4>1. b \in Nat /\ nextAssertion \in Nat
        BY <1>0
      <4> QED  BY <4>1, <3>1, <3>2
    <3>3. \A b \in Ids \ {a} : assertions'[b] = assertions[b]
      BY <1>0, <2>1, OneRowChanges DEF InsertAssertion
    <3> QED  BY <1>3, <3>2, <3>3
  <2>2. ASSUME NEW a \in Ids, NEW s, NEW c, assertions[a] # NoRow,
               PutVersion(a, s, c), UNCHANGED nextAssertion
        PROVE  FreshIds'
    BY <1>0, <1>3, <2>2, OneRowChanges
  <2>3. \A a \in Active : assertions[a] # NoRow
    BY DEF Active, NoRow
  <2>4. ASSUME NEW a \in Ids, ReaffirmAssertion(a) PROVE FreshIds'
    BY <2>2, <2>3, <2>4 DEF ReaffirmAssertion
  <2>5. ASSUME NEW a \in Ids, NEW c \in Claims, CorrectAssertion(a, c)
        PROVE  FreshIds'
    BY <2>2, <2>3, <2>5 DEF CorrectAssertion
  <2>6. ASSUME NEW a \in Ids, RetractAssertion(a) PROVE FreshIds'
    BY <2>2, <2>3, <2>6 DEF RetractAssertion
  <2>7. ASSUME NEW a \in Ids, ForgetAssertion(a) PROVE FreshIds'
    BY <1>0, <1>3, <2>7 DEF ForgetAssertion, StoreTypeOK
  <2>8. ASSUME NEW t, NEW E, RecordTurn(t, E) PROVE FreshIds'
    BY <1>3, <2>8 DEF RecordTurn
  <2> QED  BY <1>3, <2>1, <2>4, <2>5, <2>6, <2>7, <2>8 DEF Transaction
<1>4. CASE Restored
  BY <1>4 DEF Restored
<1> QED  BY <1>1, <1>2, <1>3, <1>4 DEF DurableStep

LEMMA FreshIdsAlways == Spec => [](TypeOK /\ FreshIds)
<1>1. Init => TypeOK /\ FreshIds
  BY InitType, FreshIdsInit
<1>2. TypeOK /\ FreshIds /\ [Next]_vars => (TypeOK /\ FreshIds)'
  BY NextType, StepIsDurableStep, FreshIdsNext
<1> QED  BY <1>1, <1>2, PTL DEF Spec

LEMMA DurableIsFinal ==
    ASSUME TypeOK, FreshIds, DurableStep
    PROVE  NothingRevived \/ assertions' = backup.assertions
<1> DEFINE Final == NothingRevived \/ assertions' = backup.assertions
<1> USE DEF NothingRevived
<1>0. StoreTypeOK /\ nextAssertion \in Nat /\ Ids \subseteq Nat
  BY StoreAssumption DEF TypeOK, StoreTypeOK, Ids
<1>1. ASSUME assertions' = assertions PROVE Final
  BY <1>1
<1>2. ASSUME NEW a \in Ids, NEW c \in Claims, InsertAssertion(a, c) PROVE Final
  <2>1. assertions[a].status = "absent" /\ ~ (a < nextAssertion)
    BY <1>0, <1>2 DEF InsertAssertion, FreshIds, NoRow
  <2>2. \A b \in Ids \ {a} : assertions'[b] = assertions[b]
    BY <1>0, <1>2, OneRowChanges DEF InsertAssertion
  <2> QED  BY <2>1, <2>2
<1>3. ASSUME NEW a \in Active, NEW s, NEW c, PutVersion(a, s, c) PROVE Final
  <2>1. assertions[a].status = "active"
    BY DEF Active
  <2>2. \A b \in Ids \ {a} : assertions'[b] = assertions[b]
    BY <1>0, <1>3, OneRowChanges
  <2> QED  BY <2>1, <2>2
<1>4. ASSUME NEW a \in Ids, ForgetAssertion(a) PROVE Final
  BY <1>0, <1>4 DEF ForgetAssertion, StoreTypeOK, NoRow
<1>5. CASE Transaction
  BY <1>1, <1>2, <1>3, <1>4, <1>5
  DEF Transaction, ReaffirmAssertion, CorrectAssertion, RetractAssertion, RecordTurn
<1>6. CASE Restored
  BY <1>6 DEF Restored
<1> QED  BY <1>1, <1>5, <1>6 DEF DurableStep, storeVars

\* A retracted assertion is never active again and a forgotten one never comes
\* back, except by a restore: no correction, reaffirmation or lesson revives
\* an id, with or without failing reads.
THEOREM TombstonesStayFinal == Spec => TombstonesAreFinal
<1>1. TypeOK /\ FreshIds /\ [Next]_vars
        => [NothingRevived \/ assertions' = backup.assertions]_vars
  BY StepIsDurableStep, DurableIsFinal
<1> QED  BY <1>1, FreshIdsAlways, PTL DEF Spec, TombstonesAreFinal

-----------------------------------------------------------------------------
(* The version rows.                                                       *)

\* HistoryIsComplete, of one assertion and of any pair of tables, so that it
\* can be said of the backup too.
TellsAll(row, h) ==
    /\ Len(h) = row.version
    /\ row.status # "absent" =>
        h[row.version] = [status |-> row.status, claim |-> row.claim]
    /\ \A i \in DOMAIN h : h[i].status = "retracted" => i = Len(h)

Histories ==
    /\ \A a \in Ids : TellsAll(assertions[a], history[a])
    /\ \A a \in Ids : TellsAll(backup.assertions[a], backup.history[a])

LEMMA HistoriesInit == Init => Histories
BY EmptySeq DEF Init, StoreInit, Snapshot, Histories, TellsAll, NoRow

LEMMA AppendTellsAll ==
    ASSUME StoreTypeOK, NEW a \in Ids, NEW s \in {"active", "retracted"},
           NEW c \in Claims, PutVersion(a, s, c),
           assertions[a].status # "retracted", TellsAll(assertions[a], history[a])
    PROVE  TellsAll(assertions'[a], history'[a])
<1> DEFINE h == history[a]
           v == [status |-> s, claim |-> c]
           g == Append(h, v)
<1>1. h \in Seq(Version) /\ v \in Version
  BY DEF StoreTypeOK, Version
<1>2. /\ Len(h) \in Nat
      /\ DOMAIN h = 1 .. Len(h)
      /\ Len(g) = Len(h) + 1
      /\ DOMAIN g = 1 .. Len(h) + 1
      /\ g[Len(h) + 1] = v
      /\ \A i \in 1 .. Len(h) : g[i] = h[i]
  BY <1>1, AppendProperties, LenProperties
<1>3. assertions'[a] = [status |-> s, version |-> Len(h) + 1, claim |-> c]
      /\ history'[a] = g
  BY DEF PutVersion, StoreTypeOK, TellsAll
<1>4. \A i \in 1 .. Len(h) : h[i].status # "retracted"
  <2> SUFFICES ASSUME NEW i \in 1 .. Len(h), h[i].status = "retracted" PROVE FALSE
    OBVIOUS
  <2>1. i = Len(h) /\ Len(h) = assertions[a].version
    BY <1>2 DEF TellsAll
  <2>2. CASE assertions[a].status = "absent"
    <3>1. assertions[a].version = 0
      BY <2>2 DEF StoreTypeOK, Assertion, NoRow
    <3> QED  BY <3>1, <2>1
  <2>3. CASE assertions[a].status = "active"
    BY <2>1, <2>3 DEF TellsAll
  <2> QED  BY <2>2, <2>3, ActiveClaim
<1>5. \A i \in 1 .. Len(h) + 1 : g[i].status = "retracted" => i = Len(h) + 1
  <2> SUFFICES ASSUME NEW i \in 1 .. Len(h) + 1, i # Len(h) + 1
               PROVE  g[i].status # "retracted"
    OBVIOUS
  <2>1. i \in 1 .. Len(h)
    BY <1>2
  <2> QED  BY <2>1, <1>2, <1>4
<1> HIDE DEF h, v, g
<1> QED  BY <1>2, <1>3, <1>5 DEF TellsAll, v

LEMMA HistoriesNext ==
    TypeOK /\ FreshIds /\ Histories /\ DurableStep => Histories'
<1> SUFFICES ASSUME TypeOK, FreshIds, Histories, DurableStep PROVE Histories'
  OBVIOUS
<1> USE DEF Histories
<1>0. StoreTypeOK /\ nextAssertion \in Nat
  BY DEF TypeOK, StoreTypeOK
<1>1. CASE UNCHANGED <<storeVars, backup>>
  BY <1>1 DEF storeVars
<1>2. CASE UNCHANGED storeVars /\ backup' = Snapshot
  BY <1>2 DEF storeVars, Snapshot
<1>3. CASE Transaction /\ UNCHANGED backup
  <2>1. ASSUME NEW a \in Ids, NEW s \in {"active", "retracted"}, NEW c \in Claims,
               PutVersion(a, s, c), assertions[a].status # "retracted"
        PROVE  Histories'
    <3>1. \A b \in Ids \ {a} : /\ assertions'[b] = assertions[b]
                               /\ history'[b] = history[b]
      BY <1>0, <2>1, OneRowChanges
    <3>2. TellsAll(assertions'[a], history'[a])
      BY <1>0, <2>1, AppendTellsAll
    <3>3. \A b \in Ids : TellsAll(assertions'[b], history'[b])
      BY <3>1, <3>2
    <3> QED  BY <1>3, <3>3
  <2>2. \A a \in Active : /\ assertions[a].status # "retracted"
                          /\ assertions[a].claim \in Claims
    BY <1>0, ActiveClaim DEF Active
  <2>3. ASSUME NEW a \in Ids, NEW c \in Claims, InsertAssertion(a, c) PROVE Histories'
    <3>1. assertions[a].status # "retracted"
      BY <1>0, <2>3 DEF InsertAssertion, FreshIds, NoRow
    <3> QED  BY <2>1, <2>3, <3>1 DEF InsertAssertion
  <2>4. ASSUME NEW a \in Ids, ReaffirmAssertion(a) PROVE Histories'
    BY <2>1, <2>2, <2>4 DEF ReaffirmAssertion
  <2>5. ASSUME NEW a \in Ids, NEW c \in Claims, CorrectAssertion(a, c)
        PROVE  Histories'
    BY <2>1, <2>2, <2>5 DEF CorrectAssertion
  <2>6. ASSUME NEW a \in Ids, RetractAssertion(a) PROVE Histories'
    BY <2>1, <2>2, <2>6 DEF RetractAssertion
  <2>7. ASSUME NEW a \in Ids, ForgetAssertion(a) PROVE Histories'
    <3>1. TellsAll(NoRow, << >>)
      BY EmptySeq DEF TellsAll, NoRow
    <3>2. \A b \in Ids : /\ assertions'[b] = IF b = a THEN NoRow ELSE assertions[b]
                         /\ history'[b] = IF b = a THEN << >> ELSE history[b]
      BY <1>0, <2>7 DEF ForgetAssertion, StoreTypeOK
    <3>3. \A b \in Ids : TellsAll(assertions'[b], history'[b])
      BY <3>1, <3>2
    <3> QED  BY <1>3, <3>3
  <2>8. ASSUME NEW t, NEW E, RecordTurn(t, E) PROVE Histories'
    BY <1>3, <2>8 DEF RecordTurn
  <2> QED  BY <1>3, <2>3, <2>4, <2>5, <2>6, <2>7, <2>8 DEF Transaction
<1>4. CASE Restored
  BY <1>4 DEF Restored
<1> QED  BY <1>1, <1>2, <1>3, <1>4 DEF DurableStep

\* The version rows of an assertion tell its whole story, after any number of
\* corrections, restores, crashes and failing reads: the versions are numbered
\* without a gap, the last one is the row, and a tombstone is the end.
THEOREM HistoryStaysComplete == Spec => []HistoryIsComplete
<1>1. Init => Histories
  BY HistoriesInit
<1>2. TypeOK /\ FreshIds /\ Histories /\ [Next]_vars => Histories'
  BY StepIsDurableStep, HistoriesNext
<1>3. Histories => HistoryIsComplete
  BY DEF Histories, TellsAll, HistoryIsComplete
<1> QED  BY <1>1, <1>2, <1>3, FreshIdsAlways, PTL DEF Spec

-----------------------------------------------------------------------------
(* The links from conclusions to turns.                                    *)

\* ConclusionsMatchTurns of one turn, with what makes it inductive: a turn
\* without a conclusion has nothing to link.
LinkedTurn(row, k) ==
    /\ k.status = "stale" <=> row.status = "stale"
    /\ k.status = "valid" =>
        /\ row.status = "fresh"
        /\ k.deps = {e.id : e \in row.evidence} \ {0}
    /\ k.status = "none" =>
        /\ k.deps = {}
        /\ {e.id : e \in row.evidence} \ {0} = {}

TablesLinked ==
    /\ \A t \in TurnIds : LinkedTurn(turns[t], conclusions[t])
    /\ \A t \in TurnIds : LinkedTurn(backup.turns[t], backup.conclusions[t])

LEMMA TablesLinkedInit == Init => TablesLinked
BY DEF Init, StoreInit, Snapshot, TablesLinked, LinkedTurn, NoTurnRow, NoConclusion

\* mark_dependents_stale finds every turn whose conclusion links a, and marks
\* it in both tables.
LEMMA MarkedTogether ==
    ASSUME StoreTypeOK, TablesLinked, NEW a, NEW t \in TurnIds
    PROVE  /\ LinkedTurn(StaleTurns(a)[t], StaleConclusions(a)[t])
           /\ StaleConclusions(a)[t].deps = conclusions[t].deps
           /\ t \in Dependents(a) =>
                /\ StaleConclusions(a)[t].status = "stale"
                /\ StaleTurns(a)[t].status = "stale"
           /\ t \notin Dependents(a) =>
                /\ StaleConclusions(a)[t] = conclusions[t]
                /\ StaleTurns(a)[t] = turns[t]
<1>1. turns[t] \in Turn /\ conclusions[t] \in Conclusion
  BY DEF StoreTypeOK
<1>2. LinkedTurn(turns[t], conclusions[t])
  BY DEF TablesLinked
<1>3. CASE t \notin Dependents(a)
  BY <1>2, <1>3 DEF StaleTurns, StaleConclusions
<1>4. CASE t \in Dependents(a)
  <2>1. a \in conclusions[t].deps
    BY <1>4 DEF Dependents
  <2>2. turns[t].status # "absent"
    BY <1>1, <1>2, <2>1 DEF LinkedTurn, Conclusion
  <2>3. /\ StaleTurns(a)[t] = [turns[t] EXCEPT !.status = "stale"]
        /\ StaleConclusions(a)[t] = [conclusions[t] EXCEPT !.status = "stale"]
    BY <1>4, <2>2 DEF StaleTurns, StaleConclusions
  <2>4. /\ StaleTurns(a)[t].status = "stale"
        /\ StaleConclusions(a)[t].status = "stale"
        /\ StaleConclusions(a)[t].deps = conclusions[t].deps
    BY <1>1, <2>3 DEF Turn, Conclusion
  <2> QED  BY <1>4, <2>4 DEF LinkedTurn
<1> QED  BY <1>3, <1>4

LEMMA TablesLinkedNext == TypeOK /\ TablesLinked /\ DurableStep => TablesLinked'
<1> SUFFICES ASSUME TypeOK, TablesLinked, DurableStep PROVE TablesLinked'
  OBVIOUS
<1>0. StoreTypeOK
  BY DEF TypeOK
<1>1. ASSUME UNCHANGED <<turns, conclusions, backup>> PROVE TablesLinked'
  BY <1>1 DEF TablesLinked
<1>2. CASE UNCHANGED storeVars /\ backup' = Snapshot
  BY <1>2 DEF storeVars, Snapshot, TablesLinked
<1>3. CASE Transaction /\ UNCHANGED backup
  <2>1. ASSUME NEW a, MarkDependentsStale(a) PROVE TablesLinked'
    BY <1>0, <1>3, <2>1, MarkedTogether DEF MarkDependentsStale, TablesLinked
  <2>2. ASSUME NEW a \in Ids, ForgetAssertion(a) PROVE TablesLinked'
    <3>1. ASSUME NEW t \in TurnIds PROVE LinkedTurn(turns'[t], conclusions'[t])
      <4>1. /\ turns'[t] = StaleTurns(a)[t]
            /\ conclusions'[t] = [StaleConclusions(a)[t] EXCEPT !.deps = @ \ {a}]
        BY <2>2 DEF ForgetAssertion
      <4>2. StaleConclusions(a)[t] \in Conclusion
        BY <1>0, StaleTablesType
      <4>3. /\ conclusions'[t].status = StaleConclusions(a)[t].status
            /\ conclusions'[t].deps = StaleConclusions(a)[t].deps \ {a}
        BY <4>1, <4>2 DEF Conclusion
      <4>4. LinkedTurn(StaleTurns(a)[t], StaleConclusions(a)[t])
        BY <1>0, MarkedTogether
      <4>5. CASE t \in Dependents(a)
        BY <1>0, <4>1, <4>3, <4>5, MarkedTogether DEF LinkedTurn
      <4>6. CASE t \notin Dependents(a)
        <5>1. a \notin StaleConclusions(a)[t].deps
          BY <1>0, <4>6, MarkedTogether DEF Dependents
        <5> QED  BY <4>1, <4>3, <4>4, <5>1 DEF LinkedTurn
      <4> QED  BY <4>5, <4>6
    <3> QED  BY <1>3, <3>1 DEF TablesLinked
  <2>3. ASSUME NEW t \in TurnIds, NEW E, RecordTurn(t, E) PROVE TablesLinked'
    <3> DEFINE ids == {e.id : e \in E} \ {0}
    <3>1. /\ turns'[t] = [status |-> "fresh", evidence |-> E]
          /\ conclusions'[t] = IF ids = {} THEN NoConclusion
                               ELSE [status |-> "valid", deps |-> ids]
      BY <1>0, <2>3 DEF RecordTurn, StoreTypeOK
    <3>2. \A u \in TurnIds \ {t} : /\ turns'[u] = turns[u]
                                   /\ conclusions'[u] = conclusions[u]
      BY <1>0, <2>3 DEF RecordTurn, StoreTypeOK
    <3>3. LinkedTurn(turns'[t], conclusions'[t])
      BY <3>1 DEF LinkedTurn, NoConclusion
    <3>4. \A u \in TurnIds : LinkedTurn(turns'[u], conclusions'[u])
      BY <3>2, <3>3 DEF TablesLinked
    <3> QED  BY <1>3, <3>4 DEF TablesLinked
  <2> QED
    BY <1>1, <1>3, <2>1, <2>2, <2>3
    DEF Transaction, InsertAssertion, ReaffirmAssertion, CorrectAssertion,
        RetractAssertion
<1>4. CASE Restored
  BY <1>4 DEF Restored, TablesLinked
<1> QED  BY <1>1, <1>2, <1>3, <1>4 DEF DurableStep, storeVars

LEMMA TablesLinkedAlways == Spec => [](TypeOK /\ FreshIds /\ TablesLinked)
<1>1. Init => TablesLinked
  BY TablesLinkedInit
<1>2. TypeOK /\ TablesLinked /\ [Next]_vars => TablesLinked'
  BY StepIsDurableStep, TablesLinkedNext
<1> QED  BY <1>1, <1>2, FreshIdsAlways, PTL DEF Spec

\* The two dependency tables never disagree, with failing reads too: a turn is
\* stale in both or in neither, and a valid conclusion links everything its
\* turn cites.
THEOREM ConclusionsStayMatched == Spec => []ConclusionsMatchTurns
<1>1. TablesLinked => ConclusionsMatchTurns
  BY DEF TablesLinked, LinkedTurn, ConclusionsMatchTurns
<1> QED  BY <1>1, TablesLinkedAlways, PTL

-----------------------------------------------------------------------------
(* What the transactions do to the active assertions of a claim.           *)

\* An assertion other than the one written to stays active with its claim.
LEMMA OthersStayActive ==
    ASSUME StoreTypeOK, NEW a,
           \A b \in Ids \ {a} : assertions'[b] = assertions[b]
    PROVE  \A d : ActiveWith(d) \ {a} \subseteq ActiveWith(d)'
BY DEF ActiveWith, Active

LEMMA WrittenRow ==
    ASSUME StoreTypeOK, NEW a \in Ids, NEW c, PutVersion(a, "active", c)
    PROVE  a \in ActiveWith(c)'
BY DEF ActiveWith, Active, PutVersion, StoreTypeOK

\* Teaching a claim withdraws nothing and leaves it with an active assertion.
LEMMA PersistKeepsActive ==
    ASSUME StoreTypeOK, FreshIds, NEW c, NEW a \in Ids, PersistClaim(c, a)
    PROVE  /\ \A d : ActiveWith(d) \subseteq ActiveWith(d)'
           /\ a \in ActiveWith(c)'
<1>1. CASE a \in ActiveWith(c) /\ ReaffirmAssertion(a)
  <2>1. PutVersion(a, "active", c) /\ assertions[a].claim = c
    BY <1>1 DEF ReaffirmAssertion, ActiveWith
  <2>2. \A d : ActiveWith(d) \ {a} \subseteq ActiveWith(d)'
    BY <2>1, OneRowChanges, OthersStayActive
  <2>3. a \in ActiveWith(c)' /\ \A d : a \in ActiveWith(d) => d = c
    BY <2>1, WrittenRow DEF ActiveWith
  <2> QED  BY <2>2, <2>3
<1>2. CASE InsertAssertion(a, c)
  <2>1. PutVersion(a, "active", c) /\ a = nextAssertion
    BY <1>2 DEF InsertAssertion
  <2>2. \A d : ActiveWith(d) \ {a} \subseteq ActiveWith(d)'
    BY <2>1, OneRowChanges, OthersStayActive
  <2>3. a >= nextAssertion
    BY <2>1 DEF StoreTypeOK
  <2>4. \A d : a \notin ActiveWith(d)
    BY <2>3 DEF FreshIds, ActiveWith, Active, NoRow
  <2> QED  BY <2>1, <2>2, <2>4, WrittenRow
<1> QED  BY <1>1, <1>2 DEF PersistClaim

LEMMA CorrectMovesOne ==
    ASSUME StoreTypeOK, NEW a, NEW c, CorrectAssertion(a, c)
    PROVE  /\ \A d : ActiveWith(d) \ {a} \subseteq ActiveWith(d)'
           /\ a \in ActiveWith(c)'
BY OneRowChanges, OthersStayActive, WrittenRow DEF CorrectAssertion, Active

LEMMA RetractDropsOne ==
    ASSUME StoreTypeOK, NEW a, RetractAssertion(a)
    PROVE  \A d : ActiveWith(d) \ {a} \subseteq ActiveWith(d)'
BY OneRowChanges, OthersStayActive DEF RetractAssertion

LEMMA ForgetDropsOne ==
    ASSUME StoreTypeOK, NEW a, ForgetAssertion(a)
    PROVE  \A d : ActiveWith(d) \ {a} \subseteq ActiveWith(d)'
<1>1. \A b \in Ids \ {a} : assertions'[b] = assertions[b]
  BY DEF ForgetAssertion, StoreTypeOK
<1> QED  BY <1>1, OthersStayActive

-----------------------------------------------------------------------------
(* The engine and the assertion map.                                       *)

\* A claim is mapped to an active assertion of it, or not at all, and what
\* the engine can answer from is mapped.
Supported ==
    /\ \A c \in Claims : factIds[c] # 0 => factIds[c] \in ActiveWith(c)
    /\ \A c \in Claims : engine[c] # {} => factIds[c] # 0

LEMMA SupportedInit == Init => Supported
BY DEF Init, Supported

LEMMA TeachKeepsSupported ==
    ASSUME TypeOK, FreshIds, Supported, NEW c \in Claims, NEW a \in Ids,
           PersistClaim(c, a),
           factIds' = [factIds EXCEPT ![c] = a],
           engine' = Stored(engine, c)
    PROVE  Supported'
<1>1. /\ \A d : ActiveWith(d) \subseteq ActiveWith(d)'
      /\ a \in ActiveWith(c)'
  BY PersistKeepsActive DEF TypeOK
<1>2. \A d \in Claims : factIds'[d] = IF d = c THEN a ELSE factIds[d]
  BY DEF TypeOK
<1>3. a # 0
  BY StoreAssumption DEF Ids
<1>4. \A d \in Claims \ {c} : engine'[d] # {} => engine[d] # {}
  BY DEF Stored
<1> QED  BY <1>1, <1>2, <1>3, <1>4 DEF Supported

LEMMA CorrectionKeepsSupported ==
    ASSUME TypeOK, Supported, NEW a, NEW c \in Claims, Correction(a, c)
    PROVE  Supported'
<1> DEFINE old == assertions[a].claim
<1>1. a \in Ids /\ a # 0 /\ a \in Active
  BY StoreAssumption DEF Correction, CorrectAssertion, Active, Ids
<1>2. old \in Claims
  BY <1>1, ActiveClaim DEF TypeOK, Active
<1>3. /\ \A d : ActiveWith(d) \ {a} \subseteq ActiveWith(d)'
      /\ a \in ActiveWith(c)'
  BY CorrectMovesOne DEF Correction, TypeOK
<1>4. \A d \in Claims :
        factIds'[d] = IF d = c THEN a ELSE IF d = old THEN 0 ELSE factIds[d]
  BY <1>2 DEF Correction, TypeOK
<1>5. \A d \in Claims : a \in ActiveWith(d) => d = old
  BY DEF ActiveWith
<1>6. \A d \in Claims : factIds'[d] # 0 => factIds'[d] \in ActiveWith(d)'
  BY <1>3, <1>4, <1>5 DEF Supported
<1>7. \A d \in Claims \ {c} : engine'[d] # {} => engine[d] # {} /\ d # old
  BY <1>2 DEF Correction, Stored, Removed
<1>8. \A d \in Claims : engine'[d] # {} => factIds'[d] # 0
  BY <1>1, <1>4, <1>7 DEF Supported
<1> QED  BY <1>6, <1>8 DEF Supported

\* Withdrawing the claim that assertion a carries.
LEMMA WithdrawKeepsSupported ==
    ASSUME TypeOK, Supported, NEW a \in Ids, assertions[a].status # "absent",
           Withdraw(assertions[a].claim),
           \A d : ActiveWith(d) \ {a} \subseteq ActiveWith(d)'
    PROVE  Supported'
<1> DEFINE old == assertions[a].claim
<1>1. old \in Claims
  BY ActiveClaim DEF TypeOK
<1>2. \A d \in Claims : factIds'[d] = IF d = old THEN 0 ELSE factIds[d]
  BY <1>1 DEF Withdraw, TypeOK
<1>3. \A d \in Claims : a \in ActiveWith(d) => d = old
  BY DEF ActiveWith
<1>4. \A d \in Claims : factIds'[d] # 0 => factIds'[d] \in ActiveWith(d)'
  BY <1>2, <1>3 DEF Supported
<1>5. \A d \in Claims : engine'[d] # {} => engine[d] # {} /\ d # old
  BY <1>1 DEF Withdraw, Removed
<1> QED  BY <1>2, <1>4, <1>5 DEF Supported

\* A rebuild from any tables leaves the service supported by them.
LEMMA RebuildGivesSupported ==
    ASSUME NEW db, Rebuild(db), assertions' = db.assertions
    PROVE  Supported'
<1>1. \A c \in Claims : ActiveWith(c)' = RowsWith(db.assertions, c)
  BY DEF ActiveWith, Active, RowsWith
<1>2. \A c \in Claims :
        IF RowsWith(db.assertions, c) = {} THEN factIds'[c] = 0
        ELSE factIds'[c] \in RowsWith(db.assertions, c)
  BY RebuiltIdsProperties DEF Rebuild
<1>3. \A c \in Claims : engine'[c] # {} => RowsWith(db.assertions, c) # {}
  BY DEF Rebuild, RebuiltEngine
<1>4. 0 \notin Ids
  BY StoreAssumption DEF Ids
<1>5. \A c \in Claims : RowsWith(db.assertions, c) \subseteq Ids
  BY DEF RowsWith
<1> QED  BY <1>1, <1>2, <1>3, <1>4, <1>5 DEF Supported

LEMMA SupportedNext ==
    ASSUME ~ FaultyReads
    PROVE  TypeOK /\ FreshIds /\ Supported /\ [Next]_vars => Supported'
<1> SUFFICES ASSUME TypeOK, FreshIds, Supported, [Next]_vars PROVE Supported'
  OBVIOUS
<1>0. ASSUME UNCHANGED <<assertions, engine, factIds>> PROVE Supported'
  BY <1>0 DEF Supported, ActiveWith, Active
<1>1. ASSUME UNCHANGED <<storeVars, memoryVars>> PROVE Supported'
  BY <1>0, <1>1 DEF storeVars, memoryVars
<1>2. ASSUME NEW S \in SUBSET Claims, Ask(S) PROVE Supported'
  BY <1>1, <1>2 DEF Ask
<1>3. ASSUME NEW a \in Ids, AskBefore(a) PROVE Supported'
  BY <1>1, <1>3 DEF AskBefore
<1>4. ASSUME NEW lesson \in Lessons, BeginLesson(lesson) PROVE Supported'
  BY <1>1, <1>4 DEF BeginLesson
<1>5. CASE TeachClaim
  <2>1. Head(turn.lesson) \in Claims
    BY <1>5, HeadTailProperties DEF TeachClaim, TypeOK
  <2> QED  BY <1>5, <2>1, TeachKeepsSupported DEF TeachClaim
<1>6. ASSUME CancelLesson \/ RejectClaim PROVE Supported'
  BY <1>1, <1>6 DEF CancelLesson, RejectClaim, FailLesson
<1>7. CASE FinishTurn
  <2>1. UNCHANGED assertions
    BY <1>7 DEF FinishTurn, RecordTurn, storeVars
  <2> QED  BY <1>0, <1>7, <2>1 DEF FinishTurn
<1>8. CASE AbandonTurn
  BY <1>1, <1>8 DEF AbandonTurn
<1>9. ASSUME NEW a \in Ids, NEW c \in Claims, CorrectKnowledge(a, c)
      PROVE  Supported'
  BY <1>9, CorrectionKeepsSupported DEF CorrectKnowledge, LostCorrection
<1>10. ASSUME NEW a \in Ids, NEW c \in Claims, CorrectInTurn(a, c)
       PROVE  Supported'
  BY <1>1, <1>10, CorrectionKeepsSupported DEF CorrectInTurn, LostCorrection
<1>11. ASSUME NEW a \in Ids, RetractKnowledge(a) PROVE Supported'
  <2>1. /\ Withdraw(assertions[a].claim)
        /\ assertions[a].status # "absent"
        /\ \A d : ActiveWith(d) \ {a} \subseteq ActiveWith(d)'
    BY <1>11, RetractDropsOne
    DEF RetractKnowledge, RetractAssertion, Active, TypeOK
  <2> QED  BY <2>1, WithdrawKeepsSupported
<1>12. ASSUME NEW a \in Ids, ForgetKnowledge(a) PROVE Supported'
  <2>1. /\ Withdraw(assertions[a].claim)
        /\ assertions[a].status # "absent"
        /\ \A d : ActiveWith(d) \ {a} \subseteq ActiveWith(d)'
    BY <1>12, ForgetDropsOne DEF ForgetKnowledge, ForgetAssertion, TypeOK
  <2> QED  BY <2>1, WithdrawKeepsSupported
<1>13. CASE Backup
  BY <1>1, <1>13 DEF Backup
<1>14. CASE Restore
  BY <1>14, RebuildGivesSupported DEF Restore
<1>15. CASE Restart
  <2>1. Rebuild(Snapshot) /\ assertions' = Snapshot.assertions
    BY <1>15 DEF Restart, Snapshot, storeVars
  <2> QED  BY <2>1, RebuildGivesSupported
<1>16. CASE UNCHANGED vars
  BY <1>1, <1>16 DEF vars
<1> QED
  BY <1>2, <1>3, <1>4, <1>5, <1>6, <1>7, <1>8, <1>9, <1>10, <1>11, <1>12,
     <1>13, <1>14, <1>15, <1>16 DEF Next, KnowledgeStep, LessonStep, FailLookup, LoseClaim

LEMMA SupportedAlways ==
    ASSUME ~ FaultyReads
    PROVE  Spec => [](TypeOK /\ FreshIds /\ TablesLinked /\ Supported)
<1>1. Init => Supported
  BY SupportedInit
<1>2. TypeOK /\ FreshIds /\ Supported /\ [Next]_vars => Supported'
  BY SupportedNext
<1> QED  BY <1>1, <1>2, TablesLinkedAlways, PTL DEF Spec

\* While reads succeed, everything the engine can answer from is an active
\* assertion's claim, cited under that assertion's id: for any claims,
\* spellings, contradictions, lessons and number of assertions.
THEOREM EngineStaysSupported ==
    ASSUME ~ FaultyReads
    PROVE  Spec => []EngineIsSupported
<1>1. Supported => EngineIsSupported
  BY DEF Supported, EngineIsSupported
<1> QED  BY <1>1, SupportedAlways, PTL

-----------------------------------------------------------------------------
(* Fresh turns.                                                            *)

\* Everything cited with an id is what an active row says.
Cites(E, rows) ==
    \A e \in E : e.id # 0 =>
        /\ e.id \in Ids
        /\ rows[e.id].status = "active"
        /\ rows[e.id].claim = e.claim

Current ==
    /\ \A t \in TurnIds : turns[t].status = "fresh" =>
            Cites(turns[t].evidence, assertions)
    /\ \A t \in TurnIds : backup.turns[t].status = "fresh" =>
            Cites(backup.turns[t].evidence, backup.assertions)
    /\ Cites(turn.evidence, assertions)

LEMMA CitesActiveWith ==
    ASSUME NEW E
    PROVE  Cites(E, assertions) <=>
              \A e \in E : e.id # 0 => e.id \in ActiveWith(e.claim)
BY DEF Cites, ActiveWith, Active

\* The same in the next state.
LEMMA CitesActiveWithNext ==
    ASSUME NEW E
    PROVE  Cites(E, assertions') <=>
              \A e \in E : e.id # 0 => e.id \in ActiveWith(e.claim)'
BY DEF Cites, ActiveWith, Active

LEMMA CurrentInit == Init => Current
BY DEF Init, StoreInit, Snapshot, Current, NoTurnRow, Idle, Cites

\* A write to one assertion that marks its dependents leaves no outdated turn
\* fresh: a fresh turn links all it cites, so it is marked or cites others.
LEMMA MarkedTurnsCurrent ==
    ASSUME TypeOK, TablesLinked, Current, NEW a, NEW t \in TurnIds,
           \A d : ActiveWith(d) \ {a} \subseteq ActiveWith(d)',
           turns' = StaleTurns(a), turns'[t].status = "fresh"
    PROVE  Cites(turns'[t].evidence, assertions')
<1>0. StoreTypeOK
  BY DEF TypeOK
<1>1. t \notin Dependents(a) /\ turns'[t] = turns[t]
  BY <1>0, MarkedTogether
<1>2. turns[t].status = "fresh"
  BY <1>1
<1>3. conclusions[t].deps = {e.id : e \in turns[t].evidence} \ {0}
  BY <1>0, <1>2 DEF TablesLinked, LinkedTurn, StoreTypeOK, Conclusion
<1>4. \A e \in turns[t].evidence : e.id # 0 => e.id # a
  BY <1>1, <1>3 DEF Dependents
<1>5. \A e \in turns[t].evidence : e.id # 0 => e.id \in ActiveWith(e.claim)
  BY <1>2, CitesActiveWith DEF Current
<1>6. \A e \in turns[t].evidence : e.id # 0 => e.id \in ActiveWith(e.claim)'
  BY <1>4, <1>5
<1> QED  BY <1>1, <1>6, CitesActiveWithNext

LEMMA GrowingKeepsCites ==
    ASSUME NEW E, Cites(E, assertions), \A d : ActiveWith(d) \subseteq ActiveWith(d)'
    PROVE  Cites(E, assertions')
BY CitesActiveWith, CitesActiveWithNext

LEMMA CurrentNext ==
    ASSUME ~ FaultyReads
    PROVE  TypeOK /\ FreshIds /\ TablesLinked /\ Supported /\ Current /\ [Next]_vars
                => Current'
<1> SUFFICES ASSUME TypeOK, FreshIds, TablesLinked, Supported, Current, [Next]_vars
             PROVE  Current'
  OBVIOUS
<1>0. StoreTypeOK
  BY DEF TypeOK
<1>1. ASSUME UNCHANGED <<storeVars, backup>>, Cites(turn'.evidence, assertions)
      PROVE  Current'
  BY <1>1 DEF storeVars, Current
<1>2. Cites(Idle.evidence, assertions)
  BY DEF Idle, Cites
<1>3. ASSUME NEW S \in SUBSET Claims, Ask(S) PROVE Current'
  <2>1. PICK U \in SUBSET {c \in S : Kind[c] = "rule"} :
            StartTurn(<<>>, {[id |-> IF c \in U THEN 0 ELSE factIds[c],
                              claim |-> c] : c \in S}, FALSE)
    BY <1>3 DEF Ask
  <2>2. turn'.evidence = {[id |-> IF c \in U THEN 0 ELSE factIds[c],
                           claim |-> c] : c \in S}
    BY <2>1 DEF StartTurn
  <2>3. \A c \in S : factIds[c] \in ActiveWith(c)
    BY <1>3 DEF Ask, Supported
  <2>4. Cites(turn'.evidence, assertions)
    BY <2>2, <2>3 DEF Cites, ActiveWith, Active
  <2> QED  BY <1>1, <1>3, <2>1, <2>4 DEF Ask, StartTurn
<1>4. ASSUME NEW a \in Ids, AskBefore(a) PROVE Current'
  <2>1. turn'.evidence = {[id |-> a, claim |-> assertions[a].claim]}
    BY <1>4 DEF AskBefore, StartTurn
  <2>2. a \in Active
    BY <1>4 DEF AskBefore, OnlyCandidate
  <2>3. Cites(turn'.evidence, assertions)
    BY <2>1, <2>2 DEF Cites, Active
  <2> QED  BY <1>1, <1>4, <2>3 DEF AskBefore, StartTurn
<1>5. ASSUME NEW lesson \in Lessons, BeginLesson(lesson) PROVE Current'
  BY <1>1, <1>5 DEF BeginLesson, StartTurn, Cites
<1>6. CASE TeachClaim
  <2>1. PICK a \in Ids : PersistClaim(Head(turn.lesson), a)
    BY <1>6 DEF TeachClaim
  <2>2. \A d : ActiveWith(d) \subseteq ActiveWith(d)'
    BY <1>0, <2>1, PersistKeepsActive
  <2>3. UNCHANGED <<turns, backup>>
    BY <1>6, <2>1 DEF TeachClaim, PersistClaim, ReaffirmAssertion, InsertAssertion
  <2>4. turn'.evidence = turn.evidence
    BY <1>6 DEF TeachClaim, TypeOK
  <2> QED  BY <2>2, <2>3, <2>4, GrowingKeepsCites DEF Current
<1>7. ASSUME CancelLesson \/ RejectClaim PROVE Current'
  <2>1. turn'.evidence = turn.evidence
    BY <1>7 DEF CancelLesson, RejectClaim, FailLesson, TypeOK
  <2> QED  BY <1>1, <1>7, <2>1 DEF CancelLesson, RejectClaim, FailLesson, Current
<1>8. CASE FinishTurn
  <2>1. Cites(turn'.evidence, assertions)
    BY <1>2, <1>8 DEF FinishTurn
  <2>2. CASE RecordTurn(turn.id, turn.evidence)
    <3>1. \A t \in TurnIds :
            turns'[t] = IF t = turn.id
                        THEN [status |-> "fresh", evidence |-> turn.evidence]
                        ELSE turns[t]
      BY <1>0, <2>2 DEF RecordTurn, StoreTypeOK
    <3>2. UNCHANGED <<assertions, backup>>
      BY <1>8, <2>2 DEF RecordTurn, FinishTurn
    <3> QED  BY <2>1, <3>1, <3>2 DEF Current
  <2>3. CASE UNCHANGED storeVars
    BY <1>1, <1>8, <2>1, <2>3 DEF FinishTurn
  <2> QED  BY <1>8, <2>2, <2>3 DEF FinishTurn
<1>9. CASE AbandonTurn \/ Restart
  BY <1>1, <1>2, <1>9 DEF AbandonTurn, Restart
<1>10. ASSUME NEW a, turns' = StaleTurns(a), UNCHANGED backup,
              \A d : ActiveWith(d) \ {a} \subseteq ActiveWith(d)',
              Cites(turn'.evidence, assertions')
       PROVE  Current'
  BY <1>10, MarkedTurnsCurrent DEF Current
<1>11. ASSUME NEW a, NEW c, CorrectAssertion(a, c), UNCHANGED backup,
              Cites(turn'.evidence, assertions')
       PROVE  Current'
  BY <1>0, <1>10, <1>11, CorrectMovesOne DEF CorrectAssertion, MarkDependentsStale
<1>12. ASSUME turn = Idle, UNCHANGED turn PROVE Cites(turn'.evidence, assertions')
  BY <1>12 DEF Idle, Cites
<1>13. ASSUME NEW a \in Ids, NEW c \in Claims, CorrectKnowledge(a, c)
       PROVE  Current'
  BY <1>11, <1>12, <1>13 DEF CorrectKnowledge, Correction, LostCorrection
<1>14. ASSUME NEW a \in Ids, NEW c \in Claims, CorrectInTurn(a, c)
       PROVE  Current'
  <2>1. CASE Correction(a, c) /\ StartTurn(<<>>, {[id |-> a, claim |-> c]}, FALSE)
    <3>1. a \in ActiveWith(c)'
      BY <1>0, <2>1, CorrectMovesOne DEF Correction
    <3>2. turn'.evidence = {[id |-> a, claim |-> c]}
      BY <2>1 DEF StartTurn
    <3>3. Cites(turn'.evidence, assertions')
      BY <3>1, <3>2, CitesActiveWithNext
    <3> QED  BY <1>11, <2>1, <3>3 DEF Correction, StartTurn
  <2>2. CASE /\ StartTurn(<<>>, {}, TRUE)
             /\ UNCHANGED <<storeVars, memoryVars>>
    BY <1>1, <2>2 DEF StartTurn, Cites
  <2> QED  BY <1>14, <2>1, <2>2 DEF CorrectInTurn, LostCorrection
<1>15. ASSUME NEW a \in Ids, RetractKnowledge(a) PROVE Current'
  BY <1>0, <1>10, <1>12, <1>15, RetractDropsOne
  DEF RetractKnowledge, RetractAssertion, MarkDependentsStale
<1>16. ASSUME NEW a \in Ids, ForgetKnowledge(a) PROVE Current'
  BY <1>0, <1>10, <1>12, <1>16, ForgetDropsOne DEF ForgetKnowledge, ForgetAssertion
<1>17. CASE Backup
  BY <1>17 DEF Backup, Snapshot, storeVars, Current
<1>18. CASE Restore
  BY <1>12, <1>18 DEF Restore, Current
<1>19. CASE UNCHANGED vars
  BY <1>1, <1>19 DEF vars, Current
<1> QED
  BY <1>3, <1>4, <1>5, <1>6, <1>7, <1>8, <1>9, <1>13, <1>14, <1>15, <1>16,
     <1>17, <1>18, <1>19 DEF Next, KnowledgeStep, LessonStep, FailLookup, LoseClaim

LEMMA CurrentAlways ==
    ASSUME ~ FaultyReads
    PROVE  Spec => [](TypeOK /\ FreshIds /\ TablesLinked /\ Supported /\ Current)
<1>1. Init => Current
  BY CurrentInit
<1>2. TypeOK /\ FreshIds /\ TablesLinked /\ Supported /\ Current /\ [Next]_vars
        => Current'
  BY CurrentNext
<1> QED  BY <1>1, <1>2, SupportedAlways, PTL DEF Spec

\* While reads succeed, a recorded turn that is not marked stale rests on
\* active assertions that still say what was read, however many corrections,
\* retractions, restores and crashes came between.
THEOREM FreshTurnsStayCurrent ==
    ASSUME ~ FaultyReads
    PROVE  Spec => []FreshTurnsAreCurrent
<1>1. Current => FreshTurnsAreCurrent
  BY CitesActiveWith DEF Current, FreshTurnsAreCurrent
<1> QED  BY <1>1, CurrentAlways, PTL

-----------------------------------------------------------------------------
(* The capped view.                                                        *)

Younger(S, t) == {u \in S : u > t}

LEMMA YoungerIsFinite ==
    ASSUME NEW S \in SUBSET TurnIds, NEW t
    PROVE  IsFiniteSet(Younger(S, t)) /\ Cardinality(Younger(S, t)) \in Nat
<1>1. IsFiniteSet(TurnIds)
  BY FS_Interval, StoreAssumption DEF TurnIds
<1>2. Younger(S, t) \in SUBSET TurnIds
  BY DEF Younger
<1> QED  BY <1>1, <1>2, FS_Subset, FS_CardinalityType

\* The cap keeps the newest turns of a set: what it drops is older than all
\* it keeps, and it drops something only when MaxView turns are left.
LEMMA RecentKeepsTheNewest ==
    ASSUME NEW S \in SUBSET TurnIds, NEW t \in S \ Recent(S)
    PROVE  /\ Cardinality(Recent(S)) = MaxView
           /\ \A u \in Recent(S) : t < u
<1> DEFINE D == S \ Recent(S)
<1>0. /\ S \subseteq Nat /\ TurnIds \subseteq Nat
      /\ MaxView \in Nat /\ MaxView > 0 /\ MaxTurns \in Nat
  BY StoreAssumption, ServiceAssumption DEF TurnIds
<1>1. \A u \in S : u \in Recent(S) <=> Cardinality(Younger(S, u)) < MaxView
  BY DEF Recent, Younger
<1>2. ASSUME NEW u \in Recent(S), NEW d \in D PROVE d < u
  <2>1. u \in S /\ Younger(S, u) \in SUBSET S
    BY DEF Recent, Younger
  <2>2. SUFFICES ASSUME u <= d PROVE FALSE
    BY <2>1, <1>0
  <2>3. Younger(S, d) \in SUBSET Younger(S, u)
    <3>1. u \in Nat /\ d \in Nat
      BY <2>1, <1>0
    <3>2. \A v \in S : v > d => v > u
      BY <3>1, <2>2, <1>0
    <3> QED  BY <3>2 DEF Younger
  <2>4. Cardinality(Younger(S, d)) <= Cardinality(Younger(S, u))
    BY <2>3, YoungerIsFinite, FS_Subset
  <2> QED  BY <2>1, <2>4, <1>0, <1>1, YoungerIsFinite
<1>3. PICK m \in D : \A d \in D : d <= m
  <2>1. D \in SUBSET (1 .. MaxTurns) /\ D # {}
    BY DEF TurnIds
  <2> HIDE DEF D
  <2> QED  BY <1>0, <2>1, Greatest
<1>4. Recent(S) = Younger(S, m)
  <2>1. ASSUME NEW u \in S PROVE u \in Recent(S) <=> u > m
    BY <1>0, <1>2, <1>3
  <2> QED  BY <2>1 DEF Recent, Younger
<1>5. Cardinality(Recent(S)) >= MaxView
  BY <1>0, <1>1, <1>3, <1>4, YoungerIsFinite
<1>6. Recent(S) # {}
  BY <1>0, <1>5, FS_EmptySet
<1>7. PICK s \in Recent(S) : \A u \in Recent(S) : s <= u
  <2>1. Recent(S) \in SUBSET Nat
    BY <1>0 DEF Recent
  <2> QED  BY <2>1, <1>6, Least
<1>8. Recent(S) = Younger(S, s) \cup {s}
  <2>1. ASSUME NEW u \in S PROVE u \in Recent(S) <=> (u > s \/ u = s)
    <3>1. s \in S /\ u \in Nat /\ s \in Nat /\ m \in Nat
      BY <1>0 DEF Recent
    <3>2. s > m
      BY <1>4 DEF Younger
    <3>3. u > s => u \in Recent(S)
      BY <1>4, <3>1, <3>2 DEF Younger
    <3> QED  BY <1>7, <3>1, <3>3
  <2> QED  BY <2>1 DEF Recent, Younger
<1>9. Cardinality(Recent(S)) = Cardinality(Younger(S, s)) + 1
  <2>1. s \notin Younger(S, s)
    BY <1>0 DEF Younger, Recent
  <2> QED  BY <1>8, <2>1, YoungerIsFinite, FS_AddElement
<1>10. Cardinality(Younger(S, s)) < MaxView
  BY <1>1 DEF Recent
<1>11. Cardinality(Recent(S)) = MaxView
  BY <1>0, <1>5, <1>9, <1>10, YoungerIsFinite
<1> QED  BY <1>2, <1>11

-----------------------------------------------------------------------------
(* The turns a client is shown.                                            *)

Recorded(rows) == {t \in TurnIds : rows[t].status # "absent"}

\* What a step of the service does to the turns: they and the view stay, and at
\* most a turn begins or is given up; the turn in progress ends; the view is
\* loaded again, maybe after a restore; a backup is taken.
TurnsStay ==
    /\ view' = view
    /\ Recorded(turns') = Recorded(turns)
    /\ backup' = backup
    /\ \/ turn'.id \in {0, turn.id} /\ nextTurn' = nextTurn
       \/ nextTurn \in TurnIds /\ turn'.id = nextTurn /\ nextTurn' = nextTurn + 1

TurnEnds ==
    /\ turn.id \in TurnIds
    /\ view' = Recent(view \cup {turn.id})
    /\ Recorded(turns') \in {Recorded(turns), Recorded(turns) \cup {turn.id}}
    /\ turn'.id = 0
    /\ UNCHANGED <<nextTurn, backup>>

ViewLoads ==
    /\ view' \in {view, LoadedView(turns')}
    /\ turn'.id = 0
    /\ Recorded(turns') = Recorded(backup.turns)
    /\ UNCHANGED <<nextTurn, backup>>

ViewReloads ==
    /\ view' = LoadedView(turns')
    /\ turn'.id = 0
    /\ UNCHANGED <<turns, nextTurn, backup>>

BackupTaken ==
    /\ backup'.turns = turns
    /\ turn.id = 0
    /\ UNCHANGED <<view, turns, turn, nextTurn>>

TurnFlow == TurnsStay \/ TurnEnds \/ ViewLoads \/ ViewReloads \/ BackupTaken

LEMMA MarkingKeepsRecorded ==
    ASSUME StoreTypeOK, NEW a
    PROVE  Recorded(StaleTurns(a)) = Recorded(turns)
<1>1. \A t \in TurnIds : turns[t] \in Turn
  BY DEF StoreTypeOK
<1> QED  BY <1>1 DEF Recorded, StaleTurns, Turn

LEMMA WritesKeepRecorded ==
    ASSUME StoreTypeOK, NEW a, NEW c
    PROVE  /\ PersistClaim(c, a) => Recorded(turns') = Recorded(turns)
           /\ CorrectAssertion(a, c) => Recorded(turns') = Recorded(turns)
           /\ RetractAssertion(a) => Recorded(turns') = Recorded(turns)
           /\ ForgetAssertion(a) => Recorded(turns') = Recorded(turns)
BY MarkingKeepsRecorded
DEF PersistClaim, ReaffirmAssertion, InsertAssertion, CorrectAssertion,
    RetractAssertion, ForgetAssertion, MarkDependentsStale

LEMMA BeginningFlows ==
    ASSUME NEW lesson, NEW E, NEW r, StartTurn(lesson, E, r),
           view' = view, Recorded(turns') = Recorded(turns)
    PROVE  TurnsStay
BY DEF StartTurn, TurnsStay

LEMMA StepFlows ==
    ASSUME TypeOK, [Next]_vars
    PROVE  TurnFlow
<1>0. StoreTypeOK
  BY DEF TypeOK
<1>1. ASSUME UNCHANGED <<view, backup, nextTurn>>, turn'.id \in {0, turn.id},
             Recorded(turns') = Recorded(turns)
      PROVE  TurnFlow
  BY <1>1 DEF TurnFlow, TurnsStay
<1>2. ASSUME NEW S \in SUBSET Claims, Ask(S) PROVE TurnFlow
  BY <1>2, BeginningFlows DEF Ask, memoryVars, storeVars, TurnFlow
<1>3. ASSUME NEW a \in Ids, AskBefore(a) PROVE TurnFlow
  BY <1>3, BeginningFlows DEF AskBefore, memoryVars, storeVars, TurnFlow
<1>4. CASE FailLookup
  BY <1>4, BeginningFlows DEF FailLookup, memoryVars, storeVars, TurnFlow
<1>5. ASSUME NEW lesson \in Lessons, BeginLesson(lesson) PROVE TurnFlow
  BY <1>5, BeginningFlows DEF BeginLesson, memoryVars, storeVars, TurnFlow
<1>6. ASSUME TeachClaim \/ LoseClaim PROVE TurnFlow
  <2>1. Recorded(turns') = Recorded(turns)
    BY <1>0, <1>6, WritesKeepRecorded DEF TeachClaim, LoseClaim
  <2>2. turn'.id = turn.id /\ UNCHANGED <<view, backup, nextTurn>>
    BY <1>6 DEF TeachClaim, LoseClaim, FailLesson, memoryVars, TypeOK
  <2> QED  BY <1>1, <2>1, <2>2
<1>7. ASSUME CancelLesson \/ RejectClaim PROVE TurnFlow
  <2>1. turn'.id = turn.id /\ UNCHANGED <<view, turns, backup, nextTurn>>
    BY <1>7
    DEF CancelLesson, RejectClaim, FailLesson, memoryVars, storeVars, TypeOK
  <2> QED  BY <1>1, <2>1
<1>8. CASE FinishTurn
  <2>1. turn.id \in TurnIds
    BY <1>8 DEF FinishTurn, TypeOK
  <2>2. RecordTurn(turn.id, turn.evidence)
            => Recorded(turns') = Recorded(turns) \cup {turn.id}
    BY <1>0, <2>1 DEF RecordTurn, StoreTypeOK, Recorded
  <2>3. Recorded(turns') \in {Recorded(turns), Recorded(turns) \cup {turn.id}}
    BY <1>8, <2>2 DEF FinishTurn, storeVars
  <2> QED  BY <1>8, <2>1, <2>3 DEF FinishTurn, Idle, TurnEnds, TurnFlow
<1>9. CASE AbandonTurn
  BY <1>1, <1>9 DEF AbandonTurn, Idle, storeVars, memoryVars
<1>10. ASSUME NEW a \in Ids, NEW c \in Claims, Correction(a, c) \/ LostCorrection(a, c)
       PROVE  view' = view /\ Recorded(turns') = Recorded(turns)
  BY <1>0, <1>10, WritesKeepRecorded
  DEF Correction, LostCorrection, ApplyStale, memoryVars
<1>11. ASSUME NEW a \in Ids, NEW c \in Claims, CorrectKnowledge(a, c)
       PROVE  TurnFlow
  BY <1>1, <1>10, <1>11 DEF CorrectKnowledge
<1>12. ASSUME NEW a \in Ids, NEW c \in Claims, CorrectInTurn(a, c)
       PROVE  TurnFlow
  <2>1. view' = view /\ Recorded(turns') = Recorded(turns)
    BY <1>10, <1>12 DEF CorrectInTurn, memoryVars, storeVars
  <2> QED  BY <1>12, <2>1, BeginningFlows DEF CorrectInTurn, TurnFlow
<1>13. ASSUME NEW a \in Ids, RetractKnowledge(a) PROVE TurnFlow
  <2>1. view' = view /\ Recorded(turns') = Recorded(turns)
    BY <1>0, <1>13, WritesKeepRecorded DEF RetractKnowledge, ApplyStale, memoryVars
  <2> QED  BY <1>1, <1>13, <2>1 DEF RetractKnowledge
<1>14. ASSUME NEW a \in Ids, ForgetKnowledge(a) PROVE TurnFlow
  <2>1. view' = view /\ Recorded(turns') = Recorded(turns)
    BY <1>0, <1>14, WritesKeepRecorded DEF ForgetKnowledge, ApplyStale
  <2> QED  BY <1>1, <1>14, <2>1 DEF ForgetKnowledge
<1>15. CASE Backup
  BY <1>15
  DEF Backup, Snapshot, Idle, storeVars, memoryVars, BackupTaken, TurnFlow
<1>16. CASE Restore
  <2>1. view' \in {view, LoadedView(turns')}
    BY <1>16 DEF Restore, Rebuild, RebuildView, memoryVars
  <2> QED  BY <1>16, <2>1 DEF Restore, Idle, ViewLoads, TurnFlow
<1>17. CASE Restart
  <2>1. view' = LoadedView(turns')
    BY <1>17 DEF Restart, Rebuild, RebuildView, Snapshot, storeVars
  <2> QED  BY <1>17, <2>1 DEF Restart, Idle, storeVars, ViewReloads, TurnFlow
<1>18. CASE UNCHANGED vars
  BY <1>1, <1>18 DEF vars, storeVars, memoryVars
<1> QED
  BY <1>2, <1>3, <1>4, <1>5, <1>6, <1>7, <1>8, <1>9, <1>11, <1>12, <1>13,
     <1>14, <1>15, <1>16, <1>17, <1>18 DEF Next, KnowledgeStep, LessonStep

\* A turn that has not ended is shown nowhere and recorded nowhere, the backup
\* included.
Unended(t) ==
    t \notin view /\ t \notin Recorded(turns) /\ t \notin Recorded(backup.turns)

\* Turn ids are not used twice, and nothing is recorded in the backup alone.
TurnsInOrder ==
    /\ \A t \in TurnIds : t >= nextTurn => Unended(t)
    /\ turn.id # 0 => turn.id = nextTurn - 1 /\ Unended(turn.id)
    /\ Recorded(backup.turns) \subseteq Recorded(turns)

LEMMA TurnsInOrderInit == Init => TurnsInOrder
BY DEF Init, StoreInit, Snapshot, Idle, NoTurnRow, Recorded, Unended, TurnsInOrder

LEMMA ViewIsOfTurns ==
    ASSUME NEW rows, NEW S
    PROVE  LoadedView(rows) \subseteq Recorded(rows) /\ Recent(S) \subseteq S
BY DEF LoadedView, Recent, Recorded

LEMMA TurnsInOrderNext == TypeOK /\ TurnsInOrder /\ TurnFlow => TurnsInOrder'
<1> SUFFICES ASSUME TypeOK, TurnsInOrder, TurnFlow PROVE TurnsInOrder'
  OBVIOUS
<1>0. /\ nextTurn \in Nat /\ nextTurn > 0 /\ TurnIds \subseteq Nat
      /\ turn.id \in TurnIds \cup {0}
  BY StoreAssumption DEF TypeOK, TurnIds
<1>1. CASE TurnsStay
  <2>1. \A t : Unended(t)' <=> Unended(t)
    BY <1>1 DEF TurnsStay, Unended
  <2>2. CASE turn'.id \in {0, turn.id} /\ nextTurn' = nextTurn
    BY <1>1, <2>1, <2>2 DEF TurnsStay, TurnsInOrder
  <2>3. CASE nextTurn \in TurnIds /\ turn'.id = nextTurn /\ nextTurn' = nextTurn + 1
    <3>1. \A t \in TurnIds : t >= nextTurn' => t >= nextTurn
      BY <1>0, <2>3
    <3>2. turn'.id = nextTurn' - 1 /\ nextTurn >= nextTurn
      BY <1>0, <2>3
    <3> QED  BY <1>1, <2>1, <2>3, <3>1, <3>2 DEF TurnsStay, TurnsInOrder
  <2> QED  BY <1>1, <2>2, <2>3 DEF TurnsStay
<1>2. CASE TurnEnds
  <2>1. turn.id < nextTurn
    BY <1>0, <1>2 DEF TurnEnds, TurnsInOrder
  <2>2. ASSUME NEW t \in TurnIds, t >= nextTurn PROVE Unended(t)'
    <3>1. t # turn.id /\ Unended(t)
      BY <1>0, <2>1, <2>2 DEF TurnsInOrder
    <3> QED  BY <1>2, <3>1, ViewIsOfTurns DEF TurnEnds, Unended
  <2> QED  BY <1>2, <2>2 DEF TurnEnds, TurnsInOrder
<1>3. CASE ViewLoads
  <2>1. ASSUME NEW t \in TurnIds, Unended(t) PROVE Unended(t)'
    BY <1>3, <2>1, ViewIsOfTurns DEF ViewLoads, Unended
  <2> QED  BY <1>3, <2>1 DEF ViewLoads, TurnsInOrder
<1>4. CASE ViewReloads
  <2>1. ASSUME NEW t \in TurnIds, Unended(t) PROVE Unended(t)'
    BY <1>4, <2>1, ViewIsOfTurns DEF ViewReloads, Unended
  <2> QED  BY <1>4, <2>1 DEF ViewReloads, TurnsInOrder
<1>5. CASE BackupTaken
  <2>1. ASSUME NEW t \in TurnIds, Unended(t) PROVE Unended(t)'
    BY <1>5, <2>1 DEF BackupTaken, Unended
  <2> QED  BY <1>5, <2>1 DEF BackupTaken, TurnsInOrder
<1> QED  BY <1>1, <1>2, <1>3, <1>4, <1>5 DEF TurnFlow

\* The turn that ends is newer than everything in the view, so the cap drops
\* the oldest of a full view and nothing else.
LEMMA EndingKeepsRecent ==
    ASSUME TypeOK, TurnsInOrder, ViewIsRecent, TurnEnds
    PROVE  ViewIsRecent'
<1> DEFINE S == view \cup {turn.id}
<1>0. /\ nextTurn \in Nat /\ TurnIds \subseteq Nat \ {0} /\ view \subseteq TurnIds
      /\ MaxView \in Nat /\ MaxView > 0
  BY StoreAssumption, ServiceAssumption DEF TypeOK, TurnIds
<1>1. turn.id \in TurnIds /\ turn.id = nextTurn - 1 /\ turn.id \notin view
  BY <1>0 DEF TurnEnds, TurnsInOrder, Unended
<1>2. \A t \in TurnIds : t \in view \/ t \in Recorded(turns) => t < turn.id
  <2>1. ASSUME NEW t \in TurnIds, t \in view \/ t \in Recorded(turns)
        PROVE  t < turn.id
    <3>1. ~ (t >= nextTurn)
      BY <2>1 DEF TurnsInOrder, Unended
    <3>2. t # turn.id
      BY <1>0, <1>1, <2>1 DEF TurnEnds, TurnsInOrder, Unended
    <3> QED  BY <1>0, <1>1, <3>1, <3>2
  <2> QED  BY <2>1
<1>3. S \in SUBSET TurnIds
  BY <1>1 DEF TypeOK
<1>4. view' = Recent(S) /\ view' \subseteq S
  BY ViewIsOfTurns DEF TurnEnds
<1>5. ASSUME NEW t \in TurnIds \ view', turns'[t].status # "absent"
      PROVE  Cardinality(view') = MaxView /\ \A u \in view' : t < u
  <2>1. t \in S \/ (t \in Recorded(turns) /\ t \notin view)
    BY <1>5 DEF TurnEnds, Recorded
  <2>2. CASE t \in S
    BY <1>3, <1>4, <1>5, <2>2, RecentKeepsTheNewest
  <2>3. CASE t \in Recorded(turns) /\ t \notin view
    <3>1. Cardinality(view) = MaxView /\ \A u \in view : t < u
      BY <2>3 DEF ViewIsRecent, Recorded
    <3>2. \A u \in view' : t < u
      BY <1>2, <1>4, <2>3, <3>1
    <3>3. S \ Recent(S) # {}
      <4>1. PICK s \in view : \A u \in view : s <= u
        <5>1. view # {}
          BY <1>0, <3>1, FS_EmptySet
        <5>2. view \in SUBSET Nat
          BY <1>0
        <5> QED  BY <5>1, <5>2, Least
      <4>2. s < turn.id /\ s \in Nat
        BY <1>0, <1>2
      <4>3. \A u \in view : u = s \/ u > s
        BY <1>0, <4>1
      <4>4. S = Younger(S, s) \cup {s} /\ s \notin Younger(S, s)
        <5>1. \A u \in S : u > s \/ u = s
          BY <4>2, <4>3
        <5>2. s \in S /\ ~ (s > s)
          BY <4>2
        <5> QED  BY <5>1, <5>2 DEF Younger
      <4>5. IsFiniteSet(view)
        <5>1. IsFiniteSet(TurnIds)
          BY FS_Interval, StoreAssumption DEF TurnIds
        <5> QED  BY <1>0, <5>1, FS_Subset
      <4>6. Cardinality(S) = MaxView + 1
        BY <1>1, <3>1, <4>5, FS_AddElement
      <4>7. Cardinality(S) = Cardinality(Younger(S, s)) + 1
        BY <1>3, <4>4, YoungerIsFinite, FS_AddElement
      <4>8. ~ (Cardinality(Younger(S, s)) < MaxView)
        BY <1>0, <1>3, <4>6, <4>7, YoungerIsFinite
      <4> QED  BY <4>8 DEF Recent, Younger
    <3> QED  BY <1>3, <1>4, <3>2, <3>3, RecentKeepsTheNewest
  <2> QED  BY <2>1, <2>2, <2>3
<1> QED  BY <1>5 DEF ViewIsRecent

LEMMA LoadingIsRecent ==
    ASSUME view' = LoadedView(turns')
    PROVE  ViewIsRecent'
<1> DEFINE S == {t \in TurnIds : turns'[t].status # "absent"}
<1>1. view' = Recent(S) /\ S \in SUBSET TurnIds
  BY DEF LoadedView
<1> QED  BY <1>1, RecentKeepsTheNewest DEF ViewIsRecent

LEMMA ViewIsRecentNext ==
    TypeOK /\ TurnsInOrder /\ ViewIsRecent /\ TurnFlow => ViewIsRecent'
<1> SUFFICES ASSUME TypeOK, TurnsInOrder, ViewIsRecent, TurnFlow PROVE ViewIsRecent'
  OBVIOUS
<1>1. ASSUME view' = view, Recorded(turns') \subseteq Recorded(turns)
      PROVE  ViewIsRecent'
  BY <1>1 DEF ViewIsRecent, Recorded
<1>2. CASE TurnsStay \/ BackupTaken
  BY <1>1, <1>2 DEF TurnsStay, BackupTaken
<1>3. CASE TurnEnds
  BY <1>3, EndingKeepsRecent
<1>4. CASE ViewLoads
  BY <1>1, <1>4, LoadingIsRecent DEF ViewLoads, TurnsInOrder
<1>5. CASE ViewReloads
  BY <1>5, LoadingIsRecent DEF ViewReloads
<1> QED  BY <1>2, <1>3, <1>4, <1>5 DEF TurnFlow

LEMMA TurnsInOrderAlways == Spec => [](TypeOK /\ TurnsInOrder)
<1>1. Init => TurnsInOrder
  BY TurnsInOrderInit
<1>2. TypeOK /\ TurnsInOrder /\ [Next]_vars => TurnsInOrder'
  BY StepFlows, TurnsInOrderNext
<1> QED  BY <1>1, <1>2, TypeCorrect, PTL DEF Spec

\* The ConversationStore shows the latest turns, with failing reads too: a
\* recorded turn it does not show is older than all it shows, and it shows as
\* many as it may; for any cap, and after any restore.
THEOREM ViewStaysRecent == Spec => []ViewIsRecent
<1>1. Init => ViewIsRecent
  BY DEF Init, StoreInit, NoTurnRow, ViewIsRecent
<1>2. TypeOK /\ TurnsInOrder /\ ViewIsRecent /\ [Next]_vars => ViewIsRecent'
  BY StepFlows, ViewIsRecentNext
<1> QED  BY <1>1, <1>2, TurnsInOrderAlways, PTL DEF Spec

-----------------------------------------------------------------------------
(* The stale marks a client sees.                                          *)

\* mark_dependents_stale and apply_stale mark the same turns.
LEMMA MarkingAgrees ==
    ASSUME TypeOK, ViewAgreesOnStaleness, NEW a,
           turns' = StaleTurns(a), ApplyStale(a)
    PROVE  ViewAgreesOnStaleness'
<1>1. \A t \in TurnIds : turns[t] \in Turn
  BY DEF TypeOK, StoreTypeOK
<1>2. view' = view /\ view \subseteq TurnIds
      /\ viewStale' = viewStale \cup (Dependents(a) \cap view)
  BY DEF ApplyStale, TypeOK
<1>3. ASSUME NEW t \in view, turns'[t].status # "absent"
      PROVE  t \in viewStale' <=> turns'[t].status = "stale"
  <2>1. t \in TurnIds
    BY <1>2
  <2>2. CASE t \in Dependents(a)
    <3>1. turns[t].status # "absent"
      BY <1>3, <2>1 DEF StaleTurns
    <3>2. turns'[t].status = "stale"
      BY <1>1, <2>1, <2>2, <3>1 DEF StaleTurns, Turn
    <3> QED  BY <1>2, <2>2, <3>2
  <2>3. CASE t \notin Dependents(a)
    <3>1. turns'[t] = turns[t]
      BY <2>1, <2>3 DEF StaleTurns
    <3>2. t \in viewStale' <=> t \in viewStale
      BY <1>2, <2>3
    <3> QED  BY <1>3, <3>1, <3>2 DEF ViewAgreesOnStaleness
  <2> QED  BY <2>2, <2>3
<1> QED  BY <1>2, <1>3 DEF ViewAgreesOnStaleness

\* The turn that ends enters the view unmarked, and the tables fresh or not at
\* all.
LEMMA EndingAgrees ==
    ASSUME TypeOK, TurnsInOrder, ViewAgreesOnStaleness, FinishTurn
    PROVE  ViewAgreesOnStaleness'
<1>1. /\ turn.id \in TurnIds /\ turn.id \notin view
      /\ turns[turn.id].status = "absent"
  BY DEF FinishTurn, TypeOK, TurnsInOrder, Unended, Recorded
<1>2. view' \subseteq view \cup {turn.id} /\ viewStale' = viewStale \cap view'
  BY ViewIsOfTurns DEF FinishTurn
<1>3. /\ \A t \in TurnIds \ {turn.id} : turns'[t] = turns[t]
      /\ turns'[turn.id].status # "stale"
  <2>1. CASE RecordTurn(turn.id, turn.evidence)
    BY <1>1, <2>1 DEF RecordTurn, TypeOK, StoreTypeOK
  <2>2. CASE UNCHANGED storeVars
    BY <1>1, <2>2 DEF storeVars
  <2> QED  BY <2>1, <2>2 DEF FinishTurn
<1>4. turn.id \notin viewStale
  BY <1>1 DEF TypeOK
<1>5. view \subseteq TurnIds
  BY DEF TypeOK
<1> QED  BY <1>1, <1>2, <1>3, <1>4, <1>5 DEF ViewAgreesOnStaleness

LEMMA LoadingAgrees ==
    ASSUME RebuildView(turns')
    PROVE  ViewAgreesOnStaleness'
BY DEF RebuildView, ViewAgreesOnStaleness

LEMMA ViewAgreesNext ==
    ASSUME ~ FaultyReads
    PROVE  TypeOK /\ TurnsInOrder /\ ViewAgreesOnStaleness /\ [Next]_vars
                => ViewAgreesOnStaleness'
<1> SUFFICES ASSUME TypeOK, TurnsInOrder, ViewAgreesOnStaleness, [Next]_vars
             PROVE  ViewAgreesOnStaleness'
  OBVIOUS
<1>1. ASSUME UNCHANGED <<turns, view, viewStale>> PROVE ViewAgreesOnStaleness'
  BY <1>1 DEF ViewAgreesOnStaleness
<1>2. ASSUME UNCHANGED <<storeVars, memoryVars>> PROVE ViewAgreesOnStaleness'
  BY <1>1, <1>2 DEF storeVars, memoryVars
<1>3. ASSUME NEW S \in SUBSET Claims, Ask(S) PROVE ViewAgreesOnStaleness'
  BY <1>2, <1>3 DEF Ask
<1>4. ASSUME NEW a \in Ids, AskBefore(a) PROVE ViewAgreesOnStaleness'
  BY <1>2, <1>4 DEF AskBefore
<1>5. ASSUME NEW lesson \in Lessons, BeginLesson(lesson)
      PROVE  ViewAgreesOnStaleness'
  BY <1>2, <1>5 DEF BeginLesson
<1>6. CASE TeachClaim
  BY <1>1, <1>6
  DEF TeachClaim, PersistClaim, ReaffirmAssertion, InsertAssertion
<1>7. ASSUME CancelLesson \/ RejectClaim \/ AbandonTurn PROVE ViewAgreesOnStaleness'
  BY <1>2, <1>7 DEF CancelLesson, RejectClaim, FailLesson, AbandonTurn
<1>8. CASE FinishTurn
  BY <1>8, EndingAgrees
<1>9. ASSUME NEW a, NEW c, Correction(a, c) PROVE ViewAgreesOnStaleness'
  BY <1>9, MarkingAgrees DEF Correction, CorrectAssertion, MarkDependentsStale
<1>10. ASSUME NEW a \in Ids, NEW c \in Claims, CorrectKnowledge(a, c)
       PROVE  ViewAgreesOnStaleness'
  BY <1>9, <1>10 DEF CorrectKnowledge, LostCorrection
<1>11. ASSUME NEW a \in Ids, NEW c \in Claims, CorrectInTurn(a, c)
       PROVE  ViewAgreesOnStaleness'
  BY <1>2, <1>9, <1>11 DEF CorrectInTurn, LostCorrection
<1>12. ASSUME NEW a \in Ids, RetractKnowledge(a) PROVE ViewAgreesOnStaleness'
  BY <1>12, MarkingAgrees DEF RetractKnowledge, RetractAssertion, MarkDependentsStale
<1>13. ASSUME NEW a \in Ids, ForgetKnowledge(a) PROVE ViewAgreesOnStaleness'
  BY <1>13, MarkingAgrees DEF ForgetKnowledge, ForgetAssertion
<1>14. CASE Backup
  BY <1>2, <1>14 DEF Backup
<1>15. CASE Restore
  BY <1>15, LoadingAgrees DEF Restore, Rebuild
<1>16. CASE Restart
  <2>1. RebuildView(turns')
    BY <1>16 DEF Restart, Rebuild, Snapshot, storeVars
  <2> QED  BY <2>1, LoadingAgrees
<1>17. CASE UNCHANGED vars
  BY <1>2, <1>17 DEF vars
<1> QED
  BY <1>3, <1>4, <1>5, <1>6, <1>7, <1>8, <1>10, <1>11, <1>12, <1>13, <1>14,
     <1>15, <1>16, <1>17 DEF Next, KnowledgeStep, LessonStep, FailLookup, LoseClaim

\* While reads succeed, the stale marks a client sees are those of the tables,
\* for every recorded turn in view: none is marked in one and not in the other.
THEOREM ViewStaysInAgreement ==
    ASSUME ~ FaultyReads
    PROVE  Spec => []ViewAgreesOnStaleness
<1>1. Init => ViewAgreesOnStaleness
  BY DEF Init, ViewAgreesOnStaleness
<1>2. TypeOK /\ TurnsInOrder /\ ViewAgreesOnStaleness /\ [Next]_vars
        => ViewAgreesOnStaleness'
  BY ViewAgreesNext
<1> QED  BY <1>1, <1>2, TurnsInOrderAlways, PTL DEF Spec

-----------------------------------------------------------------------------
(* What failed reads leave behind.                                         *)

\* A start that rebuilds the memory from the tables ends with a supported engine
\* and a view that has the marks of the tables (from_storage).
RestartHeals == [][Restart => (EngineIsSupported /\ ViewAgreesOnStaleness)']_vars

\* A failed read may leave the engine with claims that are no longer in force
\* and the view with turns it does not know to be stale, for as long as the
\* process lives and no longer: whatever state the next start finds, it heals.
THEOREM RestartsHeal == Spec => RestartHeals
<1>1. [Next]_vars => [Restart => (EngineIsSupported /\ ViewAgreesOnStaleness)']_vars
  <2> SUFFICES ASSUME Restart
               PROVE  EngineIsSupported' /\ ViewAgreesOnStaleness'
    OBVIOUS
  <2>1. Rebuild(Snapshot) /\ assertions' = Snapshot.assertions
    BY DEF Restart, Snapshot, storeVars
  <2>2. RebuildView(turns')
    BY DEF Restart, Rebuild, Snapshot, storeVars
  <2>3. Supported'
    BY <2>1, RebuildGivesSupported
  <2> QED  BY <2>2, <2>3, LoadingAgrees DEF Supported, EngineIsSupported
<1> QED  BY <1>1, PTL DEF Spec, RestartHeals

=============================================================================
