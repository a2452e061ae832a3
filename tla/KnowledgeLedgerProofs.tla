------------------------ MODULE KnowledgeLedgerProofs ------------------------
(***************************************************************************)
(* ConversationService implements KnowledgeLedger, alone and with document *)
(* learning on top, for every value of the constants.  What a step does to *)
(* the tables (DurableStep) is a step of the ledger or a stutter: each     *)
(* transaction is one of its actions, and marking the dependents of an     *)
(* assertion outdates exactly the answers that rest on it.                 *)
(***************************************************************************)
EXTENDS DocumentLearningProofs

-----------------------------------------------------------------------------
(* The mapped state.                                                       *)

LEMMA InForcePairs ==
    ASSUME NEW rows, NEW p
    PROVE  p \in InForce(rows) <=>
              \E a \in Ids : rows[a].status = "active" /\ p = <<a, rows[a].claim>>
BY DEF InForce

\* What is in force after a write to one assertion.
LEMMA WriteInForce ==
    ASSUME NEW a \in Ids, \A b \in Ids \ {a} : assertions'[b] = assertions[b]
    PROVE  InForce(assertions') =
              {p \in InForce(assertions) : p[1] # a}
                \cup (IF assertions'[a].status = "active"
                      THEN {<<a, assertions'[a].claim>>} ELSE {})
<1> DEFINE Others == {p \in InForce(assertions) : p[1] # a}
           New == IF assertions'[a].status = "active"
                  THEN {<<a, assertions'[a].claim>>} ELSE {}
<1>1. ASSUME NEW p \in InForce(assertions') PROVE p \in Others \cup New
  <2>1. PICK b \in Ids :
          assertions'[b].status = "active" /\ p = <<b, assertions'[b].claim>>
    BY <1>1, InForcePairs
  <2>2. CASE b = a
    BY <2>1, <2>2
  <2>3. CASE b # a
    BY <2>1, <2>3, InForcePairs
  <2> QED  BY <2>2, <2>3
<1>2. ASSUME NEW p \in Others PROVE p \in InForce(assertions')
  <2>1. PICK b \in Ids :
          assertions[b].status = "active" /\ p = <<b, assertions[b].claim>>
    BY <1>2, InForcePairs
  <2>2. b # a
    BY <1>2, <2>1
  <2> QED  BY <2>1, <2>2, InForcePairs
<1>3. New \subseteq InForce(assertions')
  BY InForcePairs
<1> QED  BY <1>1, <1>2, <1>3

\* An assertion in force is an active one.
LEMMA InForceIsActive ==
    ASSUME NEW rows, NEW a \in Ids
    PROVE  (\E p \in InForce(rows) : p[1] = a) <=> rows[a].status = "active"
<1>1. ASSUME NEW p \in InForce(rows), p[1] = a PROVE rows[a].status = "active"
  BY <1>1, InForcePairs
<1>2. ASSUME rows[a].status = "active" PROVE \E p \in InForce(rows) : p[1] = a
  <2>1. <<a, rows[a].claim>> \in InForce(rows)
    BY <1>2, InForcePairs
  <2> QED  BY <2>1
<1> QED  BY <1>1, <1>2

\* The recorded turns that cite a are the answers resting on it.
LEMMA RestingTurns ==
    ASSUME NEW a \in Ids, NEW t \in TurnIds
    PROVE  t \in Ledger!RestOn(a) <=>
              /\ turns[t].status # "absent"
              /\ a \in {e.id : e \in turns[t].evidence} \ {0}
<1>1. a # 0
  BY StoreAssumption DEF Ids
<1>2. AnswerOf(turns)[t] # "none" <=> turns[t].status # "absent"
  BY DEF AnswerOf
<1>3. BasisOf(turns)[t] = {<<e.id, e.claim>> : e \in {f \in turns[t].evidence : f.id # 0}}
  BY DEF BasisOf
<1>4. (\E p \in BasisOf(turns)[t] : p[1] = a)
        <=> a \in {e.id : e \in turns[t].evidence} \ {0}
  <2>1. ASSUME NEW p \in BasisOf(turns)[t], p[1] = a
        PROVE  a \in {e.id : e \in turns[t].evidence}
    <3>1. PICK e \in turns[t].evidence : p = <<e.id, e.claim>>
      BY <1>3
    <3> QED  BY <2>1, <3>1
  <2>2. ASSUME NEW e \in turns[t].evidence, e.id = a
        PROVE  \E p \in BasisOf(turns)[t] : p[1] = a
    <3>1. <<e.id, e.claim>> \in BasisOf(turns)[t]
      BY <1>1, <1>3, <2>2
    <3> QED  BY <2>2, <3>1
  <2> QED  BY <1>1, <2>1, <2>2
<1> QED  BY <1>2, <1>4 DEF Ledger!RestOn

\* Marking the dependents of a outdates the answers that rest on a, and no
\* other, and leaves what they rest on.
LEMMA MarkingOutdates ==
    ASSUME StoreTypeOK, TablesLinked, NEW a \in Ids, turns' = StaleTurns(a),
           UNCHANGED backup
    PROVE  Ledger!Outdate(a)
<1>1. ASSUME NEW t \in TurnIds
      PROVE  /\ AnswerOf(turns')[t] = IF t \in Ledger!RestOn(a) THEN "outdated"
                                      ELSE AnswerOf(turns)[t]
             /\ turns'[t].evidence = turns[t].evidence
  <2>1. turns[t] \in Turn /\ conclusions[t] \in Conclusion
    BY DEF StoreTypeOK
  <2>2. LinkedTurn(turns[t], conclusions[t])
    BY DEF TablesLinked
  <2>3. /\ t \in Dependents(a) => turns'[t] = [turns[t] EXCEPT !.status = "stale"]
                                  \/ turns[t].status = "absent"
        /\ t \in Dependents(a) /\ turns[t].status = "absent" => turns'[t] = turns[t]
        /\ t \notin Dependents(a) => turns'[t] = turns[t]
    BY DEF StaleTurns
  <2>4. turns'[t].evidence = turns[t].evidence
    BY <2>1, <2>3 DEF Turn
  <2>5. t \in Dependents(a) <=> a \in conclusions[t].deps
    BY DEF Dependents
  <2>6. CASE turns[t].status = "absent"
    BY <2>3, <2>6, RestingTurns DEF AnswerOf
  <2>7. CASE turns[t].status = "stale"
    <3>1. turns'[t].status = "stale"
      BY <2>1, <2>3, <2>7 DEF Turn
    <3> QED  BY <2>4, <2>7, <3>1 DEF AnswerOf
  <2>8. CASE turns[t].status = "fresh"
    <3>1. conclusions[t].deps = {e.id : e \in turns[t].evidence} \ {0}
      BY <2>1, <2>2, <2>8 DEF LinkedTurn, Conclusion
    <3>2. t \in Ledger!RestOn(a) <=> t \in Dependents(a)
      BY <2>5, <2>8, <3>1, RestingTurns
    <3>3. CASE t \in Dependents(a)
      <4>1. turns'[t].status = "stale"
        BY <2>1, <2>3, <2>8, <3>3 DEF Turn
      <4> QED  BY <2>4, <3>2, <3>3, <4>1 DEF AnswerOf
    <3>4. CASE t \notin Dependents(a)
      BY <2>3, <3>2, <3>4 DEF AnswerOf
    <3> QED  BY <3>3, <3>4
  <2> QED  BY <2>1, <2>6, <2>7, <2>8 DEF Turn
<1>2. AnswerOf(turns') =
        [t \in TurnIds |-> IF t \in Ledger!RestOn(a) THEN "outdated"
                           ELSE AnswerOf(turns)[t]]
  BY <1>1 DEF AnswerOf
<1>3. BasisOf(turns') = BasisOf(turns)
  BY <1>1 DEF BasisOf
<1> QED  BY <1>2, <1>3 DEF Ledger!Outdate

-----------------------------------------------------------------------------
(* The transactions.                                                       *)

LEMMA InsertAsserts ==
    ASSUME StoreTypeOK, FreshIds, NEW a, NEW c \in Claims, InsertAssertion(a, c),
           UNCHANGED backup
    PROVE  Ledger!Assert(a, c) /\ a \in Ids
<1>1. /\ a \in Ids /\ a = nextAssertion
      /\ PutVersion(a, "active", c) /\ turns' = turns
  BY DEF InsertAssertion
<1>2. assertions[a].status # "active"
  <2>1. a >= nextAssertion
    BY <1>1, StoreAssumption DEF Ids
  <2> QED  BY <1>1, <2>1 DEF FreshIds, NoRow
<1>3. \A b \in Ids \ {a} : assertions'[b] = assertions[b]
  BY <1>1, OneRowChanges
<1>4. assertions'[a].status = "active" /\ assertions'[a].claim = c
  BY <1>1 DEF PutVersion, StoreTypeOK
<1>5. \A p \in InForce(assertions) : p[1] # a
  BY <1>1, <1>2, InForceIsActive
<1>6. InForce(assertions') = InForce(assertions) \cup {<<a, c>>}
  BY <1>1, <1>3, <1>4, <1>5, WriteInForce
<1> QED  BY <1>1, <1>5, <1>6 DEF Ledger!Assert

LEMMA ReaffirmStutters ==
    ASSUME StoreTypeOK, NEW a, ReaffirmAssertion(a)
    PROVE  InForce(assertions') = InForce(assertions) /\ turns' = turns
<1>1. a \in Ids /\ assertions[a].status = "active"
  BY DEF ReaffirmAssertion, Active
<1>2. /\ assertions'[a].status = "active"
      /\ assertions'[a].claim = assertions[a].claim
  BY <1>1 DEF ReaffirmAssertion, PutVersion, StoreTypeOK
<1>3. \A b \in Ids : /\ assertions'[b].status = assertions[b].status
                     /\ assertions'[b].claim = assertions[b].claim
  <2>1. \A b \in Ids \ {a} : assertions'[b] = assertions[b]
    BY OneRowChanges DEF ReaffirmAssertion
  <2> QED  BY <1>1, <1>2, <2>1
<1> QED  BY <1>3 DEF InForce, ReaffirmAssertion

LEMMA CorrectRevises ==
    ASSUME StoreTypeOK, TablesLinked, NEW a, NEW c, CorrectAssertion(a, c),
           UNCHANGED backup
    PROVE  Ledger!Revise(a, c) /\ a \in Ids
<1>1. /\ a \in Ids /\ assertions[a].status = "active"
      /\ PutVersion(a, "active", c) /\ turns' = StaleTurns(a)
  BY DEF CorrectAssertion, Active, MarkDependentsStale
<1>2. \A b \in Ids \ {a} : assertions'[b] = assertions[b]
  BY <1>1, OneRowChanges
<1>3. assertions'[a].status = "active" /\ assertions'[a].claim = c
  BY <1>1 DEF PutVersion, StoreTypeOK
<1>4. \E p \in InForce(assertions) : p[1] = a
  BY <1>1, InForceIsActive
<1>5. InForce(assertions') = {p \in InForce(assertions) : p[1] # a} \cup {<<a, c>>}
  BY <1>1, <1>2, <1>3, WriteInForce
<1> QED  BY <1>1, <1>4, <1>5, MarkingOutdates DEF Ledger!Revise

LEMMA DroppingWithdraws ==
    ASSUME StoreTypeOK, TablesLinked, NEW a \in Ids, UNCHANGED backup,
           assertions[a].status = "active", assertions'[a].status # "active",
           \A b \in Ids \ {a} : assertions'[b] = assertions[b],
           turns' = StaleTurns(a)
    PROVE  Ledger!Withdraw(a)
<1>1. \E p \in InForce(assertions) : p[1] = a
  BY InForceIsActive
<1>2. InForce(assertions') = {p \in InForce(assertions) : p[1] # a}
  BY WriteInForce
<1> QED  BY <1>1, <1>2, MarkingOutdates DEF Ledger!Withdraw

LEMMA RetractWithdraws ==
    ASSUME StoreTypeOK, TablesLinked, NEW a \in Ids, RetractAssertion(a),
           UNCHANGED backup
    PROVE  Ledger!Withdraw(a)
<1>1. /\ assertions[a].status = "active"
      /\ PutVersion(a, "retracted", assertions[a].claim) /\ turns' = StaleTurns(a)
  BY DEF RetractAssertion, Active, MarkDependentsStale
<1>2. \A b \in Ids \ {a} : assertions'[b] = assertions[b]
  BY <1>1, OneRowChanges
<1>3. assertions'[a].status = "retracted"
  BY <1>1 DEF PutVersion, StoreTypeOK
<1> QED  BY <1>1, <1>2, <1>3, DroppingWithdraws

\* Forgetting a tombstone changes nothing: no fresh turn rests on it.
LEMMA ForgetWithdraws ==
    ASSUME StoreTypeOK, TablesLinked, Current, NEW a \in Ids, ForgetAssertion(a),
           UNCHANGED backup
    PROVE  \/ Ledger!Withdraw(a)
           \/ UNCHANGED (Ledger!ledgerVars)
<1>1. /\ \A b \in Ids \ {a} : assertions'[b] = assertions[b]
      /\ assertions'[a].status = "absent"
      /\ turns' = StaleTurns(a)
  BY DEF ForgetAssertion, StoreTypeOK, NoRow
<1>2. CASE assertions[a].status = "active"
  BY <1>1, <1>2, DroppingWithdraws
<1>3. CASE assertions[a].status # "active"
  <2>1. InForce(assertions') = InForce(assertions)
    <3>1. \A p \in InForce(assertions) : p[1] # a
      BY <1>3, InForceIsActive
    <3>2. InForce(assertions') = {p \in InForce(assertions) : p[1] # a}
      BY <1>1, WriteInForce
    <3> QED  BY <3>1, <3>2
  <2>2. Ledger!Outdate(a)
    BY <1>1, MarkingOutdates
  <2>3. ASSUME NEW t \in Ledger!RestOn(a) PROVE AnswerOf(turns)[t] = "outdated"
    <3>1. t \in TurnIds
      BY DEF Ledger!RestOn
    <3>2. turns[t].status # "absent" /\ \E e \in turns[t].evidence : e.id = a /\ a # 0
      BY <3>1, RestingTurns
    <3>3. turns[t].status # "fresh"
      BY <1>3, <3>1, <3>2 DEF Current, Cites
    <3> QED  BY <3>1, <3>2, <3>3 DEF AnswerOf
  <2>4. AnswerOf(turns') = AnswerOf(turns)
    BY <2>2, <2>3 DEF Ledger!Outdate, AnswerOf
  <2> QED  BY <2>1, <2>2, <2>4 DEF Ledger!Outdate, Ledger!ledgerVars
<1> QED  BY <1>2, <1>3

LEMMA RecordGives ==
    ASSUME StoreTypeOK, NEW t \in TurnIds, NEW E \in SUBSET Evidence,
           RecordTurn(t, E), Cites(E, assertions), UNCHANGED backup
    PROVE  \E S \in SUBSET InForce(assertions) : Ledger!Give(t, S)
<1> DEFINE S == {<<e.id, e.claim>> : e \in {f \in E : f.id # 0}}
<1>1. S \subseteq InForce(assertions)
  <2>1. ASSUME NEW e \in E, e.id # 0 PROVE <<e.id, e.claim>> \in InForce(assertions)
    BY <2>1, InForcePairs DEF Cites
  <2> QED  BY <2>1
<1>2. AnswerOf(turns)[t] = "none"
  BY DEF RecordTurn, AnswerOf
<1>3. \A u \in TurnIds : turns'[u] = IF u = t THEN [status |-> "fresh", evidence |-> E]
                                     ELSE turns[u]
  BY DEF RecordTurn, StoreTypeOK
<1>4. AnswerOf(turns') = [AnswerOf(turns) EXCEPT ![t] = "current"]
  <2>1. \A u \in TurnIds : AnswerOf(turns')[u] = IF u = t THEN "current"
                                               ELSE AnswerOf(turns)[u]
    BY <1>3 DEF AnswerOf
  <2>2. AnswerOf(turns') = [u \in TurnIds |-> AnswerOf(turns')[u]]
        /\ AnswerOf(turns) = [u \in TurnIds |-> AnswerOf(turns)[u]]
    BY DEF AnswerOf
  <2> QED  BY <2>1, <2>2
<1>5. BasisOf(turns') = [BasisOf(turns) EXCEPT ![t] = S]
  <2>1. \A u \in TurnIds : BasisOf(turns')[u] = IF u = t THEN S ELSE BasisOf(turns)[u]
    BY <1>3 DEF BasisOf
  <2>2. BasisOf(turns') = [u \in TurnIds |-> BasisOf(turns')[u]]
        /\ BasisOf(turns) = [u \in TurnIds |-> BasisOf(turns)[u]]
    BY DEF BasisOf
  <2> QED  BY <2>1, <2>2
<1>6. assertions' = assertions
  BY DEF RecordTurn
<1> QED  BY <1>1, <1>2, <1>4, <1>5, <1>6 DEF Ledger!Give

\* The refinement, step by step.
LEMMA DurableStepIsLedgerStep ==
    ASSUME TypeOK, FreshIds, TablesLinked, Current, DurableStep
    PROVE  [Ledger!LedgerNext]_(Ledger!ledgerVars)
<1>0. StoreTypeOK
  BY DEF TypeOK
<1>1. CASE UNCHANGED <<storeVars, backup>>
  BY <1>1 DEF storeVars, Ledger!ledgerVars
<1>2. CASE UNCHANGED storeVars /\ backup' = Snapshot
  BY <1>2 DEF storeVars, Snapshot, Ledger!Save, Ledger!Copy, Ledger!LedgerNext
<1>3. CASE Transaction /\ UNCHANGED backup
  <2>1. ASSUME NEW a \in Ids, NEW c \in Claims, InsertAssertion(a, c)
        PROVE  Ledger!LedgerNext
    BY <1>0, <1>3, <2>1, InsertAsserts DEF Ledger!LedgerNext
  <2>2. ASSUME NEW a \in Ids, ReaffirmAssertion(a)
        PROVE  UNCHANGED (Ledger!ledgerVars)
    BY <1>0, <1>3, <2>2, ReaffirmStutters DEF Ledger!ledgerVars
  <2>3. ASSUME NEW a \in Ids, NEW c \in Claims, CorrectAssertion(a, c)
        PROVE  Ledger!LedgerNext
    BY <1>0, <1>3, <2>3, CorrectRevises DEF Ledger!LedgerNext
  <2>4. ASSUME NEW a \in Ids, RetractAssertion(a) PROVE Ledger!LedgerNext
    BY <1>0, <1>3, <2>4, RetractWithdraws DEF Ledger!LedgerNext
  <2>5. ASSUME NEW a \in Ids, ForgetAssertion(a)
        PROVE  Ledger!LedgerNext \/ UNCHANGED (Ledger!ledgerVars)
    BY <1>0, <1>3, <2>5, ForgetWithdraws DEF Ledger!LedgerNext
  <2>6. ASSUME turn.id \in TurnIds, RecordTurn(turn.id, turn.evidence)
        PROVE  Ledger!LedgerNext
    <3>1. turn.evidence \in SUBSET Evidence /\ Cites(turn.evidence, assertions)
      BY DEF TypeOK, Current
    <3> QED  BY <1>0, <1>3, <2>6, <3>1, RecordGives DEF Ledger!LedgerNext
  <2> QED  BY <1>3, <2>1, <2>2, <2>3, <2>4, <2>5, <2>6 DEF Transaction
<1>4. CASE Restored
  BY <1>4 DEF Restored, Ledger!GoBack, Ledger!LedgerNext
<1> QED  BY <1>1, <1>2, <1>3, <1>4 DEF DurableStep

LEMMA InitIsLedgerInit == Init => Ledger!LedgerInit
<1> SUFFICES ASSUME Init PROVE Ledger!LedgerInit
  OBVIOUS
<1>1. InForce(assertions) = {}
  BY DEF Init, StoreInit, InForce, NoRow
<1>2. AnswerOf(turns) = [t \in TurnIds |-> "none"]
  BY DEF Init, StoreInit, AnswerOf, NoTurnRow
<1>3. BasisOf(turns) = [t \in TurnIds |-> {}]
  BY DEF Init, StoreInit, BasisOf, NoTurnRow
<1>4. backup.assertions = assertions /\ backup.turns = turns
  BY DEF Init, Snapshot
<1> QED  BY <1>1, <1>2, <1>3, <1>4 DEF Ledger!LedgerInit, Ledger!Copy

\* While reads succeed, the service is a ledger: answers are recorded only from
\* claims in force, and the transaction that changes or withdraws a claim is
\* the one that outdates every answer resting on it; for any claims, turns,
\* backups, restores and crashes.
THEOREM ServiceImplementsLedger ==
    ASSUME ~ FaultyReads
    PROVE  Spec => ImplementsLedger
<1>1. Init => Ledger!LedgerInit
  BY InitIsLedgerInit
<1>2. TypeOK /\ FreshIds /\ TablesLinked /\ Current /\ [Next]_vars
        => [Ledger!LedgerNext]_(Ledger!ledgerVars)
  BY StepIsDurableStep, DurableStepIsLedgerStep
<1> QED
  BY <1>1, <1>2, CurrentAlways, PTL DEF Spec, ImplementsLedger, Ledger!LedgerSpec

\* With documents too: a committed item enters the ledger as any other claim,
\* and a removal withdraws claim by claim, each with the answers resting on it.
\* A document never changes what an answer rested on, or outdates it late.
THEOREM LearningImplementsLedger ==
    ASSUME ~ FaultyReads
    PROVE  DocumentsSpec => ImplementsLedger
<1>1. DocumentsInit => Ledger!LedgerInit
  BY InitIsLedgerInit DEF DocumentsInit
<1>2. Typed /\ FreshIds /\ TablesLinked /\ Current /\ [DocumentsNext]_allVars
        => [Ledger!LedgerNext]_(Ledger!ledgerVars)
  BY ServiceDurable, DurableStepIsLedgerStep DEF Typed, DocumentsTypeOK
<1> QED
  BY <1>1, <1>2, LearnedCurrentAlways, PTL
  DEF DocumentsSpec, ImplementsLedger, Ledger!LedgerSpec
=============================================================================
