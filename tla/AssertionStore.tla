--------------------------- MODULE AssertionStore ---------------------------
(***************************************************************************)
(* The durable knowledge memory: the tables assertions,                    *)
(* assertion_versions, turns, conclusions and conclusion_assertions, and   *)
(* the transactions src/persistence/knowledge.rs and sessions.rs run on    *)
(* them.  Each action is one SQLite transaction: it commits as a whole or  *)
(* leaves the database as it was, so a rejected write is a stuttering step *)
(* here and the caller decides what a rejection means.                     *)
(*                                                                         *)
(* A claim stands for one payload, the exact text of a fact or of a rule.  *)
(* Assertion and turn ids are drawn from 1, 2, ... in the order the code   *)
(* generates its UUIDs, so the order of the ids is the order of the        *)
(* created_at columns.                                                     *)
(***************************************************************************)
EXTENDS Naturals, Sequences

CONSTANTS
    Claims,         \* the payloads an assertion can carry
    NoClaim,        \* the payload of a row that does not exist
    Kind,           \* Kind[c]: is the payload a fact or a rule
    MaxAssertions,  \* bound: assertion ids ever generated
    MaxVersion,     \* bound: versions one assertion goes through
    MaxTurns        \* bound: turn ids ever generated

ASSUME StoreAssumption ==
    /\ NoClaim \notin Claims
    /\ Kind \in [Claims -> {"fact", "rule"}]
    /\ MaxAssertions \in Nat
    /\ MaxVersion \in Nat \ {0}
    /\ MaxTurns \in Nat

VARIABLES
    assertions,     \* the row of each assertion id
    history,        \* the rows of assertion_versions of each assertion id
    turns,          \* the row of each turn id
    conclusions,    \* the conclusion of each turn and the assertions it links
    nextAssertion   \* the next assertion id to be generated

storeVars == <<assertions, history, turns, conclusions, nextAssertion>>

Ids == 1 .. MaxAssertions
TurnIds == 1 .. MaxTurns

\* What a turn's result says it was answered from: the claim that was read and
\* the assertion id it is cited under, 0 when it is cited under none.
Evidence == [id : Ids \cup {0}, claim : Claims]

NoRow == [status |-> "absent", version |-> 0, claim |-> NoClaim]
Assertion == [status : {"active", "retracted"}, version : Nat, claim : Claims]
                \cup {NoRow}
Version == [status : {"active", "retracted"}, claim : Claims]
Turn == [status : {"absent", "fresh", "stale"}, evidence : SUBSET Evidence]
Conclusion == [status : {"none", "valid", "stale"}, deps : SUBSET Ids]

NoTurnRow == [status |-> "absent", evidence |-> {}]
NoConclusion == [status |-> "none", deps |-> {}]

StoreTypeOK ==
    /\ assertions \in [Ids -> Assertion]
    /\ history \in [Ids -> Seq(Version)]
    /\ turns \in [TurnIds -> Turn]
    /\ conclusions \in [TurnIds -> Conclusion]
    /\ nextAssertion \in 1 .. MaxAssertions + 1

StoreInit ==
    /\ assertions = [a \in Ids |-> NoRow]
    /\ history = [a \in Ids |-> <<>>]
    /\ turns = [t \in TurnIds |-> NoTurnRow]
    /\ conclusions = [t \in TurnIds |-> NoConclusion]
    /\ nextAssertion = 1

-----------------------------------------------------------------------------
Active == {a \in Ids : assertions[a].status = "active"}
ActiveWith(c) == {a \in Active : assertions[a].claim = c}

\* Mutant of PutVersion: the version row is not written.
PutRowOnly(a, status, c) ==
    /\ assertions' = [assertions EXCEPT
                        ![a] = [status |-> status,
                                version |-> assertions[a].version + 1,
                                claim |-> c]]
    /\ UNCHANGED history

\* The columns every write to an existing assertion sets, and the version row
\* it appends.
PutVersion(a, status, c) ==
    /\ assertions' = [assertions EXCEPT
                        ![a] = [status |-> status,
                                version |-> assertions[a].version + 1,
                                claim |-> c]]
    /\ history' = [history EXCEPT
                        ![a] = Append(@, [status |-> status, claim |-> c])]

Dependents(a) == {t \in TurnIds : a \in conclusions[t].deps}

\* Mutants of StaleTurns and StaleConclusions: that table is left as it is.
NoStaleTurns(a) == turns
NoStaleConclusions(a) == conclusions

StaleTurns(a) ==
    [t \in TurnIds |->
        IF t \in Dependents(a) /\ turns[t].status # "absent"
        THEN [turns[t] EXCEPT !.status = "stale"]
        ELSE turns[t]]

StaleConclusions(a) ==
    [t \in TurnIds |->
        IF t \in Dependents(a)
        THEN [conclusions[t] EXCEPT !.status = "stale"]
        ELSE conclusions[t]]

MarkDependentsStale(a) ==
    /\ conclusions' = StaleConclusions(a)
    /\ turns' = StaleTurns(a)

-----------------------------------------------------------------------------
InsertAssertion(a, c) ==
    /\ a = nextAssertion
    /\ a \in Ids
    /\ nextAssertion' = a + 1
    /\ PutVersion(a, "active", c)
    /\ UNCHANGED <<turns, conclusions>>

ReaffirmAssertion(a) ==
    /\ a \in Active
    /\ assertions[a].version < MaxVersion
    /\ PutVersion(a, "active", assertions[a].claim)
    /\ UNCHANGED <<turns, conclusions, nextAssertion>>

\* Mutant of CorrectAssertion: a tombstone can be corrected too.
CorrectAnyAssertion(a, c) ==
    /\ assertions[a].status # "absent"
    /\ assertions[a].version < MaxVersion + 1
    /\ PutVersion(a, "active", c)
    /\ MarkDependentsStale(a)
    /\ UNCHANGED nextAssertion

CorrectAssertion(a, c) ==
    /\ a \in Active
    /\ Kind[c] = Kind[assertions[a].claim]
    /\ assertions[a].version < MaxVersion
    /\ PutVersion(a, "active", c)
    /\ MarkDependentsStale(a)
    /\ UNCHANGED nextAssertion

RetractAssertion(a) ==
    /\ a \in Active
    /\ PutVersion(a, "retracted", assertions[a].claim)
    /\ MarkDependentsStale(a)
    /\ UNCHANGED nextAssertion

\* Mutant of ForgetAssertion: the links are removed before the dependents are
\* looked up, so nothing is marked.
ForgetUnlinkFirst(a) ==
    /\ a \in Ids
    /\ assertions[a].status # "absent"
    /\ assertions' = [assertions EXCEPT ![a] = NoRow]
    /\ history' = [history EXCEPT ![a] = <<>>]
    /\ conclusions' = [t \in TurnIds |-> [conclusions[t] EXCEPT !.deps = @ \ {a}]]
    /\ UNCHANGED <<turns, nextAssertion>>

\* Works on a tombstone too: only a missing row is refused.
ForgetAssertion(a) ==
    /\ a \in Ids
    /\ assertions[a].status # "absent"
    /\ assertions' = [assertions EXCEPT ![a] = NoRow]
    /\ history' = [history EXCEPT ![a] = <<>>]
    /\ turns' = StaleTurns(a)
    /\ conclusions' = [t \in TurnIds |->
            [StaleConclusions(a)[t] EXCEPT !.deps = @ \ {a}]]
    /\ UNCHANGED nextAssertion

\* record_turn and record_conclusion_tx: the links go to the cited assertions;
\* a turn that cites none gets no conclusion row.
RecordTurn(t, evidence) ==
    LET ids == {e.id : e \in evidence} \ {0}
    IN  /\ turns[t].status = "absent"
        /\ turns' = [turns EXCEPT
                        ![t] = [status |-> "fresh", evidence |-> evidence]]
        /\ conclusions' = [conclusions EXCEPT
                        ![t] = IF ids = {} THEN NoConclusion
                               ELSE [status |-> "valid", deps |-> ids]]
        /\ UNCHANGED <<assertions, history, nextAssertion>>

=============================================================================
