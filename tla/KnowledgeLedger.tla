-------------------------- MODULE KnowledgeLedger --------------------------
(***************************************************************************)
(* What the knowledge memory promises, with no database, engine or lock:   *)
(* a set of claims in force, each held by an assertion, and answers that   *)
(* are current exactly as long as nothing they rest on was changed.        *)
(* ConversationService implements this (Ledger there).                     *)
(***************************************************************************)
CONSTANTS Assertions, Claims, Answers

VARIABLES
    inForce,    \* the <<assertion, claim>> pairs in force
    answer,     \* answer[t]: none, current or outdated
    basis,      \* the pairs answer t rests on
    saved       \* a copy of all of the above one can go back to

ledgerVars == <<inForce, answer, basis, saved>>

Copy == [inForce |-> inForce, answer |-> answer, basis |-> basis]

LedgerInit ==
    /\ inForce = {}
    /\ answer = [t \in Answers |-> "none"]
    /\ basis = [t \in Answers |-> {}]
    /\ saved = Copy

\* The answers that rest on what assertion a says.
RestOn(a) == {t \in Answers : answer[t] # "none" /\ \E p \in basis[t] : p[1] = a}

Outdate(a) ==
    /\ answer' = [t \in Answers |-> IF t \in RestOn(a) THEN "outdated" ELSE answer[t]]
    /\ UNCHANGED <<basis, saved>>

\* An assertion enters with its first claim.
Assert(a, c) ==
    /\ \A p \in inForce : p[1] # a
    /\ inForce' = inForce \cup {<<a, c>>}
    /\ UNCHANGED <<answer, basis, saved>>

\* Its claim is replaced, and every answer that rests on it is outdated in
\* the same step.
Revise(a, c) ==
    /\ \E p \in inForce : p[1] = a
    /\ inForce' = {p \in inForce : p[1] # a} \cup {<<a, c>>}
    /\ Outdate(a)

Withdraw(a) ==
    /\ \E p \in inForce : p[1] = a
    /\ inForce' = {p \in inForce : p[1] # a}
    /\ Outdate(a)

\* An answer is given from claims in force only.
Give(t, S) ==
    /\ answer[t] = "none"
    /\ S \subseteq inForce
    /\ answer' = [answer EXCEPT ![t] = "current"]
    /\ basis' = [basis EXCEPT ![t] = S]
    /\ UNCHANGED <<inForce, saved>>

Save ==
    /\ saved' = Copy
    /\ UNCHANGED <<inForce, answer, basis>>

GoBack ==
    /\ inForce' = saved.inForce
    /\ answer' = saved.answer
    /\ basis' = saved.basis
    /\ UNCHANGED saved

LedgerNext ==
    \/ \E a \in Assertions, c \in Claims : Assert(a, c) \/ Revise(a, c)
    \/ \E a \in Assertions : Withdraw(a)
    \/ \E t \in Answers : \E S \in SUBSET inForce : Give(t, S)
    \/ Save
    \/ GoBack

LedgerSpec == LedgerInit /\ [][LedgerNext]_ledgerVars
=============================================================================
