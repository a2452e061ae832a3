---------------------------- MODULE MCHiveBroker ----------------------------
(***************************************************************************)
(* A small instance of HiveBroker for TLC: two views that disagree.        *)
(***************************************************************************)
EXTENDS HiveBroker, TLC

CONSTANTS a1, a2, c1, c2

MCRank == a1 :> 1 @@ a2 :> 2

\* One cohort for all, or two between which the agents may move.
OneRole == [a \in Agents |-> {0}]
BothRoles == [a \in Agents |-> Cohorts]

MCViews == {0, 1}

\* The first agent changes its mind.
MCOutlook == a1 :> {0, 1} @@ a2 :> {0}

MCSimilarity == [p \in MCViews \X MCViews |-> IF p[1] = p[2] THEN 100 ELSE 40]

\* Both bits of a tie: the older view wins.
MCBundle(S) == Min(S)

Symmetry == Permutations(Conns)
=============================================================================
