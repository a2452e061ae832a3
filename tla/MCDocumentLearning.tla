-------------------------- MODULE MCDocumentLearning --------------------------
(***************************************************************************)
(* A small instance of DocumentLearning for TLC: two documents propose the *)
(* same fact, each after an item that the extraction rejected; RAISE is    *)
(* another spelling of the fact, to which it can be corrected.             *)
(***************************************************************************)
EXTENDS DocumentLearning, TLC

CONSTANTS raise, RAISE, d1, d2

MCKind == [c \in Claims |-> "fact"]
MCNorm == [c \in Claims |-> raise]
MCLessons == {<<raise>>}
MCProposals == [d \in Documents |-> <<NoClaim, raise>>]

Symmetry == Permutations(Documents)
=============================================================================
