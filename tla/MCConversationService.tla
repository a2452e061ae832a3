----------------------- MODULE MCConversationService -----------------------
(***************************************************************************)
(* A small instance of ConversationService for TLC.  The claims: raise and *)
(* cut contradict each other, RAISE is raise in another spelling, which    *)
(* the engine cannot tell from raise, and chain is a rule.                 *)
(***************************************************************************)
EXTENDS ConversationService

CONSTANTS raise, cut, RAISE, chain

MCKind == [c \in Claims |-> IF c = chain THEN "rule" ELSE "fact"]
MCNorm == [c \in Claims |-> IF c = RAISE THEN raise ELSE c]
MCContradicts ==
    ({raise, RAISE} \X {cut} \cup {cut} \X {raise, RAISE}) \cap (Claims \X Claims)

\* Single facts and rules, and two lessons of a pair.
MCLessons ==
    {<<c>> : c \in Claims}
        \cup ({<<raise, cut>>, <<raise, chain>>} \cap (Claims \X Claims))
=============================================================================
