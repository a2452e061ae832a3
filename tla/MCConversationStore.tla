------------------------- MODULE MCConversationStore ------------------------
(***************************************************************************)
(* A small instance of ConversationStore for TLC: a snapshot with one      *)
(* session of two turns, the second of which asked back.                   *)
(***************************************************************************)
EXTENDS ConversationStore

CONSTANTS s1, s2, s3, l1, l2

MCSnapshot == <<[id |-> s1, turns |-> <<l1, l2>>, pending |-> l2]>>
=============================================================================
