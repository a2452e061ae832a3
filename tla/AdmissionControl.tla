--------------------------- MODULE AdmissionControl ---------------------------
(***************************************************************************)
(* What the server promises of its turns: at most Slots of them use the    *)
(* server at a time, one of these owns the service, and a request is       *)
(* served at most once.  How a turn waits, runs, fails or is cancelled is  *)
(* left open.  TurnServer implements it.                                   *)
(***************************************************************************)
EXTENDS Naturals, FiniteSets

CONSTANTS Requests, Slots, NoOne

VARIABLES
    users,          \* the requests whose turn holds a slot
    served,         \* the requests admitted so far
    owner           \* the turn that runs in the service

vars == <<users, served, owner>>

Init == users = {} /\ served = {} /\ owner = NoOne

Enter(r) ==
    /\ r \notin served
    /\ Cardinality(users) < Slots
    /\ users' = users \cup {r}
    /\ served' = served \cup {r}
    /\ UNCHANGED owner

Own(r) ==
    /\ r \in users /\ owner = NoOne
    /\ owner' = r
    /\ UNCHANGED <<users, served>>

Disown(r) ==
    /\ owner = r
    /\ owner' = NoOne
    /\ UNCHANGED <<users, served>>

\* A slot is given back only by a turn that does not own the service.
Exit(r) ==
    /\ r \in users /\ owner # r
    /\ users' = users \ {r}
    /\ UNCHANGED <<served, owner>>

Next == \E r \in Requests : Enter(r) \/ Own(r) \/ Disown(r) \/ Exit(r)

Spec == Init /\ [][Next]_vars
=============================================================================
