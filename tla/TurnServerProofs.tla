-------------------------- MODULE TurnServerProofs --------------------------
(***************************************************************************)
(* Theorems about TurnServer for any finite set of requests, any number of *)
(* slots and any number of claims.                                         *)
(***************************************************************************)
EXTENDS TurnServer, TLAPS, FiniteSetTheorems

-----------------------------------------------------------------------------
(* Types.                                                                  *)

\* A claim about to be written is one of those left.
ClaimsAreLeft == \A r \in Requests : worker[r] = "cleared" => left[r] > 0

LEMMA TypesHoldInitially ==
    ASSUME Init
    PROVE  TypeOK /\ ClaimsAreLeft
BY ServerAssumption DEF Init, TypeOK, ClaimsAreLeft, Holding, Live, UnderLock

LEMMA TypesHoldAfterHandler ==
    ASSUME TypeOK, ClaimsAreLeft, NEW r \in Requests, HandlerStep(r)
    PROVE  TypeOK' /\ ClaimsAreLeft'
<1>1. CASE \E p \in {"checking", "queued", "refused"} :
              GoTo(r, p) /\ UNCHANGED free
  BY <1>1 DEF TypeOK, ClaimsAreLeft, GoTo, lessonVars
<1>2. CASE Admit(r)
  <2>1. free - 1 \in Nat
    BY <1>2 DEF Admit, TypeOK
  <2> QED
    BY <1>2, <2>1 DEF TypeOK, ClaimsAreLeft, Admit, AdmitWith, lessonVars,
                      Holding, Live
<1> QED  BY <1>1, <1>2 DEF HandlerStep, Submit, CheckSession, QueueTimeout, Leave

LEMMA TypesHoldAfterWorker ==
    ASSUME TypeOK, ClaimsAreLeft, NEW r \in Requests, WorkerStep(r) \/ Panic(r)
    PROVE  TypeOK' /\ ClaimsAreLeft'
<1> USE DEF TypeOK, ClaimsAreLeft, WorkerVarsBut, lessonVars, Holding, Live,
            UnderLock
<1>1. CASE TakeLock(r)
  BY <1>1 DEF TakeLock
<1>2. CASE Dispatch(r)
  BY <1>2, ServerAssumption DEF Dispatch, DispatchTo
<1>3. CASE ClearClaim(r)
  BY <1>3 DEF ClearClaim
<1>4. CASE PersistClaim(r)
  <2>1. left[r] > 0 /\ left[r] - 1 \in Nat /\ taught[r] + 1 \in Nat
    BY <1>4 DEF PersistClaim
  <2> QED  BY <1>4, <2>1 DEF PersistClaim
<1>5. CASE RejectClaim(r)
  <2>1. \A n \in {0, 1} : taught[r] + n \in Nat
    OBVIOUS
  <2> QED  BY <1>5, <2>1 DEF RejectClaim
<1>6. CASE SeeCancel(r)
  BY <1>6 DEF SeeCancel
<1>7. CASE Answer(r)
  BY <1>7 DEF Answer
<1>8. CASE Record(r)
  BY <1>8 DEF Record
<1>9. CASE SendDone(r)
  BY <1>9 DEF SendDone
<1>10. CASE Save(r)
  BY <1>10 DEF Save
<1>11. CASE DropGuard(r)
  BY <1>11 DEF DropGuard
<1>12. CASE DropPermit(r)
  BY <1>12 DEF DropPermit
<1>13. CASE DropSender(r)
  BY <1>13 DEF DropSender
<1>14. CASE Panic(r)
  BY <1>14 DEF Panic
<1> QED
  BY <1>1, <1>2, <1>3, <1>4, <1>5, <1>6, <1>7, <1>8, <1>9, <1>10, <1>11,
     <1>12, <1>13, <1>14 DEF WorkerStep

LEMMA TypesHoldAfterStream ==
    ASSUME TypeOK, ClaimsAreLeft, NEW r \in Requests, StreamStep(r) \/ Cancel(r)
    PROVE  TypeOK' /\ ClaimsAreLeft'
<1> USE DEF TypeOK, ClaimsAreLeft, StreamEnds, lessonVars
<1>1. CASE Deliver(r)
  BY <1>1 DEF Deliver
<1>2. CASE EndUnexpectedly(r)
  BY <1>2 DEF EndUnexpectedly
<1>3. CASE Deadline(r)
  BY <1>3 DEF Deadline
<1>4. CASE Disconnect(r)
  BY <1>4 DEF Disconnect
<1>5. CASE Cancel(r)
  BY <1>5 DEF Cancel
<1> QED  BY <1>1, <1>2, <1>3, <1>4, <1>5 DEF StreamStep

LEMMA TypesHoldAfterStep ==
    ASSUME TypeOK, ClaimsAreLeft, [Next]_vars
    PROVE  TypeOK' /\ ClaimsAreLeft'
<1>1. CASE UNCHANGED vars
  BY <1>1 DEF vars, lessonVars, TypeOK, ClaimsAreLeft
<1>2. ASSUME NEW r \in Requests,
             HandlerStep(r) \/ WorkerStep(r) \/ Panic(r) \/ StreamStep(r) \/ Cancel(r)
      PROVE  TypeOK' /\ ClaimsAreLeft'
  BY <1>2, TypesHoldAfterHandler, TypesHoldAfterWorker, TypesHoldAfterStream
<1> QED  BY <1>1, <1>2 DEF Next

LEMMA TypesAlwaysHold == Spec => [](TypeOK /\ ClaimsAreLeft)
<1>1. Init => TypeOK /\ ClaimsAreLeft
  BY TypesHoldInitially
<1>2. (TypeOK /\ ClaimsAreLeft) /\ [Next]_vars => (TypeOK /\ ClaimsAreLeft)'
  BY TypesHoldAfterStep
<1> QED  BY <1>1, <1>2, PTL DEF Spec

\* Every variable keeps to its type; the number of free permits and of claims
\* left never goes below zero.
THEOREM TypeCorrect == Spec => []TypeOK
BY TypesAlwaysHold, PTL

-----------------------------------------------------------------------------
(* Slots and the lock.  Five actions concern them; the others are quiet.   *)

Admitted == {r \in Requests : phase[r] = "admitted"}
Idle == {r \in Requests : worker[r] = "none"}
Quiet == UNCHANGED <<free, lock, Holders, Running, Admitted, Idle>>

LEMMA QuietSteps ==
    ASSUME TypeOK, NEW r \in Requests,
           \/ Submit(r) \/ CheckSession(r) \/ QueueTimeout(r) \/ Leave(r)
           \/ Dispatch(r) \/ ClearClaim(r) \/ PersistClaim(r) \/ RejectClaim(r)
           \/ SeeCancel(r) \/ Answer(r) \/ SendDone(r) \/ Save(r)
           \/ DropGuard(r) \/ DropSender(r) \/ StreamStep(r) \/ Cancel(r)
    PROVE  Quiet
<1> USE DEF Quiet, Holders, Running, Admitted, Idle, TypeOK
<1>1. CASE Submit(r) \/ CheckSession(r) \/ QueueTimeout(r) \/ Leave(r)
  <2>1. \E p \in {"checking", "queued", "refused"} :
            GoTo(r, p) /\ UNCHANGED free /\ phase[r] # "admitted"
    BY <1>1 DEF Submit, CheckSession, QueueTimeout, Leave
  <2> QED  BY <2>1 DEF GoTo
<1>2. CASE \/ Dispatch(r) \/ ClearClaim(r) \/ PersistClaim(r) \/ RejectClaim(r)
           \/ SeeCancel(r) \/ Answer(r)
  <2>1. \E p, q \in UnderLock : WorkerVarsBut(r, p, q) /\ UNCHANGED <<free, lock>>
    BY <1>2 DEF Dispatch, DispatchTo, ClearClaim, PersistClaim, RejectClaim,
                SeeCancel, Answer, UnderLock
  <2> QED  BY <2>1 DEF WorkerVarsBut, UnderLock, Holding, Live
<1>3. CASE SendDone(r) \/ Save(r) \/ DropGuard(r)
  <2>1. \E p, q \in {"recorded", "sent", "finished", "unlisted"} :
            WorkerVarsBut(r, p, q) /\ UNCHANGED <<free, lock>>
    BY <1>3 DEF SendDone, Save, DropGuard
  <2> QED  BY <2>1 DEF WorkerVarsBut, UnderLock, Holding, Live
<1>4. CASE DropSender(r)
  BY <1>4 DEF DropSender, WorkerVarsBut, UnderLock, Holding, Live
<1>5. CASE StreamStep(r) \/ Cancel(r)
  BY <1>5 DEF StreamStep, Deliver, EndUnexpectedly, Deadline, Disconnect,
              StreamEnds, Cancel
<1> QED  BY <1>1, <1>2, <1>3, <1>4, <1>5

LEMMA AdmitStep ==
    ASSUME TypeOK, SlotsAreConserved, NEW r \in Requests, Admit(r)
    PROVE  /\ r \notin Holders /\ Holders' = Holders \cup {r}
           /\ r \notin Admitted /\ Admitted' = Admitted \cup {r}
           /\ Idle' = Idle \ {r} /\ Running' = Running /\ lock' = lock
           /\ free > 0 /\ free' = free - 1
<1>1. worker[r] = "none"
  BY DEF Admit, AdmitWith, SlotsAreConserved
<1> QED
  BY <1>1 DEF Admit, AdmitWith, TypeOK, Holders, Admitted, Idle, Running,
              Holding, Live, UnderLock

LEMMA TakeLockStep ==
    ASSUME TypeOK, SlotsAreConserved, NEW r \in Requests, TakeLock(r)
    PROVE  /\ r \in Holders /\ lock = NoOne /\ lock' = r
           /\ Running' = {r}
           /\ UNCHANGED <<free, Holders, Admitted, Idle>>
BY DEF TakeLock, WorkerVarsBut, TypeOK, SlotsAreConserved, Holders, Admitted,
       Idle, Running, Holding, Live, UnderLock

\* Record and Panic both end the run of r under the lock.
LEMMA ReleaseLockStep ==
    ASSUME TypeOK, SlotsAreConserved, NEW r \in Requests, Record(r) \/ Panic(r)
    PROVE  /\ lock = r /\ lock' = NoOne
           /\ Running' = {}
           /\ UNCHANGED <<free, Holders, Admitted, Idle>>
<1>1. \E p \in UnderLock, q \in {"recorded", "finished"} :
          WorkerVarsBut(r, p, q) /\ lock' = NoOne /\ UNCHANGED free
  BY DEF Record, Panic, UnderLock
<1>2. r \in Running
  BY <1>1 DEF WorkerVarsBut, Running
<1>3. lock = r /\ Running = {r}
  BY <1>2 DEF SlotsAreConserved, TypeOK
<1>4. \A q \in Requests : q # r => worker[q] \notin UnderLock
  BY <1>3 DEF Running
<1> QED
  BY <1>1, <1>3, <1>4 DEF WorkerVarsBut, TypeOK, Holders, Admitted, Idle,
                          Running, Holding, Live, UnderLock

LEMMA DropPermitStep ==
    ASSUME TypeOK, SlotsAreConserved, NEW r \in Requests, DropPermit(r)
    PROVE  /\ r \in Holders /\ lock # r /\ free' = free + 1
           /\ Holders' = Holders \ {r}
           /\ UNCHANGED <<lock, Admitted, Idle, Running>>
<1>1. r \notin Running
  BY DEF DropPermit, WorkerVarsBut, Running, UnderLock
<1>2. lock # r
  BY <1>1, ServerAssumption DEF SlotsAreConserved
<1> QED
  BY <1>2 DEF DropPermit, WorkerVarsBut, TypeOK, Holders, Admitted, Idle,
              Running, Holding, Live, UnderLock

LEMMA HoldersAreFinite == IsFiniteSet(Holders) /\ Cardinality(Holders) \in Nat
<1>1. Holders \subseteq Requests
  BY DEF Holders
<1> QED  BY <1>1, ServerAssumption, FS_Subset, FS_CardinalityType

LEMMA SlotsAfterStep ==
    ASSUME TypeOK, TypeOK', SlotsAreConserved, [Next]_vars
    PROVE  SlotsAreConserved'
<1> DEFINE Parts == /\ free + Cardinality(Holders) = Slots
                    /\ Running = IF lock = NoOne THEN {} ELSE {lock}
                    /\ Requests \ Idle = Admitted
<1>1. SlotsAreConserved <=> Parts
  BY DEF SlotsAreConserved, Idle, Admitted
<1>2. SlotsAreConserved' <=> Parts'
  BY DEF SlotsAreConserved, Idle, Admitted
<1>3. CASE Quiet
  BY <1>1, <1>2, <1>3 DEF Quiet
<1>4. CASE UNCHANGED vars
  BY <1>4, <1>3 DEF vars, lessonVars, Quiet, Holders, Running, Admitted, Idle
<1>5. ASSUME NEW r \in Requests, Admit(r)
      PROVE  SlotsAreConserved'
  <2>1. Cardinality(Holders') = Cardinality(Holders) + 1
    BY <1>5, AdmitStep, HoldersAreFinite, FS_AddElement
  <2>2. r \in Idle
    BY <1>1, <1>5, AdmitStep
  <2>3. free' + Cardinality(Holders') = Slots
    BY <1>1, <1>5, <2>1, AdmitStep, HoldersAreFinite DEF TypeOK
  <2>4. Requests \ Idle' = Admitted'
    BY <1>1, <1>5, <2>2, AdmitStep
  <2> QED
    BY <1>1, <1>2, <1>5, <2>3, <2>4, AdmitStep
<1>6. ASSUME NEW r \in Requests, TakeLock(r)
      PROVE  SlotsAreConserved'
  BY <1>1, <1>2, <1>6, TakeLockStep, ServerAssumption
<1>7. ASSUME NEW r \in Requests, Record(r) \/ Panic(r)
      PROVE  SlotsAreConserved'
  BY <1>1, <1>2, <1>7, ReleaseLockStep
<1>8. ASSUME NEW r \in Requests, DropPermit(r)
      PROVE  SlotsAreConserved'
  <2>1. Cardinality(Holders') = Cardinality(Holders) - 1
    BY <1>8, DropPermitStep, HoldersAreFinite, FS_RemoveElement
  <2> QED
    BY <1>1, <1>2, <1>8, <2>1, DropPermitStep, HoldersAreFinite DEF TypeOK
<1> QED
  BY <1>3, <1>4, <1>5, <1>6, <1>7, <1>8, QuietSteps
     DEF Next, HandlerStep, WorkerStep

\* Permits are neither lost nor duplicated, however turns end, and one turn at
\* most runs under the lock (permit, _permit in submit_turn).
THEOREM SlotsStayConserved == Spec => []SlotsAreConserved
<1>1. Init => SlotsAreConserved
  <2>1. ASSUME Init PROVE Holders = {} /\ Running = {}
    BY <2>1 DEF Init, Holders, Running, Holding, Live, UnderLock
  <2> QED
    BY <2>1, FS_EmptySet, ServerAssumption DEF Init, SlotsAreConserved
<1>2. TypeOK /\ TypeOK' /\ SlotsAreConserved /\ [Next]_vars => SlotsAreConserved'
  BY SlotsAfterStep
<1> QED  BY <1>1, <1>2, TypeCorrect, PTL DEF Spec

-----------------------------------------------------------------------------
(* The server implements admission control.                                *)

LEMMA EveryStepIsAdmission ==
    ASSUME TypeOK, SlotsAreConserved, [Next]_vars
    PROVE  [Admission!Next]_(Admission!vars)
<1>1. CASE Quiet
  BY <1>1 DEF Quiet, Admission!vars, Admitted
<1>2. CASE UNCHANGED vars
  BY <1>2 DEF vars, Admission!vars, Holders
<1>3. ASSUME NEW r \in Requests, Admit(r)
      PROVE  Admission!Enter(r)
  <2>1. Cardinality(Holders) < Slots
    BY <1>3, AdmitStep, HoldersAreFinite DEF SlotsAreConserved, TypeOK
  <2> QED  BY <1>3, <2>1, AdmitStep DEF Admission!Enter, Admitted, Admission!Cardinality, Cardinality
<1>4. ASSUME NEW r \in Requests, TakeLock(r)
      PROVE  Admission!Own(r)
  BY <1>4, TakeLockStep DEF Admission!Own, Admitted
<1>5. ASSUME NEW r \in Requests, Record(r) \/ Panic(r)
      PROVE  Admission!Disown(r)
  BY <1>5, ReleaseLockStep DEF Admission!Disown, Admitted
<1>6. ASSUME NEW r \in Requests, DropPermit(r)
      PROVE  Admission!Exit(r)
  BY <1>6, DropPermitStep DEF Admission!Exit, Admitted
<1> QED
  BY <1>1, <1>2, <1>3, <1>4, <1>5, <1>6, QuietSteps
     DEF Next, HandlerStep, WorkerStep, Admission!Next

\* However turns are admitted, run, fail and are cancelled, at most Slots of
\* them are in the server, one of these in the service, each once.
THEOREM ServerImplementsAdmission == Spec => ImplementsAdmission
<1>1. Init => Admission!Init
  BY DEF Init, Admission!Init, Holders, Holding, Live, UnderLock
<1>2. TypeOK /\ SlotsAreConserved /\ [Next]_vars => [Admission!Next]_(Admission!vars)
  BY EveryStepIsAdmission
<1> QED
  BY <1>1, <1>2, TypeCorrect, SlotsStayConserved, PTL
     DEF Spec, ImplementsAdmission, Admission!Spec

-----------------------------------------------------------------------------
(* Entries of active_turns, and what the stream tells.                     *)

\* An entry lives from the admission until the guard is dropped.
EntriesMatch == active = {r \in Requests : worker[r] \in Live \cup {"finished"}}

\* Done is sent after the turn is recorded, and the channel closed when the
\* worker has given everything back.
EventsMatch ==
    \A r \in Requests :
        /\ worker[r] \in {"recorded", "sent"} => r \in recorded
        /\ chan[r] = "done" => r \in recorded
        /\ chan[r] = "closed" => worker[r] = "gone"
        /\ stream[r] = "delivered" => r \in recorded
        /\ stream[r] = "ended" => worker[r] = "gone"

LEMMA EntriesAfterStep ==
    ASSUME TypeOK, EntriesMatch, [Next]_vars
    PROVE  EntriesMatch'
<1> USE DEF TypeOK, EntriesMatch, Live, UnderLock
<1>1. CASE UNCHANGED vars
  BY <1>1 DEF vars
<1> SUFFICES ASSUME NEW r \in Requests,
                    \/ HandlerStep(r) \/ WorkerStep(r) \/ Panic(r)
                    \/ StreamStep(r) \/ Cancel(r)
             PROVE  EntriesMatch'
  BY <1>1 DEF Next
<1>2. CASE HandlerStep(r)
  <2>1. CASE Admit(r)
    BY <2>1 DEF Admit, AdmitWith
  <2> QED
    BY <1>2, <2>1 DEF HandlerStep, Submit, CheckSession, QueueTimeout, Leave, GoTo
<1>3. CASE DropGuard(r)
  BY <1>3 DEF DropGuard, WorkerVarsBut
<1>4. CASE DropPermit(r) \/ DropSender(r)
  BY <1>4 DEF DropPermit, DropSender, WorkerVarsBut
<1>5. CASE \/ TakeLock(r) \/ Dispatch(r) \/ ClearClaim(r) \/ PersistClaim(r)
           \/ RejectClaim(r) \/ SeeCancel(r) \/ Answer(r) \/ Record(r)
           \/ SendDone(r) \/ Save(r) \/ Panic(r)
  <2>1. \E p, q \in Live \cup {"finished"} : WorkerVarsBut(r, p, q) /\ UNCHANGED active
    BY <1>5 DEF TakeLock, Dispatch, DispatchTo, ClearClaim, PersistClaim,
                RejectClaim, SeeCancel, Answer, Record, SendDone, Save, Panic
  <2> QED  BY <2>1 DEF WorkerVarsBut
<1>6. CASE StreamStep(r) \/ Cancel(r)
  BY <1>6 DEF StreamStep, Deliver, EndUnexpectedly, Deadline, Disconnect,
              StreamEnds, Cancel
<1> QED  BY <1>2, <1>3, <1>4, <1>5, <1>6 DEF WorkerStep

LEMMA EventsAfterStep ==
    ASSUME TypeOK, SlotsAreConserved, EventsMatch, [Next]_vars
    PROVE  EventsMatch'
<1> USE DEF TypeOK, EventsMatch, UnderLock
<1>1. CASE UNCHANGED vars
  BY <1>1 DEF vars, lessonVars
<1> SUFFICES ASSUME NEW r \in Requests,
                    \/ HandlerStep(r) \/ WorkerStep(r) \/ Panic(r)
                    \/ StreamStep(r) \/ Cancel(r)
             PROVE  EventsMatch'
  BY <1>1 DEF Next
<1>2. CASE HandlerStep(r)
  <2>1. CASE Admit(r)
    <3>1. worker[r] = "none"
      BY <2>1 DEF Admit, AdmitWith, SlotsAreConserved
    <3> QED  BY <2>1, <3>1 DEF Admit, AdmitWith, lessonVars
  <2> QED
    BY <1>2, <2>1 DEF HandlerStep, Submit, CheckSession, QueueTimeout, Leave,
                      GoTo, lessonVars
<1>3. CASE Record(r)
  BY <1>3 DEF Record, WorkerVarsBut
<1>4. CASE SendDone(r)
  BY <1>4 DEF SendDone, WorkerVarsBut, lessonVars
<1>5. CASE DropSender(r)
  BY <1>5 DEF DropSender, WorkerVarsBut, lessonVars
<1>6. CASE \/ TakeLock(r) \/ Dispatch(r) \/ ClearClaim(r) \/ PersistClaim(r)
           \/ RejectClaim(r) \/ SeeCancel(r) \/ Answer(r) \/ Save(r)
           \/ DropGuard(r) \/ DropPermit(r) \/ Panic(r)
  <2>1. \E p \in UnderLock \cup {"waiting", "sent", "finished", "unlisted"},
           q \in UnderLock \cup {"finished", "unlisted", "released"} :
             WorkerVarsBut(r, p, q) /\ UNCHANGED <<recorded, chan>>
    BY <1>6 DEF TakeLock, Dispatch, DispatchTo, ClearClaim, PersistClaim,
                RejectClaim, SeeCancel, Answer, Save, DropGuard, DropPermit,
                Panic, lessonVars
  <2> QED  BY <2>1 DEF WorkerVarsBut
<1>7. CASE StreamStep(r) \/ Cancel(r)
  BY <1>7 DEF StreamStep, Deliver, EndUnexpectedly, Deadline, Disconnect,
              StreamEnds, Cancel, lessonVars
<1> QED  BY <1>2, <1>3, <1>4, <1>5, <1>6, <1>7 DEF WorkerStep

LEMMA EntriesAlwaysMatch == Spec => []EntriesMatch
<1>1. Init => EntriesMatch
  BY DEF Init, EntriesMatch, Live, UnderLock
<1>2. TypeOK /\ EntriesMatch /\ [Next]_vars => EntriesMatch'
  BY EntriesAfterStep
<1> QED  BY <1>1, <1>2, TypeCorrect, PTL DEF Spec

\* From its admission to its answer a turn can be cancelled, and no entry of
\* active_turns leaks (TurnGuard).
THEOREM LiveTurnsStayCancellable == Spec => []LiveTurnsCanBeCancelled
<1>1. EntriesMatch => LiveTurnsCanBeCancelled
  BY DEF EntriesMatch, LiveTurnsCanBeCancelled, Holders, Holding
<1> QED  BY <1>1, EntriesAlwaysMatch, PTL

\* The answer a client holds is in the history; a turn that ended unexpectedly
\* holds nothing of the server any more.
THEOREM LastEventsStayTrue == Spec => []LastEventsAreTrue
<1>1. Init => EventsMatch
  BY DEF Init, EventsMatch
<1>2. TypeOK /\ SlotsAreConserved /\ EventsMatch /\ [Next]_vars => EventsMatch'
  BY EventsAfterStep
<1>3. EntriesMatch /\ EventsMatch => LastEventsAreTrue
  BY DEF EntriesMatch, EventsMatch, LastEventsAreTrue, Holders, Holding, Live,
         UnderLock
<1> QED
  BY <1>1, <1>2, <1>3, TypeCorrect, SlotsStayConserved, EntriesAlwaysMatch, PTL
     DEF Spec

-----------------------------------------------------------------------------
(* Cancellation.                                                           *)

\* A turn that has not started has taught nothing.
Unstarted == {"none", "waiting", "interpreting"}
UnstartedTaughtNothing ==
    \A r \in Requests :
        worker[r] \in Unstarted => taught[r] = 0

\* What becomes of a turn cancelled in time, and of one cancelled when it had
\* taught n claims.
Harmless(r) ==
    flag[r] /\ taught[r] = 0 /\ worker[r] \notin {"running", "cleared"}
Bounded(r, n) ==
    /\ flag[r]
    /\ \/ taught[r] <= n
       \/ taught[r] = n + 1 /\ worker[r] # "cleared"

\* How a step changes what these formulas speak of: it writes the claim that
\* was cleared, or no claim at all, and then it clears none under the flag.
Writes(r) ==
    /\ worker[r] = "cleared" /\ worker'[r] \in {"running", "answering"}
    /\ taught'[r] = taught[r] + 1
WritesNothing(r) ==
    /\ taught'[r] = taught[r]
    /\ worker'[r] \in Unstarted => worker[r] \in Unstarted
    /\ flag[r] /\ worker'[r] \in {"running", "cleared"} => worker'[r] = worker[r]
CancelEffect(r) == (flag[r] => flag'[r]) /\ (Writes(r) \/ WritesNothing(r))

LEMMA CancelStep ==
    ASSUME TypeOK, SlotsAreConserved, NEW r \in Requests, [Next]_vars
    PROVE  CancelEffect(r)
<1> USE DEF TypeOK, CancelEffect, Writes, WritesNothing, Unstarted
<1>1. CASE UNCHANGED vars
  BY <1>1 DEF vars, lessonVars
<1> SUFFICES ASSUME NEW q \in Requests,
                    \/ HandlerStep(q) \/ WorkerStep(q) \/ Panic(q)
                    \/ StreamStep(q) \/ Cancel(q)
             PROVE  CancelEffect(r)
  BY <1>1 DEF Next
<1>2. CASE HandlerStep(q)
  <2>1. CASE Admit(q)
    <3>1. worker[q] = "none"
      BY <2>1 DEF Admit, AdmitWith, SlotsAreConserved
    <3> QED  BY <2>1, <3>1 DEF Admit, AdmitWith, lessonVars
  <2> QED
    BY <1>2, <2>1 DEF HandlerStep, Submit, CheckSession, QueueTimeout, Leave,
                      GoTo, lessonVars
<1>3. CASE PersistClaim(q)
  BY <1>3 DEF PersistClaim, WorkerVarsBut
<1>4. CASE TakeLock(q)
  BY <1>4 DEF TakeLock, WorkerVarsBut, lessonVars
<1>5. CASE Dispatch(q) \/ ClearClaim(q)
  BY <1>5 DEF Dispatch, DispatchTo, ClearClaim, WorkerVarsBut, lessonVars
<1>6. CASE RejectClaim(q)
  <2>1. /\ worker[q] = "cleared"
        /\ worker' = [worker EXCEPT ![q] = "answering"]
        /\ flag' = flag
        /\ \E n \in {0, 1} : taught' = [taught EXCEPT ![q] = @ + n]
    BY <1>6 DEF RejectClaim, WorkerVarsBut
  <2>2. \E n \in {0, 1} : taught'[q] = taught[q] + n
    BY <2>1
  <2>3. \A p \in Requests \ {q} : taught'[p] = taught[p] /\ worker'[p] = worker[p]
    BY <2>1
  <2> QED  BY <2>1, <2>2, <2>3
<1>7. CASE \/ SeeCancel(q) \/ Answer(q) \/ Record(q)
           \/ SendDone(q) \/ Save(q) \/ DropGuard(q) \/ DropPermit(q)
           \/ DropSender(q) \/ Panic(q)
  <2>1. \E p \in {"answering", "recorded", "sent", "finished", "unlisted",
                  "released", "gone"} :
            worker' = [worker EXCEPT ![q] = p] /\ UNCHANGED <<taught, flag>>
    BY <1>7 DEF SeeCancel, Answer, Record, SendDone, Save, DropGuard,
                DropPermit, DropSender, Panic, WorkerVarsBut, lessonVars
  <2> QED  BY <2>1
<1>8. CASE StreamStep(q) \/ Cancel(q)
  BY <1>8 DEF StreamStep, Deliver, EndUnexpectedly, Deadline, Disconnect,
              StreamEnds, Cancel, lessonVars
<1> QED  BY <1>2, <1>3, <1>4, <1>5, <1>6, <1>7, <1>8 DEF WorkerStep

LEMMA UnstartedAlwaysTaughtNothing == Spec => []UnstartedTaughtNothing
<1>1. Init => UnstartedTaughtNothing
  BY DEF Init, UnstartedTaughtNothing
<1>2. TypeOK /\ SlotsAreConserved /\ UnstartedTaughtNothing /\ [Next]_vars
        => UnstartedTaughtNothing'
  BY CancelStep DEF UnstartedTaughtNothing, CancelEffect, Writes, WritesNothing,
                    Unstarted
<1> QED  BY <1>1, <1>2, TypeCorrect, SlotsStayConserved, PTL DEF Spec

\* A turn whose flag was set before it had the lock teaches nothing
\* (handle_turn_with looks at the flag before it dispatches).
THEOREM CancelledInTimeStaysHarmless == Spec => CancelledInTimeTeachesNothing
<1> SUFFICES ASSUME NEW r \in Requests
             PROVE  Spec => [](CancelledBeforeStart(r) => [](taught[r] = 0))
  BY DEF CancelledInTimeTeachesNothing
<1>1. UnstartedTaughtNothing /\ CancelledBeforeStart(r) => Harmless(r)
  BY DEF UnstartedTaughtNothing, Unstarted, CancelledBeforeStart, Harmless
<1>2. TypeOK /\ SlotsAreConserved /\ Harmless(r) /\ [Next]_vars => Harmless(r)'
  BY CancelStep DEF Harmless, CancelEffect, Writes, WritesNothing
<1>3. Harmless(r) => taught[r] = 0
  BY DEF Harmless
<1> QED
  BY <1>1, <1>2, <1>3, TypeCorrect, SlotsStayConserved,
     UnstartedAlwaysTaughtNothing, PTL DEF Spec

\* After the flag is set a turn teaches at most the claim whose check it had
\* passed (run_teaching looks at the flag before every claim).
THEOREM OneClaimAfterCancelAtMost == Spec => OneClaimAfterCancel
<1> SUFFICES ASSUME NEW r \in Requests, NEW n \in 0 .. MaxClaims
             PROVE  Spec => []((flag[r] /\ taught[r] = n) => [](taught[r] <= n + 1))
  BY DEF OneClaimAfterCancel
<1>1. TypeOK => ((flag[r] /\ taught[r] = n) => Bounded(r, n))
  BY DEF Bounded
<1>2. TypeOK /\ SlotsAreConserved /\ Bounded(r, n) /\ [Next]_vars => Bounded(r, n)'
  <2> SUFFICES ASSUME TypeOK, SlotsAreConserved, Bounded(r, n), [Next]_vars
               PROVE  Bounded(r, n)'
    OBVIOUS
  <2>1. n \in Nat /\ taught[r] \in Nat
    BY ServerAssumption DEF TypeOK
  <2> QED  BY <2>1, CancelStep DEF Bounded, CancelEffect, Writes, WritesNothing
<1>3. TypeOK /\ Bounded(r, n) => taught[r] <= n + 1
  BY ServerAssumption DEF Bounded, TypeOK
<1> QED
  BY <1>1, <1>2, <1>3, TypeCorrect, SlotsStayConserved, PTL DEF Spec
=============================================================================
