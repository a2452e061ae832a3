------------------------------ MODULE TurnServer ------------------------------
(***************************************************************************)
(* Turns over HTTP (src/chat_server.rs, submit_turn and cancel_turn).      *)
(* Every request for a turn has three parties: the handler, which looks    *)
(* the session up and waits for a slot; the blocking worker, which runs    *)
(* ConversationService::handle_turn_with under the service lock; and the   *)
(* event stream the client reads, with its deadline.  They share the       *)
(* cancel flag, the entry of the turn in active_turns, and a channel.      *)
(*                                                                         *)
(* The service is abstracted to what the server can tell of it: the claims *)
(* a turn makes durable, the places where it looks at the cancel flag, and *)
(* the recording of the turn (see ConversationService for the rest).       *)
(***************************************************************************)
EXTENDS Integers, FiniteSets

CONSTANTS
    Requests,       \* requests to run a turn, each submitted once
    Slots,          \* max_concurrent_turns
    MaxClaims,      \* bound: claims one turn teaches
    NoOne           \* the service lock is free

ASSUME ServerAssumption ==
    /\ IsFiniteSet(Requests)
    /\ NoOne \notin Requests
    /\ Slots \in Nat \ {0}
    /\ MaxClaims \in Nat

VARIABLES
    phase,          \* phase[r]: how far the handler of r is
    free,           \* permits left in turn_slots
    active,         \* the turns in active_turns
    flag,           \* flag[r]: the cancel flag of r
    worker,         \* worker[r]: how far the blocking worker of r is
    left,           \* left[r]: claims the turn has yet to teach
    taught,         \* taught[r]: claims the turn made durable
    recorded,       \* the turns the service has recorded
    chan,           \* chan[r]: what the channel of r holds last
    stream,         \* stream[r]: what the client of r saw last
    lock            \* who runs a turn under the service lock

lessonVars == <<left, taught, recorded>>
vars == <<phase, free, active, flag, worker, lessonVars, chan, stream, lock>>

\* The worker owns the lock while it is in one of these places ...
UnderLock == {"interpreting", "running", "cleared", "answering"}
\* ... is cancellable in these, and owns its permit in these.
Live == {"waiting", "recorded", "sent"} \cup UnderLock
Holding == Live \cup {"finished", "unlisted"}

TypeOK ==
    /\ phase \in [Requests -> {"new", "checking", "queued", "refused", "admitted"}]
    /\ free \in Nat
    /\ active \subseteq Requests
    /\ flag \in [Requests -> BOOLEAN]
    /\ worker \in [Requests -> Holding \cup {"none", "released", "gone"}]
    /\ left \in [Requests -> Nat]
    /\ taught \in [Requests -> Nat]
    /\ recorded \subseteq Requests
    /\ chan \in [Requests -> {"empty", "done", "closed"}]
    /\ stream \in [Requests -> {"none", "open", "delivered", "timedOut",
                                "ended", "dropped"}]
    /\ lock \in Requests \cup {NoOne}

Holders == {r \in Requests : worker[r] \in Holding}
Running == {r \in Requests : worker[r] \in UnderLock}

Init ==
    /\ phase = [r \in Requests |-> "new"]
    /\ free = Slots
    /\ active = {}
    /\ flag = [r \in Requests |-> FALSE]
    /\ worker = [r \in Requests |-> "none"]
    /\ left = [r \in Requests |-> 0]
    /\ taught = [r \in Requests |-> 0]
    /\ recorded = {}
    /\ chan = [r \in Requests |-> "empty"]
    /\ stream = [r \in Requests |-> "none"]
    /\ lock = NoOne

-----------------------------------------------------------------------------
(* The handler, until the turn is admitted.                                *)

GoTo(r, p) ==
    /\ phase' = [phase EXCEPT ![r] = p]
    /\ UNCHANGED <<active, flag, worker, lessonVars, chan, stream, lock>>

\* A well-formed request; malformed ones are refused with no effect.
Submit(r) ==
    /\ phase[r] = "new"
    /\ GoTo(r, "checking") /\ UNCHANGED free

\* The session is looked up under the service lock, before any admission and
\* with no limit on the wait.
CheckSession(r) ==
    /\ phase[r] = "checking" /\ lock = NoOne
    /\ \E found \in BOOLEAN : GoTo(r, IF found THEN "queued" ELSE "refused")
    /\ UNCHANGED free

\* queue_wait_timeout, or a client that gave up before it was admitted.
QueueTimeout(r) ==
    /\ phase[r] = "queued"
    /\ GoTo(r, "refused") /\ UNCHANGED free

Leave(r) ==
    /\ phase[r] \in {"checking", "queued"}
    /\ GoTo(r, "refused") /\ UNCHANGED free

\* From the permit to the returned stream the handler does not wait: the turn
\* is registered, the channel opened, the worker spawned with n permits.
AdmitWith(r, n) ==
    /\ phase[r] = "queued"
    /\ phase' = [phase EXCEPT ![r] = "admitted"]
    /\ free' = free - n
    /\ active' = active \cup {r}
    /\ worker' = [worker EXCEPT ![r] = "waiting"]
    /\ stream' = [stream EXCEPT ![r] = "open"]
    /\ UNCHANGED <<flag, lessonVars, chan, lock>>

\* Mutants of Admit: no wait for a permit, and `let _ = permit`, which drops
\* the permit at once.
AdmitUnguarded(r) == AdmitWith(r, 1)
AdmitUnbound(r) == free > 0 /\ AdmitWith(r, 0)

Admit(r) == free > 0 /\ AdmitWith(r, 1)

-----------------------------------------------------------------------------
(* The blocking worker.                                                    *)

WorkerVarsBut(r, from, to) ==
    /\ worker[r] = from
    /\ worker' = [worker EXCEPT ![r] = to]
    /\ UNCHANGED <<phase, flag, stream>>

\* Mutant of TakeLock: `let _ = TurnGuard`, which removes the entry at once.
TakeLockUnlisted(r) ==
    /\ WorkerVarsBut(r, "waiting", "interpreting")
    /\ lock = NoOne
    /\ lock' = r
    /\ active' = active \ {r}
    /\ UNCHANGED <<free, lessonVars, chan>>

TakeLock(r) ==
    /\ WorkerVarsBut(r, "waiting", "interpreting")
    /\ lock = NoOne
    /\ lock' = r
    /\ UNCHANGED <<free, active, lessonVars, chan>>

DispatchTo(r) ==
    /\ \/ /\ WorkerVarsBut(r, "interpreting", "running")
          /\ \E n \in 0 .. MaxClaims : left' = [left EXCEPT ![r] = n]
       \/ /\ WorkerVarsBut(r, "interpreting", "cleared")
          /\ left' = [left EXCEPT ![r] = 1]
    /\ UNCHANGED <<free, active, taught, recorded, chan, lock>>

\* Mutant of Dispatch: the flag is not looked at.
DispatchUnchecked(r) == DispatchTo(r)

\* handle_turn_with looks at the flag before it dispatches.  Then a lesson of
\* n claims or a question (n = 0) runs, or a correction, which looks at the
\* flag no more.
Dispatch(r) == ~ flag[r] /\ DispatchTo(r)

\* Mutant of ClearClaim: the flag is not looked at.
ClearClaimUnchecked(r) ==
    /\ left[r] > 0
    /\ WorkerVarsBut(r, "running", "cleared")
    /\ UNCHANGED <<free, active, lessonVars, chan, lock>>

\* Before every claim of a lesson the flag is looked at; the claim is written
\* afterwards.
ClearClaim(r) ==
    /\ left[r] > 0 /\ ~ flag[r]
    /\ WorkerVarsBut(r, "running", "cleared")
    /\ UNCHANGED <<free, active, lessonVars, chan, lock>>

PersistClaim(r) ==
    /\ WorkerVarsBut(r, "cleared", "running")
    /\ left' = [left EXCEPT ![r] = @ - 1]
    /\ taught' = [taught EXCEPT ![r] = @ + 1]
    /\ UNCHANGED <<free, active, recorded, chan, lock>>

\* The storage reports an error: the lesson ends with what it has taught, this
\* claim included if only the read after its commit failed.
RejectClaim(r) ==
    /\ WorkerVarsBut(r, "cleared", "answering")
    /\ left' = [left EXCEPT ![r] = 0]
    /\ \E n \in {0, 1} : taught' = [taught EXCEPT ![r] = @ + n]
    /\ UNCHANGED <<free, active, recorded, chan, lock>>

\* The flag seen at the dispatch, before a claim, or between two stages of a
\* question.
SeeCancel(r) ==
    /\ flag[r]
    /\ \/ WorkerVarsBut(r, "interpreting", "answering")
       \/ /\ left[r] > 0 \/ taught[r] = 0
          /\ WorkerVarsBut(r, "running", "answering")
    /\ left' = [left EXCEPT ![r] = 0]
    /\ UNCHANGED <<free, active, taught, recorded, chan, lock>>

Answer(r) ==
    /\ left[r] = 0
    /\ WorkerVarsBut(r, "running", "answering")
    /\ UNCHANGED <<free, active, lessonVars, chan, lock>>

\* The turn is recorded, whatever its outcome, and the lock released.
Record(r) ==
    /\ WorkerVarsBut(r, "answering", "recorded")
    /\ recorded' = recorded \cup {r}
    /\ lock' = NoOne
    /\ UNCHANGED <<free, active, left, taught, chan>>

SendDone(r) ==
    /\ WorkerVarsBut(r, "recorded", "sent")
    /\ chan' = [chan EXCEPT ![r] = "done"]
    /\ UNCHANGED <<free, active, lessonVars, lock>>

\* save() takes the service lock once more, for the checkpoint alone; an error
\* is only logged.
Save(r) ==
    /\ lock = NoOne
    /\ WorkerVarsBut(r, "sent", "finished")
    /\ UNCHANGED <<free, active, lessonVars, chan, lock>>

\* Mutants of Panic: the poisoned lock is never taken again, and the sender is
\* dropped with the call instead of with the closure.
PanicKeepsLock(r) ==
    /\ worker[r] \in UnderLock
    /\ WorkerVarsBut(r, worker[r], "finished")
    /\ UNCHANGED <<free, active, lessonVars, chan, lock>>
PanicDropsSender(r) ==
    /\ worker[r] \in UnderLock
    /\ WorkerVarsBut(r, worker[r], "finished")
    /\ lock' = NoOne
    /\ chan' = [chan EXCEPT ![r] = "closed"]
    /\ UNCHANGED <<free, active, lessonVars>>

\* A panic in the service.  The lock is released (lock_service ignores the
\* poison) and Done is never sent.
Panic(r) ==
    /\ worker[r] \in UnderLock
    /\ WorkerVarsBut(r, worker[r], "finished")
    /\ lock' = NoOne
    /\ UNCHANGED <<free, active, lessonVars, chan>>

\* The closure is dropped: its guard, then its permit, then its sender.
DropGuard(r) ==
    /\ WorkerVarsBut(r, "finished", "unlisted")
    /\ active' = active \ {r}
    /\ UNCHANGED <<free, lessonVars, chan, lock>>

DropPermit(r) ==
    /\ WorkerVarsBut(r, "unlisted", "released")
    /\ free' = free + 1
    /\ UNCHANGED <<active, lessonVars, chan, lock>>

DropSender(r) ==
    /\ WorkerVarsBut(r, "released", "gone")
    /\ chan' = [chan EXCEPT ![r] = IF @ = "done" THEN @ ELSE "closed"]
    /\ UNCHANGED <<free, active, lessonVars, lock>>

-----------------------------------------------------------------------------
(* The event stream, and requests to cancel.                               *)

StreamEnds(r, s) ==
    /\ stream[r] = "open"
    /\ stream' = [stream EXCEPT ![r] = s]
    /\ UNCHANGED <<phase, free, active, worker, lessonVars, chan, lock>>

Deliver(r) ==
    /\ chan[r] = "done"
    /\ StreamEnds(r, "delivered") /\ UNCHANGED flag

\* The sender is gone and no Done was sent: "turn ended unexpectedly".
EndUnexpectedly(r) ==
    /\ chan[r] = "closed"
    /\ StreamEnds(r, "ended") /\ UNCHANGED flag

\* turn_timeout, from the admission on; select! may prefer it to a Done that
\* is ready.
Deadline(r) ==
    /\ StreamEnds(r, "timedOut")
    /\ flag' = [flag EXCEPT ![r] = TRUE]

\* The client goes away: the CancelGuard of the stream is dropped armed.
Disconnect(r) ==
    /\ StreamEnds(r, "dropped")
    /\ flag' = [flag EXCEPT ![r] = TRUE]

\* cancel_turn: true, and the flag set, exactly when the turn is active.
Cancel(r) ==
    /\ r \in active
    /\ flag' = [flag EXCEPT ![r] = TRUE]
    /\ UNCHANGED <<phase, free, active, worker, lessonVars, chan, stream, lock>>

-----------------------------------------------------------------------------

HandlerStep(r) ==
    \/ Submit(r) \/ CheckSession(r) \/ QueueTimeout(r) \/ Leave(r) \/ Admit(r)

WorkerStep(r) ==
    \/ TakeLock(r) \/ Dispatch(r) \/ ClearClaim(r) \/ PersistClaim(r)
    \/ RejectClaim(r) \/ SeeCancel(r) \/ Answer(r) \/ Record(r)
    \/ SendDone(r) \/ Save(r)
    \/ DropGuard(r) \/ DropPermit(r) \/ DropSender(r)

StreamStep(r) ==
    \/ Deliver(r) \/ EndUnexpectedly(r) \/ Deadline(r) \/ Disconnect(r)

Next ==
    \E r \in Requests :
        HandlerStep(r) \/ WorkerStep(r) \/ Panic(r) \/ StreamStep(r) \/ Cancel(r)

Spec == Init /\ [][Next]_vars

\* The runtime polls ready handlers and streams and gives every worker a
\* thread.  No one has to submit, leave, cancel or panic, and no timeout has
\* to fire.  std's lock and tokio's semaphore let in every waiter when no
\* new one overtakes it for ever, and a request comes once.
FairSpec ==
    /\ Spec
    /\ \A r \in Requests :
        /\ WF_vars(CheckSession(r))
        /\ WF_vars(Admit(r))
        /\ WF_vars(WorkerStep(r))
        /\ WF_vars(Deliver(r) \/ EndUnexpectedly(r))

-----------------------------------------------------------------------------
(* Safety.                                                                 *)

\* Every permit is in the semaphore or with one worker, whether the turn
\* completes, panics, times out, is cancelled or loses its client (permit,
\* _permit, submit_turn); and only an admitted worker runs under the lock.
SlotsAreConserved ==
    /\ free + Cardinality(Holders) = Slots
    /\ Running = IF lock = NoOne THEN {} ELSE {lock}
    /\ \A r \in Requests : worker[r] = "none" <=> phase[r] # "admitted"

\* A turn can be cancelled from its admission until its answer was sent, and an
\* entry of active_turns never outlives the slot of its turn (TurnGuard).
LiveTurnsCanBeCancelled ==
    /\ \A r \in Requests : worker[r] \in Live => r \in active
    /\ active \subseteq Holders

\* What ends a stream is true of the turn: an answer the client got is in the
\* history, and after "turn ended unexpectedly" neither the slot nor the entry
\* of the turn is still taken, so the client may try again at once.
LastEventsAreTrue ==
    \A r \in Requests :
        /\ stream[r] = "delivered" => r \in recorded
        /\ stream[r] = "ended" => r \notin active \cup Holders

\* A turn cancelled, timed out or left by its client before it has the lock
\* teaches nothing, ever.
CancelledBeforeStart(r) == worker[r] \in {"none", "waiting"} /\ flag[r]
CancelledInTimeTeachesNothing ==
    \A r \in Requests : [](CancelledBeforeStart(r) => [](taught[r] = 0))

\* Once the flag is set, at most the claim already past its check is taught.
OneClaimAfterCancel ==
    \A r \in Requests, n \in 0 .. MaxClaims :
        []((flag[r] /\ taught[r] = n) => [](taught[r] <= n + 1))

-----------------------------------------------------------------------------
(* The server implements admission control.                                *)

Admission == INSTANCE AdmissionControl
    WITH users <- Holders,
         served <- {r \in Requests : phase[r] = "admitted"},
         owner <- lock

\* Seen from its slots and its lock, the server is AdmissionControl.
ImplementsAdmission == Admission!Spec

-----------------------------------------------------------------------------
(* Liveness.                                                               *)

\* Every request comes to an end: it is refused, or its stream ends and its
\* worker gives back lock, entry and slot.
Settled(r) ==
    \/ phase[r] = "refused"
    \/ worker[r] = "gone" /\ stream[r] # "open" /\ r \notin active
EveryRequestSettles ==
    \A r \in Requests : phase[r] = "checking" ~> Settled(r)

-----------------------------------------------------------------------------
(* Statements of comments and tests that the code does not keep.           *)

\* "Waiting requests time out rather than piling up behind the service lock":
\* no more requests wait for a lock that is taken than there are slots.  (The
\* threads left behind by clients that gave up are not even counted.)
LockWaiters ==
    {r \in Requests : phase[r] = "checking" \/ worker[r] \in {"waiting", "sent"}}
WaitersAreBounded == lock # NoOne => Cardinality(LockWaiters) <= Slots

\* "cancel reports false for finished turns": a turn whose answer the client
\* holds is no longer in active_turns.
FinishedTurnsCannotBeCancelled ==
    \A r \in Requests : stream[r] = "delivered" => r \notin active
=============================================================================
