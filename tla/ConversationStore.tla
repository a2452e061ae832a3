-------------------------- MODULE ConversationStore -------------------------
(***************************************************************************)
(* The sessions of the chat service: the bounded ConversationStore in      *)
(* memory (src/conversation/store.rs), the rows behind it                  *)
(* (src/persistence/sessions.rs), and how a start of the service fills     *)
(* both, importing the legacy snapshots into a fresh database first        *)
(* (src/persistence/import.rs).  A turn is one step, as it holds the       *)
(* service lock; it may panic on its way.  A request that found its        *)
(* session may have to wait for that lock while the session is evicted.    *)
(* What a turn says, its stale mark (see ConversationService) and most of  *)
(* the working context are left out.                                       *)
(***************************************************************************)
EXTENDS Naturals, Sequences, FiniteSets

CONSTANTS
    Sessions,       \* the session ids
    NoTurn,         \* no turn at all
    MaxSessions,    \* the cap on sessions in memory (32)
    MaxTurnsKept,   \* the cap on the turns of a session in memory (256)
    LegacyFacts,    \* how many facts and rules the QA snapshot holds
    Snapshot,       \* the sessions of the legacy snapshot, in its order
    MaxTurns,       \* bound: turns ever submitted
    MaxStops,       \* bound: crashes and rejected imports
    MaxBackups      \* bound: backups taken

LegacyTurns == UNION {{Snapshot[k].turns[i] : i \in DOMAIN Snapshot[k].turns} :
                        k \in DOMAIN Snapshot}
TurnIds == (1 .. MaxTurns) \cup LegacyTurns

ASSUME StoreBounds ==
    /\ MaxSessions \in Nat \ {0}
    /\ MaxTurnsKept \in Nat \ {0}
    /\ LegacyFacts \in Nat
    /\ MaxTurns \in Nat
    /\ MaxStops \in Nat
    /\ MaxBackups \in Nat
    /\ NoTurn \notin TurnIds
    /\ LegacyTurns \cap (1 .. MaxTurns) = {}

\* Session ids and turn ids are unique in a snapshot.
ASSUME SnapshotIsSane ==
    /\ Snapshot \in Seq([id : Sessions, turns : Seq(LegacyTurns),
                         pending : LegacyTurns \cup {NoTurn}])
    /\ \A k, l \in DOMAIN Snapshot : Snapshot[k].id = Snapshot[l].id => k = l
    /\ \A k, l \in DOMAIN Snapshot :
        \A i \in DOMAIN Snapshot[k].turns, j \in DOMAIN Snapshot[l].turns :
            Snapshot[k].turns[i] = Snapshot[l].turns[j] => k = l /\ i = j

VARIABLES
    created,        \* the sessions with a row, in the order of created_at
    turns,          \* the turns of a session, by seq
    context,        \* the working_context column of a session
    meta,           \* the imports marked as done
    facts,          \* the assertions made of each legacy fact
    recent,         \* the sessions in memory, in their order
    view,           \* the turns and the pending clarification of each
    abandoned,      \* history: the sessions whose last turn panicked, since
                    \* memory was loaded; only a property reads it
    boot,           \* how far the start of the service is
    waiting,        \* the requests that wait for the service lock
    opened,         \* the session ids ever given out
    backup,         \* the backup file: the tables as they were
    nextTurn, stops, backups

rows == <<created, turns, context>>
tables == <<rows, meta, facts>>
memory == <<recent, view, abandoned>>
clients == <<waiting, opened, nextTurn>>
files == <<backup, backups>>
vars == <<tables, memory, boot, clients, files, stops>>

Entries(s) == {s[i] : i \in DOMAIN s}
LastOf(s, n) == SubSeq(s, IF Len(s) > n THEN Len(s) - n + 1 ELSE 1, Len(s))
Final(s) == s[Len(s)]

\* Of the working context: the pending clarification and the last result.
Context == [pending : TurnIds \cup {NoTurn}, last : TurnIds \cup {NoTurn}]
NoContext == [pending |-> NoTurn, last |-> NoTurn]
Shown == [turns : Seq(TurnIds), pending : TurnIds \cup {NoTurn}]
Empty == [turns |-> <<>>, pending |-> NoTurn]

\* item and next say which record of which snapshot entry comes next.
At(phase, item, next) == [phase |-> phase, item |-> item, next |-> next]
Down == At("down", 0, 0)
Request == [session : Sessions, turn : 1 .. MaxTurns]

TypeOK ==
    /\ created \in Seq(Sessions)
    /\ turns \in [Sessions -> Seq(TurnIds)]
    /\ context \in [Sessions -> Context]
    /\ meta \subseteq {"qa", "sessions"}
    /\ facts \in [1 .. LegacyFacts -> Nat]
    /\ recent \in Seq(Sessions)
    /\ view \in [Sessions -> Shown]
    /\ abandoned \subseteq Sessions
    /\ boot \in [phase : {"down", "qa", "sessions", "load", "up"},
                 item : Nat, next : Nat]
    /\ waiting \subseteq Request
    /\ opened \subseteq Sessions
    /\ nextTurn \in 1 .. MaxTurns + 1
    /\ stops \in 0 .. MaxStops
    /\ backups \in 0 .. MaxBackups
    /\ backup \in [created : Seq(Sessions), turns : [Sessions -> Seq(TurnIds)],
                   context : [Sessions -> Context],
                   meta : SUBSET {"qa", "sessions"},
                   facts : [1 .. LegacyFacts -> Nat]]
    /\ Len(recent) <= MaxSessions
    /\ \A s \in Sessions : Len(view[s].turns) <= MaxTurnsKept
    /\ \A s \in Sessions \ Entries(recent) : view[s] = Empty
    /\ \A i, j \in DOMAIN recent : recent[i] = recent[j] => i = j

-----------------------------------------------------------------------------
(* The start of the service: from_storage.                                 *)

SessionImport == IF "sessions" \in meta THEN At("load", 0, 0)
                 ELSE At("sessions", 1, 0)

Start ==
    /\ boot.phase = "down"
    /\ boot' = IF "qa" \in meta THEN SessionImport ELSE At("qa", 1, 0)
    /\ UNCHANGED <<tables, memory, clients, files, stops>>

\* import_qa_snapshot: one insert_assertion after another.
ImportFact ==
    /\ boot.phase = "qa" /\ boot.item <= LegacyFacts
    /\ facts' = [facts EXCEPT ![boot.item] = @ + 1]
    /\ boot' = [boot EXCEPT !.item = @ + 1]
    /\ UNCHANGED <<rows, meta, memory, clients, files, stops>>

\* Mutant of FactsImported: the marker may be written before the facts.
FactsBegun == boot.phase = "qa"

FactsImported == boot.phase = "qa" /\ boot.item > LegacyFacts

MarkFacts ==
    /\ FactsImported
    /\ meta' = meta \cup {"qa"}
    /\ boot' = SessionImport
    /\ UNCHANGED <<rows, facts, memory, clients, files, stops>>

\* The session import_sessions_snapshot is at.
Imported == Snapshot[boot.item]
ImportingSession == boot.phase = "sessions" /\ boot.item <= Len(Snapshot)

\* The first write of a session creates its row.
Upsert(s) ==
    created' = IF s \in Entries(created) THEN created ELSE Append(created, s)

ImportSession ==
    /\ ImportingSession /\ boot.next = 0
    /\ Upsert(Imported.id)
    /\ boot' = [boot EXCEPT !.next = 1]
    /\ UNCHANGED <<turns, context, meta, facts, memory, clients, files, stops>>

\* The id of a turn is the primary key of its row.
Recorded(t) == \E s \in Sessions : t \in Entries(turns[s])

ImportTurn ==
    /\ ImportingSession /\ boot.next \in DOMAIN Imported.turns
    /\ ~Recorded(Imported.turns[boot.next])
    /\ turns' = [turns EXCEPT ![Imported.id] = Append(@, Imported.turns[boot.next])]
    /\ boot' = [boot EXCEPT !.next = @ + 1]
    /\ UNCHANGED <<created, context, meta, facts, memory, clients, files, stops>>

\* The turn is there already, from an import that did not get to its marker:
\* the import fails, and with it the start.
ImportConflict ==
    /\ ImportingSession /\ boot.next \in DOMAIN Imported.turns
    /\ Recorded(Imported.turns[boot.next])
    /\ boot' = Down
    /\ UNCHANGED <<tables, memory, clients, files, stops>>

\* WorkingContext::reconstruct observes the turns from the newest to the
\* oldest, so the last result it ends with is the oldest one's.
Reconstruct(ts, pending) ==
    [pending |-> pending, last |-> IF ts = <<>> THEN NoTurn ELSE Head(ts)]

ImportContext ==
    /\ ImportingSession /\ boot.next = Len(Imported.turns) + 1
    /\ context' = [context EXCEPT
            ![Imported.id] = Reconstruct(Imported.turns, Imported.pending)]
    /\ boot' = At("sessions", boot.item + 1, 0)
    /\ UNCHANGED <<created, turns, meta, facts, memory, clients, files, stops>>

MarkSessions ==
    /\ boot.phase = "sessions" /\ boot.item > Len(Snapshot)
    /\ meta' = meta \cup {"sessions"}
    /\ boot' = At("load", 0, 0)
    /\ UNCHANGED <<rows, facts, memory, clients, files, stops>>

\* Mutant of LatestTurns: the oldest turns are read, not the newest.
OldestTurns(ts) ==
    SubSeq(ts, 1, IF Len(ts) < MaxTurnsKept THEN Len(ts) ELSE MaxTurnsKept)

\* load_turns.
LatestTurns(ts) == LastOf(ts, MaxTurnsKept)

\* load_store: the newest sessions of a database, and the newest turns of each.
Load(db) ==
    /\ recent' = LastOf(db.created, MaxSessions)
    /\ view' = [s \in Sessions |->
            IF s \in Entries(LastOf(db.created, MaxSessions))
            THEN [turns |-> LatestTurns(db.turns[s]),
                  pending |-> db.context[s].pending]
            ELSE Empty]
    /\ abandoned' = {}

Tables == [created |-> created, turns |-> turns, context |-> context,
           meta |-> meta, facts |-> facts]

Open ==
    /\ boot.phase = "load"
    /\ Load(Tables)
    /\ boot' = At("up", 0, 0)
    /\ UNCHANGED <<tables, clients, files, stops>>

-----------------------------------------------------------------------------
(* The service.                                                            *)

\* Mutant of Ensured: nothing is evicted.
EnsuredUncapped(s) == IF s \in Entries(recent) THEN recent ELSE Append(recent, s)

\* session_mut_or_create: a new session goes last, and the first one goes out
\* when there are too many.
Ensured(s) ==
    IF s \in Entries(recent) THEN recent
    ELSE LET q == Append(recent, s)
         IN  IF Len(q) > MaxSessions THEN Tail(q) ELSE q

ShowOnly(q, f) == view' = [s \in Sessions |-> IF s \in Entries(q) THEN f[s] ELSE Empty]

\* create_session: nothing is written to the database yet.
CreateSession(s) ==
    /\ boot.phase = "up"
    /\ s \notin opened
    /\ opened' = opened \cup {s}
    /\ recent' = Ensured(s)
    /\ ShowOnly(Ensured(s), view)
    /\ UNCHANGED <<tables, abandoned, boot, waiting, nextTurn, files, stops>>

\* submit_turn has seen the session in memory and now waits for its slot and
\* for the lock.
Submit(s) ==
    /\ boot.phase = "up"
    /\ s \in Entries(recent)
    /\ nextTurn <= MaxTurns
    /\ waiting' = waiting \cup {[session |-> s, turn |-> nextTurn]}
    /\ nextTurn' = nextTurn + 1
    /\ UNCHANGED <<tables, memory, boot, opened, files, stops>>

\* Mutants of RecordTurn: the context is left for a later write, or keeps the
\* pending question it was loaded with.
RecordTurnOnly(s, t, pending) ==
    /\ Upsert(s)
    /\ turns' = [turns EXCEPT ![s] = Append(@, t)]
    /\ UNCHANGED context
RecordOldPending(s, t, pending) ==
    /\ Upsert(s)
    /\ turns' = [turns EXCEPT ![s] = Append(@, t)]
    /\ context' = [context EXCEPT ![s].last = t]

\* record_turn: the turn and the context in one transaction.
RecordTurn(s, t, pending) ==
    /\ Upsert(s)
    /\ turns' = [turns EXCEPT ![s] = Append(@, t)]
    /\ context' = [context EXCEPT ![s] = [pending |-> pending, last |-> t]]

\* A turn that asks back leaves its question pending, every other one clears it.
Question(r, asks) == IF asks THEN r.turn ELSE NoTurn

\* handle_turn_with: the session is there again if it was evicted, but without
\* its turns and its question; the transaction may be rejected.
RunTurn(r, asks) ==
    LET s == r.session
        pending == Question(r, asks)
    IN  /\ boot.phase = "up"
        /\ recent' = Ensured(s)
        /\ ShowOnly(Ensured(s), [view EXCEPT
                ![s] = [turns |-> LatestTurns(Append(@.turns, r.turn)),
                        pending |-> pending]])
        /\ \/ RecordTurn(s, r.turn, pending)
           \/ UNCHANGED rows
        /\ abandoned' = abandoned \ {s}
        /\ waiting' = waiting \ {r}
        /\ UNCHANGED <<meta, facts, boot, opened, nextTurn, files, stops>>

\* A panic in the turn, behind ensure_session and ahead of record_turn: the
\* pending question may be that of the turn already.  The next request takes
\* the poisoned lock over with all of it.  (A panic between the two
\* record_turn calls leaves what a rejected transaction does.)
AbandonTurn(r, asks) ==
    LET s == r.session
    IN  /\ boot.phase = "up"
        /\ recent' = Ensured(s)
        /\ \E p \in {view[s].pending, Question(r, asks)} :
                ShowOnly(Ensured(s), [view EXCEPT ![s].pending = p])
        /\ abandoned' = abandoned \cup {s}
        /\ waiting' = waiting \ {r}
        /\ UNCHANGED <<tables, boot, opened, nextTurn, files, stops>>

Backup ==
    /\ boot.phase = "up"
    /\ backups < MaxBackups
    /\ backup' = Tables
    /\ backups' = backups + 1
    /\ UNCHANGED <<tables, memory, boot, clients, stops>>

\* The database becomes the backup, whole, and memory is loaded from it; the
\* requests that wait still have their turn.
Restore ==
    /\ boot.phase = "up"
    /\ backups > 0
    /\ created' = backup.created
    /\ turns' = backup.turns
    /\ context' = backup.context
    /\ meta' = backup.meta
    /\ facts' = backup.facts
    /\ Load(backup)
    /\ UNCHANGED <<boot, clients, files, stops>>

\* The process is killed, or a write of the import is rejected, which ends the
\* start with an error.
Stop ==
    /\ boot.phase # "down"
    /\ stops < MaxStops
    /\ stops' = stops + 1
    /\ boot' = Down
    /\ recent' = <<>>
    /\ view' = [s \in Sessions |-> Empty]
    /\ abandoned' = {}
    /\ waiting' = {}
    /\ UNCHANGED <<tables, opened, nextTurn, files>>

-----------------------------------------------------------------------------
Init ==
    /\ created = <<>>
    /\ turns = [s \in Sessions |-> <<>>]
    /\ context = [s \in Sessions |-> NoContext]
    /\ meta = {}
    /\ facts = [k \in 1 .. LegacyFacts |-> 0]
    /\ recent = <<>>
    /\ view = [s \in Sessions |-> Empty]
    /\ abandoned = {}
    /\ boot = Down
    /\ waiting = {}
    /\ opened = {Snapshot[k].id : k \in DOMAIN Snapshot}
    /\ backup = Tables
    /\ nextTurn = 1
    /\ stops = 0
    /\ backups = 0

Starting ==
    \/ Start \/ ImportFact \/ MarkFacts
    \/ ImportSession \/ ImportTurn \/ ImportConflict \/ ImportContext \/ MarkSessions
    \/ Open

Serving ==
    \/ \E s \in Sessions : CreateSession(s)
    \/ \E s \in Sessions : Submit(s)
    \/ \E r \in waiting, asks \in BOOLEAN : RunTurn(r, asks)
    \/ \E r \in waiting, asks \in BOOLEAN : AbandonTurn(r, asks)
    \/ Backup
    \/ Restore

Next == Starting \/ Serving \/ Stop

Spec == Init /\ [][Next]_vars

\* Somebody starts the service again, and a start goes on.
FairSpec == Spec /\ WF_vars(Starting)

-----------------------------------------------------------------------------
(* Properties.                                                             *)

\* What a session shows in memory is the end of what is stored for it: after a
\* turn that is stored it shows every later one, in the same order, whatever
\* was evicted, rejected by the database or reloaded in between.
ViewIsTheLatest ==
    \A s \in Entries(recent) :
        \A i \in DOMAIN view[s].turns, p \in DOMAIN turns[s] :
            view[s].turns[i] = turns[s][p] =>
                \A q \in p + 1 .. Len(turns[s]) :
                    \E j \in i + 1 .. Len(view[s].turns) :
                        view[s].turns[j] = turns[s][q]

\* While the last turn a session shows is stored, the question it waits to have
\* answered is the stored one: a restart asks the same as the running service.
\* A turn that panicked (service.rs:799-856, chat_server.rs:208) may have left
\* another, until the next turn of the session or the next load; but then it is
\* none, or one of a turn that was never stored, and never that of an older
\* stored turn.
PendingSurvivesRestart ==
    \A s \in Entries(recent) :
        view[s].turns # <<>> /\ Final(view[s].turns) \in Entries(turns[s])
            => \/ view[s].pending = context[s].pending
               \/ s \in abandoned /\ ~Recorded(view[s].pending)

\* The stored working context is that of the last stored turn: no rejected turn
\* and no restart leaves one without the other.
ContextFollowsTurns ==
    \A s \in Sessions :
        turns[s] # <<>> /\ Final(turns[s]) \notin LegacyTurns
            => context[s].last = Final(turns[s])

\* Once an import is marked as done, everything of its snapshot is in the
\* database, in its order and before the turns that came later, whatever crashes
\* the import went through.
ImportIsComplete ==
    /\ "qa" \in meta => \A k \in 1 .. LegacyFacts : facts[k] > 0
    /\ "sessions" \in meta =>
        \A k \in DOMAIN Snapshot :
            LET s == Snapshot[k].id
            IN  /\ s \in Entries(created)
                /\ Len(turns[s]) >= Len(Snapshot[k].turns)
                /\ \A i \in DOMAIN Snapshot[k].turns : turns[s][i] = Snapshot[k].turns[i]

-----------------------------------------------------------------------------
(* What the documents and comments say, and the code does not do.          *)

\* "On first open, a fresh database imports those files (tracked in meta so it
\* happens exactly once)" (import.rs:4): the import happens.
ImportHappens == <>("sessions" \in meta)

\* The same sentence: it happens once.
FactsAreImportedOnce == \A k \in 1 .. LegacyFacts : facts[k] <= 1

\* The working context "can always be reconstructed from the turns"
\* (sessions.rs:5).
ContextCanBeReconstructed ==
    \A s \in Sessions : turns[s] # <<>> /\ boot.phase = "up" =>
        context[s].last = Reconstruct(turns[s], context[s].pending).last

\* "A pending ambiguous reference is answered first" (service.rs:633): a turn
\* looks at the question its session has pending.
PendingQuestionIsSeen ==
    [][\A s \in Sessions :
        /\ turns'[s] # turns[s] /\ waiting' # waiting
        /\ turns[s] # <<>>
        /\ view[s].turns = <<>> \/ Final(turns[s]) \in Entries(view[s].turns)
        => view[s].pending = context[s].pending]_vars

=============================================================================
