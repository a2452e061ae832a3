-------------------------------- MODULE Operator --------------------------------
(***************************************************************************)
(* The operator's commands of src/operator.rs, as src/bin/machine.rs runs  *)
(* them, and the migrations of src/persistence/db.rs.  A command is a      *)
(* process: it plans an upgrade, copies the database file to a backup,     *)
(* opens and migrates it, verifies it, or copies a backup over it; the     *)
(* server opens the same file, migrates it too, and writes to it.  No lock *)
(* keeps two of them apart, and each may end, killed or by an error, after *)
(* any of its steps.                                                       *)
(*                                                                         *)
(* A database file is its user_version, the migrations whose tables it     *)
(* has, and the lessons it stores.  A copy made by SQLite's backup API     *)
(* appears in its target as one step; opening a target creates it, empty.  *)
(* Files are never damaged: every integrity check succeeds.                *)
(***************************************************************************)
EXTENDS Integers

CONSTANTS
    Procs,              \* processes that can run at the same time
    Lessons,            \* what the server may be taught
    Absent,             \* no file; no backup
    Schema,             \* SCHEMA_VERSION of this build
    Newest,             \* the schema of a later build that may have run
    MaxSeconds,         \* bound: seconds the clock can show when a backup begins
    Before,             \* whether a backup is named by hand, before the others
    After               \* ... or after them, in the order of names

ASSUME OperatorAssumption ==
    /\ Schema \in Nat \ {0}
    /\ Newest \in Nat /\ Newest >= Schema
    /\ MaxSeconds \in Nat \ {0}
    /\ Before \in BOOLEAN /\ After \in BOOLEAN

\* The names of backup files, in their order; an upgrade's is the second it is,
\* by a clock that may be set back.
Seconds == 1..MaxSeconds
Names == 0..MaxSeconds + 1
ManualNames == {n \in Names : (n = 0 /\ Before) \/ (n = MaxSeconds + 1 /\ After)}

\* torn is history: a migration was applied over a file that a restore, or a
\* later build, had changed since its version was read.
Files == [schema : 0..Newest, done : SUBSET (1..Newest), lessons : SUBSET Lessons,
          torn : BOOLEAN]

ASSUME AbsentAssumption == Absent \notin Files /\ Absent \notin Names

VARIABLES
    db,                 \* the database file, or Absent
    backups,            \* backups[n]: the file of that name in backup_dir
    proc,               \* proc[p]: the command that p runs and where it is
    latest              \* history: the name of the last backup that was completed

vars == <<db, backups, proc, latest>>

-----------------------------------------------------------------------------

Empty == [schema |-> 0, done |-> {}, lessons |-> {}, torn |-> FALSE]

\* Opening a path for writing creates the file.
Created(f) == IF f = Absent THEN Empty ELSE f

\* compatible(): there is no file, or one this build can read.
Compatible(f) == f # Absent => f.schema =< Schema

Commands == {"none", "upgrade", "start", "setup", "backup", "restore", "recover"}

\* name: the backup written or read.  next: the migration to apply.  seen and
\* overrun are history: the lessons stored when the upgrade was planned and not
\* taken by a restore since; whether the file changed hands since it was opened.
Idle == [at |-> "idle", cmd |-> "none", name |-> Absent, next |-> 1,
         seen |-> {}, overrun |-> FALSE]

Goto(p, r) == proc' = [proc EXCEPT ![p] = r]

Leave(p) == Goto(p, Idle)

\* Places in which a command has the database open.
Opened == {"migrating", "verifying", "serving"}

\* Another hand replaces the file under every process but p.
Overrun(ps, f) ==
    [q \in Procs |->
        [ps[q] EXCEPT !.seen = @ \cap f.lessons, !.overrun = @ \/ ps[q].at \in Opened]]

Init ==
    /\ db \in {Absent} \cup
         [schema : 1..Newest, done : SUBSET (1..Newest), lessons : SUBSET Lessons,
          torn : {FALSE}]
    /\ db # Absent => db.done = 1..db.schema
    /\ backups = [n \in Names |-> Absent]
    /\ proc = [p \in Procs |-> Idle]
    /\ latest = Absent

-----------------------------------------------------------------------------
(* Backups: machine backup, and the first half of machine upgrade.         *)

\* A database that is newer than this build is refused here.
PlanUpgrade(p) ==
    /\ proc[p].at = "idle"
    /\ Compatible(db)
    /\ Goto(p, [Idle EXCEPT !.at = "planned", !.cmd = "upgrade",
                            !.seen = Created(db).lessons])
    /\ UNCHANGED <<db, backups, latest>>

(* Mutant of OpenTarget: the target is removed first. *)
OpenFreshTarget(p, cmd, n) ==
    /\ db # Absent
    /\ backups' = [backups EXCEPT ![n] = Empty]
    /\ Goto(p, [proc[p] EXCEPT !.at = "copying", !.cmd = cmd, !.name = n])
    /\ UNCHANGED <<db, latest>>

\* backup_database opens its target; a target that exists is kept until the copy.
OpenTarget(p, cmd, n) ==
    /\ db # Absent
    /\ backups' = [backups EXCEPT ![n] = Created(@)]
    /\ Goto(p, [proc[p] EXCEPT !.at = "copying", !.cmd = cmd, !.name = n])
    /\ UNCHANGED <<db, latest>>

BackupBeforeUpgrade(p) ==
    /\ proc[p].at = "planned"
    /\ \E n \in Seconds : OpenTarget(p, "upgrade", n)

\* There is nothing to back up.
SkipBackup(p) ==
    /\ proc[p].at = "planned"
    /\ db = Absent
    /\ Goto(p, [proc[p] EXCEPT !.at = "ready"])
    /\ UNCHANGED <<db, backups, latest>>

\* The schema is not looked at: a newer database can be backed up.
BackUp(p) ==
    /\ proc[p].at = "idle"
    /\ \E n \in ManualNames : OpenTarget(p, "backup", n)

CopyToTarget(p) ==
    /\ proc[p].at = "copying"
    /\ backups' = [backups EXCEPT ![proc[p].name] = db]
    /\ latest' = proc[p].name
    /\ IF proc[p].cmd = "upgrade"
         THEN Goto(p, [proc[p] EXCEPT !.at = "ready"])
         ELSE Leave(p)
    /\ UNCHANGED db

-----------------------------------------------------------------------------
(* Opening the database: with_database, by machine upgrade, setup, start.  *)

\* setup and start take no backup.
Begin(p) ==
    /\ proc[p].at = "idle"
    /\ \E cmd \in {"start", "setup"} :
         Goto(p, [proc[p] EXCEPT !.at = "ready", !.cmd = cmd])
    /\ UNCHANGED <<db, backups, latest>>

(* Mutant of OpenDatabase: a newer database is not refused. *)
OpenAnyDatabase(p) ==
    /\ proc[p].at = "ready"
    /\ db' = Created(db)
    /\ Goto(p, [proc[p] EXCEPT !.at = "migrating",
                            !.next = Created(db).schema + 1, !.overrun = FALSE])
    /\ UNCHANGED <<backups, latest>>

\* migrate() reads user_version once, before its transactions.
OpenDatabase(p) ==
    /\ proc[p].at = "ready"
    /\ Compatible(db)
    /\ db' = Created(db)
    /\ Goto(p, [proc[p] EXCEPT !.at = "migrating",
                            !.next = Created(db).schema + 1, !.overrun = FALSE])
    /\ UNCHANGED <<backups, latest>>

RefuseNewer(p) ==
    /\ proc[p].at = "ready"
    /\ ~Compatible(db)
    /\ Leave(p)
    /\ UNCHANGED <<db, backups, latest>>

Applied(p) ==
    [db EXCEPT !.schema = proc[p].next, !.done = @ \cup {proc[p].next},
               !.torn = @ \/ proc[p].overrun]

(* Mutant of Migrate: CREATE TABLE IF NOT EXISTS. *)
MigrateIfMissing(p) ==
    /\ proc[p].at = "migrating"
    /\ proc[p].next =< Schema
    /\ db' = Applied(p)
    /\ Goto(p, [proc[p] EXCEPT !.next = @ + 1])
    /\ UNCHANGED <<backups, latest>>

\* CREATE TABLE fails, and with it the command, when another process was here.
Migrate(p) ==
    /\ proc[p].at = "migrating"
    /\ proc[p].next =< Schema
    /\ IF proc[p].next \in db.done
         THEN /\ Leave(p)
              /\ UNCHANGED db
         ELSE /\ db' = Applied(p)
              /\ Goto(p, [proc[p] EXCEPT !.next = @ + 1])
    /\ UNCHANGED <<backups, latest>>

\* The engine and the sessions are loaded, from tables of the first migration.
Load(p) ==
    /\ proc[p].at = "migrating"
    /\ proc[p].next > Schema
    /\ \/ /\ 1 \in db.done /\ proc[p].cmd = "start"
          /\ Goto(p, [proc[p] EXCEPT !.at = "serving", !.next = 1])
       \/ /\ 1 \in db.done /\ proc[p].cmd = "upgrade"
          /\ Goto(p, [proc[p] EXCEPT !.at = "verifying", !.next = 1])
       \/ /\ 1 \notin db.done \/ proc[p].cmd = "setup"
          /\ Leave(p)
    /\ UNCHANGED <<db, backups, latest>>

\* The verdict is printed; either way nothing else is done.
Verify(p) ==
    /\ proc[p].at = "verifying"
    /\ Leave(p)
    /\ UNCHANGED <<db, backups, latest>>

\* A turn of the server's; without its table the write is rejected.
Teach(p) ==
    /\ proc[p].at = "serving"
    /\ 1 \in db.done
    /\ \E l \in Lessons \ db.lessons : db' = [db EXCEPT !.lessons = @ \cup {l}]
    /\ UNCHANGED <<backups, proc, latest>>

-----------------------------------------------------------------------------
(* machine restore and machine recover.                                    *)

Existing == {n \in Names : backups[n] # Absent}

\* restore_database checks the backup, and opens its destination.
ChooseBackup(p, cmd, n) ==
    /\ backups[n] # Absent
    /\ Compatible(backups[n])
    /\ db' = Created(db)
    /\ Goto(p, [proc[p] EXCEPT !.at = "chosen", !.cmd = cmd, !.name = n])
    /\ UNCHANGED <<backups, latest>>

Restore(p) ==
    /\ proc[p].at = "idle"
    /\ \E n \in Existing : ChooseBackup(p, "restore", n)

\* latest_backup: the last file by name.
Recover(p) ==
    /\ proc[p].at = "idle"
    /\ \E n \in Existing :
         /\ \A k \in Existing : k =< n
         /\ ChooseBackup(p, "recover", n)

\* The destination is not migrated.
CopyBackup(p) ==
    /\ proc[p].at = "chosen"
    /\ db' = backups[proc[p].name]
    /\ proc' = [Overrun(proc, backups[proc[p].name]) EXCEPT ![p] = Idle]
    /\ UNCHANGED <<backups, latest>>

-----------------------------------------------------------------------------

\* The process is killed, or a step fails and the command gives up.
Stop(p) ==
    /\ proc[p].at # "idle"
    /\ Leave(p)
    /\ UNCHANGED <<db, backups, latest>>

\* A later build opens the database, and applies its own migrations.
NewerBuild ==
    /\ db # Absent
    /\ db.schema < Newest
    /\ db.done \cap (db.schema + 1)..Newest = {}
    /\ db' = [db EXCEPT !.schema = Newest, !.done = @ \cup (db.schema + 1)..Newest]
    /\ proc' = Overrun(proc, db)
    /\ UNCHANGED <<backups, latest>>

\* What a command does once it has begun.
Command(p) ==
    \/ BackupBeforeUpgrade(p) \/ SkipBackup(p) \/ CopyToTarget(p)
    \/ OpenDatabase(p) \/ RefuseNewer(p) \/ Migrate(p) \/ Load(p) \/ Verify(p)
    \/ CopyBackup(p)

Next ==
    \/ \E p \in Procs :
         \/ PlanUpgrade(p) \/ BackUp(p) \/ Begin(p) \/ Restore(p) \/ Recover(p)
         \/ Command(p) \/ Teach(p) \/ Stop(p)
    \/ NewerBuild

Spec == Init /\ [][Next]_vars

\* A process that has begun a command goes on with it unless it is stopped.
FairSpec == Spec /\ \A p \in Procs : WF_vars(Command(p))

-----------------------------------------------------------------------------
(* Properties.                                                             *)

Places == {"idle", "planned", "copying", "ready", "migrating", "verifying", "serving",
           "chosen"}

(* Type invariant: the database and the backups are files, and a process   *)
(* that is copying or has chosen a backup names it.                        *)
TypeOK ==
    /\ db \in Files \cup {Absent}
    /\ backups \in [Names -> Files \cup {Absent}]
    /\ proc \in [Procs -> [at : Places, cmd : Commands, name : Names \cup {Absent},
                           next : 1..Newest + 1, seen : SUBSET Lessons,
                           overrun : BOOLEAN]]
    /\ latest \in Names \cup {Absent}
    /\ \A p \in Procs :
         /\ proc[p].at \in {"copying", "chosen"} =>
               proc[p].name \in Names /\ backups[proc[p].name] # Absent
         /\ proc[p].at \in {"copying", "migrating", "verifying", "serving"} => db # Absent

(* Migrations are applied in order and each exactly once, so a file has    *)
(* the tables its version says, the database and every backup, though two  *)
(* processes may migrate at once, each from a version it read before its   *)
(* transactions (Database::migrate, db.rs:76), and any may stop half way.  *)
(* Excepted are files migrated under a restore.                            *)
Exact(f) == f # Absent => f.torn \/ f.done = 1..f.schema

MigrationsAreExact == Exact(db) /\ \A n \in Names : Exact(backups[n])

(* The server, and an upgrade that verifies, run on a database of their    *)
(* schema with all its tables: a newer one was refused, an older one       *)
(* migrated (db.rs:82, 88), until a restore or a later build changes the   *)
(* file under them.                                                        *)
ServersRunOnTheirSchema ==
    \A p \in Procs :
        proc[p].at \in {"serving", "verifying"} /\ ~proc[p].overrun /\ ~db.torn =>
            db.schema = Schema /\ db.done = 1..Schema

(* While an upgrade migrates and verifies, the backup it names holds every *)
(* lesson that was stored when it was planned (run_upgrade, operator.rs    *)
(* 1622), though another upgrade of the same second writes to the same     *)
(* file; lessons a restore took away in between are no longer its to keep. *)
UpgradeKeepsAWayBack ==
    \A p \in Procs :
        /\ proc[p].cmd = "upgrade"
        /\ proc[p].at \in {"ready", "migrating", "verifying"}
        /\ proc[p].name # Absent
        => /\ backups[proc[p].name] # Absent
           /\ proc[p].seen \subseteq backups[proc[p].name].lessons

(* machine recover restores the most recent backup (docs/DEVELOPMENT.md    *)
(* 955), the one completed last.  It does not hold: latest_backup takes    *)
(* the last name (operator.rs:1673), and a backup that was cut short is an *)
(* empty database, which passes for intact.                                *)
RecoverTakesTheMostRecent ==
    [][\A p \in Procs :
          /\ proc[p].at = "chosen" /\ proc[p].cmd = "recover"
          /\ db' # db
          => proc[p].name = latest]_vars

(* A database is never opened for migration without a pre-upgrade backup   *)
(* (docs/DEVELOPMENT.md:957-959).  It does not hold: machine start and     *)
(* machine setup migrate what they find (operator.rs:1713).                *)
MigrationsAreBackedUp ==
    [][\A p \in Procs :
          db # Absent /\ db.schema > 0 /\ proc'[p].next = proc[p].next + 1 =>
              proc[p].name # Absent]_vars

(* Migrations are applied in order (db.rs:3-5).  It does not hold when a   *)
(* backup of an older schema is restored between the reading of the        *)
(* version and the transaction (db.rs:80, 91).                             *)
MigrationsAreInOrder == db # Absent => db.done = 1..db.schema
=============================================================================
