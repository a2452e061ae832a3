---------------------------- MODULE OperatorProofs ----------------------------
(***************************************************************************)
(* Migrations stay exact, servers run on their schema and an upgrade has a *)
(* way back, for any number of processes and any schema.                   *)
(***************************************************************************)
EXTENDS Operator, TLAPS

Records ==
    [at : Places, cmd : Commands, name : Names \cup {Absent}, next : 1..Newest + 1,
     seen : SUBSET Lessons, overrun : BOOLEAN]

LEMMA CreatedIsAFile ==
    ASSUME NEW f \in Files \cup {Absent}
    PROVE  /\ Created(f) \in Files /\ Created(f) # Absent
           /\ f # Absent => Created(f) = f
           /\ Created(f) = f \/ Created(f) = Empty
<1>1. Empty \in Files
  BY OperatorAssumption DEF Empty, Files
<1>2. Absent \notin Files
  BY AbsentAssumption
<1> QED  BY <1>1, <1>2 DEF Created

LEMMA IdleIsTyped == Idle \in Records
BY OperatorAssumption DEF Idle, Records, Places, Commands

\* A file that changes hands takes nothing else from the processes.
LEMMA OverrunIsTyped ==
    ASSUME NEW ps \in [Procs -> Records], NEW f \in Files
    PROVE  /\ Overrun(ps, f) \in [Procs -> Records]
           /\ \A q \in Procs :
                /\ Overrun(ps, f)[q].at = ps[q].at
                /\ Overrun(ps, f)[q].cmd = ps[q].cmd
                /\ Overrun(ps, f)[q].name = ps[q].name
                /\ Overrun(ps, f)[q].next = ps[q].next
                /\ Overrun(ps, f)[q].seen = ps[q].seen \cap f.lessons
                /\ Overrun(ps, f)[q].overrun = (ps[q].overrun \/ ps[q].at \in Opened)
<1>1. ASSUME NEW q \in Procs
      PROVE  /\ Overrun(ps, f)[q] \in Records
             /\ Overrun(ps, f)[q].at = ps[q].at
             /\ Overrun(ps, f)[q].cmd = ps[q].cmd
             /\ Overrun(ps, f)[q].name = ps[q].name
             /\ Overrun(ps, f)[q].next = ps[q].next
             /\ Overrun(ps, f)[q].seen = ps[q].seen \cap f.lessons
             /\ Overrun(ps, f)[q].overrun = (ps[q].overrun \/ ps[q].at \in Opened)
  BY DEF Overrun, Records, Opened
<1>2. DOMAIN Overrun(ps, f) = Procs
  BY DEF Overrun
<1> QED  BY <1>1, <1>2 DEF Overrun

-----------------------------------------------------------------------------

\* A process that is where its command reads or writes a file has that file.
HasItsFiles(p) ==
    /\ proc[p].at \in {"copying", "chosen"} =>
          proc[p].name \in Names /\ backups[proc[p].name] # Absent
    /\ proc[p].at \in {"copying", "migrating", "verifying", "serving"} => db # Absent

LEMMA TypesInParts ==
    TypeOK <=> /\ db \in Files \cup {Absent}
               /\ backups \in [Names -> Files \cup {Absent}]
               /\ proc \in [Procs -> Records]
               /\ latest \in Names \cup {Absent}
               /\ \A p \in Procs : HasItsFiles(p)
BY DEF TypeOK, Records, HasItsFiles

LEMMA GotoIsTyped ==
    ASSUME proc \in [Procs -> Records], NEW p \in Procs, NEW r \in Records, Goto(p, r)
    PROVE  /\ proc' \in [Procs -> Records]
           /\ proc'[p] = r
           /\ \A q \in Procs : q # p => proc'[q] = proc[q]
BY DEF Goto

\* A step of p that leaves no process without its files keeps the types.
LEMMA StepIsTyped ==
    ASSUME TypeOK, NEW p \in Procs, NEW r \in Records, Goto(p, r),
           db' \in Files \cup {Absent}, db # Absent => db' # Absent,
           backups' \in [Names -> Files \cup {Absent}],
           \A n \in Names : backups[n] # Absent => backups'[n] # Absent,
           latest' \in Names \cup {Absent},
           r.at \in {"copying", "chosen"} => r.name \in Names /\ backups'[r.name] # Absent,
           r.at \in {"copying", "migrating", "verifying", "serving"} => db' # Absent
    PROVE  TypeOK'
<1>1. /\ proc' \in [Procs -> Records] /\ proc'[p] = r
      /\ \A q \in Procs : q # p => proc'[q] = proc[q]
  BY GotoIsTyped, TypesInParts
<1>2. \A q \in Procs : HasItsFiles(q)'
  BY <1>1, TypesInParts DEF HasItsFiles
<1> QED  BY <1>1, <1>2 DEF TypeOK, Records, HasItsFiles

\* The steps that change a process only.
LEMMA MovesKeepTypes ==
    ASSUME TypeOK, NEW p \in Procs,
           PlanUpgrade(p) \/ SkipBackup(p) \/ Begin(p) \/ RefuseNewer(p) \/ Load(p)
              \/ Verify(p) \/ Stop(p)
    PROVE  TypeOK'
<1>1. /\ proc[p] \in Records /\ Idle \in Records /\ HasItsFiles(p)
      /\ db \in Files \cup {Absent} /\ backups \in [Names -> Files \cup {Absent}]
      /\ latest \in Names \cup {Absent}
  BY TypesInParts, IdleIsTyped
<1>2. CASE PlanUpgrade(p)
  <2> DEFINE r == [Idle EXCEPT !.at = "planned", !.cmd = "upgrade",
                               !.seen = Created(db).lessons]
  <2>1. Created(db).lessons \subseteq Lessons
    BY <1>1, CreatedIsAFile DEF Files
  <2>2. r \in Records /\ r.at = "planned"
    BY <1>1, <2>1 DEF Records, Places, Commands
  <2>3. Goto(p, r) /\ UNCHANGED <<db, backups, latest>>
    BY <1>2 DEF PlanUpgrade
  <2> QED  BY <1>1, <2>2, <2>3, StepIsTyped
<1>3. CASE SkipBackup(p)
  <2> DEFINE r == [proc[p] EXCEPT !.at = "ready"]
  <2>1. r \in Records /\ r.at = "ready"
    BY <1>1 DEF Records, Places
  <2> QED  BY <1>1, <1>3, <2>1, StepIsTyped DEF SkipBackup
<1>4. CASE Begin(p)
  <2>1. PICK cmd \in {"start", "setup"} :
            Goto(p, [proc[p] EXCEPT !.at = "ready", !.cmd = cmd])
    BY <1>4 DEF Begin
  <2> DEFINE r == [proc[p] EXCEPT !.at = "ready", !.cmd = cmd]
  <2>2. r \in Records /\ r.at = "ready"
    BY <1>1 DEF Records, Places, Commands
  <2> QED  BY <1>1, <1>4, <2>1, <2>2, StepIsTyped DEF Begin
<1>5. CASE Load(p) /\ ~Leave(p)
  <2>1. PICK place \in {"serving", "verifying"} :
            Goto(p, [proc[p] EXCEPT !.at = place, !.next = 1])
    BY <1>5 DEF Load
  <2> DEFINE r == [proc[p] EXCEPT !.at = place, !.next = 1]
  <2>2. 1 \in 1..Newest + 1
    BY OperatorAssumption
  <2>3. r \in Records /\ r.at = place
    BY <1>1, <2>2 DEF Records, Places
  <2>4. db # Absent
    BY <1>1, <1>5 DEF Load, HasItsFiles
  <2> QED  BY <1>1, <1>5, <2>1, <2>3, <2>4, StepIsTyped DEF Load
<1>6. CASE Leave(p)
  <2>1. UNCHANGED <<db, backups, latest>>
    BY DEF PlanUpgrade, SkipBackup, Begin, RefuseNewer, Load, Verify, Stop
  <2>2. Idle.at = "idle"
    BY DEF Idle
  <2> QED  BY <1>1, <1>6, <2>1, <2>2, StepIsTyped DEF Leave
<1> QED  BY <1>2, <1>3, <1>4, <1>5, <1>6 DEF RefuseNewer, Verify, Stop

\* The steps that write a backup.
LEMMA BackupsKeepTypes ==
    ASSUME TypeOK, NEW p \in Procs, BackupBeforeUpgrade(p) \/ BackUp(p) \/ CopyToTarget(p)
    PROVE  TypeOK'
<1>1. /\ proc[p] \in Records /\ Idle \in Records /\ HasItsFiles(p)
      /\ db \in Files \cup {Absent} /\ backups \in [Names -> Files \cup {Absent}]
      /\ latest \in Names \cup {Absent}
  BY TypesInParts, IdleIsTyped
<1>2. ASSUME NEW cmd \in {"upgrade", "backup"}, NEW n \in Names, OpenTarget(p, cmd, n)
      PROVE  TypeOK'
  <2> DEFINE r == [proc[p] EXCEPT !.at = "copying", !.cmd = cmd, !.name = n]
  <2>1. r \in Records /\ r.at = "copying" /\ r.name = n
    BY <1>1 DEF Records, Places, Commands
  <2>2. Created(backups[n]) \in Files /\ Created(backups[n]) # Absent
    BY <1>1, CreatedIsAFile
  <2>3. backups' = [backups EXCEPT ![n] = Created(backups[n])]
    BY <1>2 DEF OpenTarget
  <2>4. /\ backups' \in [Names -> Files \cup {Absent}]
        /\ backups'[n] # Absent
        /\ \A k \in Names : backups[k] # Absent => backups'[k] # Absent
    BY <1>1, <2>2, <2>3
  <2> QED  BY <1>1, <1>2, <2>1, <2>4, StepIsTyped DEF OpenTarget
<1>3. CASE CopyToTarget(p)
  <2> DEFINE n == proc[p].name
  <2>1. n \in Names /\ db \in Files /\ db # Absent
    BY <1>1, <1>3 DEF CopyToTarget, HasItsFiles
  <2>2. /\ backups' \in [Names -> Files \cup {Absent}]
        /\ \A k \in Names : backups[k] # Absent => backups'[k] # Absent
    BY <1>1, <1>3, <2>1 DEF CopyToTarget
  <2>3. PICK r \in {Idle, [proc[p] EXCEPT !.at = "ready"]} : Goto(p, r)
    BY <1>3 DEF CopyToTarget, Leave
  <2>4. [proc[p] EXCEPT !.at = "ready"] \in Records
    BY <1>1 DEF Records, Places
  <2>5. /\ Idle.at = "idle"
        /\ [proc[p] EXCEPT !.at = "ready"].at = "ready"
    BY <1>1 DEF Idle, Records
  <2>6. r \in Records /\ r.at \in {"idle", "ready"}
    BY <1>1, <2>3, <2>4, <2>5
  <2> QED  BY <1>1, <1>3, <2>1, <2>2, <2>3, <2>6, StepIsTyped DEF CopyToTarget
<1>4. Seconds \subseteq Names /\ ManualNames \subseteq Names
  BY OperatorAssumption DEF Seconds, Names, ManualNames
<1> QED  BY <1>2, <1>3, <1>4 DEF BackupBeforeUpgrade, BackUp

\* The steps that write the database.
LEMMA OpenKeepsTypes ==
    ASSUME TypeOK, NEW p \in Procs, OpenDatabase(p)
    PROVE  TypeOK'
<1> DEFINE r == [proc[p] EXCEPT !.at = "migrating", !.next = Created(db).schema + 1,
                                !.overrun = FALSE]
<1>1. /\ proc[p] \in Records
      /\ backups \in [Names -> Files \cup {Absent}] /\ latest \in Names \cup {Absent}
      /\ Created(db) \in Files /\ Created(db) # Absent
  BY TypesInParts, CreatedIsAFile
<1>2. Created(db).schema + 1 \in 1..Newest + 1
  BY <1>1, OperatorAssumption DEF Files
<1>3. r \in Records /\ r.at = "migrating"
  BY <1>1, <1>2 DEF Records, Places
<1> QED  BY <1>1, <1>3, StepIsTyped DEF OpenDatabase

LEMMA AppliedIs ==
    ASSUME db \in Files, NEW p \in Procs, proc[p] \in Records, proc[p].next \in 1..Newest
    PROVE  /\ Applied(p) \in Files
           /\ Applied(p).schema = proc[p].next
           /\ Applied(p).done = db.done \cup {proc[p].next}
           /\ Applied(p).lessons = db.lessons
           /\ Applied(p).torn = (db.torn \/ proc[p].overrun)
<1> DEFINE t == db.torn \/ proc[p].overrun
<1>1. t \in BOOLEAN
  OBVIOUS
<1>2. Applied(p) = [db EXCEPT !.schema = proc[p].next, !.done = @ \cup {proc[p].next},
                              !.torn = t]
  BY DEF Applied
<1> HIDE DEF t
<1>3. proc[p].next \in 0..Newest
  OBVIOUS
<1>4. /\ Applied(p) \in Files
      /\ Applied(p).schema = proc[p].next
      /\ Applied(p).done = db.done \cup {proc[p].next}
      /\ Applied(p).lessons = db.lessons
      /\ Applied(p).torn = t
  BY <1>1, <1>2, <1>3 DEF Files
<1> QED  BY <1>4 DEF t

LEMMA MigrateKeepsTypes ==
    ASSUME TypeOK, NEW p \in Procs, Migrate(p)
    PROVE  TypeOK'
<1>1. /\ proc[p] \in Records /\ Idle \in Records
      /\ backups \in [Names -> Files \cup {Absent}] /\ latest \in Names \cup {Absent}
      /\ db \in Files /\ db # Absent
  BY TypesInParts, IdleIsTyped DEF HasItsFiles, Migrate
<1>2. CASE proc[p].next \in db.done
  <2>1. Goto(p, Idle) /\ Idle.at = "idle" /\ UNCHANGED <<db, backups, latest>>
    BY <1>2 DEF Migrate, Leave, Idle
  <2> QED  BY <1>1, <2>1, StepIsTyped
<1>3. CASE proc[p].next \notin db.done
  <2> DEFINE r == [proc[p] EXCEPT !.next = @ + 1]
  <2>1. proc[p].next \in 1..Newest + 1 /\ proc[p].next =< Schema
    BY <1>1 DEF Records, Migrate
  <2>2. proc[p].next \in 1..Newest /\ proc[p].next + 1 \in 1..Newest + 1
    BY <2>1, OperatorAssumption
  <2>3. r \in Records /\ r.at = "migrating"
    BY <1>1, <2>2 DEF Records, Migrate
  <2>4. Applied(p) \in Files
    BY <1>1, <2>2, AppliedIs
  <2>5. Applied(p) # Absent
    BY <2>4, AbsentAssumption
  <2> QED  BY <1>1, <1>3, <2>3, <2>4, <2>5, StepIsTyped DEF Migrate
<1> QED  BY <1>2, <1>3

LEMMA ChooseKeepsTypes ==
    ASSUME TypeOK, NEW p \in Procs, Restore(p) \/ Recover(p)
    PROVE  TypeOK'
<1>1. /\ proc[p] \in Records
      /\ backups \in [Names -> Files \cup {Absent}] /\ latest \in Names \cup {Absent}
      /\ Created(db) \in Files /\ Created(db) # Absent
  BY TypesInParts, CreatedIsAFile
<1>2. PICK n \in Names, cmd \in {"restore", "recover"} : ChooseBackup(p, cmd, n)
  BY DEF Restore, Recover, Existing
<1> DEFINE r == [proc[p] EXCEPT !.at = "chosen", !.cmd = cmd, !.name = n]
<1>3. r \in Records /\ r.at = "chosen" /\ r.name = n
  BY <1>1 DEF Records, Places, Commands
<1> QED  BY <1>1, <1>2, <1>3, StepIsTyped DEF ChooseBackup

LEMMA TeachKeepsTypes ==
    ASSUME TypeOK, NEW p \in Procs, Teach(p)
    PROVE  TypeOK'
<1>1. db \in Files /\ UNCHANGED <<backups, proc, latest>>
  BY TypesInParts DEF Teach, HasItsFiles
<1>2. db' \in Files
  BY <1>1 DEF Teach, Files
<1>3. db' # Absent
  BY <1>2, AbsentAssumption
<1> QED  BY <1>1, <1>2, <1>3, TypesInParts DEF TypeOK, Records, HasItsFiles

\* The file changes hands.
LEMMA CopyKeepsTypes ==
    ASSUME TypeOK, NEW p \in Procs, CopyBackup(p)
    PROVE  TypeOK'
<1> DEFINE f == backups[proc[p].name]
<1>1. /\ proc \in [Procs -> Records] /\ Idle \in Records
      /\ f \in Files /\ f # Absent
  BY TypesInParts, IdleIsTyped DEF HasItsFiles, CopyBackup
<1>2. /\ db' = f /\ UNCHANGED <<backups, latest>>
      /\ proc' = [Overrun(proc, f) EXCEPT ![p] = Idle]
  BY DEF CopyBackup
<1>3. proc' \in [Procs -> Records] /\ proc'[p] = Idle
  BY <1>1, <1>2, OverrunIsTyped
<1>4. \A q \in Procs : q # p => proc'[q].at = proc[q].at /\ proc'[q].name = proc[q].name
  BY <1>1, <1>2, OverrunIsTyped
<1>5. \A q \in Procs : HasItsFiles(q)'
  BY <1>1, <1>2, <1>3, <1>4, TypesInParts DEF HasItsFiles, Idle
<1> QED  BY <1>1, <1>2, <1>3, <1>5, TypesInParts DEF TypeOK, Records, HasItsFiles

LEMMA NewerIsAFile ==
    ASSUME db \in Files, NewerBuild
    PROVE  db' \in Files /\ db'.lessons = db.lessons
<1>1. db.done \cup (db.schema + 1)..Newest \in SUBSET (1..Newest)
  BY DEF Files
<1>2. Newest \in 0..Newest
  BY OperatorAssumption
<1> QED  BY <1>1, <1>2 DEF NewerBuild, Files

LEMMA NewerKeepsTypes ==
    ASSUME TypeOK, NewerBuild
    PROVE  TypeOK'
<1>1. proc \in [Procs -> Records] /\ db \in Files
  BY TypesInParts DEF NewerBuild
<1>2. db' \in Files
  BY <1>1, NewerIsAFile
<1>3. db' # Absent /\ proc' = Overrun(proc, db) /\ UNCHANGED <<backups, latest>>
  BY <1>2, AbsentAssumption DEF NewerBuild
<1>4. /\ proc' \in [Procs -> Records]
      /\ \A q \in Procs : proc'[q].at = proc[q].at /\ proc'[q].name = proc[q].name
  BY <1>1, <1>3, OverrunIsTyped
<1>5. \A q \in Procs : HasItsFiles(q)'
  BY <1>3, <1>4, TypesInParts DEF HasItsFiles
<1> QED  BY <1>2, <1>3, <1>4, <1>5, TypesInParts DEF TypeOK, Records, HasItsFiles

LEMMA InitIsTyped == Init => TypeOK
<1> SUFFICES ASSUME Init PROVE TypeOK
  OBVIOUS
<1>1. db \in Files \cup {Absent}
  <2>1. 1..Newest \subseteq 0..Newest /\ {FALSE} \subseteq BOOLEAN
    OBVIOUS
  <2>2. [schema : 1..Newest, done : SUBSET (1..Newest), lessons : SUBSET Lessons,
         torn : {FALSE}] \subseteq Files
    BY <2>1 DEF Files
  <2> QED  BY <2>2 DEF Init
<1>2. \A p \in Procs : proc[p].at = "idle"
  BY DEF Init, Idle
<1>3. proc \in [Procs -> Records]
  BY IdleIsTyped DEF Init
<1>4. \A p \in Procs : HasItsFiles(p)
  BY <1>2 DEF HasItsFiles
<1> QED  BY <1>1, <1>3, <1>4, TypesInParts DEF Init

(* The database, the backups and the processes keep their types, and no     *)
(* command loses the file it reads or writes, in every order of commands,   *)
(* crashes and restores (TypeOK).                                           *)
THEOREM TypesHold == Spec => []TypeOK
<1>1. ASSUME TypeOK, [Next]_vars
      PROVE  TypeOK'
  <2>1. CASE UNCHANGED vars
    BY <1>1, <2>1, TypesInParts DEF vars, TypeOK, Records, HasItsFiles
  <2>2. CASE Next
    BY <1>1, <2>2, MovesKeepTypes, BackupsKeepTypes, OpenKeepsTypes, MigrateKeepsTypes,
       ChooseKeepsTypes, TeachKeepsTypes, CopyKeepsTypes, NewerKeepsTypes
       DEF Next, Command
  <2> QED  BY <1>1, <2>1, <2>2
<1> QED  BY <1>1, InitIsTyped, PTL DEF Spec

-----------------------------------------------------------------------------

\* Unless the file changed hands since p opened it, p's next migration is the
\* file's next or done already, and p could read the file.
InOrder(p) ==
    proc[p].at = "migrating" /\ ~proc[p].overrun /\ ~db.torn =>
        proc[p].next =< db.schema + 1 /\ db.schema =< Schema

Settled(p) ==
    proc[p].at \in {"serving", "verifying"} /\ ~proc[p].overrun /\ ~db.torn =>
        db.schema = Schema

ExactInv == MigrationsAreExact /\ \A p \in Procs : InOrder(p) /\ Settled(p)

\* The processes that do not have the database open, and those that had it, when
\* it stays as it is.
LEMMA StepStaysExact ==
    ASSUME TypeOK, ExactInv, NEW p \in Procs, NEW r \in Records, Goto(p, r),
           db' = db, MigrationsAreExact',
           \/ r.at \notin Opened
           \/ /\ proc[p].at = "migrating" /\ proc[p].next > Schema
              /\ r.at \in {"serving", "verifying"} /\ r.overrun = proc[p].overrun
    PROVE  ExactInv'
<1>1. /\ proc \in [Procs -> Records] /\ db \in Files \cup {Absent}
      /\ proc[p] \in Records /\ HasItsFiles(p)
  BY TypesInParts
<1>2. proc'[p] = r /\ \A q \in Procs : q # p => proc'[q] = proc[q]
  BY <1>1, GotoIsTyped
<1>3. \A q \in Procs : q # p => InOrder(q)' /\ Settled(q)'
  BY <1>2 DEF ExactInv, InOrder, Settled
<1>4. CASE r.at \notin Opened
  BY <1>2, <1>3, <1>4 DEF ExactInv, InOrder, Settled, Opened
<1>5. CASE r.at \in Opened
  <2>1. db \in Files /\ db.schema \in Nat /\ proc[p].next \in Nat
    BY <1>1, <1>5 DEF HasItsFiles, Files, Records, Opened
  <2>2. InOrder(p)
    BY DEF ExactInv
  <2>3. Settled(p)'
    BY <1>2, <1>5, <2>1, <2>2, OperatorAssumption DEF InOrder, Settled, Opened
  <2>4. InOrder(p)'
    BY <1>2, <1>5 DEF InOrder, Opened
  <2> QED  BY <1>3, <2>3, <2>4 DEF ExactInv
<1> QED  BY <1>4, <1>5

\* Where the steps lead that leave the database as it is.
LEMMA QuietSteps ==
    ASSUME TypeOK, NEW p \in Procs,
           \/ PlanUpgrade(p) \/ BackupBeforeUpgrade(p) \/ SkipBackup(p) \/ BackUp(p)
           \/ CopyToTarget(p) \/ Begin(p) \/ RefuseNewer(p) \/ Load(p) \/ Verify(p)
           \/ Stop(p)
    PROVE  /\ db' = db
           /\ \E r \in Records :
                /\ Goto(p, r)
                /\ \/ r.at \notin Opened
                   \/ /\ proc[p].at = "migrating" /\ proc[p].next > Schema
                      /\ r.at \in {"serving", "verifying"} /\ r.overrun = proc[p].overrun
<1>1. proc[p] \in Records /\ Idle \in Records /\ Idle.at = "idle"
  BY TypesInParts, IdleIsTyped DEF Idle
<1>2. db' = db
  BY DEF PlanUpgrade, BackupBeforeUpgrade, SkipBackup, BackUp, OpenTarget, CopyToTarget,
         Begin, RefuseNewer, Load, Verify, Stop
<1>3. CASE Leave(p)
  BY <1>1, <1>2, <1>3 DEF Leave, Opened
<1>4. CASE PlanUpgrade(p)
  <2>1. Created(db).lessons \in SUBSET Lessons
    BY CreatedIsAFile, TypesInParts DEF Files
  <2> DEFINE r == [Idle EXCEPT !.at = "planned", !.cmd = "upgrade",
                               !.seen = Created(db).lessons]
  <2>2. r \in Records /\ r.at = "planned"
    BY <1>1, <2>1 DEF Records, Places, Commands
  <2>3. Goto(p, r)
    BY <1>4 DEF PlanUpgrade
  <2> QED  BY <1>2, <2>2, <2>3 DEF Opened
<1>5. CASE SkipBackup(p) \/ (CopyToTarget(p) /\ ~Leave(p))
  <2>1. Goto(p, [proc[p] EXCEPT !.at = "ready"])
    BY <1>5 DEF SkipBackup, CopyToTarget
  <2> DEFINE r == [proc[p] EXCEPT !.at = "ready"]
  <2>2. r \in Records /\ r.at = "ready"
    BY <1>1 DEF Records, Places
  <2> QED  BY <1>2, <2>1, <2>2 DEF Opened
<1>6. CASE Begin(p)
  <2>1. PICK cmd \in {"start", "setup"} :
            Goto(p, [proc[p] EXCEPT !.at = "ready", !.cmd = cmd])
    BY <1>6 DEF Begin
  <2> DEFINE r == [proc[p] EXCEPT !.at = "ready", !.cmd = cmd]
  <2>2. r \in Records /\ r.at = "ready"
    BY <1>1 DEF Records, Places, Commands
  <2> QED  BY <1>2, <2>1, <2>2 DEF Opened
<1>7. CASE BackupBeforeUpgrade(p) \/ BackUp(p)
  <2>0. Seconds \subseteq Names /\ ManualNames \subseteq Names
    BY OperatorAssumption DEF Seconds, Names, ManualNames
  <2>1. PICK cmd \in {"upgrade", "backup"}, n \in Names : OpenTarget(p, cmd, n)
    BY <1>7, <2>0 DEF BackupBeforeUpgrade, BackUp
  <2> DEFINE r == [proc[p] EXCEPT !.at = "copying", !.cmd = cmd, !.name = n]
  <2>2. r \in Records /\ r.at = "copying"
    BY <1>1 DEF Records, Places, Commands
  <2>3. Goto(p, r)
    BY <2>1 DEF OpenTarget
  <2> QED  BY <1>2, <2>2, <2>3 DEF Opened
<1>8. CASE Load(p) /\ ~Leave(p)
  <2>1. PICK place \in {"serving", "verifying"} :
            Goto(p, [proc[p] EXCEPT !.at = place, !.next = 1])
    BY <1>8 DEF Load
  <2> DEFINE r == [proc[p] EXCEPT !.at = place, !.next = 1]
  <2>2. 1 \in 1..Newest + 1
    BY OperatorAssumption
  <2>3. r \in Records /\ r.at = place /\ r.overrun = proc[p].overrun
    BY <1>1, <2>2 DEF Records, Places
  <2>4. proc[p].at = "migrating" /\ proc[p].next > Schema
    BY <1>8 DEF Load
  <2> QED  BY <1>2, <2>1, <2>3, <2>4
<1> QED  BY <1>3, <1>4, <1>5, <1>6, <1>7, <1>8 DEF RefuseNewer, Verify, Stop

\* The files of the database and of the backups in the steps that migrate nothing.
LEMMA FilesStayExact ==
    ASSUME TypeOK, MigrationsAreExact, NEW p \in Procs,
           \/ PlanUpgrade(p) \/ BackupBeforeUpgrade(p) \/ SkipBackup(p) \/ BackUp(p)
           \/ CopyToTarget(p) \/ Begin(p) \/ RefuseNewer(p) \/ Load(p) \/ Verify(p)
           \/ Stop(p) \/ OpenDatabase(p) \/ Teach(p) \/ Restore(p) \/ Recover(p)
           \/ CopyBackup(p)
    PROVE  MigrationsAreExact'
<1>1. Exact(Empty) /\ \A f : Exact(f) => Exact(Created(f))
  BY DEF Exact, Empty, Created
<1>2. /\ db \in Files \cup {Absent} /\ backups \in [Names -> Files \cup {Absent}]
      /\ HasItsFiles(p) /\ Exact(db) /\ \A n \in Names : Exact(backups[n])
  BY TypesInParts DEF MigrationsAreExact
<1>3. CASE UNCHANGED <<db, backups>>
  BY <1>2, <1>3 DEF MigrationsAreExact
<1>4. CASE BackupBeforeUpgrade(p) \/ BackUp(p)
  <2>1. PICK n : backups' = [backups EXCEPT ![n] = Created(backups[n])] /\ db' = db
    BY <1>4 DEF BackupBeforeUpgrade, BackUp, OpenTarget
  <2>2. \A k \in Names : backups'[k] \in {backups[k], Created(backups[k])}
    BY <1>2, <2>1
  <2> QED  BY <1>1, <1>2, <2>1, <2>2 DEF MigrationsAreExact
<1>5. CASE CopyToTarget(p)
  <2>1. \A k \in Names : backups'[k] \in {backups[k], db}
    BY <1>2, <1>5 DEF CopyToTarget
  <2> QED  BY <1>2, <1>5, <2>1 DEF MigrationsAreExact, CopyToTarget
<1>6. CASE Teach(p)
  <2>1. db \in Files /\ db # Absent
    BY <1>2, <1>6 DEF Teach, HasItsFiles
  <2>2. db'.schema = db.schema /\ db'.done = db.done /\ db'.torn = db.torn
    BY <1>6, <2>1 DEF Teach, Files
  <2> QED  BY <1>2, <1>6, <2>1, <2>2 DEF MigrationsAreExact, Exact, Teach
<1>7. CASE OpenDatabase(p) \/ Restore(p) \/ Recover(p)
  BY <1>1, <1>2, <1>7 DEF OpenDatabase, Restore, Recover, ChooseBackup, MigrationsAreExact
<1>8. CASE CopyBackup(p)
  BY <1>2, <1>8 DEF CopyBackup, HasItsFiles, MigrationsAreExact
<1> QED  BY <1>3, <1>4, <1>5, <1>6, <1>7, <1>8
         DEF PlanUpgrade, SkipBackup, Begin, RefuseNewer, Load, Verify, Stop

LEMMA OpenStaysExact ==
    ASSUME TypeOK, ExactInv, NEW p \in Procs, OpenDatabase(p)
    PROVE  ExactInv'
<1> DEFINE r == [proc[p] EXCEPT !.at = "migrating", !.next = Created(db).schema + 1,
                                !.overrun = FALSE]
<1>1. /\ proc \in [Procs -> Records] /\ proc[p] \in Records
      /\ db \in Files \cup {Absent} /\ \A q \in Procs : HasItsFiles(q)
  BY TypesInParts
<1>2. Created(db) \in Files /\ Created(db).schema \in Nat /\ db' = Created(db)
  BY <1>1, CreatedIsAFile DEF OpenDatabase, Files
<1>3. Created(db).schema + 1 \in 1..Newest + 1
  BY <1>2, OperatorAssumption DEF Files
<1>4. r \in Records /\ r.at = "migrating" /\ r.next = db'.schema + 1
  BY <1>1, <1>2, <1>3 DEF Records, Places
<1>5. proc'[p] = r /\ \A q \in Procs : q # p => proc'[q] = proc[q]
  BY <1>1, <1>4, GotoIsTyped DEF OpenDatabase
<1>6. db'.schema =< Schema
  BY <1>2, OperatorAssumption DEF OpenDatabase, Compatible, Created, Empty
<1>7. InOrder(p)' /\ Settled(p)'
  BY <1>2, <1>4, <1>5, <1>6 DEF InOrder, Settled
<1>8. ASSUME NEW q \in Procs, q # p
      PROVE  InOrder(q)' /\ Settled(q)'
  <2>1. proc[q].at \in Opened => db' = db
    BY <1>1, <1>2 DEF HasItsFiles, Opened, Created
  <2> QED  BY <1>5, <1>8, <2>1 DEF ExactInv, InOrder, Settled, Opened
<1> QED  BY <1>7, <1>8, FilesStayExact DEF ExactInv

LEMMA MigrateStaysExact ==
    ASSUME TypeOK, ExactInv, NEW p \in Procs, Migrate(p)
    PROVE  ExactInv'
<1>1. /\ proc \in [Procs -> Records] /\ proc[p] \in Records /\ Idle \in Records
      /\ db \in Files /\ db # Absent /\ db.schema \in Nat
      /\ proc[p].next \in Nat \ {0} /\ proc[p].next =< Schema /\ proc[p].at = "migrating"
  BY TypesInParts, IdleIsTyped DEF HasItsFiles, Migrate, Records, Files
<1>2. Exact(db) /\ InOrder(p) /\ UNCHANGED backups
  BY DEF ExactInv, MigrationsAreExact, Migrate
<1>3. CASE proc[p].next \in db.done
  <2>1. Goto(p, Idle) /\ Idle.at \notin Opened /\ UNCHANGED <<db, backups>>
    BY <1>3 DEF Migrate, Leave, Idle, Opened
  <2>2. MigrationsAreExact'
    BY <2>1 DEF ExactInv, MigrationsAreExact
  <2> QED  BY <1>1, <2>1, <2>2, StepStaysExact
<1>4. CASE proc[p].next \notin db.done
  <2> DEFINE r == [proc[p] EXCEPT !.next = @ + 1]
  <2>1. proc[p].next \in 1..Newest /\ proc[p].next + 1 \in 1..Newest + 1
    BY <1>1, OperatorAssumption
  <2>2. /\ r \in Records /\ r.at = "migrating" /\ r.next = proc[p].next + 1
        /\ r.overrun = proc[p].overrun
    BY <1>1, <2>1 DEF Records
  <2>3. proc'[p] = r /\ \A q \in Procs : q # p => proc'[q] = proc[q]
    BY <1>1, <1>4, <2>2, GotoIsTyped DEF Migrate
  <2>4. /\ db' \in Files /\ db'.schema = proc[p].next
        /\ db'.done = db.done \cup {proc[p].next}
        /\ db'.torn = (db.torn \/ proc[p].overrun)
    BY <1>1, <1>4, <2>1, AppliedIs DEF Migrate
  <2>5. ASSUME ~db'.torn
        PROVE  /\ ~db.torn /\ ~proc[p].overrun /\ db.done = 1..db.schema
               /\ proc[p].next = db.schema + 1
    <3>1. ~db.torn /\ ~proc[p].overrun
      BY <2>4, <2>5
    <3>2. db.done = 1..db.schema /\ proc[p].next =< db.schema + 1
      BY <1>1, <1>2, <3>1 DEF Exact, InOrder
    <3>3. proc[p].next = db.schema + 1
      BY <1>1, <1>4, <3>2
    <3> QED  BY <3>1, <3>2, <3>3
  <2>6. Exact(db')
    <3>1. CASE ~db'.torn
      BY <1>1, <2>4, <2>5, <3>1 DEF Exact
    <3> QED  BY <3>1 DEF Exact
  <2>7. InOrder(p)' /\ Settled(p)'
    BY <1>1, <2>2, <2>3, <2>4 DEF InOrder, Settled
  <2>8. ASSUME NEW q \in Procs, q # p
        PROVE  InOrder(q)' /\ Settled(q)'
    <3>1. InOrder(q) /\ Settled(q) /\ proc'[q] = proc[q] /\ proc[q].next \in Nat
      BY <1>1, <2>3, <2>8 DEF ExactInv, Records
    <3>2. CASE db'.torn
      BY <3>2 DEF InOrder, Settled
    <3>3. CASE ~db'.torn
      <4>1. ~db.torn /\ db'.schema = db.schema + 1 /\ db.schema + 1 =< Schema
        BY <1>1, <2>4, <2>5, <3>3
      <4>2. InOrder(q)'
        BY <1>1, <3>1, <4>1, OperatorAssumption DEF InOrder
      <4>3. Settled(q)'
        BY <1>1, <3>1, <4>1, OperatorAssumption DEF Settled
      <4> QED  BY <4>2, <4>3
    <3> QED  BY <3>2, <3>3
  <2> QED  BY <1>2, <2>6, <2>7, <2>8 DEF ExactInv, MigrationsAreExact
<1> QED  BY <1>3, <1>4

\* The file changes hands: the commands that have it open are overrun.
LEMMA OverrunStaysExact ==
    ASSUME TypeOK, ExactInv, NEW f \in Files, MigrationsAreExact',
           \A q \in Procs : proc'[q].at \notin Opened \/ proc'[q] = Overrun(proc, f)[q]
    PROVE  ExactInv'
<1>1. proc \in [Procs -> Records]
  BY TypesInParts
<1>2. ASSUME NEW q \in Procs
      PROVE  InOrder(q)' /\ Settled(q)'
  <2>1. CASE proc'[q].at \notin Opened
    BY <2>1 DEF InOrder, Settled, Opened
  <2>2. CASE proc'[q] = Overrun(proc, f)[q]
    <3>1. /\ proc'[q].at = proc[q].at
          /\ proc'[q].overrun = (proc[q].overrun \/ proc[q].at \in Opened)
      BY <1>1, <2>2, OverrunIsTyped
    <3> QED  BY <3>1 DEF InOrder, Settled, Opened
  <2> QED  BY <2>1, <2>2
<1> QED  BY <1>2 DEF ExactInv

LEMMA CopyStaysExact ==
    ASSUME TypeOK, ExactInv, NEW p \in Procs, CopyBackup(p)
    PROVE  ExactInv'
<1> DEFINE f == backups[proc[p].name]
<1>1. proc \in [Procs -> Records] /\ f \in Files
  BY TypesInParts DEF HasItsFiles, CopyBackup
<1>2. proc' = [Overrun(proc, f) EXCEPT ![p] = Idle] /\ Idle.at \notin Opened
  BY DEF CopyBackup, Idle, Opened
<1>3. \A q \in Procs : proc'[q].at \notin Opened \/ proc'[q] = Overrun(proc, f)[q]
  BY <1>1, <1>2, OverrunIsTyped
<1> QED  BY <1>1, <1>3, FilesStayExact, OverrunStaysExact DEF ExactInv

LEMMA NewerStaysExact ==
    ASSUME TypeOK, ExactInv, NewerBuild
    PROVE  ExactInv'
<1>1. db \in Files /\ db # Absent /\ db.schema \in Nat /\ Newest \in Nat
  BY TypesInParts, OperatorAssumption DEF NewerBuild, Files
<1>2. /\ db'.schema = Newest /\ db'.torn = db.torn /\ UNCHANGED backups
      /\ db'.done = db.done \cup (db.schema + 1)..Newest
  BY <1>1 DEF NewerBuild, Files
<1>3. Exact(db')
  BY <1>1, <1>2 DEF Exact, ExactInv, MigrationsAreExact, NewerBuild
<1>4. MigrationsAreExact'
  BY <1>2, <1>3 DEF ExactInv, MigrationsAreExact
<1> QED  BY <1>1, <1>4, OverrunStaysExact DEF NewerBuild

LEMMA OthersStayExact ==
    ASSUME TypeOK, ExactInv, NEW p \in Procs, Teach(p) \/ Restore(p) \/ Recover(p)
    PROVE  ExactInv'
<1>1. MigrationsAreExact'
  BY FilesStayExact DEF ExactInv
<1>2. CASE Teach(p)
  <2>1. db \in Files
    BY <1>2, TypesInParts DEF Teach, HasItsFiles
  <2>2. db'.schema = db.schema /\ db'.torn = db.torn /\ proc' = proc
    BY <1>2, <2>1 DEF Teach, Files
  <2> QED  BY <1>1, <2>2 DEF ExactInv, InOrder, Settled
<1>3. CASE Restore(p) \/ Recover(p)
  <2>1. PICK n \in Names, cmd \in {"restore", "recover"} : ChooseBackup(p, cmd, n)
    BY <1>3 DEF Restore, Recover, Existing
  <2> DEFINE r == [proc[p] EXCEPT !.at = "chosen", !.cmd = cmd, !.name = n]
  <2>2. proc \in [Procs -> Records] /\ \A q \in Procs : HasItsFiles(q)
    BY TypesInParts
  <2>3. r \in Records /\ r.at \notin Opened
    BY <2>2 DEF Records, Places, Commands, Opened
  <2>4. proc'[p] = r /\ \A q \in Procs : q # p => proc'[q] = proc[q]
    BY <2>1, <2>2, <2>3, GotoIsTyped DEF ChooseBackup
  <2>5. ASSUME NEW q \in Procs
        PROVE  InOrder(q)' /\ Settled(q)'
    <3>1. CASE q = p
      BY <2>3, <2>4, <3>1 DEF InOrder, Settled, Opened
    <3>2. CASE q # p
      <4>1. proc[q].at \in Opened => db' = db
        BY <2>1, <2>2 DEF HasItsFiles, Opened, Created, ChooseBackup
      <4> QED  BY <2>4, <3>2, <4>1 DEF ExactInv, InOrder, Settled, Opened
    <3> QED  BY <3>1, <3>2
  <2> QED  BY <1>1, <2>5 DEF ExactInv
<1> QED  BY <1>2, <1>3

LEMMA ExactInvHolds == Spec => []ExactInv
<1>1. Init => ExactInv
  <2> SUFFICES ASSUME Init PROVE ExactInv
    OBVIOUS
  <2>1. MigrationsAreExact
    BY DEF Init, MigrationsAreExact, Exact
  <2>2. \A p \in Procs : proc[p].at = "idle"
    BY DEF Init, Idle
  <2> QED  BY <2>1, <2>2 DEF ExactInv, InOrder, Settled
<1>2. ASSUME TypeOK, ExactInv, [Next]_vars
      PROVE  ExactInv'
  <2>1. CASE UNCHANGED vars
    BY <1>2, <2>1 DEF vars, ExactInv, MigrationsAreExact, InOrder, Settled
  <2>2. ASSUME NEW p \in Procs,
               \/ PlanUpgrade(p) \/ BackupBeforeUpgrade(p) \/ SkipBackup(p) \/ BackUp(p)
               \/ CopyToTarget(p) \/ Begin(p) \/ RefuseNewer(p) \/ Load(p) \/ Verify(p)
               \/ Stop(p)
        PROVE  ExactInv'
    <3>1. MigrationsAreExact'
      BY <1>2, <2>2, FilesStayExact DEF ExactInv
    <3> QED  BY <1>2, <2>2, <3>1, QuietSteps, StepStaysExact
  <2> QED  BY <1>2, <2>1, <2>2, OpenStaysExact, MigrateStaysExact, CopyStaysExact,
              NewerStaysExact, OthersStayExact DEF Next, Command
<1> QED  BY <1>1, <1>2, TypesHold, PTL DEF Spec

(* The tables of every file are those its version says, however many        *)
(* processes migrate it at once (MigrationsAreExact).                       *)
THEOREM MigrationsStayExact == Spec => []MigrationsAreExact
<1>1. ExactInv => MigrationsAreExact
  BY DEF ExactInv
<1> QED  BY <1>1, ExactInvHolds, PTL

(* A server, or an upgrade that verifies, has a database of this build's    *)
(* schema with all its tables (ServersRunOnTheirSchema).                    *)
THEOREM ServersStayOnTheirSchema == Spec => []ServersRunOnTheirSchema
<1>1. TypeOK /\ ExactInv => ServersRunOnTheirSchema
  <2> SUFFICES ASSUME TypeOK, ExactInv, NEW p \in Procs,
                      proc[p].at \in {"serving", "verifying"}, ~proc[p].overrun, ~db.torn
               PROVE  db.schema = Schema /\ db.done = 1..Schema
    BY DEF ServersRunOnTheirSchema
  <2>1. db # Absent
    BY TypesInParts DEF HasItsFiles
  <2>2. Settled(p) /\ Exact(db)
    BY DEF ExactInv, MigrationsAreExact
  <2> QED  BY <2>1, <2>2 DEF Settled, Exact
<1> QED  BY <1>1, ExactInvHolds, TypesHold, PTL

-----------------------------------------------------------------------------

\* What an upgrade saw is stored until a restore takes it away ...
SeenIsStored(p) == proc[p].seen \subseteq Created(db).lessons

NotNamedYet(p) == proc[p].at = "planned" => proc[p].name = Absent

Upgrading(r) ==
    r.cmd = "upgrade" /\ r.at \in {"ready", "migrating", "verifying"} /\ r.name # Absent

\* ... and is in its backup from the copy on.
HasAWayBack(p) ==
    Upgrading(proc[p]) =>
        /\ backups[proc[p].name] # Absent
        /\ proc[p].seen \subseteq backups[proc[p].name].lessons

WayInv == \A p \in Procs : SeenIsStored(p) /\ NotNamedYet(p) /\ HasAWayBack(p)

\* A backup that is there changes only into a copy of the database.
BackupsAreKept ==
    \A n \in Names : backups[n] # Absent =>
        backups'[n] = backups[n] \/ (db # Absent /\ backups'[n] = db)

LEMMA StepKeepsTheWay ==
    ASSUME TypeOK, WayInv, NEW p \in Procs, NEW r \in Records, Goto(p, r), BackupsAreKept,
           Created(db).lessons \subseteq Created(db').lessons,
           r.seen \subseteq Created(db').lessons,
           r.at = "planned" => r.name = Absent,
           Upgrading(r) =>
              \/ Upgrading(proc[p]) /\ r.name = proc[p].name /\ r.seen = proc[p].seen
              \/ backups'[r.name] = db /\ db # Absent /\ r.seen = proc[p].seen
    PROVE  WayInv'
<1>1. proc \in [Procs -> Records]
  BY TypesInParts
<1>2. proc'[p] = r /\ \A q \in Procs : q # p => proc'[q] = proc[q]
  BY <1>1, GotoIsTyped
<1>3. \A q \in Procs : SeenIsStored(q)' /\ NotNamedYet(q)'
  BY <1>2 DEF WayInv, SeenIsStored, NotNamedYet
<1>4. ASSUME NEW q \in Procs, Upgrading(proc[q])
      PROVE  /\ backups'[proc[q].name] # Absent
             /\ proc[q].seen \subseteq backups'[proc[q].name].lessons
  <2>1. /\ proc[q].name \in Names /\ backups[proc[q].name] # Absent
        /\ proc[q].seen \subseteq backups[proc[q].name].lessons
    BY <1>1, <1>4 DEF WayInv, HasAWayBack, Upgrading, Records
  <2>2. db # Absent => proc[q].seen \subseteq db.lessons
    BY DEF WayInv, SeenIsStored, Created
  <2> QED  BY <2>1, <2>2 DEF BackupsAreKept
<1>5. \A q \in Procs : q # p => HasAWayBack(q)'
  BY <1>2, <1>4 DEF HasAWayBack
<1>6. HasAWayBack(p)'
  <2>1. db # Absent => proc[p].seen \subseteq db.lessons
    BY DEF WayInv, SeenIsStored, Created
  <2> QED  BY <1>2, <1>4, <2>1 DEF HasAWayBack
<1> QED  BY <1>3, <1>5, <1>6 DEF WayInv

LEMMA MovesKeepTheWay ==
    ASSUME TypeOK, WayInv, NEW p \in Procs,
           \/ PlanUpgrade(p) \/ SkipBackup(p) \/ Begin(p) \/ RefuseNewer(p) \/ Load(p)
           \/ Verify(p) \/ Stop(p)
    PROVE  WayInv'
<1>1. /\ proc[p] \in Records /\ Idle \in Records
      /\ SeenIsStored(p) /\ NotNamedYet(p) /\ Created(db) \in Files
  BY TypesInParts, IdleIsTyped, CreatedIsAFile DEF WayInv
<1>2. UNCHANGED <<db, backups>> /\ BackupsAreKept
  BY DEF PlanUpgrade, SkipBackup, Begin, RefuseNewer, Load, Verify, Stop, BackupsAreKept
<1>3. CASE Leave(p)
  <2>1. Idle.at = "idle" /\ Idle.seen = {}
    BY DEF Idle
  <2> QED  BY <1>1, <1>2, <1>3, <2>1, StepKeepsTheWay DEF Leave, Upgrading
<1>4. CASE PlanUpgrade(p)
  <2>1. Created(db).lessons \in SUBSET Lessons
    BY <1>1 DEF Files
  <2> DEFINE r == [Idle EXCEPT !.at = "planned", !.cmd = "upgrade",
                               !.seen = Created(db).lessons]
  <2>2. r \in Records /\ r.at = "planned" /\ r.seen = Created(db).lessons
    BY <1>1, <2>1 DEF Records, Places, Commands
  <2>3. r.name = Absent
    BY DEF Idle
  <2>4. Goto(p, r)
    BY <1>4 DEF PlanUpgrade
  <2>5. ~Upgrading(r)
    BY <2>3 DEF Upgrading
  <2> HIDE DEF r
  <2>6. r.seen \subseteq Created(db').lessons
    BY <1>2, <2>2
  <2> QED  BY <1>2, <2>2, <2>3, <2>4, <2>5, <2>6, StepKeepsTheWay
<1>5. CASE SkipBackup(p)
  <2> DEFINE r == [proc[p] EXCEPT !.at = "ready"]
  <2>1. r \in Records /\ r.at = "ready" /\ r.name = proc[p].name /\ r.seen = proc[p].seen
    BY <1>1 DEF Records, Places
  <2>2. Goto(p, r) /\ r.name = Absent
    BY <1>1, <1>5, <2>1 DEF SkipBackup, NotNamedYet
  <2>3. ~Upgrading(r)
    BY <2>2 DEF Upgrading
  <2> QED  BY <1>1, <1>2, <2>1, <2>2, <2>3, StepKeepsTheWay DEF SeenIsStored
<1>6. CASE Begin(p)
  <2>1. PICK cmd \in {"start", "setup"} :
            Goto(p, [proc[p] EXCEPT !.at = "ready", !.cmd = cmd])
    BY <1>6 DEF Begin
  <2> DEFINE r == [proc[p] EXCEPT !.at = "ready", !.cmd = cmd]
  <2>2. r \in Records /\ r.at = "ready" /\ r.cmd = cmd /\ r.seen = proc[p].seen
    BY <1>1 DEF Records, Places, Commands
  <2>3. ~Upgrading(r)
    BY <2>2 DEF Upgrading
  <2> QED  BY <1>1, <1>2, <2>1, <2>2, <2>3, StepKeepsTheWay DEF SeenIsStored
<1>7. CASE Load(p) /\ ~Leave(p)
  <2>1. PICK place \in {"serving", "verifying"} :
            Goto(p, [proc[p] EXCEPT !.at = place, !.next = 1])
    BY <1>7 DEF Load
  <2> DEFINE r == [proc[p] EXCEPT !.at = place, !.next = 1]
  <2>2. 1 \in 1..Newest + 1
    BY OperatorAssumption
  <2>3. /\ r \in Records /\ r.at = place
        /\ r.name = proc[p].name /\ r.seen = proc[p].seen /\ r.cmd = proc[p].cmd
    BY <1>1, <2>2 DEF Records, Places
  <2>4. Upgrading(r) => Upgrading(proc[p])
    BY <1>7, <2>3 DEF Load, Upgrading
  <2> QED  BY <1>1, <1>2, <2>1, <2>3, <2>4, StepKeepsTheWay DEF SeenIsStored
<1> QED  BY <1>3, <1>4, <1>5, <1>6, <1>7 DEF RefuseNewer, Verify, Stop

LEMMA BackupsKeepTheWay ==
    ASSUME TypeOK, WayInv, NEW p \in Procs,
           BackupBeforeUpgrade(p) \/ BackUp(p) \/ CopyToTarget(p)
    PROVE  WayInv'
<1>1. /\ proc[p] \in Records /\ Idle \in Records /\ SeenIsStored(p) /\ HasItsFiles(p)
      /\ backups \in [Names -> Files \cup {Absent}]
  BY TypesInParts, IdleIsTyped DEF WayInv
<1>2. CASE BackupBeforeUpgrade(p) \/ BackUp(p)
  <2>0. Seconds \subseteq Names /\ ManualNames \subseteq Names
    BY OperatorAssumption DEF Seconds, Names, ManualNames
  <2>1. PICK cmd \in {"upgrade", "backup"}, n \in Names : OpenTarget(p, cmd, n)
    BY <1>2, <2>0 DEF BackupBeforeUpgrade, BackUp
  <2> DEFINE r == [proc[p] EXCEPT !.at = "copying", !.cmd = cmd, !.name = n]
  <2>2. r \in Records /\ r.at = "copying" /\ r.seen = proc[p].seen
    BY <1>1 DEF Records, Places, Commands
  <2>3. Goto(p, r) /\ db' = db /\ backups' = [backups EXCEPT ![n] = Created(backups[n])]
    BY <2>1 DEF OpenTarget
  <2>4. BackupsAreKept
    BY <1>1, <2>3 DEF BackupsAreKept, Created
  <2>5. ~Upgrading(r)
    BY <2>2 DEF Upgrading
  <2> QED  BY <1>1, <2>2, <2>3, <2>4, <2>5, StepKeepsTheWay DEF SeenIsStored
<1>3. CASE CopyToTarget(p)
  <2>1. /\ proc[p].name \in Names /\ db # Absent /\ db' = db
        /\ backups' = [backups EXCEPT ![proc[p].name] = db]
    BY <1>1, <1>3 DEF CopyToTarget, HasItsFiles
  <2>2. BackupsAreKept
    BY <1>1, <2>1 DEF BackupsAreKept
  <2>3. CASE Leave(p)
    <3>1. Idle.at = "idle" /\ Idle.seen = {}
      BY DEF Idle
    <3> QED  BY <1>1, <2>1, <2>2, <2>3, <3>1, StepKeepsTheWay DEF Leave, Upgrading
  <2>4. CASE ~Leave(p)
    <3> DEFINE r == [proc[p] EXCEPT !.at = "ready"]
    <3>1. Goto(p, r)
      BY <1>3, <2>4 DEF CopyToTarget
    <3>2. r \in Records /\ r.at = "ready" /\ r.name = proc[p].name /\ r.seen = proc[p].seen
      BY <1>1 DEF Records, Places
    <3>3. backups'[r.name] = db
      BY <1>1, <2>1, <3>2
    <3> QED  BY <1>1, <2>1, <2>2, <3>1, <3>2, <3>3, StepKeepsTheWay DEF SeenIsStored
  <2> QED  BY <2>3, <2>4
<1> QED  BY <1>2, <1>3

LEMMA WritersKeepTheWay ==
    ASSUME TypeOK, WayInv, NEW p \in Procs,
           OpenDatabase(p) \/ Migrate(p) \/ Restore(p) \/ Recover(p)
    PROVE  WayInv'
<1>1. /\ proc[p] \in Records /\ Idle \in Records /\ SeenIsStored(p) /\ HasItsFiles(p)
      /\ db \in Files \cup {Absent} /\ Created(db) \in Files /\ Created(db) # Absent
  BY TypesInParts, IdleIsTyped, CreatedIsAFile DEF WayInv
<1>2. BackupsAreKept
  BY DEF OpenDatabase, Migrate, Restore, Recover, ChooseBackup, BackupsAreKept
<1>3. CASE OpenDatabase(p)
  <2> DEFINE r == [proc[p] EXCEPT !.at = "migrating", !.next = Created(db).schema + 1,
                                  !.overrun = FALSE]
  <2>1. Created(db).schema + 1 \in 1..Newest + 1
    BY <1>1, OperatorAssumption DEF Files
  <2>2. /\ r \in Records /\ r.at = "migrating" /\ r.name = proc[p].name
        /\ r.seen = proc[p].seen /\ r.cmd = proc[p].cmd
    BY <1>1, <2>1 DEF Records, Places
  <2>3. Goto(p, r) /\ Created(db') = Created(db)
    BY <1>1, <1>3 DEF OpenDatabase, Created
  <2>4. Upgrading(r) => Upgrading(proc[p])
    BY <1>3, <2>2 DEF OpenDatabase, Upgrading
  <2> QED  BY <1>1, <1>2, <2>2, <2>3, <2>4, StepKeepsTheWay DEF SeenIsStored
<1>4. CASE Migrate(p)
  <2>1. db \in Files /\ db # Absent /\ proc[p].next \in Nat \ {0} /\ proc[p].next =< Schema
    BY <1>1, <1>4 DEF HasItsFiles, Migrate, Records
  <2>2. CASE Leave(p) /\ db' = db
    <3>1. Idle.at = "idle" /\ Idle.seen = {}
      BY DEF Idle
    <3> QED  BY <1>1, <1>2, <2>2, <3>1, StepKeepsTheWay DEF Leave, Upgrading
  <2>3. CASE ~(Leave(p) /\ db' = db)
    <3> DEFINE r == [proc[p] EXCEPT !.next = @ + 1]
    <3>1. proc[p].next \in 1..Newest /\ proc[p].next + 1 \in 1..Newest + 1
      BY <2>1, OperatorAssumption
    <3>2. /\ r \in Records /\ r.at = "migrating" /\ r.name = proc[p].name
          /\ r.seen = proc[p].seen /\ r.cmd = proc[p].cmd
      BY <1>1, <1>4, <3>1 DEF Records, Migrate
    <3>3. Goto(p, r) /\ db' = Applied(p)
      BY <1>4, <2>3 DEF Migrate
    <3>4. Created(db').lessons = Created(db).lessons
      <4>1. Applied(p) \in Files /\ Applied(p).lessons = db.lessons
        BY <1>1, <2>1, <3>1, AppliedIs
      <4>2. Applied(p) # Absent
        BY <4>1, AbsentAssumption
      <4> QED  BY <2>1, <3>3, <4>1, <4>2 DEF Created
    <3>5. Upgrading(r) => Upgrading(proc[p])
      BY <1>4, <3>2 DEF Migrate, Upgrading
    <3> QED  BY <1>1, <1>2, <3>2, <3>3, <3>4, <3>5, StepKeepsTheWay DEF SeenIsStored
  <2> QED  BY <2>2, <2>3
<1>5. CASE Restore(p) \/ Recover(p)
  <2>1. PICK n \in Names, cmd \in {"restore", "recover"} : ChooseBackup(p, cmd, n)
    BY <1>5 DEF Restore, Recover, Existing
  <2> DEFINE r == [proc[p] EXCEPT !.at = "chosen", !.cmd = cmd, !.name = n]
  <2>2. r \in Records /\ r.at = "chosen" /\ r.seen = proc[p].seen
    BY <1>1 DEF Records, Places, Commands
  <2>3. Goto(p, r) /\ Created(db') = Created(db)
    BY <1>1, <2>1 DEF ChooseBackup, Created
  <2>4. ~Upgrading(r)
    BY <2>2 DEF Upgrading
  <2> QED  BY <1>1, <1>2, <2>2, <2>3, <2>4, StepKeepsTheWay DEF SeenIsStored
<1> QED  BY <1>3, <1>4, <1>5

LEMMA TeachKeepsTheWay ==
    ASSUME TypeOK, WayInv, NEW p \in Procs, Teach(p)
    PROVE  WayInv'
<1>1. db \in Files /\ db # Absent /\ UNCHANGED <<backups, proc>>
  BY TypesInParts DEF Teach, HasItsFiles
<1>2. db' \in Files /\ db.lessons \subseteq db'.lessons
  BY <1>1 DEF Teach, Files
<1>3. Created(db).lessons \subseteq Created(db').lessons
  BY <1>1, <1>2, AbsentAssumption DEF Created
<1> QED  BY <1>1, <1>3 DEF WayInv, SeenIsStored, NotNamedYet, HasAWayBack

\* What a restore takes away is no longer what an upgrade saw.
LEMMA OverrunKeepsTheWay ==
    ASSUME TypeOK, WayInv, NEW f \in Files, db' \in Files, db'.lessons = f.lessons,
           UNCHANGED backups,
           \A q \in Procs : proc'[q] = Idle \/ proc'[q] = Overrun(proc, f)[q]
    PROVE  WayInv'
<1>1. proc \in [Procs -> Records] /\ Created(db').lessons = f.lessons
  BY TypesInParts, AbsentAssumption DEF Created
<1>2. ASSUME NEW q \in Procs
      PROVE  SeenIsStored(q)' /\ NotNamedYet(q)' /\ HasAWayBack(q)'
  <2>1. CASE proc'[q] = Idle
    BY <2>1 DEF Idle, SeenIsStored, NotNamedYet, HasAWayBack, Upgrading
  <2>2. CASE proc'[q] = Overrun(proc, f)[q]
    <3>1. /\ proc'[q].at = proc[q].at /\ proc'[q].cmd = proc[q].cmd
          /\ proc'[q].name = proc[q].name /\ proc'[q].seen = proc[q].seen \cap f.lessons
      BY <1>1, <2>2, OverrunIsTyped
    <3> QED  BY <1>1, <3>1 DEF WayInv, SeenIsStored, NotNamedYet, HasAWayBack, Upgrading
  <2> QED  BY <1>2, <2>1, <2>2
<1> QED  BY <1>2 DEF WayInv

LEMMA CopyKeepsTheWay ==
    ASSUME TypeOK, WayInv, NEW p \in Procs, CopyBackup(p)
    PROVE  WayInv'
<1> DEFINE f == backups[proc[p].name]
<1>1. proc \in [Procs -> Records] /\ f \in Files
  BY TypesInParts DEF HasItsFiles, CopyBackup
<1>2. proc' = [Overrun(proc, f) EXCEPT ![p] = Idle] /\ db' = f /\ UNCHANGED backups
  BY DEF CopyBackup
<1>3. \A q \in Procs : proc'[q] = Idle \/ proc'[q] = Overrun(proc, f)[q]
  BY <1>1, <1>2, OverrunIsTyped
<1> QED  BY <1>1, <1>2, <1>3, OverrunKeepsTheWay

LEMMA NewerKeepsTheWay ==
    ASSUME TypeOK, WayInv, NewerBuild
    PROVE  WayInv'
<1>1. db \in Files /\ UNCHANGED backups /\ proc' = Overrun(proc, db)
  BY TypesInParts DEF NewerBuild
<1>2. db' \in Files /\ db'.lessons = db.lessons
  BY <1>1, NewerIsAFile
<1> QED  BY <1>1, <1>2, OverrunKeepsTheWay

(* While an upgrade changes the database, its backup holds what was stored  *)
(* when it was planned (UpgradeKeepsAWayBack).                              *)
THEOREM UpgradesKeepAWayBack == Spec => []UpgradeKeepsAWayBack
<1>1. Init => WayInv
  <2>1. Idle.at = "idle" /\ Idle.seen = {}
    BY DEF Idle
  <2>2. ASSUME Init, NEW p \in Procs
        PROVE  SeenIsStored(p) /\ NotNamedYet(p) /\ HasAWayBack(p)
    <3>1. proc[p] = Idle
      BY <2>2 DEF Init
    <3>2. SeenIsStored(p)
      BY <2>1, <3>1 DEF SeenIsStored
    <3>3. NotNamedYet(p)
      BY <2>1, <3>1 DEF NotNamedYet
    <3>4. HasAWayBack(p)
      BY <2>1, <3>1 DEF HasAWayBack, Upgrading
    <3> QED  BY <3>2, <3>3, <3>4
  <2> QED  BY <2>2 DEF WayInv
<1>2. ASSUME TypeOK, WayInv, [Next]_vars
      PROVE  WayInv'
  <2>1. CASE UNCHANGED vars
    BY <1>2, <2>1 DEF vars, WayInv, SeenIsStored, NotNamedYet, HasAWayBack
  <2>2. CASE Next
    BY <1>2, <2>2, MovesKeepTheWay, BackupsKeepTheWay, WritersKeepTheWay,
       TeachKeepsTheWay, CopyKeepsTheWay, NewerKeepsTheWay DEF Next, Command
  <2> QED  BY <1>2, <2>1, <2>2
<1>3. WayInv => UpgradeKeepsAWayBack
  BY DEF WayInv, HasAWayBack, Upgrading, UpgradeKeepsAWayBack
<1> QED  BY <1>1, <1>2, <1>3, TypesHold, PTL DEF Spec

=============================================================================
