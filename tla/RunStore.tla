------------------------------- MODULE RunStore -------------------------------
(***************************************************************************)
(* The files of the runs and the SQLite mirror behind them: RunManager,    *)
(* StateManager, EventStore, CheckpointService, ArtifactManager and        *)
(* DatabaseManager.  Every operation is a program of file and database     *)
(* accesses with an await between any two; no file is locked, so the       *)
(* programs of two clients (processes, or requests of one server)          *)
(* interleave, and a process may die between two accesses.  A file is      *)
(* replaced by rename, so one access is one step.                          *)
(***************************************************************************)
EXTENDS Naturals, Sequences, FiniteSets, SequencesExt

CONSTANTS Run, Task, Client,
          Owns,        \* the runs a client creates, changes and deletes
          HasDb,       \* the clients whose managers were given the database
          MaxOps, MaxCrashes,   \* bounds
          None

ASSUME StoreAssumption ==
  /\ IsFiniteSet(Task)
  /\ Owns \in [Client -> SUBSET Run] /\ HasDb \subseteq Client
  /\ MaxOps \in Nat /\ MaxCrashes \in Nat

VARIABLES
  run,        \* run.json of each run: [status, done], or None
  tasks,      \* tasks.json of each run: status of each task, or None
  events,     \* events.jsonl of each run: the entries appended
  index,      \* run-index.json: the status of the runs it lists
  taskIndex,  \* task-index.json: the run of each task it lists
  db,         \* flowtask.db: [run, task, rows]
  job, reg,   \* per client: the operation under way and what it has loaded
  ops, crashes,
  alone,      \* clients whose listing operation has met no other one
  intact,     \* runs whose tasks were last saved by a whole operation
  settled,    \* runs last changed by an operation that listed them, alone
  mirrored    \* runs whose last change of run.json reached the database

files == <<run, tasks, events, index, taskIndex>>
mirror == <<db, mirrored>>
ghosts == <<alone, intact, settled>>
vars == <<files, mirror, job, reg, ops, crashes, ghosts>>

RunStatus == {"created", "running", "completed"}
Status == {"pending", "done"}
NoReg == [run |-> None, tasks |-> None, index |-> None, taskIndex |-> None]
NoTasks == [t \in Task |-> None]
NoDb == [run |-> [r \in Run |-> None], task |-> NoTasks, rows |-> {}]

RunFile == [status : RunStatus, done : 0 .. Cardinality(Task)]
TasksFile == [Task -> Status]
Index == [Run -> RunStatus \cup {None}]
TaskIndex == [Task -> Run \cup {None}]
Row == [id : Nat, kind : {"event", "checkpoint", "artifact"}, run : Run,
        task : Task \cup {None}]

Init ==
  /\ run = [r \in Run |-> None] /\ tasks = [r \in Run |-> None]
  /\ events = [r \in Run |-> {}]
  /\ index = [r \in Run |-> None] /\ taskIndex = NoTasks
  /\ db = NoDb
  /\ job = [c \in Client |-> None] /\ reg = [c \in Client |-> NoReg]
  /\ ops = 0 /\ crashes = 0
  /\ alone = {} /\ intact = Run /\ settled = Run /\ mirrored = Run

-----------------------------------------------------------------------------
(* The operations, as programs of accesses.  A client that was not given    *)
(* the database goes through its accesses to it without effect.             *)

\* updateRunStatus and addRunError end in saveRun; createRun, updateRunStatus
\* and duplicateRun list the run (updateRunIndex); a list of tasks is saved
\* with the counts of its run (saveTasks).
Program(op) ==
  CASE op = "createRun" -> <<"newRun", "loadIndex", "saveIndex", "dbRun">>
    [] op = "updateRunStatus" ->
         <<"loadRun", "saveRun", "dbRun", "loadIndex", "saveIndex">>
    [] op = "addRunError" -> <<"loadRun", "saveRun", "dbRun">>
    [] op = "saveTasks" ->
         <<"writeTasks", "loadTaskIndex", "saveTaskIndex",
           "loadRun", "saveRun", "dbRun", "dbTasks">>
    [] op = "updateTaskStatus" ->
         <<"loadTasks", "writeTasks", "loadTaskIndex", "saveTaskIndex",
           "loadRun", "saveRun", "dbRun", "dbTasks">>
    [] op = "duplicateRun" ->
         <<"loadSource", "newRun", "loadIndex", "saveIndex", "dbRun",
           "copyTasks", "writeTasks", "loadTaskIndex", "saveTaskIndex",
           "loadRun", "saveRun", "dbRun", "dbTasks">>
    [] op = "deleteRunData" ->
         <<"removeDir", "loadIndex", "saveIndex", "dbDelete">>
    [] op = "clean" -> <<"removeDir">>
    [] op = "deleteRun" -> <<"dbDelete">>
    [] op = "appendToRun" -> <<"append", "dbRow">>
    [] op \in {"saveRunState", "createArtifact"} -> <<"writeState", "dbRow">>

Listing == {"createRun", "updateRunStatus", "deleteRunData", "duplicateRun"}
Op == Listing \cup {"clean", "addRunError", "saveTasks", "updateTaskStatus",
                    "deleteRun", "appendToRun", "saveRunState", "createArtifact"}

Step == {"newRun", "loadRun", "loadSource", "saveRun", "loadIndex", "saveIndex",
         "loadTasks", "copyTasks", "writeTasks", "loadTaskIndex",
         "saveTaskIndex", "removeDir", "append", "writeState", "dbRun",
         "dbTasks", "dbRow", "dbDelete"}
Job == [op : Op, run : Run, to : RunStatus \cup Status \cup {None},
        task : Task \cup {None}, from : Run \cup {None}, id : Nat,
        rest : Seq(Step)]

TypeOK ==
  /\ run \in [Run -> RunFile \cup {None}]
  /\ tasks \in [Run -> TasksFile \cup {None}]
  /\ events \in [Run -> SUBSET (1 .. MaxOps)]
  /\ index \in Index /\ taskIndex \in TaskIndex
  /\ db.run \in Index /\ db.task \in TaskIndex /\ db.rows \subseteq Row
  /\ \A c \in Client :
       /\ job[c] \in Job \cup {None}
       /\ reg[c].run \in RunFile \cup {None}
       /\ reg[c].tasks \in TasksFile \cup {None}
       /\ reg[c].index \in Index \cup {None}
       /\ reg[c].taskIndex \in TaskIndex \cup {None}
  /\ ops \in 0 .. MaxOps /\ crashes \in 0 .. MaxCrashes
  /\ alone \subseteq Client
  /\ intact \subseteq Run /\ settled \subseteq Run /\ mirrored \subseteq Run

ASSUME NoneAssumption ==
  /\ None \notin RunStatus \cup RunFile \cup TasksFile \cup Job
  /\ None \notin [run : Run, to : RunStatus \cup {None}]

Writes(op, step) ==
  \E i \in DOMAIN Program(op) : Program(op)[i] = step

Busy(c) == job[c] # None
At(c, step) == Busy(c) /\ job[c].rest # <<>> /\ Head(job[c].rest) = step

NewJob(op, r) ==
  [op |-> op, run |-> r, to |-> None, task |-> None, from |-> None,
   id |-> IF Writes(op, "dbRow") THEN ops + 1 ELSE 0, rest |-> Program(op)]

\* A client begins an operation on one of its runs.
Begin(c, new) ==
  /\ ~Busy(c) /\ ops < MaxOps /\ new.run \in Owns[c]
  /\ ops' = ops + 1
  /\ job' = [job EXCEPT ![c] = new]
  /\ alone' = IF new.op \notin Listing THEN alone
              ELSE IF \E d \in Client : Busy(d) /\ job[d].op \in Listing
                THEN {} ELSE {c}
  /\ UNCHANGED <<files, mirror, reg, crashes, intact, settled>>

\* generateRunId names a run nobody has.
Fresh(r) ==
  /\ run[r] = None /\ tasks[r] = None /\ events[r] = {}
  /\ index[r] = None /\ db.run[r] = None
  /\ \A c \in Client : Busy(c) => job[c].run # r

CreateRun(c) == \E r \in Run : Fresh(r) /\ Begin(c, NewJob("createRun", r))

\* No caller asks for "created", which a run has from its creation alone.
UpdateRunStatus(c) ==
  \E r \in Run, s \in RunStatus \ {"created"} :
    Begin(c, [NewJob("updateRunStatus", r) EXCEPT !.to = s])

AddRunError(c) == \E r \in Run : Begin(c, NewJob("addRunError", r))

\* The plan of a run is saved.
SaveTasks(c) ==
  \E r \in Run : run[r] # None /\ Begin(c, NewJob("saveTasks", r))

UpdateTaskStatus(c) ==
  \E r \in Run, t \in Task, s \in Status :
    Begin(c, [NewJob("updateTaskStatus", r) EXCEPT !.task = t, !.to = s])

\* The copy is made by the owner of the new run, from any run.
DuplicateRun(c) ==
  \E r, source \in Run :
    /\ Fresh(r) /\ run[source] # None
    /\ Begin(c, [NewJob("duplicateRun", r) EXCEPT !.from = source])

DeleteRunData(c) == \E r \in Run : Begin(c, NewJob("deleteRunData", r))

\* `flowtask clean` removes directories of listed runs, and neither unlists the runs
\* nor tells the database.
Clean(c) == \E r \in Run : index[r] # None /\ Begin(c, NewJob("clean", r))

\* FlowTaskAPI.deleteRun and cleanRuns delete from the database only.
ApiDeleteRun(c) ==
  c \in HasDb /\ \E r \in Run : Begin(c, NewJob("deleteRun", r))

AppendToRun(c) ==
  \E r \in Run, t \in Task \cup {None} :
    /\ run[r] # None /\ (t # None => tasks[r] # None)
    /\ Begin(c, [NewJob("appendToRun", r) EXCEPT !.task = t])

SaveRunState(c) ==
  \E r \in Run : run[r] # None /\ Begin(c, NewJob("saveRunState", r))

CreateArtifact(c) ==
  \E r \in Run, t \in Task :
    tasks[r] # None /\ Begin(c, [NewJob("createArtifact", r) EXCEPT !.task = t])

-----------------------------------------------------------------------------
(* The accesses *)

R(c) == job[c].run
StatusOf(record) == IF record = None THEN None ELSE record.status
DoneIn(list) == Cardinality({t \in Task : list[t] = "done"})

\* What is known of the run once its operation ended whole, or was cut short.
Concluded(c) ==
  /\ settled' = IF job[c].op \in Listing /\ c \in alone THEN settled \cup {R(c)}
                ELSE IF job[c].op \in Listing \cup {"clean"} THEN settled \ {R(c)}
                ELSE settled
  /\ intact' = IF Writes(job[c].op, "writeTasks")
                 THEN intact \cup {R(c)} ELSE intact

CutShort(c) ==
  /\ settled' = IF job[c].op \in Listing \cup {"clean"} THEN settled \ {R(c)}
                ELSE settled
  /\ intact' = IF Writes(job[c].op, "writeTasks")
                 THEN intact \ {R(c)} ELSE intact

Over(c) ==
  /\ job' = [job EXCEPT ![c] = None]
  /\ reg' = [reg EXCEPT ![c] = NoReg]
  /\ alone' = alone \ {c}
  /\ UNCHANGED <<ops, crashes>>

\* The access is done; the next one waits for its turn.
Then(c, loaded) ==
  IF Len(job[c].rest) = 1
    THEN Over(c) /\ Concluded(c)
    ELSE /\ job' = [job EXCEPT ![c].rest = Tail(@)]
         /\ reg' = [reg EXCEPT ![c] = loaded]
         /\ UNCHANGED <<ops, crashes, ghosts>>

\* The operation throws or returns early.
Aborts(c) == Over(c) /\ UNCHANGED <<files, mirror, intact, settled>>

LoadRun(c) ==
  /\ At(c, "loadRun")
  /\ IF run[R(c)] # None
       THEN /\ Then(c, [reg[c] EXCEPT !.run = run[R(c)]])
            /\ UNCHANGED <<files, mirror>>
       ELSE Aborts(c)

LoadSource(c) ==
  /\ At(c, "loadSource")
  /\ IF run[job[c].from] # None
       THEN /\ Then(c, [reg[c] EXCEPT !.run = run[job[c].from]])
            /\ UNCHANGED <<files, mirror>>
       ELSE Aborts(c)

\* (Mutant: the copy starts with the status of its source.)
MutNewRun(c) ==
  /\ At(c, "newRun")
  /\ run' = [run EXCEPT ![R(c)] =
       [status |-> IF reg[c].run = None THEN "created" ELSE reg[c].run.status,
        done |-> 0]]
  /\ mirrored' = mirrored \ {R(c)}
  /\ Then(c, [reg[c] EXCEPT !.run = run'[R(c)]])
  /\ UNCHANGED <<tasks, events, index, taskIndex, db>>

NewRun(c) ==
  /\ At(c, "newRun")
  /\ run' = [run EXCEPT ![R(c)] = [status |-> "created", done |-> 0]]
  /\ mirrored' = mirrored \ {R(c)}
  /\ Then(c, [reg[c] EXCEPT !.run = run'[R(c)]])
  /\ UNCHANGED <<tasks, events, index, taskIndex, db>>

\* (Mutant: the counts are left as they were loaded.)
MutEdited(c) ==
  IF job[c].op = "updateRunStatus"
    THEN [reg[c].run EXCEPT !.status = job[c].to] ELSE reg[c].run

\* The loaded record with the change the operation is for.
Edited(c) ==
  IF job[c].op = "updateRunStatus"
    THEN [reg[c].run EXCEPT !.status = job[c].to]
  ELSE IF reg[c].tasks # None
    THEN [reg[c].run EXCEPT !.done = DoneIn(reg[c].tasks)]
  ELSE reg[c].run

SaveRun(c) ==
  /\ At(c, "saveRun")
  /\ run' = [run EXCEPT ![R(c)] = Edited(c)]
  /\ mirrored' = mirrored \ {R(c)}
  /\ Then(c, [reg[c] EXCEPT !.run = Edited(c)])
  /\ UNCHANGED <<tasks, events, index, taskIndex, db>>

LoadTasks(c) ==
  /\ At(c, "loadTasks")
  /\ IF tasks[R(c)] # None
       THEN /\ Then(c, [reg[c] EXCEPT !.tasks =
                          [tasks[R(c)] EXCEPT ![job[c].task] = job[c].to]])
            /\ UNCHANGED <<files, mirror>>
       ELSE Aborts(c)

\* A run without tasks is copied without them.
CopyTasks(c) ==
  /\ At(c, "copyTasks")
  /\ IF tasks[job[c].from] # None
       THEN /\ Then(c, [reg[c] EXCEPT !.tasks = [t \in Task |-> "pending"]])
            /\ UNCHANGED <<files, mirror>>
       ELSE /\ Over(c) /\ Concluded(c)
            /\ UNCHANGED <<files, mirror>>

WriteTasks(c) ==
  /\ At(c, "writeTasks")
  /\ LET list == IF job[c].op = "saveTasks" THEN [t \in Task |-> "pending"]
                 ELSE reg[c].tasks
     IN /\ tasks' = [tasks EXCEPT ![R(c)] = list]
        /\ Then(c, [reg[c] EXCEPT !.tasks = list])
  /\ UNCHANGED <<run, events, index, taskIndex, mirror>>

LoadTaskIndex(c) ==
  /\ At(c, "loadTaskIndex")
  /\ Then(c, [reg[c] EXCEPT !.taskIndex = taskIndex])
  /\ UNCHANGED <<files, mirror>>

\* Entries are found by task id alone; a copy of a run has the same ids.
SaveTaskIndex(c) ==
  /\ At(c, "saveTaskIndex")
  /\ taskIndex' = [t \in Task |-> R(c)]
  /\ Then(c, reg[c])
  /\ UNCHANGED <<run, tasks, events, index, mirror>>

LoadIndex(c) ==
  /\ At(c, "loadIndex")
  /\ Then(c, [reg[c] EXCEPT !.index = index])
  /\ UNCHANGED <<files, mirror>>

\* (Mutant: an entry that is there already is left alone.)
MutSaveIndex(c) ==
  /\ At(c, "saveIndex")
  /\ index' = [reg[c].index EXCEPT ![R(c)] =
       IF job[c].op = "deleteRunData" THEN None
       ELSE IF @ # None THEN @ ELSE reg[c].run.status]
  /\ Then(c, reg[c])
  /\ UNCHANGED <<run, tasks, events, taskIndex, mirror>>

SaveIndex(c) ==
  /\ At(c, "saveIndex")
  /\ index' = [reg[c].index EXCEPT ![R(c)] =
       IF job[c].op = "deleteRunData" THEN None ELSE reg[c].run.status]
  /\ Then(c, reg[c])
  /\ UNCHANGED <<run, tasks, events, taskIndex, mirror>>

RemoveDir(c) ==
  /\ At(c, "removeDir")
  /\ run' = [run EXCEPT ![R(c)] = None]
  /\ tasks' = [tasks EXCEPT ![R(c)] = None]
  /\ events' = [events EXCEPT ![R(c)] = {}]
  /\ mirrored' = mirrored \ {R(c)}
  /\ Then(c, reg[c])
  /\ UNCHANGED <<index, taskIndex, db>>

AppendLine(c) ==
  /\ At(c, "append")
  /\ events' = [events EXCEPT ![R(c)] = @ \cup {job[c].id}]
  /\ Then(c, reg[c])
  /\ UNCHANGED <<run, tasks, index, taskIndex, mirror>>

\* run-state.json, or an artifact's content and its metadata.
WriteState(c) ==
  /\ At(c, "writeState")
  /\ Then(c, reg[c])
  /\ UNCHANGED <<files, mirror>>

-----------------------------------------------------------------------------
(* The database.  Foreign keys are on: what refers to a deleted row goes    *)
(* with it (rows of a run) or forgets it (the task of an event).  INSERT OR *)
(* REPLACE deletes the row it replaces.                                     *)

WithoutRun(r) ==
  LET gone == {t \in Task : db.task[t] = r}
  IN [run |-> [db.run EXCEPT ![r] = None],
      task |-> [t \in Task |-> IF t \in gone THEN None ELSE db.task[t]],
      rows |-> {[row EXCEPT !.task = IF @ \in gone THEN None ELSE @] :
                  row \in {x \in db.rows : x.run # r}}]

\* (Mutant: the row of a run is inserted but never replaced.)
MutDbRun(c) ==
  /\ At(c, "dbRun")
  /\ db' = IF c \notin HasDb \/ db.run[R(c)] # None THEN db
           ELSE [db EXCEPT !.run[R(c)] = reg[c].run.status]
  /\ mirrored' = IF c \notin HasDb THEN mirrored ELSE mirrored \cup {R(c)}
  /\ Then(c, reg[c])
  /\ UNCHANGED files

DbRun(c) ==
  /\ At(c, "dbRun")
  /\ db' = IF c \notin HasDb THEN db
           ELSE [WithoutRun(R(c)) EXCEPT !.run[R(c)] = reg[c].run.status]
  /\ mirrored' = IF c \notin HasDb THEN mirrored ELSE mirrored \cup {R(c)}
  /\ Then(c, reg[c])
  /\ UNCHANGED files

DbTasks(c) ==
  /\ At(c, "dbTasks")
  /\ db' = IF c \notin HasDb \/ db.run[R(c)] = None THEN db
           ELSE [db EXCEPT !.task = [t \in Task |-> R(c)],
                   !.rows = {[row EXCEPT !.task = None] : row \in @}]
  /\ Then(c, reg[c])
  /\ UNCHANGED <<files, mirrored>>

KindOf(op) ==
  CASE op = "appendToRun" -> "event"
    [] op = "saveRunState" -> "checkpoint"
    [] op = "createArtifact" -> "artifact"

\* A row that refers to a missing one is refused, and the error swallowed.
DbRow(c) ==
  /\ At(c, "dbRow")
  /\ LET row == [id |-> job[c].id, kind |-> KindOf(job[c].op),
                 run |-> R(c), task |-> job[c].task]
         accepted == /\ c \in HasDb
                     /\ db.run[row.run] # None
                     /\ row.task = None \/ db.task[row.task] # None
     IN db' = IF accepted THEN [db EXCEPT !.rows = @ \cup {row}] ELSE db
  /\ Then(c, reg[c])
  /\ UNCHANGED <<files, mirrored>>

\* A run that is deleted from the database alone is not mirrored any more.
DbDelete(c) ==
  /\ At(c, "dbDelete")
  /\ db' = IF c \in HasDb THEN WithoutRun(R(c)) ELSE db
  /\ mirrored' = IF c \notin HasDb THEN mirrored
                 ELSE IF job[c].op = "deleteRun" THEN mirrored \ {R(c)}
                 ELSE mirrored \cup {R(c)}
  /\ Then(c, reg[c])
  /\ UNCHANGED files

\* The database refuses (it is locked, closed, or full), and the error is
\* swallowed.
DbFails(c) ==
  /\ c \in HasDb
  /\ At(c, "dbRun") \/ At(c, "dbTasks") \/ At(c, "dbRow") \/ At(c, "dbDelete")
  /\ Then(c, reg[c])
  /\ UNCHANGED <<files, mirror>>

Crash(c) ==
  /\ Busy(c) /\ crashes < MaxCrashes
  /\ crashes' = crashes + 1
  /\ job' = [job EXCEPT ![c] = None] /\ reg' = [reg EXCEPT ![c] = NoReg]
  /\ alone' = alone \ {c}
  /\ CutShort(c)
  /\ UNCHANGED <<files, mirror, ops>>

Asks(c) ==
  \/ CreateRun(c) \/ UpdateRunStatus(c) \/ AddRunError(c) \/ SaveTasks(c)
  \/ UpdateTaskStatus(c) \/ DuplicateRun(c) \/ DeleteRunData(c)
  \/ Clean(c) \/ ApiDeleteRun(c) \/ AppendToRun(c)
  \/ SaveRunState(c) \/ CreateArtifact(c)

Access(c) ==
  \/ LoadRun(c) \/ LoadSource(c) \/ NewRun(c) \/ SaveRun(c) \/ LoadTasks(c)
  \/ CopyTasks(c) \/ WriteTasks(c) \/ LoadTaskIndex(c) \/ SaveTaskIndex(c)
  \/ LoadIndex(c) \/ SaveIndex(c) \/ RemoveDir(c) \/ AppendLine(c)
  \/ WriteState(c) \/ DbRun(c) \/ DbTasks(c) \/ DbRow(c) \/ DbDelete(c)
  \/ DbFails(c)

Next == \E c \in Client : Asks(c) \/ Access(c) \/ Crash(c)

Spec == Init /\ [][Next]_vars

-----------------------------------------------------------------------------
(* Properties *)

Untouched(r) == \A c \in Client : Busy(c) => R(c) # r

\* The entry of a run is wrong only if its last operation that lists (a creation,
\* a change of status, a copy, RunManager.deleteRunData) was cut short or met
\* another one that lists, which is the lost update of updateRunIndex, or if
\* `flowtask clean` removed the run since.  Otherwise it has the status in
\* run.json and a deleted run has none, whatever updates of other entries were
\* lost before or since.  (An index that cannot be read is started afresh; that
\* is left out, and so is cleanupOldRuns, which nothing calls.)
IndexIsCurrent ==
  \A r \in settled : Untouched(r) => index[r] = StatusOf(run[r])

\* The row of a run has the status of its run.json if the last change of run.json
\* reached the database, whatever the database refused, was not told, or deleted
\* on its own before: the next change that reaches it makes up for all of that,
\* and no operation on another run disturbs it (RunManager.saveRun,
\* DatabaseManager.insertRun).
MirrorIsCurrent ==
  \A r \in mirrored : db.run[r] = StatusOf(run[r])

\* The counts of run.json agree with tasks.json: they are computed from the
\* list that was written, and no other edit of run.json brings back the
\* counts it loaded (RunManager.saveTasks).
CountsAgree ==
  \A r \in intact :
    Untouched(r) /\ run[r] # None /\ tasks[r] # None
      => run[r].done = DoneIn(tasks[r])

\* The change of status an operation is still to make.
Asked(c) ==
  IF ~Busy(c) THEN None
  ELSE LET ahead == ToSet(job[c].rest)
       IN IF "newRun" \in ahead THEN [run |-> R(c), to |-> "created"]
          ELSE IF "removeDir" \in ahead THEN [run |-> R(c), to |-> None]
          ELSE IF job[c].op = "updateRunStatus" /\ "saveRun" \in ahead
            THEN [run |-> R(c), to |-> job[c].to]
          ELSE None

Registry ==
  INSTANCE RunRegistry
    WITH status <- [r \in Run |-> StatusOf(run[r])],
         asked <- [c \in Client |-> Asked(c)]

\* When each run has one writer, its status changes as RunRegistry says,
\* although the files of all runs are loaded, edited and rewritten without a
\* lock and a writer may die anywhere: no edit of run.json other than
\* updateRunStatus changes the status, a copy begins as "created", and a
\* deleted run does not come back.
RegistrySpec == Registry!Spec

\* docs/design/TECHNICAL.md, "Event Store Design": the store "writes to both
\* on every append", so an event of events.jsonl of a run the database knows
\* can be found by queryEvents.
EventsQueryable ==
  \A r \in Run : \A e \in events[r] :
    (\A c \in Client : Busy(c) => job[c].id # e) /\ db.run[r] # None
      => \E row \in db.rows : row.id = e /\ row.run = r
=============================================================================
