----------------------------- MODULE RunLifecycle -----------------------------
(***************************************************************************)
(* One run of a workflow (src/core/run-lifecycle.ts) over its files        *)
(* run.json, tasks.json and the project's state.json, together with the    *)
(* CLI commands that act on a run from other processes: resume, retry,     *)
(* stop, pause, cancel, tasks-approve, tasks-deny and input.               *)
(*                                                                         *)
(* An element of Proc is a place where an orchestrating call (executeRun,  *)
(* continueRun or executeSingleTask) can be under way.  A call loads       *)
(* tasks.json once, into mem, and decides from mem; what it and the others *)
(* write goes to disk.  With ~Server every call is a CLI process of its    *)
(* own; with Server the calls share the memory of one API server.          *)
(*                                                                         *)
(* executeTask is what TaskCall says of it: it writes Marks and ends with  *)
(* one of Returns.                                                         *)
(*                                                                         *)
(* A task's status is written by updateTaskStatus, which loads the whole   *)
(* list, changes one task and saves the list, without a lock: a call keeps *)
(* the list it has loaded for its next write in list, a command in copy,   *)
(* and either writes that list back, whatever was saved in between.        *)
(***************************************************************************)
EXTENDS Integers, Sequences, FiniteSets, TaskStatus

CONSTANTS Proc,
          Order,         \* the tasks of the plan, in their order
          Deps,          \* task.dependsOn
          Gated,         \* tasks whose action type requires an approval gate
          Modes,         \* run.mode: "auto", "manual", "plan-only"
          Approvals,     \* approval configuration: "ask", "auto", "skip"
          Interactive,   \* an executor may stop to ask for input or approval
          Server,        \* the calls run in one long-lived API server
          LiveCommands,  \* commands are also given while a call is under way
          MaxRetryChoices, MaxCrashes, MaxCommands  \* bounds

Task == {Order[i] : i \in DOMAIN Order}

ASSUME OrderAssumption ==
  /\ Order \in Seq(Task)
  /\ \A i, j \in DOMAIN Order : Order[i] = Order[j] => i = j
ASSUME DepsAssumption == Deps \in [Task -> SUBSET Task]
ASSUME FlagAssumption ==
  Interactive \in BOOLEAN /\ Server \in BOOLEAN /\ LiveCommands \in BOOLEAN

VARIABLES
  run,       \* run.json: the status of the run
  project,   \* state.json: the status of the project ("idle": no active run)
  disk,      \* tasks.json: the status of each task
  mode, approval,
  pc, call,  \* per process: where the call is, and which call it is
  mem,       \* the call's own copy of the task list
  pos, ok,   \* loop index and runSuccess of executeTasks
  tty,       \* process.stdin.isTTY
  gates,     \* pendingGateApprovals
  session,   \* a waiting child is alive in InteractiveController
  retryChoices, crashes,
  list,      \* per process: tasks.json as its next updateTaskStatus loaded it
  command,   \* the command under way that marks tasks, "none" if there is none
  todo,      \* the tasks it has seen and is still going to mark
  copy,      \* tasks.json as its next updateTaskStatus loaded it
  given,     \* number of such commands
  late       \* history: a mark came too late, see Overwrites and Mark

store == <<run, project, disk>>
config == <<mode, approval>>
memory == <<tty, gates, session>>
bounds == <<retryChoices, crashes>>
marking == <<command, todo, copy, given>>
calls == <<config, pc, call, mem, pos, ok, memory, bounds>>
vars == <<store, calls, list, marking, late>>

RunStatus == {"none", "created", "planning", "running", "paused", "completed",
              "failed", "interrupted", "cancelled"}
ProjectStatus == {"idle", "has_running_run", "has_failed_run",
                  "has_interrupted_run"}
Executing == {"exec", "rejoin", "single"}
Pc == {"idle", "created", "planning", "planned", "started", "preview",
       "resuming", "resumed", "loop", "failed", "pausing", "finish", "report"}
        \cup Executing

DiskStatus == Statuses \cup {"absent"}
NoTasks == [t \in Task |-> "absent"]

StoreOK ==
  /\ run \in RunStatus /\ project \in ProjectStatus
  /\ disk \in [Task -> DiskStatus]

CallsOK ==
  /\ pc \in [Proc -> Pc]
  /\ call \in [Proc -> {"execute", "continue"}]
  /\ mem \in [Proc -> [Task -> DiskStatus]]
  /\ pos \in [Proc -> 1 .. Len(Order) + 1]
  /\ ok \in [Proc -> BOOLEAN]

MemoryOK ==
  /\ tty \in [Proc -> BOOLEAN] /\ session \in [Proc -> BOOLEAN]
  /\ gates \in [Proc -> SUBSET Task]

\* The loop looks at a task only inside the list.
InList ==
  \A p \in Proc : pc[p] \in Executing \cup {"failed"} => pos[p] <= Len(Order)

\* The statuses a command looks for, and the one it gives those tasks.
Seen ==
  [stop |-> {"running"}, cancel |-> {"running", "pending", "interrupted"},
   approve |-> {"waiting_approval"}, deny |-> {"waiting_approval"},
   input |-> Wait]
Given ==
  [stop |-> "interrupted", cancel |-> "cancelled", approve |-> "pending",
   deny |-> "skipped", input |-> "pending"]
Marking == DOMAIN Seen

CommandsOK ==
  /\ list \in [Proc -> [Task -> DiskStatus]]
  /\ command \in Marking \cup {"none", "stopping", "cancelling"}
  /\ todo \subseteq Task
  /\ todo # {} => command \in Marking
  /\ copy \in [Task -> DiskStatus]
  /\ late \in BOOLEAN

TypeOK == StoreOK /\ CallsOK /\ MemoryOK /\ InList /\ CommandsOK

Init ==
  /\ run = "none" /\ project = "idle" /\ disk = NoTasks
  /\ mode \in Modes /\ approval \in Approvals
  /\ pc = [p \in Proc |-> "idle"]
  /\ call = [p \in Proc |-> "execute"]
  /\ mem = [p \in Proc |-> NoTasks]
  /\ pos = [p \in Proc |-> 1]
  /\ ok = [p \in Proc |-> TRUE]
  /\ tty \in [Proc -> BOOLEAN]
  /\ gates = [p \in Proc |-> {}]
  /\ session = [p \in Proc |-> FALSE]
  /\ retryChoices = 0 /\ crashes = 0
  /\ list = [p \in Proc |-> NoTasks]
  /\ command = "none" /\ todo = {} /\ copy = NoTasks /\ given = 0
  /\ late = FALSE

-----------------------------------------------------------------------------
(* Helpers *)

Here(p) == Order[pos[p]]
Goto(p, label) == pc' = [pc EXCEPT ![p] = label]
SetDisk(p, t, s) == disk' = [list[p] EXCEPT ![t] = s]
SetMem(p, t, s) == mem' = [mem EXCEPT ![p][t] = s]

Advance(p) ==
  /\ Goto(p, "loop")
  /\ pos' = [pos EXCEPT ![p] = @ + 1]

\* The next call in this place is made by a new process.
NewProcess(p) ==
  /\ \E b \in BOOLEAN : tty' = [tty EXCEPT ![p] = b]
  /\ gates' = [gates EXCEPT ![p] = {}]
  /\ session' = [session EXCEPT ![p] = FALSE]

\* The call is over and its local variables are gone.
Forget(p) ==
  /\ Goto(p, "idle")
  /\ mem' = [mem EXCEPT ![p] = NoTasks]
  /\ pos' = [pos EXCEPT ![p] = 1]
  /\ ok' = [ok EXCEPT ![p] = TRUE]
  /\ UNCHANGED call

Leave(p) ==
  /\ Forget(p)
  /\ IF Server THEN UNCHANGED memory ELSE NewProcess(p)

EnterLoop(p, tasks) ==
  /\ Goto(p, "loop")
  /\ mem' = [mem EXCEPT ![p] = tasks]
  /\ pos' = [pos EXCEPT ![p] = 1]
  /\ ok' = [ok EXCEPT ![p] = TRUE]

-----------------------------------------------------------------------------
(* executeRun, up to the loop *)

Create(p) ==
  /\ pc[p] = "idle" /\ run = "none"
  /\ run' = "created"
  /\ call' = [call EXCEPT ![p] = "execute"]
  /\ Goto(p, "created")
  /\ UNCHANGED <<project, disk, config, mem, pos, ok, memory, bounds>>

Plan(p) ==
  /\ pc[p] = "created"
  /\ run' = "planning"
  /\ Goto(p, "planning")
  /\ UNCHANGED <<project, disk, config, call, mem, pos, ok, memory, bounds>>

\* The AI planner fails and may not be replaced: executeRun throws.
PlanFails(p) ==
  /\ pc[p] = "planning"
  /\ Leave(p)
  /\ UNCHANGED <<store, config, bounds>>

SavePlan(p) ==
  /\ pc[p] = "planning"
  /\ disk' = [t \in Task |-> "pending"]
  /\ Goto(p, "planned")
  /\ UNCHANGED <<run, project, config, call, mem, pos, ok, memory, bounds>>

Start(p) ==
  /\ pc[p] = "planned"
  /\ run' = "running"
  /\ Goto(p, "started")
  /\ UNCHANGED <<project, disk, config, call, mem, pos, ok, memory, bounds>>

Publish(p) ==
  /\ pc[p] = "started"
  /\ \/ /\ mode = "plan-only"
        /\ project' = "idle"
        /\ Goto(p, "preview")
        /\ UNCHANGED <<mem, pos, ok>>
     \/ /\ mode # "plan-only"
        /\ project' = "has_running_run"
        /\ EnterLoop(p, [t \in Task |-> "pending"])
  /\ UNCHANGED <<run, disk, config, call, memory, bounds>>

Preview(p) ==
  /\ pc[p] = "preview"
  /\ run' = "planning"
  /\ Leave(p)
  /\ UNCHANGED <<project, disk, config, bounds>>

-----------------------------------------------------------------------------
(* resume and continueRun *)

\* (Mutant: only tasks already marked interrupted are picked up.)
MutStale == {"interrupted"}

\* Statuses that resume takes for a task whose process is gone.
Stale == {"running", "interrupted"}

\* flowtask resume, first half: stale tasks are marked, or skipped on request.
Resume(p) ==
  /\ ~Server /\ pc[p] = "idle" /\ run \notin {"none", "completed"}
  /\ \E s \in {"interrupted", "skipped"} :
       disk' = [t \in Task |-> IF disk[t] \in Stale THEN s ELSE disk[t]]
  /\ mem' = [mem EXCEPT ![p] = disk']
  /\ call' = [call EXCEPT ![p] = "continue"]
  /\ Goto(p, "resuming")
  /\ UNCHANGED <<run, project, config, pos, ok, memory, bounds>>

\* With --dry-run the command ends here; the marks stay.
DryRun(p) ==
  /\ pc[p] = "resuming"
  /\ Leave(p)
  /\ UNCHANGED <<store, config, bounds>>

\* Second half: they become pending again and the run is running.
Requeue(p) ==
  /\ pc[p] = "resuming"
  /\ disk' = [t \in Task |->
                IF mem[p][t] = "interrupted" THEN "pending" ELSE disk[t]]
  /\ run' = "running"
  /\ Goto(p, "resumed")
  /\ UNCHANGED <<project, config, call, mem, pos, ok, memory, bounds>>

\* The server's resume calls continueRun alone.
ApiResume(p) ==
  /\ Server /\ pc[p] = "idle" /\ run # "none"
  /\ call' = [call EXCEPT ![p] = "continue"]
  /\ Goto(p, "resumed")
  /\ UNCHANGED <<store, config, mem, pos, ok, memory, bounds>>

\* (Mutant: every task that was not skipped or cancelled is taken up.)
MutEligible == {"pending", "interrupted", "done"} \cup Wait

Eligible == {"pending", "interrupted"} \cup Wait

\* continueRun reads the tasks that are there by now.
Continue(p) ==
  /\ pc[p] = "resumed"
  /\ \/ /\ \A t \in Task : disk[t] \notin Eligible
        /\ Leave(p)
     \/ /\ \E t \in Task : disk[t] \in Eligible
        /\ EnterLoop(p, disk)
        /\ UNCHANGED <<call, memory>>
  /\ UNCHANGED <<store, config, bounds>>

-----------------------------------------------------------------------------
(* executeTasks: one turn of the loop *)

LoopEnds(p) ==
  /\ pc[p] = "loop" /\ pos[p] > Len(Order)
  /\ Goto(p, "finish")
  /\ UNCHANGED <<store, config, call, mem, pos, ok, memory, bounds>>

AtTask(p) == pc[p] = "loop" /\ pos[p] <= Len(Order)

\* (Mutant: a failed dependency satisfies its dependents as well.)
MutDepsMet(p, t) ==
  \A d \in Deps[t] : mem[p][d] \in {"done", "failed", "skipped"}

DepsMet(p, t) == \A d \in Deps[t] : mem[p][d] \in {"done", "skipped"}

Ready(p) == AtTask(p) /\ mem[p][Here(p)] \in Eligible /\ DepsMet(p, Here(p))

\* (Mutant: the loop stays at a task whose dependencies are not met.)
MutPass(p) ==
  /\ AtTask(p) /\ ~Ready(p)
  /\ Goto(p, IF mem[p][Here(p)] \in Eligible THEN "loop" ELSE "finish")
  /\ UNCHANGED <<store, config, call, mem, pos, ok, memory, bounds>>

\* Not eligible, or waiting for dependencies.
Pass(p) ==
  /\ AtTask(p) /\ ~Ready(p)
  /\ Advance(p)
  /\ UNCHANGED <<store, config, call, mem, ok, memory, bounds>>

AsksEachTask == mode = "manual" /\ approval # "auto"

\* The user is asked for the task and declines; mem keeps the old status.
ManualDeny(p) ==
  /\ Ready(p) /\ AsksEachTask /\ tty[p] /\ approval = "ask"
  /\ SetDisk(p, Here(p), "skipped")
  /\ Advance(p)
  /\ UNCHANGED <<run, project, config, call, mem, ok, memory, bounds>>

\* Nobody can be asked: the task waits for another command.
ManualPark(p) ==
  /\ Ready(p) /\ AsksEachTask /\ ~tty[p]
  /\ SetDisk(p, Here(p), "waiting_approval")
  /\ Goto(p, "pausing")
  /\ UNCHANGED <<run, project, config, call, mem, pos, ok, memory, bounds>>

\* Approved, or not to be asked.
Cleared(p) == Ready(p) /\ (AsksEachTask => tty[p])
Waits(p) == mem[p][Here(p)] \in Wait

\* The child that waits is alive in this process: the task goes on with it.
Rejoin(p) ==
  /\ Cleared(p) /\ Waits(p) /\ session[p]
  /\ SetDisk(p, Here(p), "running")
  /\ session' = [session EXCEPT ![p] = FALSE]
  /\ Goto(p, "rejoin")
  /\ UNCHANGED <<run, project, config, call, mem, pos, ok, tty, gates, bounds>>

\* The prompt is put on the terminal; the answer restarts the task.
Reask(p) ==
  /\ Cleared(p) /\ ~session[p] /\ tty[p]
  /\ mem[p][Here(p)] = "waiting_input"
  /\ SetDisk(p, Here(p), "pending")
  /\ SetMem(p, Here(p), "pending")
  /\ UNCHANGED <<run, project, config, pc, call, pos, ok, memory, bounds>>

\* Left to another command: no terminal, an approval, or a cancelled prompt.
Park(p) ==
  /\ Cleared(p) /\ Waits(p) /\ ~session[p]
  /\ Goto(p, "pausing")
  /\ UNCHANGED <<store, config, call, mem, pos, ok, memory, bounds>>

\* An approval gate stands before the task and somebody is to be asked.
GateAsks(p) == Cleared(p) /\ ~Waits(p) /\ Here(p) \in Gated /\ approval = "ask"

\* No terminal: the gate is noted in memory, the run pauses.
GateHold(p) ==
  /\ GateAsks(p) /\ ~tty[p] /\ Here(p) \notin gates[p]
  /\ gates' = [gates EXCEPT ![p] = @ \cup {Here(p)}]
  /\ Goto(p, "pausing")
  /\ UNCHANGED <<store, config, call, mem, pos, ok, tty, session, bounds>>

\* Declined on the terminal, or noted before and still undecided after an hour.
GateReject(p) ==
  /\ GateAsks(p) /\ (tty[p] \/ Here(p) \in gates[p])
  /\ SetDisk(p, Here(p), "skipped")
  /\ Advance(p)
  /\ UNCHANGED <<run, project, config, call, mem, ok, memory, bounds>>

\* executeTask is called; its first write marks the task running.
Execute(p) ==
  /\ Cleared(p) /\ ~Waits(p)
  /\ GateAsks(p) => tty[p]
  /\ SetDisk(p, Here(p), "running")
  /\ Goto(p, "exec")
  /\ UNCHANGED <<run, project, config, call, mem, pos, ok, memory, bounds>>

-----------------------------------------------------------------------------
(* The call of executeTask *)

\* On a terminal the executor's questions are answered inside the call.
ExecMark(p) ==
  /\ Interactive /\ pc[p] \in Executing
  /\ \E s \in Marks : SetDisk(p, Here(p), s)
  /\ UNCHANGED <<run, project, config, pc, call, mem, pos, ok, memory, bounds>>

Returned(p, value) ==
  \E s \in Statuses : <<value, s>> \in Returns /\ SetDisk(p, Here(p), s)

ExecDone(p) ==
  /\ pc[p] = "exec"
  /\ Returned(p, "true")
  /\ SetMem(p, Here(p), "done")
  /\ Advance(p)
  /\ UNCHANGED <<run, project, config, call, ok, memory, bounds>>

ExecFailed(p) ==
  /\ pc[p] = "exec"
  /\ Returned(p, "false")
  /\ SetMem(p, Here(p), "failed")
  /\ Goto(p, "failed")
  /\ UNCHANGED <<run, project, config, call, pos, ok, memory, bounds>>

\* (Mutant: the waiting status is not written.)
MutExecWaits(p) ==
  /\ Interactive /\ pc[p] \in {"exec", "rejoin"}
  /\ \E b \in BOOLEAN : session' = [session EXCEPT ![p] = b]
  /\ Goto(p, "pausing")
  /\ UNCHANGED <<store, config, call, mem, pos, ok, tty, gates, bounds>>

ExecWaits(p) ==
  /\ Interactive /\ pc[p] \in {"exec", "rejoin"}
  /\ \E w \in Wait : Returned(p, w)
  /\ \E b \in BOOLEAN : session' = [session EXCEPT ![p] = b]
  /\ Goto(p, "pausing")
  /\ UNCHANGED <<run, project, config, call, mem, pos, ok, tty, gates, bounds>>

\* A rejoined task that succeeds is not noted in mem.
RejoinDone(p) ==
  /\ pc[p] = "rejoin"
  /\ Returned(p, "true")
  /\ Advance(p)
  /\ UNCHANGED <<run, project, config, call, mem, ok, memory, bounds>>

RejoinFailed(p) ==
  /\ pc[p] = "rejoin"
  /\ Returned(p, "false")
  /\ ok' = [ok EXCEPT ![p] = FALSE]
  /\ Goto(p, "finish")
  /\ UNCHANGED <<run, project, config, call, mem, pos, memory, bounds>>

-----------------------------------------------------------------------------
(* A task has failed *)

\* Chosen by the user, or by itself when nobody can be asked.
FailSkip(p) ==
  /\ pc[p] = "failed"
  /\ SetDisk(p, Here(p), "skipped")
  /\ Advance(p)
  /\ UNCHANGED <<run, project, config, call, mem, ok, memory, bounds>>

\* Disabled approvals do not keep this question from being asked.
CanChoose(p) == tty[p] /\ approval # "auto"

\* The whole list is saved from the loop's own copy.
FailRetry(p) ==
  /\ pc[p] = "failed" /\ CanChoose(p)
  /\ retryChoices < MaxRetryChoices
  /\ retryChoices' = retryChoices + 1
  /\ SetMem(p, Here(p), "pending")
  /\ disk' = mem'[p]
  /\ Goto(p, "loop")
  /\ UNCHANGED <<run, project, config, call, pos, ok, memory, crashes>>

FailStop(p) ==
  /\ pc[p] = "failed" /\ CanChoose(p)
  /\ ok' = [ok EXCEPT ![p] = FALSE]
  /\ Goto(p, "finish")
  /\ UNCHANGED <<store, config, call, mem, pos, memory, bounds>>

-----------------------------------------------------------------------------
(* After the loop *)

\* continueRun only reports; executeRun marks run and project.
Pausing(p) ==
  /\ pc[p] = "pausing"
  /\ \/ /\ call[p] = "execute"
        /\ run' = "paused" /\ project' = "has_running_run"
     \/ call[p] = "continue" /\ UNCHANGED <<run, project>>
  /\ Leave(p)
  /\ UNCHANGED <<disk, config, bounds>>

FinishContinued(p) ==
  /\ pc[p] = "finish" /\ call[p] = "continue"
  /\ Leave(p)
  /\ UNCHANGED <<store, config, bounds>>

\* The quality gate runs only after a success, and may fail the run.
Finish(p) ==
  /\ pc[p] = "finish" /\ call[p] = "execute"
  /\ \E quality \in BOOLEAN :
       run' = IF ok[p] /\ quality THEN "completed" ELSE "failed"
  /\ Goto(p, "report")
  /\ UNCHANGED <<project, disk, config, call, mem, pos, ok, memory, bounds>>

\* The project's state follows the tasks' result, not the run's status.
Report(p) ==
  /\ pc[p] = "report"
  /\ project' = IF ok[p] THEN "idle" ELSE "has_failed_run"
  /\ Leave(p)
  /\ UNCHANGED <<run, disk, config, bounds>>

-----------------------------------------------------------------------------
(* flowtask retry: executeSingleTask, then continueRun on request *)

RetryTask(p) ==
  /\ ~Server /\ pc[p] = "idle"
  /\ \E i \in DOMAIN Order :
       /\ disk[Order[i]] \in {"failed", "interrupted"}
       /\ pos' = [pos EXCEPT ![p] = i]
       /\ disk' = [disk EXCEPT ![Order[i]] = "running"]
  /\ mem' = [mem EXCEPT ![p] = disk]
  /\ call' = [call EXCEPT ![p] = "continue"]
  /\ Goto(p, "single")
  /\ UNCHANGED <<run, project, config, ok, memory, bounds>>

RetryEnds(p) ==
  /\ pc[p] = "single"
  /\ \E v \in Values :
       /\ v \in Wait => Interactive
       /\ Returned(p, v)
       /\ \/ Leave(p)
          \/ /\ v # "false" /\ \E t \in Task : mem[p][t] = "pending"
             /\ Goto(p, "resumed")
             /\ UNCHANGED <<call, mem, pos, ok, memory>>
  /\ UNCHANGED <<run, project, config, bounds>>

-----------------------------------------------------------------------------
(* Other processes, and failures *)

\* A waiting child ends while no call looks at it.
SessionEnds(p) ==
  /\ session[p]
  /\ session' = [session EXCEPT ![p] = FALSE]
  /\ UNCHANGED <<store, config, pc, call, mem, pos, ok, tty, gates, bounds>>

Crash(p) ==
  /\ pc[p] # "idle" /\ crashes < MaxCrashes
  /\ crashes' = crashes + 1
  /\ Forget(p) /\ NewProcess(p)
  /\ UNCHANGED <<store, config, retryChoices>>

\* A hook that may not fail throws: the call is left where it is, with the task
\* it was at still running, while the process may live on.
HookThrows(p) ==
  /\ pc[p] # "idle" /\ crashes < MaxCrashes
  /\ crashes' = crashes + 1
  /\ Leave(p)
  /\ UNCHANGED <<store, config, retryChoices>>

CommandsAllowed == LiveCommands \/ \A p \in Proc : pc[p] = "idle"
Begins ==
  /\ CommandsAllowed /\ command = "none"
  /\ given < MaxCommands /\ given' = given + 1

\* tasks.json is read and the tasks to be marked are picked from it.
Sees(kind, tasks) ==
  /\ command' = kind /\ todo' = tasks /\ copy' = disk

\* Only the executor's child is signalled: an orchestrating call goes on.
Stop ==
  /\ Begins /\ project # "idle"
  /\ run' = "interrupted" /\ command' = "stopping"
  /\ UNCHANGED <<project, disk, calls, list, todo, copy, late>>

Cancel ==
  /\ Begins /\ run \notin {"none", "completed", "cancelled"}
  /\ run' = "cancelled" /\ command' = "cancelling"
  /\ UNCHANGED <<project, disk, calls, list, todo, copy, late>>

\* The tasks are read after the run's status is written.
Reads ==
  /\ \/ command = "stopping" /\ Sees("stop", {t \in Task : disk[t] \in Seen.stop})
     \/ command = "cancelling"
        /\ Sees("cancel", {t \in Task : disk[t] \in Seen.cancel})
  /\ UNCHANGED <<store, calls, list, given, late>>

TasksApprove(t) ==
  /\ Begins /\ disk[t] = "waiting_approval"
  /\ Sees("approve", {t})
  /\ UNCHANGED <<store, calls, list, late>>

TasksDeny(t) ==
  /\ Begins /\ disk[t] = "waiting_approval"
  /\ Sees("deny", {t})
  /\ UNCHANGED <<store, calls, list, late>>

\* The text has no session to go to in a process of its own: only the waiting
\* statuses are reset.
Input ==
  /\ Begins /\ \E t \in Task : disk[t] \in Wait
  /\ Sees("input", {t \in Task : disk[t] \in Wait})
  /\ UNCHANGED <<store, calls, list, late>>

\* One task after the other, in the order of the list, whatever its status has
\* become.  Too late: the list was saved by somebody else after it was loaded
\* here, or the task is no longer what the command saw.
Mark(t) ==
  /\ \E i \in DOMAIN Order :
       /\ Order[i] = t /\ t \in todo
       /\ \A j \in 1 .. i - 1 : Order[j] \notin todo
  /\ disk' = [copy EXCEPT ![t] = Given[command]]
  /\ todo' = todo \ {t}
  /\ copy' = disk'
  /\ late' = (late \/ copy # disk \/ disk[t] \notin Seen[command])
  /\ UNCHANGED <<run, project, calls, list, command, given>>

\* The project's state is saved last.
Ends ==
  /\ command \in Marking /\ todo = {}
  /\ project' = CASE command = "stop" -> "has_interrupted_run"
                  [] command = "cancel" -> "idle"
                  [] OTHER -> project
  /\ command' = "none" /\ copy' = NoTasks
  /\ UNCHANGED <<run, disk, calls, list, todo, given, late>>

\* The command is killed between two of its steps.
CommandDies ==
  /\ command # "none"
  /\ command' = "none" /\ todo' = {} /\ copy' = NoTasks
  /\ UNCHANGED <<store, calls, list, given, late>>

Pause ==
  /\ CommandsAllowed /\ run \in {"running", "created"}
  /\ run' = "paused"
  /\ UNCHANGED <<project, disk, calls, list, marking, late>>

\* The server's cancel leaves the tasks alone, and asks for no status.
ApiCancel ==
  /\ Server /\ CommandsAllowed /\ run # "none"
  /\ run' = "cancelled" /\ project' = "idle"
  /\ UNCHANGED <<disk, calls, list, marking, late>>

\* Whoever writes a task next may load the list at any time before.
Load(p) ==
  /\ pc[p] # "idle" /\ list[p] # disk
  /\ list' = [list EXCEPT ![p] = disk]
  /\ UNCHANGED <<store, calls, marking, late>>

Reload ==
  /\ todo # {} /\ copy # disk
  /\ copy' = disk
  /\ UNCHANGED <<store, calls, list, command, todo, given, late>>

-----------------------------------------------------------------------------
(* Specification *)

\* What a call does once it is under way, the user's answers included.
Step(p) ==
  \/ Plan(p) \/ PlanFails(p) \/ SavePlan(p) \/ Start(p) \/ Publish(p)
  \/ Preview(p) \/ DryRun(p) \/ Requeue(p) \/ Continue(p)
  \/ LoopEnds(p) \/ Pass(p)
  \/ ManualDeny(p) \/ ManualPark(p) \/ Rejoin(p) \/ Reask(p) \/ Park(p)
  \/ GateHold(p) \/ GateReject(p) \/ Execute(p) \/ ExecDone(p) \/ ExecFailed(p)
  \/ ExecWaits(p) \/ RejoinDone(p) \/ RejoinFailed(p) \/ FailSkip(p)
  \/ FailRetry(p) \/ FailStop(p) \/ Pausing(p) \/ FinishContinued(p)
  \/ Finish(p) \/ Report(p) \/ RetryEnds(p)

NewCall(p) ==
  /\ LiveCommands \/ command = "none"
  /\ Create(p) \/ Resume(p) \/ ApiResume(p) \/ RetryTask(p)

\* Everything the place p does.
Acts(p) ==
  Step(p) \/ NewCall(p) \/ ExecMark(p) \/ SessionEnds(p) \/ Crash(p)
  \/ HookThrows(p)

\* The call saves a list that somebody else has saved since it was loaded.
Overwrites(p) == disk' # disk /\ list[p] # disk

\* The next load of a call comes after all it has done so far.
Around(p) ==
  /\ list' = [list EXCEPT ![p] = IF pc'[p] = "idle" THEN NoTasks ELSE disk']
  /\ late' = (late \/ (pc[p] # "idle" /\ Overwrites(p)))
  /\ UNCHANGED marking

Command ==
  \/ Stop \/ Cancel \/ Reads \/ Input \/ Ends \/ CommandDies
  \/ \E t \in Task : TasksApprove(t) \/ TasksDeny(t) \/ Mark(t)
  \/ Pause \/ ApiCancel \/ Reload

Next ==
  \/ \E p \in Proc : (Acts(p) /\ Around(p)) \/ Load(p)
  \/ Command

Spec == Init /\ [][Next]_vars

\* A question on the terminal is put to the user.
Asked(p) ==
  /\ tty[p]
  /\ \/ Ready(p) /\ AsksEachTask /\ approval = "ask"
     \/ Cleared(p) /\ ~session[p] /\ mem[p][Here(p)] = "waiting_input"
     \/ GateAsks(p)
     \/ pc[p] = "failed" /\ CanChoose(p)

\* What a call waits for without a time limit: an executor (the shell executor
\* sets none), the planner's answer (a stream may go on for ever), the user.
Waiting(p) == pc[p] \in Executing \cup {"planning"} \/ Asked(p)

Goes(p) == Step(p) /\ Around(p)

\* Node resumes a call after every other await; a gate nobody decides runs into
\* its time limit.
FairSpec == Spec /\ \A p \in Proc : WF_vars(~Waiting(p) /\ Goes(p))

CommandGoesOn == Reads \/ Ends \/ Reload \/ \E t \in Task : Mark(t)

\* Executors end, the planner and the user answer, and the user keeps resuming a
\* run that is not completed, not only with --dry-run.  Strong fairness: between
\* two resumes there may be other commands that keep the place busy.
ResumingSpec ==
  /\ Spec /\ WF_vars(CommandGoesOn)
  /\ \A p \in Proc : /\ WF_vars(Goes(p))
                     /\ SF_vars((Resume(p) \/ ApiResume(p)) /\ NewCall(p) /\ Around(p))
                     /\ SF_vars(Requeue(p) /\ Around(p))

-----------------------------------------------------------------------------
(* Properties *)

\* A task is executed only while all it depends on is done or skipped in
\* tasks.json, although the loop decides from a copy it loaded long before.  This
\* is for one call of the run at a time, and until a write comes too late: a
\* command that marks a task which has meanwhile finished takes the ground from
\* under the tasks that depend on it.
DepsSettled ==
  ~late => \A p \in Proc : pc[p] \in Executing =>
             \A d \in Deps[Here(p)] : disk[d] \in {"done", "skipped"}

\* As long as no process died, no hook threw and no write came too late,
\* tasks.json shows a task running only while a call executes it: every way out
\* of a call and every command clears it.
RunningIsExecuted ==
  ~late /\ crashes = 0 => \A t \in Task : disk[t] = "running" =>
    \E p \in Proc : pc[p] \in Executing /\ Here(p) = t

\* A task that is done stays done: no resume, retry of another task or command
\* makes the next loop do the work again, unless a write comes too late.
DoneIsFinal ==
  [][~late' => \A t \in Task : disk[t] = "done" => disk'[t] = "done"]_vars

\* After crashes, a run that is resumed settles every task that was cut off.
Recovers ==
  \A t \in Task : disk[t] \in {"running", "interrupted"}
    ~> disk[t] \in {"done", "failed", "skipped", "cancelled"}
=============================================================================
