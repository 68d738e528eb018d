-------------------------- MODULE RunLifecycleProofs --------------------------
(***************************************************************************)
(* What holds of a run for any plan, any number of places for calls, any   *)
(* approval configuration and any number of crashes and retry choices.     *)
(***************************************************************************)
EXTENDS RunLifecycle, TLAPS

-----------------------------------------------------------------------------
(* Types *)

BoundsOK == retryChoices \in Nat /\ crashes \in Nat
Types == TypeOK /\ BoundsOK

LEMMA PlanLength == Len(Order) \in Nat /\ DOMAIN Order = 1 .. Len(Order)
BY OrderAssumption

LEMMA HereIsTask ==
  ASSUME CallsOK, NEW p \in Proc, pos[p] <= Len(Order)
  PROVE  Here(p) \in Task
<1>1. pos[p] \in DOMAIN Order
  BY PlanLength DEF CallsOK
<1> QED
  BY <1>1 DEF Here, Task

\* What a call writes is a list with one status changed.
LEMMA WriteTypes ==
  ASSUME CommandsOK, NEW p \in Proc, NEW t, NEW s \in Statuses,
         SetDisk(p, t, s)
  PROVE  disk' \in [Task -> DiskStatus]
BY DEF CommandsOK, SetDisk, DiskStatus

LEMMA ReturnedTypes ==
  ASSUME CommandsOK, NEW p \in Proc, NEW v, Returned(p, v)
  PROVE  disk' \in [Task -> DiskStatus]
BY WriteTypes, Zenon DEF Returned

\* The kinds of commands that mark tasks.
LEMMA Kinds ==
  /\ Marking = {"stop", "cancel", "approve", "deny", "input"}
  /\ Seen["stop"] = {"running"} /\ Given["stop"] = "interrupted"
  /\ Seen["cancel"] = {"running", "pending", "interrupted"}
  /\ Given["cancel"] = "cancelled"
  /\ Seen["approve"] = {"waiting_approval"} /\ Given["approve"] = "pending"
  /\ Seen["deny"] = {"waiting_approval"} /\ Given["deny"] = "skipped"
  /\ Seen["input"] = Wait /\ Given["input"] = "pending"
BY DEF Marking, Seen, Given

\* A mark is a status, and is set on a task of the list.
LEMMA MarkTypes ==
  ASSUME CommandsOK, NEW t, Mark(t)
  PROVE  /\ t \in Task /\ t \in todo /\ command \in Marking
         /\ Given[command] \in DiskStatus
         /\ disk' \in [Task -> DiskStatus]
<1>1. t \in Task /\ t \in todo /\ command \in Marking
  BY DEF CommandsOK, Mark
<1>2. Given[command] \in DiskStatus
  BY <1>1, Kinds DEF DiskStatus, Statuses
<1> QED
  BY <1>1, <1>2 DEF CommandsOK, Mark

\* No command touches what is in a call or in a process.
LEMMA CommandLeavesCalls == Command => UNCHANGED <<calls, list>>
BY Zenon DEF Command, Stop, Cancel, Reads, Input, Ends, CommandDies,
             TasksApprove, TasksDeny, Mark, Pause, ApiCancel, Reload

\* Every step of a call or a command leaves well-formed files.
LEMMA StoreTypes == Types /\ [Next]_vars => StoreOK'
<1> SUFFICES ASSUME Types, [Next]_vars PROVE StoreOK'
  OBVIOUS
<1> USE DEF Types, TypeOK, StoreOK, CallsOK, store, DiskStatus, Statuses, Wait
<1>1. CASE UNCHANGED vars
  BY <1>1 DEF vars
<1>2. ASSUME NEW p \in Proc, UNCHANGED store PROVE StoreOK'
  BY <1>2
<1>3. ASSUME NEW p \in Proc,
             \/ Create(p) \/ Plan(p) \/ SavePlan(p) \/ Start(p) \/ Publish(p)
             \/ Preview(p) \/ Resume(p) \/ Requeue(p)
      PROVE  StoreOK'
  BY <1>3 DEF Create, Plan, SavePlan, Start, Publish, Preview, Resume,
              Requeue, RunStatus, ProjectStatus
<1>4. ASSUME NEW p \in Proc,
             \/ ManualDeny(p) \/ ManualPark(p) \/ Rejoin(p) \/ Reask(p)
             \/ GateReject(p) \/ Execute(p) \/ FailSkip(p)
      PROVE  StoreOK'
  <2>1. UNCHANGED <<run, project>>
    BY <1>4 DEF ManualDeny, ManualPark, Rejoin, Reask, GateReject, Execute,
                FailSkip
  <2>2. \E s \in {"skipped", "waiting_approval", "running", "pending"} :
          SetDisk(p, Here(p), s)
    BY <1>4, Zenon
       DEF ManualDeny, ManualPark, Rejoin, Reask, GateReject, Execute, FailSkip
  <2>3. disk' \in [Task -> DiskStatus]
    <3>1. {"skipped", "waiting_approval", "running", "pending"} \subseteq Statuses
      OBVIOUS
    <3> HIDE DEF StoreOK, DiskStatus, Statuses, Wait
    <3> QED
      BY <2>2, <3>1, WriteTypes
  <2> QED
    BY <2>1, <2>3
<1>5. ASSUME NEW p \in Proc,
             \/ ExecMark(p) \/ ExecDone(p) \/ ExecFailed(p) \/ ExecWaits(p)
             \/ RejoinDone(p) \/ RejoinFailed(p)
      PROVE  StoreOK'
  <2>1. UNCHANGED <<run, project>>
    BY <1>5 DEF ExecMark, ExecDone, ExecFailed, ExecWaits, RejoinDone,
                RejoinFailed
  <2>2. disk' \in [Task -> DiskStatus]
    <3>1. Marks \subseteq Statuses
      BY DEF Marks
    <3> HIDE DEF StoreOK, DiskStatus, Statuses, Wait
    <3> QED
      BY <1>5, <3>1, WriteTypes, ReturnedTypes, Zenon
         DEF ExecMark, ExecDone, ExecFailed, ExecWaits, RejoinDone,
             RejoinFailed
  <2> QED
    BY <2>1, <2>2
<1>6. ASSUME NEW p \in Proc, FailRetry(p) PROVE StoreOK'
  BY <1>6 DEF FailRetry, SetMem
<1>7. ASSUME NEW p \in Proc, Pausing(p) \/ Finish(p) \/ Report(p)
      PROVE  StoreOK'
  BY <1>7 DEF Pausing, Finish, Report, RunStatus, ProjectStatus
<1>8. ASSUME NEW p \in Proc, RetryTask(p) \/ RetryEnds(p) PROVE StoreOK'
  <2>1. CASE RetryTask(p)
    BY <2>1 DEF RetryTask
  <2>2. CASE RetryEnds(p)
    <3>1. UNCHANGED <<run, project>> /\ \E v : Returned(p, v)
      BY <2>2, Zenon DEF RetryEnds
    <3> HIDE DEF DiskStatus, Statuses, Wait
    <3>2. disk' \in [Task -> DiskStatus]
      BY <3>1, ReturnedTypes
    <3> QED
      BY <3>1, <3>2
  <2> QED
    BY <1>8, <2>1, <2>2
<1>9. CASE Command
  <2>1. CASE \E t \in Task : Mark(t)
    <3>1. UNCHANGED <<run, project>>
      BY <2>1 DEF Mark
    <3>2. disk' \in [Task -> DiskStatus]
      BY <2>1, MarkTypes, Zenon
    <3> QED
      BY <3>1, <3>2
  <2>2. CASE Stop \/ Cancel \/ Ends \/ Pause \/ ApiCancel
    BY <2>2 DEF Stop, Cancel, Ends, Pause, ApiCancel, RunStatus, ProjectStatus
  <2>3. CASE \/ Reads \/ Input \/ CommandDies \/ Reload
             \/ \E t \in Task : TasksApprove(t) \/ TasksDeny(t)
    BY <2>3 DEF Reads, Input, CommandDies, Reload, TasksApprove, TasksDeny
  <2> QED
    BY <1>9, <2>1, <2>2, <2>3 DEF Command
<1>10. ASSUME NEW p \in Proc,
              \/ PlanFails(p) \/ DryRun(p) \/ ApiResume(p) \/ Continue(p)
              \/ LoopEnds(p) \/ Pass(p) \/ Park(p) \/ GateHold(p)
              \/ FailStop(p) \/ FinishContinued(p) \/ SessionEnds(p)
              \/ Crash(p) \/ HookThrows(p) \/ Load(p)
       PROVE  UNCHANGED store
  BY <1>10 DEF PlanFails, DryRun, ApiResume, Continue, LoopEnds, Pass, Park,
               GateHold, FailStop, FinishContinued, SessionEnds, Crash,
               HookThrows, Load
<1> QED
  BY <1>1, <1>2, <1>3, <1>4, <1>5, <1>6, <1>7, <1>8, <1>9, <1>10
     DEF Next, Acts, Step, NewCall

\* The updates of a call's local variables.
LEMMA GotoTypes ==
  ASSUME CallsOK, NEW p \in Proc, NEW label \in Pc, Goto(p, label)
  PROVE  pc' \in [Proc -> Pc]
BY DEF CallsOK, Goto

LEMMA AdvanceTypes ==
  ASSUME CallsOK, NEW p \in Proc, pos[p] <= Len(Order), Advance(p)
  PROVE  pc' \in [Proc -> Pc] /\ pos' \in [Proc -> 1 .. Len(Order) + 1]
<1>1. "loop" \in Pc
  BY DEF Pc
<1> QED
  BY <1>1, PlanLength DEF CallsOK, Advance, Goto

LEMMA NoteTypes ==
  ASSUME CallsOK, NEW p, NEW t, NEW s \in DiskStatus, SetMem(p, t, s)
  PROVE  mem' \in [Proc -> [Task -> DiskStatus]]
BY DEF CallsOK, SetMem

LEMMA ForgetTypes == ASSUME CallsOK, NEW p \in Proc, Forget(p) PROVE CallsOK'
<1>1. "idle" \in Pc /\ "absent" \in DiskStatus
  BY DEF Pc, DiskStatus
<1> QED
  BY <1>1, PlanLength DEF CallsOK, Forget, Goto, NoTasks

LEMMA EnterTypes ==
  ASSUME CallsOK, NEW p \in Proc, NEW tasks \in [Task -> DiskStatus],
         EnterLoop(p, tasks), UNCHANGED call
  PROVE  CallsOK'
<1>1. "loop" \in Pc
  BY DEF Pc
<1> QED
  BY <1>1, PlanLength DEF CallsOK, EnterLoop, Goto

\* The local variables of the calls.  pos grows past the list by one at most,
\* because the loop only advances from inside it.
LEMMA CallTypes == Types /\ [Next]_vars => CallsOK'
<1> SUFFICES ASSUME Types, [Next]_vars PROVE CallsOK'
  OBVIOUS
<1> USE DEF Types, TypeOK
<1>L. /\ {"idle", "created", "planning", "planned", "started", "preview",
          "resuming", "resumed", "loop", "exec", "rejoin", "single", "failed",
          "pausing", "finish", "report"} \subseteq Pc
      /\ {"pending", "done", "failed"} \subseteq DiskStatus
  BY DEF Pc, Executing, DiskStatus, Statuses
<1>1. CASE UNCHANGED vars
  BY <1>1 DEF vars, calls, CallsOK
<1>2. ASSUME NEW p \in Proc,
             \/ Create(p) \/ Plan(p) \/ SavePlan(p) \/ Start(p) \/ Requeue(p)
             \/ ApiResume(p) \/ LoopEnds(p)
      PROVE  CallsOK'
  BY <1>L, <1>2 DEF Create, Plan, SavePlan, Start, Requeue, ApiResume,
                    LoopEnds, Goto, CallsOK
<1>3. ASSUME NEW p \in Proc,
             \/ PlanFails(p) \/ Preview(p) \/ DryRun(p) \/ Pausing(p)
             \/ FinishContinued(p) \/ Report(p) \/ Crash(p) \/ HookThrows(p)
      PROVE  CallsOK'
  BY <1>3, ForgetTypes, Zenon
     DEF PlanFails, Preview, DryRun, Pausing, FinishContinued, Report, Crash,
         HookThrows, Leave
<1>4. ASSUME NEW p \in Proc, Publish(p) PROVE CallsOK'
  <2>1. CASE Goto(p, "preview") /\ UNCHANGED <<call, mem, pos, ok>>
    BY <1>L, <2>1 DEF CallsOK, Goto
  <2>2. CASE EnterLoop(p, [t \in Task |-> "pending"]) /\ UNCHANGED call
    <3>1. [t \in Task |-> "pending"] \in [Task -> DiskStatus]
      BY <1>L
    <3> QED
      BY <2>2, <3>1, EnterTypes
  <2> QED
    BY <1>4, <2>1, <2>2 DEF Publish
<1>5. ASSUME NEW p \in Proc, Resume(p) PROVE CallsOK'
  <2>1. disk' \in [Task -> DiskStatus]
    BY <1>5, StoreTypes DEF StoreOK
  <2> QED
    BY <1>L, <1>5, <2>1 DEF Resume, Goto, CallsOK
<1>6. ASSUME NEW p \in Proc, Continue(p) PROVE CallsOK'
  <2>1. CASE Leave(p)
    BY <2>1, ForgetTypes DEF Leave
  <2>2. CASE EnterLoop(p, disk) /\ UNCHANGED call
    BY <2>2, EnterTypes DEF StoreOK
  <2> QED
    BY <1>6, <2>1, <2>2 DEF Continue
<1>7. ASSUME NEW p \in Proc, Pass(p) \/ ManualDeny(p) \/ GateReject(p)
      PROVE  CallsOK'
  <2>1. pos[p] <= Len(Order) /\ Advance(p) /\ UNCHANGED <<call, mem, ok>>
    BY <1>7 DEF Pass, ManualDeny, GateReject, GateAsks, Cleared, Ready, AtTask
  <2> QED
    BY <2>1, AdvanceTypes DEF CallsOK
<1>8. ASSUME NEW p \in Proc,
             \/ ManualPark(p) \/ Rejoin(p) \/ Park(p) \/ GateHold(p)
             \/ Execute(p) \/ ExecWaits(p)
      PROVE  CallsOK'
  <2>1. /\ UNCHANGED <<call, mem, pos, ok>>
        /\ Goto(p, "pausing") \/ Goto(p, "exec") \/ Goto(p, "rejoin")
    BY <1>8 DEF ManualPark, Rejoin, Park, GateHold, Execute, ExecWaits
  <2> QED
    BY <1>L, <2>1, GotoTypes DEF CallsOK
<1>9. ASSUME NEW p \in Proc, RejoinFailed(p) \/ FailStop(p) \/ Finish(p)
      PROVE  CallsOK'
  BY <1>L, <1>9 DEF RejoinFailed, FailStop, Finish, Goto, CallsOK
<1>10. ASSUME NEW p \in Proc,
              ExecFailed(p) \/ FailRetry(p) \/ Reask(p)
       PROVE  CallsOK'
  <2>1. /\ UNCHANGED <<call, pos, ok>>
        /\ Goto(p, "failed") \/ Goto(p, "loop") \/ UNCHANGED pc
    BY <1>10 DEF ExecFailed, FailRetry, Reask
  <2>2. SetMem(p, Here(p), "failed") \/ SetMem(p, Here(p), "pending")
    BY <1>10 DEF ExecFailed, FailRetry, Reask
  <2>3. mem' \in [Proc -> [Task -> DiskStatus]]
    BY <1>L, <2>2, NoteTypes
  <2> QED
    BY <1>L, <2>1, <2>3, GotoTypes DEF CallsOK
<1>11. ASSUME NEW p \in Proc, ExecDone(p) \/ RejoinDone(p) \/ FailSkip(p)
       PROVE  CallsOK'
  <2>1. pos[p] <= Len(Order)
    BY <1>11 DEF ExecDone, RejoinDone, FailSkip, InList, Executing
  <2>2. Advance(p) /\ UNCHANGED <<call, ok>>
    BY <1>11 DEF ExecDone, RejoinDone, FailSkip
  <2>3. SetMem(p, Here(p), "done") \/ UNCHANGED mem
    BY <1>11 DEF ExecDone, RejoinDone, FailSkip
  <2>4. mem' \in [Proc -> [Task -> DiskStatus]]
    BY <1>L, <2>3, NoteTypes DEF CallsOK
  <2> QED
    BY <2>1, <2>2, <2>4, AdvanceTypes DEF CallsOK
<1>12. ASSUME NEW p \in Proc, RetryTask(p) PROVE CallsOK'
  <2>1. \E i \in DOMAIN Order : pos' = [pos EXCEPT ![p] = i]
    BY <1>12, Zenon DEF RetryTask
  <2>2. pos' \in [Proc -> 1 .. Len(Order) + 1]
    BY <2>1, PlanLength DEF CallsOK
  <2> QED
    BY <1>L, <1>12, <2>2 DEF RetryTask, Goto, CallsOK, StoreOK
<1>13. ASSUME NEW p \in Proc, RetryEnds(p) PROVE CallsOK'
  <2>1. CASE Leave(p)
    BY <2>1, ForgetTypes DEF Leave
  <2>2. CASE Goto(p, "resumed") /\ UNCHANGED <<call, mem, pos, ok>>
    BY <1>L, <2>2, GotoTypes DEF CallsOK
  <2> QED
    BY <1>13, <2>1, <2>2, Zenon DEF RetryEnds
<1>14. ASSUME NEW p \in Proc, ExecMark(p) \/ SessionEnds(p) PROVE CallsOK'
  BY <1>14 DEF ExecMark, SessionEnds, CallsOK
<1>15. ASSUME NEW p \in Proc, Command \/ Load(p) PROVE CallsOK'
  BY <1>15, CommandLeavesCalls DEF Load, calls, CallsOK
<1>16. CASE Command
  BY <1>16, CommandLeavesCalls DEF calls, CallsOK
<1> QED
  BY <1>1, <1>2, <1>3, <1>4, <1>5, <1>6, <1>7, <1>8, <1>9, <1>10, <1>11,
     <1>12, <1>13, <1>14, <1>15, <1>16
     DEF Next, Acts, Step, NewCall

\* What a process keeps in memory beside its calls.
LEMMA MemoryTypes == Types /\ [Next]_vars => MemoryOK'
<1> SUFFICES ASSUME Types, MemoryOK, [Next]_vars PROVE MemoryOK'
  BY DEF Types, TypeOK
<1> USE DEF MemoryOK, memory
<1>1. CASE UNCHANGED vars
  BY <1>1, Zenon DEF vars, calls
<1>2. ASSUME NEW p \in Proc, NewProcess(p) PROVE MemoryOK'
  BY <1>2 DEF NewProcess
<1>3. ASSUME NEW p \in Proc, Leave(p) PROVE MemoryOK'
  BY <1>2, <1>3, Zenon DEF Leave
<1>4. ASSUME NEW p \in Proc,
             Rejoin(p) \/ GateHold(p) \/ ExecWaits(p) \/ SessionEnds(p)
      PROVE  MemoryOK'
  <2>1. CASE Rejoin(p) \/ SessionEnds(p)
    BY <2>1 DEF Rejoin, SessionEnds
  <2>2. CASE ExecWaits(p)
    BY <2>2 DEF ExecWaits
  <2>3. CASE GateHold(p)
    <3>1. Here(p) \in Task
      BY <2>3, HereIsTask
         DEF GateHold, GateAsks, Cleared, Ready, AtTask, Types, TypeOK
    <3> QED
      BY <2>3, <3>1 DEF GateHold
  <2> QED
    BY <1>4, <2>1, <2>2, <2>3
<1>5. ASSUME NEW p \in Proc,
             \/ PlanFails(p) \/ Preview(p) \/ DryRun(p) \/ Pausing(p)
             \/ FinishContinued(p) \/ Report(p)
      PROVE  MemoryOK'
  BY <1>3, <1>5, Zenon
     DEF PlanFails, Preview, DryRun, Pausing, FinishContinued, Report
<1>6. ASSUME NEW p \in Proc, Crash(p) \/ HookThrows(p) PROVE MemoryOK'
  BY <1>2, <1>3, <1>6, Zenon DEF Crash, HookThrows
<1>7. ASSUME NEW p \in Proc, Continue(p) \/ RetryEnds(p) PROVE MemoryOK'
  <2>1. Leave(p) \/ UNCHANGED memory
    BY <1>7, Zenon DEF Continue, RetryEnds
  <2> QED
    BY <1>3, <2>1, Zenon
<1>8. ASSUME NEW p \in Proc,
             \/ Create(p) \/ Plan(p) \/ SavePlan(p) \/ Start(p) \/ Publish(p)
             \/ Resume(p) \/ Requeue(p) \/ ApiResume(p) \/ LoopEnds(p)
             \/ Pass(p) \/ ManualDeny(p) \/ ManualPark(p) \/ Reask(p)
             \/ Park(p) \/ GateReject(p) \/ Execute(p) \/ ExecMark(p)
             \/ ExecDone(p) \/ ExecFailed(p) \/ RejoinDone(p)
             \/ RejoinFailed(p) \/ FailSkip(p) \/ FailRetry(p)
             \/ FailStop(p) \/ Finish(p) \/ RetryTask(p)
      PROVE  UNCHANGED memory
  BY <1>8, Zenon
     DEF Create, Plan, SavePlan, Start, Publish, Resume, Requeue, ApiResume,
         LoopEnds, Pass, ManualDeny, ManualPark, Reask, Park, GateReject,
         Execute, ExecMark, ExecDone, ExecFailed, RejoinDone, RejoinFailed,
         FailSkip, FailRetry, FailStop, Finish, RetryTask
<1>9. ASSUME NEW p \in Proc, Load(p) PROVE UNCHANGED memory
  BY <1>9, Zenon DEF Load, calls
<1>10. CASE Command
  BY <1>10, CommandLeavesCalls, Zenon DEF calls
<1>11. UNCHANGED memory => MemoryOK'
  BY Zenon
<1> QED
  BY <1>1, <1>4, <1>5, <1>6, <1>7, <1>8, <1>9, <1>10, <1>11, Zenon
     DEF Next, Acts, Step, NewCall

\* A bound is only ever approached by one.
LEMMA BoundSteps ==
  ASSUME [Next]_vars
  PROVE  \/ UNCHANGED bounds
         \/ retryChoices' = retryChoices + 1 /\ UNCHANGED crashes
         \/ crashes' = crashes + 1 /\ UNCHANGED retryChoices
<1>1. CASE UNCHANGED vars
  BY <1>1, Zenon DEF vars, calls
<1>2. CASE Command
  BY <1>2, CommandLeavesCalls, Zenon DEF calls
<1>3. ASSUME NEW p \in Proc, Load(p) PROVE UNCHANGED bounds
  BY <1>3, Zenon DEF Load, calls
<1>4. ASSUME NEW p \in Proc, Acts(p), ~FailRetry(p), ~Crash(p), ~HookThrows(p)
      PROVE  UNCHANGED bounds
  BY <1>4, Zenon
     DEF Acts, Step, NewCall,
         Create, Plan, PlanFails, SavePlan, Start, Publish, Preview, Resume,
         DryRun, Requeue, ApiResume, Continue, LoopEnds, Pass, ManualDeny,
         ManualPark, Rejoin, Reask, Park, GateHold, GateReject, Execute,
         ExecMark, ExecDone, ExecFailed, ExecWaits, RejoinDone, RejoinFailed,
         FailSkip, FailStop, Pausing, FinishContinued, Finish, Report,
         RetryTask, RetryEnds, SessionEnds
<1>5. ASSUME NEW p \in Proc, FailRetry(p) \/ Crash(p) \/ HookThrows(p)
      PROVE  \/ retryChoices' = retryChoices + 1 /\ UNCHANGED crashes
             \/ crashes' = crashes + 1 /\ UNCHANGED retryChoices
  BY <1>5, Zenon DEF FailRetry, Crash, HookThrows
<1> QED
  BY <1>1, <1>2, <1>3, <1>4, <1>5, Zenon DEF Next

LEMMA BoundTypes == Types /\ [Next]_vars => BoundsOK'
<1> SUFFICES ASSUME BoundsOK, [Next]_vars PROVE BoundsOK'
  BY DEF Types
<1> QED
  BY BoundSteps DEF BoundsOK, bounds

\* The lists loaded for the next write are task lists.
LEMMA CommandTypes == Types /\ [Next]_vars => CommandsOK'
<1> SUFFICES ASSUME Types, [Next]_vars PROVE CommandsOK'
  OBVIOUS
<1> USE DEF Types, TypeOK
<1>0. /\ CommandsOK /\ disk \in [Task -> DiskStatus]
      /\ disk' \in [Task -> DiskStatus] /\ NoTasks \in [Task -> DiskStatus]
  BY StoreTypes DEF StoreOK, NoTasks, DiskStatus
<1>1. CASE UNCHANGED vars
  BY <1>0, <1>1 DEF vars, marking, CommandsOK
<1>2. ASSUME NEW p \in Proc, Around(p) PROVE CommandsOK'
  <2>1. late' \in BOOLEAN
    BY <1>2, Zenon DEF Around, Overwrites
  <2>2. list' \in [Proc -> [Task -> DiskStatus]]
    BY <1>0, <1>2 DEF Around, CommandsOK
  <2> QED
    BY <1>0, <1>2, <2>1, <2>2 DEF Around, marking, CommandsOK
<1>3. ASSUME NEW p \in Proc, Load(p) PROVE CommandsOK'
  BY <1>0, <1>3 DEF Load, marking, CommandsOK
<1>4. CASE \E t \in Task : Mark(t)
  <2>1. late' \in BOOLEAN
    BY <1>4, Zenon DEF Mark
  <2>2. /\ UNCHANGED <<list, command>> /\ copy' = disk' /\ todo' \subseteq todo
    BY <1>4 DEF Mark
  <2> QED
    BY <1>0, <2>1, <2>2 DEF CommandsOK
<1>5. CASE Stop \/ Cancel \/ Pause \/ ApiCancel \/ Reload
  <2>1. UNCHANGED <<list, todo, late>>
    BY <1>5 DEF Stop, Cancel, Pause, ApiCancel, Reload, marking
  <2>2. copy' \in [Task -> DiskStatus]
    BY <1>0, <1>5 DEF Stop, Cancel, Pause, ApiCancel, Reload, marking, CommandsOK
  <2>3. UNCHANGED command \/ (todo = {} /\ command' \in {"stopping", "cancelling"})
    BY <1>0, <1>5, Kinds DEF Stop, Cancel, Pause, ApiCancel, Reload, marking, Begins,
                      CommandsOK
  <2> QED
    BY <1>0, <2>1, <2>2, <2>3 DEF CommandsOK
<1>6. CASE \/ Reads \/ Input
           \/ \E t \in Task : TasksApprove(t) \/ TasksDeny(t)
  <2>1. UNCHANGED <<list, late>> /\ copy' = disk /\ todo' \subseteq Task
        /\ command' \in {"stop", "cancel", "approve", "deny", "input"}
    BY <1>6 DEF Reads, Input, TasksApprove, TasksDeny, Sees
  <2> QED
    BY <1>0, <2>1, Kinds DEF CommandsOK
<1>7. CASE Ends \/ CommandDies
  <2>1. UNCHANGED <<list, late>> /\ copy' = NoTasks /\ todo' = {}
        /\ command' = "none"
    BY <1>7 DEF Ends, CommandDies
  <2> QED
    BY <1>0, <2>1 DEF CommandsOK
<1> QED
  BY <1>1, <1>2, <1>3, <1>4, <1>5, <1>6, <1>7 DEF Next, Command

\* The points of a call that act on the task under the loop index.
AtHere == Executing \cup {"failed"}

\* A call leaves the local variables of the others alone.
LEMMA OtherCalls ==
  ASSUME CallsOK, NEW p \in Proc, Acts(p), NEW q \in Proc, q # p
  PROVE  pc'[q] = pc[q] /\ pos'[q] = pos[q] /\ mem'[q] = mem[q]
<1> USE DEF CallsOK
<1>1. CASE UNCHANGED <<pos, mem>> /\ \E label : Goto(p, label)
  BY <1>1 DEF Goto
<1>2. CASE Forget(p)
  BY <1>2 DEF Forget, Goto
<1>3. CASE \E tasks : EnterLoop(p, tasks)
  BY <1>3 DEF EnterLoop, Goto
<1>4. CASE Advance(p) /\ UNCHANGED mem
  BY <1>4 DEF Advance, Goto
<1>5. CASE /\ \E t, s : SetMem(p, t, s)
           /\ \/ Advance(p)
              \/ UNCHANGED pos /\ \E label : Goto(p, label)
              \/ UNCHANGED <<pc, pos>>
  BY <1>5 DEF SetMem, Advance, Goto
<1>6. CASE Resume(p) \/ RetryTask(p)
  BY <1>6 DEF Resume, RetryTask, Goto
<1>7. CASE UNCHANGED <<pc, pos, mem>>
  BY <1>7
<1>8. ASSUME \/ Create(p) \/ Plan(p) \/ SavePlan(p) \/ Start(p) \/ Requeue(p)
             \/ ApiResume(p) \/ LoopEnds(p) \/ ManualPark(p) \/ Rejoin(p)
             \/ Park(p) \/ GateHold(p) \/ Execute(p) \/ ExecWaits(p)
             \/ RejoinFailed(p) \/ FailStop(p) \/ Finish(p)
      PROVE  UNCHANGED <<pos, mem>> /\ \E label : Goto(p, label)
  BY <1>8, Zenon
     DEF Create, Plan, SavePlan, Start, Requeue, ApiResume, LoopEnds,
         ManualPark, Rejoin, Park, GateHold, Execute, ExecWaits, RejoinFailed,
         FailStop, Finish
<1>9. ASSUME \/ PlanFails(p) \/ Preview(p) \/ DryRun(p) \/ Pausing(p)
             \/ FinishContinued(p) \/ Report(p) \/ Crash(p) \/ HookThrows(p)
      PROVE  Forget(p)
  BY <1>9, Zenon DEF PlanFails, Preview, DryRun, Pausing, FinishContinued,
                     Report, Crash, HookThrows, Leave
<1>10. ASSUME Publish(p) \/ Continue(p) \/ RetryEnds(p)
       PROVE  \/ Forget(p)
              \/ \E tasks : EnterLoop(p, tasks)
              \/ UNCHANGED <<pos, mem>> /\ \E label : Goto(p, label)
  BY <1>10, Zenon DEF Publish, Continue, RetryEnds, Leave
<1>11. ASSUME Pass(p) \/ ManualDeny(p) \/ GateReject(p) \/ RejoinDone(p)
              \/ FailSkip(p)
       PROVE  Advance(p) /\ UNCHANGED mem
  BY <1>11, Zenon DEF Pass, ManualDeny, GateReject, RejoinDone, FailSkip
<1>12. ASSUME ExecDone(p) \/ ExecFailed(p) \/ FailRetry(p) \/ Reask(p)
       PROVE  /\ \E t, s : SetMem(p, t, s)
              /\ \/ Advance(p)
                 \/ UNCHANGED pos /\ \E label : Goto(p, label)
                 \/ UNCHANGED <<pc, pos>>
  BY <1>12, Zenon DEF ExecDone, ExecFailed, FailRetry, Reask
<1>13. ASSUME ExecMark(p) \/ SessionEnds(p) PROVE UNCHANGED <<pc, pos, mem>>
  BY <1>13, Zenon DEF ExecMark, SessionEnds
<1> QED
  BY <1>1, <1>2, <1>3, <1>4, <1>5, <1>6, <1>7, <1>8, <1>9, <1>10, <1>11,
     <1>12, <1>13, Zenon
     DEF Acts, Step, NewCall

\* A call acts on a task only inside the list.
LEMMA InListStep == Types /\ [Next]_vars => InList'
<1> SUFFICES ASSUME Types, [Next]_vars PROVE InList'
  OBVIOUS
<1> USE DEF Types, TypeOK, CallsOK, InList, Executing
<1>1. CASE UNCHANGED calls
  BY <1>1 DEF calls
<1>2. ASSUME NEW p \in Proc, Load(p) PROVE UNCHANGED calls
  BY <1>2 DEF Load
<1>3. ASSUME NEW p \in Proc, Acts(p) PROVE InList'
  <2>1. CASE \E label \in Pc \ AtHere : pc' = [pc EXCEPT ![p] = label]
    <3>1. pc'[p] \notin AtHere
      BY <2>1
    <3> QED
      BY <1>3, <3>1, OtherCalls DEF AtHere
  <2>2. CASE UNCHANGED <<pc, pos>>
    BY <2>2
  <2>3. CASE /\ UNCHANGED pos /\ pos[p] <= Len(Order)
             /\ \E label : Goto(p, label)
    BY <1>3, <2>3, OtherCalls
  <2>4. CASE RetryTask(p)
    <3>1. pos'[p] <= Len(Order)
      BY <2>4, PlanLength DEF RetryTask
    <3> QED
      BY <1>3, <3>1, OtherCalls
  <2>5. ASSUME \/ Create(p) \/ Plan(p) \/ SavePlan(p) \/ Start(p)
               \/ Requeue(p) \/ ApiResume(p) \/ LoopEnds(p) \/ ManualPark(p)
               \/ Park(p) \/ GateHold(p) \/ ExecWaits(p) \/ RejoinFailed(p)
               \/ FailStop(p) \/ Finish(p) \/ Resume(p)
        PROVE  \E label \in Pc \ AtHere : pc' = [pc EXCEPT ![p] = label]
    BY <2>5 DEF Create, Plan, SavePlan, Start, Requeue, ApiResume, LoopEnds,
                ManualPark, Park, GateHold, ExecWaits, RejoinFailed, FailStop,
                Finish, Resume, Goto, Pc, AtHere
  <2>6. ASSUME \/ PlanFails(p) \/ Preview(p) \/ DryRun(p) \/ Pausing(p)
               \/ FinishContinued(p) \/ Report(p) \/ Crash(p) \/ Publish(p)
               \/ Continue(p) \/ RetryEnds(p) \/ Pass(p) \/ ManualDeny(p)
               \/ GateReject(p) \/ RejoinDone(p) \/ FailSkip(p) \/ ExecDone(p)
               \/ FailRetry(p) \/ HookThrows(p)
        PROVE  \E label \in Pc \ AtHere : pc' = [pc EXCEPT ![p] = label]
    BY <2>6 DEF PlanFails, Preview, DryRun, Pausing, FinishContinued, Report,
                Crash, Publish, Continue, RetryEnds, Pass, ManualDeny,
                GateReject, RejoinDone, FailSkip, ExecDone, FailRetry,
                HookThrows, Leave, Forget, EnterLoop, Advance, Goto, Pc, AtHere
  <2>7. ASSUME Rejoin(p) \/ Execute(p) \/ ExecFailed(p)
        PROVE  /\ UNCHANGED pos /\ pos[p] <= Len(Order)
               /\ \E label : Goto(p, label)
    BY <2>7 DEF Rejoin, Execute, ExecFailed, Cleared, Ready, AtTask
  <2>8. ASSUME ExecMark(p) \/ SessionEnds(p) \/ Reask(p)
        PROVE  UNCHANGED <<pc, pos>>
    BY <2>8 DEF ExecMark, SessionEnds, Reask
  <2> QED
    BY <1>3, <2>1, <2>2, <2>3, <2>4, <2>5, <2>6, <2>7, <2>8, Zenon
       DEF Acts, Step, NewCall
<1>4. Command \/ UNCHANGED vars => UNCHANGED calls
  BY CommandLeavesCalls DEF vars
<1> QED
  BY <1>1, <1>2, <1>3, <1>4 DEF Next

LEMMA InitTypes == Init => Types
<1> SUFFICES ASSUME Init PROVE Types
  OBVIOUS
<1>1. StoreOK /\ CallsOK /\ InList /\ BoundsOK
  BY PlanLength DEF Init, StoreOK, CallsOK, InList, BoundsOK, NoTasks,
                    RunStatus, ProjectStatus, DiskStatus, Pc, Executing
<1>2. MemoryOK
  BY Zenon DEF Init, MemoryOK
<1>3. CommandsOK
  BY DEF Init, CommandsOK, NoTasks, DiskStatus
<1> QED
  BY <1>1, <1>2, <1>3 DEF Types, TypeOK

LEMMA TypesStep == Types /\ [Next]_vars => Types'
BY StoreTypes, CallTypes, MemoryTypes, InListStep, BoundTypes, CommandTypes
   DEF Types, TypeOK

\* Every file and every call keeps its type, and a call that executes a task or
\* handles its failure has its loop index inside the plan.
THEOREM Typing == Spec => []TypeOK
<1>1. Spec => []Types
  BY InitTypes, TypesStep, PTL DEF Spec
<1> QED
  BY <1>1, PTL DEF Types

-----------------------------------------------------------------------------
(* Writes in time *)

\* One task is changed in tasks.json.
Put(t, s) == disk' = [disk EXCEPT ![t] = s]

\* What the call writes, if anything, is made from the list as it is.
Timely(p) == pc[p] # "idle" => ~Overwrites(p)

\* Nothing is in time again after a write that was not.
LEMMA StaysTimely == ASSUME [Next]_vars, ~late' PROVE ~late
<1>1. CASE UNCHANGED vars
  BY <1>1, Zenon DEF vars
<1>2. ASSUME NEW p \in Proc, Around(p) \/ Load(p) PROVE ~late
  BY <1>2, Zenon DEF Around, Load
<1>3. CASE Command
  BY <1>3, Zenon DEF Command, Stop, Cancel, Reads, Input, Ends, CommandDies,
                     TasksApprove, TasksDeny, Mark, Pause, ApiCancel, Reload
<1> QED
  BY <1>1, <1>2, <1>3, Zenon DEF Next

LEMMA CallTimely == ASSUME NEW p, Around(p), ~late' PROVE Timely(p)
BY Zenon DEF Around, Timely

\* The write of a call that acts on the task under its index.
LEMMA WritesHere ==
  ASSUME Types, NEW p \in Proc, Timely(p), Ready(p) \/ pc[p] \in AtHere,
         NEW s, SetDisk(p, Here(p), s)
  PROVE  Here(p) \in Task /\ Put(Here(p), s)
<1> USE DEF Types, TypeOK, StoreOK, CommandsOK
<1>1. pos[p] <= Len(Order) /\ pc[p] # "idle"
  BY DEF Ready, AtTask, InList, AtHere, Executing
<1>2. Here(p) \in Task
  BY <1>1, HereIsTask
<1> DEFINE h == Here(p)
<1>3. disk' = [list[p] EXCEPT ![h] = s]
  BY DEF SetDisk
<1>4. h \in Task
  BY <1>2
<1> HIDE DEF h
<1>5. CASE list[p] = disk
  BY <1>2, <1>3, <1>5 DEF Put, h
<1>6. CASE disk' = disk
  <2>1. disk[h] = s
    BY <1>3, <1>4, <1>6
  <2>2. disk = [disk EXCEPT ![h] = s]
    BY <1>4, <2>1
  <2> QED
    BY <1>2, <1>6, <2>2 DEF Put, h
<1> QED
  BY <1>1, <1>5, <1>6 DEF Timely, Overwrites

\* The mark of a command that is in time.
LEMMA TimelyMark ==
  ASSUME Types, NEW t, Mark(t), ~late'
  PROVE  /\ t \in Task /\ command \in Marking
         /\ disk[t] \in Seen[command] /\ Put(t, Given[command])
<1>1. copy = disk /\ disk[t] \in Seen[command]
  BY Zenon DEF Mark
<1> QED
  BY <1>1, MarkTypes DEF Mark, Put, Types, TypeOK

LEMMA CommandWrites == Command => UNCHANGED disk \/ \E t \in Task : Mark(t)
BY Zenon DEF Command, Stop, Cancel, Reads, Input, Ends, CommandDies,
             TasksApprove, TasksDeny, Pause, ApiCancel, Reload, store

-----------------------------------------------------------------------------
(* A task that tasks.json shows as running is executed *)

OneCall == \A p, q \in Proc : p = q

\* Until a write comes too late, no list in memory holds a running task if one
\* call is made at a time; FailRetry, the only step that writes such a list back,
\* then writes none.
NoRunningCopy ==
  OneCall /\ ~late /\ crashes = 0 =>
    \A p \in Proc, t \in Task : mem[p][t] # "running"

\* What executeTask leaves behind is not running, and no other task changes.
LEMMA ReturnedSettles ==
  ASSUME Types, NEW p \in Proc, Timely(p), pc[p] \in Executing,
         NEW v, Returned(p, v), NEW t \in Task
  PROVE  IF t = Here(p) THEN disk'[t] # "running" ELSE disk'[t] = disk[t]
<1>1. PICK s : <<v, s>> \in Returns /\ SetDisk(p, Here(p), s)
  BY Zenon DEF Returned
<1>2. s # "running"
  BY <1>1 DEF Returns, Wait
<1>3. pc[p] \in AtHere
  BY DEF AtHere
<1>4. Here(p) \in Task /\ Put(Here(p), s)
  BY <1>1, <1>3, WritesHere
<1> QED
  BY <1>2, <1>4 DEF Put, Types, TypeOK, StoreOK

\* No command marks a task running.
LEMMA CommandsStopTasks ==
  ASSUME Types, Command, ~late', NEW t \in Task, disk'[t] = "running"
  PROVE  disk[t] = "running"
<1>1. CASE UNCHANGED disk
  BY <1>1
<1>2. ASSUME NEW u \in Task, Mark(u) PROVE disk[t] = "running"
  <2>1. Put(u, Given[command]) /\ command \in Marking
    BY <1>2, TimelyMark
  <2>2. Given[command] # "running"
    BY <2>1, Kinds
  <2> QED
    BY <2>1, <2>2 DEF Put, Types, TypeOK, StoreOK
<1> QED
  BY <1>1, <1>2, CommandWrites

\* A task becomes running only as the one its call then executes.
LEMMA RunningStarts ==
  ASSUME Types, OneCall \/ MaxRetryChoices = 0, ~late, crashes = 0,
         NoRunningCopy, NEW p \in Proc, Acts(p), Timely(p),
         NEW t \in Task, disk'[t] = "running"
  PROVE  \/ disk[t] = "running"
         \/ pc'[p] \in Executing /\ Order[pos'[p]] = t
<1> USE DEF Types, TypeOK, StoreOK, CallsOK
<1>1. CASE UNCHANGED disk
  BY <1>1
<1>2. CASE SavePlan(p) \/ Resume(p) \/ Requeue(p)
  BY <1>2 DEF SavePlan, Resume, Requeue, Stale
<1>3. CASE \/ ManualDeny(p) \/ ManualPark(p) \/ Reask(p) \/ GateReject(p)
           \/ FailSkip(p)
  <2>1. \E s \in {"skipped", "waiting_approval", "pending"} :
          SetDisk(p, Here(p), s)
    BY <1>3, Zenon DEF ManualDeny, ManualPark, Reask, GateReject, FailSkip
  <2>2. Ready(p) \/ pc[p] \in AtHere
    BY <1>3 DEF ManualDeny, ManualPark, Reask, GateReject, GateAsks, FailSkip,
                Cleared, AtHere
  <2>3. \E s \in {"skipped", "waiting_approval", "pending"} : Put(Here(p), s)
    BY <2>1, <2>2, WritesHere
  <2> QED
    BY <2>3 DEF Put
<1>4. CASE Rejoin(p) \/ Execute(p)
  <2>1. SetDisk(p, Here(p), "running") /\ Ready(p) /\ UNCHANGED pos
        /\ pc'[p] \in Executing
    BY <1>4 DEF Rejoin, Execute, Cleared, Goto, Executing
  <2>2. Put(Here(p), "running")
    BY <2>1, WritesHere
  <2> QED
    BY <2>1, <2>2 DEF Put, Here
<1>5. CASE ExecMark(p)
  <2>1. pc[p] \in Executing /\ UNCHANGED <<pc, pos>>
        /\ \E s : SetDisk(p, Here(p), s)
    BY <1>5, Zenon DEF ExecMark
  <2>2. \E s : Put(Here(p), s)
    BY <2>1, WritesHere DEF AtHere
  <2> QED
    BY <2>1, <2>2 DEF Put, Here
<1>6. CASE RetryTask(p)
  BY <1>6 DEF RetryTask, Goto, Executing
<1>7. CASE \/ ExecDone(p) \/ ExecFailed(p) \/ ExecWaits(p) \/ RejoinDone(p)
           \/ RejoinFailed(p) \/ RetryEnds(p)
  <2>1. \E v : Returned(p, v)
    BY <1>7, Zenon DEF ExecDone, ExecFailed, ExecWaits, RejoinDone,
                       RejoinFailed, RetryEnds
  <2>2. pc[p] \in Executing
    BY <1>7 DEF ExecDone, ExecFailed, ExecWaits, RejoinDone, RejoinFailed,
                RetryEnds, Executing
  <2> QED
    BY <2>1, <2>2, ReturnedSettles
<1>8. CASE FailRetry(p)
  <2>1. OneCall
    BY <1>8 DEF FailRetry, BoundsOK
  <2>2. \A u \in Task : mem[p][u] # "running"
    BY <2>1 DEF NoRunningCopy
  <2> QED
    BY <1>8, <2>2 DEF FailRetry, SetMem
<1>9. ASSUME \/ Create(p) \/ Plan(p) \/ PlanFails(p) \/ Start(p) \/ Publish(p)
             \/ Preview(p) \/ DryRun(p) \/ ApiResume(p) \/ Continue(p)
             \/ LoopEnds(p) \/ Pass(p) \/ Park(p) \/ GateHold(p)
             \/ FailStop(p) \/ Pausing(p) \/ FinishContinued(p) \/ Finish(p)
             \/ Report(p) \/ SessionEnds(p) \/ Crash(p) \/ HookThrows(p)
      PROVE  UNCHANGED disk
  BY <1>9, Zenon
     DEF Create, Plan, PlanFails, Start, Publish, Preview, DryRun, ApiResume,
         Continue, LoopEnds, Pass, Park, GateHold, FailStop, Pausing,
         FinishContinued, Finish, Report, SessionEnds, Crash, HookThrows, store
<1> QED
  BY <1>1, <1>2, <1>3, <1>4, <1>5, <1>6, <1>7, <1>8, <1>9, Zenon
     DEF Acts, Step, NewCall

\* A call that executes a task goes on with it, leaves it in another status, or
\* dies.
LEMMA RunningEnds ==
  ASSUME Types, NEW p \in Proc, Acts(p), Timely(p), pc[p] \in Executing,
         crashes' = crashes
  PROVE  \/ pc'[p] \in Executing /\ pos'[p] = pos[p]
         \/ disk'[Here(p)] # "running"
<1>1. Here(p) \in Task
  BY HereIsTask DEF Types, TypeOK, InList
<1>2. ExecMark(p) \/ SessionEnds(p) \/ \E v : Returned(p, v)
  <2>1. ~NewCall(p)
    BY DEF NewCall, Create, Resume, ApiResume, RetryTask, Executing
  <2>2. ~Crash(p) /\ ~HookThrows(p)
    BY DEF Crash, HookThrows, Types, BoundsOK
  <2>3. Step(p) => \/ ExecDone(p) \/ ExecFailed(p) \/ ExecWaits(p)
                   \/ RejoinDone(p) \/ RejoinFailed(p) \/ RetryEnds(p)
    BY DEF Step, Executing, Plan, PlanFails, SavePlan, Start, Publish, Preview,
           DryRun, Requeue, Continue, LoopEnds, Pass, ManualDeny, ManualPark,
           Rejoin, Reask, Park, GateHold, GateReject, Execute, FailSkip,
           FailRetry, FailStop, Pausing, FinishContinued, Finish, Report,
           GateAsks, Cleared, Ready, AtTask
  <2>4. ASSUME \/ ExecDone(p) \/ ExecFailed(p) \/ ExecWaits(p)
               \/ RejoinDone(p) \/ RejoinFailed(p) \/ RetryEnds(p)
        PROVE  \E v : Returned(p, v)
    BY <2>4, Zenon DEF ExecDone, ExecFailed, ExecWaits, RejoinDone,
                       RejoinFailed, RetryEnds
  <2> QED
    BY <2>1, <2>2, <2>3, <2>4, Zenon DEF Acts
<1>3. CASE ExecMark(p) \/ SessionEnds(p)
  BY <1>3 DEF ExecMark, SessionEnds
<1>4. CASE \E v : Returned(p, v)
  BY <1>1, <1>4, ReturnedSettles DEF Types, TypeOK
<1> QED
  BY <1>2, <1>3, <1>4

LEMMA CrashesGrow ==
  ASSUME Types, [Next]_vars, crashes' = 0 PROVE crashes = 0
BY BoundSteps DEF Types, BoundsOK, bounds

LEMMA RunningStep ==
  ASSUME Types, OneCall \/ MaxRetryChoices = 0, NoRunningCopy,
         RunningIsExecuted, [Next]_vars
  PROVE  RunningIsExecuted'
<1> SUFFICES ASSUME ~late', crashes' = 0, NEW t \in Task, disk'[t] = "running"
             PROVE  \E p \in Proc : pc'[p] \in Executing /\ Order[pos'[p]] = t
  BY DEF RunningIsExecuted, Here
<1>0. ~late /\ crashes = 0
  BY CrashesGrow, StaysTimely
<1>1. disk[t] = "running" =>
        \E q \in Proc : pc[q] \in Executing /\ Order[pos[q]] = t
  BY <1>0 DEF RunningIsExecuted, Here
<1>2. CASE Command
  BY <1>1, <1>2, CommandsStopTasks, CommandLeavesCalls DEF calls
<1>3. ASSUME NEW p \in Proc, Acts(p), Timely(p)
      PROVE  \E q \in Proc : pc'[q] \in Executing /\ Order[pos'[q]] = t
  <2>1. CASE pc'[p] \in Executing /\ Order[pos'[p]] = t
    BY <2>1
  <2>2. CASE disk[t] = "running"
    <3>1. PICK q \in Proc : pc[q] \in Executing /\ Here(q) = t
      BY <1>1, <2>2 DEF Here
    <3>2. CASE q = p
      BY <1>0, <1>3, <3>1, <3>2, RunningEnds DEF Here
    <3>3. CASE q # p
      BY <1>3, <3>1, <3>3, OtherCalls DEF Types, TypeOK, Here
    <3> QED
      BY <3>2, <3>3
  <2> QED
    BY <1>0, <1>3, <2>1, <2>2, RunningStarts
<1>4. ASSUME NEW p \in Proc, Load(p) PROVE UNCHANGED <<disk, pc, pos>>
  BY <1>4 DEF Load, store, calls
<1>5. CASE UNCHANGED vars
  BY <1>1, <1>5 DEF vars, store, calls
<1>6. ASSUME NEW p \in Proc, Around(p) PROVE Timely(p)
  BY <1>6, CallTimely
<1> QED
  BY <1>1, <1>2, <1>3, <1>4, <1>5, <1>6 DEF Next

LEMMA CopyStep ==
  ASSUME Types, NoRunningCopy, RunningIsExecuted, [Next]_vars
  PROVE  NoRunningCopy'
<1> SUFFICES ASSUME OneCall, ~late', crashes' = 0, NEW p \in Proc, NEW t \in Task
             PROVE  mem'[p][t] # "running"
  BY DEF NoRunningCopy, OneCall
<1>0. crashes = 0 /\ ~late /\ mem[p][t] # "running"
  BY CrashesGrow, StaysTimely DEF NoRunningCopy
<1> USE DEF Types, TypeOK, CallsOK, StoreOK
<1>1. CASE UNCHANGED mem
  BY <1>0, <1>1
<1>2. CASE Acts(p)
  <2>1. CASE pc[p] \notin Executing /\ mem' = [mem EXCEPT ![p] = disk]
    <3>1. disk[t] # "running"
      BY <1>0, <2>1 DEF RunningIsExecuted, OneCall
    <3> QED
      BY <2>1, <3>1
  <2>2. CASE Forget(p) \/ Publish(p) \/ Resume(p)
    <3>1. CASE Resume(p)
      <4>1. disk'[t] # "running"
        BY <3>1 DEF Resume, Stale
      <4> QED
        BY <3>1, <4>1 DEF Resume
    <3>2. CASE Forget(p)
      BY <3>2 DEF Forget, NoTasks
    <3>3. CASE Publish(p)
      <4>1. \/ UNCHANGED mem
            \/ mem' = [mem EXCEPT ![p] = [u \in Task |-> "pending"]]
        BY <3>3 DEF Publish, EnterLoop
      <4> QED
        BY <1>0, <4>1
    <3> QED
      BY <2>2, <3>1, <3>2, <3>3
  <2>3. CASE ExecDone(p) \/ ExecFailed(p) \/ FailRetry(p) \/ Reask(p)
    BY <1>0, <2>3 DEF ExecDone, ExecFailed, FailRetry, Reask, SetMem
  <2>4. ASSUME \/ PlanFails(p) \/ Preview(p) \/ DryRun(p) \/ Pausing(p)
               \/ FinishContinued(p) \/ Report(p) \/ Crash(p)
               \/ HookThrows(p)
        PROVE  Forget(p)
    BY <2>4, Zenon DEF PlanFails, Preview, DryRun, Pausing, FinishContinued,
                       Report, Crash, HookThrows, Leave
  <2>5. ASSUME Continue(p) \/ RetryTask(p)
        PROVE  \/ Forget(p)
               \/ pc[p] \notin Executing /\ mem' = [mem EXCEPT ![p] = disk]
    BY <2>5 DEF Continue, RetryTask, EnterLoop, Leave, Executing
  <2>6. ASSUME RetryEnds(p) PROVE Forget(p) \/ UNCHANGED mem
    BY <2>6, Zenon DEF RetryEnds, Leave
  <2>7. ASSUME \/ Create(p) \/ Plan(p) \/ SavePlan(p) \/ Start(p)
               \/ Requeue(p) \/ ApiResume(p) \/ LoopEnds(p) \/ Pass(p)
               \/ ManualDeny(p) \/ ManualPark(p) \/ Rejoin(p) \/ Park(p)
               \/ GateHold(p) \/ GateReject(p) \/ Execute(p) \/ ExecMark(p)
               \/ ExecWaits(p) \/ RejoinDone(p) \/ RejoinFailed(p)
               \/ FailSkip(p) \/ FailStop(p) \/ Finish(p) \/ SessionEnds(p)
        PROVE  UNCHANGED mem
    BY <2>7, Zenon
       DEF Create, Plan, SavePlan, Start, Requeue, ApiResume, LoopEnds, Pass,
           ManualDeny, ManualPark, Rejoin, Park, GateHold, GateReject, Execute,
           ExecMark, ExecWaits, RejoinDone, RejoinFailed, FailSkip, FailStop,
           Finish, SessionEnds
  <2> QED
    BY <1>1, <1>2, <2>1, <2>2, <2>3, <2>4, <2>5, <2>6, <2>7, Zenon
       DEF Acts, Step, NewCall
<1>3. Command \/ UNCHANGED vars => UNCHANGED mem
  BY CommandLeavesCalls, Zenon DEF vars, calls
<1>4. ASSUME NEW q \in Proc, Load(q) PROVE UNCHANGED mem
  BY <1>4, Zenon DEF Load, calls
<1>5. ASSUME NEW q \in Proc, Acts(q) PROVE Acts(p)
  BY <1>5 DEF OneCall
<1> QED
  BY <1>1, <1>2, <1>3, <1>4, <1>5 DEF Next

\* For every plan and every number of processes: as long as no process died, no
\* hook threw and no write came too late, tasks.json shows a task running only
\* while a call executes it, however the writes of calls and commands interleave,
\* provided that calls do not overlap or nobody chooses to retry a failed task.
\* (An overlapping call may have loaded the task as running, and writes its copy
\* back on such a choice.)
THEOREM RunningExecuted ==
  ASSUME OneCall \/ MaxRetryChoices = 0 PROVE Spec => []RunningIsExecuted
<1> DEFINE Inv == Types /\ NoRunningCopy /\ RunningIsExecuted
<1>1. Init => Inv
  <2>1. Init => NoRunningCopy /\ RunningIsExecuted
    BY DEF Init, NoRunningCopy, RunningIsExecuted, NoTasks
  <2> QED
    BY <2>1, InitTypes
<1>2. Inv /\ [Next]_vars => Inv'
  BY TypesStep, CopyStep, RunningStep
<1>3. Inv => RunningIsExecuted
  OBVIOUS
<1> QED
  BY <1>1, <1>2, <1>3, PTL DEF Spec

-----------------------------------------------------------------------------
(* A task is executed only after what it depends on *)

Settled == {"done", "skipped"}

\* Statuses of a task that has been taken up.
Ran == {"running", "failed", "interrupted"}

\* A call at one of these points decides from its list.
Loaded == AtHere \cup {"loop"}

\* In tasks.json, what has been taken up has its dependencies settled.
DiskDeps ==
  \A t \in Task : disk[t] \in Ran => \A d \in Deps[t] : disk[d] \in Settled

\* A fresh plan has not been taken up.
FreshPlan(p) ==
  pc[p] \in {"planned", "started"} => \A t \in Task : disk[t] \notin Ran

\* Between the halves of resume a marked task is left alone, but for cancel.
Marked(p) ==
  pc[p] = "resuming" =>
    \A t \in Task : mem[p][t] = "interrupted" =>
                       disk[t] \in {"interrupted", "cancelled"}

\* What the loop believes settled is settled.
MemSettled(p) ==
  \A t \in Task : mem[p][t] \in Settled => disk[t] \in Settled

\* The loop's list, too, has the dependencies settled of whatever it or
\* tasks.json shows as taken up.
MemDeps(p) ==
  \A t \in Task : disk[t] \in Ran \/ mem[p][t] \in Ran =>
                     \A d \in Deps[t] : mem[p][d] \in Settled

\* The task being executed is open in the list, and its dependencies are not.
Open(p, t) ==
  mem[p][t] \notin Settled /\ \A d \in Deps[t] : mem[p][d] \in Settled

CallDeps(p) ==
  /\ FreshPlan(p) /\ Marked(p)
  /\ pc[p] \in Loaded => MemSettled(p) /\ MemDeps(p)
  /\ pc[p] \in AtHere => Open(p, Here(p))

DepsInv == DiskDeps /\ \A p \in Proc : CallDeps(p)

\* The loop writes a status for an open task and perhaps notes one: nothing that
\* has been taken up depends on that task.
LEMMA WriteOpen ==
  ASSUME Types, NEW p \in Proc, NEW t \in Task, Open(p, t),
         MemSettled(p), MemDeps(p), DiskDeps,
         NEW s, Put(t, s),
         \/ UNCHANGED mem
         \/ \E m : SetMem(p, t, m) /\ (m \in Settled => s \in Settled)
  PROVE  DiskDeps' /\ MemSettled(p)' /\ MemDeps(p)'
<1> USE DepsAssumption DEF Types, TypeOK, StoreOK, CallsOK
<1>1. /\ disk'[t] = s
      /\ \A u \in Task : u # t => disk'[u] = disk[u] /\ mem'[p][u] = mem[p][u]
  BY DEF Put, SetMem
<1>2. mem'[p][t] \in Settled => s \in Settled
  BY DEF SetMem, Open
<1>3. \A u \in Task : disk[u] \in Ran \/ mem[p][u] \in Ran => t \notin Deps[u]
  BY DEF MemDeps, Open
<1>4. t \notin Deps[t]
  BY DEF Open
<1>5. MemSettled(p)'
  BY <1>1, <1>2 DEF MemSettled
<1>6. MemDeps(p)'
  <2> SUFFICES ASSUME NEW u \in Task, disk'[u] \in Ran \/ mem'[p][u] \in Ran,
                      NEW d \in Deps[u]
               PROVE  mem'[p][d] \in Settled
    BY DEF MemDeps
  <2>1. d \in Task
    OBVIOUS
  <2>2. CASE u = t
    BY <1>1, <1>4, <2>1, <2>2 DEF Open
  <2>3. CASE u # t
    BY <1>1, <1>3, <2>1, <2>3 DEF MemDeps
  <2> QED
    BY <2>2, <2>3
<1>7. DiskDeps'
  <2> SUFFICES ASSUME NEW u \in Task, disk'[u] \in Ran, NEW d \in Deps[u]
               PROVE  disk'[d] \in Settled
    BY DEF DiskDeps
  <2>1. d \in Task
    OBVIOUS
  <2>2. CASE u = t
    BY <1>1, <1>4, <2>1, <2>2 DEF Open, MemSettled
  <2>3. CASE u # t
    BY <1>1, <1>3, <2>1, <2>3 DEF DiskDeps
  <2> QED
    BY <2>2, <2>3
<1> QED
  BY <1>5, <1>6, <1>7

\* Points of a call at which it relies on nothing.
Quiet == Pc \ (Loaded \cup {"planned", "started", "resuming"})

LEMMA QuietDeps == ASSUME NEW p, pc'[p] \in Quiet PROVE CallDeps(p)'
BY DEF Quiet, CallDeps, FreshPlan, Marked, Loaded

\* What is eligible for the loop, and what a failed or running call is about, is
\* open.
LEMMA EligibleIsOpen ==
  ASSUME Types, NEW p \in Proc, CallDeps(p), Ready(p) \/ pc[p] \in AtHere
  PROVE  /\ Here(p) \in Task /\ Open(p, Here(p))
         /\ MemSettled(p) /\ MemDeps(p)
<1>1. pos[p] <= Len(Order) /\ pc[p] \in Loaded
  BY DEF Ready, AtTask, Types, TypeOK, InList, AtHere, Loaded
<1>2. Here(p) \in Task
  BY <1>1, HereIsTask DEF Types, TypeOK
<1>3. Open(p, Here(p))
  BY DEF CallDeps, Ready, Eligible, Wait, DepsMet, Open, Settled
<1> QED
  BY <1>1, <1>2, <1>3 DEF CallDeps

\* The steps before and around the loop.
LEMMA PlanDeps ==
  ASSUME Types, DepsInv, NEW p \in Proc, SavePlan(p) \/ Start(p) \/ Publish(p)
  PROVE  DiskDeps' /\ CallDeps(p)'
<1> USE DEF DepsInv, Types, TypeOK, StoreOK, CallsOK
<1>1. CASE SavePlan(p)
  <2>1. pc'[p] = "planned" /\ \A t \in Task : disk'[t] = "pending"
    BY <1>1 DEF SavePlan, Goto
  <2> QED
    BY <2>1 DEF DiskDeps, CallDeps, FreshPlan, Marked, Loaded, AtHere,
                Executing, Ran
<1>2. CASE Start(p)
  <2>1. pc[p] = "planned" /\ pc'[p] = "started" /\ UNCHANGED disk
    BY <1>2 DEF Start, Goto
  <2> QED
    BY <2>1 DEF DiskDeps, CallDeps, FreshPlan, Marked, Loaded, AtHere,
                Executing
<1>3. CASE Publish(p)
  <2>1. DiskDeps' /\ UNCHANGED disk /\ \A t \in Task : disk[t] \notin Ran
    BY <1>3 DEF Publish, DiskDeps, CallDeps, FreshPlan
  <2>2. CASE pc'[p] = "preview"
    BY <2>1, <2>2, QuietDeps DEF Quiet, Pc, Loaded, AtHere, Executing
  <2>3. CASE EnterLoop(p, [t \in Task |-> "pending"])
    <3>1. pc'[p] = "loop" /\ \A t \in Task : mem'[p][t] = "pending"
      BY <2>3 DEF EnterLoop, Goto
    <3>2. MemSettled(p)' /\ MemDeps(p)'
      BY <2>1, <3>1 DEF MemSettled, MemDeps, Settled, Ran
    <3> QED
      BY <2>1, <3>1, <3>2 DEF CallDeps, FreshPlan, Marked, AtHere, Executing
  <2> QED
    BY <1>3, <2>2, <2>3 DEF Publish, Goto
<1> QED
  BY <1>1, <1>2, <1>3

LEMMA ResumeDeps ==
  ASSUME Types, DepsInv, NEW p \in Proc,
         Resume(p) \/ Requeue(p) \/ Continue(p)
  PROVE  DiskDeps' /\ CallDeps(p)'
<1> USE DepsAssumption DEF DepsInv, Types, TypeOK, StoreOK, CallsOK
<1>1. CASE Resume(p)
  <2>1. /\ pc'[p] = "resuming" /\ mem'[p] = disk'
        /\ \A t \in Task :
             /\ disk'[t] \in Ran => disk[t] \in Ran
             /\ disk[t] \in Settled => disk'[t] \in Settled
    BY <1>1 DEF Resume, Goto, Stale, Ran, Settled
  <2>2. DiskDeps'
    BY <2>1 DEF DiskDeps
  <2> QED
    BY <2>1, <2>2 DEF CallDeps, FreshPlan, Marked, Loaded, AtHere, Executing
<1>2. CASE Requeue(p)
  <2>1. /\ pc'[p] = "resumed"
        /\ \A t \in Task :
             /\ disk'[t] \in Ran => disk[t] \in Ran
             /\ disk[t] \in Settled => disk'[t] \in Settled
    BY <1>2 DEF Requeue, Goto, Ran, Settled, CallDeps, Marked
  <2>2. DiskDeps'
    BY <2>1 DEF DiskDeps
  <2> QED
    BY <2>1, <2>2, QuietDeps DEF Quiet, Pc, Loaded, AtHere, Executing
<1>3. CASE Continue(p)
  <2>1. DiskDeps' /\ UNCHANGED disk
    BY <1>3 DEF Continue, store, DiskDeps
  <2>2. CASE Leave(p)
    <3>1. pc'[p] = "idle"
      BY <2>2 DEF Leave, Forget, Goto
    <3> QED
      BY <2>1, <3>1, QuietDeps DEF Quiet, Pc, Loaded, AtHere, Executing
  <2>3. CASE EnterLoop(p, disk)
    <3>1. pc'[p] = "loop" /\ mem'[p] = disk
      BY <2>3 DEF EnterLoop, Goto
    <3>2. MemSettled(p)' /\ MemDeps(p)'
      BY <2>1, <3>1 DEF MemSettled, MemDeps, DiskDeps
    <3> QED
      BY <2>1, <3>1, <3>2 DEF CallDeps, FreshPlan, Marked, AtHere, Executing
  <2> QED
    BY <1>3, <2>2, <2>3 DEF Continue
<1> QED
  BY <1>1, <1>2, <1>3

\* flowtask retry takes up a task that had been taken up before.
LEMMA RetryDeps ==
  ASSUME Types, DepsInv, NEW p \in Proc, Timely(p),
         RetryTask(p) \/ RetryEnds(p)
  PROVE  DiskDeps' /\ CallDeps(p)'
<1> USE DepsAssumption DEF DepsInv, Types, TypeOK, StoreOK, CallsOK
<1>1. CASE RetryTask(p)
  <2>1. PICK i \in DOMAIN Order :
          /\ disk[Order[i]] \in {"failed", "interrupted"}
          /\ pos' = [pos EXCEPT ![p] = i]
          /\ disk' = [disk EXCEPT ![Order[i]] = "running"]
    BY <1>1 DEF RetryTask
  <2> DEFINE h == Order[i]
  <2>2. h \in Task /\ Here(p)' = h
    BY <2>1 DEF Task, Here
  <2>3. mem'[p] = disk /\ pc'[p] = "single"
    BY <1>1 DEF RetryTask, Goto
  <2>4. /\ disk[h] \in Ran /\ disk[h] \notin Settled
        /\ disk'[h] = "running"
        /\ \A t \in Task : t # h => disk'[t] = disk[t]
    BY <2>1, <2>2 DEF Ran, Settled
  <2> HIDE DEF h
  <2>5. \A t \in Task : /\ disk'[t] \in Ran => disk[t] \in Ran
                        /\ disk[t] \in Settled => disk'[t] \in Settled
    BY <2>4
  <2>6. DiskDeps'
    BY <2>5 DEF DiskDeps
  <2>7. MemSettled(p)' /\ MemDeps(p)'
    BY <2>3, <2>5 DEF MemSettled, MemDeps, DiskDeps
  <2>8. Open(p, h)'
    BY <2>2, <2>3, <2>4 DEF Open, DiskDeps
  <2>9. (pc[p] \in AtHere => Open(p, Here(p)))'
    BY <2>2, <2>8 DEF Open
  <2> QED
    BY <2>3, <2>6, <2>7, <2>9 DEF CallDeps, FreshPlan, Marked
<1>2. CASE RetryEnds(p)
  <2>1. pc[p] \in AtHere /\ \E s : Put(Here(p), s)
    <3>1. pc[p] \in AtHere
      BY <1>2 DEF RetryEnds, AtHere, Executing
    <3>2. \E s : SetDisk(p, Here(p), s)
      BY <1>2, Zenon DEF RetryEnds, Returned
    <3> QED
      BY <3>1, <3>2, WritesHere
  <2>2. DiskDeps'
    <3> DEFINE h == Here(p)
    <3>1. /\ h \in Task /\ Open(p, h) /\ MemSettled(p) /\ MemDeps(p)
      BY <2>1, EligibleIsOpen
    <3>2. \A t \in Task : t # h => disk'[t] = disk[t]
      BY <2>1 DEF Put
    <3> HIDE DEF h
    <3> SUFFICES ASSUME NEW u \in Task, disk'[u] \in Ran, NEW d \in Deps[u]
                 PROVE  disk'[d] \in Settled
      BY DEF DiskDeps
    <3>3. d \in Task
      OBVIOUS
    <3>4. CASE u = h
      BY <3>1, <3>2, <3>3, <3>4 DEF Open, MemSettled
    <3>5. CASE u # h
      BY <3>1, <3>2, <3>3, <3>5 DEF Open, MemDeps, DiskDeps
    <3> QED
      BY <3>4, <3>5
  <2>3. pc'[p] \in {"idle", "resumed"}
    BY <1>2 DEF RetryEnds, Leave, Forget, Goto
  <2> QED
    BY <2>2, <2>3, QuietDeps DEF Quiet, Pc, Loaded, AtHere, Executing
<1> QED
  BY <1>1, <1>2

\* The loop takes up the task under its index, or lets it wait.
LEMMA TakeDeps ==
  ASSUME Types, DepsInv, NEW p \in Proc, Timely(p),
         \/ ManualDeny(p) \/ ManualPark(p) \/ GateReject(p) \/ Reask(p)
         \/ Rejoin(p) \/ Execute(p)
  PROVE  DiskDeps' /\ CallDeps(p)'
<1>1. Ready(p)
  BY DEF ManualDeny, ManualPark, GateReject, GateAsks, Reask, Rejoin, Execute,
         Cleared
<1>2. /\ Here(p) \in Task /\ Open(p, Here(p)) /\ MemSettled(p) /\ MemDeps(p)
      /\ DiskDeps /\ pc[p] = "loop"
  BY <1>1, EligibleIsOpen DEF DepsInv, Ready, AtTask
<1>3. \E s : /\ Put(Here(p), s)
             /\ \/ UNCHANGED mem
                \/ \E m : SetMem(p, Here(p), m) /\ (m \in Settled => s \in Settled)
  <2>1. \E s : /\ SetDisk(p, Here(p), s)
               /\ \/ UNCHANGED mem
                  \/ \E m : SetMem(p, Here(p), m) /\ (m \in Settled => s \in Settled)
    BY Zenon DEF ManualDeny, ManualPark, GateReject, Reask, Rejoin, Execute
  <2> QED
    BY <1>1, <2>1, WritesHere
<1>4. DiskDeps' /\ MemSettled(p)' /\ MemDeps(p)'
  BY <1>2, <1>3, WriteOpen
<1> USE DEF Types, TypeOK, CallsOK
<1>5. CASE Rejoin(p) \/ Execute(p)
  <2>1. pc'[p] \in AtHere /\ UNCHANGED <<mem, pos>>
    BY <1>5 DEF Rejoin, Execute, Goto, AtHere, Executing
  <2>2. Open(p, Here(p))'
    BY <1>2, <2>1 DEF Open, Here
  <2> QED
    BY <1>4, <2>1, <2>2
       DEF CallDeps, FreshPlan, Marked, AtHere, Executing
<1>6. CASE ManualPark(p)
  <2>1. pc'[p] = "pausing"
    BY <1>6 DEF ManualPark, Goto
  <2> QED
    BY <1>4, <2>1, QuietDeps DEF Quiet, Pc, Loaded, AtHere, Executing
<1>7. CASE ManualDeny(p) \/ GateReject(p) \/ Reask(p)
  <2>1. pc'[p] = "loop"
    BY <1>2, <1>7 DEF ManualDeny, GateReject, Reask, Advance, Goto
  <2> QED
    BY <1>4, <2>1 DEF CallDeps, FreshPlan, Marked, AtHere, Executing
<1> QED
  BY <1>5, <1>6, <1>7

\* The call of executeTask writes, returns, or the failure is handled.
LEMMA ExecDeps ==
  ASSUME Types, DepsInv, NEW p \in Proc, Timely(p),
         \/ ExecMark(p) \/ ExecDone(p) \/ ExecFailed(p) \/ ExecWaits(p)
         \/ RejoinDone(p) \/ RejoinFailed(p) \/ FailSkip(p)
  PROVE  DiskDeps' /\ CallDeps(p)'
<1>1. pc[p] \in AtHere
  BY DEF ExecMark, ExecDone, ExecFailed, ExecWaits, RejoinDone, RejoinFailed,
         FailSkip, AtHere, Executing
<1>2. /\ Here(p) \in Task /\ Open(p, Here(p)) /\ MemSettled(p) /\ MemDeps(p)
      /\ DiskDeps
  BY <1>1, EligibleIsOpen DEF DepsInv
<1>3. \E s : /\ Put(Here(p), s)
             /\ \/ UNCHANGED mem
                \/ \E m : SetMem(p, Here(p), m) /\ (m \in Settled => s \in Settled)
  <2> DEFINE Writes(s) == SetDisk(p, Here(p), s)
             Notes(s) ==
               \/ UNCHANGED mem
               \/ \E m : SetMem(p, Here(p), m) /\ (m \in Settled => s \in Settled)
  <2>1. CASE ExecDone(p)
    <3>1. Writes("done") /\ SetMem(p, Here(p), "done")
      BY <2>1 DEF ExecDone, Returned, Returns, Wait
    <3>2. Notes("done")
      BY <3>1, Zenon
    <3> QED
      BY <1>1, <3>1, <3>2, WritesHere
  <2>2. CASE ExecFailed(p)
    <3>1. "failed" \notin Settled
      BY DEF Settled
    <3>2. \E s : Writes(s) /\ Notes(s)
      BY <2>2, <3>1, Zenon DEF ExecFailed, Returned
    <3> QED
      BY <1>1, <3>2, WritesHere
  <2>3. CASE \/ ExecMark(p) \/ ExecWaits(p) \/ RejoinDone(p)
             \/ RejoinFailed(p) \/ FailSkip(p)
    <3>1. \E s : Writes(s) /\ Notes(s)
      BY <2>3, Zenon DEF ExecMark, ExecWaits, RejoinDone, RejoinFailed,
                         FailSkip, Returned
    <3> QED
      BY <1>1, <3>1, WritesHere
  <2> QED
    BY <2>1, <2>2, <2>3
<1>4. DiskDeps' /\ MemSettled(p)' /\ MemDeps(p)'
  BY <1>2, <1>3, WriteOpen
<1> USE DEF Types, TypeOK, CallsOK
<1>5. CASE ExecMark(p)
  <2>1. UNCHANGED <<pc, mem, pos>>
    BY <1>5 DEF ExecMark
  <2>2. Open(p, Here(p))'
    BY <1>2, <2>1 DEF Open, Here
  <2> QED
    BY <1>1, <1>4, <2>1, <2>2
       DEF CallDeps, FreshPlan, Marked, AtHere, Executing
<1>6. CASE ExecFailed(p)
  <2>1. /\ pc'[p] = "failed" /\ UNCHANGED pos
        /\ mem' = [mem EXCEPT ![p][Here(p)] = "failed"]
    BY <1>6 DEF ExecFailed, SetMem, Goto
  <2>2. mem'[p][Here(p)] = "failed" /\ Here(p)' = Here(p)
    BY <1>2, <2>1 DEF Here
  <2>3. \A d \in Deps[Here(p)] : mem'[p][d] = mem[p][d]
    BY <1>2, <2>1, DepsAssumption DEF Open
  <2>4. Open(p, Here(p))'
    BY <1>2, <2>2, <2>3 DEF Open, Settled
  <2> QED
    BY <1>4, <2>1, <2>4
       DEF CallDeps, FreshPlan, Marked, AtHere, Executing
<1>7. CASE ExecWaits(p) \/ RejoinFailed(p)
  <2>1. pc'[p] \in {"pausing", "finish"}
    BY <1>7 DEF ExecWaits, RejoinFailed, Goto
  <2> QED
    BY <1>4, <2>1, QuietDeps DEF Quiet, Pc, Loaded, AtHere, Executing
<1>8. CASE ExecDone(p) \/ RejoinDone(p) \/ FailSkip(p)
  <2>1. pc'[p] = "loop"
    BY <1>8 DEF ExecDone, RejoinDone, FailSkip, Advance, Goto
  <2> QED
    BY <1>4, <2>1 DEF CallDeps, FreshPlan, Marked, AtHere, Executing
<1> QED
  BY <1>5, <1>6, <1>7, <1>8

\* The choice to retry writes the loop's list over tasks.json: whatever that
\* list shows as taken up has its dependencies settled in the same list.
LEMMA ChoiceDeps ==
  ASSUME Types, DepsInv, NEW p \in Proc, FailRetry(p)
  PROVE  DiskDeps' /\ CallDeps(p)'
<1> USE DepsAssumption DEF Types, TypeOK, CallsOK
<1> DEFINE h == Here(p)
<1>1. pc[p] \in AtHere
  BY DEF FailRetry, AtHere
<1>2. h \in Task /\ Open(p, h) /\ MemDeps(p)
  BY <1>1, EligibleIsOpen DEF DepsInv
<1>3. /\ disk' = mem'[p] /\ pc'[p] = "loop" /\ mem'[p][h] = "pending"
      /\ \A t \in Task : t # h => mem'[p][t] = mem[p][t]
  BY <1>2 DEF FailRetry, SetMem, Goto
<1> HIDE DEF h
<1>4. MemSettled(p)'
  BY <1>3 DEF MemSettled
<1>5. ASSUME NEW u \in Task, mem'[p][u] \in Ran, NEW d \in Deps[u]
      PROVE  mem'[p][d] \in Settled
  <2>1. u # h /\ mem[p][u] \in Ran
    BY <1>3, <1>5 DEF Ran
  <2>2. d \in Task /\ d # h /\ mem[p][d] \in Settled
    BY <1>2, <2>1, <1>5 DEF MemDeps, Open
  <2> QED
    BY <1>3, <2>2
<1>6. MemDeps(p)' /\ DiskDeps'
  BY <1>3, <1>5 DEF MemDeps, DiskDeps
<1> QED
  BY <1>3, <1>4, <1>6 DEF CallDeps, FreshPlan, Marked, AtHere, Executing

\* Steps that touch neither list and leave the loop, or go on in it.
LEMMA OtherDeps ==
  ASSUME Types, DepsInv, NEW p \in Proc,
         \/ Create(p) \/ Plan(p) \/ PlanFails(p) \/ Preview(p) \/ DryRun(p)
         \/ ApiResume(p) \/ LoopEnds(p) \/ Pass(p) \/ Park(p) \/ GateHold(p)
         \/ FailStop(p) \/ Pausing(p) \/ FinishContinued(p) \/ Finish(p)
         \/ Report(p) \/ SessionEnds(p) \/ Crash(p) \/ HookThrows(p)
  PROVE  DiskDeps' /\ CallDeps(p)'
<1> USE DEF DepsInv, Types, TypeOK, CallsOK
<1>1. UNCHANGED disk
  BY Zenon DEF Create, Plan, PlanFails, Preview, DryRun, ApiResume, LoopEnds,
               Pass, Park, GateHold, FailStop, Pausing, FinishContinued, Finish,
               Report, SessionEnds, Crash, HookThrows, store
<1>2. DiskDeps'
  BY <1>1 DEF DiskDeps
<1>3. CASE \/ Create(p) \/ Plan(p) \/ PlanFails(p) \/ Preview(p) \/ DryRun(p)
           \/ ApiResume(p) \/ LoopEnds(p) \/ Park(p) \/ GateHold(p)
           \/ FailStop(p) \/ Pausing(p) \/ FinishContinued(p) \/ Finish(p)
           \/ Report(p) \/ Crash(p) \/ HookThrows(p)
  <2>1. pc'[p] \in {"idle", "created", "planning", "resumed", "pausing",
                    "finish", "report"}
    BY <1>3 DEF Create, Plan, PlanFails, Preview, DryRun, ApiResume, LoopEnds,
                Park, GateHold, FailStop, Pausing, FinishContinued, Finish,
                Report, Crash, HookThrows, Leave, Forget, Goto
  <2> QED
    BY <1>2, <2>1, QuietDeps DEF Quiet, Pc, Loaded, AtHere, Executing
<1>4. CASE Pass(p)
  <2>1. pc[p] = "loop" /\ pc'[p] = "loop" /\ UNCHANGED mem
    BY <1>4 DEF Pass, AtTask, Advance, Goto
  <2>2. MemSettled(p)' /\ MemDeps(p)'
    BY <1>1, <2>1 DEF CallDeps, Loaded, MemSettled, MemDeps
  <2> QED
    BY <1>2, <2>1, <2>2 DEF CallDeps, FreshPlan, Marked, AtHere, Executing
<1>5. CASE SessionEnds(p)
  <2>1. UNCHANGED <<disk, pc, pos, mem>>
    BY <1>5 DEF SessionEnds, store
  <2> QED
    BY <1>2, <2>1 DEF CallDeps, FreshPlan, Marked, MemSettled, MemDeps, Open,
                      Here
<1> QED
  BY <1>3, <1>4, <1>5

\* No command takes up a task or unsettles one.
LEMMA CommandDeps ==
  ASSUME Types, DepsInv, Command, ~late' PROVE DepsInv'
<1> USE DepsAssumption DEF Types, TypeOK, StoreOK
<1>1. \A t \in Task :
        /\ disk'[t] \in Ran => disk[t] \in Ran
        /\ disk[t] \in Settled => disk'[t] \in Settled
        /\ disk[t] \in {"interrupted", "cancelled"} =>
             disk'[t] \in {"interrupted", "cancelled"}
  <2>1. CASE UNCHANGED disk
    BY <2>1
  <2>2. CASE \E u \in Task : Mark(u)
    <3>1. PICK u \in Task : Mark(u)
      BY <2>2
    <3>2. /\ command \in Marking /\ disk[u] \in Seen[command]
          /\ Put(u, Given[command])
      BY <3>1, TimelyMark
    <3>3. /\ Given[command] \in Ran => disk[u] \in Ran
          /\ disk[u] \notin Settled
          /\ disk[u] \in {"interrupted", "cancelled"} =>
               Given[command] \in {"interrupted", "cancelled"}
      BY <3>2, Kinds DEF Ran, Settled, Wait
    <3> QED
      BY <3>2, <3>3 DEF Put
  <2> QED
    BY <2>1, <2>2, CommandWrites
<1>2. DiskDeps'
  BY <1>1 DEF DepsInv, DiskDeps
<1>3. UNCHANGED <<pc, pos, mem>>
  BY CommandLeavesCalls, Zenon DEF calls
<1>4. ASSUME NEW p \in Proc PROVE CallDeps(p)'
  <2>1. CallDeps(p)
    BY DEF DepsInv
  <2>2. FreshPlan(p)' /\ Marked(p)'
    BY <1>1, <1>3, <2>1 DEF CallDeps, FreshPlan, Marked
  <2>3. (pc[p] \in Loaded => MemSettled(p) /\ MemDeps(p))'
    BY <1>1, <1>3, <2>1 DEF CallDeps, MemSettled, MemDeps
  <2>4. (pc[p] \in AtHere => Open(p, Here(p)))'
    BY <1>1, <1>3, <2>1 DEF CallDeps, Open, Here
  <2> QED
    BY <2>2, <2>3, <2>4 DEF CallDeps
<1> QED
  BY <1>2, <1>4 DEF DepsInv

DepsKept == ~late => DepsInv

LEMMA DepsStep ==
  ASSUME OneCall, Types, DepsKept, [Next]_vars PROVE DepsKept'
<1> SUFFICES ASSUME ~late' PROVE DepsInv'
  BY Zenon DEF DepsKept
<1>0. DepsInv
  BY StaysTimely, Zenon DEF DepsKept
<1>1. ASSUME NEW p \in Proc, Acts(p), Around(p) PROVE DepsInv'
  <2>0. Timely(p)
    BY <1>1, CallTimely
  <2>1. DiskDeps' /\ CallDeps(p)'
    BY <1>0, <1>1, <2>0, PlanDeps, ResumeDeps, RetryDeps, TakeDeps, ExecDeps,
       ChoiceDeps, OtherDeps, Zenon
       DEF Acts, Step, NewCall
  <2>2. \A q \in Proc : q = p
    BY DEF OneCall
  <2> QED
    BY <2>1, <2>2, Zenon DEF DepsInv
<1>2. ASSUME UNCHANGED <<disk, pc, pos, mem>> PROVE DepsInv'
  BY <1>0, <1>2 DEF DepsInv, DiskDeps, CallDeps, FreshPlan, Marked,
                    MemSettled, MemDeps, Open, Here
<1>3. UNCHANGED vars => UNCHANGED <<disk, pc, pos, mem>>
  BY Zenon DEF vars, store, calls
<1>4. ASSUME NEW p \in Proc, Load(p) PROVE UNCHANGED <<disk, pc, pos, mem>>
  BY <1>4, Zenon DEF Load, store, calls
<1>5. CASE Command
  BY <1>0, <1>5, CommandDeps
<1> QED
  BY <1>1, <1>2, <1>3, <1>4, <1>5 DEF Next

\* For every plan, with one call of the run at a time: until a write comes too
\* late, a task is executed only while all it depends on is done or skipped in
\* tasks.json, whatever the loop remembers, whatever it writes back, wherever the
\* writes of commands fall between its own, and however often the processes
\* crash.
THEOREM DependenciesSettled == ASSUME OneCall PROVE Spec => []DepsSettled
<1>1. Init => Types /\ DepsKept
  <2>1. Init => DepsInv
    BY DEF Init, DepsInv, DiskDeps, CallDeps, FreshPlan, Marked, Loaded, AtHere,
           Executing, NoTasks, Ran
  <2> QED
    BY <2>1, InitTypes DEF DepsKept
<1>2. Types /\ DepsKept /\ [Next]_vars => (Types /\ DepsKept)'
  BY TypesStep, DepsStep
<1>3. Types /\ DepsKept => DepsSettled
  <2> SUFFICES ASSUME Types, DepsInv, NEW p \in Proc, pc[p] \in Executing,
                      NEW d \in Deps[Here(p)]
               PROVE  disk[d] \in {"done", "skipped"}
    BY DEF DepsSettled, DepsKept
  <2>1. Here(p) \in Task /\ Open(p, Here(p)) /\ MemSettled(p)
    BY EligibleIsOpen DEF DepsInv, AtHere
  <2> QED
    BY <2>1, DepsAssumption DEF Open, MemSettled, Settled
<1> QED
  BY <1>1, <1>2, <1>3, PTL DEF Spec

-----------------------------------------------------------------------------
(* A finished task stays finished *)

\* There is no task before the run, and none is finished before it starts.
Undone ==
  /\ run = "none" => /\ \A t \in Task : disk[t] = "absent"
                     /\ \A p \in Proc : pc[p] = "idle"
  /\ \A p \in Proc : pc[p] \in {"created", "planning", "planned", "started"} =>
       \A t \in Task : disk[t] # "done"

\* A call knows of every finished task.
DoneNoted ==
  \A p \in Proc : pc[p] \in Loaded =>
    \A t \in Task : disk[t] = "done" => mem[p][t] = "done"

\* In a process of its own, a call that ends with a waiting child takes the child
\* with it: no later call can join it.
NoRejoin ==
  \A p \in Proc : (session[p] => pc[p] = "pausing") /\ pc[p] # "rejoin"

DoneInv == Undone /\ DoneNoted /\ NoRejoin

DoneKept == NoRejoin /\ (~late => DoneInv)

KeepsDone == \A t \in Task : disk[t] = "done" => disk'[t] = "done"

LEMMA NoRejoinStep ==
  ASSUME ~Server, Types, NoRejoin, [Next]_vars PROVE NoRejoin'
<1> USE DEF NoRejoin
<1>1. CASE UNCHANGED calls
  BY <1>1, Zenon DEF calls, memory
<1>2. ASSUME NEW p \in Proc, Command \/ UNCHANGED vars \/ Load(p)
      PROVE  UNCHANGED calls
  BY <1>2, CommandLeavesCalls, Zenon DEF vars, Load
<1>3. ASSUME NEW p \in Proc, Acts(p) PROVE NoRejoin'
  <2>0. /\ pc \in [Proc -> Pc] /\ session \in [Proc -> BOOLEAN]
        /\ session' \in [Proc -> BOOLEAN]
    BY MemoryTypes, Zenon DEF Types, TypeOK, CallsOK, MemoryOK
  <2>1. ASSUME NEW q \in Proc, q # p, session'[q] => session[q]
        PROVE  (session'[q] => pc'[q] = "pausing") /\ pc'[q] # "rejoin"
    <3>1. pc'[q] = pc[q]
      BY <1>3, <2>1, OtherCalls, Zenon DEF Types, TypeOK
    <3> QED
      BY <2>1, <3>1, Zenon
  <2>2. CASE session' = [session EXCEPT ![p] = FALSE] /\ pc'[p] # "rejoin"
    <3>1. ~session'[p] /\ \A q \in Proc : q # p => session'[q] = session[q]
      BY <2>0, <2>2, Zenon
    <3> QED
      BY <2>1, <2>2, <3>1, Zenon
  <2>3. CASE /\ \E b \in BOOLEAN : session' = [session EXCEPT ![p] = b]
             /\ pc'[p] = "pausing"
    <3>1. \A q \in Proc : q # p => session'[q] = session[q]
      BY <2>0, <2>3, Zenon
    <3>2. pc'[p] # "rejoin"
      BY <2>3
    <3> QED
      BY <2>1, <2>3, <3>1, <3>2, Zenon
  <2>4. CASE UNCHANGED session /\ (pc[p] # "pausing" \/ UNCHANGED pc)
             /\ pc'[p] # "rejoin"
    BY <2>1, <2>4, Zenon
  <2>5. ASSUME \/ PlanFails(p) \/ Preview(p) \/ DryRun(p) \/ Pausing(p)
               \/ FinishContinued(p) \/ Report(p) \/ Crash(p)
               \/ HookThrows(p)
        PROVE  session' = [session EXCEPT ![p] = FALSE] /\ pc'[p] = "idle"
    <3>1. Forget(p) /\ NewProcess(p)
      BY <2>5, Zenon DEF PlanFails, Preview, DryRun, Pausing, FinishContinued,
                         Report, Crash, HookThrows, Leave
    <3> QED
      BY <2>0, <3>1, Zenon DEF Forget, NewProcess, Goto
  <2>6. CASE SessionEnds(p)
    BY <2>2, <2>6, Zenon DEF SessionEnds
  <2>7. ASSUME ExecWaits(p)
        PROVE  /\ \E b \in BOOLEAN : session' = [session EXCEPT ![p] = b]
               /\ pc'[p] = "pausing"
    BY <2>0, <2>7, Zenon DEF ExecWaits, Goto
  <2>8. ~Rejoin(p) /\ ~RejoinDone(p) /\ ~RejoinFailed(p)
    BY DEF Rejoin, RejoinDone, RejoinFailed, Cleared, Ready, AtTask
  <2>9. CASE Continue(p) \/ RetryEnds(p)
    <3>1. CASE Leave(p)
      BY <2>0, <2>2, <3>1, Zenon DEF Leave, Forget, NewProcess, Goto
    <3>2. CASE UNCHANGED memory /\ pc'[p] \in {"loop", "resumed"}
      BY <1>3, <2>4, <2>9, <3>2, Zenon DEF memory, Continue, RetryEnds
    <3>3. Leave(p) \/ (UNCHANGED memory /\ pc'[p] \in {"loop", "resumed"})
      BY <2>0, <2>9, Zenon DEF Continue, RetryEnds, EnterLoop, Goto
    <3> QED
      BY <3>1, <3>2, <3>3, Zenon
  <2>10. ASSUME \/ Create(p) \/ Plan(p) \/ SavePlan(p) \/ Start(p)
                \/ Publish(p) \/ Resume(p) \/ Requeue(p) \/ ApiResume(p)
                \/ LoopEnds(p) \/ Pass(p) \/ ManualDeny(p) \/ ManualPark(p)
                \/ Reask(p) \/ Park(p) \/ GateHold(p) \/ GateReject(p)
                \/ Execute(p) \/ ExecMark(p) \/ ExecDone(p) \/ ExecFailed(p)
                \/ FailSkip(p) \/ FailRetry(p) \/ FailStop(p) \/ Finish(p)
                \/ RetryTask(p)
         PROVE  UNCHANGED session /\ (pc[p] # "pausing" \/ UNCHANGED pc)
                /\ pc'[p] # "rejoin"
    <3>1. UNCHANGED session
      BY <2>10, Zenon
         DEF Create, Plan, SavePlan, Start, Publish, Resume, Requeue, ApiResume,
             LoopEnds, Pass, ManualDeny, ManualPark, Reask, Park, GateHold,
             GateReject, Execute, ExecMark, ExecDone, ExecFailed, FailSkip,
             FailRetry, FailStop, Finish, RetryTask, memory
    <3>2. pc[p] # "pausing" \/ UNCHANGED pc
      BY <2>10
         DEF Create, Plan, SavePlan, Start, Publish, Resume, Requeue, ApiResume,
             LoopEnds, Pass, ManualDeny, ManualPark, Reask, Park, GateHold,
             GateReject, Execute, ExecMark, ExecDone, ExecFailed, FailSkip,
             FailRetry, FailStop, Finish, RetryTask, GateAsks, Cleared, Ready,
             AtTask
    <3>3. pc'[p] # "rejoin"
      BY <2>0, <2>10
         DEF Create, Plan, SavePlan, Start, Publish, Resume, Requeue, ApiResume,
             LoopEnds, Pass, ManualDeny, ManualPark, Reask, Park, GateHold,
             GateReject, Execute, ExecMark, ExecDone, ExecFailed, FailSkip,
             FailRetry, FailStop, Finish, RetryTask, EnterLoop, Advance, Goto
    <3> QED
      BY <3>1, <3>2, <3>3, Zenon
  <2>11. CASE pc'[p] = "idle" /\ session' = [session EXCEPT ![p] = FALSE]
    <3>1. pc'[p] # "rejoin"
      BY <2>11
    <3> QED
      BY <2>2, <2>11, <3>1, Zenon
  <2> QED
    BY <1>3, <2>3, <2>4, <2>5, <2>6, <2>7, <2>8, <2>9, <2>10, <2>11, Zenon
       DEF Acts, Step, NewCall
<1>4. CASE \E p \in Proc : Acts(p)
  BY <1>3, <1>4
<1>5. CASE UNCHANGED vars \/ Command
  BY <1>1, <1>5, CommandLeavesCalls, Zenon DEF vars
<1> QED
  BY <1>1, <1>2, <1>4, <1>5, Zenon DEF Next

\* Commands neither finish a task nor take a finished one back.
LEMMA CommandsKeepDone ==
  ASSUME Types, Command, ~late'
  PROVE  /\ KeepsDone
         /\ \A t \in Task : /\ disk'[t] = "done" => disk[t] = "done"
                            /\ disk[t] = "absent" => disk'[t] = "absent"
         /\ run' # "none" \/ UNCHANGED run
<1>1. run' # "none" \/ UNCHANGED run
  BY DEF Command, Stop, Cancel, Reads, Input, Ends, CommandDies, TasksApprove,
         TasksDeny, Mark, Pause, ApiCancel, Reload, store
<1>2. CASE UNCHANGED disk
  BY <1>1, <1>2 DEF KeepsDone
<1>3. CASE \E u \in Task : Mark(u)
  <2>1. PICK u \in Task : Mark(u)
    BY <1>3
  <2>2. /\ command \in Marking /\ disk[u] \in Seen[command]
        /\ Put(u, Given[command])
    BY <2>1, TimelyMark
  <2>3. disk[u] \notin {"done", "absent"} /\ Given[command] # "done"
    BY <2>2, Kinds DEF Wait
  <2> QED
    BY <1>1, <2>2, <2>3 DEF KeepsDone, Put, Types, TypeOK, StoreOK
<1> QED
  BY <1>2, <1>3, CommandWrites

\* What a call is about to execute, executes or gave up is not finished.
LEMMA OpenNotDone ==
  ASSUME Types, DepsInv, DoneInv, NEW p \in Proc,
         Ready(p) \/ pc[p] \in AtHere
  PROVE  Here(p) \in Task /\ disk[Here(p)] # "done"
<1>1. Here(p) \in Task /\ Open(p, Here(p))
  BY EligibleIsOpen DEF DepsInv
<1>2. pc[p] \in Loaded
  BY DEF Ready, AtTask, Loaded
<1> QED
  BY <1>1, <1>2 DEF Open, Settled, DoneInv, DoneNoted

LEMMA CallsKeepDone ==
  ASSUME Types, DepsInv, DoneInv, NEW p \in Proc, Acts(p), Timely(p)
  PROVE  KeepsDone
<1> USE DEF Types, TypeOK, StoreOK, CallsOK, KeepsDone
<1>1. CASE SavePlan(p)
  BY <1>1 DEF SavePlan, DoneInv, Undone
<1>2. CASE Resume(p) \/ RetryTask(p)
  BY <1>2 DEF Resume, RetryTask, Stale
<1>3. CASE Requeue(p)
  BY <1>3 DEF Requeue, DepsInv, CallDeps, Marked
<1>4. CASE FailRetry(p)
  <2>1. Here(p) \in Task /\ disk[Here(p)] # "done" /\ pc[p] \in Loaded
    BY <1>4, OpenNotDone DEF FailRetry, AtHere, Loaded
  <2>2. \A t \in Task : disk[t] = "done" => mem[p][t] = "done"
    BY <2>1 DEF DoneInv, DoneNoted
  <2> QED
    BY <1>4, <2>1, <2>2 DEF FailRetry, SetMem
<1>5. CASE /\ Ready(p) \/ pc[p] \in AtHere
           /\ \E s : SetDisk(p, Here(p), s)
  <2>1. \E s : Put(Here(p), s)
    BY <1>5, WritesHere
  <2> QED
    BY <1>5, <2>1, OpenNotDone DEF Put
<1>6. ASSUME \/ ManualDeny(p) \/ ManualPark(p) \/ GateReject(p) \/ Reask(p)
             \/ Rejoin(p) \/ Execute(p)
      PROVE  Ready(p) /\ \E s : SetDisk(p, Here(p), s)
  BY <1>6, Zenon DEF ManualDeny, ManualPark, GateReject, GateAsks, Reask,
                     Rejoin, Execute, Cleared
<1>7. ASSUME \/ ExecMark(p) \/ ExecDone(p) \/ ExecFailed(p) \/ ExecWaits(p)
             \/ RejoinDone(p) \/ RejoinFailed(p) \/ FailSkip(p)
             \/ RetryEnds(p)
      PROVE  pc[p] \in AtHere /\ \E s : SetDisk(p, Here(p), s)
  <2>1. pc[p] \in AtHere
    BY <1>7 DEF ExecMark, ExecDone, ExecFailed, ExecWaits, RejoinDone,
                RejoinFailed, FailSkip, RetryEnds, AtHere, Executing
  <2>2. \E s : SetDisk(p, Here(p), s)
    BY <1>7, Zenon DEF ExecMark, ExecDone, ExecFailed, ExecWaits, RejoinDone,
                       RejoinFailed, FailSkip, RetryEnds, Returned
  <2> QED
    BY <2>1, <2>2
<1>8. ASSUME \/ Create(p) \/ Plan(p) \/ PlanFails(p) \/ Start(p) \/ Publish(p)
             \/ Preview(p) \/ DryRun(p) \/ ApiResume(p) \/ Continue(p)
             \/ LoopEnds(p) \/ Pass(p) \/ Park(p) \/ GateHold(p)
             \/ FailStop(p) \/ Pausing(p) \/ FinishContinued(p) \/ Finish(p)
             \/ Report(p) \/ SessionEnds(p) \/ Crash(p) \/ HookThrows(p)
      PROVE  UNCHANGED disk
  BY <1>8, Zenon
     DEF Create, Plan, PlanFails, Start, Publish, Preview, DryRun, ApiResume,
         Continue, LoopEnds, Pass, Park, GateHold, FailStop, Pausing,
         FinishContinued, Finish, Report, SessionEnds, Crash, HookThrows, store
<1>9. CASE UNCHANGED disk
  BY <1>9
<1> QED
  BY <1>1, <1>2, <1>3, <1>4, <1>5, <1>6, <1>7, <1>8, <1>9, Zenon
     DEF Acts, Step, NewCall

\* The only step that finishes a task in a call that goes on notes it.
LEMMA DoneNotedStep ==
  ASSUME Types, DepsInv, DoneInv, NEW p \in Proc, Acts(p), Timely(p),
         pc'[p] \in Loaded, NEW t \in Task, disk'[t] = "done"
  PROVE  mem'[p][t] = "done"
<1> USE DEF Types, TypeOK, StoreOK, CallsOK
<1>0. pc[p] \in Loaded /\ disk[t] = "done" => mem[p][t] = "done"
  BY DEF DoneInv, DoneNoted
<1>1. CASE Publish(p)
  <2>1. UNCHANGED disk /\ pc[p] = "started"
    BY <1>1 DEF Publish
  <2> QED
    BY <2>1 DEF DoneInv, Undone
<1>2. CASE Continue(p)
  <2>1. CASE EnterLoop(p, disk)
    BY <1>2, <2>1 DEF Continue, EnterLoop, store
  <2>2. CASE Leave(p)
    BY <2>2 DEF Leave, Forget, Goto, Loaded, AtHere, Executing
  <2> QED
    BY <1>2, <2>1, <2>2 DEF Continue
<1>3. CASE RetryTask(p)
  BY <1>3 DEF RetryTask
<1>4. CASE Pass(p) \/ SessionEnds(p)
  <2>1. UNCHANGED <<disk, mem>> /\ pc[p] \in Loaded
    BY <1>4 DEF Pass, AtTask, SessionEnds, store, Loaded
  <2> QED
    BY <1>0, <2>1
<1>5. CASE \/ ManualDeny(p) \/ GateReject(p) \/ Rejoin(p) \/ Execute(p)
           \/ ExecMark(p) \/ FailSkip(p)
  <2>1. UNCHANGED mem /\ pc[p] \in Loaded
    BY <1>5 DEF ManualDeny, GateReject, GateAsks, Rejoin, Execute, ExecMark,
                FailSkip, Cleared, Ready, AtTask, Loaded, AtHere
  <2>2. \E s \in Statuses \ {"done"} : SetDisk(p, Here(p), s)
    <3>1. CASE ExecMark(p)
      <4>1. \E s \in Marks : SetDisk(p, Here(p), s)
        BY <3>1, Zenon DEF ExecMark
      <4>2. Marks \subseteq Statuses \ {"done"}
        BY DEF Marks, Statuses, Wait
      <4> QED
        BY <4>1, <4>2, Zenon
    <3>2. CASE \/ ManualDeny(p) \/ GateReject(p) \/ Rejoin(p) \/ Execute(p)
               \/ FailSkip(p)
      <4>1. SetDisk(p, Here(p), "skipped") \/ SetDisk(p, Here(p), "running")
        BY <3>2, Zenon DEF ManualDeny, GateReject, Rejoin, Execute, FailSkip
      <4>2. {"skipped", "running"} \subseteq Statuses \ {"done"}
        BY DEF Statuses
      <4> QED
        BY <4>1, <4>2
    <3> QED
      BY <1>5, <3>1, <3>2
  <2>3. Ready(p) \/ pc[p] \in AtHere
    BY <1>5 DEF ManualDeny, GateReject, GateAsks, Rejoin, Execute, ExecMark,
                FailSkip, Cleared, AtHere
  <2>4. \E s \in Statuses \ {"done"} : Put(Here(p), s)
    BY <2>2, <2>3, WritesHere
  <2>5. disk[t] = "done"
    BY <2>4 DEF Put
  <2> QED
    BY <1>0, <2>1, <2>5
<1>6. CASE Reask(p)
  <2>1. Ready(p) /\ pc[p] \in Loaded
    BY <1>6 DEF Reask, Cleared, Ready, AtTask, Loaded
  <2>2. Here(p) \in Task /\ disk[Here(p)] # "done"
    BY <2>1, OpenNotDone
  <2>3. Put(Here(p), "pending")
    BY <1>6, <2>1, WritesHere DEF Reask
  <2> QED
    BY <1>0, <1>6, <2>1, <2>2, <2>3 DEF Reask, Put, SetMem
<1>7. CASE ExecDone(p) \/ ExecFailed(p)
  <2>1. pc[p] \in AtHere /\ pc[p] \in Loaded
    BY <1>7 DEF ExecDone, ExecFailed, AtHere, Loaded, Executing
  <2>2. Here(p) \in Task /\ disk[Here(p)] # "done"
    BY <2>1, OpenNotDone
  <2>3. CASE ExecDone(p)
    <3>0. \E s : Put(Here(p), s)
      BY <2>1, <2>3, WritesHere DEF ExecDone, Returned
    <3>1. t = Here(p) \/ disk[t] = "done"
      BY <3>0 DEF Put
    <3> QED
      BY <1>0, <2>1, <2>2, <2>3, <3>1 DEF ExecDone, SetMem
  <2>4. CASE ExecFailed(p)
    <3>1. SetDisk(p, Here(p), "failed") \/ SetDisk(p, Here(p), "skipped")
      BY <2>4 DEF ExecFailed, Returned, Returns, Wait
    <3>2. Put(Here(p), "failed") \/ Put(Here(p), "skipped")
      BY <2>1, <3>1, WritesHere
    <3>3. t # Here(p) /\ disk[t] = "done"
      BY <2>2, <3>2 DEF Put
    <3> QED
      BY <1>0, <2>1, <2>4, <3>3 DEF ExecFailed, SetMem
  <2> QED
    BY <1>7, <2>3, <2>4
<1>8. CASE FailRetry(p)
  BY <1>8 DEF FailRetry
<1>9. ~RejoinDone(p)
  BY DEF RejoinDone, DoneInv, NoRejoin
<1>10. ASSUME \/ Create(p) \/ Plan(p) \/ SavePlan(p) \/ Start(p) \/ Resume(p)
              \/ Requeue(p) \/ ApiResume(p) \/ PlanFails(p) \/ Preview(p)
              \/ DryRun(p) \/ LoopEnds(p) \/ Park(p) \/ GateHold(p)
              \/ ManualPark(p) \/ ExecWaits(p) \/ RejoinFailed(p)
              \/ FailStop(p) \/ Pausing(p) \/ FinishContinued(p) \/ Finish(p)
              \/ Report(p) \/ Crash(p) \/ HookThrows(p) \/ RetryEnds(p)
       PROVE  FALSE
  BY <1>10 DEF Create, Plan, SavePlan, Start, Resume, Requeue, ApiResume,
               PlanFails, Preview, DryRun, LoopEnds, Park, GateHold, ManualPark,
               ExecWaits, RejoinFailed, FailStop, Pausing, FinishContinued,
               Finish, Report, Crash, HookThrows, RetryEnds, Leave, Forget,
               Goto, Loaded, AtHere, Executing
<1> QED
  BY <1>1, <1>2, <1>3, <1>4, <1>5, <1>6, <1>7, <1>8, <1>9, <1>10, Zenon
     DEF Acts, Step, NewCall

LEMMA UndoneStep ==
  ASSUME OneCall, Types, DoneInv, NEW p \in Proc, Acts(p) PROVE Undone'
<1> USE DEF Types, TypeOK, StoreOK, CallsOK
<1>1. run' = "none" => run = "none" /\ UNCHANGED <<disk, pc>>
  <2> SUFFICES ASSUME run' = "none" PROVE run = "none" /\ UNCHANGED <<disk, pc>>
    OBVIOUS
  <2>1. run = "none"
    BY DEF Acts, Step, NewCall, store, Create, Plan, PlanFails, SavePlan, Start,
           Publish, Preview, Resume, DryRun, Requeue, ApiResume, Continue,
           LoopEnds, Pass, ManualDeny, ManualPark, Rejoin, Reask, Park,
           GateHold, GateReject, Execute, ExecMark, ExecDone, ExecFailed,
           ExecWaits, RejoinDone, RejoinFailed, FailSkip, FailRetry, FailStop,
           Pausing, FinishContinued, Finish, Report, RetryTask, RetryEnds,
           SessionEnds, Crash, HookThrows
  <2>2. pc[p] = "idle" /\ \A t \in Task : disk[t] = "absent"
    BY <2>1 DEF DoneInv, Undone
  <2>3. ~Step(p) /\ ~ExecMark(p) /\ ~Crash(p) /\ ~HookThrows(p)
    BY <2>2
       DEF Step, Plan, PlanFails, SavePlan, Start, Publish, Preview, DryRun,
           Requeue, Continue, LoopEnds, Pass, ManualDeny, ManualPark, Rejoin,
           Reask, Park, GateHold, GateReject, Execute, ExecMark, ExecDone,
           ExecFailed, ExecWaits, RejoinDone, RejoinFailed, FailSkip, FailRetry,
           FailStop, Pausing, FinishContinued, Finish, Report, RetryEnds, Crash,
           HookThrows, GateAsks, Cleared, Ready, AtTask, Executing
  <2>4. ~NewCall(p)
    BY <2>1, <2>2 DEF NewCall, Create, Resume, ApiResume, RetryTask, Task
  <2> QED
    BY <2>1, <2>3, <2>4, Zenon DEF Acts, SessionEnds, store
<1>2. pc'[p] \in {"created", "planning", "planned", "started"} =>
        \A t \in Task : disk'[t] # "done"
  <2> SUFFICES ASSUME pc'[p] \in {"created", "planning", "planned", "started"},
                      NEW t \in Task
               PROVE  disk'[t] # "done"
    OBVIOUS
  <2>1. CASE Create(p)
    BY <2>1 DEF Create, DoneInv, Undone
  <2>2. CASE Plan(p) \/ SavePlan(p) \/ Start(p) \/ SessionEnds(p)
    BY <2>2 DEF Plan, SavePlan, Start, SessionEnds, store, DoneInv, Undone
  <2>3. ASSUME NewCall(p), ~Create(p) PROVE FALSE
    BY <2>3 DEF NewCall, Resume, ApiResume, RetryTask, Goto
  <2>4. ASSUME Step(p), ~Plan(p), ~SavePlan(p), ~Start(p) PROVE FALSE
    BY <2>4
       DEF Step, PlanFails, Publish, Preview, DryRun, Requeue, Continue,
           LoopEnds, Pass, ManualDeny, ManualPark, Rejoin, Reask, Park,
           GateHold, GateReject, Execute, ExecDone, ExecFailed, ExecWaits,
           RejoinDone, RejoinFailed, FailSkip, FailRetry, FailStop, Pausing,
           FinishContinued, Finish, Report, RetryEnds, GateAsks, Cleared,
           Ready, AtTask, Leave, Forget, EnterLoop, Advance, Goto
  <2>5. ~ExecMark(p) /\ ~Crash(p) /\ ~HookThrows(p)
    BY DEF ExecMark, Crash, HookThrows, Leave, Forget, Goto, Executing
  <2> QED
    BY <2>1, <2>2, <2>3, <2>4, <2>5, Zenon DEF Acts
<1>3. \A q \in Proc : q = p
  BY DEF OneCall
<1> QED
  BY <1>1, <1>2, <1>3 DEF DoneInv, Undone

LEMMA DoneStep ==
  ASSUME OneCall, ~Server, Types, DepsKept, DoneKept, [Next]_vars
  PROVE  DoneKept' /\ (~late' => KeepsDone)
<1>1. NoRejoin'
  BY NoRejoinStep DEF DoneKept
<1> SUFFICES ASSUME ~late' PROVE DoneInv' /\ KeepsDone
  BY <1>1, Zenon DEF DoneKept
<1>0. DepsInv /\ DoneInv
  BY StaysTimely, Zenon DEF DepsKept, DoneKept
<1>2. ASSUME NEW p \in Proc, Acts(p), Around(p)
      PROVE  Undone' /\ DoneNoted' /\ KeepsDone
  <2>0. Timely(p)
    BY <1>2, CallTimely
  <2>1. \A q \in Proc : q = p
    BY DEF OneCall
  <2>2. DoneNoted'
    BY <1>0, <1>2, <2>0, <2>1, DoneNotedStep DEF DoneNoted
  <2> QED
    BY <1>0, <1>2, <2>0, <2>2, UndoneStep, CallsKeepDone
<1>3. CASE Command
  <2>1. UNCHANGED <<pc, mem>>
    BY <1>3, CommandLeavesCalls, Zenon DEF calls
  <2> QED
    BY <1>0, <1>1, <1>3, <2>1, CommandsKeepDone
       DEF Types, TypeOK, DoneInv, Undone, DoneNoted
<1>4. ASSUME UNCHANGED <<run, disk, pc, mem>> PROVE DoneInv' /\ KeepsDone
  BY <1>0, <1>1, <1>4 DEF DoneInv, Undone, DoneNoted, KeepsDone
<1>5. UNCHANGED vars => UNCHANGED <<run, disk, pc, mem>>
  BY Zenon DEF vars, store, calls
<1>6. ASSUME NEW p \in Proc, Load(p) PROVE UNCHANGED <<run, disk, pc, mem>>
  BY <1>6, Zenon DEF Load, store, calls
<1> QED
  BY <1>1, <1>2, <1>3, <1>4, <1>5, <1>6 DEF Next, DoneInv

\* For every plan, with one call of the run at a time and each in a process of
\* its own: until a write comes too late, a task that tasks.json shows done stays
\* done, whatever is resumed, retried, stopped, cancelled or crashes, and wherever
\* the writes of commands fall between those of the call.
THEOREM FinishedIsFinal == ASSUME OneCall, ~Server PROVE Spec => DoneIsFinal
<1> DEFINE Inv == Types /\ DepsKept /\ DoneKept
<1>1. Init => Inv
  <2>1. Init => DepsInv
    BY DEF Init, DepsInv, DiskDeps, CallDeps, FreshPlan, Marked, Loaded, AtHere,
           Executing, NoTasks, Ran
  <2>2. Init => Undone /\ DoneNoted
    BY DEF Init, Undone, DoneNoted, NoTasks, Loaded, AtHere, Executing
  <2>3. Init => NoRejoin
    <3> SUFFICES ASSUME Init, NEW p \in Proc
                 PROVE  ~session[p] /\ pc[p] = "idle"
      BY DEF NoRejoin
    <3>1. pc[p] = "idle"
      BY DEF Init
    <3>2. ~session[p]
      BY Zenon DEF Init
    <3> QED
      BY <3>1, <3>2
  <2> QED
    BY <2>1, <2>2, <2>3, InitTypes DEF DoneInv, DoneKept, DepsKept
<1>2. Inv /\ [Next]_vars => Inv' /\ [~late' => KeepsDone]_vars
  BY TypesStep, DepsStep, DoneStep
<1> QED
  BY <1>1, <1>2, PTL DEF Spec, DoneIsFinal, KeepsDone
=============================================================================
