----------------------------- MODULE WorkflowEdit -----------------------------
(***************************************************************************)
(* Editing the task list of a run while it may be executing: WorkflowManager*)
(* (apply, add, remove, reorder), RunManager.updateTask, and the replanner,*)
(* with the planner output it merges and the command that applies the      *)
(* merged workflow.  An editor loads tasks.json, computes a whole new list *)
(* and saves it; between the two the executor of the run may change the    *)
(* status of a task.  Replanning waits for the AI planner in between.      *)
(*                                                                         *)
(* A task is its id, its title, the ids it depends on and its status.      *)
(***************************************************************************)
EXTENDS Naturals, Sequences, FiniteSets, SequencesExt

CONSTANTS Title,             \* titles, compared without their case
          Plan,              \* the lists a run may start with
          MaxTasks, MaxBegun \* bounds

ASSUME EditAssumption == Title # {} /\ MaxTasks \in Nat /\ MaxBegun \in Nat

VARIABLES
  tasks,      \* tasks.json
  job,        \* the edit under way: what it loaded and was told, or None
  begun,      \* how many edits were begun
  replanned,  \* a replan has been saved
  overlapped  \* an edit was saved over a running task, or over a newer list

editVars == <<tasks, job, begun, replanned, overlapped>>

Status == {"pending", "running", "done", "failed", "skipped", "interrupted"}
Strategies == {"keep-completed", "keep-all", "replace-all"}
Ops == {"apply", "add", "remove", "reorder", "update", "replan", "confirm"}

Task == [id : Nat \ {0}, title : Title, deps : SUBSET (Nat \ {0}),
         status : Status]
Idle == [op |-> "none"]

Ids(list) == {list[i].id : i \in DOMAIN list}
Has(list, t) == t \in Ids(list)
At(list, t) == list[CHOOSE i \in DOMAIN list : list[i].id = t]
Position(list, t) == CHOOSE i \in DOMAIN list : list[i].id = t
Named(list) == Ids(list) \cup UNION {list[i].deps : i \in DOMAIN list}

\* A planner's tasks have ids of their own and depend on tasks of the plan.
ASSUME PlanAssumption ==
  \A list \in Plan : /\ list \in Seq(Task)
                     /\ Cardinality(Ids(list)) = Len(list)
                     /\ Named(list) = Ids(list)

Marked(list, t, status) == [list EXCEPT ![Position(list, t)].status = status]

\* The entries at the positions in K, in their order.
Kept(list, K) ==
  [n \in 1 .. Cardinality(K) |->
     list[CHOOSE i \in K : Cardinality({j \in K : j < i}) = n - 1]]

\* Generated ids are random; the model counts on from the largest id named.
Largest(list) == Max(Named(list) \cup {0})

EditTypeOK ==
  /\ tasks \in Seq(Task) /\ Cardinality(Ids(tasks)) = Len(tasks)
  /\ job.op \in Ops \cup {"none"}
  /\ begun \in 0 .. MaxBegun
  /\ replanned \in BOOLEAN /\ overlapped \in BOOLEAN

EditInit ==
  /\ tasks \in Plan
  /\ job = Idle /\ begun = 0
  /\ replanned = FALSE /\ overlapped = FALSE

-----------------------------------------------------------------------------
(* validateWorkflow *)

\* What the search knows: a colour for each task, and the edges that closed
\* a cycle.
Search(file) == [color : [Ids(file) -> {"white", "gray", "black"}],
                 back : SUBSET (Ids(file) \X Ids(file))]

Colored(s, node, c) == [s EXCEPT !.color[node] = c]

Calls(file) == {call \in Ids(file) \X Search(file) :
                  call[2].color[call[1]] = "white"}

\* A loop over seq, with a function for its body.
ForEach(seq, start, Body) ==
  LET after[i \in 0 .. Len(seq)] ==
        IF i = 0 THEN start ELSE Body[seq[i]][after[i - 1]]
  IN  after[Len(seq)]

\* dfs, where visit is what its calls of itself return; it passes over
\* tasks that the file does not list.
Look(file, visit, node, next, s) ==
  CASE ~Has(file, next) -> s
    [] Has(file, next) /\ s.color[next] = "gray" ->
         [s EXCEPT !.back = @ \cup {<<node, next>>}]
    [] Has(file, next) /\ s.color[next] = "white" -> visit[<<next, s>>]
    [] OTHER -> s

Dfs(file, visit, node, state) ==
  LET deps == At(file, node).deps
      Body == [next \in deps |->
                 [s \in Search(file) |-> Look(file, visit, node, next, s)]]
      seen == ForEach(SetToSeq(deps), Colored(state, node, "gray"), Body)
  IN  Colored(seen, node, "black")

Visit(file) ==
  LET visit[call \in Calls(file)] == Dfs(file, visit, call[1], call[2])
  IN  visit

Start(file) == [color |-> [t \in Ids(file) |-> "white"], back |-> {}]

\* (Mutant: each new root forgets the cycles found so far.)
MutDetectCycles(file) ==
  LET Body == [t \in Ids(file) |-> [s \in Search(file) |->
                 IF s.color[t] = "white"
                 THEN Visit(file)[<<t, [s EXCEPT !.back = {}]>>] ELSE s]]
  IN  ForEach([i \in DOMAIN file |-> file[i].id], Start(file), Body).back

DetectCycles(file) ==
  LET Body == [t \in Ids(file) |-> [s \in Search(file) |->
                 IF s.color[t] = "white" THEN Visit(file)[<<t, s>>] ELSE s]]
  IN  ForEach([i \in DOMAIN file |-> file[i].id], Start(file), Body).back

DeadRefs(file) == Named(file) \ Ids(file)

\* (Mutant: the cycles are left to the warnings.)
MutValid(file) ==
  /\ Len(file) > 0
  /\ Cardinality(Ids(file)) = Len(file)
  /\ DeadRefs(file) = {}

Valid(file) ==
  /\ Len(file) > 0
  /\ Cardinality(Ids(file)) = Len(file)
  /\ DeadRefs(file) = {}
  /\ DetectCycles(file) = {}

-----------------------------------------------------------------------------
(* applyWorkflow *)

Modifiable == {"pending", "failed", "interrupted"}

\* detectChanges
Changed(old, new) == old.title # new.title \/ old.deps # new.deps

Added(new) == [id |-> new.id, title |-> new.title, deps |-> new.deps,
               status |-> "pending"]

MergeTask(old, new) == [old EXCEPT !.title = new.title, !.deps = new.deps]

\* What becomes of an entry of the file.
Entry(list, force, new) ==
  IF ~Has(list, new.id) THEN Added(new)
  ELSE LET old == At(list, new.id)
       IN  IF Changed(old, new) /\ (force \/ old.status \in Modifiable)
           THEN MergeTask(old, new) ELSE old

\* Tasks that the file does not list are skipped, not deleted; with force
\* they no longer depend on one another.
LeftOut(list, file, force) ==
  LET gone == Ids(list) \ Ids(file)
      Skip(t) == [t EXCEPT !.status = "skipped",
                           !.deps = IF force THEN @ \ gone ELSE @]
      absent == Kept(list, {i \in DOMAIN list : list[i].id \in gone})
  IN  [i \in DOMAIN absent |-> Skip(absent[i])]

\* The merged list comes in the order of the file, then in the old order.
Applied(list, file, force) ==
  [i \in DOMAIN file |-> Entry(list, force, file[i])]
    \o LeftOut(list, file, force)

-----------------------------------------------------------------------------
(* addTask, removeTask, reorderTasks, reorderTask, updateTask *)

\* The new task goes after the task named, or last.
AddTask(list, title, deps, after) ==
  LET new == [id |-> Largest(list) + 1, title |-> title, deps |-> deps,
              status |-> "pending"]
  IN  IF Has(list, after) THEN InsertAt(list, Position(list, after) + 1, new)
      ELSE Append(list, new)

Dependents(list, t) == {u \in Ids(list) : t \in At(list, u).deps}

\* (Mutant: the dependents of a deleted task keep naming it.)
MutWithout(list, t) == list

Without(list, t) ==
  [i \in DOMAIN list |-> [list[i] EXCEPT !.deps = @ \ {t}]]

RemoveTask(list, t, delete, force) ==
  LET free == IF force THEN Without(list, t) ELSE list
  IN  IF delete THEN RemoveAt(free, Position(list, t))
      ELSE Marked(free, t, "skipped")

\* validateOrdering
Ordered(list) ==
  \A t \in Ids(list) : \A d \in At(list, t).deps :
    Has(list, d) => Position(list, d) <= Position(list, t)

\* The tasks named first, in the order given, then the others.
Reordered(list, front) ==
  [i \in DOMAIN front |-> At(list, front[i])]
    \o Kept(list, {i \in DOMAIN list : list[i].id \notin Range(front)})

Renamed(list, t, title) == [list EXCEPT ![Position(list, t)].title = title]

-----------------------------------------------------------------------------
(* The planner's answer and the replanner *)

\* processPlannerOutput: titles become new ids.  The title of a task is known
\* before its own dependencies are looked up, and the last task of a title
\* counts.
LastOf(answer, i, title) ==
  CHOOSE j \in 1 .. i :
    /\ answer[j].title = title
    /\ \A k \in j + 1 .. i : answer[k].title # title

Accepted(answer) ==
  \A i \in DOMAIN answer : \A d \in answer[i].after :
    \E j \in 1 .. i : answer[j].title = d

PlannerOutput(answer, base) ==
  [i \in DOMAIN answer |->
     [id |-> base + i, title |-> answer[i].title, status |-> "pending",
      deps |-> {base + LastOf(answer, i, d) : d \in answer[i].after}]]

Titles(list) == {list[i].title : i \in DOMAIN list}
OfTitle(list, title) == Max({i \in DOMAIN list : list[i].title = title})

\* replace-all: the new plan and what is running.
Replace(list, plan) ==
  plan \o Kept(list, {i \in DOMAIN list : list[i].status = "running"})

\* keep-all: everything there is, and the planned tasks of new titles.
KeepAll(list, plan) ==
  list \o Kept(plan, {i \in DOMAIN plan : plan[i].title \notin Titles(list)})

\* keep-completed: finished tasks; failed, then waiting ones, renewed when the
\* plan has their title; the rest of the plan under ids of its own.  A planned
\* dependency stays the id that the plan gave it.
KeepCompleted(list, plan, base) ==
  LET In(statuses) ==
        Kept(list, {i \in DOMAIN list : list[i].status \in statuses})
      Renew(t) == IF t.title \in Titles(plan)
                  THEN [t EXCEPT !.deps = plan[OfTitle(plan, t.title)].deps]
                  ELSE t
      old == In({"failed", "interrupted"}) \o In({"pending"})
      new == Kept(plan, {i \in DOMAIN plan : plan[i].title \notin Titles(old)})
  IN  In({"done", "skipped"})
        \o [i \in DOMAIN old |-> Renew(old[i])]
        \o [i \in DOMAIN new |-> [new[i] EXCEPT !.id = base + i]]

Merged(list, plan, strategy, base) ==
  CASE strategy = "replace-all" -> Replace(list, plan)
    [] strategy = "keep-all" -> KeepAll(list, plan)
    [] strategy = "keep-completed" -> KeepCompleted(list, plan, base)

\* (Mutant: every task of the merged plan is to be executed.)
MutPersisted(list, merged) ==
  [i \in DOMAIN merged |-> [merged[i] EXCEPT !.status = "pending"]]

\* What replan writes to disk: a finished task stays done, a running one is
\* interrupted, everything else is to be executed.
Persisted(list, merged) ==
  LET Old(t) == IF Has(list, t.id) THEN At(list, t.id).status ELSE "pending"
  IN  [i \in DOMAIN merged |->
         [merged[i] EXCEPT !.status =
            CASE Old(merged[i]) = "done" -> "done"
              [] Old(merged[i]) = "running" -> "interrupted"
              [] OTHER -> "pending"]]

-----------------------------------------------------------------------------
(* Steps *)

\* The executor, or a command on the run, changes the status of one task.
Steps == {<<"pending", "running">>, <<"running", "done">>,
          <<"running", "failed">>, <<"failed", "pending">>}

UpdateTaskStatus(t, status) ==
  /\ Has(tasks, t) /\ <<At(tasks, t).status, status>> \in Steps
  /\ tasks' = Marked(tasks, t, status)
  /\ UNCHANGED <<job, begun, replanned, overlapped>>

Ready == job = Idle /\ begun < MaxBegun

\* An edit is begun: the list is loaded.
Load(edit) ==
  /\ begun' = begun + 1
  /\ job' = edit
  /\ UNCHANGED <<tasks, replanned, overlapped>>

\* Files list tasks of the run, and possibly a new one, in either order.
Files ==
  LET new == Largest(tasks) + 1
      all == Ids(tasks) \cup {new}
      Line(t, deps) == [id |-> t, deps |-> deps, status |-> "pending",
                        title |-> IF t = new THEN CHOOSE x \in Title : TRUE
                                  ELSE At(tasks, t).title]
      Body(ids) == {[i \in DOMAIN ids |-> Line(ids[i], d[i])] :
                      d \in [DOMAIN ids -> SUBSET Range(ids)]}
  IN  UNION {Body(ids) : ids \in {<<t>> : t \in Ids(tasks)}
                                  \cup {p \in all \X all : p[1] # p[2]}
                                  \cup {SetToSeq(all)}}

BeginApply ==
  /\ Ready
  /\ \E file \in Files, force \in BOOLEAN :
       Load([op |-> "apply", base |-> tasks, file |-> file, force |-> force])

BeginEdit ==
  /\ Ready
  /\ \/ \E title \in Title, deps \in SUBSET Ids(tasks),
           after \in Ids(tasks) \cup {0} :
          /\ Len(tasks) < MaxTasks
          /\ Load([op |-> "add", base |-> tasks, title |-> title,
                   deps |-> deps, after |-> after])
     \/ \E t \in Ids(tasks), delete \in BOOLEAN, force \in BOOLEAN :
          Load([op |-> "remove", base |-> tasks, task |-> t,
                delete |-> delete, force |-> force])
     \/ \E t, u \in Ids(tasks) :
          Load([op |-> "reorder", base |-> tasks,
                front |-> IF t = u THEN <<t>> ELSE <<t, u>>])
     \/ \E t \in Ids(tasks), title \in Title :
          Load([op |-> "update", base |-> tasks, task |-> t, title |-> title])

BeginReplan ==
  /\ Ready
  /\ \E strategy \in Strategies, dry \in BOOLEAN :
       Load([op |-> "replan", base |-> tasks, strategy |-> strategy,
             dry |-> dry])

Refused == job' = Idle /\ UNCHANGED tasks

\* An edit is saved: what it computed from the list it loaded.
Save(list) ==
  /\ tasks' = list
  /\ job' = Idle
  /\ overlapped' = (overlapped \/ tasks # job.base
                       \/ \E t \in Ids(tasks) : At(tasks, t).status = "running")
  /\ UNCHANGED <<begun, replanned>>

SaveApply ==
  /\ job.op = "apply"
  /\ IF Valid(job.file)
     THEN Save(Applied(job.base, job.file, job.force))
     ELSE Refused /\ UNCHANGED <<begun, replanned, overlapped>>

SaveAdd ==
  /\ job.op = "add"
  /\ Save(AddTask(job.base, job.title, job.deps, job.after))

SaveRemove ==
  /\ job.op = "remove"
  /\ IF job.force \/ Dependents(job.base, job.task) = {}
     THEN Save(RemoveTask(job.base, job.task, job.delete, job.force))
     ELSE Refused /\ UNCHANGED <<begun, replanned, overlapped>>

SaveReorder ==
  /\ job.op = "reorder"
  /\ IF Ordered(Reordered(job.base, job.front))
     THEN Save(Reordered(job.base, job.front))
     ELSE Refused /\ UNCHANGED <<begun, replanned, overlapped>>

\* RunManager.updateTask
SaveUpdate ==
  /\ job.op = "update"
  /\ Save(Renamed(job.base, job.task, job.title))

\* The planner answers (or fails); the merged list is saved before anybody
\* is asked, and then offered to applyWorkflow, unless it was a dry run.
Replan(answer) ==
  /\ job.op = "replan"
  /\ IF Accepted(answer)
     THEN LET list == job.base
              plan == PlannerOutput(answer, Largest(list))
              merged == Merged(list, plan, job.strategy,
                               Largest(list) + Len(plan))
          IN  /\ Len(merged) <= MaxTasks
              /\ tasks' = Persisted(list, merged)
              /\ job' = IF job.dry THEN Idle
                        ELSE [op |-> "confirm", file |-> merged]
              /\ replanned' = TRUE
              /\ UNCHANGED <<begun, overlapped>>
     ELSE Refused /\ UNCHANGED <<begun, replanned, overlapped>>

\* The user confirms, and the merged list is applied to what is there now.
Confirm ==
  /\ job.op = "confirm"
  /\ \/ Refused
     \/ job' = [op |-> "apply", file |-> job.file, force |-> FALSE,
                base |-> tasks] /\ UNCHANGED tasks
  /\ UNCHANGED <<begun, replanned, overlapped>>

Answers ==
  LET One == [title : Title, after : SUBSET Title]
  IN  {<<a>> : a \in One} \cup (One \X One)

EditNext ==
  \/ \E t \in Ids(tasks), status \in Status : UpdateTaskStatus(t, status)
  \/ BeginApply \/ BeginEdit \/ BeginReplan
  \/ SaveApply \/ SaveAdd \/ SaveRemove \/ SaveReorder \/ SaveUpdate
  \/ \E answer \in Answers : Replan(answer)
  \/ Confirm

EditSpec == EditInit /\ [][EditNext]_editVars

-----------------------------------------------------------------------------
(* Properties *)

\* A graph has a cycle when some of its nodes all depend on one of them.
Cyclic(nodes, list) ==
  \E C \in (SUBSET nodes) \ {{}} :
    \A t \in C : At(list, t).deps \cap C # {}

\* The search finds a cycle exactly when the file has one.
CyclesFound ==
  "file" \in DOMAIN job =>
    (DetectCycles(job.file) # {} <=> Cyclic(Ids(job.file), job.file))

\* Until a replan is saved, every dependency names a task of the list: one
\* that names none is never met, and its task is never executed.
DepsNameTasks == ~replanned => Named(tasks) = Ids(tasks)

Waiting == {t \in Ids(tasks) : At(tasks, t).status \notin {"done", "skipped"}}

\* Tasks that still wait to be done never wait for one another, unless a
\* replan, or an edit over a running task or a newer list, has been saved.
\* applyWorkflow checks the file for cycles and not the merged list, where
\* tasks it may not modify keep the dependencies they had.
NoWaitingCycle == ~(replanned \/ overlapped) => ~Cyclic(Waiting, tasks)

\* An edit of the list as it is sends no finished task back to be executed.
DoneIsNotRedone ==
  [][job # Idle /\ "base" \in DOMAIN job /\ job.base = tasks =>
       \A t \in Ids(tasks) \cap Ids(tasks') :
         At(tasks, t).status = "done"
           => At(tasks', t).status \in {"done", "skipped"}]_editVars

\* "Show what would change without applying" (workflow replan --dry-run).
DryRunChangesNothing ==
  [][job.op = "replan" /\ job.dry /\ job' # job => tasks' = tasks]_editVars
=============================================================================
