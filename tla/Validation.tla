------------------------------ MODULE Validation ------------------------------
(***************************************************************************)
(* Validation of an attempt (ValidationEngine.validateTask, as the loop of *)
(* RunLifecycle.executeTask calls it): the validation commands are run one *)
(* after the other by a ValidationRunner, the other checks are made, an AI *)
(* may be asked, and the verdict decides between done, another attempt and *)
(* failed.                                                                 *)
(*                                                                         *)
(* The engine belongs to the RunLifecycle, which a server shares among its *)
(* calls, so tasks that are validated at the same time share the runner and*)
(* its cache of commands already completed.                                *)
(***************************************************************************)
EXTENDS Integers, Sequences, FiniteSets, SequencesExt

CONSTANTS Call,        \* tasks being executed by one process
          Command,     \* validation commands
          CommandLists,\* the lists of commands a task may have
          MaxRetries   \* bound: attempts after the first, of all rounds


None == "none"

ASSUME ValidationAssumption ==
  /\ MaxRetries \in Nat
  /\ CommandLists \subseteq Seq(Command)
  /\ None \notin Call

VARIABLES
  adaptive,  \* configured: an expected outcome that is seen outweighs the rest
  task,      \* the commands of each task, and whether it expects a result
  pc,
  retries,
  results,   \* the statuses of the commands of this attempt
  child,     \* the shell of the command under way
  timedOut,  \* its timeout has fired
  cache,     \* dedupeCache: the call that completed each command, or None
  borrowed,  \* a command was passed over for a result of another call
  judgement, \* what the last attempt came to
  final      \* what became of the task

runner == <<results, child, timedOut, cache, borrowed>>
config == <<adaptive, task>>
vars == <<config, pc, retries, runner, judgement, final>>

CheckStatus == {"passed", "warning", "failed", "skipped", "needs_retry",
                "needs_review"}

-----------------------------------------------------------------------------
(* Checks and their scores, in percent *)

Check(type, status, confidence) ==
  [type |-> type, status |-> status, confidence |-> confidence]

\* A check that names no confidence counts as if its confidence were 80.
Plain(type, status) == Check(type, status, 80)

Some(checks, types, status) ==
  \E i \in DOMAIN checks :
    checks[i].type \in types /\ checks[i].status = status

Deterministic == {"process", "command", "acceptance_criteria", "output_plan",
                  "evidence", "typed"}
Others == Deterministic \cup {"ai_review", "hybrid"}
All == Others \cup {"outcome_comparison"}

\* The checks that depend on the type of the workflow, and their confidence.
TypedChecks ==
  {Check("typed", "passed", c) : c \in {70, 85, 90}}
    \cup {Check("typed", "warning", c) : c \in {10, 50}}
    \cup {Check("typed", "failed", c) : c \in {0, 15}}
    \cup {Check("typed", "needs_review", c) : c \in {10, 15}}

\* Acceptance criteria are met only if the process succeeded; items of the
\* output plan may also have been reviewed by an AI or left to a human.
Extras(exit) ==
  {Plain("acceptance_criteria", s) :
     s \in {"warning"} \cup (IF exit = 0 THEN {"passed"} ELSE {})}
    \cup {Plain("output_plan", s) : s \in CheckStatus \ {"skipped"}}
    \cup {Plain("process", s) : s \in {"passed", "failed"}}
    \cup TypedChecks

\* determineVerdict: all expected files may be there although the process
\* failed, and a process that succeeded is a warning without any evidence.
Outcomes(exit) == {"passed", "warning"} \cup IF exit = 0 THEN {} ELSE {"failed"}

\* EvidenceValidator
EvidenceChecks ==
  {Check("evidence", "passed", 80), Check("evidence", "needs_review", 30)}

\* scoreDeterministic: four times the percentage, summed over the checks.
Score(checks) ==
  LET Part(c) == CASE c.status = "passed" -> 4 * c.confidence
                   [] c.status = "failed" -> 0
                   [] c.status = "warning" -> 2 * c.confidence
                   [] OTHER -> c.confidence
  IN  FoldLeft(LAMBDA sum, c : sum + Part(c), 0, checks)

\* scoreAiVerdict
AiScore(verdict) ==
  LET base == CASE verdict.status = "passed" -> 90
                [] verdict.status = "warning" -> 60
                [] verdict.status = "needs_retry" -> 40
                [] verdict.status = "needs_review" -> 30
                [] verdict.status = "failed" -> 10
      sure == CASE verdict.confidence = "high" -> 10
                [] verdict.confidence = "medium" -> 7
                [] verdict.confidence = "low" -> 4
  IN  base * sure

AiAnswers == [status : CheckStatus \ {"skipped"},
              confidence : {"high", "medium", "low"}]
NoAi == [status |-> None, confidence |-> None]

\* The code adds doubles: six to twelve checks of 0.8 each come to less than
\* 0.8 on average.  A score that is exactly at a threshold is on either side.
Hybrid(checks, ai) ==
  LET n == Len(checks)
      score == IF ai = NoAi THEN Score(checks) * 1000
               ELSE Score(checks) * 600 + AiScore(ai) * 160 * n
      AtLeast(percent) == score > percent * 4000 * n
      Ties(percent) == score = percent * 4000 * n
      Low == IF ai.status = "needs_retry" THEN "needs_retry"
             ELSE "warning"
  IN  CASE Some(checks, All, "failed") -> {"failed"}
        [] AtLeast(80) -> {"passed"}
        [] Ties(80) -> {"passed", Low}
        [] AtLeast(50) /\ ~AtLeast(80) /\ ~Ties(80) -> {Low}
        [] Ties(50) -> {Low, "needs_review"}
        [] score > 0 /\ ~AtLeast(50) /\ ~Ties(50) -> {"needs_review"}
        [] score = 0 -> {"failed"}

-----------------------------------------------------------------------------
(* The verdict *)

\* buildFinalResult
BuildFinalResult(checks) ==
  CASE Some(checks, All, "failed") -> "failed"
    [] ~Some(checks, All, "failed") /\ Some(checks, All, "needs_review") ->
         "needs_review"
    [] ~Some(checks, All, "failed") /\ ~Some(checks, All, "needs_review")
         /\ Some(checks, All, "needs_retry") -> "needs_retry"
    [] \A i \in DOMAIN checks : checks[i].status = "passed" -> "passed"
    [] OTHER -> "warning"

\* determineAdaptiveResult: what the outcome check says goes, tempered by the
\* others.
DetermineAdaptiveResult(checks, outcome) ==
  CASE outcome = "failed" -> "failed"
    [] outcome # "failed" /\ Some(checks, Others, "needs_review") ->
         "needs_review"
    [] outcome # "failed" /\ ~Some(checks, Others, "needs_review")
         /\ Some(checks, Others, "needs_retry") -> "needs_retry"
    [] OTHER -> IF ~Some(checks, Others, "failed") THEN outcome
                ELSE IF outcome = "passed" THEN "warning" ELSE "failed"

\* What the AI says is softened when a check other than the outcome failed.
AiCheck(checks, ai) ==
  Plain("ai_review",
        IF Some(checks, Deterministic, "failed")
             /\ ai.status \in {"passed", "needs_retry"}
        THEN "warning" ELSE ai.status)

\* All judgements that the statuses of the commands allow.  The AI may be off,
\* or asked always, or only after a failure or at a high risk.
Judge(checks, outcome, ai, adapt) ==
  LET reviewed == IF ai = NoAi THEN checks ELSE Append(checks, AiCheck(checks, ai))
      Judged(h) ==
        LET all == Append(reviewed, Check("hybrid", h, 0))
        IN  [status |-> IF adapt /\ outcome # None
                        THEN DetermineAdaptiveResult(all, outcome)
                        ELSE BuildFinalResult(all),
             flawed |-> Some(all, All, "failed"),
             failed |-> Some(checks, Deterministic, "failed"),
             outcome |-> outcome]
  IN  {Judged(h) : h \in Hybrid(checks, ai)}

\* (Mutant: a command that timed out counts as one that was passed over.)
MutMapToCheckStatus(result) ==
  IF result = "failed" THEN "failed"
  ELSE IF result = "timeout" THEN "skipped" ELSE result

MapToCheckStatus(result) ==
  IF result \in {"passed", "skipped"} THEN result ELSE "failed"

\* What an attempt leaves to be judged beside its commands.
Findings(expected) ==
  UNION {[exit : {exit},
          extra : {<<>>} \cup {<<c>> : c \in Extras(exit)},
          outcome : IF expected THEN Outcomes(exit) ELSE {None},
          evidence : EvidenceChecks,
          ai : AiAnswers \cup {NoAi}] : exit \in {0, 1}}

Checks(statuses, found) ==
  <<Plain("process", IF found.exit = 0 THEN "passed" ELSE "failed")>>
    \o [i \in DOMAIN statuses |-> Plain("command", statuses[i])]
    \o found.extra
    \o (IF found.outcome = None THEN <<>>
        ELSE <<Plain("outcome_comparison", found.outcome)>>)
    \o <<found.evidence>>

ValidateTask(statuses, expected, adapt) ==
  UNION {Judge(Checks(statuses, found), found.outcome, found.ai, adapt) :
           found \in Findings(expected)}

Statuses == UNION {[1 .. n -> {"passed", "failed", "skipped"}] :
                     n \in {Len(list) : list \in CommandLists}}

Judgements == {<<s, e, a, ValidateTask(s, e, a)>> :
                 s \in Statuses, e \in BOOLEAN, a \in BOOLEAN}

\* (Mutant: every warning is accepted inside the loop.)
MutAcceptedInLoop(j) == j.status \in {"passed", "skipped", "warning"}

\* An attempt is accepted inside the loop, and after its last attempt.
AcceptedInLoop(j) ==
  j.status \in {"passed", "skipped"} \/ (j.status = "warning" /\ ~j.flawed)
AcceptedAfter(j) == j.status \in {"passed", "warning", "skipped"}

-----------------------------------------------------------------------------
(* ValidationRunner *)

Result == {"passed", "failed", "timeout", "skipped"}
Unjudged == [status |-> None, flawed |-> FALSE, failed |-> FALSE,
             outcome |-> None]

TypeOK ==
  /\ task \in [Call -> [commands : CommandLists, expected : BOOLEAN]]
  /\ adaptive \in BOOLEAN
  /\ pc \in [Call -> {"next", "running", "judged", "end"}]
  /\ retries \in [Call -> 0 .. MaxRetries]
  /\ \A v \in Call : results[v] \in Seq(Result)
       /\ Len(results[v]) <= Len(task[v].commands)
  /\ child \in [Call -> {None, "runs", "left"}]
  /\ timedOut \in [Call -> BOOLEAN]
  /\ cache \in [Command -> Call \cup {None}]
  /\ borrowed \in [Call -> BOOLEAN]
  /\ judgement \in [Call -> [status : CheckStatus \cup {None},
                            flawed : BOOLEAN, failed : BOOLEAN,
                            outcome : CheckStatus \cup {None}]]
  /\ final \in [Call -> {None, "done", "failed"}]

Init ==
  /\ task \in [Call -> [commands : CommandLists, expected : BOOLEAN]]
  /\ adaptive \in BOOLEAN
  /\ pc = [v \in Call |-> "next"]
  /\ retries = [v \in Call |-> 0]
  /\ results = [v \in Call |-> <<>>]
  /\ child = [v \in Call |-> None]
  /\ timedOut = [v \in Call |-> FALSE]
  /\ cache = [k \in Command |-> None]
  /\ borrowed = [v \in Call |-> FALSE]
  /\ judgement = [v \in Call |-> Unjudged]
  /\ final = [v \in Call |-> None]

Goto(v, label) == pc' = [pc EXCEPT ![v] = label]
Current(v) == task[v].commands[Len(results[v]) + 1]
HasNext(v) == Len(results[v]) < Len(task[v].commands)

\* A command that was completed is passed over, whatever it came to.
Skip(v) ==
  /\ pc[v] = "next" /\ HasNext(v) /\ cache[Current(v)] # None
  /\ results' = [results EXCEPT ![v] = Append(@, "skipped")]
  /\ borrowed' = [borrowed EXCEPT ![v] = @ \/ cache[Current(v)] # v]
  /\ UNCHANGED <<config, pc, retries, child, timedOut, cache, judgement, final>>

\* Otherwise its shell is started.
RunSingleCommand(v) ==
  /\ pc[v] = "next" /\ HasNext(v) /\ cache[Current(v)] = None
  /\ Goto(v, "running")
  /\ child' = [child EXCEPT ![v] = "runs"]
  /\ UNCHANGED <<config, retries, results, timedOut, cache, borrowed, judgement,
                 final>>

VerdictOf(v, exit) ==
  IF timedOut[v] THEN "timeout" ELSE IF exit = 0 THEN "passed" ELSE "failed"

\* resolveOnce
Close(v, exit) ==
  /\ results' = [results EXCEPT ![v] = Append(@, VerdictOf(v, exit))]
  /\ cache' = [cache EXCEPT ![Current(v)] = v]
  /\ child' = [child EXCEPT ![v] = None]
  /\ timedOut' = [timedOut EXCEPT ![v] = FALSE]
  /\ Goto(v, "next")
  /\ UNCHANGED <<config, retries, borrowed, judgement, final>>

Exits(v) ==
  /\ child[v] = "runs" /\ \E exit \in {0, 1} : Close(v, exit)

\* The shell exits, and a process it left behind keeps its output open.
Leaves(v) ==
  /\ child[v] = "runs" /\ child' = [child EXCEPT ![v] = "left"]
  /\ UNCHANGED <<config, pc, retries, results, timedOut, cache, borrowed,
                 judgement, final>>

LeftEnds(v) ==
  /\ child[v] = "left" /\ \E exit \in {0, 1} : Close(v, exit)

\* (Mutant: no timeout is set.)
MutTimesOut(v) == FALSE /\ UNCHANGED vars

\* The timeout fires, and the group of the shell is told to terminate.
TimesOut(v) ==
  /\ child[v] # None /\ ~timedOut[v]
  /\ timedOut' = [timedOut EXCEPT ![v] = TRUE]
  /\ UNCHANGED <<config, pc, retries, results, child, cache, borrowed,
                 judgement, final>>

\* After the grace period a shell that still runs is killed with its group; one
\* that has ended is not looked for any more, nor is what it left behind.
Killed(v) ==
  /\ child[v] = "runs" /\ timedOut[v] /\ Close(v, 1)

\* The cache is cleared, for every call; then come the other checks and the
\* verdict.
Decide(v) ==
  /\ pc[v] = "next" /\ ~HasNext(v) /\ Goto(v, "judged")
  /\ cache' = [k \in Command |-> None]
  /\ \E judged \in Judgements :
       /\ judged[1] = [i \in DOMAIN results[v] |->
                         MapToCheckStatus(results[v][i])]
       /\ judged[2] = task[v].expected /\ judged[3] = adaptive
       /\ \E j \in judged[4] : judgement' = [judgement EXCEPT ![v] = j]
  /\ results' = [results EXCEPT ![v] = <<>>]
  /\ borrowed' = [borrowed EXCEPT ![v] = FALSE]
  /\ UNCHANGED <<config, retries, child, timedOut, final>>

Retry(v) ==
  /\ pc[v] = "judged" /\ ~AcceptedInLoop(judgement[v])
  /\ retries[v] < MaxRetries
  /\ retries' = [retries EXCEPT ![v] = @ + 1] /\ Goto(v, "next")
  /\ judgement' = [judgement EXCEPT ![v] = Unjudged]
  /\ UNCHANGED <<config, runner, final>>

Finish(v, status) ==
  /\ final' = [final EXCEPT ![v] = status]
  /\ judgement' = [judgement EXCEPT ![v] = Unjudged]
  /\ Goto(v, "end") /\ UNCHANGED <<config, retries, runner>>

\* Behind the loop the status alone decides.
FinishAfter(v) ==
  Finish(v, IF AcceptedAfter(judgement[v]) THEN "done" ELSE "failed")

End(v) ==
  pc[v] = "judged" /\ AcceptedInLoop(judgement[v]) /\ FinishAfter(v)

\* The loop is left although the attempt was not accepted, with retries left or
\* without: the execution time is up, no further round is granted, or the risk
\* manager's limit, which may be lower than the task's, used up the rounds.
GiveUp(v) ==
  pc[v] = "judged" /\ ~AcceptedInLoop(judgement[v]) /\ FinishAfter(v)

\* The binary of the default executor is missing: failed without more ado.
Missing(v) ==
  /\ pc[v] = "judged" /\ judgement[v].failed /\ ~AcceptedInLoop(judgement[v])
  /\ Finish(v, "failed")

Program(v) == \/ Skip(v) \/ RunSingleCommand(v) \/ Decide(v)
              \/ Retry(v) \/ End(v) \/ GiveUp(v) \/ Missing(v)

Next == \E v \in Call : \/ Program(v)
                        \/ Exits(v) \/ Leaves(v) \/ LeftEnds(v)
                        \/ TimesOut(v) \/ Killed(v)

Spec == Init /\ [][Next]_vars

\* The program goes on, and timers fire.  Nothing makes a process that a shell
\* left behind end: it may ignore the one SIGTERM, or have left the group.
FairSpec ==
  Spec /\ \A v \in Call :
    WF_vars(Program(v)) /\ WF_vars(TimesOut(v)) /\ WF_vars(Killed(v))

-----------------------------------------------------------------------------
(* Properties *)

\* A verdict of passed means that every command of the task was run for it and
\* exited with 0, or repeats one that did, unless a result was borrowed from a
\* task validated at the same time.
PassedIsChecked ==
  [][\A v \in Call :
       judgement[v] = Unjudged /\ judgement'[v].status = "passed" /\ ~borrowed[v]
         => \A i \in DOMAIN results[v] :
              \E j \in 1 .. i : /\ task[v].commands[j] = task[v].commands[i]
                               /\ results[v][j] = "passed"]_vars

\* A task is done although a deterministic check failed only when the outcome
\* it was to have has been seen and outcomes are configured to outweigh checks,
\* and never because its loop accepted the attempt: the loop was left with the
\* attempt refused, for want of time, of retries or of a further round.
DoneIsJustified ==
  [][\A v \in Call :
       final[v] # "done" /\ final'[v] = "done" /\ judgement[v].failed
         => /\ judgement[v].outcome = "passed" /\ adaptive
            /\ ~AcceptedInLoop(judgement[v])]_vars

\* Every task is judged in the end, or hangs on a process that a shell of its
\* own left behind, that holds the shell's output and has outlived the signal of
\* the time limit.  Nothing else keeps the runner waiting for ever: no shell that
\* runs on, no result of another task, no cleared cache.
HangsOnLeft(v) == child[v] = "left" /\ timedOut[v]
ValidationEnds == \A v \in Call : []<>(final[v] # None \/ HangsOnLeft(v))
=============================================================================
