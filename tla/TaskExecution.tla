---------------------------- MODULE TaskExecution ----------------------------
(***************************************************************************)
(* RunLifecycle.executeTask (src/core/run-lifecycle.ts): one call, from    *)
(* the write of status "running" to the returned value.  The call runs the *)
(* executor, validates what it did and retries: up to maxRetries times by  *)
(* itself, then in further rounds that the approval manager grants, and    *)
(* once more from zero when the executor's binary is missing and the call  *)
(* falls back to the default executor.                                     *)
(*                                                                         *)
(* The executor, the validation engine and the user are the environment:   *)
(* each answers with any member of its small set of outcomes.              *)
(***************************************************************************)
EXTENDS Integers, TaskStatus

CONSTANTS maxRetries,       \* task.maxRetries
          riskMaxRetries,   \* config.risk.maxRetries, RiskManager's own limit
          MaxAnswers        \* bound: prompts answered in one call

ASSUME RetryAssumption == maxRetries \in Nat /\ riskMaxRetries \in Nat
ASSUME AnswerAssumption == MaxAnswers \in Nat

MAX_ADDITIONAL_RETRIES == 3

VARIABLES
  pc,                    \* control point of the call
  tty,                   \* process.stdin.isTTY
  approval,              \* approval mode: "ask", "auto" or "skip" (disabled)
  status,                \* the task's status in tasks.json
  result,                \* the returned value, "none" until the call ends
  executor,              \* task.executor: "assigned" or "default"
  retryCount, additionalRetryCount,
  outcome,               \* executorResult.status ("missing": failed, ENOENT)
  verdict,               \* validationResult.status (see Verdict)
  session,               \* a live child of the run is in InteractiveController
  attempts,              \* executor.execute calls so far
  answers,               \* prompts whose answer restarted the attempt
  declined               \* the user refused a further round

counters == <<retryCount, additionalRetryCount, attempts, answers>>
vars == <<pc, tty, approval, status, result, executor, counters, outcome,
          verdict, session, declined>>

Outcome == {"done", "failed", "missing", "skipped"} \cup Wait

\* "warning" has no failed check; "flawed" is status "warning" with a failed
\* check (the adaptive verdict of a reached outcome whose other checks fail);
\* "failed" stands for failed, needs_retry and needs_review.
Verdict == {"passed", "warning", "flawed", "failed", "skipped"}

Pc == {"begin", "approve", "loop", "running", "waiting", "validate",
       "retry", "test", "epilogue", "end"}

ControlOK ==
  /\ pc \in Pc
  /\ approval \in {"ask", "auto", "skip"}
  /\ status \in Statuses
  /\ result \in Values \cup {"none"}
  /\ executor \in {"assigned", "default"}
  /\ outcome \in Outcome \cup {"none"}
  /\ verdict \in Verdict \cup {"none"}

CountersOK ==
  /\ retryCount \in Nat /\ additionalRetryCount \in Nat
  /\ attempts \in Nat /\ answers \in Nat

FlagsOK ==
  /\ tty \in BOOLEAN /\ declined \in BOOLEAN
  /\ session \in BOOLEAN

TypeOK == ControlOK /\ CountersOK /\ FlagsOK

\* The call may find a live session that an earlier, paused call left behind.
Init ==
  /\ pc = "begin"
  /\ tty \in BOOLEAN
  /\ approval \in {"ask", "auto", "skip"}
  /\ status \in {"pending", "running"}
  /\ result = "none"
  /\ executor \in {"assigned", "default"}
  /\ retryCount = 0 /\ additionalRetryCount = 0
  /\ outcome = "none" /\ verdict = "none"
  /\ session \in BOOLEAN
  /\ attempts = 0 /\ answers = 0
  /\ declined = FALSE

\* Nobody is asked: approvals are off, automatic, or there is no terminal.
Unattended == approval # "ask" \/ ~tty

\* (Mutant: a return writes no status; an earlier one stays.)
MutReturn(value, final) ==
  /\ pc' = "end" /\ result' = value /\ status' = status

\* The call ends.  Its way out of the loop also starts to clear process.json,
\* which it does not wait for (AgentProcess models the record).
Return(value, final) ==
  /\ pc' = "end"
  /\ result' = value
  /\ status' = final

-----------------------------------------------------------------------------
(* Before the loop *)

\* The task is marked running; a spent cost budget ends the call.
Begin ==
  /\ pc = "begin"
  /\ \/ Return("false", "failed")
     \/ /\ status' = "running"
        /\ pc' = "approve"
        /\ UNCHANGED result
  /\ UNCHANGED <<tty, approval, executor, counters, outcome, verdict, session, declined>>

\* resolveStepApprovals: steps that need approval are all denied, which can
\* only happen when somebody has to be asked; the task is skipped.
Approve ==
  /\ pc = "approve"
  /\ \/ /\ approval = "ask"
        /\ Return("false", "skipped")
     \/ /\ pc' = "loop"
        /\ UNCHANGED <<status, result>>
  /\ UNCHANGED <<tty, approval, executor, counters, outcome, verdict, session, declined>>

-----------------------------------------------------------------------------
(* One turn of the loop *)

\* A validation command is blocked, or the executor is not registered.
Blocked ==
  /\ pc = "loop"
  /\ Return("false", "failed")
  /\ UNCHANGED <<tty, approval, executor, counters, outcome, verdict, session,
                 declined>>

\* How a session's child may end.  One killed by a signal has no exit code, and
\* looks like a missing binary when its errors contain such words.
SessionOutcome == {"done", "failed", "missing"}

\* A live session of the run is waited for instead of spawning a new child.
JoinSession ==
  /\ pc = "loop" /\ session
  /\ status' = "running"
  /\ session' = FALSE
  /\ outcome' \in SessionOutcome
  /\ pc' = "validate"
  /\ UNCHANGED <<tty, approval, result, executor, counters, verdict, declined>>

Spawn ==
  /\ pc = "loop" /\ ~session
  /\ attempts' = attempts + 1
  /\ pc' = "running"
  /\ UNCHANGED <<tty, approval, status, result, executor, retryCount,
                 additionalRetryCount, answers, outcome, verdict, session,
                 declined>>

\* executor.execute resolves; only a child that waits survives it.
Executed ==
  /\ pc = "running"
  /\ outcome' \in Outcome
  /\ session' \in (IF outcome' \in Wait THEN BOOLEAN ELSE {FALSE})
  /\ \/ /\ outcome' \in Wait
        /\ status' = outcome' /\ pc' = "waiting"
        /\ UNCHANGED <<result>>
     \/ /\ outcome' = "skipped"
        /\ Return("false", "skipped")
     \/ /\ outcome' \in {"done", "failed", "missing"}
        /\ pc' = "validate"
        /\ UNCHANGED <<status, result>>
  /\ UNCHANGED <<tty, approval, executor, counters, verdict, declined>>

\* (Mutant: the prompt is shown whether or not there is a terminal.)
MutCanAnswer == outcome = "waiting_input"

\* Only a prompt for input on a terminal is answered inside the call.
CanAnswer == tty /\ outcome = "waiting_input"

\* (Mutant: a cancelled prompt fails the task, whose child lives on.)
MutLeaveWaiting ==
  /\ pc = "waiting"
  /\ IF CanAnswer THEN Return("false", "failed") ELSE Return(outcome, status)
  /\ UNCHANGED <<tty, approval, executor, counters, outcome, verdict, session,
                 declined>>

\* No terminal, an approval, or a cancelled prompt: left to another command.
LeaveWaiting ==
  /\ pc = "waiting"
  /\ Return(outcome, status)
  /\ UNCHANGED <<tty, approval, executor, counters, outcome, verdict, session,
                 declined>>

\* The answer goes to the waiting child, which then runs to its end.
AnswerSession ==
  /\ pc = "waiting" /\ CanAnswer /\ session
  /\ session' = FALSE
  /\ outcome' \in SessionOutcome
  /\ pc' = "validate"
  /\ UNCHANGED <<tty, approval, status, result, executor, counters, verdict, declined>>

\* The child is gone: the answer is kept for a new attempt.
AnswerRestart ==
  /\ pc = "waiting" /\ CanAnswer /\ ~session
  /\ answers < MaxAnswers
  /\ answers' = answers + 1
  /\ status' = "pending"
  /\ pc' = "test"
  /\ UNCHANGED <<tty, approval, result, executor, retryCount,
                 additionalRetryCount, attempts, outcome, verdict, session, declined>>

\* The process check fails unless the executor succeeded, so a failed executor
\* never passes; validation that is switched off accepts everything.
Accepts(v) == v \in {"passed", "warning", "skipped"}
Possible(o) == IF o = "done" THEN Verdict ELSE {"flawed", "failed", "skipped"}

Validate ==
  /\ pc = "validate"
  /\ verdict' \in Possible(outcome)
  /\ pc' = IF Accepts(verdict') THEN "epilogue" ELSE "retry"
  /\ UNCHANGED <<tty, approval, status, result, executor, counters, outcome,
                 session, declined>>

-----------------------------------------------------------------------------
(* After a verdict that is not accepted *)

\* The binary is missing: once, the default executor takes over from zero.
FallBack ==
  /\ pc = "retry" /\ outcome = "missing"
  /\ \/ /\ executor = "default"
        /\ Return("false", "failed")
        /\ UNCHANGED <<executor, retryCount>>
     \/ /\ executor # "default"
        /\ executor' = "default"
        /\ retryCount' = 0
        /\ pc' = "test"
        /\ UNCHANGED <<status, result>>
  /\ UNCHANGED <<tty, approval, additionalRetryCount, attempts, answers,
                 outcome, verdict, session, declined>>

TimeIsUp ==
  /\ pc = "retry" /\ outcome # "missing"
  /\ retryCount' = retryCount + 1
  /\ pc' = "epilogue"
  /\ UNCHANGED <<tty, approval, status, result, executor, additionalRetryCount,
                 attempts, answers, outcome, verdict, session, declined>>

\* The task's own limit and the risk manager's both leave room.
WithinLimits(n) == n <= maxRetries /\ n <= riskMaxRetries

Retry ==
  /\ pc = "retry" /\ outcome # "missing"
  /\ WithinLimits(retryCount + 1)
  /\ retryCount' = retryCount + 1
  /\ pc' = "test"
  /\ UNCHANGED <<tty, approval, status, result, executor, additionalRetryCount,
                 attempts, answers, outcome, verdict, session, declined>>

\* requestRetryApproval answers yes by itself in these cases.
GrantsItself(n) == Unattended \/ n <= maxRetries

\* (Mutant: the cap on additional rounds is not checked.)
MutCapReached == FALSE

CapReached == additionalRetryCount + 1 > MAX_ADDITIONAL_RETRIES

\* A further round is granted: the counter starts again, three times at most.
GrantRound ==
  /\ pc = "retry" /\ outcome # "missing"
  /\ ~WithinLimits(retryCount + 1)
  /\ additionalRetryCount' = additionalRetryCount + 1
  /\ \/ /\ CapReached
        /\ retryCount' = retryCount + 1
        /\ pc' = "epilogue"
     \/ /\ ~CapReached
        /\ retryCount' = 0
        /\ pc' = "test"
  /\ UNCHANGED <<tty, approval, status, result, executor, attempts, answers,
                 outcome, verdict, session, declined>>

\* (Mutant: a refused round resets the counter like a granted one.)
MutDeclineRound ==
  /\ pc = "retry" /\ outcome # "missing"
  /\ ~WithinLimits(retryCount + 1) /\ ~GrantsItself(retryCount + 1)
  /\ retryCount' = 0
  /\ declined' = TRUE
  /\ pc' = "test"
  /\ UNCHANGED <<tty, approval, status, result, executor, additionalRetryCount,
                 attempts, answers, outcome, verdict, session>>

\* The user refuses, or cancels the prompt.
DeclineRound ==
  /\ pc = "retry" /\ outcome # "missing"
  /\ ~WithinLimits(retryCount + 1) /\ ~GrantsItself(retryCount + 1)
  /\ retryCount' = retryCount + 1
  /\ declined' = TRUE
  /\ pc' = "test"
  /\ UNCHANGED <<tty, approval, status, result, executor, additionalRetryCount,
                 attempts, answers, outcome, verdict, session>>

\* while (retryCount <= maxRetries)
Test ==
  /\ pc = "test"
  /\ pc' = IF retryCount <= maxRetries THEN "loop" ELSE "epilogue"
  /\ UNCHANGED <<tty, approval, status, result, executor, counters, outcome,
                 verdict, session, declined>>

\* After the loop every "warning" counts as success, also a flawed one.
Succeeds(v) == v \in {"passed", "warning", "flawed", "skipped"}

Epilogue ==
  /\ pc = "epilogue"
  /\ IF Succeeds(verdict) THEN Return("true", "done")
                          ELSE Return("false", "failed")
  /\ UNCHANGED <<tty, approval, executor, counters, outcome, verdict, session,
                 declined>>

-----------------------------------------------------------------------------
(* Specification *)

\* Steps the process takes by itself once the await before them is over; the
\* others wait for a child (or for a slot to start one, in Spawn), for the
\* validation's commands, or for the user.
SystemStep ==
  \/ Begin \/ Blocked \/ FallBack \/ TimeIsUp \/ Retry \/ Test \/ Epilogue
  \/ (Unattended /\ Approve)
  \/ (~CanAnswer /\ LeaveWaiting)
  \/ (GrantsItself(retryCount + 1) /\ GrantRound)

\* The child of a joined session may still be waiting for its input.
ChildStep == Spawn \/ JoinSession \/ Executed \/ Validate

UserStep ==
  \/ (~Unattended /\ Approve)
  \/ (CanAnswer /\ LeaveWaiting)
  \/ AnswerSession \/ AnswerRestart
  \/ (~GrantsItself(retryCount + 1) /\ GrantRound) \/ DeclineRound

Next == SystemStep \/ ChildStep \/ UserStep

Spec == Init /\ [][Next]_vars

\* Node's event loop resumes the call where nothing outside the process is
\* awaited.  No fairness is assumed of children: the shell executor starts its
\* commands without a time limit, a slot may be held by such a command, and a
\* validation command's output may be held open by what it left behind.
FairSpec == Spec /\ WF_vars(SystemStep)

-----------------------------------------------------------------------------
(* Properties *)

\* Attempts the loop makes by itself before a further round must be granted.
Round ==
  1 + (IF maxRetries < riskMaxRetries THEN maxRetries ELSE riskMaxRetries)

\* One call starts at most one round per grant, one more that the fallback
\* cuts short, and one attempt per answered prompt: a task that keeps failing
\* cannot spawn executors forever.
AttemptBound ==
  attempts <= Round * (MAX_ADDITIONAL_RETRIES + 2) + answers

\* The call implements what the run loop relies on: on every path out of it
\* the returned value, which the loop acts on, agrees with the status left in
\* tasks.json, which every other command and the next process act on; and a
\* status is final only when the call is over.
Call == INSTANCE TaskCall
KeepsPromise == Call!Spec

\* A call that has started an executor leaves a live child behind only with a
\* task that waits, which is where the commands that answer, approve or join
\* it look: no path out of the call gives the task a final status over a child
\* that lives on.  Only a call that ends before its first attempt (a spent
\* budget, denied steps, a blocked command) leaves alone the child it found.
LeftChildWaits == pc = "end" /\ session /\ attempts > 0 => status \in Wait

\* Once the user has refused a further round no executor is started again.
DeclineEnds == [][declined => attempts' = attempts]_vars

\* The call comes to rest for good: it ends, or from some point on it waits for
\* a child (a joined one, a slot to start one, one that runs), for validation,
\* or for a user who is at a terminal.  It neither goes round its loop for ever
\* nor asks where nobody can answer.
AwaitsChild == pc \in {"loop", "running", "validate"}
AwaitsUser ==
  /\ tty
  /\ \/ pc = "waiting" /\ outcome = "waiting_input"
     \/ pc \in {"approve", "retry"} /\ approval = "ask"
ComesToRest == <>[](pc = "end" \/ AwaitsChild \/ AwaitsUser)

\* Documented: without a terminal, or in auto-approve mode, the additional
\* retries are skipped, so a round beyond the configured one is never granted
\* ("skip" is documented to grant it).
NoUnattendedRounds ==
  approval = "auto" \/ (approval = "ask" /\ ~tty) => additionalRetryCount = 0
=============================================================================
