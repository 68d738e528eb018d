----------------------------- MODULE AgentProcess -----------------------------
(***************************************************************************)
(* The coding agents that the tasks of one run start as child processes:   *)
(* the executors that spawn them (src/executor/command-executor.ts and     *)
(* shell-executor.ts), the table of their sessions                         *)
(* (interactive-controller.ts), and the record process.json by which other *)
(* processes find them (src/core/process-manager.ts).                      *)
(*                                                                         *)
(* An element of Call is a place where executeRun, continueRun or          *)
(* executeSingleTask can be under way; Home[k] is the operating system     *)
(* process it runs in, whose memory it shares with the other calls there.  *)
(* The callbacks of a child run in any order relative to the steps of the  *)
(* calls, and the file operations of save() and clear(), which nobody      *)
(* awaits, take effect at any later time.  The system is POSIX and a child *)
(* leads no process group (the executors do not spawn it detached), so a   *)
(* signal to its group reaches nobody.                                     *)
(***************************************************************************)
EXTENDS Integers, FiniteSets, FiniteSetsExt

CONSTANTS Call, Home,
          MaxChildren, MaxCalls     \* bounds

ASSUME BoundsAssumption == MaxChildren \in Nat /\ MaxCalls \in Nat

Child == 1 .. MaxChildren
\* shell executor, or command executor by its inputMode: stdin left open or closed
Agent == {"shell", "argument", "stdin"}
Exit == {"ok", "bad", "signal"}
None == 0
NoCommand == -1         \* attached: the task named no command to run
Process == {Home[k] : k \in Call}
Gone == "gone"          \* the process that spawned a child has ended

ASSUME ProcessAssumption == Gone \notin Process

VARIABLES
  state,      \* per child: "none", "running", "asking", "dead", "closed"
  exit,       \* how it ended: "none" while alive, "ok", "bad", "signal"
  home,       \* the process whose callbacks it runs
  signal,     \* the call whose abort signal it was given
  early,      \* earlyResolve: its executor returned with a waiting status
  doomed,     \* a kill was sent to it (ChildProcess.killed)
  sessions,   \* per process: InteractiveController.sessions
  tracked,    \* per process: childProcesses of the run
  controller, \* per process: whose abort controller is registered for the run
  record,     \* process.json names a child; which one makes no difference
  saving,     \* the calls of save() that have not reached the file yet
  clearing,   \* an unlink of process.json is under way
  pc, attached, result, aborted, answer,    \* per call
  made,       \* calls made so far
  agent, tty, exclusive                     \* how the program is used

os == <<state, exit, home, signal, early, doomed>>
memory == <<sessions, tracked, controller>>
files == <<record, saving, clearing>>
calls == <<pc, attached, result, aborted, answer, made>>
usage == <<agent, tty, exclusive>>
vars == <<os, memory, files, calls, usage>>

Pc == {"idle", "stop", "stopping", "look", "acquire", "join", "joined",
       "running", "waiting", "asked", "judge"}

Open(i) == state[i] \in {"running", "asking", "dead"}
Alive(i) == state[i] \in {"running", "asking"}

TypeOK ==
  /\ state \in [Child -> {"none", "running", "asking", "dead", "closed"}]
  /\ exit \in [Child -> {"none"} \cup Exit]
  /\ home \in [Child -> Process \cup {Gone}]
  /\ signal \in [Child -> Call \cup {"none"}]
  /\ early \in [Child -> BOOLEAN] /\ doomed \in [Child -> BOOLEAN]
  /\ sessions \in [Process -> SUBSET Child]
  /\ tracked \in [Process -> Child \cup {None}]
  /\ controller \in [Process -> Call \cup {"none"}]
  /\ record \in BOOLEAN /\ saving \in 0 .. MaxChildren /\ clearing \in BOOLEAN
  /\ pc \in [Call -> Pc]
  /\ attached \in [Call -> Child \cup {None, NoCommand}]
  /\ result \in [Call -> {"none", "done", "failed", "waiting"}]
  /\ aborted \in [Call -> BOOLEAN]
  /\ answer \in [Call -> {"none", "for session", "for retry"}]
  /\ made \in 0 .. MaxCalls
  /\ agent \in Agent /\ tty \in BOOLEAN /\ exclusive \in BOOLEAN

Init ==
  /\ state = [i \in Child |-> "none"]
  /\ exit = [i \in Child |-> "none"]
  /\ home = [i \in Child |-> Gone] /\ signal = [i \in Child |-> "none"]
  /\ early = [i \in Child |-> FALSE] /\ doomed = [i \in Child |-> FALSE]
  /\ sessions = [m \in Process |-> {}]
  /\ tracked = [m \in Process |-> None]
  /\ controller = [m \in Process |-> "none"]
  /\ record = FALSE /\ saving = 0 /\ clearing = FALSE
  /\ pc = [k \in Call |-> "idle"]
  /\ attached = [k \in Call |-> None]
  /\ result = [k \in Call |-> "none"]
  /\ aborted = [k \in Call |-> FALSE]
  /\ answer = [k \in Call |-> "none"]
  /\ made = 0
  \* bound: overlapping calls are those of a server without a terminal
  /\ exclusive \in BOOLEAN /\ tty \in {FALSE, exclusive}
  \* without a terminal it makes no difference whether stdin is left open
  /\ agent \in IF tty THEN Agent ELSE Agent \ {"argument"}

-----------------------------------------------------------------------------
(* The session table of a process.  Sessions of the run are found in the   *)
(* order they were created in, which is the order of the child numbers.    *)

HasSession(m) == sessions[m] # {}
First(m) == Min(sessions[m])
\* exitCode is null: a child that a signal ended has none
NoExitCode(i) == exit[i] \in {"none", "signal"}
SessionAlive(m) ==
  HasSession(m) /\ NoExitCode(First(m)) /\ ~doomed[First(m)]
\* removeSession
Removed(S, i) == S \ {i}
MutVerdict(i) == IF exit[i] = "bad" THEN "failed" ELSE "done"
Verdict(i) == IF exit[i] = "ok" THEN "done" ELSE "failed"
\* stdin is closed after the context was written when inputMode is "stdin"
CanType == agent # "stdin"
\* the registry gives its process manager to command executors only
Managed == agent # "shell"

Forget(m) == /\ tracked' = [tracked EXCEPT ![m] = None]
             /\ controller' = [controller EXCEPT ![m] = "none"]
\* clear(): the maps at once, the file at some later time
Clear(m) == Forget(m) /\ clearing' = TRUE /\ UNCHANGED <<record, saving>>
\* the children that a call's abort signal reaches
Reached(k) == {i \in Child : signal[i] = k /\ Alive(i)}

-----------------------------------------------------------------------------
(* Calls: entering.                                                        *)

Enter(k, at) ==
  /\ pc[k] = "idle" /\ made < MaxCalls /\ made' = made + 1
  /\ exclusive => \A j \in Call : pc[j] = "idle"
  /\ pc' = [pc EXCEPT ![k] = at]
  /\ result' = [result EXCEPT ![k] = "none"]
  /\ attached' = [attached EXCEPT ![k] = None]
  /\ UNCHANGED <<aborted, answer>>

\* registerController
Register(k) == controller' = [controller EXCEPT ![Home[k]] = k]

StartsTask(k) ==
  /\ Enter(k, "look") /\ Register(k)
  /\ UNCHANGED <<os, sessions, tracked, files, usage>>

\* executeRun, whose run is new: no child of it exists
ExecuteRun(k) ==
  /\ \A j \in Call : pc[j] = "idle" /\ result[j] = "none"
  /\ StartsTask(k)

\* continueRun keeps a live session of its own process, else stops the record
ContinueRun(k) ==
  \/ SessionAlive(Home[k]) /\ StartsTask(k)
  \/ /\ ~SessionAlive(Home[k])
     /\ Enter(k, "stop")
     /\ UNCHANGED <<os, memory, files, usage>>

ExecuteSingleTask(k) ==
  /\ Enter(k, "stop")
  /\ UNCHANGED <<os, memory, files, usage>>

-----------------------------------------------------------------------------
(* ProcessManager.stop, run by a call before its task and by flowtask stop  *)
(* and kill.  An abort reaches the children of the registered call: their   *)
(* error handlers run at once, before the children have died, and settle    *)
(* the attempt.                                                             *)

MutSettle(S) == {}
Settle(S) == \* the calls attached to children S that had not returned early
  {k \in Call : pc[k] = "running" /\ attached[k] \in S /\ ~early[attached[k]]}

Aborts(m) == IF controller[m] = "none" THEN {} ELSE {controller[m]}
Shot(m) == UNION {Reached(k) : k \in Aborts(m)}

\* not_found: nothing is aborted
StopNotFound(k) ==
  /\ pc[k] = "stop" /\ ~record
  /\ pc' = [pc EXCEPT ![k] = "look"] /\ Register(k)
  /\ UNCHANGED <<os, sessions, tracked, files, attached, result, aborted, answer,
                 made, usage>>

StopAborts(k) ==
  LET m == Home[k]
      S == Shot(m)
      done == Settle(S)
  IN
  /\ pc[k] = "stop" /\ record
  /\ aborted' = [j \in Call |-> aborted[j] \/ j \in Aborts(m)]
  /\ doomed' = [i \in Child |-> doomed[i] \/ i \in S]
  /\ sessions' = [h \in Process |-> sessions[h] \ S]
  /\ pc' = [j \in Call |-> IF j \in done THEN "judge"
                           ELSE IF j = k THEN "stopping" ELSE pc[j]]
  /\ result' = [j \in Call |-> IF j \in done THEN "failed" ELSE result[j]]
  /\ attached' = [j \in Call |-> IF j \in done THEN None ELSE attached[j]]
  /\ IF Managed /\ S # {} THEN Clear(m) ELSE UNCHANGED <<tracked, controller, files>>
  /\ UNCHANGED <<state, exit, home, signal, early, answer, made, usage>>

\* the child of the record is dead ("stale"), dies, or the time limit passes:
\* waitForExit then returns false where stop() expects it to throw, so nothing
\* else is signalled; in each case clear(), and the call registers
StopEnds(k) ==
  LET m == Home[k] IN
  /\ pc[k] = "stopping"
  /\ pc' = [pc EXCEPT ![k] = "look"]
  /\ record' = FALSE
  /\ tracked' = [tracked EXCEPT ![m] = None] /\ Register(k)
  /\ UNCHANGED <<os, sessions, saving, clearing, attached, result, aborted, answer,
                 made, usage>>

\* flowtask stop and kill run in a process of their own, whose tables are
\* empty: nobody is aborted, and in the end the record is unlinked
FlowtaskStop ==
  /\ record /\ clearing' = TRUE
  /\ UNCHANGED <<os, memory, record, saving, calls, usage>>

-----------------------------------------------------------------------------
(* Calls: one attempt of the task.                                         *)

MutLook(k) ==
  /\ pc[k] = "look"
  /\ pc' = [pc EXCEPT ![k] = "acquire"]
  /\ UNCHANGED <<os, memory, files, attached, result, aborted, answer, made, usage>>
Look(k) ==
  /\ pc[k] = "look"
  /\ pc' = [pc EXCEPT ![k] = IF HasSession(Home[k]) THEN "join" ELSE "acquire"]
  /\ UNCHANGED <<os, memory, files, attached, result, aborted, answer, made, usage>>

\* waitForProcessExitByRunId: no session counts as a failure, an exited one
\* answers at once, and the session found afterwards is removed
Join(k) ==
  LET m == Home[k]
      i == First(m)
  IN
  /\ pc[k] = "join"
  /\ \/ /\ ~HasSession(m)
        /\ result' = [result EXCEPT ![k] = "failed"]
        /\ attached' = [attached EXCEPT ![k] = None]
        /\ pc' = [pc EXCEPT ![k] = "judge"]
        /\ UNCHANGED sessions
     \/ /\ HasSession(m) /\ ~NoExitCode(i)
        /\ result' = [result EXCEPT ![k] = Verdict(i)]
        /\ attached' = [attached EXCEPT ![k] = i]
        /\ pc' = [pc EXCEPT ![k] = "judge"]
        /\ sessions' = [sessions EXCEPT ![m] = Removed(@, i)]
     \/ /\ HasSession(m) /\ NoExitCode(i)
        /\ attached' = [attached EXCEPT ![k] = i]
        /\ pc' = [pc EXCEPT ![k] = "joined"]
        /\ UNCHANGED <<sessions, result>>
  /\ UNCHANGED <<os, tracked, controller, files, aborted, answer,
                 made, usage>>

\* With an answer in hand the executor looks for a session again
\* (handleExistingSession).  It finds none: it has one only if another call
\* spawned since Look, and calls that overlap have no terminal here (Init).
\* spawn, createSession, registerChildProcess and save; a child spawned with an
\* aborted signal is killed and reported failed before anything else runs
Spawn(k) ==
  LET m == Home[k]
      i == Min({c \in Child : state[c] = "none"})
      late == aborted[k]
  IN
  /\ pc[k] = "acquire"
  /\ \E c \in Child : state[c] = "none"
  /\ state' = [state EXCEPT ![i] = "running"]
  /\ home' = [home EXCEPT ![i] = m] /\ signal' = [signal EXCEPT ![i] = k]
  /\ doomed' = [doomed EXCEPT ![i] = late]
  /\ attached' = [attached EXCEPT ![k] = i]
  /\ sessions' = [sessions EXCEPT ![m] = IF late THEN @ ELSE @ \cup {i}]
  /\ saving' = IF Managed THEN saving + 1 ELSE saving
  /\ pc' = [pc EXCEPT ![k] = IF late THEN "judge" ELSE "running"]
  /\ result' = [result EXCEPT ![k] = IF late THEN "failed" ELSE "none"]
  /\ IF late /\ Managed
     THEN Forget(m) /\ clearing' = TRUE
     ELSE /\ tracked' = [tracked EXCEPT ![m] = IF Managed THEN i ELSE @]
          /\ UNCHANGED <<controller, clearing>>
  /\ UNCHANGED <<exit, early, record, aborted, answer, made, usage>>

\* the command is missing: no process, the error handler clears and settles
SpawnFails(k) ==
  /\ pc[k] = "acquire"
  /\ attached' = [attached EXCEPT ![k] = None]
  /\ pc' = [pc EXCEPT ![k] = "judge"]
  /\ result' = [result EXCEPT ![k] = "failed"]
  /\ IF Managed THEN Clear(Home[k]) ELSE UNCHANGED <<tracked, controller, files>>
  /\ UNCHANGED <<os, sessions, aborted, answer, made, usage>>

\* a shell task that names no command is done without a child
NothingToRun(k) ==
  /\ pc[k] = "acquire" /\ agent = "shell"
  /\ attached' = [attached EXCEPT ![k] = NoCommand]
  /\ pc' = [pc EXCEPT ![k] = "judge"]
  /\ result' = [result EXCEPT ![k] = "done"]
  /\ UNCHANGED <<os, memory, files, aborted, answer, made, usage>>

-----------------------------------------------------------------------------
(* Calls: a waiting result, and the end of an attempt.                     *)

\* finally: clear(), which nobody awaits; with the controller forgotten, nobody
\* can reach the agents that were given its signal
Leave(k, r) ==
  /\ Clear(Home[k])
  /\ signal' = [i \in Child |-> IF signal[i] = k THEN "none" ELSE signal[i]]
  /\ pc' = [pc EXCEPT ![k] = "idle"]
  /\ result' = [result EXCEPT ![k] = r]
  /\ aborted' = [aborted EXCEPT ![k] = FALSE]
  /\ answer' = [answer EXCEPT ![k] = "none"]
  /\ attached' = [attached EXCEPT ![k] = IF r = "done" THEN @ ELSE None]
  /\ UNCHANGED <<state, exit, home, early, doomed, sessions, made,
                 usage>>

\* no terminal, or an approval: the wait is left to another process
LeaveWaiting(k) == pc[k] = "waiting" /\ Leave(k, "waiting")

\* whether the session lives is read before the user is asked
AskUser(k) ==
  /\ pc[k] = "waiting" /\ tty
  /\ answer' = [answer EXCEPT ![k] =
                  IF SessionAlive(Home[k]) THEN "for session" ELSE "for retry"]
  /\ pc' = [pc EXCEPT ![k] = "asked"]
  /\ UNCHANGED <<os, memory, files, attached, result, aborted, made, usage>>

UserCancels(k) == pc[k] = "asked" /\ Leave(k, "waiting")

\* sendInputByRunId's outcome is not looked at, then the exit is waited for
UserAnswers(k) ==
  LET m == Home[k] IN
  /\ pc[k] = "asked" /\ answer[k] = "for session"
  /\ state' = [i \in Child |->
       IF HasSession(m) /\ i = First(m) /\ state[i] = "asking" /\ CanType
       THEN "running" ELSE state[i]]
  /\ pc' = [pc EXCEPT ![k] = "join"]
  /\ UNCHANGED <<exit, home, signal, early, doomed, memory, files, attached,
                 result, aborted, answer, made, usage>>

UserAnswersRetry(k) ==
  /\ pc[k] = "asked" /\ answer[k] = "for retry"
  /\ pc' = [pc EXCEPT ![k] = "look"]
  /\ UNCHANGED <<os, memory, files, attached, result, aborted, answer,
                 made, usage>>

\* the verdict of validation and of the retry policy is TaskExecution's
RetryAttempt(k) ==
  /\ pc[k] = "judge"
  /\ pc' = [pc EXCEPT ![k] = "look"]
  /\ result' = [result EXCEPT ![k] = "none"]
  /\ attached' = [attached EXCEPT ![k] = None]
  /\ UNCHANGED <<os, memory, files, aborted, answer, made, usage>>

EndTask(k) == pc[k] = "judge" /\ Leave(k, result[k])

\* the process of a finished call ends; its children live on without handlers
ProcessEnds(m) ==
  /\ \A k \in Call : Home[k] = m => pc[k] = "idle"
  /\ \E i \in Child : home[i] = m /\ Open(i)
  /\ sessions' = [sessions EXCEPT ![m] = {}] /\ Forget(m)
  /\ home' = [i \in Child |-> IF home[i] = m THEN Gone ELSE home[i]]
  /\ UNCHANGED <<state, exit, signal, early, doomed, files, calls,
                 usage>>

-----------------------------------------------------------------------------
(* Children.                                                               *)

\* output that looks like a prompt: shown to the user at once when the child
\* can be typed to, else the executor returns a waiting status
Prompts(i) ==
  /\ state[i] = "running" /\ home[i] # Gone /\ i \in sessions[home[i]] /\ ~early[i]
  /\ state' = [state EXCEPT ![i] = "asking"]
  /\ LET inline == tty /\ CanType
         done == IF inline THEN {} ELSE Settle({i})
     IN
     /\ early' = [early EXCEPT ![i] = ~inline]
     /\ pc' = [k \in Call |-> IF k \in done THEN "waiting" ELSE pc[k]]
     /\ result' = [k \in Call |-> IF k \in done THEN "waiting" ELSE result[k]]
     /\ attached' = [k \in Call |-> IF k \in done THEN None ELSE attached[k]]
  /\ UNCHANGED <<exit, home, signal, doomed, memory, files, aborted, answer,
                 made, usage>>

AnsweredInline(i) ==
  /\ state[i] = "asking" /\ ~early[i] /\ home[i] # Gone /\ tty /\ CanType
  /\ state' = [state EXCEPT ![i] = "running"]
  /\ UNCHANGED <<exit, home, signal, early, doomed, memory, files, calls,
                 usage>>

MutTimesOut(i) ==
  /\ Alive(i) /\ Managed /\ home[i] # Gone /\ ~doomed[i] /\ ~early[i]
  /\ doomed' = [doomed EXCEPT ![i] = TRUE]
  /\ UNCHANGED <<state, exit, home, signal, early, memory, files, calls,
                 usage>>
TimesOut(i) ==
  /\ Alive(i) /\ Managed /\ home[i] # Gone /\ ~doomed[i]
  /\ doomed' = [doomed EXCEPT ![i] = TRUE]
  /\ UNCHANGED <<state, exit, home, signal, early, memory, files, calls,
                 usage>>

\* a child that was sent a signal may also catch it, and end well or badly, or
\* not end at all
Dies(i, e) ==
  /\ Alive(i) /\ e \in IF doomed[i] THEN Exit ELSE {"ok", "bad"}
  /\ state' = [state EXCEPT ![i] = "dead"] /\ exit' = [exit EXCEPT ![i] = e]
  /\ UNCHANGED <<home, signal, early, doomed, memory, files, calls,
                 usage>>

\* the close handlers: the executor's, then those of the calls that joined the
\* child; a joined call goes on to remove the first session it finds for the run
Joined(i) == {k \in Call : pc[k] = "joined" /\ attached[k] = i}
Without(S, n) ==
  {s \in S : Cardinality({t \in S : t < s}) >= n}

\* of a closed child only whether it ended well matters
Buried(i) ==
  /\ state' = [state EXCEPT ![i] = "closed"]
  /\ exit' = [exit EXCEPT ![i] = IF @ = "ok" THEN @ ELSE "bad"]
  /\ home' = [home EXCEPT ![i] = Gone] /\ signal' = [signal EXCEPT ![i] = "none"]
  /\ early' = [early EXCEPT ![i] = FALSE] /\ doomed' = [doomed EXCEPT ![i] = FALSE]

Closes(i) ==
  LET m == home[i]
      done == Settle({i}) \cup Joined(i)
  IN
  /\ state[i] = "dead" /\ m # Gone
  /\ Buried(i)
  /\ sessions' = [sessions EXCEPT ![m] = Without(Removed(@, i), Cardinality(Joined(i)))]
  /\ IF Managed THEN Clear(m) ELSE UNCHANGED <<tracked, controller, files>>
  /\ pc' = [k \in Call |-> IF k \in done THEN "judge" ELSE pc[k]]
  /\ result' = [k \in Call |-> IF k \in done THEN Verdict(i) ELSE result[k]]
  /\ UNCHANGED <<attached, aborted, answer, made, usage>>

OrphanEnds(i) ==
  /\ state[i] = "dead" /\ home[i] = Gone
  /\ Buried(i)
  /\ UNCHANGED <<memory, files, calls, usage>>

SaveLands ==
  /\ saving > 0
  /\ record' = TRUE /\ saving' = saving - 1
  /\ UNCHANGED <<os, memory, clearing, calls, usage>>

ClearLands ==
  /\ clearing /\ clearing' = FALSE /\ record' = FALSE
  /\ UNCHANGED <<os, memory, saving, calls, usage>>

-----------------------------------------------------------------------------
CallStep(k) ==
  \/ ExecuteRun(k) \/ ContinueRun(k) \/ ExecuteSingleTask(k)
  \/ StopNotFound(k) \/ StopAborts(k) \/ StopEnds(k)
  \/ Look(k) \/ Join(k)
  \/ Spawn(k) \/ SpawnFails(k) \/ NothingToRun(k)
  \/ LeaveWaiting(k) \/ AskUser(k) \/ UserCancels(k) \/ UserAnswers(k)
  \/ UserAnswersRetry(k) \/ RetryAttempt(k) \/ EndTask(k)

ChildStep(i) ==
  \/ Prompts(i) \/ AnsweredInline(i) \/ TimesOut(i) \/ Closes(i) \/ OrphanEnds(i)
  \/ \E e \in Exit : Dies(i, e)

Next ==
  \/ \E k \in Call : CallStep(k)
  \/ \E i \in Child : ChildStep(i)
  \/ \E m \in Process : ProcessEnds(m)
  \/ FlowtaskStop \/ SaveLands \/ ClearLands

\* Node's timer sends a command child SIGTERM at its time limit.  Nothing makes
\* the child die of it, nor its close event come while others hold its output.
Fairness == \A i \in Child : WF_vars(TimesOut(i))

Spec == Init /\ [][Next]_vars /\ Fairness

-----------------------------------------------------------------------------
(* Properties.                                                             *)

\* A call that waits for a child it joined or spawned will be told: the child
\* is still to close, and its handlers run in the call's own process.
WaitsAreHeard ==
  \A k \in Call : pc[k] \in {"joined", "running"} =>
     Open(attached[k]) /\ home[attached[k]] = Home[k]

\* A task is called done only on the word of one agent that has exited with code
\* 0: not of one that failed, that a signal ended, or that is still at work, also
\* when another call spawned it or answered it.  (Why it exited makes no
\* difference: an agent that catches the signal of its time limit and exits with
\* 0 has done its task.)  A shell task without commands needs no agent.
DoneMeansExitedOk ==
  \A k \in Call : result[k] = "done" =>
    attached[k] = NoCommand \/ exit[attached[k]] = "ok"

\* While one call runs at a time and its process has not ended, no second
\* agent is started next to one at work on the run.
OneAgent ==
  exclusive => \A i, j \in Child :
    (i < j /\ Alive(i) /\ Alive(j) /\ home[i] # Gone /\ home[j] # Gone)
      => doomed[i] \/ doomed[j]

\* No attempt waits for ever on a command agent that nobody told to end, also
\* when the agent asks a question whose answer cannot reach it: the attempt ends,
\* or its agent was sent SIGTERM and lives on, or it has died and what it left
\* behind holds its output open.  In the last two cases nothing else comes.
Resists(i) == state[i] = "dead" \/ (doomed[i] /\ Alive(i))
ToldToEnd ==
  \A k \in Call :
    (pc[k] \in {"running", "joined"} /\ Managed)
      ~> (pc[k] \in {"running", "joined"} => Resists(attached[k]))

\* src/src/core/run-lifecycle.ts:862 "Kill any orphaned processes for this run
\* before executing": once stop() is through, no agent of the run is at work
\* that the executing process does not know of.
OrphansKilled ==
  \A k \in Call : pc[k] = "look" =>
    \A i \in Child : Alive(i) => doomed[i] \/ i \in sessions[Home[k]]
=============================================================================
