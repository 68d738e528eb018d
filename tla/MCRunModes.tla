------------------------------ MODULE MCRunModes ------------------------------
(* RunLifecycle as it is used in five ways, one of them per behaviour:        *)
(*   "cli"    processes of the command line, one after another, with commands *)
(*            between the calls and retry choices: the constants of the       *)
(*            configuration;                                                  *)
(*   "live"   the same, with a command at any moment, the two interleaving    *)
(*            write by write; followed until a write comes too late;          *)
(*   "server" one server process, with sessions and gates in its memory, and  *)
(*            a call that is left by an exception or a crash;                 *)
(*   "crash"  two crashes, and a user who keeps resuming;                     *)
(*   "both"   two processes that execute one run, such as a resume beside a   *)
(*            live call, interleaved write by write; followed while they are  *)
(*            at the first task, and until it is done or a write comes too    *)
(*            late.                                                           *)
(* Only the last one has a call in the place p2.                              *)
EXTENDS MCRunLifecycle

CONSTANT p2
VARIABLE use

Live == INSTANCE RunLifecycle WITH
  Modes <- {"auto"}, Approvals <- {"auto"}, Gated <- {}, LiveCommands <- TRUE,
  MaxRetryChoices <- 0, MaxCommands <- 1

Served == INSTANCE RunLifecycle WITH
  Approvals <- {"ask", "auto"}, Server <- TRUE, MaxRetryChoices <- 0,
  MaxCrashes <- 1, MaxCommands <- 1

Crashing == INSTANCE RunLifecycle WITH
  Modes <- {"auto", "manual", "plan-only"}, Approvals <- {"auto"}, Gated <- {},
  Interactive <- FALSE, MaxRetryChoices <- 0, MaxCrashes <- 2, MaxCommands <- 1

Both == INSTANCE RunLifecycle WITH
  Modes <- {"auto"}, Approvals <- {"skip"}, Gated <- {}, Interactive <- FALSE,
  MaxRetryChoices <- 0, MaxCommands <- 0

UseInit ==
  /\ \/ use = "cli" /\ Init
     \/ use = "live" /\ Live!Init
     \/ use = "server" /\ Served!Init
     \/ use = "crash" /\ Crashing!Init
     \/ use = "both" /\ Both!Init
  /\ ~tty[p2]

UseNext ==
  /\ UNCHANGED use
  /\ \/ use = "cli" /\ Next
     \/ use = "live" /\ ~late /\ Live!Next
     \/ use = "server" /\ Served!Next
     \/ use = "crash" /\ Crashing!Next
     \/ /\ use = "both" /\ Both!Next
        /\ ~late /\ disk[Order[1]] # "done" /\ \A p \in Proc : pos[p] = 1
  /\ use # "both" => pc'[p2] = "idle"

\* What p does without anybody to wait for; in the last use executors end, too.
UseStep(p) ==
  /\ UNCHANGED use
  /\ \/ use = "cli" /\ ~Waiting(p) /\ Goes(p)
     \/ use = "server" /\ ~Waiting(p) /\ Served!Goes(p)
     \/ use = "crash" /\ Crashing!Goes(p)

UseResume(p) ==
  /\ UNCHANGED use /\ use = "crash"
  /\ Crashing!Resume(p) /\ Crashing!NewCall(p) /\ Around(p)
UseRequeue(p) ==
  UNCHANGED use /\ use = "crash" /\ Crashing!Requeue(p) /\ Around(p)
UseCommand == UNCHANGED use /\ use = "crash" /\ Crashing!CommandGoesOn

\* FairSpec in "cli" and "server", ResumingSpec in "crash".
UseSpec ==
  /\ UseInit /\ [][UseNext]_<<vars, use>>
  /\ WF_<<vars, use>>(UseCommand)
  /\ WF_<<vars, use>>(UseStep(p1))
  /\ SF_<<vars, use>>(UseResume(p1))
  /\ SF_<<vars, use>>(UseRequeue(p1))

\* After crashes, a run that is resumed settles every task that was cut off.
ResumeRecovers ==
  \A t \in Task : use = "crash" /\ disk[t] \in {"running", "interrupted"}
    ~> disk[t] \in {"done", "failed", "skipped", "cancelled"}

\* Every call ends, whatever fails, is skipped or waits, unless it stays for ever
\* with an executor, the planner or a question to the user.  ("live" and "both"
\* are cut short, and say nothing of it.)
CallsEnd ==
  []<>(pc[p1] = "idle" \/ use \in {"live", "both"}) \/ <>[]Waiting(p1)
=============================================================================
