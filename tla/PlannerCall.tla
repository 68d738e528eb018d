------------------------------ MODULE PlannerCall ------------------------------
(***************************************************************************)
(* How executeRun gets its plan: the planner chosen for the mode, the       *)
(* requests of the internal planner to its provider with the two layers     *)
(* that ask again (the provider's, on a refused response format, and the    *)
(* planner's own), the child process of the external planner, the repair    *)
(* of an answer that is no plan, and the template that takes the place of   *)
(* a plan that failed.                                                      *)
(*                                                                          *)
(* An answer is "plan" (JSON of the schema, executors and dependencies      *)
(* known), "prose" (anything else, a stream cut short included), "format"   *)
(* (the response format is refused) or "error" (any other refusal, a lost   *)
(* connection, an empty text, a time limit).                                *)
(***************************************************************************)
EXTENDS Naturals, Sequences

\* Who starts the run, the planner mode, the planner configured, whether a
\* provider with a key (or an executor) is configured for it, whether the
\* provider streams, whether it asks again as text, what response formats its
\* endpoint takes ("none" refuses both, as Ollama may) and whether
\* planner.timeoutMs is set.
Setup == [entry : {"cli", "api"}, mode : {"simple", "ai", "auto"},
          type : {"internal", "external"}, usable : BOOLEAN,
          stream : BOOLEAN, asksAgain : BOOLEAN,
          endpoint : {"json", "text", "none"}, timeout : BOOLEAN]

Attempts == {1, 2}

VARIABLES
  setup,     \* constant during a behaviour
  pc,
  attempt,   \* 1, or 2 for the repair
  call,      \* which call of provider.generate in this attempt
  format,    \* the response format of the request under way
  request,   \* "none", "sent", or "trickles": the answer has begun, or the
             \* child runs on after the signal
  answer,    \* the last one
  sent,      \* requests, or child processes, of each attempt
  files,     \* what is kept under outputs/
  events,    \* the planner's events of the run
  plan       \* "none", "planner", "template"

wire == <<call, format, request, sent>>
vars == <<setup, pc, attempt, wire, answer, files, events, plan>>

TypeOK ==
  /\ setup \in Setup
  /\ pc \in {"start", "asking", "deciding", "judging", "refused", "failed",
             "planning", "planned", "thrown"}
  /\ attempt \in Attempts
  /\ call \in 1 .. 3
  /\ format \in {"json", "text"}
  /\ request \in {"none", "sent", "trickles"}
  /\ answer \in {"none", "plan", "prose", "format", "error"}
  /\ sent \in [Attempts -> Nat]
  /\ files \in SUBSET ({"raw", "error"} \X Attempts)
  /\ events \in Seq({"started", "passed", "failed", "repair_failed", "fallback"})
  /\ plan \in {"none", "planner", "template"}

Init ==
  /\ setup \in Setup
  /\ pc = "start" /\ attempt = 1
  /\ call = 1 /\ format = "json" /\ request = "none"
  /\ sent = [a \in Attempts |-> 0]
  /\ answer = "none" /\ files = {} /\ events = <<>> /\ plan = "none"

\* PlannerRegistry.getPlanner; the server gives its RunLifecycle no planner.
Planner ==
  CASE setup.entry = "api"                     -> "none"
    [] setup.mode = "simple"                   -> "simple"
    [] setup.mode = "auto" /\ ~setup.usable    -> "simple"
    [] OTHER                                   -> setup.type

Internal == setup.type = "internal"
Streams == Internal /\ setup.stream /\ attempt = 1

Goto(label) == pc' = label
Say(event) == events' = Append(events, event)

-----------------------------------------------------------------------------
(* executeRun *)

\* `flowtask run --planner ai` without a key ends before there is a run.
NoKey ==
  setup.entry = "cli" /\ setup.mode = "ai" /\ Internal /\ ~setup.usable

\* A child is spawned, or a request sent in a given format.
Ask(a, n, f) ==
  /\ attempt' = a /\ call' = n /\ format' = f /\ request' = "sent"
  /\ sent' = [sent EXCEPT ![a] = @ + 1]
  /\ Goto("asking")

SimpleOnly == setup.mode = "simple" \/ Planner = "none"

Start ==
  /\ pc = "start" /\ ~NoKey /\ ~SimpleOnly
  /\ IF Planner = "simple"
     THEN /\ events' = <<"started", "passed">>
          /\ plan' = "template" /\ Goto("planned")
          /\ UNCHANGED <<attempt, wire>>
     ELSE /\ Say("started") /\ UNCHANGED plan
          /\ IF Planner = "external" /\ ~setup.usable
             THEN Goto("refused") /\ UNCHANGED <<attempt, wire>>
             ELSE Ask(1, 1, "json")
  /\ UNCHANGED <<setup, answer, files>>

StartSimple ==
  /\ pc = "start" /\ SimpleOnly
  /\ Goto("planning")
  /\ UNCHANGED <<setup, attempt, wire, answer, files, events, plan>>

-----------------------------------------------------------------------------
(* The provider and the child process: outside the program *)

\* Whether the endpoint takes a request: streams name no format.
FormatRefused ==
  /\ Internal /\ ~Streams
  /\ setup.endpoint = "none" \/ (setup.endpoint = "text" /\ format = "json")

Answer ==
  /\ pc = "asking" /\ request # "none"
  /\ answer' \in IF FormatRefused THEN {"format", "error"}
                                  ELSE {"plan", "prose", "error"}
  /\ request' = "none" /\ Goto("deciding")
  /\ UNCHANGED <<setup, attempt, call, format, sent, files, events, plan>>

Trickle ==
  /\ pc = "asking" /\ request = "sent"
  /\ request' = "trickles"
  /\ UNCHANGED <<setup, pc, attempt, call, format, sent, answer, files,
                 events, plan>>

GiveUp ==
  /\ answer' = "error" /\ request' = "none" /\ Goto("deciding")
  /\ UNCHANGED <<setup, attempt, call, format, sent, files, events, plan>>

\* AbortSignal.timeout covers the whole answer; the repair asks without it.
TimesOut ==
  /\ pc = "asking" /\ request # "none"
  /\ Internal /\ setup.timeout /\ attempt = 1
  /\ GiveUp

\* The limits of fetch itself on an answer that does not come; the signal
\* that spawn sends a child after half an hour, which the child obeys.
Silent == pc = "asking" /\ request = "sent" /\ GiveUp

-----------------------------------------------------------------------------
(* InternalAiPlanner and AiPlanner *)

GotText == answer \in {"plan", "prose"}

\* saveRawOutput, before the text is looked at.
KeepRaw ==
  /\ pc = "deciding" /\ GotText
  /\ files' = files \cup {<<"raw", attempt>>}
  /\ Goto("judging")
  /\ UNCHANGED <<setup, attempt, wire, answer, events, plan>>

\* generateWithResponseFormatFallback inside the provider: once, as text.
ProviderAsksAgain ==
  Internal /\ ~Streams /\ setup.asksAgain /\ answer = "format" /\ format = "json"

\* The same around provider.generate, in the first attempt only: any failure
\* asks again as before, a refused format once more as text.
NextCall ==
  IF ~Internal \/ Streams \/ attempt = 2 THEN 0
  ELSE IF call = 1 THEN 2
  ELSE IF call = 2 /\ answer = "format" THEN 3
  ELSE 0

\* (Mutant: the last call names the format too.)
MutNextFormat(n) == "json"

NextFormat(n) == IF n = 3 THEN "text" ELSE "json"

AskAgain ==
  /\ pc = "deciding" /\ ~GotText
  /\ IF ProviderAsksAgain THEN Ask(attempt, call, "text")
     ELSE NextCall # 0 /\ Ask(attempt, NextCall, NextFormat(NextCall))
  /\ UNCHANGED <<setup, answer, files, events, plan>>

\* The planner throws what the provider threw: no repair of a missing answer.
Refused ==
  /\ pc = "deciding" /\ ~GotText /\ ~ProviderAsksAgain /\ NextCall = 0
  /\ Goto("refused")
  /\ UNCHANGED <<setup, attempt, wire, answer, files, events, plan>>

\* processPlannerOutput accepts it.
Accept ==
  /\ pc = "judging" /\ answer = "plan"
  /\ plan' = "planner" /\ Say("passed") /\ Goto("planned")
  /\ UNCHANGED <<setup, attempt, wire, answer, files>>

\* (Mutant: the second error takes the name of the first.)
MutKeepError == files' = files \cup {<<"error", 1>>}

KeepError == files' = files \cup {<<"error", attempt>>}

Repair ==
  /\ pc = "judging" /\ answer # "plan" /\ attempt = 1
  /\ KeepError
  /\ Ask(2, 1, "json")
  /\ UNCHANGED <<setup, answer, events, plan>>

RepairFails ==
  /\ pc = "judging" /\ answer # "plan" /\ attempt = 2
  /\ KeepError
  /\ Say("repair_failed") /\ Goto("failed")
  /\ UNCHANGED <<setup, attempt, wire, answer, plan>>

-----------------------------------------------------------------------------
(* executeRun again *)

Fails ==
  /\ pc = "refused"
  /\ Say("failed") /\ Goto("failed")
  /\ UNCHANGED <<setup, attempt, wire, answer, files, plan>>

Throw ==
  /\ pc = "failed" /\ setup.mode = "ai"
  /\ Goto("thrown")
  /\ UNCHANGED <<setup, attempt, wire, answer, files, events, plan>>

\* (Mutant: the mode is not looked at.)
MutFallBack ==
  /\ pc = "failed"
  /\ Say("fallback") /\ Goto("planning")
  /\ UNCHANGED <<setup, attempt, wire, answer, files, plan>>

FallBack ==
  /\ pc = "failed" /\ setup.mode # "ai"
  /\ Say("fallback") /\ Goto("planning")
  /\ UNCHANGED <<setup, attempt, wire, answer, files, plan>>

SimplePlan ==
  /\ pc = "planning"
  /\ plan' = "template" /\ Goto("planned")
  /\ UNCHANGED <<setup, attempt, wire, answer, files, events>>

\* The code's own steps, and the limits on what it waits for.
Program ==
  \/ Start \/ StartSimple
  \/ KeepRaw \/ AskAgain \/ Refused \/ Accept \/ Repair \/ RepairFails
  \/ Fails \/ Throw \/ FallBack \/ SimplePlan
  \/ TimesOut \/ Silent

Next == Program \/ Answer \/ Trickle

Spec == Init /\ [][Next]_vars
FairSpec == Spec /\ WF_vars(Program)

-----------------------------------------------------------------------------
(* Properties *)

Happened(event) == \E i \in DOMAIN events : events[i] = event
Asked == Happened("started")
Last == events[Len(events)]
Ended == pc \in {"planned", "thrown"}

\* With two layers that ask again, one around the other, a prompt is paid for
\* at most five times in the first attempt, and twice in the repair; a child
\* process runs once in each (internal-ai-planner.ts:218,
\* response-format-fallback.ts:27).
RequestsBounded ==
  /\ sent[1] <= IF Internal THEN 5 ELSE 1
  /\ sent[2] <= IF Internal THEN 2 ELSE 1

\* What a planner said and was not accepted is on disk, with the reason, by
\* the time anyone is told of it: both answers when the repair failed, none
\* that never came (internal-ai-planner.ts:249, ai-planner.ts:142).
RejectedIsKept ==
  LET rejected == {<<"raw", 1>>, <<"error", 1>>} IN
  /\ attempt = 2 => rejected \subseteq files
  /\ Happened("repair_failed") => files = {"raw", "error"} \X Attempts
  /\ plan = "planner" => /\ <<"raw", attempt>> \in files
                         /\ <<"error", attempt>> \notin files

\* How planning ended agrees with what the run's events say and with the mode:
\* a plan of the planner was the last thing said to pass; after a failure,
\* mode "ai" leaves no plan and "auto" a template, and says so
\* (run-lifecycle.ts:323).
EventsTellPlan ==
  Ended /\ Asked /\ Planner # "simple" =>
    CASE plan = "planner"  -> Last = "passed"
      [] plan = "template" -> Last = "fallback" /\ setup.mode = "auto"
      [] OTHER             -> /\ Last \in {"failed", "repair_failed"}
                              /\ setup.mode = "ai" /\ pc = "thrown"

\* Waits without a limit: an answer that trickles, in the repair or when
\* planner.timeoutMs is not set, and a child that ignores the signal.
Unlimited ==
  request = "trickles" /\ ~(Internal /\ setup.timeout /\ attempt = 1)

\* Not true: the simple planner taken by mode "auto" without a key is reported
\* as an AI plan that passed.
PassedIsPlanner ==
  Happened("passed") => plan = "planner"

\* Not true: a run the server starts has a template plan in mode "ai" too.
AiModeAsks == setup.mode = "ai" => plan # "template"
=============================================================================
