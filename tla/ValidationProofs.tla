-------------------------- MODULE ValidationProofs --------------------------
(***************************************************************************)
(* Validation for any number of tasks, commands and attempts, and for any  *)
(* outcomes of the checks.                                                 *)
(***************************************************************************)
EXTENDS Validation, SequenceTheorems, TLAPS

-----------------------------------------------------------------------------
(* Checks and verdicts *)

CheckRecord == [type : STRING, status : STRING, confidence : Nat]

\* A check that is among some checks is among them when one more is appended.
LEMMA SomeAppend ==
  ASSUME NEW S, NEW checks \in Seq(S), NEW c, NEW types, NEW status,
         Some(checks, types, status)
  PROVE  Some(Append(checks, c), types, status)
<1> DEFINE all == Append(checks, c)
<1>1. checks \in Seq(S \cup {c}) /\ c \in S \cup {c}
  BY SeqMonotonic
<1>2. /\ all \in Seq(S \cup {c}) /\ Len(all) = Len(checks) + 1
      /\ \A i \in 1 .. Len(checks) : all[i] = checks[i]
  BY <1>1, AppendProperties
<1>3. DOMAIN checks = 1 .. Len(checks) /\ Len(checks) \in Nat
      /\ DOMAIN all = 1 .. Len(all)
  BY <1>1, <1>2, LenProperties
<1>4. PICK i \in DOMAIN checks :
        checks[i].type \in types /\ checks[i].status = status
  BY DEF Some
<1> HIDE DEF all
<1>5. i \in DOMAIN all /\ all[i] = checks[i]
  BY <1>2, <1>3, <1>4
<1> QED
  BY <1>4, <1>5 DEF Some, all

\* What a failed deterministic check does to every verdict, whatever the AI
\* answers and whether or not the outcome is asked for.
Sound(j, adapt) ==
  j.failed => /\ j.flawed
              /\ j.status \notin {"passed", "skipped"}
              /\ j.status = "warning" => j.outcome = "passed" /\ adapt

LEMMA JudgeSound ==
  ASSUME NEW S, NEW checks \in Seq(S), NEW outcome, NEW ai, NEW adapt,
         NEW j \in Judge(checks, outcome, ai, adapt)
  PROVE  /\ Sound(j, adapt)
         /\ j.failed = Some(checks, Deterministic, "failed")
<1> DEFINE reviewed == IF ai = NoAi THEN checks
                       ELSE Append(checks, AiCheck(checks, ai))
           all(h) == Append(reviewed, Check("hybrid", h, 0))
<1>1. PICK h : j = [status |-> IF adapt /\ outcome # None
                               THEN DetermineAdaptiveResult(all(h), outcome)
                               ELSE BuildFinalResult(all(h)),
                    flawed |-> Some(all(h), All, "failed"),
                    failed |-> Some(checks, Deterministic, "failed"),
                    outcome |-> outcome]
  BY DEF Judge
<1>2. j.failed = Some(checks, Deterministic, "failed")
  BY <1>1
<1>3. ASSUME j.failed
      PROVE  Some(all(h), Deterministic, "failed")
  <2> DEFINE T == S \cup {AiCheck(checks, ai)}
  <2>1. reviewed \in Seq(T) /\ Some(reviewed, Deterministic, "failed")
    <3>1. checks \in Seq(T) /\ AiCheck(checks, ai) \in T
      BY SeqMonotonic
    <3>2. Append(checks, AiCheck(checks, ai)) \in Seq(T)
      BY <3>1, AppendProperties
    <3>3. Some(checks, Deterministic, "failed")
      BY <1>2, <1>3
    <3>4. Some(Append(checks, AiCheck(checks, ai)), Deterministic, "failed")
      BY <3>3, SomeAppend
    <3> QED
      BY <3>1, <3>2, <3>3, <3>4
  <2> HIDE DEF reviewed
  <2> QED
    BY <2>1, SomeAppend
<1>4. ASSUME j.failed
      PROVE  Some(all(h), Others, "failed") /\ Some(all(h), All, "failed")
  BY <1>3, <1>4 DEF Some, Others, All
<1> HIDE DEF all
<1>5. ASSUME j.failed PROVE Sound(j, adapt)
  <2>1. CASE adapt /\ outcome # None
    <3>1. j.status = DetermineAdaptiveResult(all(h), outcome)
          /\ j.outcome = outcome /\ j.flawed
      BY <1>1, <1>4, <1>5, <2>1
    <3>2. j.status \notin {"passed", "skipped"}
          /\ (j.status = "warning" => outcome = "passed")
      <4>1. CASE outcome = "failed"
        BY <3>1, <4>1 DEF DetermineAdaptiveResult
      <4>2. CASE outcome # "failed" /\ Some(all(h), Others, "needs_review")
        BY <3>1, <4>2 DEF DetermineAdaptiveResult
      <4>3. CASE /\ outcome # "failed" /\ ~Some(all(h), Others, "needs_review")
                 /\ Some(all(h), Others, "needs_retry")
        BY <3>1, <4>3 DEF DetermineAdaptiveResult
      <4>4. CASE /\ outcome # "failed" /\ ~Some(all(h), Others, "needs_review")
                 /\ ~Some(all(h), Others, "needs_retry")
        <5>1. Some(all(h), Others, "failed")
          BY <1>4, <1>5
        <5> DEFINE none == ~Some(all(h), Others, "failed")
                   last == IF none THEN outcome
                           ELSE IF outcome = "passed" THEN "warning" ELSE "failed"
        <5>2. DetermineAdaptiveResult(all(h), outcome) = last
          <6> HIDE DEF all
          <6> QED
            BY <4>4, Zenon DEF DetermineAdaptiveResult
        <5>3. j.status = IF outcome = "passed" THEN "warning" ELSE "failed"
          BY <3>1, <5>1, <5>2
        <5> QED
          BY <5>3
      <4> QED
        BY <4>1, <4>2, <4>3, <4>4
    <3> QED
      BY <2>1, <3>1, <3>2 DEF Sound
  <2>2. CASE ~(adapt /\ outcome # None)
    <3>1. j.status = BuildFinalResult(all(h)) /\ j.flawed
      BY <1>1, <1>4, <1>5, <2>2
    <3>2. Some(all(h), All, "failed")
      BY <1>4, <1>5
    <3>3. ~(\A i \in DOMAIN all(h) : all(h)[i].status = "passed")
      BY <3>2 DEF Some
    <3>4. BuildFinalResult(all(h)) = "failed"
      BY <3>2, <3>3 DEF BuildFinalResult
    <3> QED
      BY <3>1, <3>4 DEF Sound
  <2> QED
    BY <2>1, <2>2
<1> QED
  BY <1>2, <1>5 DEF Sound

\* The status of a command is among the checks of the verdict.
LEMMA ValidateSound ==
  ASSUME NEW n \in Nat,
         NEW statuses \in [1 .. n -> {"passed", "failed", "skipped"}],
         NEW expected, NEW adapt,
         NEW j \in ValidateTask(statuses, expected, adapt)
  PROVE  /\ Sound(j, adapt)
         /\ ~j.failed => \A i \in 1 .. n : statuses[i] # "failed"
<1>1. PICK found \in Findings(expected) :
        j \in Judge(Checks(statuses, found), found.outcome, found.ai, adapt)
  BY DEF ValidateTask
<1>2. PICK exit \in {0, 1} :
        found.extra \in {<<>>} \cup {<<c>> : c \in Extras(exit)}
  BY <1>1 DEF Findings
<1> DEFINE head == <<Plain("process", IF found.exit = 0 THEN "passed" ELSE "failed")>>
           commands == [i \in DOMAIN statuses |-> Plain("command", statuses[i])]
           seen == IF found.outcome = None THEN <<>>
                   ELSE <<Plain("outcome_comparison", found.outcome)>>
<1> DEFINE S == UNION {{head[1]}, {commands[i] : i \in 1 .. n},
                       Extras(exit), {Plain("outcome_comparison", found.outcome)},
                       {found.evidence}}
           s1 == head \o commands
           s2 == s1 \o found.extra
           s3 == s2 \o seen
           s4 == s3 \o <<found.evidence>>
<1>3. /\ head \in Seq(S) /\ Len(head) = 1
      /\ commands \in Seq(S) /\ Len(commands) = n
      /\ found.extra \in Seq(S) /\ seen \in Seq(S)
      /\ <<found.evidence>> \in Seq(S)
  <2>1. /\ head[1] \in S /\ found.evidence \in S
        /\ Plain("outcome_comparison", found.outcome) \in S
        /\ Extras(exit) \subseteq S /\ \A i \in 1 .. n : commands[i] \in S
    OBVIOUS
  <2> HIDE DEF S
  <2>2. DOMAIN statuses = 1 .. n
    OBVIOUS
  <2>3. commands \in [1 .. n -> S]
    BY <2>1, <2>2
  <2>4. commands \in Seq(S) /\ Len(commands) = n
    BY <2>3
  <2>5. found.extra \in Seq(S) /\ seen \in Seq(S)
    <3>1. \A x \in S : <<x>> \in Seq(S)
      OBVIOUS
    <3>2. <<>> \in Seq(S)
      BY EmptySeq
    <3> QED
      BY <1>2, <2>1, <3>1, <3>2
  <2> QED
    BY <2>1, <2>4, <2>5
<1>4. s1 \in Seq(S) /\ Len(s1) = n + 1
      /\ \A i \in 1 .. n : s1[i + 1] = Plain("command", statuses[i])
  <2>1. \A i \in 1 .. n : commands[i] = Plain("command", statuses[i])
    OBVIOUS
  <2> HIDE DEF head, commands, S
  <2>2. /\ s1 \in Seq(S) /\ Len(s1) = 1 + n
        /\ \A i \in 1 .. 1 + n :
             s1[i] = IF i <= 1 THEN head[i] ELSE commands[i - 1]
    <3>1. Len(head) + Len(commands) = 1 + n
      BY <1>3
    <3>2. /\ s1 \in Seq(S) /\ Len(s1) = Len(head) + Len(commands)
          /\ \A i \in 1 .. Len(head) + Len(commands) :
               s1[i] = IF i <= Len(head) THEN head[i]
                       ELSE commands[i - Len(head)]
      BY <1>3, ConcatProperties
    <3> QED
      BY <1>3, <3>1, <3>2
  <2> HIDE DEF s1
  <2>3. ASSUME NEW i \in 1 .. n PROVE s1[i + 1] = commands[i]
    BY <2>2
  <2> QED
    BY <2>1, <2>2, <2>3
<1>5. ASSUME NEW s \in Seq(S), NEW t \in Seq(S), Len(s) >= n + 1
       PROVE  /\ s \o t \in Seq(S) /\ Len(s \o t) >= n + 1
              /\ \A i \in 1 .. n + 1 : (s \o t)[i] = s[i]
  <2> HIDE DEF S
  <2>1. Len(s) \in Nat /\ Len(t) \in Nat
    BY LenProperties
  <2>2. s \o t \in Seq(S) /\ Len(s \o t) = Len(s) + Len(t)
        /\ \A i \in 1 .. Len(s) + Len(t) :
             (s \o t)[i] = IF i <= Len(s) THEN s[i] ELSE t[i - Len(s)]
    BY ConcatProperties
  <2> QED
    BY <1>5, <2>1, <2>2
<1>6. s2 \in Seq(S) /\ Len(s2) >= n + 1 /\ \A i \in 1 .. n + 1 : s2[i] = s1[i]
  <2> HIDE DEF S, s1, seen, head, commands
  <2>1. s1 \in Seq(S) /\ found.extra \in Seq(S) /\ Len(s1) >= n + 1
    BY <1>3, <1>4
  <2> QED
    BY <1>5, <2>1
<1>7. s3 \in Seq(S) /\ Len(s3) >= n + 1 /\ \A i \in 1 .. n + 1 : s3[i] = s2[i]
  <2> HIDE DEF S, s2, seen, head, commands
  <2>1. s2 \in Seq(S) /\ seen \in Seq(S) /\ Len(s2) >= n + 1
    BY <1>3, <1>6
  <2> QED
    BY <1>5, <2>1
<1>8. s4 \in Seq(S) /\ Len(s4) >= n + 1 /\ \A i \in 1 .. n + 1 : s4[i] = s3[i]
  <2> HIDE DEF S, s3, seen, head, commands
  <2>1. s3 \in Seq(S) /\ <<found.evidence>> \in Seq(S) /\ Len(s3) >= n + 1
    BY <1>3, <1>7
  <2> QED
    BY <1>5, <2>1
<1>9. j \in Judge(s4, found.outcome, found.ai, adapt)
  BY <1>1 DEF Checks
<1> HIDE DEF s1, s2, s3, s4, S
<1>10. Sound(j, adapt) /\ j.failed = Some(s4, Deterministic, "failed")
  BY <1>8, <1>9, JudgeSound
<1>11. ASSUME NEW i \in 1 .. n, statuses[i] = "failed" PROVE j.failed
  <2>1. i + 1 \in 1 .. n + 1
    OBVIOUS
  <2>2. s4[i + 1] = Plain("command", "failed") /\ i + 1 \in DOMAIN s4
    <3>1. s4[i + 1] = s1[i + 1]
      BY <1>6, <1>7, <1>8, <2>1
    <3>2. DOMAIN s4 = 1 .. Len(s4) /\ Len(s4) \in Nat
      BY <1>8, LenProperties
    <3>3. s1[i + 1] = Plain("command", "failed")
      BY <1>4, <1>11
    <3> QED
      BY <1>8, <2>1, <3>1, <3>2, <3>3
  <2>3. s4[i + 1].type = "command" /\ s4[i + 1].status = "failed"
    BY <2>2 DEF Plain, Check
  <2> QED
    BY <1>10, <2>2, <2>3 DEF Some, Deterministic
<1> QED
  BY <1>10, <1>11

-----------------------------------------------------------------------------
(* The runner *)

Types ==
  /\ task \in [Call -> [commands : Seq(Command), expected : BOOLEAN]]
  /\ adaptive \in BOOLEAN
  /\ pc \in [Call -> {"next", "running", "judged", "end"}]
  /\ results \in [Call -> Seq(Result)]
  /\ child \in [Call -> {None, "runs", "left"}]
  /\ cache \in [Command -> Call \cup {None}]
  /\ borrowed \in [Call -> BOOLEAN]
  /\ retries \in [Call -> 0 .. MaxRetries]
  /\ judgement = [v \in Call |-> judgement[v]]
  /\ final = [v \in Call |-> final[v]]

\* A shell belongs to the next command of its task.
ChildIsCurrent ==
  \A v \in Call : /\ child[v] # None <=> pc[v] = "running"
                  /\ child[v] # None => HasNext(v)
                  /\ Len(results[v]) <= Len(task[v].commands)

\* A task found to have completed a command in the cache has a result of it.
CacheIsTrue ==
  \A v \in Call, k \in Command : cache[k] = v =>
    \E i \in 1 .. Len(results[v]) :
      task[v].commands[i] = k /\ results[v][i] # "skipped"

\* A command that was passed over repeats one that was run.
SkippedRepeats ==
  \A v \in Call : ~borrowed[v] =>
    \A i \in 1 .. Len(results[v]) : results[v][i] = "skipped" =>
      \E j \in 1 .. i : /\ task[v].commands[j] = task[v].commands[i]
                       /\ results[v][j] # "skipped"

Inv == /\ Types /\ ChildIsCurrent /\ CacheIsTrue /\ SkippedRepeats
       /\ \A v \in Call : Sound(judgement[v], adaptive)

\* The verdict that a step writes.
Written(v, j) ==
  /\ judgement' = [judgement EXCEPT ![v] = j] /\ Sound(j, adaptive)
  /\ ~j.failed => \A i \in 1 .. Len(results[v]) :
                    results[v][i] \in {"passed", "skipped"}

\* The ways in which a task ends.
Ends(v) == End(v) \/ GiveUp(v) \/ Missing(v)

LEMMA DecideSound ==
  ASSUME Inv, NEW v \in Call, Decide(v)
  PROVE  \E j : Written(v, j)
<1>1. PICK judged \in Judgements :
        /\ judged[1] = [i \in DOMAIN results[v] |->
                          MapToCheckStatus(results[v][i])]
        /\ judged[3] = adaptive
        /\ \E j \in judged[4] : judgement' = [judgement EXCEPT ![v] = j]
  BY DEF Decide
<1>2. PICK s \in Statuses, e \in BOOLEAN, a \in BOOLEAN :
        judged = <<s, e, a, ValidateTask(s, e, a)>>
  BY DEF Judgements
<1>3. PICK n \in Nat : s \in [1 .. n -> {"passed", "failed", "skipped"}]
  <2>1. \A list \in CommandLists : Len(list) \in Nat
    BY ValidationAssumption, LenProperties
  <2> QED
    BY <2>1 DEF Statuses
<1>4. /\ a = adaptive
      /\ \E j \in ValidateTask(s, e, a) : judgement' = [judgement EXCEPT ![v] = j]
  BY <1>1, <1>2
<1>11. PICK j \in ValidateTask(s, e, adaptive) :
         judgement' = [judgement EXCEPT ![v] = j]
  BY <1>4
<1>5. Sound(j, adaptive) /\ (~j.failed => \A i \in 1 .. n : s[i] # "failed")
  BY <1>3, <1>11, ValidateSound
<1>6. /\ results[v] \in Seq(Result) /\ DOMAIN results[v] = 1 .. Len(results[v])
      /\ \A i \in 1 .. Len(results[v]) : results[v][i] \in Result
  <2>1. results[v] \in Seq(Result)
    BY DEF Inv, Types
  <2> QED
    BY <2>1, LenProperties, ElementOfSeq
<1>7. s = [i \in 1 .. Len(results[v]) |-> MapToCheckStatus(results[v][i])]
  BY <1>1, <1>2, <1>6
<1>8. 1 .. Len(results[v]) = 1 .. n
  BY <1>3, <1>7
<1>9. ASSUME ~j.failed, NEW i \in 1 .. Len(results[v])
      PROVE  results[v][i] \in {"passed", "skipped"}
  <2>1. MapToCheckStatus(results[v][i]) # "failed"
    BY <1>5, <1>7, <1>8, <1>9
  <2> QED
    BY <2>1 DEF MapToCheckStatus
<1>10. Written(v, j)
  BY <1>11, <1>5, <1>9 DEF Written
<1> QED
  BY <1>10

\* One more result at the end of a task's results.
LEMMA OneMoreResult ==
  ASSUME Inv, NEW v \in Call, NEW x \in Result, HasNext(v),
         results' = [results EXCEPT ![v] = Append(results[v], x)],
         UNCHANGED task
  PROVE  /\ results' \in [Call -> Seq(Result)]
         /\ Current(v) \in Command
         /\ Len(results[v]) \in Nat
         /\ Len(results'[v]) = Len(results[v]) + 1
         /\ Len(results'[v]) <= Len(task[v].commands)
         /\ \A i \in 1 .. Len(results[v]) : results'[v][i] = results[v][i]
         /\ results'[v][Len(results[v]) + 1] = x
         /\ \A w \in Call \ {v} : results'[w] = results[w]
<1>1. /\ results[v] \in Seq(Result) /\ Len(results[v]) \in Nat
      /\ task[v].commands \in Seq(Command) /\ Len(task[v].commands) \in Nat
      /\ results \in [Call -> Seq(Result)]
  <2>1. results[v] \in Seq(Result) /\ task[v].commands \in Seq(Command)
        /\ results \in [Call -> Seq(Result)]
    BY DEF Inv, Types
  <2> QED
    BY <2>1, LenProperties
<1>2. /\ Append(results[v], x) \in Seq(Result)
      /\ Len(Append(results[v], x)) = Len(results[v]) + 1
      /\ \A i \in 1 .. Len(results[v]) : Append(results[v], x)[i] = results[v][i]
      /\ Append(results[v], x)[Len(results[v]) + 1] = x
  BY <1>1, AppendProperties
<1>3. results'[v] = Append(results[v], x) /\ results' \in [Call -> Seq(Result)]
      /\ \A w \in Call \ {v} : results'[w] = results[w]
  BY <1>1, <1>2
<1>4. Current(v) \in Command
  BY <1>1, ElementOfSeq DEF HasNext, Current
<1> QED
  BY <1>1, <1>2, <1>3, <1>4 DEF HasNext

LEMMA InvStep == Inv /\ [Next]_vars => Inv'
<1> SUFFICES ASSUME Inv, [Next]_vars PROVE Inv'
  OBVIOUS
<1> USE ValidationAssumption
<1>1. CASE UNCHANGED vars
  <2>1. UNCHANGED <<adaptive, task, pc, results, child, cache, borrowed, retries,
                    judgement, final>>
    BY <1>1 DEF vars, config, runner
  <2> QED
    BY <2>1 DEF Inv, Types, ChildIsCurrent, HasNext, CacheIsTrue, SkippedRepeats,
                Sound
<1>2. ASSUME NEW v \in Call, Skip(v) PROVE Inv'
  <2> DEFINE n == Len(results[v])
             k == Current(v)
  <2>1. /\ HasNext(v) /\ pc[v] = "next" /\ cache[k] # None
        /\ results' = [results EXCEPT ![v] = Append(results[v], "skipped")]
        /\ borrowed' = [borrowed EXCEPT ![v] = borrowed[v] \/ cache[k] # v]
        /\ UNCHANGED <<adaptive, task, pc, child, cache, retries, judgement, final>>
    BY <1>2 DEF Skip, config
  <2>2. "skipped" \in Result
    BY DEF Result
  <2>3. /\ results' \in [Call -> Seq(Result)] /\ k \in Command /\ n \in Nat
        /\ Len(results'[v]) = n + 1 /\ Len(results'[v]) <= Len(task[v].commands)
        /\ \A i \in 1 .. n : results'[v][i] = results[v][i]
        /\ results'[v][n + 1] = "skipped"
        /\ \A w \in Call \ {v} : results'[w] = results[w]
    BY <2>1, <2>2, OneMoreResult
  <2>4. k = task[v].commands[n + 1]
    BY DEF Current
  <2> HIDE DEF n, k
  <2>5. Types'
    BY <2>1, <2>3 DEF Inv, Types
  <2>6. ChildIsCurrent'
    BY <2>1, <2>3 DEF Inv, Types, ChildIsCurrent, HasNext
  <2>7. CacheIsTrue'
    <3>1. ASSUME NEW w \in Call, NEW c \in Command, cache[c] = w
          PROVE  \E i \in 1 .. Len(results'[w]) :
                   task[w].commands[i] = c /\ results'[w][i] # "skipped"
      <4>1. PICK i \in 1 .. Len(results[w]) :
              task[w].commands[i] = c /\ results[w][i] # "skipped"
        BY <3>1 DEF Inv, CacheIsTrue
      <4> QED
        BY <2>3, <4>1 DEF n
    <3> QED
      BY <2>1, <3>1 DEF CacheIsTrue
  <2>8. SkippedRepeats'
    <3>1. ASSUME NEW w \in Call, ~borrowed'[w],
                 NEW i \in 1 .. Len(results'[w]), results'[w][i] = "skipped"
          PROVE  \E j \in 1 .. i : /\ task[w].commands[j] = task[w].commands[i]
                                  /\ results'[w][j] # "skipped"
      <4>1. CASE w = v /\ i = n + 1
        <5>1. cache[k] = v
          BY <2>1, <3>1, <4>1 DEF Inv, Types
        <5>2. PICK j \in 1 .. n : task[v].commands[j] = k /\ results[v][j] # "skipped"
          BY <2>3, <5>1 DEF Inv, CacheIsTrue, n
        <5>3. j \in 1 .. i /\ results'[v][j] = results[v][j]
          BY <2>3, <4>1, <5>2
        <5> QED
          BY <2>4, <4>1, <5>2, <5>3
      <4>2. CASE ~(w = v /\ i = n + 1)
        <5>1. /\ ~borrowed[w] /\ i \in 1 .. Len(results[w])
              /\ results'[w][i] = results[w][i]
          BY <2>1, <2>3, <3>1, <4>2 DEF Inv, Types, n
        <5>2. PICK j \in 1 .. i : /\ task[w].commands[j] = task[w].commands[i]
                                 /\ results[w][j] # "skipped"
          BY <3>1, <5>1 DEF Inv, SkippedRepeats
        <5>3. results'[w][j] = results[w][j]
          <6>1. Len(results[w]) \in Nat
            BY LenProperties DEF Inv, Types
          <6>2. j \in 1 .. Len(results[w])
            BY <5>1, <6>1
          <6> QED
            BY <2>3, <6>2 DEF n
        <5> QED
          BY <5>2, <5>3
      <4> QED
        BY <4>1, <4>2
    <3> QED
      BY <2>1, <3>1 DEF SkippedRepeats
  <2> QED
    BY <2>1, <2>5, <2>6, <2>7, <2>8 DEF Inv, Sound
<1>3. ASSUME NEW v \in Call, NEW exit \in {0, 1}, child[v] # None, Close(v, exit)
      PROVE  Inv'
  <2> DEFINE n == Len(results[v])
             k == Current(v)
             x == VerdictOf(v, exit)
  <2>1. /\ HasNext(v)
        /\ results' = [results EXCEPT ![v] = Append(results[v], x)]
        /\ cache' = [cache EXCEPT ![k] = v]
        /\ child' = [child EXCEPT ![v] = None]
        /\ pc' = [pc EXCEPT ![v] = "next"]
        /\ UNCHANGED <<adaptive, task, borrowed, retries, judgement, final>>
    BY <1>3 DEF Close, Goto, config, Inv, ChildIsCurrent
  <2>2. x \in Result /\ x # "skipped"
    BY DEF VerdictOf, Result
  <2> HIDE DEF x
  <2>3. /\ results' \in [Call -> Seq(Result)] /\ k \in Command /\ n \in Nat
        /\ Len(results'[v]) = n + 1 /\ Len(results'[v]) <= Len(task[v].commands)
        /\ \A i \in 1 .. n : results'[v][i] = results[v][i]
        /\ results'[v][n + 1] = x
        /\ \A w \in Call \ {v} : results'[w] = results[w]
    BY <2>1, <2>2, OneMoreResult
  <2>4. k = task[v].commands[n + 1]
    BY DEF Current
  <2> HIDE DEF n, k
  <2>5. Types'
    BY <2>1, <2>3 DEF Inv, Types
  <2>6. ChildIsCurrent'
    BY <2>1, <2>3 DEF Inv, Types, ChildIsCurrent, HasNext
  <2>7. CacheIsTrue'
    <3>1. ASSUME NEW w \in Call, NEW c \in Command, cache'[c] = w
          PROVE  \E i \in 1 .. Len(results'[w]) :
                   task[w].commands[i] = c /\ results'[w][i] # "skipped"
      <4>1. CASE c = k
        <5>1. w = v
          BY <2>1, <2>3, <3>1, <4>1 DEF Inv, Types
        <5>2. n + 1 \in 1 .. Len(results'[v])
          BY <2>3
        <5> QED
          BY <2>2, <2>3, <2>4, <4>1, <5>1, <5>2
      <4>2. CASE c # k
        <5>1. PICK i \in 1 .. Len(results[w]) :
                task[w].commands[i] = c /\ results[w][i] # "skipped"
          BY <2>1, <3>1, <4>2 DEF Inv, Types, CacheIsTrue
        <5> QED
          BY <2>3, <5>1 DEF n
      <4> QED
        BY <4>1, <4>2
    <3> QED
      BY <2>1, <3>1 DEF CacheIsTrue
  <2>8. SkippedRepeats'
    <3>1. ASSUME NEW w \in Call, ~borrowed[w],
                 NEW i \in 1 .. Len(results'[w]), results'[w][i] = "skipped"
          PROVE  \E j \in 1 .. i : /\ task[w].commands[j] = task[w].commands[i]
                                  /\ results'[w][j] # "skipped"
      <4>1. i \in 1 .. Len(results[w]) /\ results'[w][i] = results[w][i]
        BY <2>2, <2>3, <3>1 DEF n
      <4>2. PICK j \in 1 .. i : /\ task[w].commands[j] = task[w].commands[i]
                               /\ results[w][j] # "skipped"
        BY <3>1, <4>1 DEF Inv, SkippedRepeats
      <4>3. results'[w][j] = results[w][j]
        <5>1. Len(results[w]) \in Nat
          BY LenProperties DEF Inv, Types
        <5>2. j \in 1 .. Len(results[w])
          BY <4>1, <5>1
        <5> QED
          BY <2>3, <5>2 DEF n
      <4> QED
        BY <4>2, <4>3
    <3> QED
      BY <2>1, <3>1 DEF SkippedRepeats
  <2> QED
    BY <2>1, <2>5, <2>6, <2>7, <2>8 DEF Inv, Sound
<1>4. ASSUME NEW v \in Call, RunSingleCommand(v) PROVE Inv'
  <2>1. /\ pc[v] = "next" /\ HasNext(v)
        /\ pc' = [pc EXCEPT ![v] = "running"] /\ child' = [child EXCEPT ![v] = "runs"]
        /\ UNCHANGED <<adaptive, task, results, cache, borrowed, retries,
                       judgement, final>>
    BY <1>4 DEF RunSingleCommand, Goto, config
  <2>2. Types'
    BY <2>1 DEF Inv, Types
  <2>3. ChildIsCurrent'
    BY <2>1 DEF Inv, Types, ChildIsCurrent, HasNext, None
  <2> QED
    BY <2>1, <2>2, <2>3 DEF Inv, CacheIsTrue, SkippedRepeats, Sound
<1>5. ASSUME NEW v \in Call, Leaves(v) PROVE Inv'
  <2>1. /\ child[v] = "runs" /\ child' = [child EXCEPT ![v] = "left"]
        /\ UNCHANGED <<adaptive, task, pc, results, cache, borrowed, retries,
                       judgement, final>>
    BY <1>5 DEF Leaves, config
  <2>2. Types'
    BY <2>1 DEF Inv, Types
  <2>3. ChildIsCurrent'
    BY <2>1 DEF Inv, Types, ChildIsCurrent, HasNext, None
  <2> QED
    BY <2>1, <2>2, <2>3 DEF Inv, CacheIsTrue, SkippedRepeats, Sound
<1>6. ASSUME NEW v \in Call, TimesOut(v) PROVE Inv'
  <2>1. UNCHANGED <<adaptive, task, pc, results, child, cache, borrowed, retries,
                    judgement, final>>
    BY <1>6 DEF TimesOut, config
  <2>2. Types' /\ ChildIsCurrent' /\ CacheIsTrue' /\ SkippedRepeats'
    BY <2>1 DEF Inv, Types, ChildIsCurrent, HasNext, CacheIsTrue, SkippedRepeats
  <2>3. \A w \in Call : Sound(judgement'[w], adaptive')
    BY <2>1 DEF Inv
  <2> QED
    BY <2>2, <2>3 DEF Inv
<1>7. ASSUME NEW v \in Call, Decide(v) PROVE Inv'
  <2>1. /\ pc[v] = "next" /\ pc' = [pc EXCEPT ![v] = "judged"]
        /\ cache' = [k \in Command |-> None]
        /\ results' = [results EXCEPT ![v] = <<>>]
        /\ borrowed' = [borrowed EXCEPT ![v] = FALSE]
        /\ UNCHANGED <<adaptive, task, child, retries, final>>
    BY <1>7 DEF Decide, Goto, config
  <2>2. PICK j : Written(v, j)
    BY <1>7, DecideSound
  <2>8. judgement' = [judgement EXCEPT ![v] = j] /\ Sound(j, adaptive)
    BY <2>2 DEF Written
  <2>3. Types'
    BY <2>1, <2>8, EmptySeq DEF Inv, Types
  <2>4. ChildIsCurrent'
    <3>1. \A w \in Call : Len(task[w].commands) \in Nat
      <4>1. \A w \in Call : task[w].commands \in Seq(Command)
        BY DEF Inv, Types
      <4> QED
        BY <4>1, LenProperties
    <3> QED
      BY <2>1, <3>1 DEF Inv, Types, ChildIsCurrent, HasNext
  <2>5. CacheIsTrue'
    BY <2>1 DEF CacheIsTrue
  <2>6. SkippedRepeats'
    <3>1. ASSUME NEW w \in Call
          PROVE  \/ results'[w] = <<>>
                 \/ results'[w] = results[w] /\ borrowed'[w] = borrowed[w]
      <4>1. results \in [Call -> Seq(Result)] /\ borrowed \in [Call -> BOOLEAN]
        BY DEF Inv, Types
      <4>2. CASE w = v
        BY <2>1, <4>1, <4>2
      <4>3. CASE w # v
        BY <2>1, <4>1, <4>3
      <4> QED
        BY <4>2, <4>3
    <3>2. ASSUME NEW w \in Call, ~borrowed'[w],
                 NEW i \in 1 .. Len(results'[w]), results'[w][i] = "skipped"
          PROVE  \E k \in 1 .. i : /\ task[w].commands[k] = task[w].commands[i]
                                  /\ results'[w][k] # "skipped"
      <4>1. results'[w] # <<>>
        BY EmptySeq
      <4> QED
        BY <3>1, <3>2, <4>1 DEF Inv, SkippedRepeats
    <3> QED
      BY <2>1, <3>2 DEF SkippedRepeats
  <2>7. \A w \in Call : Sound(judgement'[w], adaptive')
    BY <2>1, <2>8 DEF Inv, Types
  <2> QED
    BY <2>3, <2>4, <2>5, <2>6, <2>7 DEF Inv, Sound
<1>8. ASSUME NEW v \in Call, Retry(v) \/ Ends(v) PROVE Inv'
  <2>1. /\ pc[v] = "judged" /\ judgement' = [judgement EXCEPT ![v] = Unjudged]
        /\ \/ pc' = [pc EXCEPT ![v] = "next"]
           \/ pc' = [pc EXCEPT ![v] = "end"]
        /\ \/ retries' = retries
           \/ retries[v] < MaxRetries /\ retries' = [retries EXCEPT ![v] = @ + 1]
        /\ \/ final' = final
           \/ final' = [final EXCEPT ![v] = final'[v]]
        /\ UNCHANGED <<adaptive, task, child, results, cache, borrowed>>
    <3>1. CASE Retry(v)
      BY <3>1 DEF Retry, Goto, config, runner
    <3>2. CASE Ends(v)
      <4>1. PICK r : Finish(v, r)
        BY <3>2 DEF Ends, End, GiveUp, Missing, FinishAfter
      <4>2. final = [w \in Call |-> final[w]]
        BY DEF Inv, Types
      <4>3. final' = [final EXCEPT ![v] = final'[v]]
        BY <4>1, <4>2 DEF Finish
      <4>4. pc[v] = "judged"
        BY <3>2 DEF Ends, End, GiveUp, Missing
      <4> QED
        BY <4>1, <4>3, <4>4 DEF Finish, Goto, config, runner
    <3> QED
      BY <1>8, <3>1, <3>2
  <2>2. Types'
    <3>1. retries' \in [Call -> 0 .. MaxRetries]
      <4>1. retries \in [Call -> 0 .. MaxRetries]
        BY DEF Inv, Types
      <4>2. CASE retries' = retries
        BY <4>1, <4>2
      <4>3. CASE /\ retries[v] < MaxRetries
                 /\ retries' = [retries EXCEPT ![v] = retries[v] + 1]
        <5>1. retries[v] + 1 \in 0 .. MaxRetries
          BY <4>1, <4>3
        <5> QED
          BY <4>1, <4>3, <5>1
      <4> QED
        BY <2>1, <4>2, <4>3
    <3>2. final' = [w \in Call |-> final'[w]]
      BY <2>1 DEF Inv, Types
    <3>3. judgement' = [w \in Call |-> judgement'[w]]
      BY <2>1 DEF Inv, Types
    <3> QED
      BY <2>1, <3>1, <3>2, <3>3 DEF Inv, Types
  <2>3. ChildIsCurrent'
    BY <2>1 DEF Inv, Types, ChildIsCurrent, HasNext
  <2>4. Sound(Unjudged, adaptive)
    BY DEF Sound, Unjudged
  <2>5. \A w \in Call : Sound(judgement'[w], adaptive')
    BY <2>1, <2>4 DEF Inv, Types
  <2> QED
    BY <2>1, <2>2, <2>3, <2>5 DEF Inv, CacheIsTrue, SkippedRepeats, Sound
<1>9. ASSUME NEW v \in Call, Exits(v) \/ LeftEnds(v) \/ Killed(v) PROVE Inv'
  BY <1>3, <1>9 DEF Exits, LeftEnds, Killed, None
<1> QED
  BY <1>1, <1>2, <1>4, <1>5, <1>6, <1>7, <1>8, <1>9 DEF Next, Program, Ends

\* The runner's records are kept and every verdict is sound.
THEOREM Consistent == Spec => []Inv
<1>1. Init => Inv
  <2> SUFFICES ASSUME Init PROVE Inv
    OBVIOUS
  <2> USE ValidationAssumption
  <2>1. Types
    BY EmptySeq DEF Init, Types
  <2>2. \A v \in Call : Len(task[v].commands) \in Nat
    <3>1. \A v \in Call : task[v].commands \in Seq(Command)
      BY <2>1 DEF Types
    <3> QED
      BY <3>1, LenProperties
  <2>3. ChildIsCurrent
    BY <2>2 DEF Init, ChildIsCurrent, None
  <2>4. CacheIsTrue /\ SkippedRepeats
    BY DEF Init, CacheIsTrue, SkippedRepeats
  <2> QED
    BY <2>1, <2>3, <2>4 DEF Init, Inv, Sound, Unjudged
<1> QED
  BY <1>1, InvStep, PTL DEF Spec

-----------------------------------------------------------------------------
(* What a verdict rests on *)

\* A pass rests on commands that ran and passed, whatever other checks say and
\* whoever shares the runner.
THEOREM PassChecked == Spec => PassedIsChecked
<1>1. ASSUME Inv, [Next]_vars, NEW v \in Call, judgement[v] = Unjudged,
             judgement'[v].status = "passed", ~borrowed[v],
             NEW i \in DOMAIN results[v]
      PROVE  \E j \in 1 .. i : /\ task[v].commands[j] = task[v].commands[i]
                              /\ results[v][j] = "passed"
  <2>1. judgement'[v] # judgement[v]
    BY <1>1 DEF Unjudged, None
  <2>2. Decide(v)
    <3>1. ~UNCHANGED vars
      BY <2>1 DEF vars
    <3>2. ASSUME NEW w \in Call,
                 Skip(w) \/ RunSingleCommand(w) \/ Exits(w) \/ Leaves(w)
                   \/ LeftEnds(w) \/ TimesOut(w) \/ Killed(w)
          PROVE  FALSE
      BY <2>1, <3>2 DEF Skip, RunSingleCommand, Exits, Leaves, LeftEnds, TimesOut,
                        Killed, Close
    <3>3. ASSUME NEW w \in Call, Retry(w) \/ Ends(w) PROVE FALSE
      <4>1. judgement' = [judgement EXCEPT ![w] = Unjudged]
        BY <3>3 DEF Retry, Ends, End, GiveUp, Missing, FinishAfter, Finish
      <4> QED
        BY <1>1, <2>1, <4>1 DEF Inv, Types
    <3>4. ASSUME NEW w \in Call, Decide(w) PROVE w = v
      <4>1. PICK j : Written(w, j)
        BY <1>1, <3>4, DecideSound
      <4> QED
        BY <1>1, <2>1, <4>1 DEF Written, Inv, Types
    <3> QED
      BY <1>1, <3>1, <3>2, <3>3, <3>4 DEF Next, Program, Ends
  <2>10. PICK j : Written(v, j)
    BY <1>1, <2>2, DecideSound
  <2>3. /\ judgement' = [judgement EXCEPT ![v] = j] /\ Sound(j, adaptive)
        /\ ~j.failed => \A n \in 1 .. Len(results[v]) :
                          results[v][n] \in {"passed", "skipped"}
    BY <2>10 DEF Written
  <2>4. j.status = "passed"
    BY <1>1, <2>3 DEF Inv, Types
  <2>5. \A n \in 1 .. Len(results[v]) : results[v][n] \in {"passed", "skipped"}
    BY <2>3, <2>4 DEF Sound
  <2>6. Len(results[v]) \in Nat /\ i \in 1 .. Len(results[v])
    <3>1. results[v] \in Seq(Result)
      BY <1>1 DEF Inv, Types
    <3> QED
      BY <1>1, <3>1, LenProperties
  <2>7. CASE results[v][i] = "passed"
    BY <2>6, <2>7
  <2>8. CASE results[v][i] = "skipped"
    <3>1. PICK n \in 1 .. i : /\ task[v].commands[n] = task[v].commands[i]
                             /\ results[v][n] # "skipped"
      BY <1>1, <2>6, <2>8 DEF Inv, SkippedRepeats
    <3>2. n \in 1 .. Len(results[v])
      BY <2>6
    <3> QED
      BY <2>5, <3>1, <3>2
  <2> QED
    BY <2>5, <2>6, <2>7, <2>8
<1>2. Inv /\ [Next]_vars =>
        [\A v \in Call :
           judgement[v] = Unjudged /\ judgement'[v].status = "passed" /\ ~borrowed[v]
             => \A i \in DOMAIN results[v] :
                  \E j \in 1 .. i : /\ task[v].commands[j] = task[v].commands[i]
                                   /\ results[v][j] = "passed"]_vars
  BY <1>1
<1> QED
  BY <1>2, Consistent, PTL DEF Spec, PassedIsChecked

\* A failed check is overruled only by the outcome seen, where outcomes are
\* configured to outweigh checks, and never inside the loop.
THEOREM DoneJustified == Spec => DoneIsJustified
<1>1. ASSUME Inv, [Next]_vars, NEW v \in Call, final[v] # "done",
             final'[v] = "done", judgement[v].failed
      PROVE  /\ judgement[v].outcome = "passed" /\ adaptive
             /\ ~AcceptedInLoop(judgement[v])
  <2>1. ASSUME NEW w \in Call, ~Ends(w), Program(w) \/ Exits(w) \/ Leaves(w)
                 \/ LeftEnds(w) \/ TimesOut(w) \/ Killed(w)
        PROVE  FALSE
    BY <1>1, <2>1 DEF Program, Ends, Skip, RunSingleCommand, Decide, Retry, Exits,
                      Leaves, LeftEnds, TimesOut, Killed, Close
  <2>2. PICK w \in Call : Ends(w)
    BY <1>1, <2>1 DEF Next, vars
  <2>3. PICK r : Finish(w, r) /\ (r = "done" => AcceptedAfter(judgement[w]))
    <3>1. CASE End(w) \/ GiveUp(w)
      BY <3>1 DEF End, GiveUp, FinishAfter
    <3>2. CASE Missing(w)
      BY <3>2 DEF Missing
    <3> QED
      BY <2>2, <3>1, <3>2 DEF Ends
  <2>4. final' = [final EXCEPT ![w] = r]
    BY <2>3 DEF Finish
  <2>5. w = v /\ AcceptedAfter(judgement[v])
    BY <1>1, <2>3, <2>4 DEF Inv, Types
  <2>6. Sound(judgement[v], adaptive)
    BY <1>1 DEF Inv
  <2> QED
    BY <1>1, <2>5, <2>6 DEF Sound, AcceptedAfter, AcceptedInLoop
<1>2. Inv /\ [Next]_vars =>
        [\A v \in Call :
           final[v] # "done" /\ final'[v] = "done" /\ judgement[v].failed
             => /\ judgement[v].outcome = "passed" /\ adaptive
                /\ ~AcceptedInLoop(judgement[v])]_vars
  BY <1>1
<1> QED
  BY <1>2, Consistent, PTL DEF Spec, DoneIsJustified
=============================================================================
