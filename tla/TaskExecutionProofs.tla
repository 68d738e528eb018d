------------------------- MODULE TaskExecutionProofs -------------------------
(***************************************************************************)
(* What one executeTask call guarantees for any retry limits: the number   *)
(* of executor runs is bounded, a refused round is the last, and the call  *)
(* implements TaskCall.                                                    *)
(***************************************************************************)
EXTENDS TaskExecution, TLAPS

-----------------------------------------------------------------------------
(* Types *)

LEMMA FlagTypes == FlagsOK /\ [Next]_vars => FlagsOK'
<1> SUFFICES ASSUME FlagsOK, [Next]_vars PROVE FlagsOK'
  OBVIOUS
<1> USE DEF FlagsOK
<1>1. CASE UNCHANGED vars
  BY <1>1 DEF vars
<1>2. CASE Begin \/ Approve \/ Spawn \/ AnswerRestart \/ Validate \/ Test
  BY <1>2, Zenon DEF Begin, Approve, Spawn, AnswerRestart, Validate, Test
<1>3. CASE JoinSession \/ AnswerSession \/ TimeIsUp \/ Retry \/ GrantRound
           \/ DeclineRound
  BY <1>3, Zenon DEF JoinSession, SessionOutcome, AnswerSession, TimeIsUp, Retry, GrantRound,
             DeclineRound
<1>4. CASE Blocked \/ LeaveWaiting \/ FallBack \/ Epilogue
  BY <1>4, Zenon DEF Blocked, LeaveWaiting, FallBack, Epilogue, Return
<1>5. CASE Executed
  <2>1. session' \in BOOLEAN
    BY <1>5, Zenon DEF Executed
  <2>2. UNCHANGED <<tty, declined>>
    BY <1>5, Zenon DEF Executed
  <2> QED
    BY <2>1, <2>2, Zenon
<1> QED
  BY <1>1, <1>2, <1>3, <1>4, <1>5 DEF Next, SystemStep, ChildStep, UserStep

LEMMA CounterTypes == CountersOK /\ [Next]_vars => CountersOK'
<1> SUFFICES ASSUME CountersOK, [Next]_vars PROVE CountersOK'
  OBVIOUS
<1> USE DEF CountersOK, counters
<1>1. CASE UNCHANGED vars
  BY <1>1 DEF vars
<1>2. CASE Begin \/ Approve \/ Spawn \/ AnswerRestart \/ Validate \/ Test
  BY <1>2 DEF Begin, Approve, Spawn, AnswerRestart, Validate, Test
<1>3. CASE JoinSession \/ AnswerSession \/ TimeIsUp \/ Retry \/ GrantRound
           \/ DeclineRound
  BY <1>3 DEF JoinSession, SessionOutcome, AnswerSession, TimeIsUp, Retry, GrantRound,
              DeclineRound
<1>4. CASE Blocked \/ LeaveWaiting \/ FallBack \/ Epilogue
  BY <1>4 DEF Blocked, LeaveWaiting, FallBack, Epilogue
<1>5. CASE Executed
  <2>1. UNCHANGED counters
    BY <1>5, Zenon DEF Executed
  <2> QED
    BY <2>1
<1> QED
  BY <1>1, <1>2, <1>3, <1>4, <1>5 DEF Next, SystemStep, ChildStep, UserStep

\* While the call waits, the status on disk is what the executor reported:
\* this is the value that LeaveWaiting returns.
WaitingMatches == pc = "waiting" => outcome \in Wait /\ status = outcome

ControlInv == ControlOK /\ WaitingMatches

LEMMA ControlTypes == ControlInv /\ [Next]_vars => ControlInv'
<1> SUFFICES ASSUME ControlInv, [Next]_vars PROVE ControlInv'
  OBVIOUS
<1> USE DEF ControlInv, ControlOK, WaitingMatches, Pc, Statuses, Values, Outcome,
            Verdict, Wait, Return
<1>1. CASE UNCHANGED vars
  BY <1>1 DEF vars
<1>2. CASE Begin \/ Approve \/ Spawn \/ Test
  BY <1>2 DEF Begin, Approve, Spawn, Test
<1>3. CASE JoinSession \/ AnswerSession
  BY <1>3 DEF JoinSession, SessionOutcome, AnswerSession
<1>4. CASE TimeIsUp \/ Retry \/ GrantRound \/ DeclineRound
  BY <1>4 DEF TimeIsUp, Retry, GrantRound, DeclineRound
<1>5. CASE Blocked \/ LeaveWaiting \/ Epilogue
  BY <1>5 DEF Blocked, LeaveWaiting, Epilogue
<1>6. CASE FallBack
  BY <1>6 DEF FallBack
<1>7. CASE Executed
  BY <1>7 DEF Executed
<1>8. CASE AnswerRestart
  BY <1>8 DEF AnswerRestart
<1>9. CASE Validate
  <2>1. verdict' \in Verdict
    BY <1>9 DEF Validate, Possible
  <2> QED
    BY <1>9, <2>1 DEF Validate
<1> QED
  BY <1>1, <1>2, <1>3, <1>4, <1>5, <1>6, <1>7, <1>8, <1>9
     DEF Next, SystemStep, ChildStep, UserStep

LEMMA InitTypes == Init => TypeOK /\ WaitingMatches
<1> SUFFICES ASSUME Init PROVE TypeOK /\ WaitingMatches
  OBVIOUS
<1>1. FlagsOK
  BY Zenon DEF Init, FlagsOK
<1>2. CountersOK
  BY DEF Init, CountersOK
<1>3. ControlOK
  BY DEF Init, ControlOK, Pc, Statuses
<1>4. WaitingMatches
  BY DEF Init, WaitingMatches
<1> QED
  BY <1>1, <1>2, <1>3, <1>4 DEF TypeOK

\* Every variable keeps its type in every step of the call.
THEOREM Typing == Spec => [](TypeOK /\ WaitingMatches)
<1>1. TypeOK /\ WaitingMatches /\ [Next]_vars => (TypeOK /\ WaitingMatches)'
  BY FlagTypes, CounterTypes, ControlTypes DEF TypeOK, ControlInv
<1> QED
  BY InitTypes, <1>1, PTL DEF Spec

-----------------------------------------------------------------------------
(* The record of the child *)

-----------------------------------------------------------------------------
(* Children left behind *)

\* A live child is the one the call found and has not yet joined, the one the
\* call waits with, or one left to a task that waits.
SessionInv ==
  session => \/ attempts = 0 /\ pc \in {"begin", "approve", "loop", "end"}
             \/ pc = "waiting"
             \/ pc = "end" /\ status \in Wait

LEMMA SessionStep ==
  ControlInv /\ CountersOK /\ SessionInv /\ [Next]_vars => SessionInv'
<1> SUFFICES ASSUME ControlInv, CountersOK, SessionInv, [Next]_vars
             PROVE  SessionInv'
  OBVIOUS
<1> USE DEF SessionInv, counters
<1>1. CASE UNCHANGED vars
  BY <1>1, Zenon DEF vars
<1>2. CASE Begin \/ Approve \/ Blocked
  BY <1>2, Zenon DEF Begin, Approve, Blocked, Return
<1>3. CASE JoinSession \/ AnswerSession \/ AnswerRestart
  BY <1>3, Zenon DEF JoinSession, AnswerSession, AnswerRestart
<1>4. CASE Spawn
  BY <1>4, Zenon DEF Spawn
<1>5. CASE Executed
  <2>1. pc' = "waiting" \/ outcome' \notin Wait
    BY <1>5 DEF Executed, Wait
  <2>2. outcome' \notin Wait => session' = FALSE
    BY <1>5, Zenon DEF Executed
  <2> QED
    BY <2>1, <2>2, Zenon
<1>6. CASE LeaveWaiting
  BY <1>6, Zenon DEF LeaveWaiting, Return, ControlInv, WaitingMatches
<1>7. CASE \/ Validate \/ FallBack \/ TimeIsUp \/ Retry \/ GrantRound
           \/ DeclineRound \/ Test \/ Epilogue
  <2>1. pc \in {"validate", "retry", "test", "epilogue"} /\ session' = session
    BY <1>7, Zenon DEF Validate, FallBack, TimeIsUp, Retry, GrantRound,
                       DeclineRound, Test, Epilogue
  <2>2. pc \notin {"begin", "approve", "loop", "end", "waiting"}
    BY <2>1
  <2> QED
    BY <2>1, <2>2, Zenon
<1> QED
  BY <1>1, <1>2, <1>3, <1>4, <1>5, <1>6, <1>7
     DEF Next, SystemStep, ChildStep, UserStep

\* For any retry limits, a call that has started an executor ends over a live
\* child only when its task waits.
THEOREM ChildrenWait == Spec => []LeftChildWaits
<1>1. Init => SessionInv
  BY Zenon DEF Init, SessionInv
<1>2. TypeOK /\ SessionInv => LeftChildWaits
  BY DEF TypeOK, CountersOK, SessionInv, LeftChildWaits
<1>3. TypeOK /\ WaitingMatches => ControlInv /\ CountersOK
  BY DEF TypeOK, ControlInv
<1> QED
  BY <1>1, <1>2, <1>3, Typing, SessionStep, PTL DEF Spec

-----------------------------------------------------------------------------
(* The promise to the run loop *)

NotReturned == pc # "end" => result = "none"

LEMMA NotReturnedStep == NotReturned /\ [Next]_vars => NotReturned'
<1> SUFFICES ASSUME NotReturned, [Next]_vars PROVE NotReturned'
  OBVIOUS
<1> USE DEF NotReturned, Return
<1>1. CASE UNCHANGED vars
  BY <1>1 DEF vars
<1>2. CASE Begin \/ Approve \/ Blocked \/ FallBack \/ LeaveWaiting \/ Epilogue
  BY <1>2 DEF Begin, Approve, Blocked, FallBack, LeaveWaiting, Epilogue
<1>3. CASE Executed
  BY <1>3 DEF Executed
<1>4. CASE JoinSession \/ Spawn \/ AnswerSession \/ AnswerRestart
  BY <1>4 DEF JoinSession, SessionOutcome, Spawn, AnswerSession, AnswerRestart
<1>5. CASE Validate \/ TimeIsUp \/ Retry \/ GrantRound \/ DeclineRound \/ Test
  BY <1>5 DEF Validate, TimeIsUp, Retry, GrantRound, DeclineRound, Test
<1> QED
  BY <1>1, <1>2, <1>3, <1>4, <1>5 DEF Next, SystemStep, ChildStep, UserStep

\* Every step of the call is a step of the promise, or leaves status and
\* result alone.
LEMMA CallStep ==
  ControlInv /\ NotReturned /\ [Next]_vars
    => [Call!Mark \/ Call!Return]_<<status, result>>
<1> SUFFICES ASSUME ControlInv, NotReturned, [Next]_vars
             PROVE  \/ Call!Mark \/ Call!Return
                    \/ UNCHANGED <<status, result>>
  OBVIOUS
<1> USE DEF NotReturned, Call!Mark, Call!Return, Call!Returns, Call!Marks,
            Call!Wait, Wait
<1>1. CASE UNCHANGED vars
  BY <1>1 DEF vars
<1>2. CASE Begin \/ Approve
  BY <1>2 DEF Begin, Approve, Return
<1>3. CASE Blocked \/ FallBack
  BY <1>3 DEF Blocked, FallBack, Return
<1>4. CASE Executed
  BY <1>4 DEF Executed, Return
<1>5. CASE LeaveWaiting
  BY <1>5 DEF LeaveWaiting, Return, ControlInv, WaitingMatches
<1>6. CASE Epilogue
  BY <1>6 DEF Epilogue, Return
<1>7. CASE JoinSession \/ AnswerRestart
  BY <1>7 DEF JoinSession, SessionOutcome, AnswerRestart
<1>8. CASE Spawn \/ AnswerSession
  BY <1>8 DEF Spawn, AnswerSession, SessionOutcome
<1>9. CASE Validate \/ TimeIsUp \/ Retry \/ GrantRound \/ DeclineRound \/ Test
  BY <1>9 DEF Validate, TimeIsUp, Retry, GrantRound, DeclineRound, Test
<1> QED
  BY <1>1, <1>2, <1>3, <1>4, <1>5, <1>6, <1>7, <1>8, <1>9
     DEF Next, SystemStep, ChildStep, UserStep

\* executeTask keeps its promise to the run loop, for any retry limits.
THEOREM PromiseKept == Spec => KeepsPromise
<1>1. Init => Call!Init /\ NotReturned
  BY DEF Init, Call!Init, NotReturned, Call!Statuses
<1>2. TypeOK /\ WaitingMatches => ControlInv
  BY DEF TypeOK, ControlInv
<1> QED
  BY <1>1, <1>2, Typing, NotReturnedStep, CallStep, PTL
     DEF Spec, KeepsPromise, Call!Spec

-----------------------------------------------------------------------------
(* The number of attempts *)

\* Rounds that can no longer be granted: the additional ones, of which the
\* count that reaches the cap is not one, and the one cut short by the fallback.
Granted ==
  IF additionalRetryCount > MAX_ADDITIONAL_RETRIES
    THEN MAX_ADDITIONAL_RETRIES ELSE additionalRetryCount
FellBack == IF executor = "default" THEN 1 ELSE 0
Budget(k) == Round * k

InTurn == pc \in {"running", "waiting", "validate", "retry"}

\* In a round retryCount counts its attempts, and less than Round of them are
\* over whenever another one can start.
RoundInv ==
  /\ retryCount <= Round
  /\ pc \in {"begin", "approve", "loop"} \/ InTurn => retryCount < Round
  /\ pc = "test" /\ retryCount <= maxRetries => retryCount < Round

CapInv ==
  /\ additionalRetryCount <= MAX_ADDITIONAL_RETRIES + 1
  /\ additionalRetryCount > MAX_ADDITIONAL_RETRIES => pc \in {"epilogue", "end"}

SpentInv ==
  LET k == Granted + FellBack IN
  /\ pc \in {"begin", "approve", "loop", "test"}
        => attempts <= Budget(k) + retryCount + answers
  /\ InTurn => attempts <= Budget(k) + retryCount + 1 + answers
  /\ pc \in {"epilogue", "end"} => attempts <= Budget(k) + Round + answers

AttemptInv == RoundInv /\ CapInv /\ SpentInv

LEMMA RoundType == Round \in Nat \ {0} /\ Round <= maxRetries + 1
                   /\ \A n \in Nat : WithinLimits(n) => n < Round
BY RetryAssumption DEF Round, WithinLimits

LEMMA BudgetStep ==
  \A k \in Nat : Budget(k) \in Nat /\ Budget(k + 1) = Budget(k) + Round
BY RoundType DEF Budget

LEMMA Beyond == \A n \in Nat : ~WithinLimits(n) /\ ~GrantsItself(n) => n > maxRetries
BY RetryAssumption DEF GrantsItself

LEMMA RoundStep ==
  TypeOK /\ RoundInv /\ [Next]_vars => RoundInv'
<1> SUFFICES ASSUME ControlOK, CountersOK, RoundInv, [Next]_vars PROVE RoundInv'
  BY DEF TypeOK
<1> USE RoundType, RetryAssumption DEF RoundInv, InTurn, CountersOK, counters
<1>1. CASE UNCHANGED vars
  BY <1>1 DEF vars
<1>2. CASE Begin \/ Approve \/ Blocked \/ LeaveWaiting
  BY <1>2 DEF Begin, Approve, Blocked, LeaveWaiting, Return
<1>3. CASE JoinSession \/ Spawn \/ AnswerSession \/ AnswerRestart
  BY <1>3 DEF JoinSession, SessionOutcome, Spawn, AnswerSession, AnswerRestart
<1>4. CASE Executed
  <2>1. pc = "running" /\ UNCHANGED counters
    BY <1>4, Zenon DEF Executed
  <2>2. pc' \in {"waiting", "end", "validate"}
    BY <1>4 DEF Executed, Return
  <2> QED
    BY <2>1, <2>2
<1>5. CASE Validate \/ Test \/ TimeIsUp \/ Epilogue
  BY <1>5 DEF Validate, Test, TimeIsUp, Epilogue, Return
<1>6. CASE FallBack
  BY <1>6 DEF FallBack, Return
<1>7. CASE Retry
  BY <1>7 DEF Retry
<1>8. CASE GrantRound
  BY <1>8 DEF GrantRound
<1>9. CASE DeclineRound
  BY <1>9, Beyond DEF DeclineRound
<1> QED
  BY <1>1, <1>2, <1>3, <1>4, <1>5, <1>6, <1>7, <1>8, <1>9
     DEF Next, SystemStep, ChildStep, UserStep

LEMMA CapStep ==
  TypeOK /\ CapInv /\ [Next]_vars => CapInv'
<1> SUFFICES ASSUME CountersOK, CapInv, [Next]_vars PROVE CapInv'
  BY DEF TypeOK
<1> USE DEF CapInv, CountersOK, counters, MAX_ADDITIONAL_RETRIES
<1>1. CASE UNCHANGED vars
  BY <1>1 DEF vars
<1>2. CASE GrantRound
  BY <1>2 DEF GrantRound, CapReached
<1>3. CASE Begin \/ Approve \/ Blocked \/ LeaveWaiting \/ FallBack \/ Epilogue
  BY <1>3 DEF Begin, Approve, Blocked, LeaveWaiting, FallBack, Epilogue,
              Return
<1>4. CASE JoinSession \/ Spawn \/ AnswerSession \/ AnswerRestart
  BY <1>4 DEF JoinSession, SessionOutcome, Spawn, AnswerSession, AnswerRestart
<1>5. CASE Executed
  <2>1. pc = "running" /\ UNCHANGED counters
    BY <1>5, Zenon DEF Executed
  <2> QED
    BY <2>1
<1>6. CASE Validate \/ Test \/ TimeIsUp \/ Retry \/ DeclineRound
  BY <1>6 DEF Validate, Test, TimeIsUp, Retry, DeclineRound
<1> QED
  BY <1>1, <1>2, <1>3, <1>4, <1>5, <1>6 DEF Next, SystemStep, ChildStep, UserStep

LEMMA SpentStep ==
  TypeOK /\ AttemptInv /\ [Next]_vars => SpentInv'
<1> SUFFICES ASSUME ControlOK, CountersOK, RoundInv, CapInv, SpentInv, [Next]_vars
             PROVE  SpentInv'
  BY DEF TypeOK, AttemptInv
<1> DEFINE k == Granted + FellBack
<1>k. k \in Nat /\ Budget(k) \in Nat /\ Budget(k + 1) = Budget(k) + Round
  BY BudgetStep DEF Granted, FellBack, CountersOK, MAX_ADDITIONAL_RETRIES
<1>s. ASSUME UNCHANGED <<additionalRetryCount, executor>> PROVE k' = k
  BY <1>s DEF Granted, FellBack
<1>b. ASSUME k' = k PROVE Budget(k)' = Budget(k)
  BY <1>b DEF Budget, Round
<1>c. ASSUME k' = k + 1 PROVE Budget(k)' = Budget(k) + Round
  BY <1>c, <1>k DEF Budget, Round
<1>i. /\ pc \in {"begin", "approve", "loop", "test"}
           => attempts <= Budget(k) + retryCount + answers
      /\ InTurn => attempts <= Budget(k) + retryCount + 1 + answers
      /\ pc \in {"epilogue", "end"} => attempts <= Budget(k) + Round + answers
  BY DEF SpentInv
<1> SUFFICES
      /\ pc' \in {"begin", "approve", "loop", "test"}
           => attempts' <= Budget(k)' + retryCount' + answers'
      /\ InTurn' => attempts' <= Budget(k)' + retryCount' + 1 + answers'
      /\ pc' \in {"epilogue", "end"} => attempts' <= Budget(k)' + Round + answers'
  BY DEF SpentInv, Round
<1> HIDE DEF k
<1> USE RoundType, <1>k, <1>i DEF RoundInv, InTurn, CountersOK, counters
<1>1. CASE UNCHANGED vars
  BY <1>1, <1>s, <1>b DEF vars
<1>2. CASE Begin \/ Approve \/ Blocked \/ LeaveWaiting
  BY <1>2, <1>s, <1>b DEF Begin, Approve, Blocked, LeaveWaiting, Return
<1>3. CASE JoinSession \/ Spawn \/ AnswerSession \/ AnswerRestart
  BY <1>3, <1>s, <1>b DEF JoinSession, SessionOutcome, Spawn, AnswerSession, AnswerRestart
<1>4. CASE Executed
  <2>1. pc = "running" /\ UNCHANGED counters /\ UNCHANGED executor
    BY <1>4, Zenon DEF Executed
  <2>2. pc' \in {"waiting", "end", "validate"}
    BY <1>4 DEF Executed, Return
  <2> QED
    BY <2>1, <2>2, <1>s, <1>b
<1>5. CASE Validate \/ Test \/ TimeIsUp \/ Epilogue
  BY <1>5, <1>s, <1>b DEF Validate, Test, TimeIsUp, Epilogue, Return
<1>6. CASE FallBack
  <2>1. CASE executor = "default"
    BY <1>6, <2>1, <1>s, <1>b DEF FallBack, Return
  <2>2. CASE executor # "default"
    <3>1. executor' = "default" /\ UNCHANGED <<additionalRetryCount, attempts, answers>>
          /\ retryCount' = 0 /\ pc' = "test" /\ pc = "retry"
      BY <1>6, <2>2 DEF FallBack
    <3>2. k' = k + 1
      BY <2>2, <3>1 DEF k, Granted, FellBack, MAX_ADDITIONAL_RETRIES
    <3> QED
      BY <3>1, <3>2, <1>c
  <2> QED
    BY <2>1, <2>2
<1>7. CASE Retry \/ DeclineRound
  BY <1>7, <1>s, <1>b DEF Retry, DeclineRound
<1>8. CASE GrantRound
  <2> USE DEF GrantRound, CapReached, CapInv, MAX_ADDITIONAL_RETRIES
  <2>0. pc = "retry" /\ executor' = executor
    BY <1>8
  <2>1. CASE CapReached
    <3>1. k' = k
      BY <1>8, <2>0, <2>1 DEF k, Granted, FellBack
    <3> QED
      BY <1>8, <2>1, <3>1, <1>b
  <2>2. CASE ~CapReached
    <3>1. k' = k + 1
      BY <1>8, <2>0, <2>2 DEF k, Granted, FellBack
    <3> QED
      BY <1>8, <2>2, <3>1, <1>c
  <2> QED
    BY <2>1, <2>2
<1> QED
  BY <1>1, <1>2, <1>3, <1>4, <1>5, <1>6, <1>7, <1>8
     DEF Next, SystemStep, ChildStep, UserStep

LEMMA InitAttempts == Init => AttemptInv
<1> SUFFICES ASSUME Init PROVE AttemptInv
  OBVIOUS
<1>1. RoundInv
  BY RoundType DEF Init, RoundInv, InTurn
<1>2. CapInv
  BY DEF Init, CapInv, MAX_ADDITIONAL_RETRIES
<1>3. Granted = 0 /\ FellBack \in Nat
  BY DEF Init, Granted, FellBack, MAX_ADDITIONAL_RETRIES
<1>4. Granted + FellBack \in Nat /\ Budget(Granted + FellBack) \in Nat
  BY <1>3, BudgetStep
<1>5. SpentInv
  BY <1>4, RoundType DEF Init, SpentInv, InTurn
<1> QED
  BY <1>1, <1>2, <1>5 DEF AttemptInv

LEMMA BoundFollows == TypeOK /\ AttemptInv => AttemptBound
<1> SUFFICES ASSUME ControlOK, CountersOK, RoundInv, CapInv, SpentInv
             PROVE  AttemptBound
  BY DEF TypeOK, AttemptInv
<1> DEFINE k == Granted + FellBack
<1>1. k \in 0 .. MAX_ADDITIONAL_RETRIES + 1
  BY DEF Granted, FellBack, CountersOK, MAX_ADDITIONAL_RETRIES
<1>2. attempts <= Budget(k) + Round + answers
  BY <1>1, RoundType, BudgetStep
     DEF SpentInv, RoundInv, InTurn, ControlOK, Pc, CountersOK, MAX_ADDITIONAL_RETRIES
<1>3. Budget(k + 1) = Budget(k) + Round /\ Budget(k) \in Nat
  BY <1>1, BudgetStep DEF MAX_ADDITIONAL_RETRIES
<1>4. Budget(k + 1) <= Budget(MAX_ADDITIONAL_RETRIES + 2)
  <2>1. /\ Budget(2) = Budget(1) + Round /\ Budget(3) = Budget(2) + Round
        /\ Budget(4) = Budget(3) + Round /\ Budget(5) = Budget(4) + Round
        /\ \A n \in 1 .. 5 : Budget(n) \in Nat
    BY BudgetStep
  <2>2. k + 1 \in {1, 2, 3, 4, 5}
    BY <1>1 DEF MAX_ADDITIONAL_RETRIES
  <2> QED
    BY <2>1, <2>2, RoundType DEF MAX_ADDITIONAL_RETRIES
<1>5. Budget(MAX_ADDITIONAL_RETRIES + 2) = Round * (MAX_ADDITIONAL_RETRIES + 2)
  BY DEF Budget
<1> HIDE DEF k
<1> QED
  BY <1>1, <1>2, <1>3, <1>4, <1>5, RoundType, BudgetStep
     DEF AttemptBound, CountersOK, MAX_ADDITIONAL_RETRIES

\* Whatever the limits, a call of executeTask starts at most five rounds of
\* attempts and one attempt per answered prompt.
THEOREM AttemptsBounded == Spec => []AttemptBound
<1>1. TypeOK /\ AttemptInv /\ [Next]_vars => AttemptInv'
  BY RoundStep, CapStep, SpentStep DEF AttemptInv
<1> QED
  BY <1>1, InitAttempts, BoundFollows, Typing, PTL DEF Spec

-----------------------------------------------------------------------------
(* A refused round *)

\* After a refusal the call is past the loop, or about to leave it.
DeclineInv ==
  declined => \/ pc \in {"epilogue", "end"}
              \/ pc = "test" /\ retryCount > maxRetries

LEMMA DeclineStep ==
  TypeOK /\ DeclineInv /\ [Next]_vars
    => DeclineInv' /\ (declined => attempts' = attempts)
<1> SUFFICES ASSUME CountersOK, DeclineInv, [Next]_vars
             PROVE  DeclineInv' /\ (declined => attempts' = attempts)
  BY DEF TypeOK
<1> USE DEF DeclineInv, CountersOK, counters
<1>1. CASE UNCHANGED vars
  BY <1>1, Zenon DEF vars
<1>2. CASE DeclineRound
  <2>1. retryCount' > maxRetries /\ pc' = "test" /\ pc = "retry"
    BY <1>2, Beyond DEF DeclineRound
  <2> QED
    BY <2>1, Zenon
<1>3. CASE Test
  <2>1. declined' = declined /\ attempts' = attempts /\ retryCount' = retryCount
    BY <1>3, Zenon DEF Test
  <2>2. pc = "test" /\ (retryCount > maxRetries => pc' = "epilogue")
    BY <1>3, RetryAssumption DEF Test
  <2> QED
    BY <2>1, <2>2
<1>4. CASE Epilogue
  BY <1>4, Zenon DEF Epilogue, Return
<1>5. CASE \/ Begin \/ Approve \/ Blocked \/ JoinSession \/ Spawn \/ Executed
           \/ LeaveWaiting \/ AnswerSession \/ AnswerRestart \/ Validate
           \/ FallBack \/ TimeIsUp \/ Retry \/ GrantRound
  <2>1. pc \notin {"test", "epilogue", "end"}
    <3>1. pc \in {"begin", "approve", "loop", "running", "waiting", "validate",
                  "retry"}
      BY <1>5, Zenon DEF Begin, Approve, Blocked, JoinSession, Spawn, Executed,
            LeaveWaiting, AnswerSession, AnswerRestart, Validate, FallBack,
            TimeIsUp, Retry, GrantRound
    <3> QED
      BY <3>1
  <2>2. declined' = declined
    BY <1>5, Zenon DEF Begin, Approve, Blocked, JoinSession, Spawn, Executed,
          LeaveWaiting, AnswerSession, AnswerRestart, Validate, FallBack,
          TimeIsUp, Retry, GrantRound
  <2> QED
    BY <2>1, <2>2, Zenon
<1> QED
  BY <1>1, <1>2, <1>3, <1>4, <1>5 DEF Next, SystemStep, ChildStep, UserStep

\* A refusal is final, for any limits: no step after it starts an executor.
THEOREM DeclineIsFinal == Spec => DeclineEnds
<1>1. Init => DeclineInv
  BY Zenon DEF Init, DeclineInv
<1>2. TypeOK /\ DeclineInv /\ [Next]_vars
        => DeclineInv' /\ [declined => attempts' = attempts]_vars
  BY DeclineStep, Zenon
<1> QED
  BY <1>1, <1>2, Typing, PTL DEF Spec, DeclineEnds
=============================================================================
