-------------------------- MODULE PlannerStreamProofs --------------------------
(***************************************************************************)
(* What a run may rely on while its plan is asked for, for every setup, and *)
(* for a streamed answer of any number of lines cut into any chunks.        *)
(***************************************************************************)
EXTENDS PlannerStream, SequenceTheorems, TLAPS

-----------------------------------------------------------------------------
(* The inductive invariant of PlannerCall *)

\* The requests one attempt may have cost, by the call and format under way.
Budget == IF format = "json" THEN 2 * call - 1
          ELSE IF call = 3 THEN 5 ELSE 2 * call

\* A first attempt of the internal planner that is not streamed costs at most
\* five requests, everything else is less.
Spent ==
  /\ pc = "start" => attempt = 1
  /\ call = 3 => format = "text"
  /\ ~Internal \/ attempt = 2 => call = 1
  /\ ~Internal => format = "json"
  /\ sent[attempt] <= IF pc = "start" THEN 0 ELSE Budget
  /\ attempt = 1 => sent[2] = 0
  /\ attempt = 2 => sent[1] <= IF Internal THEN 5 ELSE 1

FirstTry == {<<"raw", 1>>, <<"error", 1>>}

\* What is on disk, by how far the attempt has come.
Filed ==
  /\ attempt = 1 => files \subseteq {<<"raw", 1>>}
  /\ attempt = 2 => FirstTry \subseteq files
  /\ pc = "judging" \/ plan = "planner" => <<"raw", attempt>> \in files
  /\ <<"error", 2>> \in files => pc \in {"failed", "planning", "planned", "thrown"}
  /\ plan = "planner" => pc = "planned" /\ <<"error", attempt>> \notin files

\* The last of the events, once there is one.
LastIn(S) == Len(events) # 0 /\ events[Len(events)] \in S

Fail == {"failed", "repair_failed"}

\* What the events say, by where the run has come to.
Told ==
  /\ pc = "start" => events = <<>>
  /\ pc \in {"asking", "deciding", "judging", "refused"} =>
       LastIn({"started"}) /\ Planner # "simple"
  /\ pc = "failed" => LastIn(Fail) /\ Planner # "simple"
  /\ pc = "thrown" => LastIn(Fail) /\ setup.mode = "ai"
  /\ pc = "planning" \/ (pc = "planned" /\ plan = "template" /\ Planner # "simple") =>
       \/ events = <<>>
       \/ LastIn({"fallback"}) /\ setup.mode # "ai" /\ Planner # "simple"
  /\ plan = "planner" => LastIn({"passed"})
  /\ plan = "none" <=> pc # "planned"
  /\ events # <<>> => ~SimpleOnly

\* When the repair is said to have failed, all there was is on disk.
RepairTold ==
  \A i \in 1 .. Len(events) : events[i] = "repair_failed" =>
    /\ files = {"raw", "error"} \X Attempts
    /\ pc \in {"failed", "thrown", "planning", "planned"}

CallInv == TypeOK /\ Spent /\ Filed /\ Told /\ RepairTold

-----------------------------------------------------------------------------
(* The steps of PlannerCall, one part of the invariant at a time *)

USE DEF Attempts, Goto, wire

\* The three ways of Start.
StartsSimple ==
  /\ pc = "start" /\ ~SimpleOnly /\ Planner = "simple"
  /\ events' = <<"started", "passed">>
  /\ plan' = "template" /\ pc' = "planned"
  /\ UNCHANGED <<setup, attempt, wire, answer, files>>

StartsRefused ==
  /\ pc = "start" /\ ~SimpleOnly /\ Planner # "simple"
  /\ Say("started") /\ pc' = "refused"
  /\ UNCHANGED <<setup, attempt, wire, answer, files, plan>>

StartsAsking ==
  /\ pc = "start" /\ ~SimpleOnly /\ Planner # "simple"
  /\ Say("started") /\ Ask(1, 1, "json")
  /\ UNCHANGED <<setup, answer, files, plan>>

\* What only the setup decides does not change with the rest.
LEMMA SetupFixed ==
  ASSUME setup' = setup
  PROVE  /\ Planner' = Planner /\ Internal' = Internal
         /\ SimpleOnly' = SimpleOnly
BY DEF Planner, Internal, SimpleOnly

LEMMA Starts == Start => StartsSimple \/ StartsRefused \/ StartsAsking
BY DEF Start, StartsSimple, StartsRefused, StartsAsking

\* Type correctness.
LEMMA TypeKeeps ==
  ASSUME TypeOK, [Next]_vars
  PROVE  TypeOK'
<1> USE DEF TypeOK, Setup
<1>0. CASE UNCHANGED vars
  BY <1>0 DEF vars
<1>1. CASE Start
  <2>1. CASE StartsSimple
    BY <2>1 DEF StartsSimple
  <2>2. CASE StartsRefused
    BY <2>2 DEF StartsRefused, Say
  <2>3. CASE StartsAsking
    BY <2>3 DEF StartsAsking, Ask, Say
  <2> QED
    BY <1>1, <2>1, <2>2, <2>3, Starts
<1>2. CASE StartSimple
  BY <1>2 DEF StartSimple
<1>3. CASE KeepRaw
  BY <1>3 DEF KeepRaw, GotText
<1>4. CASE AskAgain
  BY <1>4 DEF AskAgain, Ask, ProviderAsksAgain, NextCall, NextFormat, GotText
<1>5. CASE Refused
  BY <1>5 DEF Refused
<1>6. CASE Accept
  BY <1>6 DEF Accept, Say
<1>7. CASE Repair
  BY <1>7 DEF Repair, Ask, KeepError
<1>8. CASE RepairFails
  BY <1>8 DEF RepairFails, KeepError, Say
<1>9. CASE Fails
  BY <1>9 DEF Fails, Say
<1>10. CASE Throw
  BY <1>10 DEF Throw
<1>11. CASE FallBack
  BY <1>11 DEF FallBack, Say
<1>12. CASE SimplePlan
  BY <1>12 DEF SimplePlan
<1>13. CASE TimesOut
  BY <1>13 DEF TimesOut, GiveUp
<1>14. CASE Silent
  BY <1>14 DEF Silent, GiveUp
<1>15. CASE Answer
  BY <1>15 DEF Answer
<1>16. CASE Trickle
  BY <1>16 DEF Trickle
<1> QED
  BY <1>0, <1>1, <1>2, <1>3, <1>4, <1>5, <1>6, <1>7, <1>8, <1>9, <1>10, <1>11, <1>12, <1>13, <1>14, <1>15, <1>16 DEF Next, Program

\* A request is sent for the next call, or for the same one in the next format.
LEMMA SpentKeeps ==
  ASSUME TypeOK, Spent, [Next]_vars
  PROVE  Spent'
<1> USE DEF TypeOK, Setup, Spent, Budget, Internal
<1>0. CASE UNCHANGED vars
  BY <1>0 DEF vars
<1>1. CASE Start
  <2>1. CASE StartsSimple
    BY <2>1 DEF StartsSimple
  <2>2. CASE StartsRefused
    BY <2>2 DEF StartsRefused, Say
  <2>3. CASE StartsAsking
    BY <2>3 DEF StartsAsking, Ask, Say
  <2> QED
    BY <1>1, <2>1, <2>2, <2>3, Starts
<1>2. CASE StartSimple
  BY <1>2 DEF StartSimple
<1>3. CASE KeepRaw
  BY <1>3 DEF KeepRaw, GotText
<1>4. CASE AskAgain
  BY <1>4 DEF AskAgain, Ask, ProviderAsksAgain, NextCall, NextFormat, GotText, Streams
<1>5. CASE Refused
  BY <1>5 DEF Refused
<1>6. CASE Accept
  BY <1>6 DEF Accept, Say
<1>7. CASE Repair
  BY <1>7 DEF Repair, Ask, KeepError
<1>8. CASE RepairFails
  BY <1>8 DEF RepairFails, KeepError, Say
<1>9. CASE Fails
  BY <1>9 DEF Fails, Say
<1>10. CASE Throw
  BY <1>10 DEF Throw
<1>11. CASE FallBack
  BY <1>11 DEF FallBack, Say
<1>12. CASE SimplePlan
  BY <1>12 DEF SimplePlan
<1>13. CASE TimesOut
  BY <1>13 DEF TimesOut, GiveUp
<1>14. CASE Silent
  BY <1>14 DEF Silent, GiveUp
<1>15. CASE Answer
  BY <1>15 DEF Answer
<1>16. CASE Trickle
  BY <1>16 DEF Trickle
<1> QED
  BY <1>0, <1>1, <1>2, <1>3, <1>4, <1>5, <1>6, <1>7, <1>8, <1>9, <1>10, <1>11, <1>12, <1>13, <1>14, <1>15, <1>16 DEF Next, Program

\* What is kept comes before what depends on it: the raw answer before it is
\* judged, both before the repair.
LEMMA FiledKeeps ==
  ASSUME TypeOK, Spent, Filed, [Next]_vars
  PROVE  Filed'
<1> USE DEF TypeOK, Spent, Filed, FirstTry
<1>0. CASE UNCHANGED vars
  BY <1>0 DEF vars
<1>1. CASE Start
  <2>1. CASE StartsSimple
    BY <2>1 DEF StartsSimple
  <2>2. CASE StartsRefused
    BY <2>2 DEF StartsRefused, Say
  <2>3. CASE StartsAsking
    BY <2>3 DEF StartsAsking, Ask, Say
  <2> QED
    BY <1>1, <2>1, <2>2, <2>3, Starts
<1>2. CASE StartSimple
  BY <1>2 DEF StartSimple
<1>3. CASE KeepRaw
  BY <1>3 DEF KeepRaw, GotText
<1>4. CASE AskAgain
  BY <1>4 DEF AskAgain, Ask, ProviderAsksAgain, NextCall, NextFormat, GotText
<1>5. CASE Refused
  BY <1>5 DEF Refused
<1>6. CASE Accept
  BY <1>6 DEF Accept, Say
<1>7. CASE Repair
  BY <1>7 DEF Repair, Ask, KeepError
<1>8. CASE RepairFails
  BY <1>8 DEF RepairFails, KeepError, Say
<1>9. CASE Fails
  BY <1>9 DEF Fails, Say
<1>10. CASE Throw
  BY <1>10 DEF Throw
<1>11. CASE FallBack
  BY <1>11 DEF FallBack, Say
<1>12. CASE SimplePlan
  BY <1>12 DEF SimplePlan
<1>13. CASE TimesOut
  BY <1>13 DEF TimesOut, GiveUp
<1>14. CASE Silent
  BY <1>14 DEF Silent, GiveUp
<1>15. CASE Answer
  BY <1>15 DEF Answer
<1>16. CASE Trickle
  BY <1>16 DEF Trickle
<1> QED
  BY <1>0, <1>1, <1>2, <1>3, <1>4, <1>5, <1>6, <1>7, <1>8, <1>9, <1>10, <1>11, <1>12, <1>13, <1>14, <1>15, <1>16 DEF Next, Program

\* The event goes with the step that decides how planning ends.
LEMMA ToldKeeps ==
  ASSUME TypeOK, Told, [Next]_vars
  PROVE  Told'
<1> USE SetupFixed, AppendProperties DEF TypeOK, Told, LastIn, Fail
<1>0. CASE UNCHANGED vars
  BY <1>0 DEF vars
<1>1. CASE Start
  <2>1. CASE StartsSimple
    BY <2>1 DEF StartsSimple
  <2>2. CASE StartsRefused
    BY <2>2 DEF StartsRefused, Say
  <2>3. CASE StartsAsking
    BY <2>3 DEF StartsAsking, Ask, Say
  <2> QED
    BY <1>1, <2>1, <2>2, <2>3, Starts
<1>2. CASE StartSimple
  BY <1>2 DEF StartSimple
<1>3. CASE KeepRaw
  BY <1>3 DEF KeepRaw, GotText
<1>4. CASE AskAgain
  BY <1>4 DEF AskAgain, Ask, ProviderAsksAgain, NextCall, NextFormat, GotText
<1>5. CASE Refused
  BY <1>5 DEF Refused
<1>6. CASE Accept
  BY <1>6 DEF Accept, Say
<1>7. CASE Repair
  BY <1>7 DEF Repair, Ask, KeepError
<1>8. CASE RepairFails
  BY <1>8 DEF RepairFails, KeepError, Say
<1>9. CASE Fails
  BY <1>9 DEF Fails, Say
<1>10. CASE Throw
  BY <1>10 DEF Throw
<1>11. CASE FallBack
  BY <1>11 DEF FallBack, Say
<1>12. CASE SimplePlan
  BY <1>12 DEF SimplePlan
<1>13. CASE TimesOut
  BY <1>13 DEF TimesOut, GiveUp
<1>14. CASE Silent
  BY <1>14 DEF Silent, GiveUp
<1>15. CASE Answer
  BY <1>15 DEF Answer
<1>16. CASE Trickle
  BY <1>16 DEF Trickle
<1> QED
  BY <1>0, <1>1, <1>2, <1>3, <1>4, <1>5, <1>6, <1>7, <1>8, <1>9, <1>10, <1>11, <1>12, <1>13, <1>14, <1>15, <1>16 DEF Next, Program

\* Only a judged second answer makes the repair fail.
LEMMA RepairToldKeeps ==
  ASSUME TypeOK, Spent, Filed, Told, RepairTold, [Next]_vars
  PROVE  RepairTold'
<1> USE AppendProperties DEF TypeOK, Spent, Filed, FirstTry, RepairTold, Told, LastIn
<1>0. CASE UNCHANGED vars
  BY <1>0 DEF vars
<1>1. CASE Start
  <2>1. CASE StartsSimple
    BY <2>1 DEF StartsSimple
  <2>2. CASE StartsRefused
    BY <2>2 DEF StartsRefused, Say
  <2>3. CASE StartsAsking
    BY <2>3 DEF StartsAsking, Ask, Say
  <2> QED
    BY <1>1, <2>1, <2>2, <2>3, Starts
<1>2. CASE StartSimple
  BY <1>2 DEF StartSimple
<1>3. CASE KeepRaw
  BY <1>3 DEF KeepRaw, GotText
<1>4. CASE AskAgain
  BY <1>4 DEF AskAgain, Ask, ProviderAsksAgain, NextCall, NextFormat, GotText
<1>5. CASE Refused
  BY <1>5 DEF Refused
<1>6. CASE Accept
  BY <1>6 DEF Accept, Say
<1>7. CASE Repair
  BY <1>7 DEF Repair, Ask, KeepError
<1>8. CASE RepairFails
  <2>1. files' = {"raw", "error"} \X Attempts
    BY <1>8 DEF RepairFails, KeepError
  <2> QED
    BY <1>8, <2>1 DEF RepairFails, Say
<1>9. CASE Fails
  BY <1>9 DEF Fails, Say
<1>10. CASE Throw
  BY <1>10 DEF Throw
<1>11. CASE FallBack
  BY <1>11 DEF FallBack, Say
<1>12. CASE SimplePlan
  BY <1>12 DEF SimplePlan
<1>13. CASE TimesOut
  BY <1>13 DEF TimesOut, GiveUp
<1>14. CASE Silent
  BY <1>14 DEF Silent, GiveUp
<1>15. CASE Answer
  BY <1>15 DEF Answer
<1>16. CASE Trickle
  BY <1>16 DEF Trickle
<1> QED
  BY <1>0, <1>1, <1>2, <1>3, <1>4, <1>5, <1>6, <1>7, <1>8, <1>9, <1>10, <1>11, <1>12, <1>13, <1>14, <1>15, <1>16 DEF Next, Program


\* The parts together.
LEMMA CallInitInv == Init => CallInv
<1> SUFFICES ASSUME Init PROVE CallInv
  OBVIOUS
<1>1. TypeOK
  BY DEF Init, TypeOK
<1>2. Spent /\ Filed
  BY DEF Init, Spent, Filed, Setup
<1>3. Told /\ RepairTold
  BY DEF Init, Told, RepairTold
<1> QED
  BY <1>1, <1>2, <1>3 DEF CallInv

LEMMA CallNextInv == CallInv /\ [Next]_vars => CallInv'
BY TypeKeeps, SpentKeeps, FiledKeeps, ToldKeeps, RepairToldKeeps DEF CallInv

LEMMA CallInvariance == Spec => []CallInv
BY CallInitInv, CallNextInv, PTL DEF Spec

-----------------------------------------------------------------------------
(* What CallInv says *)

\* Whatever the provider answers and however often it refuses, no prompt is paid
\* for more than five times in the first attempt and twice in the repair
\* (internal-ai-planner.ts, response-format-fallback.ts).
THEOREM RequestsAreBounded == Spec => []RequestsBounded
<1>1. CallInv => RequestsBounded
  <2> SUFFICES ASSUME CallInv PROVE RequestsBounded
    OBVIOUS
  <2> USE DEF CallInv, TypeOK
  <2>1. sent[1] \in Nat /\ sent[2] \in Nat /\ call \in 1 .. 3
    OBVIOUS
  <2>2. CASE attempt = 1
    BY <2>1, <2>2 DEF Spent, Budget, RequestsBounded
  <2>3. CASE attempt = 2
    BY <2>1, <2>3 DEF Spent, Budget, RequestsBounded
  <2> QED
    BY <2>2, <2>3
<1> QED
  BY <1>1, CallInvariance, PTL

\* An answer that was not accepted is on disk with its reason before the repair
\* is asked for, and both of them before the repair is said to have failed
\* (internal-ai-planner.ts, ai-planner.ts).
THEOREM RejectedAnswersAreKept == Spec => []RejectedIsKept
<1>1. CallInv => RejectedIsKept
  <2> SUFFICES ASSUME CallInv PROVE RejectedIsKept
    OBVIOUS
  <2>1. Happened("repair_failed") => files = {"raw", "error"} \X Attempts
    BY DEF CallInv, TypeOK, RepairTold, Happened
  <2>2. attempt = 2 => {<<"raw", 1>>, <<"error", 1>>} \subseteq files
    BY DEF CallInv, Filed, FirstTry
  <2>3. plan = "planner" => /\ <<"raw", attempt>> \in files
                            /\ <<"error", attempt>> \notin files
    BY DEF CallInv, Filed
  <2> QED
    BY <2>1, <2>2, <2>3 DEF RejectedIsKept
<1> QED
  BY <1>1, CallInvariance, PTL

\* The events of a run say how its planning ended: a plan of the planner, a
\* template instead, or none (executeRun).
THEOREM EventsTellHowItEnded == Spec => []EventsTellPlan
<1>1. CallInv => EventsTellPlan
  <2> SUFFICES ASSUME CallInv, Ended, Asked, Planner # "simple"
               PROVE  CASE plan = "planner"  -> Last = "passed"
                        [] plan = "template" -> Last = "fallback" /\ setup.mode = "auto"
                        [] OTHER             -> /\ Last \in Fail
                                                /\ setup.mode = "ai" /\ pc = "thrown"
    BY DEF EventsTellPlan, Fail
  <2>1. events # <<>>
    BY DEF Asked, Happened
  <2>2. setup.mode \in {"simple", "ai", "auto"} /\ setup.mode # "simple"
    BY <2>1 DEF CallInv, Told, SimpleOnly, TypeOK, Setup
  <2>3. plan \in {"none", "planner", "template"}
    BY DEF CallInv, TypeOK
  <2>4. CASE plan = "planner"
    BY <2>4 DEF CallInv, Told, LastIn, Last
  <2>5. CASE plan = "template"
    <3>1. LastIn({"fallback"}) /\ setup.mode # "ai"
      BY <2>1, <2>5 DEF CallInv, Told
    <3> QED
      BY <2>2, <2>5, <3>1 DEF LastIn, Last
  <2>6. CASE plan = "none"
    <3>1. pc = "thrown"
      BY <2>6 DEF CallInv, Told, Ended
    <3>2. LastIn(Fail) /\ setup.mode = "ai"
      BY <3>1 DEF CallInv, Told
    <3> QED
      BY <2>6, <3>1, <3>2 DEF LastIn, Last
  <2> QED
    BY <2>3, <2>4, <2>5, <2>6
<1> QED
  BY <1>1, CallInvariance, PTL

-----------------------------------------------------------------------------
(* The steps of PlannerStream *)

\* What a streamed request does to the call is a step of PlannerCall, or
\* nothing.
LEMMA StreamStepsAreSteps == [StreamNext]_all => [Next]_vars
<1> SUFFICES ASSUME StreamNext \/ UNCHANGED all PROVE [Next]_vars
  OBVIOUS
<1>1. CASE UNCHANGED all
  BY <1>1 DEF all
<1>2. CASE Program \/ Answer \/ Trickle
  BY <1>2 DEF Next
<1>3. CASE UNCHANGED vars
  BY <1>3
<1>4. CASE Silent \/ TimesOut
  BY <1>4 DEF Next, Program
<1> QED
  BY <1>1, <1>2, <1>3, <1>4
  DEF StreamNext, StreamProgram, Waits, StreamTimesOut, StreamParses,
      StreamReturns, StreamFails, StreamRefused, StreamBegins

\* The planner with its first answer streamed implements the planner that takes
\* an answer in one step, so all that is proved of the one holds of the other.
THEOREM StreamImplementsCall == StreamSpec => Spec
<1>1. StreamInit => Init
  BY DEF StreamInit
<1> QED
  BY <1>1, StreamStepsAreSteps, PTL DEF StreamSpec, Spec

\* A step of PlannerStream is a step of its stream, or leaves it alone.
LEMMA StreamStepsAreStreams == [StreamNext]_all => [Stream!Next]_(Stream!vars)
<1> SUFFICES ASSUME StreamNext \/ UNCHANGED all PROVE [Stream!Next]_(Stream!vars)
  OBVIOUS
<1>1. CASE UNCHANGED stream
  BY <1>1 DEF stream, Stream!vars, Stream!connection, Stream!parser
<1>2. CASE Stream!Open \/ Stream!Leave \/ Writer \/ Stream!Parser
  BY <1>2 DEF Stream!Next, Writer
<1> QED
  BY <1>1, <1>2
  DEF StreamNext, StreamProgram, Waits, StreamTimesOut, StreamParses, Writer,
      StreamReturns, StreamFails, StreamRefused, StreamBegins, Unstreamed, all

\* The request is a ProviderStream, whatever the planner does around it.
THEOREM RequestIsAStream == StreamSpec => Stream!Spec
<1>1. StreamInit => Stream!Init
  BY DEF StreamInit
<1> QED
  BY <1>1, StreamStepsAreStreams, PTL DEF StreamSpec, Stream!Spec

-----------------------------------------------------------------------------
(* Runs of parts *)

\* n parts that follow one another, after a given one.
Run(from, n) == [k \in 1 .. n |-> from + k]

\* What SubSeq and \o do to them.
LEMMA RunIsSeq ==
  ASSUME NEW a \in Nat, NEW n \in Nat
  PROVE  Run(a, n) \in Seq(a + 1 .. a + n) /\ Len(Run(a, n)) = n
BY DEF Run

LEMMA RunsJoin ==
  ASSUME NEW a \in Nat, NEW m \in Nat, NEW n \in Nat
  PROVE  Run(a, m) \o Run(a + m, n) = Run(a, m + n)
BY DEF Run

LEMMA RunIsCut ==
  ASSUME NEW a \in Nat, NEW n \in Nat, NEW m \in Nat, m <= n
  PROVE  /\ SubSeq(Run(a, n), 1, m) = Run(a, m)
         /\ SubSeq(Run(a, n), m + 1, n) = Run(a + m, n - m)
BY DEF Run

\* The largest and the smallest of a set that has one.
LEMMA MaxIs ==
  ASSUME NEW S \in SUBSET Int, NEW x \in S, \A y \in S : y <= x
  PROVE  Stream!Max(S) = x
<1>1. \E z \in S : \A y \in S : z >= y
  OBVIOUS
<1>2. Stream!Max(S) \in S /\ \A y \in S : Stream!Max(S) >= y
  BY <1>1, Zenon DEF Stream!Max
<1>3. Stream!Max(S) \in Int /\ x \in Int
  BY <1>2
<1>4. Stream!Max(S) <= x /\ x <= Stream!Max(S)
  BY <1>2
<1> QED
  BY <1>3, <1>4

LEMMA MinIs ==
  ASSUME NEW S \in SUBSET Int, NEW x \in S, \A y \in S : x <= y
  PROVE  Stream!Min(S) = x
<1>1. \E z \in S : \A y \in S : z =< y
  OBVIOUS
<1>2. Stream!Min(S) \in S /\ \A y \in S : Stream!Min(S) =< y
  BY <1>1, Zenon DEF Stream!Min
<1>3. Stream!Min(S) \in Int /\ x \in Int
  BY <1>2
<1>4. Stream!Min(S) <= x /\ x <= Stream!Min(S)
  BY <1>2
<1> QED
  BY <1>3, <1>4

\* Where the newlines are in parts that begin with a line.
LEMMA RunNewlines ==
  ASSUME NEW L \in Nat, NEW n \in Nat
  PROVE  Stream!Newlines(Run(2 * L, n)) = {i \in 1 .. n : i % 2 = 0}
BY DEF Run, Stream!Newlines

LEMMA LastNewlineIs ==
  ASSUME NEW L \in Nat, NEW n \in Nat
  PROVE  Stream!LastNewline(Run(2 * L, n)) = n - (n % 2)
<1> DEFINE S == {i \in 1 .. n : i % 2 = 0} \cup {0}
<1>1. n - (n % 2) \in S /\ \A y \in S : y <= n - (n % 2)
  OBVIOUS
<1>2. S \in SUBSET Int
  OBVIOUS
<1> HIDE DEF S
<1>3. Stream!Max(S) = n - (n % 2)
  BY <1>1, <1>2, MaxIs
<1> QED
  BY <1>3, RunNewlines DEF Stream!LastNewline, S

-----------------------------------------------------------------------------
(* The inductive invariant of the parser *)

\* The parser has looked at L lines: what it still holds are the parts that
\* follow, those of the whole lines of the chunk and of one that has begun.
Cut(L) ==
  /\ lines = Run(2 * L, Len(lines)) /\ Len(lines) % 2 = 0
  /\ buffer = Run(2 * L + Len(lines), Len(buffer)) /\ Len(buffer) \in {0, 1}
  /\ got = 2 * L + Len(lines) + Len(buffer)
  /\ net = "closed" => arrives >= got
  /\ reader \in {"off", "reading"} => lines = <<>>
  /\ reader = "parsing" => lines # <<>>

Piece(i) == written[i].read /\ written[i].piece

\* The text is the pieces of these lines.
TextOf(L) ==
  /\ \A m, n \in DOMAIN text : m < n => text[m] < text[n]
  /\ \A n \in DOMAIN text : text[n] \in 1 .. L /\ Piece(text[n])
  /\ \A i \in 1 .. L : Piece(i) => \E n \in DOMAIN text : text[n] = i

\* None of them says the end, but the last one when the call returns.
Unsaid(L) ==
  /\ \A i \in 1 .. L : Stream!Says(i) => reader = "returned" /\ i = L
  /\ reader = "returned" => \/ L # 0 /\ Stream!Says(L)
                            \/ got \in {2 * L, 2 * L + 1}

LookedAt(L) == Cut(L) /\ TextOf(L) /\ Unsaid(L)

ParserInv == Stream!TypeOK /\ \E L \in 0 .. Len(written) : LookedAt(L)

\* Initially no line was looked at.
LEMMA ParserInit == Stream!Init => ParserInv
<1> SUFFICES ASSUME Stream!Init PROVE ParserInv
  OBVIOUS
<1>1. Stream!TypeOK
  BY StreamAssumption DEF Stream!Init, Stream!TypeOK
<1>2. LookedAt(0)
  BY DEF Stream!Init, LookedAt, Cut, Run, TextOf, Unsaid
<1> QED
  BY <1>1, <1>2 DEF ParserInv, Stream!Init

\* scanLines cuts the parts it has into whole lines and at most one part more.
LEMMA ReadKeeps ==
  ASSUME ParserInv, Stream!Read
  PROVE  ParserInv'
<1>1. PICK L \in 0 .. Len(written) : LookedAt(L)
  BY DEF ParserInv
<1>2. PICK last \in got + 1 .. Stream!LastPart :
        LET parts == buffer \o [i \in 1 .. last - got |-> got + i]
        IN  /\ got' = last
            /\ lines' = Stream!ScannedLines(parts)
            /\ buffer' = Stream!Remaining(parts)
            /\ Stream!Goto(Stream!ScannedLines(parts))
  BY DEF Stream!Read
<1>3. /\ reader = "reading" /\ net \in {"open", "closed"}
      /\ UNCHANGED <<kind, net, written, closes, arrives, text>>
  BY DEF Stream!Read, Stream!connection
<1>4. /\ got \in Nat /\ arrives \in 0 .. 2 * Len(written)
      /\ Len(written) \in Nat /\ L \in Nat /\ last \in Nat
      /\ Len(buffer) \in Nat
  BY <1>2, <1>3 DEF ParserInv, Stream!TypeOK, Stream!LastPart
<1>5. lines = <<>> /\ Len(lines) = 0 /\ got = 2 * L + Len(buffer)
  BY <1>1, <1>3 DEF LookedAt, Cut
<1>6. last > got /\ last <= 2 * Len(written) /\ (net = "closed" => last <= arrives)
  BY <1>2, <1>3, <1>4 DEF Stream!LastPart
<1> DEFINE A == 2 * L
           N == last - A
           W == N - (N % 2)
           parts == buffer \o [i \in 1 .. last - got |-> got + i]
<1>7. N \in Nat /\ N # 0 /\ Len(buffer) + (last - got) = N /\ last - got \in Nat
  BY <1>4, <1>5, <1>6
<1>8. /\ A \in Nat /\ N % 2 \in {0, 1}
      /\ W \in Nat /\ W <= N /\ A + W \in Nat /\ W % 2 = 0 /\ N = W + (N % 2)
  BY <1>4, <1>7
<1>9. parts = Run(A, N)
  <2>1. buffer = Run(A, Len(buffer))
    BY <1>1, <1>5 DEF LookedAt, Cut
  <2>2. [i \in 1 .. last - got |-> got + i] = Run(A + Len(buffer), last - got)
    BY <1>5 DEF Run
  <2>3. Run(A, Len(buffer)) \o Run(A + Len(buffer), last - got)
          = Run(A, Len(buffer) + (last - got))
    <3> HIDE DEF A
    <3>1. A \in Nat /\ Len(buffer) \in Nat /\ last - got \in Nat
      BY <1>4, <1>7, <1>8
    <3> QED
      BY <3>1, RunsJoin, Zenon
  <2> QED
    BY <2>1, <2>2, <2>3, <1>7
<1> HIDE DEF parts, N, A
<1>10. Stream!LastNewline(parts) = W /\ Len(parts) = N
  BY <1>4, <1>7, <1>8, <1>9, LastNewlineIs, RunIsSeq DEF A
<1> HIDE DEF W
<1>11. lines' = Run(A, W)
  <2>1. lines' = SubSeq(Run(A, N), 1, W)
    BY <1>2, <1>9, <1>10 DEF parts, Stream!ScannedLines
  <2>2. SubSeq(Run(A, N), 1, W) = Run(A, W)
    <3>1. A \in Nat /\ N \in Nat /\ W \in Nat /\ W <= N
      BY <1>7, <1>8
    <3> QED
      BY <3>1, RunIsCut, Zenon
  <2> QED
    BY <2>1, <2>2, <1>8
<1>12. buffer' = Run(A + W, N % 2)
  <2>1. buffer' = SubSeq(Run(A, N), W + 1, N)
    BY <1>2, <1>9, <1>10 DEF parts, Stream!Remaining
  <2>2. SubSeq(Run(A, N), W + 1, N) = Run(A + W, N - W)
    <3>1. A \in Nat /\ N \in Nat /\ W \in Nat /\ W <= N
      BY <1>7, <1>8
    <3> QED
      BY <3>1, RunIsCut, Zenon
  <2>3. N - W = N % 2
    BY <1>7, <1>8
  <2> QED
    BY <2>1, <2>2, <2>3
<1>13. Len(lines') = W /\ Len(buffer') = N % 2
  BY <1>11, <1>12, <1>8, RunIsSeq
<1>14. reader' = IF lines' = <<>> THEN "reading" ELSE "parsing"
  BY <1>2 DEF Stream!Goto
<1>15. got' = A + N
  BY <1>2, <1>4 DEF N, A
<1>16. Cut(L)'
  <2>1. (net = "closed" => arrives >= got)'
    BY <1>2, <1>3, <1>4, <1>6
  <2>2. lines' = Run(2 * L, Len(lines'))
    BY <1>11, <1>13 DEF A
  <2>3. buffer' = Run(2 * L + Len(lines'), Len(buffer'))
    BY <1>12, <1>13 DEF A
  <2>4. got' = 2 * L + Len(lines') + Len(buffer')
    BY <1>7, <1>8, <1>13, <1>15 DEF A
  <2> QED
    BY <1>8, <1>13, <1>14, <2>1, <2>2, <2>3, <2>4 DEF Cut
<1>17. TextOf(L)' /\ Unsaid(L)'
  BY <1>1, <1>3, <1>14 DEF LookedAt, TextOf, Unsaid, Piece, Stream!Says
<1>18. Stream!TypeOK'
  <2>1. lines' \in Seq(1 .. got') /\ buffer' \in Seq(1 .. got')
    BY <1>4, <1>7, <1>8, <1>11, <1>12, <1>15 DEF Run, A
  <2>2. got' \in 0 .. 2 * Len(written)
    BY <1>2, <1>4, <1>6
  <2> QED
    BY <1>3, <1>14, <2>1, <2>2 DEF ParserInv, Stream!TypeOK
<1> QED
  BY <1>3, <1>16, <1>17, <1>18 DEF ParserInv, LookedAt

\* The next line is two parts.
LEMMA FirstNewlineIs ==
  ASSUME NEW L \in Nat, NEW n \in Nat, n >= 2, lines = Run(2 * L, n)
  PROVE  Stream!FirstNewline = 2
<1> DEFINE S == {i \in 1 .. n : i % 2 = 0}
<1>1. S \in SUBSET Int /\ 2 \in S /\ \A y \in S : 2 <= y
  OBVIOUS
<1> HIDE DEF S
<1>2. Stream!Min(S) = 2
  BY <1>1, MinIs
<1> QED
  BY <1>2, RunNewlines DEF Stream!FirstNewline, S

\* The for loop takes the line that follows those it has looked at.
LEMMA ParseKeeps ==
  ASSUME ParserInv, Stream!Parse
  PROVE  ParserInv'
<1>1. PICK L \in 0 .. Len(written) : LookedAt(L)
  BY DEF ParserInv
<1>2. /\ L \in Nat /\ 2 * L \in Nat /\ Len(written) \in Nat /\ got \in Nat
      /\ Len(lines) \in Nat /\ Len(buffer) \in Nat
      /\ got <= 2 * Len(written)
  BY DEF ParserInv, Stream!TypeOK
<1>3. /\ reader = "parsing"
      /\ UNCHANGED <<kind, net, written, closes, arrives, got, buffer>>
  BY DEF Stream!Parse, Stream!connection
<1> DEFINE q == Len(lines)
<1>4. /\ q \in Nat /\ q >= 2 /\ q - 2 \in Nat /\ (q - 2) % 2 = 0 /\ q % 2 = 0
  <2>1. q # 0
    BY <1>1, <1>3 DEF LookedAt, Cut, ParserInv, Stream!TypeOK
  <2> QED
    BY <2>1, <1>1, <1>2 DEF LookedAt, Cut
<1>5. lines = Run(2 * L, q)
  BY <1>1 DEF LookedAt, Cut
<1>6. L + 1 \in 1 .. Len(written)
  BY <1>1, <1>2, <1>4 DEF LookedAt, Cut
<1> HIDE DEF q
<1>7. Stream!FirstNewline = 2
  BY <1>2, <1>4, <1>5, FirstNewlineIs
<1>8. Stream!NextLine = Run(2 * L, 2)
  <2>1. SubSeq(Run(2 * L, q), 1, 2) = Run(2 * L, 2)
    <3>1. 2 * L \in Nat /\ q \in Nat /\ 2 \in Nat /\ 2 <= q
      BY <1>2, <1>4
    <3> QED
      BY <3>1, RunIsCut, Zenon
  <2> QED
    BY <2>1, <1>5, <1>7 DEF Stream!NextLine
<1>9. Stream!OtherLines = Run(2 * L + 2, q - 2)
  <2>1. SubSeq(Run(2 * L, q), 2 + 1, q) = Run(2 * L + 2, q - 2)
    <3>1. 2 * L \in Nat /\ q \in Nat /\ 2 \in Nat /\ 2 <= q
      BY <1>2, <1>4
    <3> QED
      BY <3>1, RunIsCut, Zenon
  <2> QED
    BY <2>1, <1>5, <1>7 DEF Stream!OtherLines, q
<1>10. Stream!LineOf(Stream!NextLine) = IF written[L + 1].read THEN L + 1 ELSE 0
  <2>1. Head(Stream!NextLine) = 2 * L + 1 /\ (2 * L + 1) \div 2 = L
    BY <1>2, <1>8 DEF Run
  <2>2. Run(2 * L, 2) = <<2 * (L + 1) - 1, 2 * (L + 1)>>
    BY <1>2 DEF Run
  <2> QED
    BY <1>2, <1>8, <2>1, <2>2 DEF Stream!LineOf
<1>11. /\ lines' = Run(2 * (L + 1), q - 2)
       /\ text' = IF Piece(L + 1) THEN Append(text, L + 1) ELSE text
       /\ reader' = IF Stream!Says(L + 1) THEN "returned"
                    ELSE IF lines' = <<>> THEN "reading" ELSE "parsing"
  <2>1. 2 * L + 2 = 2 * (L + 1) /\ L + 1 # 0
    BY <1>2
  <2> QED
    BY <1>9, <1>10, <2>1
    DEF Stream!Parse, Stream!Goto, Piece, Stream!Says
<1>12. Len(lines') = q - 2
  <2>1. 2 * (L + 1) \in Nat /\ q - 2 \in Nat
    BY <1>2, <1>4
  <2>2. Len(Run(2 * (L + 1), q - 2)) = q - 2
    BY <2>1, RunIsSeq, Zenon
  <2> QED
    BY <1>11, <2>2
<1>13. Cut(L + 1)'
  <2>1. lines' = Run(2 * (L + 1), Len(lines'))
    BY <1>11, <1>12
  <2>2. 2 * (L + 1) + Len(lines') = 2 * L + q
    BY <1>2, <1>4, <1>12
  <2> QED
    BY <1>1, <1>2, <1>3, <1>4, <1>11, <1>12, <2>1, <2>2 DEF LookedAt, Cut, q
<1>14. Unsaid(L + 1)'
  BY <1>1, <1>2, <1>3, <1>11 DEF LookedAt, Unsaid, Stream!Says
<1>15. TextOf(L + 1)' /\ text' \in Seq(1 .. Len(written))
  <2>1. text \in Seq(1 .. Len(written)) /\ TextOf(L)
    BY <1>1 DEF ParserInv, Stream!TypeOK, LookedAt
  <2>2. \A i \in 1 .. L + 1 : i \in 1 .. L \/ i = L + 1
    BY <1>2
  <2>3. \A i : Piece(i)' <=> Piece(i)
    BY <1>3 DEF Piece
  <2>4. CASE ~Piece(L + 1)
    <3>1. text' = text
      BY <1>11, <2>4
    <3> QED
      BY <1>2, <2>1, <2>2, <2>3, <2>4, <3>1 DEF TextOf
  <2>5. CASE Piece(L + 1)
    <3>1. text' = Append(text, L + 1)
      BY <1>11, <2>5
    <3>2. /\ text' \in Seq(1 .. Len(written))
          /\ DOMAIN text' = 1 .. Len(text) + 1
          /\ \A n \in DOMAIN text : text'[n] = text[n]
          /\ text'[Len(text) + 1] = L + 1
          /\ DOMAIN text = 1 .. Len(text) /\ Len(text) \in Nat
      BY <1>6, <2>1, <3>1, AppendProperties
    <3>3. \A n \in DOMAIN text' : n \in DOMAIN text \/ n = Len(text) + 1
      BY <3>2
    <3>4. \A n \in DOMAIN text' : text'[n] \in 1 .. L + 1 /\ Piece(text'[n])
      <4> SUFFICES ASSUME NEW n \in DOMAIN text'
                   PROVE  text'[n] \in 1 .. L + 1 /\ Piece(text'[n])
        OBVIOUS
      <4>1. CASE n \in DOMAIN text
        <5>1. text'[n] = text[n] /\ text[n] \in 1 .. L /\ Piece(text[n])
          BY <2>1, <3>2, <4>1 DEF TextOf
        <5> QED
          BY <1>2, <5>1
      <4>2. CASE n = Len(text) + 1
        BY <1>2, <2>5, <3>2, <4>2
      <4> QED
        BY <3>3, <4>1, <4>2
    <3>5. \A m, n \in DOMAIN text' : m < n => text'[m] < text'[n]
      <4> SUFFICES ASSUME NEW m \in DOMAIN text', NEW n \in DOMAIN text', m < n
                   PROVE  text'[m] < text'[n]
        OBVIOUS
      <4>1. m \in DOMAIN text
        BY <3>2
      <4>2. CASE n \in DOMAIN text
        BY <2>1, <3>2, <4>1, <4>2 DEF TextOf
      <4>3. CASE n = Len(text) + 1
        BY <1>2, <2>1, <3>2, <4>1, <4>3 DEF TextOf
      <4> QED
        BY <3>3, <4>2, <4>3
    <3>6. \A i \in 1 .. L + 1 : Piece(i) => \E n \in DOMAIN text' : text'[n] = i
      <4> SUFFICES ASSUME NEW i \in 1 .. L + 1, Piece(i)
                   PROVE  \E n \in DOMAIN text' : text'[n] = i
        OBVIOUS
      <4>1. CASE i \in 1 .. L
        BY <2>1, <3>2, <4>1 DEF TextOf
      <4>2. CASE i = L + 1
        BY <3>2, <4>2
      <4> QED
        BY <2>2, <4>1, <4>2
    <3> QED
      BY <2>3, <3>2, <3>4, <3>5, <3>6 DEF TextOf
  <2> QED
    BY <2>4, <2>5
<1>16. Stream!TypeOK'
  <2>1. lines' \in Seq(2 * (L + 1) + 1 .. 2 * (L + 1) + (q - 2))
    BY <1>2, <1>4, <1>11 DEF Run
  <2>2. 2 * L + q <= got
    BY <1>1, <1>2 DEF LookedAt, Cut, q
  <2>3. lines' \in Seq(1 .. got)
    BY <1>2, <1>4, <2>1, <2>2
  <2> QED
    BY <1>3, <1>11, <1>15, <2>3 DEF ParserInv, Stream!TypeOK
<1>17. L + 1 \in 0 .. Len(written')
  BY <1>2, <1>3, <1>6
<1> QED
  BY <1>13, <1>14, <1>15, <1>16, <1>17 DEF ParserInv, LookedAt

\* What the provider writes comes after what was read.
LEMMA WriteKeeps ==
  ASSUME ParserInv, Stream!Write
  PROVE  ParserInv'
<1>1. PICK L \in 0 .. Len(written) : LookedAt(L)
  BY DEF ParserInv
<1>2. PICK line \in Stream!Line :
        /\ written' = Append(written, line)
        /\ closes' \in IF line.piece /\ closes = 0
                       THEN {0, Len(written')} ELSE {closes}
  BY DEF Stream!Write
<1>3. /\ Len(written) < MaxLines
      /\ UNCHANGED <<kind, net, arrives, got, buffer, lines, text, reader>>
  BY DEF Stream!Write, Stream!parser
<1>4. /\ written \in Seq(Stream!Line) /\ Len(written) \in Nat
      /\ written' \in Seq(Stream!Line) /\ Len(written') = Len(written) + 1
      /\ \A i \in 1 .. Len(written) : written'[i] = written[i]
  BY <1>2, AppendProperties DEF ParserInv, Stream!TypeOK
<1>5. Stream!TypeOK'
  <2>1. closes' \in 0 .. Len(written') /\ Len(written') <= MaxLines
    BY <1>2, <1>3, <1>4, StreamAssumption DEF ParserInv, Stream!TypeOK
  <2>2. text' \in Seq(1 .. Len(written'))
    BY <1>3, <1>4 DEF ParserInv, Stream!TypeOK
  <2>3. got' \in 0 .. 2 * Len(written') /\ arrives' \in 0 .. 2 * Len(written')
    BY <1>3, <1>4 DEF ParserInv, Stream!TypeOK
  <2> QED
    BY <1>3, <1>4, <2>1, <2>2, <2>3 DEF ParserInv, Stream!TypeOK
<1>6. LookedAt(L)'
  <2>1. Cut(L)'
    BY <1>1, <1>3 DEF LookedAt, Cut
  <2>2. TextOf(L)' /\ Unsaid(L)'
    BY <1>1, <1>3, <1>4 DEF LookedAt, TextOf, Unsaid, Piece, Stream!Says
  <2> QED
    BY <2>1, <2>2 DEF LookedAt
<1> QED
  BY <1>4, <1>5, <1>6 DEF ParserInv

\* Steps that leave the lines and what the parser holds as they are.
LEMMA QuietKeeps ==
  ASSUME NEW L \in 0 .. Len(written), LookedAt(L),
         UNCHANGED <<written, got, buffer, lines, text>>,
         net' = "closed" => arrives' >= got,
         reader' = reader \/ reader \in {"off", "reading"},
         reader' \in {"off", "parsing"} => reader' = reader,
         reader' = "returned" => reader' = reader \/ got \in {2 * L, 2 * L + 1}
  PROVE  LookedAt(L)'
<1>1. Cut(L)'
  BY DEF LookedAt, Cut
<1>2. TextOf(L)'
  BY DEF LookedAt, TextOf, Piece
<1>3. Unsaid(L)'
  BY DEF LookedAt, Unsaid, Stream!Says
<1> QED
  BY <1>1, <1>2, <1>3 DEF LookedAt

\* The connection, and the reader of its body.
LEMMA QuietSteps ==
  ASSUME ParserInv,
         \/ Stream!Open \/ Stream!Close \/ Stream!Break
         \/ Stream!EndOfBody \/ Stream!ReadFails
  PROVE  ParserInv'
<1>1. PICK L \in 0 .. Len(written) : LookedAt(L)
  BY DEF ParserInv
<1>2. UNCHANGED <<kind, written, got, buffer, lines, text>>
  BY DEF Stream!Open, Stream!Close, Stream!Break, Stream!EndOfBody,
         Stream!ReadFails, Stream!connection, Stream!parser
<1>3. Stream!TypeOK'
  BY <1>2 DEF ParserInv, Stream!TypeOK, Stream!Open, Stream!Close, Stream!Break,
     Stream!EndOfBody, Stream!ReadFails, Stream!connection, Stream!parser
<1>4. net' = "closed" => arrives' >= got
  BY <1>1 DEF ParserInv, Stream!TypeOK, LookedAt, Cut, Stream!Open, Stream!Close,
     Stream!Break, Stream!EndOfBody, Stream!ReadFails, Stream!connection
<1>5. /\ reader' = reader \/ reader \in {"off", "reading"}
      /\ reader' \in {"off", "parsing"} => reader' = reader
      /\ reader' = "returned" => reader' = reader \/ reader = "reading"
  BY DEF Stream!Open, Stream!Close, Stream!Break, Stream!EndOfBody,
         Stream!ReadFails, Stream!connection, Stream!parser
<1>6. reader = "reading" => got \in {2 * L, 2 * L + 1}
  <2> SUFFICES ASSUME reader = "reading" PROVE got \in {2 * L, 2 * L + 1}
    OBVIOUS
  <2>1. lines = <<>> /\ Len(buffer) \in {0, 1} /\ got = 2 * L + Len(lines) + Len(buffer)
    BY <1>1 DEF LookedAt, Cut
  <2>2. Len(lines) = 0 /\ L \in Nat
    BY <2>1
  <2>3. got = 2 * L + Len(buffer)
    BY <2>1, <2>2
  <2>4. CASE Len(buffer) = 0
    BY <2>2, <2>3, <2>4
  <2>5. CASE Len(buffer) = 1
    BY <2>2, <2>3, <2>5
  <2> QED
    BY <2>1, <2>4, <2>5
<1> QED
  BY <1>1, <1>2, <1>3, <1>4, <1>5, <1>6, QuietKeeps DEF ParserInv

\* Every step of a stream.
LEMMA ParserNext == ParserInv /\ [Stream!Next]_(Stream!vars) => ParserInv'
<1> SUFFICES ASSUME ParserInv, [Stream!Next]_(Stream!vars) PROVE ParserInv'
  OBVIOUS
<1>1. CASE UNCHANGED Stream!vars
  <2> USE <1>1 DEF Stream!vars, Stream!connection, Stream!parser
  <2>1. PICK L \in 0 .. Len(written) : LookedAt(L)
    BY DEF ParserInv
  <2>2. LookedAt(L)'
    BY <2>1, QuietKeeps DEF LookedAt, Cut
  <2> QED
    BY <2>1, <2>2 DEF ParserInv, Stream!TypeOK
<1>2. CASE Stream!Leave
  <2>1. /\ written' = <<>> /\ closes' = 0 /\ arrives' = 0 /\ got' = 0
        /\ buffer' = <<>> /\ lines' = <<>> /\ text' = <<>>
        /\ reader' = "off" /\ net' = "none" /\ kind' = kind
    BY <1>2 DEF Stream!Leave
  <2>2. Stream!TypeOK'
    BY <2>1, StreamAssumption DEF ParserInv, Stream!TypeOK
  <2>3. LookedAt(0)'
    BY <2>1 DEF LookedAt, Cut, Run, TextOf, Unsaid
  <2> QED
    BY <2>1, <2>2, <2>3 DEF ParserInv
<1> QED
  BY <1>1, <1>2, QuietSteps, ReadKeeps, ParseKeeps, WriteKeeps
  DEF Stream!Next, Stream!Parser

\* However lines are written and cut into chunks.
LEMMA ParserInvariance == Stream!Spec => []ParserInv
BY ParserInit, ParserNext, PTL DEF Stream!Spec

-----------------------------------------------------------------------------
(* What the text is *)

\* The pieces of the lines that count are a longer text, but when the call
\* returns, which it does at the end or at a line that says so.
LEMMA TextFollowsLines == ParserInv => Stream!TextIsOfLines
<1> SUFFICES ASSUME ParserInv PROVE Stream!TextIsOfLines
  OBVIOUS
<1>1. PICK L \in 0 .. Len(written) : LookedAt(L)
  BY DEF ParserInv
<1>2. L \in Nat /\ got \in Nat /\ 2 * L <= got /\ got \div 2 \in Nat
  <2>1. Len(lines) \in Nat /\ Len(buffer) \in Nat /\ got \in Nat /\ L \in Nat
    BY DEF ParserInv, Stream!TypeOK
  <2> QED
    BY <2>1, <1>1 DEF LookedAt, Cut
<1>3. L <= got \div 2
  BY <1>2
<1>4. \A i \in 1 .. L : i \in Stream!Counted
  BY <1>1, <1>2, <1>3 DEF LookedAt, Unsaid, Stream!Counted
<1>5. \A m, n \in DOMAIN text : m < n => text[m] < text[n]
  BY <1>1 DEF LookedAt, TextOf
<1>6. Stream!Range(text) \subseteq Stream!Pieces
  BY <1>1, <1>4 DEF LookedAt, TextOf, Piece, Stream!Range, Stream!Pieces
<1>7. ASSUME NEW i \in Stream!Pieces \ Stream!Range(text)
      PROVE  reader # "returned" /\ \A n \in DOMAIN text : text[n] < i
  <2>1. i \in 1 .. got \div 2 /\ Piece(i) /\ \A j \in 1 .. i - 1 : ~Stream!Says(j)
    BY <1>7 DEF Stream!Pieces, Stream!Counted, Piece
  <2>2. i \notin 1 .. L
    BY <1>1, <1>7, <2>1 DEF LookedAt, TextOf, Stream!Range
  <2>3. i > L /\ i \in Nat
    BY <1>2, <2>1, <2>2
  <2>4. \A n \in DOMAIN text : text[n] < i
    BY <1>1, <1>2, <2>3 DEF LookedAt, TextOf
  <2>5. ASSUME reader = "returned" PROVE FALSE
    <3>1. CASE L # 0 /\ Stream!Says(L)
      <4>1. L \in 1 .. i - 1
        BY <1>2, <2>3, <3>1
      <4> QED
        BY <2>1, <3>1, <4>1
    <3>2. CASE got \in {2 * L, 2 * L + 1}
      <4>1. got \div 2 = L
        BY <1>2, <3>2
      <4> QED
        BY <2>1, <2>2, <4>1
    <3> QED
      BY <1>1, <2>5, <3>1, <3>2 DEF LookedAt, Unsaid
  <2> QED
    BY <2>4, <2>5
<1> QED
  BY <1>5, <1>6, <1>7 DEF Stream!TextIsOfLines

-----------------------------------------------------------------------------
(* The streamed answer and the plan *)
\* A text that lacks a piece of the plan is taken for no plan.
LackingIsProse ==
  lacks /\ Streams => /\ plan # "planner"
                      /\ pc \in {"deciding", "judging"} => answer # "plan"

\* A text that holds the closing piece holds those before it.
LEMMA ReturnsWhole ==
  ASSUME ParserInv, reader = "returned", Taken(closes)
  PROVE  ~Lacking
<1> SUFFICES ASSUME NEW i \in 1 .. closes, written[i].piece, written[i].read
             PROVE  Taken(i)
  BY DEF Lacking
<1>1. PICK L \in 0 .. Len(written) : LookedAt(L)
  BY DEF ParserInv
<1>2. closes \in 1 .. L /\ closes \in Nat
  BY <1>1 DEF Taken, LookedAt, TextOf, ParserInv, Stream!TypeOK
<1>3. i \in 1 .. L
  BY <1>2
<1> QED
  BY <1>1, <1>3 DEF LookedAt, TextOf, Piece, Taken

\* The planner's own steps, and answers that are not the text of a stream.
LEMMA LackingKeptByCall ==
  ASSUME CallInv, LackingIsProse, [Next]_vars, lacks' = lacks,
         Answer => ~Streams \/ answer' = "error"
  PROVE  LackingIsProse'
<1> USE DEF LackingIsProse, Streams, Internal, Goto
<1>1. CASE Answer
  BY <1>1 DEF Answer, CallInv, Told
<1>2. CASE Accept
  BY <1>2 DEF Accept, wire
<1>3. CASE KeepRaw
  BY <1>3 DEF KeepRaw, wire
<1>4. CASE Start
  <2>1. plan' # "planner" /\ pc' \notin {"deciding", "judging"}
    BY <1>4, Starts DEF StartsSimple, StartsRefused, StartsAsking, Ask, CallInv, Told
  <2> QED
    BY <2>1
<1>5. CASE AskAgain \/ Repair
  <2>1. plan' = plan /\ pc' = "asking" /\ plan # "planner"
    BY <1>5 DEF AskAgain, Repair, Ask, CallInv, Told
  <2> QED
    BY <2>1
<1>6. CASE TimesOut \/ Silent
  <2>1. plan' = plan /\ answer' = "error" /\ plan # "planner"
    BY <1>6 DEF TimesOut, Silent, GiveUp, CallInv, Told
  <2> QED
    BY <2>1
<1>7. CASE \/ StartSimple \/ Refused \/ RepairFails \/ Fails \/ Throw
           \/ FallBack \/ SimplePlan
  <2>1. plan' # "planner" /\ pc' \notin {"deciding", "judging"}
    BY <1>7 DEF StartSimple, Refused, RepairFails, Fails, Throw, FallBack,
                SimplePlan, CallInv, Told
  <2> QED
    BY <2>1
<1>8. CASE Trickle
  BY <1>8 DEF Trickle
<1>9. CASE UNCHANGED vars
  BY <1>9 DEF vars
<1> QED
  BY <1>1, <1>2, <1>3, <1>4, <1>5, <1>6, <1>7, <1>8, <1>9 DEF Next, Program

\* The answer of a stream is taken for a plan only when it is whole.
LEMMA LackingKept ==
  ASSUME CallInv, ParserInv, LackingIsProse, [StreamNext]_all
  PROVE  LackingIsProse'
<1>1. CASE StreamReturns
  <2>1. /\ pc = "asking" /\ plan' = plan /\ lacks' = Lacking
        /\ reader = "returned"
        /\ answer' = "prose" \/ (answer' = "plan" /\ Taken(closes))
    BY <1>1 DEF StreamReturns, Streaming, Answer
  <2>2. plan' # "planner"
    BY <2>1 DEF CallInv, Told
  <2>3. answer' = "plan" => ~lacks'
    BY <2>1, ReturnsWhole
  <2> QED
    BY <2>2, <2>3 DEF LackingIsProse
<1>2. CASE ~StreamReturns
  <2>1. lacks' = lacks
    BY <1>2 DEF StreamNext, StreamProgram, StreamFails, all
  <2>2. Answer => ~Streams \/ answer' = "error"
    BY <1>2
    DEF StreamNext, StreamProgram, Unstreamed, Streaming, Waits, StreamTimesOut,
        StreamParses, StreamFails, StreamRefused, StreamBegins, Answer, all,
        vars, Goto, Silent, TimesOut, GiveUp, Trickle
  <2> QED
    BY <2>1, <2>2, StreamStepsAreSteps, LackingKeptByCall
<1> QED
  BY <1>1, <1>2

\* However a streamed answer is cut into chunks, wherever the connection is
\* lost and however many lines there are, its text is the pieces of its lines in
\* order, and an accepted plan is all that was written of it
\* (stream-parser.ts, json-extractor.ts).
THEOREM StreamedTextIsWhole == StreamSpec => []StreamedIsWhole
<1>1. StreamInit => LackingIsProse
  BY DEF StreamInit, LackingIsProse
<1>2. CallInv /\ ParserInv /\ LackingIsProse /\ [StreamNext]_all => LackingIsProse'
  BY LackingKept
<1>3. CallInv /\ ParserInv /\ LackingIsProse => StreamedIsWhole
  <2> SUFFICES ASSUME CallInv, ParserInv, LackingIsProse PROVE StreamedIsWhole
    OBVIOUS
  <2> QED
    BY TextFollowsLines DEF StreamedIsWhole, PlanIsWhole, LackingIsProse
<1>4. StreamSpec => []CallInv /\ []ParserInv
  BY StreamImplementsCall, CallInvariance, RequestIsAStream, ParserInvariance, PTL
<1> QED
  BY <1>1, <1>2, <1>3, <1>4, PTL DEF StreamSpec
=============================================================================
