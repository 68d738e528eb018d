--------------------------- MODULE RunStoreProofs ---------------------------
(***************************************************************************)
(* RunStore implements RunRegistry when each run has one writer, and the   *)
(* index, the mirror and the counts agree with the runs, for any runs,     *)
(* tasks, clients and numbers of operations and crashes.                   *)
(***************************************************************************)
EXTENDS RunStore, FiniteSetTheorems, SequenceTheorems, TLAPS

USE DEF mirror

\* What the configuration RunStore.cfg gives: only the owner of a run changes it.
OneWriter == \A c, d \in Client : c # d => Owns[c] \cap Owns[d] = {}

-----------------------------------------------------------------------------
(* Programs *)

Has(s, x) == \E i \in DOMAIN s : s[i] = x
Once(s, x) == \A i, j \in DOMAIN s : s[i] = x /\ s[j] = x => i = j

\* What holds of a program and of every rest of it: the steps that change a
\* status come once, each in its own operations, and run.json is loaded between
\* its creation (or the loading of another run) and an edit of it.
Fits(op, s) ==
  /\ Once(s, "newRun") /\ Once(s, "removeDir") /\ Once(s, "saveRun")
  /\ Has(s, "newRun") => op \in {"createRun", "duplicateRun"}
  /\ Has(s, "removeDir") => op \in {"deleteRunData", "clean"}
  /\ Has(s, "saveRun") => op \notin {"createRun", "deleteRunData", "clean"}
  /\ Has(s, "loadSource") => op = "duplicateRun"
  /\ \A i, j \in DOMAIN s :
       s[i] \in {"loadSource", "newRun"} /\ s[j] = "saveRun"
         => \E l \in DOMAIN s : i < l /\ s[l] = "loadRun"
  /\ \A i, j \in DOMAIN s : s[i] = "loadRun" /\ s[j] = "saveRun" => i < j

\* What is moreover true of the whole of it.
FitsWhole(op, s) ==
  /\ s \in Seq(Step) /\ s # <<>>
  /\ Fits(op, s)
  /\ Has(s, "saveRun") => Has(s, "loadRun")

LEMMA ProgramFits == \A op \in Op : FitsWhole(op, Program(op))
<1> SUFFICES ASSUME NEW op \in Op PROVE FitsWhole(op, Program(op))
  OBVIOUS
<1>1. CASE op = "createRun"
  <2>1. ASSUME NEW s, s = <<"newRun", "loadIndex", "saveIndex", "dbRun">>
        PROVE  FitsWhole(op, s)
    BY <1>1, <2>1 DEF FitsWhole, Fits, Has, Once, Step
  <2> QED
    BY <1>1, <2>1 DEF Program
<1>2. CASE op = "updateRunStatus"
  <2>1. ASSUME NEW s, s = <<"loadRun", "saveRun", "dbRun", "loadIndex", "saveIndex">>
        PROVE  FitsWhole(op, s)
    BY <1>2, <2>1 DEF FitsWhole, Fits, Has, Once, Step
  <2> QED
    BY <1>2, <2>1 DEF Program
<1>3. CASE op = "addRunError"
  <2>1. ASSUME NEW s, s = <<"loadRun", "saveRun", "dbRun">>
        PROVE  FitsWhole(op, s)
    BY <1>3, <2>1 DEF FitsWhole, Fits, Has, Once, Step
  <2> QED
    BY <1>3, <2>1 DEF Program
<1>4. CASE op = "saveTasks"
  <2>1. ASSUME NEW s, s = <<"writeTasks", "loadTaskIndex", "saveTaskIndex",
                       "loadRun", "saveRun", "dbRun", "dbTasks">>
        PROVE  FitsWhole(op, s)
    BY <1>4, <2>1 DEF FitsWhole, Fits, Has, Once, Step
  <2> QED
    BY <1>4, <2>1 DEF Program
<1>5. CASE op = "updateTaskStatus"
  <2>1. ASSUME NEW s, s = <<"loadTasks", "writeTasks", "loadTaskIndex", "saveTaskIndex",
                       "loadRun", "saveRun", "dbRun", "dbTasks">>
        PROVE  FitsWhole(op, s)
    BY <1>5, <2>1 DEF FitsWhole, Fits, Has, Once, Step
  <2> QED
    BY <1>5, <2>1 DEF Program
<1>6. CASE op = "duplicateRun"
  <2>1. ASSUME NEW s, s = <<"loadSource", "newRun", "loadIndex", "saveIndex", "dbRun",
                       "copyTasks", "writeTasks", "loadTaskIndex", "saveTaskIndex",
                       "loadRun", "saveRun", "dbRun", "dbTasks">>
        PROVE  FitsWhole(op, s)
    BY <1>6, <2>1 DEF FitsWhole, Fits, Has, Once, Step
  <2> QED
    BY <1>6, <2>1 DEF Program
<1>7. CASE op = "deleteRunData"
  <2>1. ASSUME NEW s, s = <<"removeDir", "loadIndex", "saveIndex", "dbDelete">>
        PROVE  FitsWhole(op, s)
    BY <1>7, <2>1 DEF FitsWhole, Fits, Has, Once, Step
  <2> QED
    BY <1>7, <2>1 DEF Program
<1>8. CASE op = "deleteRun"
  <2>1. ASSUME NEW s, s = <<"dbDelete">>
        PROVE  FitsWhole(op, s)
    BY <1>8, <2>1 DEF FitsWhole, Fits, Has, Once, Step
  <2> QED
    BY <1>8, <2>1 DEF Program
<1>9. CASE op = "appendToRun"
  <2>1. ASSUME NEW s, s = <<"append", "dbRow">>
        PROVE  FitsWhole(op, s)
    BY <1>9, <2>1 DEF FitsWhole, Fits, Has, Once, Step
  <2> QED
    BY <1>9, <2>1 DEF Program
<1>10. CASE op \in {"saveRunState", "createArtifact"}
  <2>1. ASSUME NEW s, s = <<"writeState", "dbRow">>
        PROVE  FitsWhole(op, s)
    BY <1>10, <2>1 DEF FitsWhole, Fits, Has, Once, Step
  <2> QED
    BY <1>10, <2>1 DEF Program
<1>11. CASE op = "clean"
  <2>1. ASSUME NEW s, s = <<"removeDir">>
        PROVE  FitsWhole(op, s)
    BY <1>11, <2>1 DEF FitsWhole, Fits, Has, Once, Step
  <2> QED
    BY <1>11, <2>1 DEF Program
<1> QED
  BY <1>1, <1>2, <1>3, <1>4, <1>5, <1>6, <1>7, <1>8, <1>9, <1>10, <1>11
     DEF Op, Listing

LEMMA RestFits ==
  ASSUME NEW op, NEW s \in Seq(Step), s # <<>>, Fits(op, s)
  PROVE  /\ Tail(s) \in Seq(Step) /\ Fits(op, Tail(s))
         /\ \A x : x # Head(s) => (Has(Tail(s), x) <=> Has(s, x))
         /\ Head(s) \in {"newRun", "removeDir", "saveRun"}
              => ~Has(Tail(s), Head(s))
         /\ Has(s, Head(s))
         /\ Len(s) # 1 => Tail(s) # <<>>
         /\ Head(s) = "saveRun" => ~Has(s, "loadRun")
         /\ Head(s) \in {"loadSource", "newRun"} /\ Has(Tail(s), "saveRun")
              => Has(Tail(s), "loadRun")
<1> DEFINE t == Tail(s)
<1>1. /\ t \in Seq(Step) /\ Len(t) = Len(s) - 1 /\ Len(s) \in Nat \ {0}
      /\ DOMAIN s = 1 .. Len(s) /\ DOMAIN t = 1 .. Len(s) - 1
      /\ \A i \in DOMAIN t : t[i] = s[i + 1]
      /\ Head(s) = s[1]
  BY HeadTailProperties
<1> HIDE DEF t
<1>2. \A i \in DOMAIN t : i + 1 \in DOMAIN s
  BY <1>1
<1>3. \A x : Has(t, x) => Has(s, x)
  BY <1>1, <1>2 DEF Has
<1>4. \A x : x # Head(s) /\ Has(s, x) => Has(t, x)
  <2> SUFFICES ASSUME NEW x, x # s[1], NEW i \in DOMAIN s, s[i] = x
               PROVE  \E j \in DOMAIN t : t[j] = x
    BY <1>1 DEF Has
  <2>1. i - 1 \in DOMAIN t /\ t[i - 1] = x
    BY <1>1
  <2> QED
    BY <2>1
<1>5. \A x : Once(s, x) => Once(t, x)
  <2> SUFFICES ASSUME NEW x, Once(s, x), NEW i \in DOMAIN t, NEW j \in DOMAIN t,
                      t[i] = x, t[j] = x
               PROVE  i = j
    BY DEF Once
  <2>1. i + 1 = j + 1
    BY <1>1, <1>2 DEF Once
  <2> QED
    BY <1>1, <2>1
<1>6. ASSUME NEW i \in DOMAIN t, NEW j \in DOMAIN t,
             t[i] \in {"loadSource", "newRun"}, t[j] = "saveRun"
      PROVE  \E l \in DOMAIN t : i < l /\ t[l] = "loadRun"
  <2>1. PICK l \in DOMAIN s : i + 1 < l /\ s[l] = "loadRun"
    BY <1>1, <1>2, <1>6 DEF Fits
  <2>2. l - 1 \in DOMAIN t /\ i < l - 1 /\ t[l - 1] = "loadRun"
    BY <1>1, <2>1
  <2> QED
    BY <2>2
<1>7. Once(s, Head(s)) => ~Has(t, Head(s))
  <2> SUFFICES ASSUME Once(s, s[1]), NEW i \in DOMAIN t, t[i] = s[1]
               PROVE  FALSE
    BY <1>1 DEF Has
  <2>1. i + 1 = 1
    BY <1>1, <1>2 DEF Once
  <2> QED
    BY <1>1, <2>1
<1>8. ASSUME NEW i \in DOMAIN t, NEW j \in DOMAIN t,
             t[i] = "loadRun", t[j] = "saveRun"
      PROVE  i < j
  <2>1. i + 1 < j + 1
    BY <1>1, <1>2, <1>8 DEF Fits
  <2> QED
    BY <1>1, <2>1
<1>9. Fits(op, t)
  BY <1>3, <1>5, <1>6, <1>8 DEF Fits
<1>10. Has(s, Head(s))
  BY <1>1 DEF Has
<1>11. Len(s) # 1 => t # <<>>
  BY <1>1, EmptySeq
<1>12. s[1] = "saveRun" => ~Has(s, "loadRun")
  <2> SUFFICES ASSUME s[1] = "saveRun", NEW i \in DOMAIN s, s[i] = "loadRun"
               PROVE  FALSE
    BY DEF Has
  <2>1. i < 1
    BY <1>1 DEF Fits
  <2> QED
    BY <1>1, <2>1
<1>13. s[1] \in {"loadSource", "newRun"} /\ Has(s, "saveRun")
         => Has(s, "loadRun")
  BY <1>1 DEF Fits, Has
<1>14. s[1] \in {"loadSource", "newRun"} /\ Has(t, "saveRun")
         => Has(t, "loadRun")
  BY <1>1, <1>3, <1>4, <1>13
<1> QED
  BY <1>1, <1>3, <1>4, <1>7, <1>9, <1>10, <1>11, <1>12, <1>14 DEF t, Fits

-----------------------------------------------------------------------------
(* The invariant *)

\* A record of what was loaded, of which only the run matters here.
Loads(x) ==
  /\ x = [run |-> x.run, tasks |-> x.tasks, index |-> x.index,
          taskIndex |-> x.taskIndex]
  /\ x.run \in RunFile \cup {None}

Types ==
  /\ run \in [Run -> RunFile \cup {None}]
  /\ job \in [Client -> Job \cup {None}]
  /\ reg = [c \in Client |-> reg[c]]
  /\ \A c \in Client : Loads(reg[c])
  /\ ops \in Nat

\* An operation under way is on a run of its client's and has steps left.
Under(c) ==
  Busy(c) =>
    /\ R(c) \in Owns[c]
    /\ job[c].rest # <<>> /\ Fits(job[c].op, job[c].rest)
    /\ job[c].op = "updateRunStatus" => job[c].to \in RunStatus
    /\ job[c].op = "duplicateRun" => job[c].from \in Run

\* From the loading of run.json to its edit the run is there, and its status is
\* the loaded one: whoever else edits run.json edits another run's.
Current(c) ==
  Busy(c) /\ Has(job[c].rest, "saveRun") /\ ~Has(job[c].rest, "loadRun") =>
    /\ reg[c].run \in RunFile /\ run[R(c)] \in RunFile
    /\ reg[c].run.status = run[R(c)].status

Inv == Types /\ \A c \in Client : Under(c) /\ Current(c)

LEMMA InitInv == Init => Inv
<1> SUFFICES ASSUME Init PROVE Inv
  OBVIOUS
<1>1. Types
  BY DEF Init, Types, Loads, NoReg
<1>2. \A c \in Client : ~Busy(c)
  BY DEF Init, Busy
<1> QED
  BY <1>1, <1>2 DEF Inv, Under, Current

\* What holds of a client still holds when another one's run and job change.
LEMMA OthersKeep ==
  ASSUME OneWriter, Inv, NEW c \in Client, NEW d \in Client, d # c,
         job'[d] = job[d], reg'[d] = reg[d],
         \A r \in Run : r \in Owns[c] \/ run'[r] = run[r]
  PROVE  Under(d)' /\ Current(d)'
<1>1. CASE ~Busy(d)
  BY <1>1 DEF Under, Current, Busy
<1>2. CASE Busy(d)
  <2>1. R(d) \in Owns[d] /\ R(d) \in Run
    BY <1>2, StoreAssumption DEF Inv, Under
  <2>2. R(d) \notin Owns[c]
    BY <2>1 DEF OneWriter
  <2>3. run'[R(d)] = run[R(d)]
    BY <2>1, <2>2
  <2> QED
    BY <1>2, <2>3 DEF Inv, Under, Current, Busy, R
<1> QED
  BY <1>1, <1>2

-----------------------------------------------------------------------------
(* The end of an operation, and a step of it *)

\* The client is done with its operation, or has died.
Ends(c) ==
  /\ Busy(c)
  /\ job' = [job EXCEPT ![c] = None] /\ reg' = [reg EXCEPT ![c] = NoReg]
  /\ ops' = ops

Proceeds(c, loaded) ==
  /\ Busy(c) /\ Len(job[c].rest) # 1
  /\ job' = [job EXCEPT ![c].rest = Tail(@)]
  /\ reg' = [reg EXCEPT ![c] = loaded]
  /\ ops' = ops

\* What Then does with the operation.
LEMMA ThenCases ==
  ASSUME NEW c \in Client, NEW loaded, Busy(c), Then(c, loaded)
  PROVE  Ends(c) \/ Proceeds(c, loaded)
BY DEF Then, Over, Ends, Proceeds

LEMMA EndsKeeps ==
  ASSUME OneWriter, Inv, NEW c \in Client, Ends(c),
         run' \in [Run -> RunFile \cup {None}],
         \A r \in Run : r \in Owns[c] \/ run'[r] = run[r]
  PROVE  Inv'
<1>1. /\ job' = [job EXCEPT ![c] = None] /\ reg' = [reg EXCEPT ![c] = NoReg]
  BY DEF Ends
<1>2. Types'
  <2>1. job' \in [Client -> Job \cup {None}]
    BY <1>1 DEF Inv, Types
  <2>2. reg' = [d \in Client |-> reg'[d]] /\ \A d \in Client : Loads(reg'[d])
    BY <1>1 DEF Inv, Types, Loads, NoReg
  <2>3. ops' \in Nat
    BY DEF Ends, Inv, Types
  <2> QED
    BY <2>1, <2>2, <2>3 DEF Types, Loads
<1>3. ASSUME NEW d \in Client PROVE Under(d)' /\ Current(d)'
  <2>1. CASE d = c
    BY <1>1, <2>1 DEF Inv, Types, Under, Current, Busy
  <2>2. CASE d # c
    <3>1. job'[d] = job[d] /\ reg'[d] = reg[d]
      BY <1>1, <2>2 DEF Inv, Types
    <3> QED
      BY <2>2, <3>1, OthersKeep
  <2> QED
    BY <2>1, <2>2
<1> QED
  BY <1>2, <1>3 DEF Inv

\* What is left of the operation after its first step.
LEMMA Proceeded ==
  ASSUME Inv, NEW c \in Client, NEW loaded, Proceeds(c, loaded), Loads(loaded)
  PROVE  /\ job' \in [Client -> Job \cup {None}]
         /\ job'[c] = [job[c] EXCEPT !.rest = Tail(job[c].rest)]
         /\ \A d \in Client : d # c => job'[d] = job[d] /\ reg'[d] = reg[d]
         /\ reg'[c] = loaded
         /\ reg' = [d \in Client |-> reg'[d]] /\ \A d \in Client : Loads(reg'[d])
         /\ job'[c].rest = Tail(job[c].rest) /\ job'[c].rest # <<>>
         /\ job'[c].op = job[c].op /\ job'[c].to = job[c].to /\ R(c)' = R(c)
         /\ Busy(c)' /\ Under(c)' /\ ops' \in Nat
<1>1. Busy(c) /\ job[c] \in Job
  BY DEF Inv, Types, Busy, Proceeds
<1>2. /\ job[c].rest \in Seq(Step) /\ job[c].rest # <<>>
      /\ Fits(job[c].op, job[c].rest) /\ Len(job[c].rest) # 1
  BY <1>1 DEF Job, Inv, Under, Proceeds
<1>3. /\ Tail(job[c].rest) \in Seq(Step) /\ Tail(job[c].rest) # <<>>
      /\ Fits(job[c].op, Tail(job[c].rest))
  BY <1>2, RestFits, Zenon
<1>4. job'[c] = [job[c] EXCEPT !.rest = Tail(job[c].rest)]
  BY DEF Proceeds, Inv, Types
<1>5. /\ job'[c] \in Job /\ job'[c].rest = Tail(job[c].rest)
      /\ job'[c].op = job[c].op /\ job'[c].to = job[c].to
      /\ job'[c].run = job[c].run /\ job'[c].from = job[c].from
  BY <1>1, <1>3, <1>4 DEF Job
<1>6. job' \in [Client -> Job \cup {None}]
  BY <1>5 DEF Proceeds, Inv, Types
<1>7. /\ \A d \in Client : d # c => job'[d] = job[d] /\ reg'[d] = reg[d]
      /\ reg'[c] = loaded
      /\ reg' = [d \in Client |-> reg'[d]]
  BY DEF Proceeds, Inv, Types
<1>8. \A d \in Client : Loads(reg'[d])
  BY <1>7 DEF Inv, Types
<1>9. Busy(c)'
  BY <1>5, NoneAssumption DEF Busy
<1>10. Under(c)'
  BY <1>1, <1>3, <1>5, <1>9 DEF Under, R, Inv
<1>11. ops' \in Nat
  BY DEF Proceeds, Inv, Types
<1> QED
  BY <1>3, <1>4, <1>5, <1>6, <1>7, <1>8, <1>9, <1>10, <1>11 DEF R

LEMMA ProceedsKeeps ==
  ASSUME OneWriter, Inv, NEW c \in Client, NEW loaded,
         Proceeds(c, loaded), Loads(loaded),
         run' \in [Run -> RunFile \cup {None}],
         \A r \in Run : r \in Owns[c] \/ run'[r] = run[r],
         Current(c)'
  PROVE  Inv'
<1>1. Types'
  BY Proceeded DEF Types
<1>2. ASSUME NEW d \in Client PROVE Under(d)' /\ Current(d)'
  <2>1. CASE d = c
    BY <2>1, Proceeded
  <2>2. CASE d # c
    BY <2>2, Proceeded, OthersKeep
  <2> QED
    BY <2>1, <2>2
<1> QED
  BY <1>1, <1>2 DEF Inv

-----------------------------------------------------------------------------
(* Requests *)

StatusMap == [r \in Run |-> StatusOf(run[r])]
AskedMap == [c \in Client |-> Asked(c)]
RegistryStep == Registry!Next \/ UNCHANGED <<StatusMap, AskedMap>>

AskedOf(j) ==
  IF j = None THEN None
  ELSE IF Has(j.rest, "newRun") THEN [run |-> j.run, to |-> "created"]
  ELSE IF Has(j.rest, "removeDir") THEN [run |-> j.run, to |-> None]
  ELSE IF j.op = "updateRunStatus" /\ Has(j.rest, "saveRun")
    THEN [run |-> j.run, to |-> j.to]
  ELSE None

LEMMA AskedHas ==
  \A c \in Client : Asked(c) = AskedOf(job[c]) /\ Asked(c)' = AskedOf(job'[c])
BY DEF Asked, AskedOf, Busy, R, ToSet, Has

LEMMA OthersAsk ==
  ASSUME NEW c \in Client, NEW to, Asked(c)' = to,
         \A d \in Client : d # c => job'[d] = job[d]
  PROVE  AskedMap' = [AskedMap EXCEPT ![c] = to]
BY DEF AskedMap, Asked, Busy, R

\* The operation ends, or goes on without a change of status.
LEMMA GivesUp ==
  ASSUME NEW c \in Client, Asked(c)' \in {None, Asked(c)},
         \A d \in Client : d # c => job'[d] = job[d],
         \A r \in Run : StatusOf(run'[r]) = StatusOf(run[r])
  PROVE  RegistryStep
<1>1. UNCHANGED StatusMap
  BY DEF StatusMap, StatusOf
<1>2. CASE Asked(c)' = Asked(c)
  <2>1. AskedMap' = [AskedMap EXCEPT ![c] = Asked(c)]
    BY <1>2, OthersAsk
  <2>2. UNCHANGED AskedMap
    BY <2>1 DEF AskedMap
  <2> QED
    BY <1>1, <2>2 DEF RegistryStep
<1>3. CASE Asked(c)' = None /\ Asked(c) # None
  <2>1. AskedMap' = [AskedMap EXCEPT ![c] = None]
    BY <1>3, OthersAsk
  <2>2. AskedMap[c] # None
    BY <1>3 DEF AskedMap
  <2>3. Registry!GiveUp(c)
    BY <1>1, <2>1, <2>2 DEF Registry!GiveUp, AskedMap, StatusMap
  <2> QED
    BY <2>3 DEF RegistryStep, Registry!Next
<1> QED
  BY <1>2, <1>3

\* The access that the request was about.
LEMMA TakesEffect ==
  ASSUME NEW c \in Client, NEW r \in Run, NEW to \in RunStatus \cup {None},
         Asked(c) = [run |-> r, to |-> to], Asked(c)' = None,
         \A d \in Client : d # c => job'[d] = job[d],
         StatusOf(run[r]) = None => to \in {"created", None},
         StatusOf(run'[r]) = to, \A q \in Run : q # r => run'[q] = run[q]
  PROVE  RegistryStep
<1>1. AskedMap' = [AskedMap EXCEPT ![c] = None]
  BY OthersAsk
<1>2. AskedMap[c] = [run |-> r, to |-> to] /\ AskedMap[c] # None
  BY NoneAssumption DEF AskedMap
<1>3. AskedMap[c].run = r /\ AskedMap[c].to = to
  BY <1>2
<1>4. StatusMap' = [StatusMap EXCEPT ![r] = to]
  BY DEF StatusMap, StatusOf
<1>5. StatusMap[r] = None => to \in {"created", None}
  BY DEF StatusMap
<1>6. Registry!TakeEffect(c)
  BY <1>1, <1>2, <1>3, <1>4, <1>5 DEF Registry!TakeEffect, AskedMap, StatusMap
<1> QED
  BY <1>6 DEF RegistryStep, Registry!Next

LEMMA EndsAsk ==
  ASSUME Inv, NEW c \in Client, Ends(c)
  PROVE  /\ Asked(c)' = None
         /\ \A d \in Client : d # c => job'[d] = job[d]
BY AskedHas DEF Ends, AskedOf, Inv, Types

-----------------------------------------------------------------------------
(* Accesses *)

\* The rest of an operation whose next access is x.
LEMMA NextAccess ==
  ASSUME Inv, NEW c \in Client, NEW x, At(c, x)
  PROVE  /\ Busy(c) /\ R(c) \in Owns[c] /\ R(c) \in Run
         /\ job[c] \in Job
         /\ Fits(job[c].op, job[c].rest)
         /\ \A y : y # x => (Has(Tail(job[c].rest), y) <=> Has(job[c].rest, y))
         /\ x \in {"newRun", "removeDir", "saveRun"} => ~Has(Tail(job[c].rest), x)
         /\ Has(job[c].rest, x)
         /\ x = "saveRun" => ~Has(job[c].rest, "loadRun")
         /\ x \in {"loadSource", "newRun"} /\ Has(Tail(job[c].rest), "saveRun")
              => Has(Tail(job[c].rest), "loadRun")
<1>1. /\ Busy(c) /\ job[c].rest # <<>> /\ Head(job[c].rest) = x
      /\ job[c] \in Job
  BY DEF At, Busy, Inv, Types
<1>2. R(c) \in Owns[c] /\ R(c) \in Run /\ Fits(job[c].op, job[c].rest)
  BY <1>1, StoreAssumption DEF Inv, Under
<1>3. job[c].rest \in Seq(Step)
  BY <1>1 DEF Job
<1> QED
  BY <1>1, <1>2, <1>3, RestFits

\* What is left after it, and how the requests are read off it.
LEMMA AfterAccess ==
  ASSUME Inv, NEW c \in Client, NEW x, At(c, x), NEW loaded, Loads(loaded),
         Proceeds(c, loaded)
  PROVE  /\ job'[c].rest = Tail(job[c].rest) /\ reg'[c] = loaded
         /\ job'[c].op = job[c].op /\ job'[c].to = job[c].to
         /\ job'[c].run = job[c].run
         /\ \A d \in Client : d # c => job'[d] = job[d]
         /\ job[c] # None /\ job'[c] # None
<1>1. Busy(c) /\ job[c] # None
  BY NextAccess DEF Busy
<1>2. /\ job'[c].rest = Tail(job[c].rest) /\ reg'[c] = loaded
      /\ job'[c].op = job[c].op /\ job'[c].to = job[c].to
      /\ R(c)' = R(c) /\ Busy(c)'
      /\ \A d \in Client : d # c => job'[d] = job[d]
  BY Proceeded
<1> QED
  BY <1>1, <1>2 DEF Busy, R

\* An access that changes no status.
LEMMA PassAccess ==
  ASSUME OneWriter, Inv, NEW c \in Client, NEW x, At(c, x),
         x \notin {"newRun", "saveRun", "removeDir"},
         NEW loaded, Loads(loaded), Then(c, loaded), UNCHANGED run,
         Proceeds(c, loaded) => Current(c)'
  PROVE  Inv' /\ RegistryStep
<1>1. run' \in [Run -> RunFile \cup {None}] /\ Busy(c)
  BY NextAccess DEF Inv, Types
<1>2. CASE Ends(c)
  BY <1>1, <1>2, EndsKeeps, EndsAsk, GivesUp
<1>3. CASE Proceeds(c, loaded)
  <2>1. /\ job'[c].rest = Tail(job[c].rest)
        /\ job'[c].op = job[c].op /\ job'[c].to = job[c].to
        /\ job'[c].run = job[c].run
        /\ \A d \in Client : d # c => job'[d] = job[d]
        /\ job[c] # None /\ job'[c] # None
    BY <1>3, AfterAccess
  <2>2. \A y \in {"newRun", "removeDir", "saveRun"} :
          Has(Tail(job[c].rest), y) <=> Has(job[c].rest, y)
    BY NextAccess
  <2>3. Asked(c)' = Asked(c)
    BY <2>1, <2>2, AskedHas DEF AskedOf
  <2> QED
    BY <1>1, <1>3, <2>1, <2>3, ProceedsKeeps, GivesUp
<1> QED
  BY <1>1, <1>2, <1>3, ThenCases

\* An access that concerns neither run.json nor its loading.
LEMMA QuietAccess ==
  ASSUME OneWriter, Inv, NEW c \in Client, NEW x, At(c, x),
         x \notin {"loadRun", "loadSource", "newRun", "saveRun", "removeDir"},
         NEW loaded, Loads(loaded), loaded.run = reg[c].run,
         Then(c, loaded), UNCHANGED run
  PROVE  Inv' /\ RegistryStep
<1>1. ASSUME Proceeds(c, loaded) PROVE Current(c)'
  <2>1. /\ job'[c].rest = Tail(job[c].rest) /\ reg'[c] = loaded
        /\ job'[c].run = job[c].run /\ job[c] # None
    BY <1>1, AfterAccess
  <2>2. \A y \in {"saveRun", "loadRun"} :
          Has(Tail(job[c].rest), y) <=> Has(job[c].rest, y)
    BY NextAccess
  <2> QED
    BY <2>1, <2>2 DEF Inv, Current, Busy, R
<1> QED
  BY <1>1, PassAccess

\* An access that changes the status of the run as it was asked to.
LEMMA EffectAccess ==
  ASSUME OneWriter, Inv, NEW c \in Client,
         NEW x \in {"newRun", "saveRun", "removeDir"}, At(c, x),
         x = "saveRun" => job[c].op = "updateRunStatus",
         NEW to \in RunStatus \cup {None},
         Asked(c) = [run |-> R(c), to |-> to],
         StatusOf(run[R(c)]) = None => to \in {"created", None},
         NEW new \in RunFile \cup {None}, StatusOf(new) = to,
         run' = [run EXCEPT ![R(c)] = new],
         NEW loaded, Loads(loaded), Then(c, loaded),
         Proceeds(c, loaded) => Current(c)'
  PROVE  Inv' /\ RegistryStep
<1>1. Busy(c) /\ R(c) \in Owns[c] /\ R(c) \in Run
  BY NextAccess
<1>2. /\ run' \in [Run -> RunFile \cup {None}] /\ run'[R(c)] = new
      /\ \A q \in Run : q # R(c) => run'[q] = run[q]
      /\ \A q \in Run : q \in Owns[c] \/ run'[q] = run[q]
  BY <1>1 DEF Inv, Types
<1>3. CASE Ends(c)
  BY <1>1, <1>2, <1>3, EndsKeeps, EndsAsk, TakesEffect
<1>4. CASE Proceeds(c, loaded)
  <2>1. /\ job'[c].rest = Tail(job[c].rest)
        /\ job'[c].op = job[c].op
        /\ \A d \in Client : d # c => job'[d] = job[d]
        /\ job[c] # None /\ job'[c] # None
    BY <1>4, AfterAccess
  <2>2. /\ ~Has(Tail(job[c].rest), x) /\ Has(job[c].rest, x)
        /\ \A y : y # x => (Has(Tail(job[c].rest), y) <=> Has(job[c].rest, y))
        /\ Fits(job[c].op, job[c].rest)
    BY NextAccess
  <2>3. Asked(c)' = None
    BY <2>1, <2>2, AskedHas DEF AskedOf, Fits
  <2> QED
    BY <1>1, <1>2, <1>4, <2>1, <2>3, ProceedsKeeps, TakesEffect
<1> QED
  BY <1>1, <1>3, <1>4, ThenCases

LEMMA RegLoads ==
  ASSUME Inv, NEW c \in Client, NEW v
  PROVE  /\ Loads(reg[c])
         /\ Loads([reg[c] EXCEPT !.tasks = v])
         /\ [reg[c] EXCEPT !.tasks = v].run = reg[c].run
         /\ Loads([reg[c] EXCEPT !.index = v])
         /\ [reg[c] EXCEPT !.index = v].run = reg[c].run
         /\ Loads([reg[c] EXCEPT !.taskIndex = v])
         /\ [reg[c] EXCEPT !.taskIndex = v].run = reg[c].run
         /\ [reg[c] EXCEPT !.run = v].run = v
         /\ v \in RunFile \cup {None} => Loads([reg[c] EXCEPT !.run = v])
<1>1. Loads(reg[c])
  BY DEF Inv, Types
<1>2. PICK a, b, d, e : reg[c] = [run |-> a, tasks |-> b, index |-> d, taskIndex |-> e]
                        /\ a \in RunFile \cup {None}
  BY <1>1 DEF Loads
<1> QED
  BY <1>1, <1>2 DEF Loads

\* An operation that returns early gives up what it had still to do.
LEMMA EarlyEnd ==
  ASSUME OneWriter, Inv, NEW c \in Client, Ends(c), UNCHANGED run
  PROVE  Inv' /\ RegistryStep
<1>1. run' \in [Run -> RunFile \cup {None}]
  BY DEF Inv, Types
<1> QED
  BY <1>1, EndsKeeps, EndsAsk, GivesUp

LEMMA LoadRunStep ==
  ASSUME OneWriter, Inv, NEW c \in Client, LoadRun(c)
  PROVE  Inv' /\ RegistryStep
<1>1. At(c, "loadRun")
  BY DEF LoadRun
<1>2. Busy(c) /\ R(c) \in Run
  BY <1>1, NextAccess
<1>3. CASE run[R(c)] # None
  <2> DEFINE loaded == [reg[c] EXCEPT !.run = run[R(c)]]
  <2>1. Then(c, loaded) /\ UNCHANGED run
    BY <1>3 DEF LoadRun, files
  <2>2. run[R(c)] \in RunFile
    BY <1>2, <1>3 DEF Inv, Types
  <2>3. Loads(loaded) /\ loaded.run = run[R(c)]
    BY <2>2, RegLoads
  <2> HIDE DEF loaded
  <2>4. ASSUME Proceeds(c, loaded) PROVE Current(c)'
    <3>1. reg'[c] = loaded /\ job'[c].run = job[c].run
      BY <1>1, <2>3, <2>4, AfterAccess
    <3> QED
      BY <2>1, <2>2, <2>3, <3>1 DEF Current, R
  <2> QED
    BY <1>1, <2>1, <2>3, <2>4, PassAccess
<1>4. CASE run[R(c)] = None
  <2>1. Ends(c) /\ UNCHANGED run
    BY <1>2, <1>4 DEF LoadRun, Aborts, Over, Ends, files
  <2> QED
    BY <2>1, EarlyEnd
<1> QED
  BY <1>3, <1>4

LEMMA LoadSourceStep ==
  ASSUME OneWriter, Inv, NEW c \in Client, LoadSource(c)
  PROVE  Inv' /\ RegistryStep
<1>1. At(c, "loadSource")
  BY DEF LoadSource
<1>2. Busy(c) /\ job[c].from \in Run
  BY <1>1, NextAccess DEF Fits, Inv, Under
<1>3. CASE run[job[c].from] # None
  <2> DEFINE loaded == [reg[c] EXCEPT !.run = run[job[c].from]]
  <2>1. Then(c, loaded) /\ UNCHANGED run
    BY <1>3 DEF LoadSource, files
  <2>2. Loads(loaded)
    BY <1>2, RegLoads DEF Inv, Types
  <2> HIDE DEF loaded
  <2>3. ASSUME Proceeds(c, loaded) PROVE Current(c)'
    <3>1. job'[c].rest = Tail(job[c].rest)
      BY <1>1, <2>2, <2>3, AfterAccess
    <3>2. Has(Tail(job[c].rest), "saveRun") => Has(Tail(job[c].rest), "loadRun")
      BY <1>1, NextAccess
    <3> QED
      BY <3>1, <3>2 DEF Current
  <2> QED
    BY <1>1, <2>1, <2>2, <2>3, PassAccess
<1>4. CASE run[job[c].from] = None
  <2>1. Ends(c) /\ UNCHANGED run
    BY <1>2, <1>4 DEF LoadSource, Aborts, Over, Ends, files
  <2> QED
    BY <2>1, EarlyEnd
<1> QED
  BY <1>3, <1>4

LEMMA NewRunStep ==
  ASSUME OneWriter, Inv, NEW c \in Client, NewRun(c)
  PROVE  Inv' /\ RegistryStep
<1> DEFINE new == [status |-> "created", done |-> 0]
           loaded == [reg[c] EXCEPT !.run = new]
<1>1. At(c, "newRun")
  BY DEF NewRun
<1>2. /\ Busy(c) /\ R(c) \in Run /\ Has(job[c].rest, "newRun")
  BY <1>1, NextAccess
<1>3. run' = [run EXCEPT ![R(c)] = new] /\ run'[R(c)] = new
  BY <1>2 DEF NewRun, Inv, Types
<1>4. Then(c, loaded)
  BY <1>3 DEF NewRun
<1>5. new \in RunFile /\ new.status = "created" /\ "created" \in RunStatus
  <2>1. Cardinality(Task) \in Nat
    BY StoreAssumption, FS_CardinalityType
  <2> QED
    BY <2>1 DEF RunFile, RunStatus
<1> HIDE DEF new
<1>6. StatusOf(new) = "created"
  BY <1>5, NoneAssumption DEF StatusOf
<1>7. Loads(loaded)
  BY <1>5, RegLoads
<1> HIDE DEF loaded
<1>8. Asked(c) = [run |-> R(c), to |-> "created"]
  BY <1>2, AskedHas DEF AskedOf, Busy, R
<1>9. ASSUME Proceeds(c, loaded) PROVE Current(c)'
  <2>1. job'[c].rest = Tail(job[c].rest)
    BY <1>1, <1>7, <1>9, AfterAccess
  <2>2. Has(Tail(job[c].rest), "saveRun") => Has(Tail(job[c].rest), "loadRun")
    BY <1>1, NextAccess
  <2> QED
    BY <2>1, <2>2 DEF Current
<1> QED
  BY <1>1, <1>3, <1>4, <1>5, <1>6, <1>7, <1>8, <1>9, EffectAccess

LEMMA RemoveDirStep ==
  ASSUME OneWriter, Inv, NEW c \in Client, RemoveDir(c)
  PROVE  Inv' /\ RegistryStep
<1>1. At(c, "removeDir")
  BY DEF RemoveDir
<1>2. /\ Busy(c) /\ Has(job[c].rest, "removeDir")
      /\ ~Has(job[c].rest, "newRun") /\ ~Has(job[c].rest, "saveRun")
      /\ ~Has(Tail(job[c].rest), "saveRun")
  BY <1>1, NextAccess DEF Fits
<1>3. run' = [run EXCEPT ![R(c)] = None] /\ Then(c, reg[c])
  BY DEF RemoveDir
<1>4. StatusOf(None) = None
  BY DEF StatusOf
<1>5. Loads(reg[c])
  BY RegLoads
<1>6. Asked(c) = [run |-> R(c), to |-> None]
  BY <1>2, AskedHas DEF AskedOf, Busy, R
<1>7. ASSUME Proceeds(c, reg[c]) PROVE Current(c)'
  <2>1. job'[c].rest = Tail(job[c].rest)
    BY <1>1, <1>5, <1>7, AfterAccess
  <2> QED
    BY <1>2, <2>1 DEF Current
<1> QED
  BY <1>1, <1>3, <1>4, <1>5, <1>6, <1>7, EffectAccess

\* What an edit writes.
LEMMA EditedIs ==
  ASSUME NEW c \in Client, reg[c].run \in RunFile,
         job[c].op = "updateRunStatus" => job[c].to \in RunStatus
  PROVE  /\ Edited(c) \in RunFile
         /\ Edited(c).status = IF job[c].op = "updateRunStatus" THEN job[c].to
                               ELSE reg[c].run.status
<1>1. CASE job[c].op = "updateRunStatus"
  BY <1>1 DEF Edited, RunFile
<1>2. CASE job[c].op # "updateRunStatus" /\ reg[c].tasks # None
  <2> DEFINE over == {t \in Task : reg[c].tasks[t] = "done"}
             n == DoneIn(reg[c].tasks)
  <2>1. /\ Cardinality(Task) \in Nat
        /\ Cardinality(over) \in Nat /\ Cardinality(over) <= Cardinality(Task)
    BY StoreAssumption, FS_CardinalityType, FS_Subset, over \subseteq Task
  <2>2. n \in 0 .. Cardinality(Task)
    BY <2>1 DEF DoneIn
  <2>3. Edited(c) = [reg[c].run EXCEPT !.done = n]
    BY <1>2 DEF Edited
  <2> HIDE DEF n
  <2> QED
    BY <1>2, <2>2, <2>3 DEF RunFile
<1>3. CASE job[c].op # "updateRunStatus" /\ reg[c].tasks = None
  BY <1>3 DEF Edited
<1> QED
  BY <1>1, <1>2, <1>3

LEMMA SaveRunStep ==
  ASSUME OneWriter, Inv, NEW c \in Client, SaveRun(c)
  PROVE  Inv' /\ RegistryStep
<1> DEFINE new == Edited(c)
           loaded == [reg[c] EXCEPT !.run = new]
<1>1. At(c, "saveRun")
  BY DEF SaveRun
<1>2. /\ Busy(c) /\ R(c) \in Run /\ R(c) \in Owns[c]
      /\ Has(job[c].rest, "saveRun") /\ ~Has(job[c].rest, "loadRun")
      /\ ~Has(Tail(job[c].rest), "saveRun")
  BY <1>1, NextAccess
<1>3. /\ reg[c].run \in RunFile /\ run[R(c)] \in RunFile
      /\ reg[c].run.status = run[R(c)].status
  BY <1>2 DEF Inv, Current
<1>4. job[c].op = "updateRunStatus" => job[c].to \in RunStatus
  BY <1>2 DEF Inv, Under
<1>5. /\ new \in RunFile
      /\ new.status = IF job[c].op = "updateRunStatus" THEN job[c].to
                      ELSE reg[c].run.status
  BY <1>3, <1>4, EditedIs
<1>6. run' = [run EXCEPT ![R(c)] = new] /\ Then(c, loaded)
  BY DEF SaveRun
<1> HIDE DEF new
<1>7. Loads(loaded)
  BY <1>5, RegLoads
<1> HIDE DEF loaded
<1>8. StatusOf(new) = new.status /\ StatusOf(run[R(c)]) = run[R(c)].status
  BY <1>3, <1>5, NoneAssumption DEF StatusOf
<1>9. ASSUME Proceeds(c, loaded) PROVE Current(c)'
  <2>1. job'[c].rest = Tail(job[c].rest)
    BY <1>1, <1>7, <1>9, AfterAccess
  <2> QED
    BY <1>2, <2>1 DEF Current
<1>10. ~Has(job[c].rest, "newRun") \/ job[c].op # "updateRunStatus"
  BY <1>1, NextAccess DEF Fits
<1>11. ~Has(job[c].rest, "removeDir")
  BY <1>1, <1>2, NextAccess DEF Fits
<1>12. CASE job[c].op = "updateRunStatus"
  <2>1. Asked(c) = [run |-> R(c), to |-> job[c].to]
    BY <1>2, <1>10, <1>11, <1>12, AskedHas DEF AskedOf, Busy, R
  <2>2. StatusOf(run[R(c)]) # None
    BY <1>3, <1>8, NoneAssumption DEF RunFile
  <2> QED
    BY <1>1, <1>4, <1>5, <1>6, <1>7, <1>8, <1>9, <1>12, <2>1, <2>2, EffectAccess
<1>13. CASE job[c].op # "updateRunStatus"
  <2>1. /\ run' \in [Run -> RunFile \cup {None}]
        /\ \A r \in Run : r \in Owns[c] \/ run'[r] = run[r]
        /\ \A r \in Run : run'[r] = IF r = R(c) THEN new ELSE run[r]
    BY <1>2, <1>5, <1>6 DEF Inv, Types
  <2>2. \A r \in Run : StatusOf(run'[r]) = StatusOf(run[r])
    BY <1>3, <1>5, <1>8, <1>13, <2>1
  <2>3. CASE Ends(c)
    BY <2>1, <2>2, <2>3, EndsKeeps, EndsAsk, GivesUp
  <2>4. CASE Proceeds(c, loaded)
    <3>1. /\ job'[c].rest = Tail(job[c].rest)
          /\ job'[c].op = job[c].op /\ job'[c].to = job[c].to
          /\ job'[c].run = job[c].run
          /\ \A d \in Client : d # c => job'[d] = job[d]
          /\ job[c] # None /\ job'[c] # None
      BY <1>1, <1>7, <2>4, AfterAccess
    <3>2. \A y \in {"newRun", "removeDir"} :
            Has(Tail(job[c].rest), y) <=> Has(job[c].rest, y)
      BY <1>1, NextAccess
    <3>3. Asked(c)' = Asked(c)
      BY <1>13, <3>1, <3>2, AskedHas DEF AskedOf
    <3> QED
      BY <1>7, <1>9, <2>1, <2>2, <2>4, <3>1, <3>3, ProceedsKeeps, GivesUp
  <2> QED
    BY <1>2, <1>6, <2>3, <2>4, ThenCases
<1> QED
  BY <1>12, <1>13

\* The accesses to the other files and to the database.
LEMMA OtherSteps ==
  ASSUME OneWriter, Inv, NEW c \in Client,
         \/ LoadTasks(c) \/ CopyTasks(c) \/ WriteTasks(c)
         \/ LoadTaskIndex(c) \/ SaveTaskIndex(c) \/ LoadIndex(c) \/ SaveIndex(c)
         \/ AppendLine(c) \/ WriteState(c)
         \/ DbRun(c) \/ DbTasks(c) \/ DbRow(c) \/ DbDelete(c) \/ DbFails(c)
  PROVE  Inv' /\ RegistryStep
<1> DEFINE Quiet(x, loaded) ==
             /\ At(c, x) /\ Then(c, loaded) /\ Loads(loaded)
             /\ loaded.run = reg[c].run /\ UNCHANGED run
             /\ x \notin {"loadRun", "loadSource", "newRun", "saveRun", "removeDir"}
<1>1. ASSUME NEW x, NEW loaded, Quiet(x, loaded) PROVE Inv' /\ RegistryStep
  BY <1>1, QuietAccess
<1>2. Loads(reg[c])
  BY RegLoads
<1>3. CASE LoadTasks(c)
  <2>1. CASE tasks[R(c)] # None
    <3>1. PICK v : Then(c, [reg[c] EXCEPT !.tasks = v]) /\ UNCHANGED run
      BY <1>3, <2>1 DEF LoadTasks, files
    <3>2. Quiet("loadTasks", [reg[c] EXCEPT !.tasks = v])
      BY <1>3, <3>1, RegLoads DEF LoadTasks
    <3> QED
      BY <1>1, <3>2
  <2>2. CASE tasks[R(c)] = None
    <3>1. Ends(c) /\ UNCHANGED run
      BY <1>3, <2>2 DEF LoadTasks, Aborts, Over, Ends, files, At
    <3> QED
      BY <3>1, EarlyEnd
  <2> QED
    BY <2>1, <2>2
<1>4. CASE CopyTasks(c)
  <2>1. CASE tasks[job[c].from] # None
    <3>1. PICK v : Then(c, [reg[c] EXCEPT !.tasks = v]) /\ UNCHANGED run
      BY <1>4, <2>1 DEF CopyTasks, files
    <3>2. Quiet("copyTasks", [reg[c] EXCEPT !.tasks = v])
      BY <1>4, <3>1, RegLoads DEF CopyTasks
    <3> QED
      BY <1>1, <3>2
  <2>2. CASE tasks[job[c].from] = None
    <3>1. Ends(c) /\ UNCHANGED run
      BY <1>4, <2>2 DEF CopyTasks, Over, Ends, files, At
    <3> QED
      BY <3>1, EarlyEnd
  <2> QED
    BY <2>1, <2>2
<1>5. CASE WriteTasks(c)
  <2>1. PICK v : Then(c, [reg[c] EXCEPT !.tasks = v]) /\ UNCHANGED run
    BY <1>5 DEF WriteTasks
  <2>2. Quiet("writeTasks", [reg[c] EXCEPT !.tasks = v])
    BY <1>5, <2>1, RegLoads DEF WriteTasks
  <2> QED
    BY <1>1, <2>2
<1>6. CASE LoadTaskIndex(c)
  <2>1. Quiet("loadTaskIndex", [reg[c] EXCEPT !.taskIndex = taskIndex])
    BY <1>6, RegLoads DEF LoadTaskIndex, files
  <2> QED
    BY <1>1, <2>1
<1>7. CASE LoadIndex(c)
  <2>1. Quiet("loadIndex", [reg[c] EXCEPT !.index = index])
    BY <1>7, RegLoads DEF LoadIndex, files
  <2> QED
    BY <1>1, <2>1
<1>8. CASE \/ SaveTaskIndex(c) \/ SaveIndex(c) \/ AppendLine(c) \/ WriteState(c)
           \/ DbRun(c) \/ DbTasks(c) \/ DbRow(c) \/ DbDelete(c) \/ DbFails(c)
  <2>1. \E x \in {"saveTaskIndex", "saveIndex", "append", "writeState",
                  "dbRun", "dbTasks", "dbRow", "dbDelete"} :
          At(c, x) /\ Then(c, reg[c]) /\ UNCHANGED run
    BY <1>8 DEF SaveTaskIndex, SaveIndex, AppendLine, WriteState,
                DbRun, DbTasks, DbRow, DbDelete, DbFails, files
  <2> QED
    BY <1>1, <1>2, <2>1
<1> QED
  BY <1>3, <1>4, <1>5, <1>6, <1>7, <1>8

-----------------------------------------------------------------------------
(* Beginnings, deaths, and the refinement *)

\* An operation as a client may begin it.
Begun(j) ==
  /\ j \in Job /\ j.rest = Program(j.op)
  /\ j.op = "updateRunStatus" => j.to \in RunStatus
  /\ j.op = "duplicateRun" => j.from \in Run

LEMMA BeginStep ==
  ASSUME OneWriter, Inv, NEW c \in Client, NEW new, Begun(new), Begin(c, new)
  PROVE  Inv' /\ RegistryStep
<1>1. /\ job[c] = None /\ new.run \in Owns[c] /\ new.run \in Run /\ new.op \in Op
      /\ job' = [job EXCEPT ![c] = new] /\ UNCHANGED <<run, reg>>
      /\ ops' \in Nat
  BY DEF Begin, Begun, Busy, Job, files, Inv, Types
<1>2. /\ job'[c] = new /\ new # None /\ new \in Job
      /\ \A d \in Client : d # c => job'[d] = job[d]
      /\ job' \in [Client -> Job \cup {None}]
  BY <1>1, NoneAssumption DEF Begun, Inv, Types
<1>3. FitsWhole(new.op, new.rest)
  BY <1>1, ProgramFits DEF Begun
<1>4. Under(c)' /\ Current(c)'
  BY <1>1, <1>2, <1>3 DEF Under, Current, R, FitsWhole, Begun
<1>5. Types'
  BY <1>1, <1>2 DEF Inv, Types
<1>6. ASSUME NEW d \in Client PROVE Under(d)' /\ Current(d)'
  BY <1>1, <1>2, <1>4, OthersKeep
<1>7. Inv'
  BY <1>5, <1>6 DEF Inv
<1>8. Asked(c) = None /\ Asked(c)' = AskedOf(new)
  BY <1>1, <1>2, AskedHas DEF AskedOf
<1>9. CASE AskedOf(new) = None
  BY <1>1, <1>2, <1>7, <1>8, <1>9, GivesUp
<1>10. CASE AskedOf(new) # None
  <2>1. PICK s \in RunStatus \cup {None} : AskedOf(new) = [run |-> new.run, to |-> s]
    BY <1>10 DEF AskedOf, RunStatus, Begun
  <2>2. AskedMap' = [AskedMap EXCEPT ![c] = [run |-> new.run, to |-> s]]
    BY <1>2, <1>8, <2>1, OthersAsk
  <2>3. AskedMap[c] = None
    BY <1>8 DEF AskedMap
  <2>4. UNCHANGED StatusMap
    BY <1>1 DEF StatusMap, StatusOf
  <2>5. Registry!Ask(c)
    BY <1>1, <2>2, <2>3, <2>4 DEF Registry!Ask, AskedMap, StatusMap
  <2> QED
    BY <1>7, <2>5 DEF RegistryStep, Registry!Next
<1> QED
  BY <1>9, <1>10

LEMMA NewJobIs ==
  ASSUME Inv, NEW op \in Op, NEW r \in Run
  PROVE  LET j == NewJob(op, r)
         IN /\ j.op = op
            /\ op \notin {"updateRunStatus", "duplicateRun"} => Begun(j)
            /\ op # "duplicateRun" =>
                 \A s \in RunStatus : Begun([j EXCEPT !.to = s])
            /\ op \notin {"updateRunStatus", "duplicateRun"} =>
                 /\ \A t \in Task \cup {None} : Begun([j EXCEPT !.task = t])
                 /\ \A t \in Task, s \in Status :
                      Begun([j EXCEPT !.task = t, !.to = s])
            /\ op = "duplicateRun" => \A q \in Run : Begun([j EXCEPT !.from = q])
<1> DEFINE j == NewJob(op, r)
<1>1. PICK n \in Nat : j = [op |-> op, run |-> r, to |-> None, task |-> None,
                            from |-> None, id |-> n, rest |-> Program(op)]
  <2>1. ops \in Nat
    BY DEF Inv, Types
  <2> QED
    BY <2>1 DEF NewJob
<1>2. Program(op) \in Seq(Step)
  BY ProgramFits DEF FitsWhole
<1> HIDE DEF j
<1>3. ASSUME NEW to \in RunStatus \cup Status \cup {None},
             NEW t \in Task \cup {None}, NEW q \in Run \cup {None},
             NEW k, k = [op |-> op, run |-> r, to |-> to, task |-> t,
                         from |-> q, id |-> n, rest |-> Program(op)],
             op = "updateRunStatus" => to \in RunStatus,
             op = "duplicateRun" => q \in Run
      PROVE  Begun(k)
  BY <1>2, <1>3 DEF Begun, Job
<1>4. j.op = op
  BY <1>1
<1>5. op \notin {"updateRunStatus", "duplicateRun"} => Begun(j)
  BY <1>1, <1>3
<1>6. ASSUME op # "duplicateRun", NEW s \in RunStatus
      PROVE  Begun([j EXCEPT !.to = s])
  BY <1>1, <1>3, <1>6
<1>7. ASSUME op \notin {"updateRunStatus", "duplicateRun"},
             NEW t \in Task \cup {None}
      PROVE  Begun([j EXCEPT !.task = t])
  BY <1>1, <1>3, <1>7
<1>8. ASSUME op \notin {"updateRunStatus", "duplicateRun"},
             NEW t \in Task, NEW s \in Status
      PROVE  Begun([j EXCEPT !.task = t, !.to = s])
  <2>1. [j EXCEPT !.task = t] =
          [op |-> op, run |-> r, to |-> None, task |-> t,
           from |-> None, id |-> n, rest |-> Program(op)]
    BY <1>1
  <2>2. [j EXCEPT !.task = t, !.to = s] = [[j EXCEPT !.task = t] EXCEPT !.to = s]
    OBVIOUS
  <2>3. ASSUME NEW a, a = [op |-> op, run |-> r, to |-> None, task |-> t,
                           from |-> None, id |-> n, rest |-> Program(op)]
        PROVE  Begun([a EXCEPT !.to = s])
    BY <1>3, <1>8, <2>3
  <2>4. Begun([[j EXCEPT !.task = t] EXCEPT !.to = s])
    BY <2>1, <2>3
  <2> QED
    BY <2>2, <2>4
<1>9. ASSUME op = "duplicateRun", NEW q \in Run
      PROVE  Begun([j EXCEPT !.from = q])
  BY <1>1, <1>3, <1>9
<1> QED
  BY <1>4, <1>5, <1>6, <1>7, <1>8, <1>9 DEF j

LEMMA AsksStep ==
  ASSUME OneWriter, Inv, NEW c \in Client, Asks(c)
  PROVE  Inv' /\ RegistryStep
<1>1. PICK new : Begun(new) /\ Begin(c, new)
  <2>1. \A op \in {"createRun", "addRunError", "saveTasks", "deleteRunData",
                   "clean", "deleteRun", "saveRunState"}, r \in Run : Begun(NewJob(op, r))
    BY NewJobIs DEF Op, Listing
  <2>2. \A op \in {"appendToRun", "createArtifact"}, r \in Run,
           t \in Task \cup {None} : Begun([NewJob(op, r) EXCEPT !.task = t])
    BY NewJobIs DEF Op, Listing
  <2>3. \A r \in Run, s \in RunStatus :
          Begun([NewJob("updateRunStatus", r) EXCEPT !.to = s])
    BY NewJobIs DEF Op, Listing
  <2>4. \A r \in Run, t \in Task, s \in Status :
          Begun([NewJob("updateTaskStatus", r) EXCEPT !.task = t, !.to = s])
    BY NewJobIs DEF Op, Listing
  <2>5. \A r, q \in Run : Begun([NewJob("duplicateRun", r) EXCEPT !.from = q])
    BY NewJobIs DEF Op, Listing
  <2> QED
    BY <2>1, <2>2, <2>3, <2>4, <2>5
       DEF Asks, CreateRun, UpdateRunStatus, AddRunError, SaveTasks,
           UpdateTaskStatus, DuplicateRun, DeleteRunData, Clean,
           ApiDeleteRun, AppendToRun, SaveRunState, CreateArtifact
<1> QED
  BY <1>1, BeginStep

LEMMA NextStep ==
  ASSUME OneWriter, Inv, [Next]_vars
  PROVE  Inv' /\ RegistryStep
<1>1. ASSUME NEW c \in Client, Access(c) PROVE Inv' /\ RegistryStep
  BY <1>1, LoadRunStep, LoadSourceStep, NewRunStep, SaveRunStep, RemoveDirStep,
     OtherSteps DEF Access
<1>2. ASSUME NEW c \in Client, Crash(c) PROVE Inv' /\ RegistryStep
  <2>1. Ends(c) /\ UNCHANGED run
    BY <1>2 DEF Crash, Ends, files
  <2> QED
    BY <2>1, EarlyEnd
<1>3. CASE UNCHANGED vars
  <2>1. Inv'
    BY <1>3 DEF vars, files, Inv, Types, Under, Current, Busy, R
  <2>2. UNCHANGED <<StatusMap, AskedMap>>
    BY <1>3 DEF vars, files, StatusMap, StatusOf, AskedMap, Asked, Busy, R
  <2> QED
    BY <2>1, <2>2 DEF RegistryStep
<1> QED
  BY <1>1, <1>2, <1>3, AsksStep DEF Next

LEMMA RegistryInit == Init => Registry!Init
<1> SUFFICES ASSUME Init PROVE Registry!Init
  OBVIOUS
<1>1. \A c \in Client : Asked(c) = None
  BY DEF Init, Asked, Busy
<1>2. \A r \in Run : StatusOf(run[r]) = None
  BY DEF Init, StatusOf
<1> QED
  BY <1>1, <1>2 DEF Registry!Init

\* RunStore implements RunRegistry when each run has one writer: whatever the
\* operations of the clients, their interleaving and the crashes, the status in
\* run.json changes as it was asked to, once for a request, and not otherwise
\* (RunManager.saveRun, updateRunStatus, duplicateRun, deleteRunData).
THEOREM StoreImplementsRegistry == OneWriter => (Spec => RegistrySpec)
<1> SUFFICES ASSUME OneWriter PROVE Spec => RegistrySpec
  OBVIOUS
<1>1. Init => Inv /\ Registry!Init
  BY InitInv, RegistryInit
<1>2. Inv /\ [Next]_vars => Inv' /\ RegistryStep
  BY NextStep
<1>3. RegistryStep => [Registry!Next]_<<StatusMap, AskedMap>>
  BY DEF RegistryStep
<1> QED
  BY <1>1, <1>2, <1>3, PTL DEF Spec, RegistrySpec, Registry!Spec, StatusMap, AskedMap

-----------------------------------------------------------------------------
(* How far an operation is: what is left of its program tells what it has   *)
(* loaded and changed.                                                      *)

Left(c) == Len(job[c].rest)

\* What is left is the end of the program.
Placed(c) ==
  Busy(c) =>
    /\ Left(c) \in 1 .. Len(Program(job[c].op))
    /\ \A i \in 1 .. Left(c) :
         job[c].rest[i]
           = Program(job[c].op)[Len(Program(job[c].op)) - Left(c) + i]

TaskOp == {"saveTasks", "updateTaskStatus", "duplicateRun"}

\* Of which operation, and how far from its end, an access is.
Turn(op, n, x) ==
  /\ x = "newRun" => \/ op = "createRun" /\ n = 4
                     \/ op = "duplicateRun" /\ n = 12
  /\ x = "loadRun" => \/ op = "updateRunStatus" /\ n = 5
                      \/ op = "addRunError" /\ n = 3
                      \/ op \in TaskOp /\ n = 4
  /\ x = "loadSource" => op = "duplicateRun" /\ n = 13
  /\ x = "saveRun" => \/ op = "updateRunStatus" /\ n = 4
                      \/ op = "addRunError" /\ n = 2
                      \/ op \in TaskOp /\ n = 3
  /\ x = "loadIndex" => \/ op \in {"createRun", "deleteRunData"} /\ n = 3
                        \/ op = "updateRunStatus" /\ n = 2
                        \/ op = "duplicateRun" /\ n = 11
  /\ x = "saveIndex" => \/ op \in {"createRun", "deleteRunData"} /\ n = 2
                        \/ op = "updateRunStatus" /\ n = 1
                        \/ op = "duplicateRun" /\ n = 10
  /\ x = "loadTasks" => op = "updateTaskStatus" /\ n = 8
  /\ x = "copyTasks" => op = "duplicateRun" /\ n = 8
  /\ x = "writeTasks" => op \in TaskOp /\ n = 7
  /\ x = "loadTaskIndex" => op \in TaskOp /\ n = 6
  /\ x = "saveTaskIndex" => op \in TaskOp /\ n = 5
  /\ x = "removeDir" => \/ op = "deleteRunData" /\ n = 4
                        \/ op = "clean" /\ n = 1
  /\ x = "append" => op = "appendToRun" /\ n = 2
  /\ x = "writeState" => op \in {"saveRunState", "createArtifact"} /\ n = 2
  /\ x = "dbRun" => \/ op = "createRun" /\ n = 1
                    \/ op = "updateRunStatus" /\ n = 3
                    \/ op = "addRunError" /\ n = 1
                    \/ op \in TaskOp /\ n = 2
                    \/ op = "duplicateRun" /\ n = 9
  /\ x = "dbTasks" => op \in TaskOp /\ n = 1
  /\ x = "dbRow" => /\ op \in {"appendToRun", "saveRunState", "createArtifact"}
                    /\ n = 1
  /\ x = "dbDelete" => op \in {"deleteRunData", "deleteRun"} /\ n = 1

\* How many accesses it takes, where that matters.
Length(op, n) ==
  /\ op = "createRun" => n = 4
  /\ op = "updateRunStatus" => n = 5
  /\ op = "addRunError" => n = 3
  /\ op = "saveTasks" => n = 7
  /\ op = "updateTaskStatus" => n = 8
  /\ op = "duplicateRun" => n = 13
  /\ op = "deleteRunData" => n = 4
  /\ n \in Nat \ {0}

\* A program by its length, its accesses, and what it does to the run.
Told(op, s) ==
  /\ \A n \in 1 .. Len(s) : Turn(op, n, s[Len(s) - n + 1])
  /\ Length(op, Len(s))
  /\ Has(s, "writeTasks") <=> op \in TaskOp

LEMMA ProgramTold == \A op \in Op : Told(op, Program(op))
<1> SUFFICES ASSUME NEW op \in Op PROVE Told(op, Program(op))
  OBVIOUS
<1>1. CASE op = "createRun"
  <2>1. ASSUME NEW s, s = <<"newRun", "loadIndex", "saveIndex", "dbRun">>
        PROVE  Told(op, s)
    BY <1>1, <2>1 DEF Told, Turn, Length, Has, TaskOp
  <2> QED
    BY <1>1, <2>1 DEF Program
<1>2. CASE op = "updateRunStatus"
  <2>1. ASSUME NEW s, s = <<"loadRun", "saveRun", "dbRun", "loadIndex", "saveIndex">>
        PROVE  Told(op, s)
    BY <1>2, <2>1 DEF Told, Turn, Length, Has, TaskOp
  <2> QED
    BY <1>2, <2>1 DEF Program
<1>3. CASE op = "addRunError"
  <2>1. ASSUME NEW s, s = <<"loadRun", "saveRun", "dbRun">>
        PROVE  Told(op, s)
    BY <1>3, <2>1 DEF Told, Turn, Length, Has, TaskOp
  <2> QED
    BY <1>3, <2>1 DEF Program
<1>4. CASE op = "saveTasks"
  <2>1. ASSUME NEW s, s = <<"writeTasks", "loadTaskIndex", "saveTaskIndex",
                       "loadRun", "saveRun", "dbRun", "dbTasks">>
        PROVE  Told(op, s)
    BY <1>4, <2>1 DEF Told, Turn, Length, Has, TaskOp
  <2> QED
    BY <1>4, <2>1 DEF Program
<1>5. CASE op = "updateTaskStatus"
  <2>1. ASSUME NEW s, s = <<"loadTasks", "writeTasks", "loadTaskIndex", "saveTaskIndex",
                       "loadRun", "saveRun", "dbRun", "dbTasks">>
        PROVE  Told(op, s)
    BY <1>5, <2>1 DEF Told, Turn, Length, Has, TaskOp
  <2> QED
    BY <1>5, <2>1 DEF Program
<1>6. CASE op = "duplicateRun"
  <2>1. ASSUME NEW s, s = <<"loadSource", "newRun", "loadIndex", "saveIndex", "dbRun",
                       "copyTasks", "writeTasks", "loadTaskIndex", "saveTaskIndex",
                       "loadRun", "saveRun", "dbRun", "dbTasks">>
        PROVE  Told(op, s)
    BY <1>6, <2>1 DEF Told, Turn, Length, Has, TaskOp
  <2> QED
    BY <1>6, <2>1 DEF Program
<1>7. CASE op = "deleteRunData"
  <2>1. ASSUME NEW s, s = <<"removeDir", "loadIndex", "saveIndex", "dbDelete">>
        PROVE  Told(op, s)
    BY <1>7, <2>1 DEF Told, Turn, Length, Has, TaskOp
  <2> QED
    BY <1>7, <2>1 DEF Program
<1>8. CASE op = "deleteRun"
  <2>1. ASSUME NEW s, s = <<"dbDelete">>
        PROVE  Told(op, s)
    BY <1>8, <2>1 DEF Told, Turn, Length, Has, TaskOp
  <2> QED
    BY <1>8, <2>1 DEF Program
<1>9. CASE op = "appendToRun"
  <2>1. ASSUME NEW s, s = <<"append", "dbRow">>
        PROVE  Told(op, s)
    BY <1>9, <2>1 DEF Told, Turn, Length, Has, TaskOp
  <2> QED
    BY <1>9, <2>1 DEF Program
<1>10. CASE op \in {"saveRunState", "createArtifact"}
  <2>1. ASSUME NEW s, s = <<"writeState", "dbRow">>
        PROVE  Told(op, s)
    BY <1>10, <2>1 DEF Told, Turn, Length, Has, TaskOp
  <2> QED
    BY <1>10, <2>1 DEF Program
<1>11. CASE op = "clean"
  <2>1. ASSUME NEW s, s = <<"removeDir">>
        PROVE  Told(op, s)
    BY <1>11, <2>1 DEF Told, Turn, Length, Has, TaskOp
  <2> QED
    BY <1>11, <2>1 DEF Program
<1> QED
  BY <1>1, <1>2, <1>3, <1>4, <1>5, <1>6, <1>7, <1>8, <1>9, <1>10, <1>11
     DEF Op, Listing

\* Which operation is at an access, and where it is after it.
LEMMA Taken ==
  ASSUME Inv, NEW c \in Client, Placed(c), NEW x, At(c, x)
  PROVE  /\ Turn(job[c].op, Left(c), x) /\ Left(c) \in Nat \ {0}
         /\ job[c].op \in Op
         /\ \A v : Proceeds(c, v) /\ Loads(v) => Left(c)' = Left(c) - 1 /\ Placed(c)'
<1> DEFINE s == job[c].rest
           p == Program(job[c].op)
<1>1. /\ Busy(c) /\ job[c] \in Job /\ R(c) \in Run
      /\ s # <<>> /\ Head(s) = x /\ s \in Seq(Step) /\ job[c].op \in Op
  BY NextAccess DEF At, Job
<1>2. /\ Len(s) \in 1 .. Len(p) /\ \A i \in 1 .. Len(s) : s[i] = p[Len(p) - Len(s) + i]
  BY <1>1 DEF Placed, Left
<1>3. /\ Len(s) \in Nat \ {0} /\ Head(s) = s[1]
      /\ Tail(s) \in Seq(Step) /\ Len(Tail(s)) = Len(s) - 1
      /\ \A i \in 1 .. Len(s) - 1 : Tail(s)[i] = s[i + 1]
  BY <1>1, HeadTailProperties
<1>4. p \in Seq(Step) /\ Len(p) \in Nat
  BY <1>1, ProgramFits DEF FitsWhole
<1>5. Turn(job[c].op, Len(s), x)
  <2> HIDE DEF s, p
  <2>1. 1 \in 1 .. Len(s)
    BY <1>3
  <2>2. x = p[Len(p) - Len(s) + 1]
    BY <1>1, <1>2, <1>3, <2>1
  <2> QED
    BY <1>1, <1>2, <2>2, ProgramTold DEF Told, p
<1>6. ASSUME NEW v, Proceeds(c, v), Loads(v)
      PROVE  Left(c)' = Left(c) - 1 /\ Placed(c)'
  <2>1. /\ job'[c].rest = Tail(s) /\ job'[c].op = job[c].op /\ Busy(c)'
        /\ Tail(s) # <<>>
    BY <1>6, Proceeded
  <2>2. Left(c)' = Len(Tail(s)) /\ Len(Tail(s)) # 0
    BY <1>3, <2>1, EmptySeq DEF Left
  <2> HIDE DEF s, p
  <2>3. ASSUME NEW i \in 1 .. Len(s) - 1
        PROVE  Tail(s)[i] = p[Len(p) - (Len(s) - 1) + i]
    <3>1. i + 1 \in 1 .. Len(s)
      BY <1>3
    <3>2. Len(p) - (Len(s) - 1) + i = Len(p) - Len(s) + (i + 1)
      BY <1>3, <1>4
    <3> QED
      BY <1>2, <1>3, <3>1, <3>2
  <2>4. Len(s) - 1 \in 1 .. Len(p)
    BY <1>2, <1>3, <1>4, <2>2
  <2>5. Placed(c)'
    BY <1>3, <2>1, <2>2, <2>3, <2>4 DEF Placed, p
  <2> QED
    BY <1>3, <2>2, <2>5 DEF Left, s
<1> QED
  BY <1>1, <1>3, <1>5, <1>6 DEF Left

-----------------------------------------------------------------------------
(* What a client holds of its run *)

\* It has loaded or written run.json.
HasRun(c) ==
  /\ Busy(c)
  /\ \/ job[c].op = "createRun" /\ Left(c) <= 3
     \/ job[c].op = "updateRunStatus" /\ Left(c) <= 4
     \/ job[c].op = "addRunError" /\ Left(c) <= 2
     \/ job[c].op \in {"saveTasks", "updateTaskStatus"} /\ Left(c) <= 3
     \/ job[c].op = "duplicateRun" /\ Left(c) <= 11

\* It has written tasks.json.
HasTasks(c) == Busy(c) /\ job[c].op \in TaskOp /\ Left(c) <= 6

\* It has removed the run.
HasRemoved(c) == Busy(c) /\ job[c].op = "deleteRunData" /\ Left(c) <= 3

\* It makes a run that has no tasks yet.
Makes(c) ==
  /\ Busy(c)
  /\ \/ job[c].op = "createRun"
     \/ job[c].op = "duplicateRun" /\ Left(c) >= 7

\* It has loaded the index and not saved it yet; it has saved it.
HasIndex(c) ==
  /\ Busy(c)
  /\ \/ job[c].op \in {"createRun", "deleteRunData"} /\ Left(c) = 2
     \/ job[c].op = "updateRunStatus" /\ Left(c) = 1
     \/ job[c].op = "duplicateRun" /\ Left(c) = 10
HasListed(c) ==
  /\ Busy(c)
  /\ \/ job[c].op \in {"createRun", "deleteRunData"} /\ Left(c) <= 1
     \/ job[c].op = "duplicateRun" /\ Left(c) <= 9

HoldsRun(c) ==
  /\ HasRun(c) => reg[c].run = run[R(c)] /\ run[R(c)] \in RunFile
  /\ HasRemoved(c) => run[R(c)] = None

HoldsTasks(c) ==
  /\ reg[c].tasks # None => Busy(c) /\ job[c].op \in TaskOp
  /\ Makes(c) => tasks[R(c)] = None
  /\ Busy(c) /\ job[c].op = "updateTaskStatus" => job[c].to \in Status
  /\ Busy(c) /\ job[c].op \in {"updateTaskStatus", "duplicateRun"} /\ Left(c) = 7
       => reg[c].tasks \in TasksFile
  /\ HasTasks(c) => reg[c].tasks = tasks[R(c)] /\ tasks[R(c)] \in TasksFile
  /\ HasTasks(c) /\ Left(c) <= 2 => run[R(c)].done = DoneIn(tasks[R(c)])

HoldsIndex(c) ==
  HasIndex(c) => reg[c].index = [r \in Run |-> reg[c].index[r]]

Holds(c) == Placed(c) /\ HoldsRun(c) /\ HoldsTasks(c) /\ HoldsIndex(c)

Shapes ==
  /\ tasks \in [Run -> TasksFile \cup {None}]
  /\ index = [r \in Run |-> index[r]]
  /\ db = [run |-> db.run, task |-> db.task, rows |-> db.rows]
  /\ db.run = [r \in Run |-> db.run[r]]

\* Everything but what the three properties say.
Sound == Inv /\ Shapes /\ \A c \in Client : Holds(c)

-----------------------------------------------------------------------------
(* Accesses, by what they load and what they change *)

Written(c) ==
  IF job[c].op = "saveTasks" THEN [t \in Task |-> "pending"] ELSE reg[c].tasks

LoadedBy(c, x, v) ==
  /\ v.run = IF x = "loadRun" THEN run[R(c)]
             ELSE IF x = "loadSource" THEN run[job[c].from]
             ELSE IF x \in {"newRun", "saveRun"} THEN run'[R(c)]
             ELSE reg[c].run
  /\ v.tasks = IF x = "loadTasks"
                 THEN [tasks[R(c)] EXCEPT ![job[c].task] = job[c].to]
               ELSE IF x = "copyTasks" THEN [t \in Task |-> "pending"]
               ELSE IF x = "writeTasks" THEN Written(c)
               ELSE reg[c].tasks
  /\ v.index = IF x = "loadIndex" THEN index ELSE reg[c].index

\* The accesses that write or remove run.json.
RunSteps == {"newRun", "saveRun", "removeDir"}

Changed(c, x) ==
  /\ run'[R(c)] = IF x = "newRun" THEN [status |-> "created", done |-> 0]
                  ELSE IF x = "saveRun" THEN Edited(c)
                  ELSE IF x = "removeDir" THEN None
                  ELSE run[R(c)]
  /\ tasks'[R(c)] = IF x = "writeTasks" THEN Written(c)
                    ELSE IF x = "removeDir" THEN None
                    ELSE tasks[R(c)]
  /\ index'[R(c)] = IF x # "saveIndex" THEN index[R(c)]
                    ELSE IF job[c].op = "deleteRunData" THEN None
                    ELSE reg[c].run.status
  /\ \/ x \in RunSteps /\ R(c) \notin mirrored'
     \/ x = "dbRun" /\ db'.run[R(c)] = reg[c].run.status
     \/ /\ x = "dbDelete" /\ db'.run[R(c)] = None
        /\ R(c) \in mirrored' => job[c].op = "deleteRunData"
     \/ /\ x \notin RunSteps /\ db'.run[R(c)] = db.run[R(c)]
        /\ R(c) \in mirrored' => R(c) \in mirrored
  /\ \A q \in mirrored' : q = R(c) \/ q \in mirrored
  /\ x = "loadRun" => run[R(c)] # None
  /\ x = "loadTasks" => tasks[R(c)] # None
  /\ \A q \in Run : q # R(c) =>
       /\ run'[q] = run[q] /\ tasks'[q] = tasks[q] /\ db'.run[q] = db.run[q]
       /\ index'[q] = IF x = "saveIndex" THEN reg[c].index[q] ELSE index[q]

\* An access to its end, and one that ends the operation early.
Did(c, x) ==
  \E v : Loads(v) /\ LoadedBy(c, x, v) /\ Changed(c, x) /\ Shapes' /\ Then(c, v)

Stopped(c, x) ==
  /\ Over(c) /\ UNCHANGED <<files, db, mirrored>>
  /\ \/ x = "loadRun" /\ run[R(c)] = None /\ UNCHANGED <<intact, settled>>
     \/ x \in {"loadSource", "loadTasks"} /\ UNCHANGED <<intact, settled>>
     \/ x = "copyTasks" /\ Concluded(c)

LEMMA RegIs ==
  ASSUME Inv, NEW c \in Client, NEW v
  PROVE  /\ [reg[c] EXCEPT !.run = v].run = v
         /\ [reg[c] EXCEPT !.run = v].tasks = reg[c].tasks
         /\ [reg[c] EXCEPT !.run = v].index = reg[c].index
         /\ [reg[c] EXCEPT !.tasks = v].run = reg[c].run
         /\ [reg[c] EXCEPT !.tasks = v].tasks = v
         /\ [reg[c] EXCEPT !.tasks = v].index = reg[c].index
         /\ [reg[c] EXCEPT !.index = v].run = reg[c].run
         /\ [reg[c] EXCEPT !.index = v].tasks = reg[c].tasks
         /\ [reg[c] EXCEPT !.index = v].index = v
         /\ [reg[c] EXCEPT !.taskIndex = v].run = reg[c].run
         /\ [reg[c] EXCEPT !.taskIndex = v].tasks = reg[c].tasks
         /\ [reg[c] EXCEPT !.taskIndex = v].index = reg[c].index
<1>1. PICK a, b, d, e :
        reg[c] = [run |-> a, tasks |-> b, index |-> d, taskIndex |-> e]
  BY DEF Inv, Types, Loads
<1> QED
  BY <1>1

LEMMA WithoutRunIs ==
  ASSUME NEW r \in Run, NEW v
  PROVE  /\ WithoutRun(r) = [run |-> WithoutRun(r).run,
                task |-> WithoutRun(r).task, rows |-> WithoutRun(r).rows]
         /\ WithoutRun(r).run = [db.run EXCEPT ![r] = None]
         /\ [WithoutRun(r) EXCEPT !.run[r] = v]
              = [run |-> [db.run EXCEPT ![r] = v],
                 task |-> WithoutRun(r).task, rows |-> WithoutRun(r).rows]
<1>1. PICK a, b : WithoutRun(r) = [run |-> [db.run EXCEPT ![r] = None],
                                  task |-> a, rows |-> b]
  BY DEF WithoutRun
<1>2. WithoutRun(r).run = [db.run EXCEPT ![r] = None]
      /\ WithoutRun(r).task = a /\ WithoutRun(r).rows = b
  BY <1>1
<1>3. [WithoutRun(r) EXCEPT !.run[r] = v]
        = [run |-> [[db.run EXCEPT ![r] = None] EXCEPT ![r] = v],
           task |-> a, rows |-> b]
  BY <1>1
<1>4. [[db.run EXCEPT ![r] = None] EXCEPT ![r] = v] = [db.run EXCEPT ![r] = v]
  OBVIOUS
<1> QED
  BY <1>1, <1>2, <1>3, <1>4

\* An access to a run of the client's, and where the client is.
LEMMA Here ==
  ASSUME Sound, NEW c \in Client, NEW x, At(c, x)
  PROVE  /\ Busy(c) /\ R(c) \in Run /\ R(c) \in Owns[c] /\ job[c].op \in Op
         /\ Turn(job[c].op, Left(c), x) /\ Left(c) \in Nat \ {0}
         /\ HoldsRun(c) /\ HoldsTasks(c) /\ HoldsIndex(c)
         /\ Loads(reg[c])
         /\ job[c].op = "updateRunStatus" => job[c].to \in RunStatus
         /\ job[c].op = "duplicateRun" => job[c].from \in Run
<1>1. Busy(c) /\ R(c) \in Run /\ R(c) \in Owns[c]
  BY NextAccess DEF Sound
<1>2. /\ Turn(job[c].op, Left(c), x) /\ Left(c) \in Nat \ {0}
      /\ job[c].op \in Op
  BY Taken DEF Sound, Holds
<1> QED
  BY <1>1, <1>2 DEF Sound, Holds, Inv, Types, Under

\* Accesses to the files of one run.
LEMMA RunAccess ==
  ASSUME Sound, NEW c \in Client,
         LoadRun(c) \/ LoadSource(c) \/ NewRun(c) \/ SaveRun(c) \/ RemoveDir(c)
  PROVE  \E x \in Step : At(c, x) /\ (Did(c, x) \/ Stopped(c, x))
<1> USE DEF Step
<1>1. ASSUME NEW x \in Step, At(c, x), NEW v, Then(c, v), Loads(v),
             LoadedBy(c, x, v), Changed(c, x), Shapes'
      PROVE  At(c, x) /\ Did(c, x)
  BY <1>1 DEF Did
<1>2. CASE LoadRun(c)
  <2>1. At(c, "loadRun")
    BY <1>2 DEF LoadRun
  <2>2. CASE run[R(c)] # None
    <3>1. /\ Then(c, [reg[c] EXCEPT !.run = run[R(c)]]) /\ UNCHANGED <<files, db, mirrored>>
      BY <1>2, <2>2 DEF LoadRun
    <3>2. run[R(c)] \in RunFile \cup {None}
      BY <2>1, Here DEF Sound, Inv, Types
    <3>3. Loads([reg[c] EXCEPT !.run = run[R(c)]])
      BY <3>2, RegLoads DEF Sound
    <3>4. LoadedBy(c, "loadRun", [reg[c] EXCEPT !.run = run[R(c)]])
      BY RegIs DEF LoadedBy, Sound
    <3>5. Changed(c, "loadRun") /\ Shapes'
      BY <2>2, <3>1 DEF Changed, RunSteps, Shapes, Sound, files
    <3> QED
      BY <1>1, <2>1, <3>1, <3>3, <3>4, <3>5
  <2>3. CASE run[R(c)] = None
    BY <1>2, <2>1, <2>3 DEF LoadRun, Aborts, Stopped
  <2> QED
    BY <2>2, <2>3
<1>3. CASE LoadSource(c)
  <2>1. At(c, "loadSource")
    BY <1>3 DEF LoadSource
  <2>2. CASE run[job[c].from] # None
    <3>1. /\ Then(c, [reg[c] EXCEPT !.run = run[job[c].from]])
          /\ UNCHANGED <<files, db, mirrored>>
      BY <1>3, <2>2 DEF LoadSource
    <3>2. run[job[c].from] \in RunFile \cup {None}
      BY <2>1, Here DEF Sound, Inv, Types, Turn
    <3>3. Loads([reg[c] EXCEPT !.run = run[job[c].from]])
      BY <3>2, RegLoads DEF Sound
    <3>4. LoadedBy(c, "loadSource", [reg[c] EXCEPT !.run = run[job[c].from]])
      BY RegIs DEF LoadedBy, Sound
    <3>5. Changed(c, "loadSource") /\ Shapes'
      BY <2>2, <3>1 DEF Changed, RunSteps, Shapes, Sound, files
    <3> QED
      BY <1>1, <2>1, <3>1, <3>3, <3>4, <3>5
  <2>3. CASE run[job[c].from] = None
    BY <1>3, <2>1, <2>3 DEF LoadSource, Aborts, Stopped
  <2> QED
    BY <2>2, <2>3
<1>4. CASE NewRun(c)
  <2> DEFINE new == [status |-> "created", done |-> 0]
  <2>1. At(c, "newRun") /\ run' = [run EXCEPT ![R(c)] = new]
        /\ Then(c, [reg[c] EXCEPT !.run = run'[R(c)]])
        /\ UNCHANGED <<tasks, index, db>> /\ mirrored' = mirrored \ {R(c)}
    BY <1>4 DEF NewRun
  <2>2. R(c) \in Run
    BY <2>1, Here
  <2>3. Cardinality(Task) \in Nat
    BY StoreAssumption, FS_CardinalityType
  <2>4. new \in RunFile
    BY <2>3 DEF RunFile, RunStatus
  <2> HIDE DEF new
  <2>5. run'[R(c)] = new /\ \A q \in Run : q # R(c) => run'[q] = run[q]
    BY <2>1, <2>2 DEF Sound, Inv, Types
  <2>6. Loads([reg[c] EXCEPT !.run = run'[R(c)]])
    BY <2>4, <2>5, RegLoads DEF Sound
  <2>7. LoadedBy(c, "newRun", [reg[c] EXCEPT !.run = run'[R(c)]])
    BY RegIs DEF LoadedBy, Sound
  <2>8. Changed(c, "newRun") /\ Shapes'
    BY <2>1, <2>5 DEF Changed, RunSteps, Shapes, Sound, new
  <2> QED
    BY <1>1, <2>1, <2>6, <2>7, <2>8
<1>5. CASE SaveRun(c)
  <2>1. At(c, "saveRun") /\ run' = [run EXCEPT ![R(c)] = Edited(c)]
        /\ Then(c, [reg[c] EXCEPT !.run = Edited(c)])
        /\ UNCHANGED <<tasks, index, db>> /\ mirrored' = mirrored \ {R(c)}
    BY <1>5 DEF SaveRun
  <2>2. /\ R(c) \in Run /\ HoldsRun(c) /\ HasRun(c)
        /\ job[c].op = "updateRunStatus" => job[c].to \in RunStatus
    BY <2>1, Here DEF Turn, HasRun, TaskOp
  <2>3. Edited(c) \in RunFile
    BY <2>2, EditedIs DEF HoldsRun
  <2>4. run'[R(c)] = Edited(c) /\ \A q \in Run : q # R(c) => run'[q] = run[q]
    BY <2>1, <2>2 DEF Sound, Inv, Types
  <2>5. Loads([reg[c] EXCEPT !.run = Edited(c)])
    BY <2>3, RegLoads DEF Sound
  <2>6. LoadedBy(c, "saveRun", [reg[c] EXCEPT !.run = Edited(c)])
    BY <2>4, RegIs DEF LoadedBy, Sound
  <2>7. Changed(c, "saveRun") /\ Shapes'
    BY <2>1, <2>4 DEF Changed, RunSteps, Shapes, Sound
  <2> QED
    BY <1>1, <2>1, <2>5, <2>6, <2>7
<1>6. CASE RemoveDir(c)
  <2>1. At(c, "removeDir") /\ run' = [run EXCEPT ![R(c)] = None]
        /\ tasks' = [tasks EXCEPT ![R(c)] = None]
        /\ Then(c, reg[c]) /\ UNCHANGED <<index, db>>
        /\ mirrored' = mirrored \ {R(c)}
    BY <1>6 DEF RemoveDir
  <2>2. R(c) \in Run /\ Loads(reg[c])
    BY <2>1, Here
  <2>3. LoadedBy(c, "removeDir", reg[c])
    BY DEF LoadedBy
  <2>4. Changed(c, "removeDir") /\ Shapes'
    BY <2>1, <2>2 DEF Changed, RunSteps, Shapes, Sound, Inv, Types
  <2> QED
    BY <1>1, <2>1, <2>2, <2>3, <2>4
<1> QED
  BY <1>2, <1>3, <1>4, <1>5, <1>6

LEMMA TasksAccess ==
  ASSUME Sound, NEW c \in Client,
         \/ LoadTasks(c) \/ CopyTasks(c) \/ WriteTasks(c)
         \/ LoadTaskIndex(c) \/ SaveTaskIndex(c)
  PROVE  \E x \in Step : At(c, x) /\ (Did(c, x) \/ Stopped(c, x))
<1> USE DEF Step
<1>1. ASSUME NEW x \in Step, At(c, x), NEW v, Then(c, v), Loads(v),
             LoadedBy(c, x, v), Changed(c, x), Shapes'
      PROVE  At(c, x) /\ Did(c, x)
  BY <1>1 DEF Did
<1>2. CASE LoadTasks(c)
  <2> DEFINE list == [tasks[R(c)] EXCEPT ![job[c].task] = job[c].to]
  <2>1. At(c, "loadTasks")
    BY <1>2 DEF LoadTasks
  <2>2. CASE tasks[R(c)] # None
    <3>1. Then(c, [reg[c] EXCEPT !.tasks = list]) /\ UNCHANGED <<files, db, mirrored>>
      BY <1>2, <2>2 DEF LoadTasks
    <3>2. /\ Loads([reg[c] EXCEPT !.tasks = list])
          /\ LoadedBy(c, "loadTasks", [reg[c] EXCEPT !.tasks = list])
      <4>1. Loads([reg[c] EXCEPT !.tasks = list])
        BY RegLoads DEF Sound
      <4>2. LoadedBy(c, "loadTasks", [reg[c] EXCEPT !.tasks = list])
        BY RegIs DEF LoadedBy, Sound
      <4> QED
        BY <4>1, <4>2
    <3>3. Changed(c, "loadTasks") /\ Shapes'
      BY <2>2, <3>1 DEF Changed, RunSteps, Shapes, Sound, files
    <3> QED
      BY <1>1, <2>1, <3>1, <3>2, <3>3
  <2>3. CASE tasks[R(c)] = None
    BY <1>2, <2>1, <2>3 DEF LoadTasks, Aborts, Stopped
  <2> QED
    BY <2>2, <2>3
<1>3. CASE CopyTasks(c)
  <2> DEFINE list == [t \in Task |-> "pending"]
  <2>1. At(c, "copyTasks")
    BY <1>3 DEF CopyTasks
  <2>2. CASE tasks[job[c].from] # None
    <3>1. Then(c, [reg[c] EXCEPT !.tasks = list]) /\ UNCHANGED <<files, db, mirrored>>
      BY <1>3, <2>2 DEF CopyTasks
    <3>2. /\ Loads([reg[c] EXCEPT !.tasks = list])
          /\ LoadedBy(c, "copyTasks", [reg[c] EXCEPT !.tasks = list])
      <4>1. Loads([reg[c] EXCEPT !.tasks = list])
        BY RegLoads DEF Sound
      <4>2. LoadedBy(c, "copyTasks", [reg[c] EXCEPT !.tasks = list])
        BY RegIs DEF LoadedBy, Sound
      <4> QED
        BY <4>1, <4>2
    <3>3. Changed(c, "copyTasks") /\ Shapes'
      BY <3>1 DEF Changed, RunSteps, Shapes, Sound, files
    <3> QED
      BY <1>1, <2>1, <3>1, <3>2, <3>3
  <2>3. CASE tasks[job[c].from] = None
    BY <1>3, <2>1, <2>3 DEF CopyTasks, Stopped
  <2> QED
    BY <2>2, <2>3
<1>4. CASE WriteTasks(c)
  <2>1. /\ At(c, "writeTasks") /\ tasks' = [tasks EXCEPT ![R(c)] = Written(c)]
        /\ Then(c, [reg[c] EXCEPT !.tasks = Written(c)])
        /\ UNCHANGED <<run, index, db, mirrored>>
    BY <1>4 DEF WriteTasks, Written
  <2>2. R(c) \in Run /\ Written(c) \in TasksFile
    BY <2>1, Here DEF Turn, TaskOp, HoldsTasks, Written, TasksFile, Status
  <2>3. /\ Loads([reg[c] EXCEPT !.tasks = Written(c)])
        /\ LoadedBy(c, "writeTasks", [reg[c] EXCEPT !.tasks = Written(c)])
    <3>1. Loads([reg[c] EXCEPT !.tasks = Written(c)])
      BY RegLoads DEF Sound
    <3>2. LoadedBy(c, "writeTasks", [reg[c] EXCEPT !.tasks = Written(c)])
      BY RegIs DEF LoadedBy, Sound
    <3> QED
      BY <3>1, <3>2
  <2>4. Changed(c, "writeTasks") /\ Shapes'
    BY <2>1, <2>2 DEF Changed, RunSteps, Shapes, Sound
  <2> QED
    BY <1>1, <2>1, <2>3, <2>4
<1>5. CASE LoadTaskIndex(c)
  <2>1. /\ At(c, "loadTaskIndex") /\ Then(c, [reg[c] EXCEPT !.taskIndex = taskIndex])
        /\ UNCHANGED <<run, tasks, index, db, mirrored>>
    BY <1>5 DEF LoadTaskIndex, files
  <2>2. /\ Loads([reg[c] EXCEPT !.taskIndex = taskIndex])
        /\ LoadedBy(c, "loadTaskIndex", [reg[c] EXCEPT !.taskIndex = taskIndex])
    <3>1. Loads([reg[c] EXCEPT !.taskIndex = taskIndex])
      BY RegLoads DEF Sound
    <3>2. LoadedBy(c, "loadTaskIndex", [reg[c] EXCEPT !.taskIndex = taskIndex])
      BY RegIs DEF LoadedBy, Sound
    <3> QED
      BY <3>1, <3>2
  <2>3. Changed(c, "loadTaskIndex") /\ Shapes'
    BY <2>1 DEF Changed, RunSteps, Shapes, Sound
  <2> QED
    BY <1>1, <2>1, <2>2, <2>3
<1>6. CASE SaveTaskIndex(c)
  <2>1. /\ At(c, "saveTaskIndex") /\ Then(c, reg[c])
        /\ UNCHANGED <<run, tasks, index, db, mirrored>>
    BY <1>6 DEF SaveTaskIndex
  <2>2. Loads(reg[c]) /\ LoadedBy(c, "saveTaskIndex", reg[c])
    BY RegLoads DEF LoadedBy, Sound
  <2>3. Changed(c, "saveTaskIndex") /\ Shapes'
    BY <2>1 DEF Changed, RunSteps, Shapes, Sound
  <2> QED
    BY <1>1, <2>1, <2>2, <2>3
<1> QED
  BY <1>2, <1>3, <1>4, <1>5, <1>6

LEMMA IndexAccess ==
  ASSUME Sound, NEW c \in Client,
         LoadIndex(c) \/ SaveIndex(c) \/ AppendLine(c) \/ WriteState(c)
  PROVE  \E x \in Step : At(c, x) /\ Did(c, x)
<1> USE DEF Step
<1>1. ASSUME NEW x \in Step, At(c, x), NEW v, Then(c, v), Loads(v),
             LoadedBy(c, x, v), Changed(c, x), Shapes'
      PROVE  At(c, x) /\ Did(c, x)
  BY <1>1 DEF Did
<1>2. CASE LoadIndex(c)
  <2>1. /\ At(c, "loadIndex") /\ Then(c, [reg[c] EXCEPT !.index = index])
        /\ UNCHANGED <<run, tasks, index, db, mirrored>>
    BY <1>2 DEF LoadIndex, files
  <2>2. /\ Loads([reg[c] EXCEPT !.index = index])
        /\ LoadedBy(c, "loadIndex", [reg[c] EXCEPT !.index = index])
    <3>1. Loads([reg[c] EXCEPT !.index = index])
      BY RegLoads DEF Sound
    <3>2. LoadedBy(c, "loadIndex", [reg[c] EXCEPT !.index = index])
      BY RegIs DEF LoadedBy, Sound
    <3> QED
      BY <3>1, <3>2
  <2>3. Changed(c, "loadIndex") /\ Shapes'
    BY <2>1 DEF Changed, RunSteps, Shapes, Sound
  <2> QED
    BY <1>1, <2>1, <2>2, <2>3
<1>3. CASE SaveIndex(c)
  <2> DEFINE entry == IF job[c].op = "deleteRunData" THEN None ELSE reg[c].run.status
  <2>1. /\ At(c, "saveIndex") /\ Then(c, reg[c])
        /\ index' = [reg[c].index EXCEPT ![R(c)] = entry]
        /\ UNCHANGED <<run, tasks, db, mirrored>>
    BY <1>3 DEF SaveIndex
  <2>2. R(c) \in Run /\ reg[c].index = [r \in Run |-> reg[c].index[r]]
    BY <2>1, Here DEF Turn, HoldsIndex, HasIndex
  <2>3. Loads(reg[c]) /\ LoadedBy(c, "saveIndex", reg[c])
    BY RegLoads DEF LoadedBy, Sound
  <2>4. index' = [r \in Run |-> IF r = R(c) THEN entry ELSE reg[c].index[r]]
    BY <2>1, <2>2
  <2>5. index' = [r \in Run |-> index'[r]]
    BY <2>4
  <2>6. Shapes'
    BY <2>1, <2>5 DEF Shapes, Sound
  <2>7. Changed(c, "saveIndex")
    BY <2>1, <2>2, <2>4 DEF Changed, RunSteps
  <2> QED
    BY <1>1, <2>1, <2>3, <2>6, <2>7
<1>4. CASE AppendLine(c) \/ WriteState(c)
  <2>1. PICK x \in {"append", "writeState"} :
          /\ At(c, x) /\ Then(c, reg[c]) /\ UNCHANGED <<run, tasks, index, db, mirrored>>
    BY <1>4 DEF AppendLine, WriteState, files
  <2>2. Loads(reg[c]) /\ LoadedBy(c, x, reg[c])
    BY RegLoads DEF LoadedBy, Sound
  <2>3. Changed(c, x) /\ Shapes'
    BY <2>1 DEF Changed, RunSteps, Shapes, Sound
  <2> QED
    BY <1>1, <2>1, <2>2, <2>3
<1> QED
  BY <1>2, <1>3, <1>4

LEMMA DbAccess ==
  ASSUME Sound, NEW c \in Client,
         DbRun(c) \/ DbTasks(c) \/ DbRow(c) \/ DbDelete(c) \/ DbFails(c)
  PROVE  \E x \in Step : At(c, x) /\ Did(c, x)
<1> USE DEF Step
<1>1. ASSUME NEW x \in {"dbRun", "dbTasks", "dbRow", "dbDelete"}, At(c, x),
             Then(c, reg[c]), UNCHANGED files, NEW to, NEW a, NEW b,
             db' = [run |-> to, task |-> a, rows |-> b],
             \/ to = db.run /\ mirrored' = mirrored
             \/ /\ x = "dbRun" /\ to = [db.run EXCEPT ![R(c)] = reg[c].run.status]
                /\ mirrored' = mirrored \cup {R(c)}
             \/ /\ x = "dbDelete" /\ to = [db.run EXCEPT ![R(c)] = None]
                /\ mirrored' = IF job[c].op = "deleteRun" THEN mirrored \ {R(c)}
                               ELSE mirrored \cup {R(c)}
      PROVE  At(c, x) /\ Did(c, x)
  <2>1. Loads(reg[c]) /\ LoadedBy(c, x, reg[c])
    BY <1>1, RegLoads DEF LoadedBy, Sound
  <2>2. R(c) \in Run
    BY <1>1, Here
  <2>3. db'.run = to /\ db' = [run |-> db'.run, task |-> db'.task, rows |-> db'.rows]
    BY <1>1
  <2>4. to = [r \in Run |-> to[r]]
    BY <1>1 DEF Sound, Shapes
  <2>5. Shapes'
    BY <1>1, <2>3, <2>4 DEF Shapes, Sound, files
  <2>6. \A q \in Run : q # R(c) => to[q] = db.run[q]
    BY <1>1 DEF Sound, Shapes
  <2>8. job[c].op \in {"deleteRunData", "deleteRun"} \/ x # "dbDelete"
    BY <1>1, Here DEF Turn
  <2>9. \/ /\ to[R(c)] = db.run[R(c)] /\ mirrored' = mirrored
        \/ x = "dbRun" /\ to[R(c)] = reg[c].run.status
        \/ /\ x = "dbDelete" /\ to[R(c)] = None
           /\ R(c) \in mirrored' => job[c].op = "deleteRunData"
    BY <1>1, <2>2, <2>8 DEF Sound, Shapes
  <2>10. \A q \in mirrored' : q = R(c) \/ q \in mirrored
    BY <1>1
  <2>11. Changed(c, x)
    BY <1>1, <2>3, <2>6, <2>9, <2>10 DEF Changed, RunSteps, files
  <2> QED
    BY <1>1, <2>1, <2>5, <2>11 DEF Did
<1>2. db = [run |-> db.run, task |-> db.task, rows |-> db.rows]
  BY DEF Sound, Shapes
<1>3. CASE DbRun(c)
  <2>1. /\ At(c, "dbRun") /\ Then(c, reg[c]) /\ UNCHANGED files
        /\ db' = IF c \notin HasDb THEN db
                 ELSE [WithoutRun(R(c)) EXCEPT !.run[R(c)] = reg[c].run.status]
        /\ mirrored' = IF c \notin HasDb THEN mirrored ELSE mirrored \cup {R(c)}
    BY <1>3 DEF DbRun
  <2>2. R(c) \in Run
    BY <2>1, Here
  <2>3. CASE c \notin HasDb
    BY <1>1, <1>2, <2>1, <2>3
  <2>4. CASE c \in HasDb
    <3>1. db' = [run |-> [db.run EXCEPT ![R(c)] = reg[c].run.status],
                 task |-> WithoutRun(R(c)).task, rows |-> WithoutRun(R(c)).rows]
      BY <2>1, <2>2, <2>4, WithoutRunIs
    <3>2. At(c, "dbRun") /\ Then(c, reg[c]) /\ UNCHANGED files
      BY <2>1
    <3>3. mirrored' = mirrored \cup {R(c)}
      BY <2>1, <2>4
    <3> QED
      BY <1>1, <3>1, <3>2, <3>3
  <2> QED
    BY <2>3, <2>4
<1>4. CASE DbTasks(c)
  <2>1. PICK a, b : /\ At(c, "dbTasks") /\ Then(c, reg[c])
                    /\ UNCHANGED <<files, mirrored>>
                    /\ db' = IF c \notin HasDb \/ db.run[R(c)] = None THEN db
                             ELSE [db EXCEPT !.task = a, !.rows = b]
    BY <1>4 DEF DbTasks
  <2>2. [db EXCEPT !.task = a, !.rows = b] = [run |-> db.run, task |-> a, rows |-> b]
    <3>1. [db EXCEPT !.task = a] = [run |-> db.run, task |-> a, rows |-> db.rows]
      BY <1>2
    <3>2. [db EXCEPT !.task = a, !.rows = b] = [[db EXCEPT !.task = a] EXCEPT !.rows = b]
      OBVIOUS
    <3>3. ASSUME NEW w, w = [run |-> db.run, task |-> a, rows |-> db.rows]
          PROVE  [w EXCEPT !.rows = b] = [run |-> db.run, task |-> a, rows |-> b]
      BY <3>3
    <3> QED
      BY <3>1, <3>2, <3>3
  <2> QED
    BY <1>1, <1>2, <2>1, <2>2
<1>5. CASE DbRow(c)
  <2>1. PICK b, yes : /\ At(c, "dbRow") /\ Then(c, reg[c])
                      /\ UNCHANGED <<files, mirrored>>
                      /\ db' = IF yes THEN [db EXCEPT !.rows = b] ELSE db
    BY <1>5 DEF DbRow
  <2>2. [db EXCEPT !.rows = b] = [run |-> db.run, task |-> db.task, rows |-> b]
    BY <1>2
  <2> QED
    BY <1>1, <1>2, <2>1, <2>2
<1>6. CASE DbDelete(c)
  <2>1. /\ At(c, "dbDelete") /\ Then(c, reg[c]) /\ UNCHANGED files
        /\ db' = IF c \in HasDb THEN WithoutRun(R(c)) ELSE db
        /\ mirrored' = IF c \notin HasDb THEN mirrored
                       ELSE IF job[c].op = "deleteRun" THEN mirrored \ {R(c)}
                       ELSE mirrored \cup {R(c)}
    BY <1>6 DEF DbDelete
  <2>2. R(c) \in Run
    BY <2>1, Here
  <2>3. CASE c \notin HasDb
    BY <1>1, <1>2, <2>1, <2>3
  <2>4. CASE c \in HasDb
    <3>1. db' = [run |-> [db.run EXCEPT ![R(c)] = None],
                 task |-> WithoutRun(R(c)).task, rows |-> WithoutRun(R(c)).rows]
      <4>1. WithoutRun(R(c)).run = [db.run EXCEPT ![R(c)] = None]
        BY <2>2, WithoutRunIs
      <4>2. WithoutRun(R(c)) =
              [run |-> WithoutRun(R(c)).run, task |-> WithoutRun(R(c)).task,
               rows |-> WithoutRun(R(c)).rows]
        BY <2>2, WithoutRunIs
      <4> QED
        BY <2>1, <2>4, <4>1, <4>2
    <3> QED
      BY <1>1, <2>1, <2>4, <3>1
  <2> QED
    BY <2>3, <2>4
<1>7. CASE DbFails(c)
  <2>1. PICK x \in {"dbRun", "dbTasks", "dbRow", "dbDelete"} :
          At(c, x) /\ Then(c, reg[c]) /\ UNCHANGED <<files, db, mirrored>>
    BY <1>7 DEF DbFails
  <2> QED
    BY <1>1, <1>2, <2>1
<1> QED
  BY <1>3, <1>4, <1>5, <1>6, <1>7

LEMMA AccessIs ==
  ASSUME Sound, NEW c \in Client, Access(c)
  PROVE  \E x \in Step : At(c, x) /\ (Did(c, x) \/ Stopped(c, x))
BY RunAccess, TasksAccess, IndexAccess, DbAccess DEF Access

-----------------------------------------------------------------------------
(* What a client holds is kept *)

LEMMA OthersHold ==
  ASSUME OneWriter, Sound, NEW c \in Client, NEW d \in Client, d # c,
         job'[d] = job[d], reg'[d] = reg[d],
         \A q \in Run : q \in Owns[c] \/ (run'[q] = run[q] /\ tasks'[q] = tasks[q])
  PROVE  Holds(d)'
<1>1. CASE ~Busy(d)
  BY <1>1 DEF Sound, Holds, Placed, HoldsRun, HoldsTasks, HoldsIndex, Busy,
     HasRun, HasRemoved, Makes, HasTasks, HasIndex
<1>2. CASE Busy(d)
  <2>1. R(d) \in Owns[d] /\ R(d) \in Run
    BY <1>2, StoreAssumption DEF Sound, Inv, Under
  <2>2. R(d) \notin Owns[c]
    BY <2>1 DEF OneWriter
  <2>3. run'[R(d)] = run[R(d)] /\ tasks'[R(d)] = tasks[R(d)]
    BY <2>1, <2>2
  <2>4. /\ Busy(d)' <=> Busy(d)
        /\ R(d)' = R(d) /\ Left(d)' = Left(d)
    BY DEF Busy, R, Left
  <2>5. run'[R(d)'] = run[R(d)] /\ tasks'[R(d)'] = tasks[R(d)]
    BY <2>3, <2>4
  <2>6. Placed(d)' /\ HoldsIndex(d)'
    BY <2>4 DEF Sound, Holds, Placed, HoldsIndex, HasIndex
  <2>7. HoldsRun(d)'
    BY <2>4, <2>5 DEF Sound, Holds, HoldsRun, HasRun, HasRemoved
  <2>8. DoneIn(tasks[R(d)])' = DoneIn(tasks[R(d)])
    BY <2>5 DEF DoneIn
  <2>9. HoldsTasks(d)'
    BY <2>4, <2>5, <2>8 DEF Sound, Holds, HoldsTasks, Makes, HasTasks
  <2> QED
    BY <2>6, <2>7, <2>9 DEF Holds
<1> QED
  BY <1>1, <1>2

LEMMA HoldsAfter ==
  ASSUME Sound, NEW c \in Client, NEW x \in Step, At(c, x),
         NEW v, Loads(v), LoadedBy(c, x, v), Changed(c, x), Proceeds(c, v)
  PROVE  Holds(c)'
<1>1. /\ Busy(c) /\ R(c) \in Run /\ job[c].op \in Op
      /\ Turn(job[c].op, Left(c), x) /\ Left(c) \in Nat \ {0}
      /\ HoldsRun(c) /\ HoldsTasks(c) /\ HoldsIndex(c)
      /\ job[c].op = "updateRunStatus" => job[c].to \in RunStatus
  BY Here
<1>2. Left(c)' = Left(c) - 1 /\ Placed(c)'
  BY Taken DEF Sound, Holds
<1>3. /\ job'[c].op = job[c].op /\ job'[c].to = job[c].to /\ R(c)' = R(c)
      /\ Busy(c)' /\ reg'[c] = v
  BY Proceeded DEF Sound
<1>4. /\ x = "newRun" => [status |-> "created", done |-> 0] \in RunFile
      /\ x = "saveRun" => Edited(c) \in RunFile
  <2>1. Cardinality(Task) \in Nat
    BY StoreAssumption, FS_CardinalityType
  <2>2. x = "saveRun" => HasRun(c)
    BY <1>1 DEF HasRun, Turn, TaskOp
  <2>3. x = "saveRun" => Edited(c) \in RunFile
    BY <1>1, <2>2, EditedIs DEF HoldsRun
  <2> QED
    BY <2>1, <2>3 DEF RunFile, RunStatus
<1>5. HoldsRun(c)'
  <2>1. HasRun(c)' => HasRun(c) \/ x \in {"loadRun", "newRun"}
    BY <1>1, <1>2, <1>3 DEF HasRun, Turn, TaskOp, Step
  <2>2. HasRun(c)' => x \notin {"loadSource", "removeDir"}
    BY <1>1, <1>2, <1>3 DEF HasRun, Turn, TaskOp, Step
  <2>3. HasRemoved(c)' => HasRemoved(c) \/ x = "removeDir"
    BY <1>1, <1>2, <1>3 DEF HasRemoved, Turn, TaskOp, Step
  <2>4. HasRemoved(c)' => x \notin {"newRun", "saveRun"}
    BY <1>1, <1>2, <1>3 DEF HasRemoved, Turn, TaskOp, Step
  <2>5. x \in {"newRun", "saveRun"} => run'[R(c)] \in RunFile
    BY <1>4 DEF Changed
  <2>6. HasRun(c)' => reg'[c].run = run'[R(c)] /\ run'[R(c)] \in RunFile
    <3>1. CASE x \in {"newRun", "saveRun"}
      BY <1>3, <2>5, <3>1 DEF LoadedBy
    <3>2. CASE x \notin {"newRun", "saveRun"}
      <4>1. run[R(c)] \in RunFile \cup {None}
        BY <1>1 DEF Sound, Inv, Types
      <4> QED
        BY <1>1, <1>3, <2>1, <2>2, <3>2, <4>1 DEF LoadedBy, Changed, HoldsRun
    <3> QED
      BY <3>1, <3>2
  <2>7. HasRemoved(c)' => run'[R(c)] = None
    BY <1>1, <2>3, <2>4 DEF Changed, HoldsRun
  <2> QED
    BY <1>3, <2>6, <2>7 DEF HoldsRun
<1>6. HoldsTasks(c)'
  <2> DEFINE n == DoneIn(reg[c].tasks)
  <2>1. reg'[c].tasks # None => job[c].op \in TaskOp
    BY <1>1, <1>3 DEF LoadedBy, Turn, TaskOp, HoldsTasks
  <2>2. Makes(c)' => tasks'[R(c)] = None
    BY <1>1, <1>2, <1>3 DEF Makes, Changed, Turn, TaskOp, HoldsTasks
  <2>3. ASSUME job[c].op \in {"updateTaskStatus", "duplicateRun"}, Left(c) = 8
        PROVE  reg'[c].tasks \in TasksFile
    <3>1. x = IF job[c].op = "duplicateRun" THEN "copyTasks" ELSE "loadTasks"
      BY <1>1, <2>3 DEF Turn, TaskOp, Step
    <3>2. CASE x = "loadTasks"
      <4>1. tasks[R(c)] \in TasksFile
        BY <1>1, <3>2 DEF Changed, Sound, Shapes
      <4>2. job[c].to \in Status
        BY <1>1, <2>3, <3>1, <3>2 DEF HoldsTasks
      <4> QED
        BY <1>3, <3>2, <4>1, <4>2 DEF LoadedBy, TasksFile
    <3>3. CASE x = "copyTasks"
      BY <1>3, <3>3 DEF LoadedBy, TasksFile, Status
    <3> QED
      BY <3>1, <3>2, <3>3
  <2>4. HasTasks(c)' => x = "writeTasks" \/ HasTasks(c)
    BY <1>1, <1>2, <1>3 DEF HasTasks, Turn, TaskOp, Step
  <2>5. HasTasks(c)' => x \notin {"loadTasks", "copyTasks", "removeDir", "newRun"}
    BY <1>1, <1>2, <1>3 DEF HasTasks, Turn, TaskOp, Step
  <2>6. HasTasks(c)' => reg'[c].tasks = tasks'[R(c)]
    BY <1>1, <1>3, <2>4, <2>5 DEF LoadedBy, Changed, HoldsTasks
  <2>7. x = "writeTasks" => Written(c) \in TasksFile
    BY <1>1 DEF Written, HoldsTasks, Turn, TaskOp, TasksFile, Status
  <2>8. HasTasks(c)' => tasks'[R(c)] \in TasksFile
    BY <1>1, <2>4, <2>5, <2>7 DEF Changed, HoldsTasks
  <2>9. ASSUME HasTasks(c)', Left(c)' <= 2
        PROVE  run'[R(c)].done = DoneIn(tasks'[R(c)])
    <3>1. HasTasks(c) /\ x # "writeTasks" /\ (x = "saveRun" \/ Left(c) <= 2)
      BY <1>1, <1>2, <1>3, <2>9 DEF HasTasks, Turn, TaskOp, Step
    <3>2. tasks'[R(c)] = tasks[R(c)] /\ reg[c].tasks = tasks[R(c)]
          /\ reg[c].tasks \in TasksFile
      BY <1>1, <2>5, <2>9, <3>1 DEF Changed, HoldsTasks
    <3>3. CASE x = "saveRun"
      <4>1. run'[R(c)] = Edited(c) /\ HasRun(c)
        BY <1>1, <3>3 DEF Changed, HasRun, Turn, TaskOp
      <4>2. reg[c].tasks # None /\ job[c].op # "updateRunStatus"
        BY <3>1, <3>2, NoneAssumption DEF HasTasks, TaskOp
      <4>3. Edited(c) = [reg[c].run EXCEPT !.done = n]
        BY <4>2 DEF Edited
      <4>4. reg[c].run \in RunFile
        BY <1>1, <4>1 DEF HoldsRun
      <4> HIDE DEF n
      <4>5. [reg[c].run EXCEPT !.done = n].done = n
        BY <4>4 DEF RunFile
      <4> QED
        BY <3>2, <4>1, <4>3, <4>5 DEF n
    <3>4. CASE x # "saveRun"
      <4>1. run'[R(c)] = run[R(c)]
        BY <2>5, <2>9, <3>4 DEF Changed
      <4> QED
        BY <1>1, <3>1, <3>2, <3>4, <4>1 DEF HoldsTasks
    <3> QED
      BY <3>3, <3>4
  <2>10. DoneIn(tasks[R(c)])' = DoneIn(tasks'[R(c)])
    BY <1>3 DEF DoneIn
  <2>11. Left(c)' = 7 => Left(c) = 8
    BY <1>1, <1>2
  <2> QED
    BY <1>1, <1>3, <2>1, <2>2, <2>3, <2>6, <2>8, <2>9, <2>10, <2>11 DEF HoldsTasks
<1>7. HoldsIndex(c)'
  <2>1. HasIndex(c)' => x = "loadIndex"
    BY <1>1, <1>2, <1>3 DEF HasIndex, Turn, TaskOp, Step
  <2>2. index = [r \in Run |-> index[r]]
    BY DEF Sound, Shapes
  <2> QED
    BY <1>3, <2>1, <2>2 DEF LoadedBy, HoldsIndex
<1> QED
  BY <1>2, <1>5, <1>6, <1>7 DEF Holds

-----------------------------------------------------------------------------
(* Beginnings and ends *)

\* A client begins an operation.
Starts(c, new) ==
  /\ Begun(new) /\ Begin(c, new)
  /\ new.op \in {"createRun", "duplicateRun"} => tasks[new.run] = None
  /\ new.op = "updateTaskStatus" => new.to \in Status

LEMMA JobFields ==
  ASSUME NEW op, NEW r
  PROVE  /\ NewJob(op, r).op = op /\ NewJob(op, r).run = r
         /\ \A to : [NewJob(op, r) EXCEPT !.to = to].op = op
         /\ \A t : [NewJob(op, r) EXCEPT !.task = t].op = op
         /\ \A t, to : LET j == [NewJob(op, r) EXCEPT !.task = t, !.to = to]
                       IN j.op = op /\ j.to = to
         /\ \A q : LET j == [NewJob(op, r) EXCEPT !.from = q]
                   IN j.op = op /\ j.run = r
<1>1. PICK n, p : NewJob(op, r) = [op |-> op, run |-> r, to |-> None, task |-> None,
                                   from |-> None, id |-> n, rest |-> p]
  BY DEF NewJob
<1>2. ASSUME NEW t, NEW to
      PROVE  [NewJob(op, r) EXCEPT !.task = t, !.to = to]
               = [op |-> op, run |-> r, to |-> to, task |-> t,
                  from |-> None, id |-> n, rest |-> p]
  <2>1. [NewJob(op, r) EXCEPT !.task = t, !.to = to]
          = [[NewJob(op, r) EXCEPT !.task = t] EXCEPT !.to = to]
    OBVIOUS
  <2>2. [NewJob(op, r) EXCEPT !.task = t]
          = [op |-> op, run |-> r, to |-> None, task |-> t,
             from |-> None, id |-> n, rest |-> p]
    BY <1>1
  <2>3. ASSUME NEW w, w = [op |-> op, run |-> r, to |-> None, task |-> t,
                           from |-> None, id |-> n, rest |-> p]
        PROVE  [w EXCEPT !.to = to]
                 = [op |-> op, run |-> r, to |-> to, task |-> t,
                    from |-> None, id |-> n, rest |-> p]
    BY <2>3
  <2> QED
    BY <2>1, <2>2, <2>3
<1>3. \A t, to : LET j == [NewJob(op, r) EXCEPT !.task = t, !.to = to]
                 IN j.op = op /\ j.to = to
  BY <1>2
<1> QED
  BY <1>1, <1>3

LEMMA AsksIs ==
  ASSUME Sound, NEW c \in Client, Asks(c)
  PROVE  \E new : Starts(c, new)
<1>1. ASSUME NEW op \in Op, NEW r \in Run,
             op \notin {"updateRunStatus", "duplicateRun", "updateTaskStatus"},
             op = "createRun" => tasks[r] = None,
             Begin(c, NewJob(op, r))
      PROVE  Starts(c, NewJob(op, r))
  <2>1. Begun(NewJob(op, r))
    BY <1>1, NewJobIs DEF Sound
  <2> QED
    BY <1>1, <2>1, JobFields DEF Starts
<1>2. ASSUME NEW op \in {"appendToRun", "createArtifact"}, NEW r \in Run,
             NEW t \in Task \cup {None},
             Begin(c, [NewJob(op, r) EXCEPT !.task = t])
      PROVE  Starts(c, [NewJob(op, r) EXCEPT !.task = t])
  <2>1. Begun([NewJob(op, r) EXCEPT !.task = t])
    BY NewJobIs DEF Op, Listing, Sound
  <2> QED
    BY <1>2, <2>1, JobFields DEF Starts
<1>3. ASSUME NEW r \in Run, NEW s \in RunStatus,
             Begin(c, [NewJob("updateRunStatus", r) EXCEPT !.to = s])
      PROVE  Starts(c, [NewJob("updateRunStatus", r) EXCEPT !.to = s])
  <2>1. Begun([NewJob("updateRunStatus", r) EXCEPT !.to = s])
    BY NewJobIs DEF Op, Listing, Sound
  <2> QED
    BY <1>3, <2>1, JobFields DEF Starts
<1>4. ASSUME NEW r \in Run, NEW t \in Task, NEW s \in Status,
             Begin(c, [NewJob("updateTaskStatus", r) EXCEPT !.task = t, !.to = s])
      PROVE  Starts(c, [NewJob("updateTaskStatus", r) EXCEPT !.task = t, !.to = s])
  <2>1. Begun([NewJob("updateTaskStatus", r) EXCEPT !.task = t, !.to = s])
    BY NewJobIs DEF Op, Listing, Sound
  <2> QED
    BY <1>4, <2>1, JobFields DEF Starts
<1>5. ASSUME NEW r \in Run, NEW q \in Run, tasks[r] = None,
             Begin(c, [NewJob("duplicateRun", r) EXCEPT !.from = q])
      PROVE  Starts(c, [NewJob("duplicateRun", r) EXCEPT !.from = q])
  <2>1. Begun([NewJob("duplicateRun", r) EXCEPT !.from = q])
    BY NewJobIs DEF Op, Listing, Sound
  <2> QED
    BY <1>5, <2>1, JobFields DEF Starts
<1>6. CASE CreateRun(c)
  BY <1>1, <1>6 DEF CreateRun, Fresh, Op, Listing
<1>7. CASE \/ AddRunError(c) \/ SaveTasks(c) \/ DeleteRunData(c)
           \/ Clean(c) \/ ApiDeleteRun(c) \/ SaveRunState(c)
  BY <1>1, <1>7 DEF AddRunError, SaveTasks, DeleteRunData, Clean, ApiDeleteRun,
     SaveRunState, Op, Listing
<1>8. CASE AppendToRun(c) \/ CreateArtifact(c)
  BY <1>2, <1>8 DEF AppendToRun, CreateArtifact
<1>9. CASE UpdateRunStatus(c) \/ UpdateTaskStatus(c)
  BY <1>3, <1>4, <1>9 DEF UpdateRunStatus, UpdateTaskStatus
<1>10. CASE DuplicateRun(c)
  BY <1>5, <1>10 DEF DuplicateRun, Fresh
<1> QED
  BY <1>6, <1>7, <1>8, <1>9, <1>10 DEF Asks

\* At its start an operation holds nothing.
LEMMA StartsIs ==
  ASSUME OneWriter, Sound, NEW c \in Client, NEW new, Starts(c, new)
  PROVE  /\ ~Busy(c) /\ new.run \in Owns[c] /\ new.run \in Run /\ new.op \in Op
         /\ job'[c] = new /\ Busy(c)' /\ R(c)' = new.run
         /\ Length(new.op, Left(c)') /\ Placed(c)'
         /\ \A d \in Client : d # c => job'[d] = job[d]
         /\ UNCHANGED <<files, db, mirrored, reg, intact, settled>>
<1>1. /\ new \in Job /\ new.rest = Program(new.op) /\ new.op \in Op
      /\ ~Busy(c) /\ new.run \in Owns[c] /\ new.run \in Run
      /\ job' = [job EXCEPT ![c] = new]
      /\ UNCHANGED <<files, db, mirrored, reg, intact, settled>>
  BY DEF Starts, Begin, Begun, Job
<1>2. job'[c] = new /\ \A d \in Client : d # c => job'[d] = job[d]
  BY <1>1 DEF Sound, Inv, Types
<1>3. Busy(c)' /\ R(c)' = new.run /\ Left(c)' = Len(Program(new.op))
  BY <1>1, <1>2, NoneAssumption DEF Busy, R, Left
<1>4. Length(new.op, Len(Program(new.op)))
  BY <1>1, ProgramTold DEF Told
<1>5. Placed(c)'
  <2> DEFINE p == Program(new.op)
  <2>1. Len(p) \in Nat \ {0}
    BY <1>4 DEF Length
  <2>2. job'[c].op = new.op /\ job'[c].rest = p
    BY <1>1, <1>2
  <2> HIDE DEF p
  <2>3. Len(p) \in 1 .. Len(p) /\ \A i \in 1 .. Len(p) : p[i] = p[Len(p) - Len(p) + i]
    BY <2>1
  <2> QED
    BY <1>3, <2>2, <2>3 DEF Placed, Left, p
<1> QED
  BY <1>1, <1>2, <1>3, <1>4, <1>5

LEMMA StartsHold ==
  ASSUME OneWriter, Sound, NEW c \in Client, NEW new, Starts(c, new)
  PROVE  Shapes' /\ \A d \in Client : Holds(d)'
<1>1. /\ ~Busy(c) /\ new.run \in Run /\ new.op \in Op
      /\ job'[c] = new /\ Busy(c)' /\ R(c)' = new.run
      /\ Length(new.op, Left(c)') /\ Placed(c)'
      /\ \A d \in Client : d # c => job'[d] = job[d]
      /\ UNCHANGED <<files, db, reg>>
  BY StartsIs
<1>2. Shapes'
  BY <1>1 DEF Shapes, Sound, files
<1>3. reg'[c].tasks = None
  BY <1>1 DEF Sound, Holds, HoldsTasks
<1>4. Holds(c)'
  <2>1. ~HasRun(c)' /\ ~HasRemoved(c)' /\ ~HasTasks(c)' /\ ~HasIndex(c)'
    BY <1>1 DEF HasRun, HasRemoved, HasTasks, HasIndex, Length, TaskOp
  <2>2. tasks'[R(c)'] = None \/ new.op \notin {"createRun", "duplicateRun"}
    BY <1>1 DEF Starts, files
  <2>3. Left(c)' = 7 => new.op \notin {"updateTaskStatus", "duplicateRun"}
    BY <1>1 DEF Length
  <2>4. HoldsTasks(c)'
    BY <1>1, <1>3, <2>1, <2>2, <2>3 DEF HoldsTasks, Makes, Starts
  <2> QED
    BY <1>1, <2>1, <2>4 DEF Holds, HoldsRun, HoldsIndex
<1>5. ASSUME NEW d \in Client, d # c PROVE Holds(d)'
  BY <1>1, <1>5, OthersHold DEF files
<1> QED
  BY <1>2, <1>4, <1>5

LEMMA EndsHold ==
  ASSUME OneWriter, Sound, NEW c \in Client, Ends(c), Shapes',
         \A q \in Run : q \in Owns[c] \/ (run'[q] = run[q] /\ tasks'[q] = tasks[q])
  PROVE  /\ ~Busy(c)' /\ \A d \in Client : d # c => job'[d] = job[d] /\ reg'[d] = reg[d]
         /\ \A d \in Client : Holds(d)'
<1>1. /\ job'[c] = None /\ reg'[c] = NoReg
      /\ \A d \in Client : d # c => job'[d] = job[d] /\ reg'[d] = reg[d]
  BY DEF Ends, Sound, Inv, Types
<1>2. ~Busy(c)' /\ reg'[c].tasks = None
  BY <1>1 DEF Busy, NoReg
<1>3. Holds(c)'
  BY <1>2 DEF Holds, Placed, HoldsRun, HoldsTasks, HoldsIndex,
     HasRun, HasRemoved, Makes, HasTasks, HasIndex
<1>4. ASSUME NEW d \in Client, d # c PROVE Holds(d)'
  BY <1>1, <1>4, OthersHold
<1> QED
  BY <1>1, <1>2, <1>3, <1>4

-----------------------------------------------------------------------------
(* Steps, by what they do to one client *)

\* An operation goes on, or ends whole, or ends early, or is cut short.
Goes(c, x) ==
  \E v : /\ Loads(v) /\ LoadedBy(c, x, v) /\ Changed(c, x)
         /\ Proceeds(c, v) /\ UNCHANGED ghosts

Completes(c, x) ==
  /\ Ends(c) /\ alone' = alone \ {c} /\ Changed(c, x) /\ Concluded(c)
  /\ Left(c) = 1 \/ x = "copyTasks"

GivesBack(c) ==
  /\ Ends(c) /\ alone' = alone \ {c} /\ UNCHANGED <<files, db, mirrored>>
  /\ UNCHANGED <<intact, settled>>
  /\ \/ At(c, "loadRun") /\ run[R(c)] = None
     \/ At(c, "loadSource") \/ At(c, "loadTasks")

Dies(c) ==
  /\ Ends(c) /\ alone' = alone \ {c} /\ UNCHANGED <<files, db, mirrored>> /\ CutShort(c)

LEMMA StepIs ==
  ASSUME OneWriter, Sound, NEW c \in Client, Access(c) \/ Crash(c)
  PROVE  /\ \/ \E x \in Step : At(c, x) /\ (Goes(c, x) \/ Completes(c, x))
            \/ GivesBack(c) \/ Dies(c)
         /\ Shapes' /\ Busy(c) /\ R(c) \in Owns[c]
         /\ \A q \in Run : q # R(c) =>
              run'[q] = run[q] /\ tasks'[q] = tasks[q] /\ db'.run[q] = db.run[q]
         /\ \A d \in Client : d # c => job'[d] = job[d] /\ reg'[d] = reg[d]
<1> SUFFICES
      /\ \/ \E x \in Step : At(c, x) /\ (Goes(c, x) \/ Completes(c, x))
         \/ GivesBack(c) \/ Dies(c)
      /\ Shapes' /\ Busy(c) /\ R(c) \in Owns[c]
      /\ \A q \in Run : q # R(c) =>
           run'[q] = run[q] /\ tasks'[q] = tasks[q] /\ db'.run[q] = db.run[q]
  <2>1. Ends(c) => \A d \in Client : d # c => job'[d] = job[d] /\ reg'[d] = reg[d]
    BY DEF Ends, Sound, Inv, Types
  <2>2. ASSUME NEW v, Loads(v), Proceeds(c, v)
        PROVE  \A d \in Client : d # c => job'[d] = job[d] /\ reg'[d] = reg[d]
    BY <2>2, Proceeded DEF Sound
  <2> QED
    BY <2>1, <2>2 DEF Goes, Completes, GivesBack, Dies
<1>1. CASE Crash(c)
  <2>1. R(c) \in Owns[c]
    BY <1>1 DEF Crash, Sound, Inv, Under
  <2> QED
    BY <1>1, <2>1 DEF Crash, Dies, Ends, files, Shapes, Sound
<1>2. CASE Access(c)
  <2>1. PICK x \in Step : At(c, x) /\ (Did(c, x) \/ Stopped(c, x))
    BY <1>2, AccessIs
  <2>2. Busy(c) /\ R(c) \in Owns[c]
    BY <2>1, Here
  <2>3. CASE Did(c, x)
    <3>1. PICK v : /\ Loads(v) /\ LoadedBy(c, x, v) /\ Changed(c, x)
                   /\ Shapes' /\ Then(c, v)
      BY <2>3 DEF Did
    <3>2. CASE Left(c) = 1
      <4>1. Completes(c, x)
        BY <2>2, <3>1, <3>2 DEF Then, Over, Completes, Ends, Left
      <4> QED
        BY <2>1, <2>2, <3>1, <4>1 DEF Changed
    <3>3. CASE Left(c) # 1
      <4>1. Goes(c, x)
        BY <2>2, <3>1, <3>3 DEF Then, Goes, Proceeds, Left
      <4> QED
        BY <2>1, <2>2, <3>1, <4>1 DEF Changed
    <3> QED
      BY <3>2, <3>3
  <2>4. CASE Stopped(c, x)
    <3>1. Ends(c) /\ alone' = alone \ {c} /\ UNCHANGED <<files, db, mirrored>>
      BY <2>2, <2>4 DEF Stopped, Over, Ends
    <3>2. Shapes' /\ UNCHANGED <<run, tasks, db>>
      BY <3>1 DEF Shapes, Sound, files
    <3>3. CASE x = "copyTasks"
      <4>1. Changed(c, x)
        BY <3>1, <3>3 DEF Changed, RunSteps, files
      <4>2. Completes(c, x)
        BY <2>4, <3>1, <3>3, <4>1 DEF Stopped, Completes
      <4> QED
        BY <2>1, <2>2, <3>2, <4>2
    <3>4. CASE x # "copyTasks"
      <4>1. GivesBack(c)
        BY <2>1, <2>4, <3>1, <3>4 DEF Stopped, GivesBack
      <4> QED
        BY <2>2, <3>2, <4>1
    <3> QED
      BY <3>3, <3>4
  <2> QED
    BY <2>1, <2>3, <2>4
<1> QED
  BY <1>1, <1>2

LEMMA SoundStep ==
  ASSUME OneWriter, Sound, [Next]_vars
  PROVE  Sound'
<1>1. Inv'
  BY NextStep DEF Sound
<1>2. CASE UNCHANGED vars
  <2>1. ASSUME NEW c \in Client PROVE Holds(c)'
    <3>1. DoneIn(tasks[R(c)])' = DoneIn(tasks[R(c)])
      BY <1>2 DEF vars, files, R, DoneIn
    <3>2. (Busy(c)' <=> Busy(c)) /\ R(c)' = R(c) /\ Left(c)' = Left(c)
      BY <1>2 DEF vars, Busy, R, Left
    <3> QED
      BY <1>2, <3>1, <3>2 DEF vars, files, Sound, Holds, Placed, HoldsRun,
         HoldsTasks, HoldsIndex, HasRun, HasRemoved, Makes, HasTasks, HasIndex
  <2> QED
    BY <1>1, <1>2, <2>1 DEF vars, files, Sound, Shapes
<1>3. ASSUME NEW c \in Client, Asks(c) PROVE Sound'
  BY <1>1, <1>3, AsksIs, StartsHold DEF Sound
<1>4. ASSUME NEW c \in Client, Access(c) \/ Crash(c) PROVE Sound'
  <2>1. /\ \/ \E x \in Step : At(c, x) /\ (Goes(c, x) \/ Completes(c, x))
           \/ GivesBack(c) \/ Dies(c)
        /\ Shapes'
        /\ \A q \in Run : q \in Owns[c] \/ (run'[q] = run[q] /\ tasks'[q] = tasks[q])
        /\ \A d \in Client : d # c => job'[d] = job[d] /\ reg'[d] = reg[d]
    BY <1>4, StepIs
  <2>2. CASE Ends(c)
    BY <1>1, <2>1, <2>2, EndsHold DEF Sound
  <2>3. ASSUME NEW x \in Step, At(c, x), NEW v, Loads(v), LoadedBy(c, x, v),
               Changed(c, x), Proceeds(c, v)
        PROVE  Sound'
    <3>1. Holds(c)'
      BY <2>3, HoldsAfter
    <3>2. \A d \in Client : d # c => Holds(d)'
      BY <2>1, OthersHold
    <3> QED
      BY <1>1, <2>1, <3>1, <3>2 DEF Sound
  <2> QED
    BY <2>1, <2>2, <2>3 DEF Goes, Completes, GivesBack, Dies
<1> QED
  BY <1>2, <1>3, <1>4 DEF Next

-----------------------------------------------------------------------------
(* The counts *)

LEMMA WritesHas ==
  ASSUME NEW op \in Op
  PROVE  Writes(op, "writeTasks") <=> op \in TaskOp
<1>1. \A x : Writes(op, x) <=> Has(Program(op), x)
  BY DEF Writes, Has
<1>2. Told(op, Program(op))
  BY ProgramTold
<1> QED
  BY <1>1, <1>2 DEF Told

\* Two operations under way are on two runs.
LEMMA OneOnRun ==
  ASSUME OneWriter, Sound, NEW c \in Client, NEW d \in Client, d # c,
         Busy(c), Busy(d)
  PROVE  R(d) # R(c)
BY DEF OneWriter, Sound, Inv, Under

\* It has written tasks.json and not yet the counts.
Counting(c) == HasTasks(c) /\ Left(c) >= 3

Counted ==
  /\ intact \subseteq Run
  /\ \A r \in intact :
       /\ run[r] # None /\ tasks[r] # None
       /\ \A c \in Client : Busy(c) /\ R(c) = r => ~Counting(c)
       => run[r].done = DoneIn(tasks[r])

LEMMA CountedStarts ==
  ASSUME OneWriter, Sound, Counted, NEW c \in Client, NEW new, Starts(c, new)
  PROVE  Counted'
<1>1. /\ ~Busy(c) /\ new.op \in Op /\ Length(new.op, Left(c)')
      /\ \A d \in Client : d # c => job'[d] = job[d]
      /\ UNCHANGED <<run, tasks, intact>>
  BY StartsIs DEF files
<1>2. ASSUME NEW r \in intact, run[r] # None, tasks[r] # None,
             \A d \in Client : Busy(d)' /\ R(d)' = r => ~Counting(d)'
      PROVE  run[r].done = DoneIn(tasks[r])
  <2>1. ASSUME NEW d \in Client, Busy(d), R(d) = r PROVE ~Counting(d)
    <3>1. d # c /\ job'[d] = job[d]
      BY <1>1, <2>1
    <3> QED
      BY <1>2, <2>1, <3>1 DEF Busy, R, Counting, HasTasks, Left
  <2> QED
    BY <1>2, <2>1 DEF Counted
<1>3. \A r \in intact : DoneIn(tasks[r])' = DoneIn(tasks[r])
  BY <1>1 DEF DoneIn
<1> QED
  BY <1>1, <1>2, <1>3 DEF Counted

\* On the run of the client that takes a step the counts are its own matter.
LEMMA CountedHere ==
  ASSUME OneWriter, Sound, Sound', Counted, NEW c \in Client, Busy(c),
         R(c) \in intact', run'[R(c)] # None, tasks'[R(c)] # None,
         Busy(c)' => ~Counting(c)',
         \/ \E x \in Step : At(c, x) /\ (Goes(c, x) \/ Completes(c, x))
         \/ GivesBack(c) \/ Dies(c)
  PROVE  run'[R(c)].done = DoneIn(tasks'[R(c)])
<1>1. ASSUME R(c) \in intact, ~Counting(c), run[R(c)] # None, tasks[R(c)] # None
      PROVE  run[R(c)].done = DoneIn(tasks[R(c)])
  <2>1. \A d \in Client : Busy(d) /\ R(d) = R(c) => d = c
    BY OneOnRun
  <2> QED
    BY <1>1, <2>1 DEF Counted
<1>2. R(c) \in Run /\ job[c].op \in Op /\ HoldsTasks(c) /\ HoldsRun(c)
  BY StoreAssumption DEF Sound, Inv, Types, Busy, Job, R, Holds
<1>3. CASE GivesBack(c)
  <2>1. PICK x \in {"loadRun", "loadSource", "loadTasks"} :
          At(c, x) /\ (x = "loadRun" => run[R(c)] = None)
    BY <1>3 DEF GivesBack
  <2>2. Turn(job[c].op, Left(c), x) /\ Left(c) \in Nat
    BY <2>1, Here
  <2>3. UNCHANGED <<run, tasks, intact>>
    BY <1>3 DEF GivesBack, files
  <2>4. ~Counting(c)
    BY <2>1, <2>2, <2>3 DEF Turn, TaskOp, Counting, HasTasks
  <2> QED
    BY <1>1, <2>3, <2>4
<1>4. CASE Dies(c)
  <2>1. UNCHANGED <<run, tasks>> /\ R(c) \in intact /\ job[c].op \notin TaskOp
    BY <1>2, <1>4, WritesHas DEF Dies, CutShort, files
  <2> QED
    BY <1>1, <2>1 DEF Counting, HasTasks
<1>5. ASSUME NEW x \in Step, At(c, x), Completes(c, x)
      PROVE  run'[R(c)].done = DoneIn(tasks'[R(c)])
  <2>1. Turn(job[c].op, Left(c), x) /\ Left(c) \in Nat \ {0}
    BY <1>5, Here
  <2>2. x \in {"copyTasks", "saveIndex", "dbRun", "dbTasks", "dbRow", "dbDelete"}
    <3>1. x # "removeDir"
      BY <1>5 DEF Completes, Changed
    <3> QED
      BY <1>5, <2>1, <3>1 DEF Completes, Turn, TaskOp, Step
  <2>3. run'[R(c)] = run[R(c)] /\ tasks'[R(c)] = tasks[R(c)]
    BY <1>5, <2>2 DEF Completes, Changed
  <2>4. CASE job[c].op \notin TaskOp
    <3>1. R(c) \in intact
      BY <1>2, <1>5, <2>4, WritesHas DEF Completes, Concluded
    <3> QED
      BY <1>1, <2>3, <2>4, <3>1 DEF Counting, HasTasks
  <2>5. CASE x = "copyTasks"
    BY <1>2, <2>1, <2>3, <2>5 DEF Turn, HoldsTasks, Makes
  <2>6. CASE x # "copyTasks" /\ job[c].op \in TaskOp
    <3>1. HasTasks(c) /\ Left(c) <= 2
      BY <1>5, <2>6 DEF HasTasks, Completes
    <3> QED
      BY <1>2, <2>3, <3>1 DEF HoldsTasks
  <2> QED
    BY <2>4, <2>5, <2>6
<1>6. ASSUME NEW x \in Step, At(c, x), NEW v, Loads(v), LoadedBy(c, x, v),
             Changed(c, x), Proceeds(c, v), UNCHANGED ghosts
      PROVE  run'[R(c)].done = DoneIn(tasks'[R(c)])
  <2>1. Turn(job[c].op, Left(c), x) /\ Left(c) \in Nat \ {0}
    BY <1>6, Here
  <2>2. /\ Left(c)' = Left(c) - 1 /\ job'[c].op = job[c].op
        /\ R(c)' = R(c) /\ Busy(c)'
    BY <1>6, Taken, Proceeded DEF Sound, Holds
  <2>3. R(c) \in intact
    BY <1>6 DEF ghosts
  <2>4. CASE x \in {"newRun", "removeDir"}
    BY <1>2, <1>6, <2>1, <2>4 DEF Changed, Turn, HoldsTasks, Makes
  <2>5. x # "writeTasks"
    BY <2>1, <2>2 DEF Turn, Counting, HasTasks, TaskOp
  <2>6. CASE x = "saveRun" /\ job[c].op \in TaskOp
    <3>1. HasTasks(c)' /\ Left(c)' <= 2
      BY <2>1, <2>2, <2>6 DEF Turn, HasTasks, TaskOp
    <3>2. (run[R(c)].done = DoneIn(tasks[R(c)]))'
      BY <3>1 DEF Sound, Holds, HoldsTasks
    <3> QED
      BY <2>2, <3>2 DEF DoneIn
  <2>7. CASE x = "saveRun" /\ job[c].op \notin TaskOp
    <3>1. reg[c].tasks = None /\ ~Counting(c)
      BY <1>2, <2>7 DEF HoldsTasks, Counting, HasTasks
    <3>2. HasRun(c) /\ run[R(c)] \in RunFile /\ reg[c].run = run[R(c)]
      BY <1>2, <2>1, <2>7 DEF Turn, HasRun, TaskOp, HoldsRun
    <3>3. run'[R(c)] = Edited(c) /\ tasks'[R(c)] = tasks[R(c)]
      BY <1>6, <2>7 DEF Changed
    <3>4. Edited(c).done = run[R(c)].done
      BY <3>1, <3>2 DEF Edited, RunFile
    <3> QED
      BY <1>1, <2>3, <3>1, <3>2, <3>3, <3>4, NoneAssumption
  <2>8. CASE x \notin {"newRun", "removeDir", "saveRun"}
    <3>1. run'[R(c)] = run[R(c)] /\ tasks'[R(c)] = tasks[R(c)]
      BY <1>6, <2>5, <2>8 DEF Changed
    <3>2. ~Counting(c)
      BY <2>1, <2>2, <2>8 DEF Turn, Counting, HasTasks, TaskOp, Step
    <3> QED
      BY <1>1, <2>3, <3>1, <3>2
  <2> QED
    BY <2>4, <2>6, <2>7, <2>8
<1> QED
  BY <1>3, <1>4, <1>5, <1>6 DEF Goes

LEMMA CountedGoes ==
  ASSUME OneWriter, Sound, Sound', Counted, NEW c \in Client,
         Access(c) \/ Crash(c)
  PROVE  Counted'
<1>1. /\ \/ \E x \in Step : At(c, x) /\ (Goes(c, x) \/ Completes(c, x))
         \/ GivesBack(c) \/ Dies(c)
      /\ Busy(c) /\ R(c) \in Owns[c]
      /\ \A q \in Run : q # R(c) => run'[q] = run[q] /\ tasks'[q] = tasks[q]
      /\ \A d \in Client : d # c => job'[d] = job[d]
  BY StepIs
<1>2. \A r \in intact' : r # R(c) => r \in intact
  BY <1>1 DEF Goes, Completes, GivesBack, Dies, ghosts, Concluded, CutShort
<1>3. Busy(c)' => R(c)' = R(c)
  BY <1>1, Proceeded DEF Goes, Completes, GivesBack, Dies, Ends, Busy, Sound, Inv, Types
<1>4. ASSUME NEW r \in Run, r \in intact', run'[r] # None, tasks'[r] # None,
             \A d \in Client : Busy(d)' /\ R(d)' = r => ~Counting(d)'
      PROVE  run'[r].done = DoneIn(tasks'[r])
  <2>1. CASE r = R(c)
    BY <1>1, <1>3, <1>4, <2>1, CountedHere
  <2>2. CASE r # R(c)
    <3>1. run'[r] = run[r] /\ tasks'[r] = tasks[r] /\ r \in intact
      BY <1>1, <1>2, <1>4, <2>2
    <3>2. ASSUME NEW d \in Client, Busy(d), R(d) = r PROVE ~Counting(d)
      <4>1. job'[d] = job[d]
        BY <1>1, <2>2, <3>2
      <4> QED
        BY <1>4, <3>2, <4>1 DEF Busy, R, Counting, HasTasks, Left
    <3> QED
      BY <1>4, <3>1, <3>2 DEF Counted
  <2> QED
    BY <2>1, <2>2
<1>5. \A r : DoneIn(tasks[r])' = DoneIn(tasks'[r])
  BY DEF DoneIn
<1>6. intact' \subseteq Run
  BY <1>1, <1>2, StoreAssumption DEF Counted
<1> QED
  BY <1>4, <1>5, <1>6 DEF Counted

-----------------------------------------------------------------------------
(* The mirror *)

Mirrors(r) == db.run[r] = StatusOf(run[r])

Mirrored == mirrored \subseteq Run /\ \A r \in mirrored : Mirrors(r)

\* The status of the run of a client changes when it is made, removed or
\* updated, and not otherwise.
LEMMA StatusAfter ==
  ASSUME Sound, NEW c \in Client, NEW x \in Step, At(c, x), Changed(c, x),
         x \notin {"newRun", "removeDir"},
         x = "saveRun" => job[c].op # "updateRunStatus"
  PROVE  StatusOf(run'[R(c)]) = StatusOf(run[R(c)])
<1>1. CASE x # "saveRun"
  BY <1>1 DEF Changed, StatusOf
<1>2. CASE x = "saveRun"
  <2>1. HasRun(c) /\ HoldsRun(c)
    BY <1>2, Here DEF HasRun, Turn, TaskOp
  <2>2. reg[c].run = run[R(c)] /\ reg[c].run \in RunFile
    BY <2>1 DEF HoldsRun
  <2>3. Edited(c) \in RunFile /\ Edited(c).status = run[R(c)].status
    BY <1>2, <2>2, EditedIs
  <2> QED
    BY <1>2, <2>2, <2>3, NoneAssumption DEF Changed, StatusOf
<1> QED
  BY <1>1, <1>2

\* The row of the run of the client that takes a step, if the last change of
\* run.json has reached it by then.
LEMMA MirroredHere ==
  ASSUME Sound, Mirrored, NEW c \in Client, NEW x \in Step, At(c, x),
         Changed(c, x), R(c) \in mirrored'
  PROVE  db'.run[R(c)] = StatusOf(run'[R(c)])
<1>1. Turn(job[c].op, Left(c), x) /\ Left(c) \in Nat \ {0} /\ HoldsRun(c) /\ Busy(c)
  BY Here
<1>2. x \notin RunSteps => run'[R(c)] = run[R(c)]
  BY DEF Changed, RunSteps
<1>3. CASE x = "dbRun" /\ db'.run[R(c)] = reg[c].run.status
  <2>1. HasRun(c)
    BY <1>1, <1>3 DEF HasRun, Turn, TaskOp
  <2>2. reg[c].run = run[R(c)] /\ run[R(c)] # None
    BY <1>1, <2>1, NoneAssumption DEF HoldsRun
  <2> QED
    BY <1>2, <1>3, <2>2 DEF RunSteps, StatusOf
<1>4. CASE x = "dbDelete" /\ db'.run[R(c)] = None /\ job[c].op = "deleteRunData"
  <2>1. HasRemoved(c)
    BY <1>1, <1>4 DEF HasRemoved, Turn
  <2>2. run[R(c)] = None
    BY <1>1, <2>1 DEF HoldsRun
  <2> QED
    BY <1>2, <1>4, <2>2 DEF RunSteps, StatusOf
<1>5. CASE x \notin RunSteps /\ db'.run[R(c)] = db.run[R(c)] /\ R(c) \in mirrored
  <2>1. db.run[R(c)] = StatusOf(run[R(c)])
    BY <1>5 DEF Mirrored, Mirrors
  <2> QED
    BY <1>2, <1>5, <2>1
<1> QED
  BY <1>3, <1>4, <1>5 DEF Changed

LEMMA MirroredGoes ==
  ASSUME OneWriter, Sound, Mirrored, NEW c \in Client, Access(c) \/ Crash(c)
  PROVE  Mirrored'
<1>1. /\ \/ \E x \in Step : At(c, x) /\ (Goes(c, x) \/ Completes(c, x))
         \/ GivesBack(c) \/ Dies(c)
      /\ R(c) \in Run
      /\ \A q \in Run : q # R(c) => run'[q] = run[q] /\ db'.run[q] = db.run[q]
  BY StepIs, StoreAssumption
<1>2. ASSUME NEW x \in Step, At(c, x), Changed(c, x)
      PROVE  Mirrored'
  <2>1. mirrored' \subseteq Run
    BY <1>1, <1>2 DEF Changed, Mirrored
  <2>2. ASSUME NEW r \in mirrored' PROVE db'.run[r] = StatusOf(run'[r])
    <3>1. CASE r = R(c)
      BY <1>2, <2>2, <3>1, MirroredHere
    <3>2. CASE r # R(c)
      <4>1. r \in mirrored /\ r \in Run
        BY <1>2, <2>2, <3>2 DEF Changed, Mirrored
      <4>2. db.run[r] = StatusOf(run[r])
        BY <4>1 DEF Mirrored, Mirrors
      <4> QED
        BY <1>1, <3>2, <4>1, <4>2
    <3> QED
      BY <3>1, <3>2
  <2> QED
    BY <2>1, <2>2 DEF Mirrored, Mirrors, StatusOf
<1>3. CASE GivesBack(c) \/ Dies(c)
  <2>1. UNCHANGED <<run, db, mirrored>>
    BY <1>3 DEF GivesBack, Dies, files
  <2> QED
    BY <2>1 DEF Mirrored, Mirrors, StatusOf
<1> QED
  BY <1>1, <1>2, <1>3 DEF Goes, Completes

-----------------------------------------------------------------------------
(* The index *)

\* It has changed the status of its run, or made or removed the run.
HasChanged(c) ==
  /\ Busy(c)
  /\ \/ /\ job[c].op \in {"createRun", "updateRunStatus", "deleteRunData"}
        /\ Left(c) <= 3
     \/ job[c].op = "duplicateRun" /\ Left(c) <= 11

Lists(c) == Busy(c) /\ job[c].op \in Listing

\* What the index says of a run, or the copies of it that are to be saved.
ListedAs(r) ==
  /\ index[r] = StatusOf(run[r])
  /\ \A d \in Client : HasIndex(d) => reg[d].index[r] = StatusOf(run[r])

Alone == \A c \in alone : Lists(c) /\ \A d \in Client : d # c => ~Lists(d)

Indexed ==
  /\ settled \subseteq Run /\ alone \subseteq Client /\ Alone
  /\ \A r \in settled :
       (\A c \in Client : Busy(c) /\ R(c) = r => ~HasChanged(c)) => ListedAs(r)
  /\ \A c \in alone : HasListed(c) => index[R(c)] = StatusOf(run[R(c)])

LEMMA IndexedStarts ==
  ASSUME OneWriter, Sound, Indexed, NEW c \in Client, NEW new, Starts(c, new)
  PROVE  Indexed'
<1>1. /\ ~Busy(c) /\ Busy(c)' /\ new.op \in Op /\ Length(new.op, Left(c)')
      /\ job'[c] = new
      /\ \A d \in Client : d # c => job'[d] = job[d]
      /\ UNCHANGED <<run, index, reg, settled>>
  BY StartsIs DEF files
<1>2. \A d \in Client : d # c =>
        /\ Busy(d)' <=> Busy(d)
        /\ R(d)' = R(d)
        /\ HasChanged(d)' <=> HasChanged(d)
        /\ HasIndex(d)' <=> HasIndex(d)
        /\ HasListed(d)' <=> HasListed(d)
        /\ Lists(d)' <=> Lists(d)
  BY <1>1 DEF Busy, R, HasChanged, HasIndex, HasListed, Lists, Left
<1>3. ~HasIndex(c)' /\ ~HasListed(c)'
  BY <1>1 DEF HasIndex, HasListed, Length
<1>4. alone' = IF new.op \notin Listing THEN alone
               ELSE IF \E d \in Client : Lists(d) THEN {} ELSE {c}
  BY DEF Starts, Begin, Lists
<1>5. ~Lists(c) /\ c \notin alone
  BY <1>1 DEF Lists, Indexed, Alone
<1>6. alone' \subseteq Client /\ Alone'
  <2>1. CASE new.op \notin Listing
    BY <1>1, <1>2, <1>4, <1>5, <2>1 DEF Indexed, Alone, Lists
  <2>2. CASE new.op \in Listing
    <3>1. Lists(c)'
      BY <1>1, <2>2 DEF Lists
    <3> QED
      BY <1>2, <1>4, <2>2, <3>1 DEF Alone
  <2> QED
    BY <2>1, <2>2
<1>7. ASSUME NEW r \in settled, \A d \in Client : Busy(d)' /\ R(d)' = r => ~HasChanged(d)'
      PROVE  ListedAs(r)'
  <2>1. \A d \in Client : Busy(d) /\ R(d) = r => ~HasChanged(d)
    BY <1>1, <1>2, <1>7
  <2>2. ListedAs(r)
    BY <2>1 DEF Indexed
  <2> QED
    BY <1>1, <1>2, <1>3, <2>2 DEF ListedAs, StatusOf
<1>8. ASSUME NEW d \in alone', HasListed(d)'
      PROVE  index[R(d)'] = StatusOf(run[R(d)'])
  <2>1. d # c /\ d \in alone /\ d \in Client
    BY <1>3, <1>4, <1>6, <1>8
  <2> QED
    BY <1>2, <1>8, <2>1 DEF Indexed
<1>9. \A r : StatusOf(run[r])' = StatusOf(run[r])
  BY <1>1 DEF StatusOf
<1> QED
  BY <1>1, <1>6, <1>7, <1>8, <1>9 DEF Indexed, StatusOf

\* An operation that saves the index has changed its run, or is about to end.
LEMMA IndexedHere ==
  ASSUME OneWriter, Sound, Indexed, NEW c \in Client, Busy(c), R(c) \in settled',
         Busy(c)' => ~HasChanged(c)',
         \/ \E x \in Step : At(c, x) /\ (Goes(c, x) \/ Completes(c, x))
         \/ GivesBack(c) \/ Dies(c)
  PROVE  /\ index'[R(c)] = StatusOf(run'[R(c)]) /\ ~HasIndex(c)'
         /\ \A d \in Client : d # c /\ HasIndex(d)
              => reg[d].index[R(c)] = StatusOf(run'[R(c)])
<1>1. ASSUME R(c) \in settled, ~HasChanged(c) PROVE ListedAs(R(c))
  <2>1. \A d \in Client : Busy(d) /\ R(d) = R(c) => d = c
    BY OneOnRun
  <2> QED
    BY <1>1, <2>1 DEF Indexed
<1>2. R(c) \in Run /\ job[c].op \in Op /\ HoldsRun(c)
  BY StoreAssumption DEF Sound, Inv, Types, Busy, Job, R, Holds
<1>3. Ends(c) => ~Busy(c)' /\ ~HasIndex(c)'
  BY DEF Ends, Sound, Inv, Types, Busy, HasIndex
<1>4. HasChanged(c) => job[c].op \in Listing
  BY DEF HasChanged, Listing
<1>5. CASE GivesBack(c)
  <2>1. PICK x \in {"loadRun", "loadSource", "loadTasks"} :
          At(c, x) /\ (x = "loadRun" => run[R(c)] = None)
    BY <1>5 DEF GivesBack
  <2>2. Turn(job[c].op, Left(c), x) /\ Left(c) \in Nat
    BY <2>1, Here
  <2>3. UNCHANGED <<run, index, settled>> /\ Ends(c)
    BY <1>5 DEF GivesBack, files
  <2>4. ~HasChanged(c)
    BY <1>2, <2>1, <2>2, NoneAssumption
       DEF Turn, TaskOp, HasChanged, HoldsRun, HasRun
  <2> QED
    BY <1>1, <1>3, <2>3, <2>4 DEF StatusOf, ListedAs
<1>6. CASE Dies(c)
  <2>1. R(c) \in settled /\ job[c].op \notin Listing
    BY <1>6 DEF Dies, CutShort
  <2>2. UNCHANGED <<run, index>> /\ Ends(c)
    BY <1>6 DEF Dies, files
  <2> QED
    BY <1>1, <1>3, <1>4, <2>1, <2>2 DEF StatusOf, ListedAs
<1>7. ASSUME NEW x \in Step, At(c, x), Completes(c, x)
      PROVE  /\ index'[R(c)] = StatusOf(run'[R(c)])
             /\ \A d \in Client : d # c /\ HasIndex(d)
                  => reg[d].index[R(c)] = StatusOf(run'[R(c)])
  <2>1. Turn(job[c].op, Left(c), x) /\ Left(c) \in Nat \ {0}
    BY <1>7, Here
  <2>0. job[c].op # "clean"
    BY <1>7 DEF Completes, Concluded, Listing
  <2>2. x \in {"copyTasks", "saveIndex", "dbRun", "dbTasks", "dbRow", "dbDelete"}
    BY <1>7, <2>0, <2>1 DEF Completes, Turn, TaskOp, Step
  <2>3. run'[R(c)] = run[R(c)]
    BY <1>7, <2>2 DEF Completes, Changed
  <2>4. CASE job[c].op \notin Listing
    <3>1. R(c) \in settled
      BY <1>7, <2>0, <2>4 DEF Completes, Concluded
    <3>2. x # "saveIndex"
      BY <2>1, <2>4 DEF Turn, Listing
    <3>3. index'[R(c)] = index[R(c)]
      BY <1>7, <3>2 DEF Completes, Changed
    <3> QED
      BY <1>1, <1>4, <2>3, <2>4, <3>1, <3>3 DEF ListedAs
  <2>5. CASE job[c].op \in Listing
    <3>1. c \in alone
      BY <1>7, <2>5 DEF Completes, Concluded
    <3>2. \A d \in Client : d # c => ~HasIndex(d)
      BY <3>1 DEF Indexed, Alone, Lists, HasIndex, Listing
    <3>3. CASE x = "saveIndex"
      <4>1. job[c].op = "updateRunStatus" /\ HasRun(c)
        BY <1>7, <2>1, <3>3 DEF Completes, Turn, HasRun
      <4>2. index'[R(c)] = reg[c].run.status
        BY <1>7, <3>3, <4>1 DEF Completes, Changed
      <4>3. reg[c].run.status = StatusOf(run[R(c)])
        BY <1>2, <4>1, NoneAssumption DEF HoldsRun, StatusOf
      <4> QED
        BY <2>3, <3>2, <4>2, <4>3
    <3>4. CASE x # "saveIndex"
      <4>1. HasListed(c)
        BY <1>7, <2>1, <2>2, <2>5, <3>4
           DEF Completes, Turn, TaskOp, HasListed, Listing
      <4>2. index'[R(c)] = index[R(c)]
        BY <1>7, <3>4 DEF Completes, Changed
      <4> QED
        BY <2>3, <3>1, <3>2, <4>1, <4>2 DEF Indexed
    <3> QED
      BY <3>3, <3>4
  <2> QED
    BY <2>4, <2>5
<1>8. ASSUME NEW x \in Step, At(c, x), NEW v, Loads(v), LoadedBy(c, x, v),
             Changed(c, x), Proceeds(c, v), UNCHANGED ghosts
      PROVE  /\ index'[R(c)] = StatusOf(run'[R(c)]) /\ ~HasIndex(c)'
             /\ \A d \in Client : d # c /\ HasIndex(d)
                  => reg[d].index[R(c)] = StatusOf(run'[R(c)])
  <2>1. Turn(job[c].op, Left(c), x) /\ Left(c) \in Nat \ {0}
    BY <1>8, Here
  <2>2. /\ Left(c)' = Left(c) - 1 /\ job'[c].op = job[c].op /\ Busy(c)'
    BY <1>8, Taken, Proceeded DEF Sound, Holds
  <2>3. ~HasChanged(c)' /\ R(c) \in settled
    BY <1>8, <2>2 DEF ghosts
  <2>7. Left(c) # 1
    BY <1>8 DEF Proceeds, Left
  <2>4. /\ x \notin {"newRun", "removeDir", "saveIndex"} /\ ~HasIndex(c)'
        /\ x = "saveRun" => job[c].op # "updateRunStatus"
        /\ ~HasChanged(c)
    BY <2>1, <2>2, <2>3, <2>7 DEF HasChanged, HasIndex, Turn, TaskOp
  <2>5. StatusOf(run'[R(c)]) = StatusOf(run[R(c)])
    BY <1>8, <2>4, StatusAfter
  <2>6. index'[R(c)] = index[R(c)]
    BY <1>8, <2>4 DEF Changed
  <2> QED
    BY <1>1, <2>3, <2>4, <2>5, <2>6 DEF ListedAs
<1> QED
  <2>1. ASSUME NEW x \in Step, At(c, x), Completes(c, x)
        PROVE  ~HasIndex(c)'
    BY <1>3, <2>1 DEF Completes
  <2> QED
    BY <1>5, <1>6, <1>7, <1>8, <2>1 DEF Goes

\* Another run is listed as it was, and loaded as it is listed.
LEMMA IndexedThere ==
  ASSUME OneWriter, Sound, Indexed, NEW c \in Client,
         Access(c) \/ Crash(c), NEW r \in Run, r # R(c), ListedAs(r)
  PROVE  ListedAs(r)'
<1>1. /\ \/ \E x \in Step : At(c, x) /\ (Goes(c, x) \/ Completes(c, x))
         \/ GivesBack(c) \/ Dies(c)
      /\ Busy(c) /\ run'[r] = run[r]
      /\ \A d \in Client : d # c => job'[d] = job[d] /\ reg'[d] = reg[d]
  BY StepIs
<1>2. StatusOf(run[r])' = StatusOf(run[r])
  BY <1>1 DEF StatusOf
<1>3. ASSUME NEW x \in Step, At(c, x), Changed(c, x)
      PROVE  index'[r] = StatusOf(run[r])
  <2>1. x = "saveIndex" => HasIndex(c)
    BY <1>3, Here DEF Turn, HasIndex
  <2> QED
    BY <1>3, <2>1 DEF Changed, ListedAs
<1>4. index'[r] = StatusOf(run[r])
  <2>1. CASE GivesBack(c) \/ Dies(c)
    BY <2>1 DEF GivesBack, Dies, files, ListedAs
  <2> QED
    BY <1>1, <1>3, <2>1 DEF Goes, Completes
<1>5. HasIndex(c)' => reg'[c].index[r] = StatusOf(run[r])
  <2>1. CASE Ends(c)
    BY <2>1 DEF Ends, Sound, Inv, Types, Busy, HasIndex
  <2>2. ASSUME NEW x \in Step, At(c, x), NEW v, Loads(v), LoadedBy(c, x, v),
               Proceeds(c, v), HasIndex(c)'
        PROVE  reg'[c].index[r] = StatusOf(run[r])
    <3>1. Turn(job[c].op, Left(c), x) /\ Left(c) \in Nat \ {0}
      BY <2>2, Here
    <3>2. /\ Left(c)' = Left(c) - 1 /\ job'[c].op = job[c].op /\ reg'[c] = v
      BY <2>2, Taken, Proceeded DEF Sound, Holds
    <3>3. x = "loadIndex"
      BY <2>2, <3>1, <3>2 DEF HasIndex, Turn, TaskOp, Step
    <3> QED
      BY <2>2, <3>2, <3>3 DEF LoadedBy, ListedAs
  <2> QED
    BY <1>1, <2>1, <2>2 DEF Goes, Completes, GivesBack, Dies
<1>6. ASSUME NEW d \in Client, d # c, HasIndex(d)'
      PROVE  reg'[d].index[r] = StatusOf(run[r])
  <2>1. HasIndex(d) /\ reg'[d] = reg[d]
    BY <1>1, <1>6 DEF HasIndex, Busy, Left
  <2> QED
    BY <2>1 DEF ListedAs
<1> QED
  BY <1>2, <1>4, <1>5, <1>6 DEF ListedAs

\* The client that met no other one has listed its run.
LEMMA AloneLists ==
  ASSUME OneWriter, Sound, Indexed, NEW c \in alone, NEW x \in Step, At(c, x),
         Goes(c, x), HasListed(c)'
  PROVE  index'[R(c)] = StatusOf(run'[R(c)])
<1>1. c \in Client
  BY DEF Indexed
<1>2. PICK v : /\ Loads(v) /\ LoadedBy(c, x, v) /\ Changed(c, x)
               /\ Proceeds(c, v) /\ UNCHANGED ghosts
  BY DEF Goes
<1>3. Turn(job[c].op, Left(c), x) /\ Left(c) \in Nat \ {0} /\ HoldsRun(c)
  BY <1>1, Here
<1>4. Left(c)' = Left(c) - 1 /\ job'[c].op = job[c].op
  BY <1>1, <1>2, Taken, Proceeded DEF Sound, Holds
<1>5. CASE x = "saveIndex"
  <2>1. run'[R(c)] = run[R(c)]
    BY <1>2, <1>5 DEF Changed
  <2>2. CASE job[c].op = "deleteRunData"
    <3>1. HasRemoved(c)
      BY <1>3, <1>5, <2>2 DEF Turn, HasRemoved, At
    <3> QED
      BY <1>2, <1>3, <1>5, <2>1, <2>2, <3>1 DEF Changed, HoldsRun, StatusOf
  <2>3. CASE job[c].op # "deleteRunData"
    <3>1. HasRun(c)
      BY <1>3, <1>5, <2>3 DEF Turn, HasRun, At
    <3> QED
      BY <1>2, <1>3, <1>5, <2>1, <2>3, <3>1, NoneAssumption
         DEF Changed, HoldsRun, StatusOf
  <2> QED
    BY <2>2, <2>3
<1>6. CASE x # "saveIndex"
  <2>1. HasListed(c)
    BY <1>3, <1>4, <1>6 DEF HasListed, Turn, TaskOp, Step, At
  <2>2. x \notin {"newRun", "removeDir"} /\ job[c].op # "updateRunStatus"
    BY <1>3, <2>1 DEF HasListed, Turn
  <2>3. StatusOf(run'[R(c)]) = StatusOf(run[R(c)])
    BY <1>1, <1>2, <2>2, StatusAfter
  <2>4. index'[R(c)] = index[R(c)]
    BY <1>2, <1>6 DEF Changed
  <2> QED
    BY <2>1, <2>3, <2>4 DEF Indexed
<1> QED
  BY <1>5, <1>6

LEMMA IndexedGoes ==
  ASSUME OneWriter, Sound, Indexed, NEW c \in Client, Access(c) \/ Crash(c)
  PROVE  Indexed'
<1>1. /\ \/ \E x \in Step : At(c, x) /\ (Goes(c, x) \/ Completes(c, x))
         \/ GivesBack(c) \/ Dies(c)
      /\ Busy(c) /\ R(c) \in Owns[c]
      /\ \A q \in Run : q # R(c) => run'[q] = run[q]
      /\ \A d \in Client : d # c => job'[d] = job[d] /\ reg'[d] = reg[d]
  BY StepIs
<1>2. \A r \in settled' : r # R(c) => r \in settled
  BY <1>1 DEF Goes, Completes, GivesBack, Dies, ghosts, Concluded, CutShort
<1>3. \/ ~Busy(c)' /\ alone' = alone \ {c}
      \/ /\ \E x \in Step : At(c, x) /\ Goes(c, x)
         /\ Busy(c)' /\ R(c)' = R(c) /\ job'[c].op = job[c].op /\ alone' = alone
  <2>1. Ends(c) => ~Busy(c)'
    BY DEF Ends, Sound, Inv, Types, Busy
  <2>2. \A x : Goes(c, x) =>
          Busy(c)' /\ R(c)' = R(c) /\ job'[c].op = job[c].op /\ alone' = alone
    BY Proceeded DEF Goes, ghosts, Sound
  <2> QED
    BY <1>1, <2>1, <2>2 DEF Completes, GivesBack, Dies
<1>4. settled' \subseteq Run /\ R(c) \in Run
  BY <1>1, <1>2, StoreAssumption DEF Indexed
<1>5. \A d \in Client : d # c =>
        /\ Busy(d)' <=> Busy(d)
        /\ R(d)' = R(d)
        /\ HasChanged(d)' <=> HasChanged(d)
        /\ HasIndex(d)' <=> HasIndex(d)
        /\ HasListed(d)' <=> HasListed(d)
        /\ Lists(d)' <=> Lists(d)
  BY <1>1 DEF Busy, R, HasChanged, HasIndex, HasListed, Lists, Left
<1>6. alone' \subseteq Client /\ Alone'
  <2>1. Lists(c)' => Lists(c)
    BY <1>1, <1>3 DEF Lists
  <2>2. c \in alone' => Lists(c)'
    BY <1>3 DEF Indexed, Alone, Lists
  <2> QED
    BY <1>3, <1>5, <2>1, <2>2 DEF Indexed, Alone
<1>7. ASSUME NEW r \in settled', \A d \in Client : Busy(d)' /\ R(d)' = r => ~HasChanged(d)'
      PROVE  ListedAs(r)'
  <2>1. CASE r = R(c)
    <3>1. /\ index'[r] = StatusOf(run'[r]) /\ ~HasIndex(c)'
          /\ \A d \in Client : d # c /\ HasIndex(d)
               => reg[d].index[r] = StatusOf(run'[r])
      BY <1>1, <1>3, <1>7, <2>1, IndexedHere
    <3>2. \A d \in Client : HasIndex(d)' => reg'[d].index[r] = StatusOf(run'[r])
      BY <1>1, <1>5, <3>1
    <3> QED
      BY <3>1, <3>2 DEF ListedAs, StatusOf
  <2>2. CASE r # R(c)
    <3>1. \A d \in Client : Busy(d) /\ R(d) = r => ~HasChanged(d)
      BY <1>5, <1>7, <2>2
    <3>2. ListedAs(r) /\ r \in Run
      BY <1>2, <1>4, <1>7, <2>2, <3>1 DEF Indexed
    <3> QED
      BY <2>2, <3>2, IndexedThere
  <2> QED
    BY <2>1, <2>2
<1>8. ASSUME NEW d \in alone', HasListed(d)'
      PROVE  index'[R(d)'] = StatusOf(run'[R(d)'])
  <2>1. CASE d = c
    <3>1. Busy(c)'
      BY <1>8, <2>1 DEF HasListed
    <3> QED
      BY <1>3, <1>8, <2>1, <3>1, AloneLists
  <2>2. CASE d # c
    <3>1. d \in Client /\ d \in alone /\ HasListed(d) /\ R(d)' = R(d)
      BY <1>3, <1>5, <1>6, <1>8, <2>2
    <3>2. Busy(d) /\ R(d) \in Run /\ R(d) # R(c)
      BY <1>1, <2>2, <3>1, OneOnRun, StoreAssumption
         DEF HasListed, Sound, Inv, Under
    <3>3. ~Lists(c)
      BY <2>2, <3>1 DEF Indexed, Alone
    <3>4. index'[R(d)] = index[R(d)]
      <4>1. ASSUME NEW x \in Step, At(c, x), Changed(c, x)
            PROVE  index'[R(d)] = index[R(d)]
        <5>1. x # "saveIndex"
          BY <1>1, <3>3, <4>1, Here DEF Turn, Lists, Listing
        <5> QED
          BY <3>2, <4>1, <5>1 DEF Changed
      <4>2. CASE GivesBack(c) \/ Dies(c)
        BY <4>2 DEF GivesBack, Dies, files
      <4> QED
        BY <1>1, <4>1, <4>2 DEF Goes, Completes
    <3>5. index[R(d)] = StatusOf(run[R(d)])
      BY <3>1 DEF Indexed
    <3> QED
      BY <1>1, <3>1, <3>2, <3>4, <3>5
  <2> QED
    BY <2>1, <2>2
<1>9. \A r : StatusOf(run[r])' = StatusOf(run'[r])
  BY DEF StatusOf
<1> QED
  BY <1>4, <1>6, <1>7, <1>8, <1>9 DEF Indexed, StatusOf

-----------------------------------------------------------------------------
(* The three properties *)

Agrees == Sound /\ Counted /\ Mirrored /\ Indexed

LEMMA InitAgrees == Init => Agrees
<1> SUFFICES ASSUME Init PROVE Agrees
  OBVIOUS
<1>1. \A c \in Client : ~Busy(c) /\ reg[c].tasks = None
  BY DEF Init, Busy, NoReg
<1>2. \A c \in Client : Holds(c)
  BY <1>1 DEF Holds, Placed, HoldsRun, HoldsTasks, HoldsIndex,
     HasRun, HasRemoved, Makes, HasTasks, HasIndex
<1>3. Shapes
  BY DEF Init, Shapes, NoDb
<1>4. \A r \in Run : run[r] = None /\ index[r] = None /\ db.run[r] = None
  BY DEF Init, NoDb
<1>5. Counted
  BY <1>4 DEF Init, Counted
<1>6. Mirrored
  BY <1>1, <1>4 DEF Init, Mirrored, Mirrors, StatusOf
<1>7. Indexed
  BY <1>1, <1>4 DEF Init, Indexed, Alone, ListedAs, HasIndex, StatusOf
<1> QED
  BY <1>2, <1>3, <1>5, <1>6, <1>7, InitInv DEF Agrees, Sound

LEMMA NextAgrees ==
  ASSUME OneWriter, Agrees, [Next]_vars
  PROVE  Agrees'
<1>1. Sound'
  BY SoundStep DEF Agrees
<1>2. ASSUME NEW c \in Client, Asks(c) PROVE Agrees'
  <2>1. PICK new : Starts(c, new)
    BY <1>2, AsksIs DEF Agrees
  <2>2. UNCHANGED <<run, db, mirrored>>
    BY <2>1, StartsIs DEF Agrees, files
  <2>3. Mirrored'
    BY <2>2 DEF Agrees, Mirrored, Mirrors, StatusOf
  <2> QED
    BY <1>1, <2>1, <2>3, CountedStarts, IndexedStarts DEF Agrees
<1>3. ASSUME NEW c \in Client, Access(c) \/ Crash(c) PROVE Agrees'
  BY <1>1, <1>3, CountedGoes, MirroredGoes, IndexedGoes DEF Agrees
<1>4. CASE UNCHANGED vars
  <2>1. /\ \A c \in Client : /\ Busy(c)' <=> Busy(c)
                             /\ R(c)' = R(c) /\ Left(c)' = Left(c)
        /\ \A r : /\ StatusOf(run[r])' = StatusOf(run[r])
                  /\ DoneIn(tasks[r])' = DoneIn(tasks[r])
    BY <1>4 DEF vars, files, Busy, R, Left, StatusOf, DoneIn
  <2>2. Counted'
    BY <1>4, <2>1 DEF vars, files, ghosts, Agrees, Counted, Counting, HasTasks
  <2>3. Mirrored'
    BY <1>4 DEF vars, files, Agrees, Mirrored, Mirrors, StatusOf
  <2>4. Indexed'
    BY <1>4, <2>1 DEF vars, files, ghosts, Agrees, Indexed, Alone, Lists, ListedAs,
       HasChanged, HasIndex, HasListed
  <2> QED
    BY <1>1, <2>2, <2>3, <2>4 DEF Agrees
<1> QED
  BY <1>2, <1>3, <1>4 DEF Next

LEMMA AgreesGives ==
  ASSUME Agrees
  PROVE  IndexIsCurrent /\ MirrorIsCurrent /\ CountsAgree
BY DEF Agrees, Counted, Mirrored, Mirrors, Indexed, ListedAs, Untouched,
   IndexIsCurrent, MirrorIsCurrent, CountsAgree

\* A run last changed by an operation that listed it, to its end and meeting no
\* other one that lists, and not removed by `flowtask clean` since, is listed with
\* the status in its run.json, and not listed if RunManager.deleteRunData deleted
\* it, whatever other operations lose in the index before or since.
THEOREM IndexFollowsRuns == OneWriter => (Spec => []IndexIsCurrent)
<1> SUFFICES ASSUME OneWriter PROVE Spec => []IndexIsCurrent
  OBVIOUS
<1>1. Agrees /\ [Next]_vars => Agrees'
  BY NextAgrees
<1>2. Agrees => IndexIsCurrent
  BY AgreesGives
<1> QED
  BY InitAgrees, <1>1, <1>2, PTL DEF Spec

\* The row of a run has the status of its run.json whenever the last change of
\* run.json reached the database, at every moment after it did: what the database
\* refused, was not told or deleted before is made up for, and no other operation
\* under way disturbs it (RunManager.saveRun, DatabaseManager.insertRun).
THEOREM MirrorFollowsRuns == OneWriter => (Spec => []MirrorIsCurrent)
<1> SUFFICES ASSUME OneWriter PROVE Spec => []MirrorIsCurrent
  OBVIOUS
<1>1. Agrees /\ [Next]_vars => Agrees'
  BY NextAgrees
<1>2. Agrees => MirrorIsCurrent
  BY AgreesGives
<1> QED
  BY InitAgrees, <1>1, <1>2, PTL DEF Spec

\* The counts of run.json agree with a tasks.json that a whole operation saved
\* (RunManager.saveTasks).
THEOREM CountsFollowTasks == OneWriter => (Spec => []CountsAgree)
<1> SUFFICES ASSUME OneWriter PROVE Spec => []CountsAgree
  OBVIOUS
<1>1. Agrees /\ [Next]_vars => Agrees'
  BY NextAgrees
<1>2. Agrees => CountsAgree
  BY AgreesGives
<1> QED
  BY InitAgrees, <1>1, <1>2, PTL DEF Spec
=============================================================================
