---------------------------- MODULE ProcessProofs ----------------------------
(***************************************************************************)
(* What may be relied on where child processes are concerned.  Of the spawn *)
(* limiter, for any finite set of clients, any limit and any number of      *)
(* acquisitions: who waits is in the queue, and the limit holds.  Of the    *)
(* calls of a run, for any calls and processes and any number of children:  *)
(* who waits for a child will hear of its end, and who says done says it of *)
(* a child that ended well.                                                 *)
(***************************************************************************)
EXTENDS AgentProcess, SpawnSlots, FiniteSetTheorems, SequenceTheorems,
        WellFoundedInduction, TLAPS

-----------------------------------------------------------------------------
(* SpawnSlots: type correctness *)

\* The counters stay natural numbers, and the queue holds clients.
LEMMA SlotsTyping == SlotsSpec => []SlotsTypeOK
<1> USE DEF SlotsTypeOK, Phase
<1>1. SlotsInit => SlotsTypeOK
  BY DEF SlotsInit
<1>2. SlotsTypeOK /\ [SlotsNext]_slotVars => SlotsTypeOK'
  <2> SUFFICES ASSUME SlotsTypeOK, [SlotsNext]_slotVars PROVE SlotsTypeOK'
    OBVIOUS
  <2>1. CASE UNCHANGED slotVars
    BY <2>1 DEF slotVars, metrics
  <2>2. ASSUME NEW c \in Client, AcquireLight(c) PROVE SlotsTypeOK'
    BY <2>2 DEF AcquireLight, metrics
  <2>3. ASSUME NEW c \in Client, AcquireNow(c) PROVE SlotsTypeOK'
    BY <2>3 DEF AcquireNow
  <2>4. ASSUME NEW c \in Client, AcquireLater(c) PROVE SlotsTypeOK'
    BY <2>4, AppendProperties DEF AcquireLater
  <2>5. ASSUME NEW c \in Client, ReleaseLight(c) PROVE SlotsTypeOK'
    BY <2>5 DEF ReleaseLight, metrics
  <2>6. ASSUME NEW c \in Client, Release(c) PROVE SlotsTypeOK'
    <3>1. CASE HandOff(c)
      BY <2>6, <3>1, HeadTailProperties DEF Release, HandOff
    <3>2. CASE GiveBack(c)
      BY <2>6, <3>2 DEF Release, GiveBack
    <3> QED
      BY <2>6, <3>1, <3>2 DEF Release
  <2>7. CASE LeftEnds
    BY <2>7 DEF LeftEnds, metrics
  <2> QED
    BY <2>1, <2>2, <2>3, <2>4, <2>5, <2>6, <2>7 DEF SlotsNext
<1> QED
  BY <1>1, <1>2, PTL DEF SlotsSpec

-----------------------------------------------------------------------------
(* The queue and the waiting attempts *)

\* Every pending promise belongs to exactly one waiting attempt.
THEOREM QueueCorrect == SlotsSpec => []QueueIsWaiters
<1>1. SlotsInit => QueueIsWaiters
  BY DEF SlotsInit, QueueIsWaiters, Waiters
<1>2. SlotsTypeOK /\ QueueIsWaiters /\ [SlotsNext]_slotVars => QueueIsWaiters'
  <2> SUFFICES ASSUME SlotsTypeOK, QueueIsWaiters, [SlotsNext]_slotVars
               PROVE  QueueIsWaiters'
    OBVIOUS
  <2> USE DEF QueueIsWaiters, Waiters, SlotsTypeOK, Phase
  <2>1. CASE UNCHANGED slotVars
    BY <2>1 DEF slotVars
  <2>2. ASSUME NEW c \in Client, AcquireLight(c) PROVE QueueIsWaiters'
    BY <2>2 DEF AcquireLight
  <2>3. ASSUME NEW c \in Client, AcquireNow(c) PROVE QueueIsWaiters'
    BY <2>3 DEF AcquireNow
  <2>4. ASSUME NEW c \in Client, AcquireLater(c) PROVE QueueIsWaiters'
    <3>1. /\ heavyQueue' = Append(heavyQueue, c)
          /\ phase[c] = "idle"
          /\ phase' = [phase EXCEPT ![c] = "waiting"]
      BY <2>4 DEF AcquireLater
    <3>2. /\ Len(heavyQueue') = Len(heavyQueue) + 1
          /\ \A i \in 1 .. Len(heavyQueue) : heavyQueue'[i] = heavyQueue[i]
          /\ heavyQueue'[Len(heavyQueue) + 1] = c
          /\ heavyQueue' \in Seq(Client)
      BY <3>1, AppendProperties
    <3>3. /\ DOMAIN heavyQueue = 1 .. Len(heavyQueue)
          /\ DOMAIN heavyQueue' = 1 .. Len(heavyQueue) + 1
          /\ Len(heavyQueue) \in Nat
      BY <3>2
    <3>4. \A i \in DOMAIN heavyQueue' : phase'[heavyQueue'[i]] = "waiting"
      BY <3>1, <3>2, <3>3
    <3>5. \A i, j \in DOMAIN heavyQueue' :
             heavyQueue'[i] = heavyQueue'[j] => i = j
      BY <3>1, <3>2, <3>3
    <3>6. ASSUME NEW d \in Client, phase'[d] = "waiting"
          PROVE  \E i \in DOMAIN heavyQueue' : heavyQueue'[i] = d
      BY <3>1, <3>2, <3>3, <3>6
    <3> QED
      BY <3>4, <3>5, <3>6
  <2>5. ASSUME NEW c \in Client, ReleaseLight(c) PROVE QueueIsWaiters'
    BY <2>5 DEF ReleaseLight
  <2>6. ASSUME NEW c \in Client, Release(c) PROVE QueueIsWaiters'
    <3>1. phase[c] = "holding"
      BY <2>6 DEF Release
    <3>2. CASE HandOff(c)
      <4>1. /\ heavyQueue # <<>>
            /\ heavyQueue' = Tail(heavyQueue)
            /\ phase' = [phase EXCEPT ![c] = "idle", ![Head(heavyQueue)] = "holding"]
        BY <3>2 DEF HandOff
      <4>2. /\ heavyQueue' \in Seq(Client)
            /\ Len(heavyQueue') = Len(heavyQueue) - 1
            /\ \A i \in 1 .. Len(heavyQueue') :
                  heavyQueue'[i] = heavyQueue[i + 1]
            /\ Head(heavyQueue) \in Client
        BY <4>1, HeadTailProperties
      <4>3. /\ Head(heavyQueue) = heavyQueue[1]
            /\ DOMAIN heavyQueue = 1 .. Len(heavyQueue)
            /\ DOMAIN heavyQueue' = 1 .. Len(heavyQueue) - 1
            /\ Len(heavyQueue) \in Nat /\ Len(heavyQueue) >= 1
        BY <4>1, <4>2
      <4>4. \A i \in DOMAIN heavyQueue' : phase'[heavyQueue'[i]] = "waiting"
        BY <3>1, <4>1, <4>2, <4>3
      <4>5. \A i, j \in DOMAIN heavyQueue' :
               heavyQueue'[i] = heavyQueue'[j] => i = j
        <5> SUFFICES ASSUME NEW i \in 1 .. Len(heavyQueue) - 1,
                            NEW j \in 1 .. Len(heavyQueue) - 1,
                            heavyQueue'[i] = heavyQueue'[j]
                     PROVE  i = j
          BY <4>3
        <5>1. heavyQueue[i + 1] = heavyQueue[j + 1]
          BY <4>2
        <5>2. i + 1 \in DOMAIN heavyQueue /\ j + 1 \in DOMAIN heavyQueue
          BY <4>3
        <5>3. i + 1 = j + 1
          BY <5>1, <5>2
        <5> QED
          BY <5>3, <4>3
      <4>6. ASSUME NEW d \in Client, phase'[d] = "waiting"
            PROVE  \E i \in DOMAIN heavyQueue' : heavyQueue'[i] = d
        <5>1. phase[d] = "waiting" /\ d # Head(heavyQueue)
          BY <4>1, <4>2, <4>6
        <5>2. PICK i \in DOMAIN heavyQueue : heavyQueue[i] = d
          BY <5>1
        <5>3. i - 1 \in DOMAIN heavyQueue' /\ heavyQueue'[i - 1] = d
          BY <5>1, <5>2, <4>2, <4>3
        <5> QED
          BY <5>3
      <4> QED
        BY <4>4, <4>5, <4>6
    <3>3. CASE GiveBack(c)
      BY <3>1, <3>3 DEF GiveBack
    <3> QED
      BY <2>6, <3>2, <3>3 DEF Release
  <2>7. CASE LeftEnds
    BY <2>7 DEF LeftEnds
  <2> QED
    BY <2>1, <2>2, <2>3, <2>4, <2>5, <2>6, <2>7 DEF SlotsNext
<1> QED
  BY <1>1, <1>2, SlotsTyping, PTL DEF SlotsSpec

-----------------------------------------------------------------------------
(* Waiting and free slots *)

\* An attempt waits only while the counter shows no free slot: it was queued
\* for want of one, a release that serves somebody leaves the counter higher,
\* and one that lowers it finds nobody waiting.
THEOREM NobodyWaitsInVain == SlotsSpec => []NoWaitWithFreeSlot
<1> USE DEF NoWaitWithFreeSlot, HasFreeSlot
<1>1. SlotsInit => NoWaitWithFreeSlot
  BY DEF SlotsInit
<1>2. SlotsTypeOK /\ NoWaitWithFreeSlot /\ [SlotsNext]_slotVars => NoWaitWithFreeSlot'
  <2> SUFFICES ASSUME SlotsTypeOK, NoWaitWithFreeSlot, [SlotsNext]_slotVars
               PROVE  NoWaitWithFreeSlot'
    OBVIOUS
  <2>0. activeHeavyCount \in Nat /\ maxConcurrentHeavy \in Nat
    BY LimitAssumption DEF SlotsTypeOK
  <2>1. CASE UNCHANGED slotVars
    BY <2>1 DEF slotVars
  <2>2. ASSUME NEW c \in Client, AcquireLight(c) PROVE NoWaitWithFreeSlot'
    BY <2>2 DEF AcquireLight
  <2>3. ASSUME NEW c \in Client, AcquireNow(c) PROVE NoWaitWithFreeSlot'
    BY <2>3, <2>0 DEF AcquireNow
  <2>4. ASSUME NEW c \in Client, AcquireLater(c) PROVE NoWaitWithFreeSlot'
    BY <2>4 DEF AcquireLater
  <2>5. ASSUME NEW c \in Client, ReleaseLight(c) PROVE NoWaitWithFreeSlot'
    BY <2>5 DEF ReleaseLight
  <2>6. ASSUME NEW c \in Client, Release(c) PROVE NoWaitWithFreeSlot'
    <3>1. CASE HandOff(c)
      BY <3>1, <2>0 DEF HandOff
    <3>2. CASE GiveBack(c)
      BY <3>2 DEF GiveBack
    <3> QED
      BY <2>6, <3>1, <3>2 DEF Release
  <2>7. CASE LeftEnds
    BY <2>7 DEF LeftEnds
  <2> QED
    BY <2>1, <2>2, <2>3, <2>4, <2>5, <2>6, <2>7 DEF SlotsNext
<1> QED
  BY <1>1, <1>2, SlotsTyping, PTL DEF SlotsSpec

-----------------------------------------------------------------------------
(* The limit *)

LEMMA HoldersFinite ==
  ASSUME SlotsTypeOK
  PROVE  /\ IsFiniteSet(Holders)
         /\ Cardinality(Holders) \in Nat
BY ClientAssumption, FS_Subset, FS_CardinalityType DEF Holders

\* The counter never shows less than the number of attempts that hold a slot,
\* because it never falls behind by more than it leaks at each hand-off.
LimitInv == SlotsTypeOK /\ QueueIsWaiters /\ SlotAccounting /\ SpawnLimit

\* An attempt gets a slot only while the counter shows a free one, or in the
\* place of an attempt that is over: the limit on attempts is never exceeded,
\* whatever commands are left behind.
THEOREM LimitRespected == SlotsSpec => [](SpawnLimit /\ SlotAccounting)
<1>1. SlotsInit => SlotAccounting /\ SpawnLimit
  <2> SUFFICES ASSUME SlotsInit PROVE SlotAccounting /\ SpawnLimit
    OBVIOUS
  <2>1. Holders = {}
    BY DEF SlotsInit, Holders
  <2>2. Cardinality(Holders) = 0
    BY <2>1, FS_EmptySet
  <2> QED
    BY <2>2, LimitAssumption DEF SlotsInit, SlotAccounting, SpawnLimit
<1>2. LimitInv /\ [SlotsNext]_slotVars => SlotAccounting' /\ SpawnLimit'
  <2> SUFFICES ASSUME LimitInv, [SlotsNext]_slotVars
               PROVE  SlotAccounting' /\ SpawnLimit'
    OBVIOUS
  <2> USE DEF LimitInv
  <2> DEFINE n == Cardinality(Holders)
  <2>0. IsFiniteSet(Holders) /\ n \in Nat
    BY HoldersFinite
  <2>1. /\ activeHeavyCount = n + totalDequeued
        /\ n <= maxConcurrentHeavy
        /\ activeHeavyCount \in Nat /\ totalDequeued \in Nat
        /\ phase \in [Client -> Phase]
        /\ maxConcurrentHeavy \in Nat
    BY LimitAssumption DEF SlotAccounting, SpawnLimit, SlotsTypeOK
  <2>2. ASSUME Holders' = Holders,
               UNCHANGED <<activeHeavyCount, totalDequeued>>
        PROVE  SlotAccounting' /\ SpawnLimit'
    BY <2>1, <2>2 DEF SlotAccounting, SpawnLimit
  <2>3. CASE UNCHANGED slotVars
    BY <2>2, <2>3 DEF slotVars, metrics, Holders
  <2>4. ASSUME NEW c \in Client, AcquireLight(c)
        PROVE  SlotAccounting' /\ SpawnLimit'
    BY <2>1, <2>2, <2>4 DEF AcquireLight, metrics, Holders
  <2>5. ASSUME NEW c \in Client, AcquireNow(c)
        PROVE  SlotAccounting' /\ SpawnLimit'
    <3>1. Holders' = Holders \cup {c} /\ c \notin Holders
      BY <2>1, <2>5 DEF AcquireNow, Holders
    <3>2. Cardinality(Holders') = n + 1
      BY <2>0, <3>1, FS_AddElement
    <3>3. /\ activeHeavyCount' = activeHeavyCount + 1
          /\ totalDequeued' = totalDequeued
          /\ activeHeavyCount < maxConcurrentHeavy
      BY <2>5 DEF AcquireNow, HasFreeSlot
    <3>4. n + 1 <= maxConcurrentHeavy /\ activeHeavyCount' = n + 1 + totalDequeued'
      BY <2>0, <2>1, <3>3
    <3> QED
      BY <3>2, <3>4 DEF SlotAccounting, SpawnLimit
  <2>6. ASSUME NEW c \in Client, AcquireLater(c)
        PROVE  SlotAccounting' /\ SpawnLimit'
    BY <2>1, <2>2, <2>6 DEF AcquireLater, Holders
  <2>7. ASSUME NEW c \in Client, ReleaseLight(c)
        PROVE  SlotAccounting' /\ SpawnLimit'
    BY <2>1, <2>2, <2>7 DEF ReleaseLight, metrics, Holders
  <2>8. ASSUME NEW c \in Client, Release(c)
        PROVE  SlotAccounting' /\ SpawnLimit'
    <3>1. c \in Holders
      BY <2>8 DEF Release, Holders
    <3>2. IsFiniteSet(Holders \ {c}) /\ Cardinality(Holders \ {c}) = n - 1
      BY <2>0, <3>1, FS_RemoveElement
    <3>3. CASE HandOff(c)
      <4> DEFINE h == Head(heavyQueue)
      <4>1. h = heavyQueue[1] /\ 1 \in DOMAIN heavyQueue /\ h \in Client
        BY <3>3, HeadTailProperties DEF HandOff, SlotsTypeOK
      <4>2. phase[h] = "waiting"
        BY <4>1 DEF QueueIsWaiters
      <4>3. h # c /\ h \notin Holders
        BY <3>1, <4>2 DEF Holders
      <4>4. phase' = [phase EXCEPT ![c] = "idle", ![h] = "holding"]
        BY <3>3 DEF HandOff
      <4>5. Holders' = (Holders \ {c}) \cup {h}
        BY <2>1, <4>1, <4>3, <4>4 DEF Holders
      <4>6. Cardinality(Holders') = n
        <5>1. h \notin Holders \ {c}
          BY <4>3
        <5>2. Cardinality((Holders \ {c}) \cup {h})
                = Cardinality(Holders \ {c}) + 1
          BY <3>2, <5>1, FS_AddElement
        <5> QED
          BY <2>0, <3>2, <4>5, <5>2
      <4>7. /\ activeHeavyCount' = activeHeavyCount + 1
            /\ totalDequeued' = totalDequeued + 1
        BY <3>3 DEF HandOff
      <4> QED
        BY <2>0, <2>1, <4>6, <4>7 DEF SlotAccounting, SpawnLimit
    <3>4. CASE GiveBack(c)
      <4>1. Holders' = Holders \ {c}
        BY <2>1, <3>4 DEF GiveBack, Holders
      <4>2. n >= 1
        BY <2>0, <3>1, FS_EmptySet
      <4>3. activeHeavyCount' = activeHeavyCount - 1
            /\ totalDequeued' = totalDequeued
        BY <2>0, <2>1, <3>4, <4>2 DEF GiveBack
      <4> QED
        BY <2>0, <2>1, <3>2, <4>1, <4>3 DEF SlotAccounting, SpawnLimit
    <3> QED
      BY <2>8, <3>3, <3>4 DEF Release
  <2>9. CASE LeftEnds
    BY <2>2, <2>9 DEF LeftEnds, metrics, Holders
  <2> QED
    BY <2>3, <2>4, <2>5, <2>6, <2>7, <2>8, <2>9 DEF SlotsNext
<1> QED
  BY <1>1, <1>2, SlotsTyping, QueueCorrect, PTL DEF SlotsSpec, LimitInv

\* Once as many waiters have been served as there are slots, the counter never
\* shows a free slot again: the limiter is wedged for the rest of the process.
THEOREM WedgedForever ==
  SlotsSpec => [](totalDequeued >= maxConcurrentHeavy => ~HasFreeSlot)
<1>1. ASSUME SlotsTypeOK, SlotAccounting, totalDequeued >= maxConcurrentHeavy
      PROVE  ~HasFreeSlot
  BY <1>1, HoldersFinite, LimitAssumption
     DEF SlotAccounting, HasFreeSlot, SlotsTypeOK
<1> QED
  BY <1>1, SlotsTyping, LimitRespected, PTL

-----------------------------------------------------------------------------
(* AgentProcess: the first session *)

\* A set of children has a first one.
LEMMA MinOf ==
  ASSUME NEW S \in SUBSET Nat, S # {}
  PROVE  Min(S) \in S
<1> DEFINE R == {ss \in Nat \X Nat : ss[1] < ss[2]}
<1>1. IsWellFoundedOn(R, Nat)
  BY NatLessThanWellFounded DEF OpToRel
<1>2. PICK x \in S : \A y \in S : ~ (<<y, x>> \in R)
  BY <1>1, WFMin
<1>3. ASSUME NEW y \in S PROVE x <= y
  <2>1. <<y, x>> \notin R
    BY <1>2
  <2>2. <<y, x>> \in Nat \X Nat
    OBVIOUS
  <2>3. ~(y < x)
    BY <2>1, <2>2
  <2> QED
    BY <2>3
<1> QED
  BY <1>3 DEF Min

-----------------------------------------------------------------------------
(* The invariant *)

Results == {"none", "done", "failed", "waiting"}

\* The part of TypeOK that the rest needs.
ChildTypes ==
  /\ state \in [Child -> {"none", "running", "asking", "dead", "closed"}]
  /\ exit \in [Child -> {"none"} \cup Exit]
  /\ home \in [Child -> Process \cup {Gone}]
  /\ early \in [Child -> BOOLEAN]
  /\ sessions \in [Process -> SUBSET Child]

CallTypes ==
  /\ pc \in [Call -> Pc]
  /\ attached \in [Call -> Child \cup {None, NoCommand}]
  /\ result \in [Call -> Results]

\* A child that has not died has no exit, and its executor cannot have returned
\* before it was spawned.
ChildrenBegin ==
  \A i \in Child :
    /\ state[i] \in {"none", "running", "asking"} => exit[i] = "none"
    /\ state[i] = "none" => ~early[i]

\* The table of a process holds children of its own that are still to close.
SessionsOpen ==
  \A m \in Process : \A i \in sessions[m] : Open(i) /\ home[i] = m

\* The call waits for a child that is still to close, whose handlers are its
\* own process's and, if it is the call that spawned it, still settle the call.
Heard(k) ==
  pc[k] \in {"joined", "running"} =>
    /\ attached[k] \in Child
    /\ Open(attached[k])
    /\ home[attached[k]] = Home[k]
    /\ pc[k] = "running" => ~early[attached[k]]

\* The result "done" is that of a child, until the task is judged and after.
Justified(k) ==
  result[k] = "done" =>
    /\ pc[k] \in {"judge", "idle"}
    /\ \/ attached[k] = NoCommand
       \/ attached[k] \in Child /\ exit[attached[k]] = "ok"

Children == ChildTypes /\ ChildrenBegin /\ SessionsOpen
Calls == CallTypes /\ \A k \in Call : Heard(k) /\ Justified(k)

Inv == Children /\ Calls

LEMMA InvGivesProperties == Inv => WaitsAreHeard /\ DoneMeansExitedOk
BY DEF Inv, Calls, Heard, Justified, WaitsAreHeard, DoneMeansExitedOk

LEMMA InitInv == Init => Inv
<1> SUFFICES ASSUME Init PROVE Inv
  OBVIOUS
<1>1. Children
  BY DEF Init, Children, ChildTypes, ChildrenBegin, SessionsOpen
<1>2. Calls
  BY DEF Init, Calls, CallTypes, Results, Pc, Heard, Justified
<1> QED
  BY <1>1, <1>2 DEF Inv

-----------------------------------------------------------------------------
(* Steps of a call that touch no child and begin no wait *)

\* What such a step does: done is not said anew, but of a task without commands,
\* and what it was said of stays.
Moves(k) ==
  /\ UNCHANGED <<state, exit, home, early, sessions>>
  /\ \E to \in Pc \ {"joined", "running"}, r \in Results,
        a \in Child \cup {None, NoCommand} :
       /\ pc' = [pc EXCEPT ![k] = to]
       /\ result' = [result EXCEPT ![k] = r]
       /\ attached' = [attached EXCEPT ![k] = a]
       /\ r = "done" =>
            /\ to \in {"judge", "idle"}
            /\ a = NoCommand \/ (result[k] = "done" /\ a = attached[k])

LEMMA MovesKeep ==
  ASSUME NEW k \in Call, Inv, Moves(k)
  PROVE  Inv'
<1>1. PICK to \in Pc \ {"joined", "running"}, r \in Results,
           a \in Child \cup {None, NoCommand} :
             /\ pc' = [pc EXCEPT ![k] = to]
             /\ result' = [result EXCEPT ![k] = r]
             /\ attached' = [attached EXCEPT ![k] = a]
             /\ r = "done" =>
                  /\ to \in {"judge", "idle"}
                  /\ a = NoCommand \/ (result[k] = "done" /\ a = attached[k])
  BY DEF Moves
<1>2. UNCHANGED <<state, exit, home, early, sessions>>
  BY DEF Moves
<1>3. Children'
  BY <1>2 DEF Inv, Children, ChildTypes, ChildrenBegin, SessionsOpen, Open
<1>4. CallTypes'
  BY <1>1 DEF Inv, Calls, CallTypes
<1>5. ASSUME NEW j \in Call PROVE Heard(j)' /\ Justified(j)'
  <2> USE DEF Inv, Calls, CallTypes, Heard, Justified, Open
  <2>1. CASE j = k
    BY <1>1, <1>2, <2>1
  <2>2. CASE j # k
    BY <1>1, <1>2, <2>2
  <2> QED
    BY <2>1, <2>2
<1> QED
  BY <1>3, <1>4, <1>5 DEF Inv, Calls

LEMMA EnterMoves ==
  ASSUME NEW k \in Call, NEW at \in {"stop", "look"}, Inv, Enter(k, at),
         UNCHANGED <<state, exit, home, early, sessions>>
  PROVE  Moves(k)
BY DEF Enter, Moves, Pc, Results

LEMMA LeaveMoves ==
  ASSUME NEW k \in Call, NEW r \in Results, Inv, Leave(k, r),
         r = "done" => result[k] = "done"
  PROVE  Moves(k)
<1>1. attached[k] \in Child \cup {None, NoCommand}
  BY DEF Inv, Calls, CallTypes
<1>2. CASE r = "done"
  BY <1>1, <1>2 DEF Leave, Moves, Pc
<1>3. CASE r # "done"
  BY <1>1, <1>3 DEF Leave, Moves, Pc
<1> QED
  BY <1>2, <1>3

LEMMA PassOnMoves ==
  ASSUME NEW k \in Call, NEW to \in Pc \ {"joined", "running"}, Inv,
         pc[k] \notin {"judge", "idle"},
         pc' = [pc EXCEPT ![k] = to],
         UNCHANGED <<state, exit, home, early, sessions, attached, result>>
  PROVE  Moves(k)
<1>1. /\ result[k] \in Results \ {"done"}
      /\ attached[k] \in Child \cup {None, NoCommand}
  BY DEF Inv, Calls, CallTypes, Justified
<1>2. /\ result' = [result EXCEPT ![k] = result[k]]
      /\ attached' = [attached EXCEPT ![k] = attached[k]]
  BY DEF Inv, Calls, CallTypes
<1> QED
  BY <1>1, <1>2 DEF Moves

LEMMA QuietSteps ==
  ASSUME NEW k \in Call, Inv,
         \/ ExecuteRun(k) \/ ContinueRun(k) \/ ExecuteSingleTask(k)
         \/ StopNotFound(k) \/ StopEnds(k) \/ Look(k) \/ SpawnFails(k)
         \/ NothingToRun(k)
         \/ LeaveWaiting(k) \/ AskUser(k) \/ UserCancels(k)
         \/ UserAnswersRetry(k) \/ RetryAttempt(k) \/ EndTask(k)
  PROVE  Inv'
<1> SUFFICES Moves(k)
  BY MovesKeep
<1> USE DEF os
<1>1. CASE ExecuteRun(k) \/ ContinueRun(k) \/ ExecuteSingleTask(k)
  BY <1>1, EnterMoves
     DEF ExecuteRun, ContinueRun, ExecuteSingleTask, StartsTask, memory
<1>2. CASE StopNotFound(k)
  BY <1>2, PassOnMoves DEF StopNotFound, Pc
<1>3. CASE StopEnds(k)
  BY <1>3, PassOnMoves DEF StopEnds, Pc
<1>4. CASE Look(k)
  BY <1>4, PassOnMoves DEF Look, Pc, memory
<1>5. CASE AskUser(k) \/ UserAnswersRetry(k)
  BY <1>5, PassOnMoves DEF AskUser, UserAnswersRetry, Pc, memory
<1>6. CASE SpawnFails(k)
  BY <1>6 DEF SpawnFails, Moves, Pc, Results
<1>10. CASE NothingToRun(k)
  BY <1>10 DEF NothingToRun, Moves, Pc, Results, memory
<1>7. CASE RetryAttempt(k)
  BY <1>7 DEF RetryAttempt, Moves, Pc, Results, memory
<1>8. CASE LeaveWaiting(k) \/ UserCancels(k)
  BY <1>8, LeaveMoves DEF LeaveWaiting, UserCancels, Results
<1>9. CASE EndTask(k)
  <2>1. result[k] \in Results
    BY DEF Inv, Calls, CallTypes
  <2> QED
    BY <1>9, <2>1, LeaveMoves DEF EndTask
<1> QED
  BY <1>1, <1>2, <1>3, <1>4, <1>5, <1>6, <1>7, <1>8, <1>9, <1>10

-----------------------------------------------------------------------------
(* The other steps of a call *)

\* An abort settles the attempts of children that stay open until they close,
\* so a call that joined one of them still hears of it.
LEMMA StopAbortsKeeps ==
  ASSUME NEW k \in Call, Inv, StopAborts(k)
  PROVE  Inv'
<1> DEFINE S == Shot(Home[k])
<1> DEFINE done == Settle(S)
<1>1. /\ UNCHANGED <<state, exit, home, early>>
      /\ sessions' = [h \in Process |-> sessions[h] \ S]
      /\ pc[k] = "stop"
      /\ pc' = [j \in Call |-> IF j \in done THEN "judge"
                               ELSE IF j = k THEN "stopping" ELSE pc[j]]
      /\ result' = [j \in Call |-> IF j \in done THEN "failed" ELSE result[j]]
      /\ attached' = [j \in Call |-> IF j \in done THEN None ELSE attached[j]]
  BY DEF StopAborts
<1> HIDE DEF S, done
<1>2. Children'
  BY <1>1 DEF Inv, Children, ChildTypes, ChildrenBegin, SessionsOpen, Open
<1>3. CallTypes'
  BY <1>1 DEF Inv, Calls, CallTypes, Pc, Results
<1>4. ASSUME NEW j \in Call PROVE Heard(j)' /\ Justified(j)'
  <2> USE DEF Inv, Calls, CallTypes, Heard, Justified, Open
  <2>1. CASE j \in done
    BY <1>1, <2>1
  <2>2. CASE j \notin done /\ j = k
    BY <1>1, <2>2
  <2>3. CASE j \notin done /\ j # k
    BY <1>1, <2>3
  <2> QED
    BY <2>1, <2>2, <2>3
<1> QED
  BY <1>2, <1>3, <1>4 DEF Inv, Calls

\* The session that is joined is open and the process's own.
LEMMA FirstSession ==
  ASSUME Inv, NEW m \in Process, HasSession(m)
  PROVE  /\ First(m) \in Child
         /\ Open(First(m)) /\ home[First(m)] = m
<1>1. sessions[m] \in SUBSET Child /\ sessions[m] # {}
  BY DEF Inv, Children, ChildTypes, HasSession
<1>2. First(m) \in sessions[m]
  BY <1>1, MinOf, BoundsAssumption DEF First, Child
<1> QED
  BY <1>1, <1>2 DEF Inv, Children, SessionsOpen

LEMMA JoinKeeps ==
  ASSUME NEW k \in Call, Inv, Join(k)
  PROVE  Inv'
<1>1. Home[k] \in Process
  BY DEF Process
<1>2. /\ UNCHANGED <<state, exit, home, early>>
      /\ pc[k] = "join"
  BY DEF Join, os
<1>3. result[k] \in Results \ {"done"} /\ attached[k] \in Child \cup {None, NoCommand}
  BY <1>2 DEF Inv, Calls, CallTypes, Justified
<1>4. CASE /\ ~HasSession(Home[k])
           /\ result' = [result EXCEPT ![k] = "failed"]
           /\ attached' = [attached EXCEPT ![k] = None]
           /\ pc' = [pc EXCEPT ![k] = "judge"]
           /\ UNCHANGED sessions
  <2>1. Moves(k)
    BY <1>2, <1>4 DEF Moves, Pc, Results
  <2> QED
    BY <2>1, MovesKeep
<1>5. ASSUME NEW i \in Child,
             HasSession(Home[k]), i = First(Home[k]), ~NoExitCode(i),
             result' = [result EXCEPT ![k] = Verdict(i)],
             attached' = [attached EXCEPT ![k] = i],
             pc' = [pc EXCEPT ![k] = "judge"],
             sessions' = [sessions EXCEPT ![Home[k]] = Removed(@, i)]
      PROVE  Inv'
  <2>1. Verdict(i) \in {"done", "failed"} /\ (Verdict(i) = "done" => exit[i] = "ok")
    BY DEF Verdict
  <2>2. Children'
    BY <1>1, <1>2, <1>5
       DEF Inv, Children, ChildTypes, ChildrenBegin, SessionsOpen, Open, Removed
  <2>3. CallTypes'
    BY <1>5, <2>1 DEF Inv, Calls, CallTypes, Pc, Results
  <2>4. ASSUME NEW j \in Call PROVE Heard(j)' /\ Justified(j)'
    <3> USE DEF Inv, Calls, CallTypes, Heard, Justified, Open
    <3>1. CASE j = k
      BY <1>2, <1>5, <2>1, <3>1
    <3>2. CASE j # k
      BY <1>2, <1>5, <3>2
    <3> QED
      BY <3>1, <3>2
  <2> QED
    BY <2>2, <2>3, <2>4 DEF Inv, Calls
<1>6. ASSUME NEW i \in Child, Open(i), home[i] = Home[k],
             attached' = [attached EXCEPT ![k] = i],
             pc' = [pc EXCEPT ![k] = "joined"],
             UNCHANGED <<sessions, result>>
      PROVE  Inv'
  <2>1. Children'
    BY <1>2, <1>6 DEF Inv, Children, ChildTypes, ChildrenBegin, SessionsOpen, Open
  <2>2. CallTypes'
    BY <1>6 DEF Inv, Calls, CallTypes, Pc
  <2>3. ASSUME NEW j \in Call PROVE Heard(j)' /\ Justified(j)'
    <3> USE DEF Inv, Calls, CallTypes, Heard, Justified, Open
    <3>1. CASE j = k
      BY <1>2, <1>3, <1>6, <3>1
    <3>2. CASE j # k
      BY <1>2, <1>6, <3>2
    <3> QED
      BY <3>1, <3>2
  <2> QED
    BY <2>1, <2>2, <2>3 DEF Inv, Calls
<1>7. CASE ~HasSession(Home[k])
  BY <1>4, <1>7 DEF Join
<1>8. CASE HasSession(Home[k])
  <2>1. First(Home[k]) \in Child /\ Open(First(Home[k])) /\ home[First(Home[k])] = Home[k]
    BY <1>1, <1>8, FirstSession
  <2>2. CASE NoExitCode(First(Home[k]))
    BY <1>6, <1>8, <2>1, <2>2 DEF Join
  <2>3. CASE ~NoExitCode(First(Home[k]))
    BY <1>5, <1>8, <2>1, <2>3 DEF Join
  <2> QED
    BY <2>2, <2>3
<1> QED
  BY <1>7, <1>8

\* The child that is spawned is nobody's yet.
LEMMA SpawnKeeps ==
  ASSUME NEW k \in Call, Inv, Spawn(k)
  PROVE  Inv'
<1> DEFINE Free == {c \in Child : state[c] = "none"}
<1> DEFINE i == Min(Free)
<1>1. i \in Child /\ state[i] = "none"
  <2>1. Free \in SUBSET Nat /\ Free # {}
    BY DEF Spawn, Child
  <2> QED
    BY <2>1, MinOf
<1>2. /\ UNCHANGED <<exit, early>>
      /\ pc[k] = "acquire"
      /\ state' = [state EXCEPT ![i] = "running"]
      /\ home' = [home EXCEPT ![i] = Home[k]]
      /\ attached' = [attached EXCEPT ![k] = i]
      /\ sessions' = [sessions EXCEPT ![Home[k]] = IF aborted[k] THEN @ ELSE @ \cup {i}]
      /\ pc' = [pc EXCEPT ![k] = IF aborted[k] THEN "judge" ELSE "running"]
      /\ result' = [result EXCEPT ![k] = IF aborted[k] THEN "failed" ELSE "none"]
  BY DEF Spawn
<1> HIDE DEF i
<1>3. Home[k] \in Process
  BY DEF Process
<1>4. Children'
  <2>1. ChildTypes'
    BY <1>1, <1>2, <1>3 DEF Inv, Children, ChildTypes
  <2>2. ChildrenBegin'
    BY <1>1, <1>2 DEF Inv, Children, ChildTypes, ChildrenBegin
  <2>3. ASSUME NEW m \in Process, NEW c \in sessions'[m]
        PROVE  Open(c)' /\ home'[c] = m
    <3>1. CASE c = i /\ c \notin sessions[m]
      BY <1>1, <1>2, <1>3, <2>3, <3>1 DEF Inv, Children, ChildTypes, Open
    <3>2. CASE c \in sessions[m]
      <4>1. c \in Child /\ Open(c) /\ home[c] = m
        BY <3>2 DEF Inv, Children, ChildTypes, SessionsOpen
      <4>2. c # i
        BY <1>1, <4>1 DEF Open
      <4> QED
        BY <1>2, <4>1, <4>2 DEF Inv, Children, ChildTypes, Open
    <3>3. c = i \/ c \in sessions[m]
      BY <1>2, <1>3, <2>3 DEF Inv, Children, ChildTypes
    <3> QED
      BY <3>1, <3>2, <3>3
  <2> QED
    BY <2>1, <2>2, <2>3 DEF Children, SessionsOpen
<1>5. CallTypes'
  BY <1>1, <1>2 DEF Inv, Calls, CallTypes, Pc, Results
<1>6. ASSUME NEW j \in Call PROVE Heard(j)' /\ Justified(j)'
  <2> USE DEF Inv, Children, ChildTypes, ChildrenBegin, Calls, CallTypes, Heard,
              Justified, Open
  <2>1. CASE j = k
    BY <1>1, <1>2, <2>1
  <2>2. CASE j # k
    BY <1>1, <1>2, <2>2
  <2> QED
    BY <2>1, <2>2
<1> QED
  BY <1>4, <1>5, <1>6 DEF Inv, Calls

LEMMA UserAnswersKeeps ==
  ASSUME NEW k \in Call, Inv, UserAnswers(k)
  PROVE  Inv'
<1>1. /\ UNCHANGED <<exit, home, early, sessions, attached, result>>
      /\ pc[k] = "asked"
      /\ pc' = [pc EXCEPT ![k] = "join"]
      /\ state' \in [Child -> {"none", "running", "asking", "dead", "closed"}]
      /\ \A i \in Child :
           state'[i] = state[i] \/ (state[i] = "asking" /\ state'[i] = "running")
  BY DEF UserAnswers, Inv, Children, ChildTypes, memory
<1>2. Children'
  BY <1>1 DEF Inv, Children, ChildTypes, ChildrenBegin, SessionsOpen, Open
<1>3. CallTypes'
  BY <1>1 DEF Inv, Calls, CallTypes, Pc
<1>4. ASSUME NEW j \in Call PROVE Heard(j)' /\ Justified(j)'
  <2> USE DEF Inv, Calls, CallTypes, Heard, Justified, Open
  <2>1. CASE j = k
    BY <1>1, <2>1
  <2>2. CASE j # k
    BY <1>1, <2>2
  <2> QED
    BY <2>1, <2>2
<1> QED
  BY <1>2, <1>3, <1>4 DEF Inv, Calls

LEMMA CallKeeps ==
  ASSUME NEW k \in Call, Inv, CallStep(k)
  PROVE  Inv'
BY QuietSteps, StopAbortsKeeps, JoinKeeps, SpawnKeeps, UserAnswersKeeps
   DEF CallStep

-----------------------------------------------------------------------------
(* Steps of a child, of a process and of the files *)

LEMMA UnheardKeeps ==
  ASSUME Inv, UNCHANGED <<state, exit, home, early, sessions, pc, attached, result>>
  PROVE  Inv'
BY DEF Inv, Children, ChildTypes, ChildrenBegin, SessionsOpen, Calls, CallTypes,
       Heard, Justified, Open

\* An executor that returns early settles every call that waits for its child,
\* so none is left waiting for a child that no longer settles it.
LEMMA PromptsKeeps ==
  ASSUME NEW i \in Child, Inv, Prompts(i)
  PROVE  Inv'
<1> DEFINE inline == tty /\ CanType
<1> DEFINE done == IF inline THEN {} ELSE Settle({i})
<1>1. /\ UNCHANGED <<exit, home, sessions>>
      /\ state[i] = "running" /\ ~early[i]
      /\ state' = [state EXCEPT ![i] = "asking"]
      /\ early' = [early EXCEPT ![i] = ~inline]
      /\ pc' = [k \in Call |-> IF k \in done THEN "waiting" ELSE pc[k]]
      /\ result' = [k \in Call |-> IF k \in done THEN "waiting" ELSE result[k]]
      /\ attached' = [k \in Call |-> IF k \in done THEN None ELSE attached[k]]
  BY DEF Prompts, memory
<1>2. ASSUME NEW k \in Call, pc[k] = "running", attached[k] = i, ~inline
      PROVE  k \in done
  BY <1>1, <1>2 DEF Settle
<1>3. inline \in BOOLEAN
  OBVIOUS
<1> HIDE DEF inline, done
<1>4. Children'
  BY <1>1, <1>3 DEF Inv, Children, ChildTypes, ChildrenBegin, SessionsOpen, Open
<1>5. CallTypes'
  BY <1>1 DEF Inv, Calls, CallTypes, Pc, Results
<1>6. ASSUME NEW k \in Call PROVE Heard(k)' /\ Justified(k)'
  <2> USE DEF Inv, Children, ChildTypes, Calls, CallTypes, Heard, Justified, Open
  <2>1. CASE k \in done
    BY <1>1, <2>1
  <2>2. CASE k \notin done
    BY <1>1, <1>2, <1>3, <2>2
  <2> QED
    BY <2>1, <2>2
<1> QED
  BY <1>4, <1>5, <1>6 DEF Inv, Calls

LEMMA AnsweredInlineKeeps ==
  ASSUME NEW i \in Child, Inv, AnsweredInline(i)
  PROVE  Inv'
<1>1. /\ UNCHANGED <<exit, home, early, sessions, pc, attached, result>>
      /\ state[i] = "asking"
      /\ state' = [state EXCEPT ![i] = "running"]
  BY DEF AnsweredInline, memory, calls
<1>2. Children'
  BY <1>1 DEF Inv, Children, ChildTypes, ChildrenBegin, SessionsOpen, Open
<1>3. Calls'
  BY <1>1 DEF Inv, Children, ChildTypes, Calls, CallTypes, Heard, Justified, Open
<1> QED
  BY <1>2, <1>3 DEF Inv

\* A child that dies had no exit, so nobody has called it well ended.
LEMMA DiesKeeps ==
  ASSUME NEW i \in Child, NEW e \in Exit, Inv, Dies(i, e)
  PROVE  Inv'
<1>1. /\ UNCHANGED <<home, early, sessions, pc, attached, result>>
      /\ state[i] \in {"running", "asking"} /\ exit[i] = "none"
      /\ state' = [state EXCEPT ![i] = "dead"]
      /\ exit' = [exit EXCEPT ![i] = e]
  BY DEF Dies, memory, calls, Alive, Inv, Children, ChildrenBegin
<1>2. Children'
  BY <1>1 DEF Inv, Children, ChildTypes, ChildrenBegin, SessionsOpen, Open
<1>3. Calls'
  BY <1>1 DEF Inv, Children, ChildTypes, Calls, CallTypes, Heard, Justified, Open
<1> QED
  BY <1>2, <1>3 DEF Inv

\* Of a buried child only how it ended is kept.
LEMMA BuriedKeeps ==
  ASSUME NEW i \in Child, Inv, state[i] = "dead", Buried(i)
  PROVE  /\ \A c \in Child \ {i} :
              /\ state'[c] = state[c] /\ exit'[c] = exit[c]
              /\ home'[c] = home[c] /\ early'[c] = early[c]
         /\ exit[i] = "ok" => exit'[i] = "ok"
         /\ state' \in [Child -> {"none", "running", "asking", "dead", "closed"}]
         /\ exit' \in [Child -> {"none"} \cup Exit]
         /\ home' \in [Child -> Process \cup {Gone}]
         /\ early' \in [Child -> BOOLEAN]
         /\ state'[i] = "closed"
         /\ ChildrenBegin'
<1> USE DEF Inv, Children, ChildTypes
<1>1. state' \in [Child -> {"none", "running", "asking", "dead", "closed"}]
  BY DEF Buried
<1>2. exit' \in [Child -> {"none"} \cup Exit] /\ (exit[i] = "ok" => exit'[i] = "ok")
  BY DEF Buried, Exit
<1>3. home' \in [Child -> Process \cup {Gone}] /\ early' \in [Child -> BOOLEAN]
  BY DEF Buried
<1>4. state'[i] = "closed"
  BY DEF Buried
<1>5. \A c \in Child \ {i} :
        /\ state'[c] = state[c] /\ exit'[c] = exit[c]
        /\ home'[c] = home[c] /\ early'[c] = early[c]
  BY DEF Buried
<1>6. ChildrenBegin'
  BY <1>4, <1>5 DEF ChildrenBegin
<1> QED
  BY <1>1, <1>2, <1>3, <1>4, <1>5, <1>6

\* The close handlers tell everybody who waits for the child.
LEMMA ClosesKeeps ==
  ASSUME NEW i \in Child, Inv, Closes(i)
  PROVE  Inv'
<1> DEFINE done == Settle({i}) \cup Joined(i)
<1> DEFINE kept == Without(Removed(sessions[home[i]], i), Cardinality(Joined(i)))
<1>1. /\ state[i] = "dead" /\ home[i] # Gone /\ Buried(i)
      /\ sessions' = [sessions EXCEPT ![home[i]] = kept]
      /\ pc' = [k \in Call |-> IF k \in done THEN "judge" ELSE pc[k]]
      /\ result' = [k \in Call |-> IF k \in done THEN Verdict(i) ELSE result[k]]
      /\ attached' = attached
  BY DEF Closes
<1>2. home[i] \in Process
  BY <1>1 DEF Inv, Children, ChildTypes
<1>3. kept \subseteq sessions[home[i]] \ {i}
  BY DEF Without, Removed
<1>4. ASSUME NEW k \in Call, k \in done PROVE attached[k] = i
  BY <1>4 DEF Settle, Joined
<1>5. ASSUME NEW k \in Call, k \notin done, pc[k] \in {"joined", "running"}
      PROVE  attached[k] # i
  BY <1>5 DEF Settle, Joined, Inv, Calls, Heard
<1>6. Verdict(i) \in {"done", "failed"} /\ (Verdict(i) = "done" => exit[i] = "ok")
  BY DEF Verdict
<1> HIDE DEF done, kept
<1>7. /\ \A c \in Child \ {i} :
              /\ state'[c] = state[c] /\ exit'[c] = exit[c]
              /\ home'[c] = home[c] /\ early'[c] = early[c]
      /\ exit[i] = "ok" => exit'[i] = "ok"
  BY <1>1, BuriedKeeps
<1>8. Children'
  <2>1. ChildTypes' /\ ChildrenBegin'
    BY <1>1, <1>2, <1>3, BuriedKeeps DEF Inv, Children, ChildTypes
  <2>2. ASSUME NEW m \in Process, NEW c \in sessions'[m]
        PROVE  Open(c)' /\ home'[c] = m
    <3>1. c \in sessions[m] /\ c # i
      BY <1>1, <1>2, <1>3, <2>2 DEF Inv, Children, ChildTypes, SessionsOpen
    <3>2. c \in Child /\ Open(c) /\ home[c] = m
      BY <3>1 DEF Inv, Children, ChildTypes, SessionsOpen
    <3> QED
      BY <1>7, <3>1, <3>2 DEF Open
  <2> QED
    BY <2>1, <2>2 DEF Children, SessionsOpen
<1>9. CallTypes'
  BY <1>1, <1>6 DEF Inv, Calls, CallTypes, Pc, Results
<1>10. ASSUME NEW k \in Call PROVE Heard(k)' /\ Justified(k)'
  <2> USE DEF Inv, Calls, CallTypes, Heard, Justified, Open
  <2>1. CASE k \in done
    BY <1>1, <1>4, <1>6, <1>7, <2>1
  <2>2. CASE k \notin done
    BY <1>1, <1>5, <1>7, <2>2
  <2> QED
    BY <2>1, <2>2
<1> QED
  BY <1>8, <1>9, <1>10 DEF Inv, Calls

LEMMA OrphanEndsKeeps ==
  ASSUME NEW i \in Child, Inv, OrphanEnds(i)
  PROVE  Inv'
<1>1. /\ state[i] = "dead" /\ home[i] = Gone /\ Buried(i)
      /\ UNCHANGED <<sessions, pc, attached, result>>
  BY DEF OrphanEnds, memory, calls
<1>2. /\ \A c \in Child \ {i} :
              /\ state'[c] = state[c] /\ exit'[c] = exit[c]
              /\ home'[c] = home[c] /\ early'[c] = early[c]
      /\ exit[i] = "ok" => exit'[i] = "ok"
  BY <1>1, BuriedKeeps
<1>3. Children'
  <2>1. ChildTypes' /\ ChildrenBegin'
    BY <1>1, BuriedKeeps DEF Inv, Children, ChildTypes
  <2>2. ASSUME NEW m \in Process, NEW c \in sessions[m]
        PROVE  Open(c)' /\ home'[c] = m
    <3>1. c \in Child /\ Open(c) /\ home[c] = m /\ c # i
      BY <1>1, ProcessAssumption DEF Inv, Children, ChildTypes, SessionsOpen
    <3> QED
      BY <1>2, <3>1 DEF Open
  <2> QED
    BY <1>1, <2>1, <2>2 DEF Children, SessionsOpen
<1>4. CallTypes'
  BY <1>1 DEF Inv, Calls, CallTypes
<1>5. ASSUME NEW k \in Call PROVE Heard(k)' /\ Justified(k)'
  <2>1. Home[k] # Gone
    BY ProcessAssumption DEF Process
  <2> QED
    BY <1>1, <1>2, <2>1 DEF Inv, Calls, CallTypes, Heard, Justified, Open
<1> QED
  BY <1>3, <1>4, <1>5 DEF Inv, Calls

\* A process ends only when none of its calls is under way.
LEMMA ProcessEndsKeeps ==
  ASSUME NEW m \in Process, Inv, ProcessEnds(m)
  PROVE  Inv'
<1>1. /\ UNCHANGED <<state, exit, early, pc, attached, result>>
      /\ \A k \in Call : Home[k] = m => pc[k] = "idle"
      /\ sessions' = [sessions EXCEPT ![m] = {}]
      /\ home' = [i \in Child |-> IF home[i] = m THEN Gone ELSE home[i]]
  BY DEF ProcessEnds, calls
<1>2. Children'
  <2>1. ChildTypes' /\ ChildrenBegin'
    BY <1>1 DEF Inv, Children, ChildTypes, ChildrenBegin
  <2>2. ASSUME NEW h \in Process, NEW c \in sessions'[h]
        PROVE  Open(c)' /\ home'[c] = h
    BY <1>1, <2>2 DEF Inv, Children, ChildTypes, SessionsOpen, Open
  <2> QED
    BY <2>1, <2>2 DEF Children, SessionsOpen
<1>3. Calls'
  BY <1>1 DEF Inv, Children, ChildTypes, Calls, CallTypes, Heard, Justified, Open
<1> QED
  BY <1>2, <1>3 DEF Inv

-----------------------------------------------------------------------------
(* One call at a time *)

OneCall == \A j, k \in Call : pc[j] # "idle" /\ pc[k] # "idle" => j = k

\* A process knows at most one session, a call that is about to spawn found
\* none, and one that joined a session joined that one.
OneSession == \A m \in Process : \A i, j \in sessions[m] : i = j
NoneFound == \A k \in Call : pc[k] = "acquire" => sessions[Home[k]] = {}
JoinedIt ==
  \A k \in Call : pc[k] = "joined" => sessions[Home[k]] \subseteq {attached[k]}

\* A child at work that nobody has sent a kill is in the table of its process.
AtWorkListed ==
  \A i \in Child : Alive(i) /\ home[i] # Gone /\ ~doomed[i] => i \in sessions[home[i]]

Alone ==
  /\ doomed = [i \in Child |-> doomed[i]]
  /\ exclusive => OneCall /\ OneSession /\ NoneFound /\ JoinedIt /\ AtWorkListed

LEMMA AloneGivesOneAgent ==
  ASSUME Inv, Alone, \A j, k \in Call : Home[j] = Home[k]
  PROVE  OneAgent
<1> SUFFICES ASSUME exclusive, NEW i \in Child, NEW j \in Child, i < j,
                    Alive(i), Alive(j), home[i] # Gone, home[j] # Gone,
                    ~doomed[i], ~doomed[j]
             PROVE  FALSE
  BY DEF OneAgent
<1>1. home[i] \in Process /\ home[j] = home[i]
  BY DEF Inv, Children, ChildTypes, Process
<1>2. i \in sessions[home[i]] /\ j \in sessions[home[i]]
  BY <1>1 DEF Alone, AtWorkListed
<1>3. i = j
  BY <1>1, <1>2 DEF Alone, OneSession
<1> QED
  BY <1>3 DEF Child

LEMMA InitAlone == Init => Alone
BY DEF Init, Alone, OneCall, OneSession, NoneFound, JoinedIt, AtWorkListed, Alive

\* A call goes on without touching a child or a table.
LEMMA GoesAlone ==
  ASSUME Inv, Alone, NEW k \in Call, NEW to,
         UNCHANGED <<state, home, doomed, sessions, exclusive>>,
         pc' = [pc EXCEPT ![k] = to],
         \A j \in Call \ {k} : attached'[j] = attached[j],
         exclusive /\ pc[k] = "idle" => \A j \in Call : pc[j] = "idle",
         exclusive /\ to = "acquire" => sessions[Home[k]] = {},
         exclusive /\ to = "joined" => sessions[Home[k]] \subseteq {attached'[k]}
  PROVE  Alone'
<1> USE DEF Inv, Calls, CallTypes
<1> SUFFICES ASSUME exclusive
             PROVE  (OneCall /\ OneSession /\ NoneFound /\ JoinedIt /\ AtWorkListed)'
  BY DEF Alone
<1>1. OneCall'
  BY DEF Alone, OneCall
<1>2. OneSession' /\ AtWorkListed'
  BY DEF Alone, OneSession, AtWorkListed, Alive
<1>3. NoneFound'
  BY DEF Alone, NoneFound
<1>4. JoinedIt'
  BY DEF Alone, JoinedIt
<1> QED
  BY <1>1, <1>2, <1>3, <1>4

LEMMA CallsGoAlone ==
  ASSUME Inv, Alone, NEW k \in Call,
         \/ ExecuteRun(k) \/ ContinueRun(k) \/ ExecuteSingleTask(k)
         \/ StopNotFound(k) \/ StopEnds(k) \/ Look(k) \/ SpawnFails(k)
         \/ NothingToRun(k)
         \/ LeaveWaiting(k) \/ AskUser(k) \/ UserCancels(k)
         \/ UserAnswersRetry(k) \/ RetryAttempt(k) \/ EndTask(k)
  PROVE  Alone'
<1> USE DEF os, memory, usage, Inv, Calls, CallTypes
<1>1. CASE ExecuteRun(k) \/ ContinueRun(k) \/ ExecuteSingleTask(k)
  <2>1. PICK at \in {"look", "stop"} :
          Enter(k, at) /\ UNCHANGED <<state, home, doomed, sessions, exclusive>>
    BY <1>1 DEF ExecuteRun, ContinueRun, ExecuteSingleTask, StartsTask
  <2> QED
    BY <2>1, GoesAlone DEF Enter
<1>2. CASE StopNotFound(k)
  BY <1>2, GoesAlone DEF StopNotFound
<1>3. CASE StopEnds(k)
  BY <1>3, GoesAlone DEF StopEnds
<1>4. CASE Look(k)
  BY <1>4, GoesAlone DEF Look, HasSession
<1>5. CASE AskUser(k)
  BY <1>5, GoesAlone DEF AskUser
<1>6. CASE UserAnswersRetry(k)
  BY <1>6, GoesAlone DEF UserAnswersRetry
<1>7. CASE SpawnFails(k)
  BY <1>7, GoesAlone DEF SpawnFails
<1>10. CASE NothingToRun(k)
  BY <1>10, GoesAlone DEF NothingToRun
<1>8. CASE RetryAttempt(k)
  BY <1>8, GoesAlone DEF RetryAttempt
<1>9. CASE LeaveWaiting(k) \/ UserCancels(k) \/ EndTask(k)
  <2>1. PICK r : Leave(k, r) /\ pc[k] # "idle"
    BY <1>9 DEF LeaveWaiting, UserCancels, EndTask
  <2> QED
    BY <2>1, GoesAlone DEF Leave
<1> QED
  BY <1>1, <1>2, <1>3, <1>4, <1>5, <1>6, <1>7, <1>8, <1>9, <1>10

\* What an abort takes out of the tables has been sent a kill.
LEMMA StopAbortsAlone ==
  ASSUME Inv, Alone, NEW k \in Call, StopAborts(k)
  PROVE  Alone'
<1> DEFINE S == Shot(Home[k])
<1> DEFINE done == Settle(S)
<1>1. /\ UNCHANGED <<state, home, exclusive>> /\ pc[k] = "stop"
      /\ doomed' = [i \in Child |-> doomed[i] \/ i \in S]
      /\ sessions' = [h \in Process |-> sessions[h] \ S]
      /\ pc' = [j \in Call |-> IF j \in done THEN "judge"
                               ELSE IF j = k THEN "stopping" ELSE pc[j]]
      /\ attached' = [j \in Call |-> IF j \in done THEN None ELSE attached[j]]
  BY DEF StopAborts, usage
<1>2. \A j \in done : pc[j] = "running"
  BY DEF Settle
<1> HIDE DEF S, done
<1> SUFFICES ASSUME exclusive
             PROVE  (OneCall /\ OneSession /\ NoneFound /\ JoinedIt /\ AtWorkListed)'
  BY <1>1 DEF Alone
<1>3. OneCall'
  BY <1>1, <1>2 DEF Alone, OneCall
<1>4. OneSession'
  BY <1>1 DEF Alone, OneSession
<1>5. \A j \in Call : Home[j] \in Process
  BY DEF Process
<1>6. NoneFound' /\ JoinedIt'
  BY <1>1, <1>2, <1>5 DEF Alone, NoneFound, JoinedIt
<1>7. AtWorkListed'
  BY <1>1 DEF Alone, AtWorkListed, Alive, Inv, Children, ChildTypes
<1> QED
  BY <1>3, <1>4, <1>6, <1>7

\* A session that is removed when it is joined is that of a dead child.
LEMMA JoinAlone ==
  ASSUME Inv, Alone, NEW k \in Call, Join(k)
  PROVE  Alone'
<1> DEFINE i == First(Home[k])
<1>1. Home[k] \in Process
  BY DEF Process
<1>2. /\ UNCHANGED <<state, home, doomed, exclusive>> /\ pc[k] = "join"
  BY DEF Join, os, usage
<1>3. CASE ~HasSession(Home[k])
  BY <1>2, <1>3, GoesAlone DEF Join, Inv, Calls, CallTypes
<1>4. CASE HasSession(Home[k])
  <2>1. i \in Child /\ Open(i) /\ home[i] = Home[k]
    BY <1>1, <1>4, FirstSession
  <2>2. i \in sessions[Home[k]]
    BY <1>1, <1>4, MinOf, BoundsAssumption
       DEF First, Child, HasSession, Inv, Children, ChildTypes
  <2> HIDE DEF i
  <2>3. CASE NoExitCode(i)
    <3>1. /\ attached' = [attached EXCEPT ![k] = i]
          /\ pc' = [pc EXCEPT ![k] = "joined"]
          /\ UNCHANGED sessions
      BY <1>4, <2>3 DEF Join, i
    <3>2. exclusive => sessions[Home[k]] \subseteq {i}
      BY <1>1, <2>2 DEF Alone, OneSession
    <3>3. attached'[k] = i /\ \A j \in Call \ {k} : attached'[j] = attached[j]
      BY <3>1 DEF Inv, Calls, CallTypes
    <3> QED
      BY <1>2, <3>1, <3>2, <3>3, GoesAlone
  <2>4. CASE ~NoExitCode(i)
    <3>1. /\ attached' = [attached EXCEPT ![k] = i]
          /\ pc' = [pc EXCEPT ![k] = "judge"]
          /\ sessions' = [sessions EXCEPT ![Home[k]] = @ \ {i}]
      BY <1>4, <2>4 DEF Join, Removed, i
    <3>2. ~Alive(i)
      BY <2>1, <2>4 DEF NoExitCode, Alive, Inv, Children, ChildrenBegin
    <3> SUFFICES ASSUME exclusive
                 PROVE  (OneCall /\ OneSession /\ NoneFound /\ JoinedIt /\ AtWorkListed)'
      BY <1>2 DEF Alone
    <3> USE DEF Inv, Calls, CallTypes, Children, ChildTypes
    <3>3. OneCall'
      BY <1>2, <3>1 DEF Alone, OneCall
    <3>4. OneSession'
      BY <1>1, <3>1 DEF Alone, OneSession
    <3>5. NoneFound' /\ JoinedIt'
      BY <1>2, <3>1 DEF Alone, NoneFound, JoinedIt, OneCall
    <3>6. AtWorkListed'
      BY <1>1, <1>2, <3>1, <3>2 DEF Alone, AtWorkListed, Alive
    <3> QED
      BY <3>3, <3>4, <3>5, <3>6
  <2> QED
    BY <2>3, <2>4
<1> QED
  BY <1>3, <1>4

LEMMA SpawnAlone ==
  ASSUME Inv, Alone, NEW k \in Call, Spawn(k)
  PROVE  Alone'
<1> DEFINE i == Min({c \in Child : state[c] = "none"})
<1>1. i \in Child /\ state[i] = "none"
  <2>1. {c \in Child : state[c] = "none"} \in SUBSET Nat
        /\ {c \in Child : state[c] = "none"} # {}
    BY DEF Spawn, Child
  <2> QED
    BY <2>1, MinOf
<1>2. /\ UNCHANGED exclusive
      /\ pc[k] = "acquire"
      /\ state' = [state EXCEPT ![i] = "running"]
      /\ home' = [home EXCEPT ![i] = Home[k]]
      /\ doomed' = [doomed EXCEPT ![i] = aborted[k]]
      /\ sessions' = [sessions EXCEPT ![Home[k]] = IF aborted[k] THEN @ ELSE @ \cup {i}]
      /\ pc' = [pc EXCEPT ![k] = IF aborted[k] THEN "judge" ELSE "running"]
      /\ attached' = [attached EXCEPT ![k] = i]
  BY DEF Spawn, usage
<1> HIDE DEF i
<1>3. Home[k] \in Process
  BY DEF Process
<1>4. doomed' = [c \in Child |-> doomed'[c]]
  BY <1>2 DEF Alone
<1> SUFFICES ASSUME exclusive
             PROVE  (OneCall /\ OneSession /\ NoneFound /\ JoinedIt /\ AtWorkListed)'
  BY <1>2, <1>4 DEF Alone
<1> USE DEF Inv, Calls, CallTypes, Children, ChildTypes
<1>5. sessions[Home[k]] = {}
  BY <1>2 DEF Alone, NoneFound
<1>6. OneCall'
  BY <1>2 DEF Alone, OneCall
<1>7. OneSession'
  BY <1>2, <1>3, <1>5 DEF Alone, OneSession
<1>8. NoneFound' /\ JoinedIt'
  BY <1>2 DEF Alone, NoneFound, JoinedIt, OneCall
<1>9. AtWorkListed'
  <2> SUFFICES ASSUME NEW c \in Child, Alive(c)', home'[c] # Gone, ~doomed'[c]
               PROVE  c \in sessions'[home'[c]]
    BY DEF AtWorkListed
  <2>1. CASE c = i
    BY <1>1, <1>2, <1>3, <2>1 DEF Alone
  <2>2. CASE c # i
    <3>1. c \in sessions[home[c]] /\ home'[c] = home[c] /\ home[c] \in Process
      BY <1>2, <2>2 DEF Alone, AtWorkListed, Alive
    <3> QED
      BY <1>2, <1>3, <3>1
  <2> QED
    BY <2>1, <2>2
<1> QED
  BY <1>6, <1>7, <1>8, <1>9

\* Children begin to ask, are answered, or are sent a kill.
LEMMA ChildrenGoAlone ==
  ASSUME Inv, Alone, UNCHANGED <<home, sessions, exclusive>>,
         doomed' = [i \in Child |-> doomed'[i]],
         \A i \in Child : Alive(i)' => Alive(i),
         \A i \in Child : ~doomed'[i] => ~doomed[i],
         \A k \in Call : /\ pc'[k] # "idle" => pc[k] # "idle"
                         /\ pc'[k] = "acquire" => pc[k] = "acquire"
                         /\ pc'[k] = "joined" =>
                              pc[k] = "joined" /\ attached'[k] = attached[k]
  PROVE  Alone'
<1> SUFFICES ASSUME exclusive
             PROVE  (OneCall /\ OneSession /\ NoneFound /\ JoinedIt /\ AtWorkListed)'
  BY DEF Alone
<1>1. OneCall'
  BY DEF Alone, OneCall
<1>2. OneSession' /\ NoneFound' /\ JoinedIt'
  BY DEF Alone, OneSession, NoneFound, JoinedIt
<1>3. AtWorkListed'
  BY DEF Alone, AtWorkListed
<1> QED
  BY <1>1, <1>2, <1>3

LEMMA UserAnswersAlone ==
  ASSUME Inv, Alone, NEW k \in Call, UserAnswers(k)
  PROVE  Alone'
<1>1. /\ UNCHANGED <<home, doomed, sessions, attached, exclusive>>
      /\ pc[k] = "asked"
      /\ pc' = [pc EXCEPT ![k] = "join"]
      /\ \A i \in Child : state'[i] = state[i] \/ state[i] = "asking"
  BY DEF UserAnswers, memory, usage, Inv, Children, ChildTypes
<1>2. \A i \in Child : Alive(i)' => Alive(i)
  BY <1>1 DEF Alive
<1> QED
  BY <1>1, <1>2, ChildrenGoAlone DEF Alone, Inv, Calls, CallTypes

LEMMA PromptsAlone ==
  ASSUME Inv, Alone, NEW i \in Child, Prompts(i)
  PROVE  Alone'
<1> DEFINE done == IF tty /\ CanType THEN {} ELSE Settle({i})
<1>1. /\ UNCHANGED <<home, doomed, sessions, exclusive>>
      /\ state[i] = "running"
      /\ state' = [state EXCEPT ![i] = "asking"]
      /\ pc' = [k \in Call |-> IF k \in done THEN "waiting" ELSE pc[k]]
      /\ attached' = [k \in Call |-> IF k \in done THEN None ELSE attached[k]]
  BY DEF Prompts, memory, usage
<1>2. \A k \in done : pc[k] = "running"
  BY DEF Settle
<1> HIDE DEF done
<1>3. \A c \in Child : Alive(c)' => Alive(c)
  BY <1>1 DEF Alive, Inv, Children, ChildTypes
<1> QED
  BY <1>1, <1>2, <1>3, ChildrenGoAlone DEF Alone

LEMMA QuietChildAlone ==
  ASSUME Inv, Alone, NEW i \in Child,
         AnsweredInline(i) \/ TimesOut(i) \/ \E e \in Exit : Dies(i, e)
  PROVE  Alone'
<1>1. /\ UNCHANGED <<home, sessions, pc, attached, exclusive>>
      /\ doomed' = [c \in Child |-> doomed'[c]]
  BY DEF AnsweredInline, TimesOut, Dies, memory, calls, usage, Alone
<1>2. \A c \in Child : Alive(c)' => Alive(c)
  BY DEF AnsweredInline, TimesOut, Dies, Alive, Inv, Children, ChildTypes
<1>3. \A c \in Child : ~doomed'[c] => ~doomed[c]
  BY DEF AnsweredInline, TimesOut, Dies, Alone
<1> QED
  BY <1>1, <1>2, <1>3, ChildrenGoAlone

\* The call that joined the child removes one more session; it knew of no other.
LEMMA ClosesAlone ==
  ASSUME Inv, Alone, NEW i \in Child, Closes(i)
  PROVE  Alone'
<1> DEFINE done == Settle({i}) \cup Joined(i)
<1> DEFINE kept == Without(Removed(sessions[home[i]], i), Cardinality(Joined(i)))
<1>1. /\ state[i] = "dead" /\ home[i] # Gone /\ Buried(i)
      /\ UNCHANGED <<attached, exclusive>>
      /\ sessions' = [sessions EXCEPT ![home[i]] = kept]
      /\ pc' = [k \in Call |-> IF k \in done THEN "judge" ELSE pc[k]]
  BY DEF Closes, usage
<1>2. home[i] \in Process
  BY <1>1 DEF Inv, Children, ChildTypes
<1>3. kept \subseteq sessions[home[i]]
  BY DEF Without, Removed
<1>4. \A k \in done : pc[k] \in {"running", "joined"}
  BY DEF Settle, Joined
<1>5. ASSUME Joined(i) = {} PROVE kept = sessions[home[i]] \ {i}
  <2>1. ASSUME NEW s \in sessions[home[i]] \ {i}
        PROVE  Cardinality({t \in sessions[home[i]] \ {i} : t < s}) >= 0
    <3> DEFINE T == {t \in sessions[home[i]] \ {i} : t < s}
    <3>1. T \subseteq 1 .. MaxChildren
      BY <1>2 DEF Inv, Children, ChildTypes, Child
    <3> HIDE DEF T
    <3>2. MaxChildren \in Int /\ 1 \in Int
      BY BoundsAssumption
    <3>3. IsFiniteSet(1 .. MaxChildren)
      BY <3>2, FS_Interval
    <3>4. Cardinality(T) \in Nat
      BY <3>1, <3>3, FS_Subset, FS_CardinalityType
    <3> QED
      BY <3>4 DEF T
  <2>2. Cardinality(Joined(i)) = 0
    BY <1>5, FS_EmptySet
  <2> QED
    BY <2>1, <2>2 DEF Without, Removed
<1>6. ASSUME exclusive, NEW k \in Joined(i) PROVE sessions[home[i]] \subseteq {i}
  BY <1>6 DEF Joined, Alone, JoinedIt, Inv, Calls, Heard
<1> HIDE DEF done, kept
<1>7. doomed' = [doomed EXCEPT ![i] = FALSE]
  BY <1>1 DEF Buried
<1>8. doomed' = [c \in Child |-> doomed'[c]]
  BY <1>7 DEF Alone
<1> SUFFICES ASSUME exclusive
             PROVE  (OneCall /\ OneSession /\ NoneFound /\ JoinedIt /\ AtWorkListed)'
  BY <1>1, <1>8 DEF Alone
<1> USE DEF Inv, Calls, CallTypes, Children, ChildTypes
<1>9. OneCall'
  BY <1>1, <1>4 DEF Alone, OneCall
<1>10. \A m \in Process : sessions'[m] \subseteq sessions[m]
  BY <1>1, <1>2, <1>3
<1>11. OneSession'
  BY <1>10 DEF Alone, OneSession
<1>12. \A k \in Call : Home[k] \in Process
  BY DEF Process
<1>13. NoneFound' /\ JoinedIt'
  BY <1>1, <1>10, <1>12 DEF Alone, NoneFound, JoinedIt
<1>14. AtWorkListed'
  <2> SUFFICES ASSUME NEW c \in Child, Alive(c)', home'[c] # Gone, ~doomed'[c]
               PROVE  c \in sessions'[home'[c]]
    BY DEF AtWorkListed
  <2>1. c # i
    BY <1>1, BuriedKeeps DEF Alive
  <2>2. home'[c] = home[c] /\ home[c] \in Process /\ c \in sessions[home[c]]
    BY <1>1, <1>7, <2>1, BuriedKeeps DEF Alone, AtWorkListed, Alive
  <2>3. CASE home[c] # home[i]
    BY <1>1, <2>2, <2>3
  <2>4. CASE home[c] = home[i]
    <3>1. Joined(i) = {}
      BY <1>6, <2>1, <2>2, <2>4
    <3> QED
      BY <1>1, <1>2, <1>5, <2>1, <2>2, <2>4, <3>1
  <2> QED
    BY <2>3, <2>4
<1> QED
  BY <1>9, <1>11, <1>13, <1>14

LEMMA OrphanEndsAlone ==
  ASSUME Inv, Alone, NEW i \in Child, OrphanEnds(i)
  PROVE  Alone'
<1>1. /\ state[i] = "dead" /\ Buried(i)
      /\ UNCHANGED <<sessions, pc, attached, exclusive>>
      /\ doomed' = [doomed EXCEPT ![i] = FALSE]
  BY DEF OrphanEnds, Buried, memory, calls, usage
<1>2. doomed' = [c \in Child |-> doomed'[c]]
  BY <1>1 DEF Alone
<1> SUFFICES ASSUME exclusive
             PROVE  (OneCall /\ OneSession /\ NoneFound /\ JoinedIt /\ AtWorkListed)'
  BY <1>1, <1>2 DEF Alone
<1>3. OneCall' /\ OneSession' /\ NoneFound' /\ JoinedIt'
  BY <1>1 DEF Alone, OneCall, OneSession, NoneFound, JoinedIt
<1>4. AtWorkListed'
  <2> SUFFICES ASSUME NEW c \in Child, Alive(c)', home'[c] # Gone, ~doomed'[c]
               PROVE  c \in sessions'[home'[c]]
    BY DEF AtWorkListed
  <2>1. c # i
    BY <1>1, BuriedKeeps DEF Alive
  <2> QED
    BY <1>1, <2>1, BuriedKeeps DEF Alone, AtWorkListed, Alive
<1> QED
  BY <1>3, <1>4

LEMMA ProcessEndsAlone ==
  ASSUME Inv, Alone, NEW m \in Process, ProcessEnds(m)
  PROVE  Alone'
<1>1. /\ UNCHANGED <<state, doomed, pc, attached, exclusive>>
      /\ sessions' = [sessions EXCEPT ![m] = {}]
      /\ home' = [i \in Child |-> IF home[i] = m THEN Gone ELSE home[i]]
  BY DEF ProcessEnds, calls, usage
<1> SUFFICES ASSUME exclusive
             PROVE  (OneCall /\ OneSession /\ NoneFound /\ JoinedIt /\ AtWorkListed)'
  BY <1>1 DEF Alone
<1> USE DEF Inv, Children, ChildTypes
<1>2. \A k \in Call : Home[k] \in Process
  BY DEF Process
<1>3. OneCall' /\ OneSession'
  BY <1>1 DEF Alone, OneCall, OneSession
<1>4. NoneFound' /\ JoinedIt'
  BY <1>1, <1>2 DEF Alone, NoneFound, JoinedIt
<1>5. AtWorkListed'
  BY <1>1 DEF Alone, AtWorkListed, Alive
<1> QED
  BY <1>3, <1>4, <1>5

LEMMA NextAlone == Inv /\ Alone /\ [Next]_vars => Alone'
<1> SUFFICES ASSUME Inv, Alone, [Next]_vars PROVE Alone'
  OBVIOUS
<1>1. ASSUME UNCHANGED <<os, sessions, pc, attached, exclusive>> PROVE Alone'
  BY <1>1 DEF os, Alone, OneCall, OneSession, NoneFound, JoinedIt, AtWorkListed, Alive
<1>2. CASE UNCHANGED vars
  BY <1>1, <1>2 DEF vars, memory, calls, usage
<1>3. ASSUME NEW k \in Call, CallStep(k) PROVE Alone'
  BY <1>3, CallsGoAlone, StopAbortsAlone, JoinAlone, SpawnAlone, UserAnswersAlone
     DEF CallStep
<1>4. ASSUME NEW i \in Child, ChildStep(i) PROVE Alone'
  BY <1>4, PromptsAlone, QuietChildAlone, ClosesAlone, OrphanEndsAlone DEF ChildStep
<1>5. CASE FlowtaskStop \/ SaveLands \/ ClearLands
  BY <1>1, <1>5 DEF FlowtaskStop, SaveLands, ClearLands, memory, calls, usage
<1> QED
  BY <1>2, <1>3, <1>4, <1>5, ProcessEndsAlone DEF Next

-----------------------------------------------------------------------------
(* Theorems *)

LEMMA NextKeeps == Inv /\ [Next]_vars => Inv'
<1> SUFFICES ASSUME Inv, [Next]_vars PROVE Inv'
  OBVIOUS
<1> USE DEF os, memory, calls
<1>1. CASE UNCHANGED vars
  BY <1>1, UnheardKeeps DEF vars
<1>2. ASSUME NEW k \in Call, CallStep(k) PROVE Inv'
  BY <1>2, CallKeeps
<1>3. ASSUME NEW i \in Child, ChildStep(i) PROVE Inv'
  <2>1. CASE TimesOut(i)
    BY <2>1, UnheardKeeps DEF TimesOut
  <2> QED
    BY <1>3, <2>1, PromptsKeeps, AnsweredInlineKeeps, DiesKeeps, ClosesKeeps,
       OrphanEndsKeeps DEF ChildStep
<1>4. ASSUME NEW m \in Process, ProcessEnds(m) PROVE Inv'
  BY <1>4, ProcessEndsKeeps
<1>5. CASE FlowtaskStop \/ SaveLands \/ ClearLands
  BY <1>5, UnheardKeeps DEF FlowtaskStop, SaveLands, ClearLands
<1> QED
  BY <1>1, <1>2, <1>3, <1>4, <1>5 DEF Next

\* For any calls in any processes and any number of children, whatever is
\* aborted, timed out, left behind or answered too late: a call that waits for a
\* child will hear of its end.
THEOREM WaitersHear == Spec => []WaitsAreHeard
BY InitInv, NextKeeps, InvGivesProperties, PTL DEF Spec

\* For any calls, processes and children, whatever signals were sent and however
\* the children took them: done is said only of a child that exited with code 0,
\* also by a call that joined a session it did not start, or without a child by
\* the shell executor.
THEOREM DoneExitedOk == Spec => []DoneMeansExitedOk
BY InitInv, NextKeeps, InvGivesProperties, PTL DEF Spec

\* For any calls of one process, any number of children and any timeouts, aborts
\* and answers: while one call runs at a time, no agent is started beside one at
\* work, unless that one has been sent a kill.
THEOREM OneAgentAtWork ==
  (\A j, k \in Call : Home[j] = Home[k]) => (Spec => []OneAgent)
<1> SUFFICES ASSUME \A j, k \in Call : Home[j] = Home[k]
             PROVE  Spec => []OneAgent
  OBVIOUS
<1>1. Inv /\ Alone => OneAgent
  BY AloneGivesOneAgent
<1> QED
  BY <1>1, InitInv, InitAlone, NextKeeps, NextAlone, PTL DEF Spec
=============================================================================
