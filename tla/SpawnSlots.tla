----------------------------- MODULE SpawnSlots -----------------------------
(***************************************************************************)
(* SpawnController (src/utils/process.ts): the counting limiter that every *)
(* task attempt passes through before it spawns a heavy command.  The      *)
(* local server keeps ONE RunLifecycle, hence one controller, for all the  *)
(* runs it executes, so the clients below are the task attempts of runs    *)
(* that overlap in one server process.                                     *)
(*                                                                         *)
(* A client acquires, runs its command and releases exactly once, in the   *)
(* finally block of executeTask.  That block also runs when the executor   *)
(* returned before its child ended, because the child waits for input or   *)
(* the attempt was aborted: the slot is free again and the child lives.    *)
(* The executors' own acquisitions inside an attempt give them no slot: the*)
(* registry hands the process manager to command executors only, whose     *)
(* commands are those of the presets, and none of these is heavy.          *)
(***************************************************************************)
EXTENDS Integers, Sequences, FiniteSets

CONSTANTS Client,              \* task attempts that may overlap
          maxConcurrentHeavy,  \* config process.maxConcurrentHeavy
          MaxAcquires          \* bound: heavy acquisitions in one behaviour

ASSUME ClientAssumption == IsFiniteSet(Client)
ASSUME LimitAssumption == maxConcurrentHeavy \in Nat \ {0}
ASSUME BoundAssumption == MaxAcquires \in Nat

VARIABLES phase,             \* what each client's attempt is doing
          activeHeavyCount,
          heavyQueue,        \* clients whose acquire() promise is pending
          left,              \* heavy commands that outlive their attempts
          totalAcquired, totalReleased, totalQueued, totalDequeued

metrics == <<totalAcquired, totalReleased, totalQueued, totalDequeued>>
slotVars == <<phase, activeHeavyCount, heavyQueue, left, metrics>>

\* "light" is a client running a command that is not heavy: it has no slot.
Phase == {"idle", "waiting", "holding", "light"}

Holders == {c \in Client : phase[c] = "holding"}
Waiters == {c \in Client : phase[c] = "waiting"}

SlotsTypeOK ==
  /\ phase \in [Client -> Phase]
  /\ heavyQueue \in Seq(Client)
  /\ activeHeavyCount \in Nat /\ left \in Nat
  /\ totalAcquired \in Nat /\ totalReleased \in Nat
  /\ totalQueued \in Nat /\ totalDequeued \in Nat

SlotsInit ==
  /\ phase = [c \in Client |-> "idle"]
  /\ activeHeavyCount = 0
  /\ heavyQueue = <<>> /\ left = 0
  /\ totalAcquired = 0 /\ totalReleased = 0
  /\ totalQueued = 0 /\ totalDequeued = 0

-----------------------------------------------------------------------------
(* acquire() *)

\* A command that is not heavy gets a no-op release function.
AcquireLight(c) ==
  /\ phase[c] = "idle"
  /\ phase' = [phase EXCEPT ![c] = "light"]
  /\ UNCHANGED <<activeHeavyCount, heavyQueue, left, metrics>>

\* (Mutant: the limit compared with <=.)
MutHasFreeSlot == activeHeavyCount <= maxConcurrentHeavy

HasFreeSlot == activeHeavyCount < maxConcurrentHeavy

AcquireNow(c) ==
  /\ phase[c] = "idle"
  /\ totalAcquired < MaxAcquires
  /\ HasFreeSlot
  /\ totalAcquired' = totalAcquired + 1
  /\ activeHeavyCount' = activeHeavyCount + 1
  /\ phase' = [phase EXCEPT ![c] = "holding"]
  /\ UNCHANGED <<heavyQueue, left, totalReleased, totalQueued, totalDequeued>>

AcquireLater(c) ==
  /\ phase[c] = "idle"
  /\ totalAcquired < MaxAcquires
  /\ ~HasFreeSlot
  /\ totalAcquired' = totalAcquired + 1
  /\ totalQueued' = totalQueued + 1
  /\ heavyQueue' = Append(heavyQueue, c)
  /\ phase' = [phase EXCEPT ![c] = "waiting"]
  /\ UNCHANGED <<activeHeavyCount, left, totalReleased, totalDequeued>>

-----------------------------------------------------------------------------
(* release() *)

ReleaseLight(c) ==
  /\ phase[c] = "light"
  /\ phase' = [phase EXCEPT ![c] = "idle"]
  /\ UNCHANGED <<activeHeavyCount, heavyQueue, left, metrics>>

\* (Mutant: the served waiter is not shifted off the queue.)
MutHandOffKeeps(c) ==
  /\ heavyQueue # <<>> /\ UNCHANGED heavyQueue
  /\ totalDequeued' = totalDequeued + 1
  /\ activeHeavyCount' = activeHeavyCount + 1
  /\ phase' = [phase EXCEPT ![c] = "idle", ![Head(heavyQueue)] = "holding"]

\* (Mutant: the slot is given back although somebody waits, who is not served.)
MutHandOffForgets(c) ==
  /\ heavyQueue # <<>>
  /\ activeHeavyCount' = activeHeavyCount - 1
  /\ phase' = [phase EXCEPT ![c] = "idle"]
  /\ UNCHANGED <<heavyQueue, totalDequeued>>

\* A waiter is served: its closure counts the slot AGAIN (the releaser's own
\* count is not given back) and resolves the waiter's promise.
HandOff(c) ==
  /\ heavyQueue # <<>>
  /\ heavyQueue' = Tail(heavyQueue)
  /\ totalDequeued' = totalDequeued + 1
  /\ activeHeavyCount' = activeHeavyCount + 1
  /\ phase' = [phase EXCEPT ![c] = "idle", ![Head(heavyQueue)] = "holding"]

GiveBack(c) ==
  /\ heavyQueue = <<>>
  /\ activeHeavyCount' = IF activeHeavyCount = 0 THEN 0 ELSE activeHeavyCount - 1
  /\ phase' = [phase EXCEPT ![c] = "idle"]
  /\ UNCHANGED <<heavyQueue, totalDequeued>>

\* The attempt is over; its command has ended, or it is left behind.
Release(c) ==
  /\ phase[c] = "holding"
  /\ totalReleased' = totalReleased + 1
  /\ left' \in {left, left + 1}
  /\ UNCHANGED <<totalAcquired, totalQueued>>
  /\ HandOff(c) \/ GiveBack(c)

\* A command that was left behind ends; its attempt has released already.
LeftEnds ==
  /\ left > 0
  /\ left' = left - 1
  /\ UNCHANGED <<phase, activeHeavyCount, heavyQueue, metrics>>

SlotsNext ==
  \/ \E c \in Client :
       \/ AcquireLight(c) \/ AcquireNow(c) \/ AcquireLater(c)
       \/ ReleaseLight(c) \/ Release(c)
  \/ LeftEnds

SlotsSpec == SlotsInit /\ [][SlotsNext]_slotVars

\* Attempts that end; those of the shell executor have no time limit and need
\* not.
SlotsFairness == \A c \in Client : WF_slotVars(Release(c)) /\ WF_slotVars(ReleaseLight(c))
SlotsFairSpec == SlotsSpec /\ SlotsFairness

-----------------------------------------------------------------------------
(* Properties *)

\* What the limiter limits: no more attempts wait for a heavy command at once
\* than maxConcurrentHeavy, whatever the order of acquisitions and releases.
\* Commands that were left behind are not counted.
SpawnLimit == Cardinality(Holders) <= maxConcurrentHeavy

\* "Limits concurrent spawning of heavy commands."
CommandsLimited == Cardinality(Holders) + left <= maxConcurrentHeavy

\* The pending promises and the waiting attempts are the same thing: nobody
\* waits outside the queue and nobody is in it twice, so a release never
\* resolves the promise of an attempt that already runs.
QueueIsWaiters ==
  /\ \A i \in DOMAIN heavyQueue : phase[heavyQueue[i]] = "waiting"
  /\ \A i, j \in DOMAIN heavyQueue :
        heavyQueue[i] = heavyQueue[j] => i = j
  /\ \A c \in Waiters : \E i \in DOMAIN heavyQueue : heavyQueue[i] = c

\* How far the counter is from the truth: it exceeds the number of attempts
\* that hold a slot by one for every waiter a release has ever served.
SlotAccounting == activeHeavyCount = Cardinality(Holders) + totalDequeued

\* No attempt waits while the counter still shows a free slot.
NoWaitWithFreeSlot == heavyQueue # <<>> => ~HasFreeSlot

\* An attempt whose acquire() queued is eventually given a slot, if those that
\* have one end.
WaiterServed == \A c \in Client : phase[c] = "waiting" ~> phase[c] = "holding"
=============================================================================
