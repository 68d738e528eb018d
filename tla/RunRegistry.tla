----------------------------- MODULE RunRegistry -----------------------------
(***************************************************************************)
(* What the callers of RunManager expect of the set of runs: a run appears *)
(* as "created", has the status that was last asked for, and is gone once  *)
(* its deletion was asked for.  A request takes effect at most once and at *)
(* one moment; nothing else changes a status.  RunStore implements this    *)
(* specification with files that are loaded, edited and rewritten.         *)
(***************************************************************************)
CONSTANTS Run, Client, RunStatus, None

VARIABLES status,   \* of each run, None when there is no such run
          asked     \* of each client: [run, to] or None

Init ==
  /\ status = [r \in Run |-> None]
  /\ asked = [c \in Client |-> None]

Ask(c) ==
  /\ asked[c] = None
  /\ \E r \in Run, s \in RunStatus \cup {None} :
       asked' = [asked EXCEPT ![c] = [run |-> r, to |-> s]]
  /\ UNCHANGED status

\* The process died, or found that the run does not exist.
GiveUp(c) ==
  /\ asked[c] # None
  /\ asked' = [asked EXCEPT ![c] = None]
  /\ UNCHANGED status

TakeEffect(c) ==
  /\ asked[c] # None
  /\ status[asked[c].run] = None => asked[c].to \in {"created", None}
  /\ status' = [status EXCEPT ![asked[c].run] = asked[c].to]
  /\ asked' = [asked EXCEPT ![c] = None]

Next == \E c \in Client : Ask(c) \/ GiveUp(c) \/ TakeEffect(c)

Spec == Init /\ [][Next]_<<status, asked>>
=============================================================================
