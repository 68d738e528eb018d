---------------------------- MODULE MCRunMonitor ----------------------------
(* Two runs with a task each.                                                *)
EXTENDS RunMonitor

CONSTANTS r1, r2, t1, t2

Plan == [r \in {r1, r2} |-> IF r = r1 THEN {t1} ELSE {t2}]

Events == [r \in {r1, r2} |-> IF r = r1 THEN 3 ELSE 1]
=============================================================================
