---------------------------- MODULE MCRunLifecycle ----------------------------
(* Small plans for RunLifecycle.                                              *)
EXTENDS RunLifecycle, TLC

CONSTANTS a, b, p1

TwoTasks == <<a, b>>
Chain == (a :> {}) @@ (b :> {a})
Apart == (a :> {}) @@ (b :> {})
=============================================================================
