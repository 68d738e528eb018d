---------------------------- MODULE MCSpawnSlots ----------------------------
(* SpawnSlots on three clients: holders, a waiter and a late comer.  Clients *)
(* are interchangeable, so the safety run uses their permutations.           *)
EXTENDS SpawnSlots, TLC

Sym == Permutations(Client)
=============================================================================
