----------------------------- MODULE MCCronLock -----------------------------
(* Small instances of CronLock for TLC. *)
EXTENDS CronLock

CONSTANTS e1, e2, e3, e4, redis, memory

(* Two calls of instances that reach Redis, two of an instance that        *)
(* caches in its own memory.                                               *)
MixedStores == [e \in Exec |-> IF e \in {e1, e2} THEN redis ELSE memory]

(* Every instance reaches Redis. *)
OneStore == [e \in Exec |-> redis]
=============================================================================
