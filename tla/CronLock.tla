------------------------------ MODULE CronLock ------------------------------
(***************************************************************************)
(* withDistributedLock, the wrapper around every cron task: read the lock  *)
(* key from the cache, skip when it is there, otherwise write it with a    *)
(* time to live, run the task, and delete the key in a finally block,      *)
(* which the skip passes through as well.                                  *)
(*                                                                         *)
(* One lock key, and every call of its wrapped method over all instances;  *)
(* the calls interleave at each await of a cache operation.  The instances *)
(* share one store if CacheModule reaches Redis; it names its store in a   *)
(* way that recent versions of cache-manager do not read, and then each    *)
(* instance keeps the key in its own memory.                               *)
(***************************************************************************)
EXTENDS Integers

CONSTANTS
    Exec,       \* slots for concurrent calls of the wrapped method
    Stores,     \* where the lock key is kept
    Memory,     \* those of them that are the memory of one instance
    StoreOf,    \* the store that the instance of a call uses
    LockTTL,    \* the decorator's ttl, in clock ticks
    MaxFaults   \* bound on crashes and failed cache operations

ASSUME StoresAreKnown == Memory \subseteq Stores /\ StoreOf \in [Exec -> Stores]
ASSUME LockTTLIsPositive == LockTTL \in Nat \ {0}
ASSUME FaultBound == MaxFaults \in Nat

VARIABLES
    lock,       \* remaining life of the key in each store, 0 when absent
    pc,         \* where each call waits
    why,        \* history: what has broken the exclusion of a running call
    faults      \* crashes and cache failures so far

vars == <<lock, pc, why, faults>>

Cause == {"race", "deleted", "expired"}

TypeOK ==
    /\ lock \in [Stores -> 0..LockTTL]
    /\ pc \in [Exec -> {"idle", "get", "set", "run", "skip", "release"}]
    /\ why \in [Exec -> SUBSET Cause]
    /\ faults \in 0..MaxFaults

Init ==
    /\ lock = [s \in Stores |-> 0]
    /\ pc = [e \in Exec |-> "idle"]
    /\ why = [e \in Exec |-> {}]
    /\ faults = 0

-----------------------------------------------------------------------------
Goto(e, l) == pc' = [pc EXCEPT ![e] = l]

Key(e) == lock[StoreOf[e]]

SetKey(e, n) == lock' = [lock EXCEPT ![StoreOf[e]] = n]

(* The other calls that use the same key.                                  *)
Peers(e) == {f \in Exec \ {e} : StoreOf[f] = StoreOf[e]}

(* History: every running peer of e gains a cause. *)
Blame(e, c) ==
    why' = [f \in Exec |-> IF f \in Peers(e) /\ pc[f] = "run" THEN why[f] \cup {c}
                           ELSE IF f = e THEN {} ELSE why[f]]

(* The scheduler of some instance starts the job. *)
Fire(e) ==
    /\ pc[e] = "idle"
    /\ Goto(e, "get")
    /\ UNCHANGED <<lock, why, faults>>

(* Variant to refute OverlapHasACause: the answer of get is not looked at. *)
GetLockIgnored(e) ==
    /\ pc[e] = "get"
    /\ Goto(e, "set")
    /\ UNCHANGED <<lock, why, faults>>

(* Variant to refute JobKeepsRunning: the test is inverted.                *)
GetLockInverted(e) ==
    /\ pc[e] = "get"
    /\ Goto(e, IF Key(e) > 0 THEN "set" ELSE "skip")
    /\ UNCHANGED <<lock, why, faults>>

GetLock(e) ==
    /\ pc[e] = "get"
    /\ Goto(e, IF Key(e) > 0 THEN "skip" ELSE "set")
    /\ UNCHANGED <<lock, why, faults>>

(* cache.set answers and the task's body starts.  A call that has read the *)
(* absent lock as well and not yet written it is a race.                   *)
SetLock(e) ==
    /\ pc[e] = "set"
    /\ SetKey(e, LockTTL)
    /\ Goto(e, "run")
    /\ why' = [why EXCEPT ![e] =
                 IF \E f \in Peers(e) : pc[f] = "set" THEN {"race"} ELSE {}]
    /\ UNCHANGED faults

(* The body returns, or throws into the catch block. *)
BodyEnds(e) ==
    /\ pc[e] = "run"
    /\ Goto(e, "release")
    /\ why' = [why EXCEPT ![e] = {}]
    /\ UNCHANGED <<lock, faults>>

(* finally: cache.del, whatever path led here. *)
Release(e) ==
    /\ pc[e] \in {"skip", "release"}
    /\ SetKey(e, 0)
    /\ Goto(e, "idle")
    /\ IF Key(e) > 0 THEN Blame(e, "deleted") ELSE UNCHANGED why
    /\ UNCHANGED faults

(* An operation on a remote store rejects; get and set fall through to the *)
(* finally block, and a set or del may still have been applied.            *)
CacheFails(e) ==
    /\ StoreOf[e] \notin Memory
    /\ faults < MaxFaults
    /\ faults' = faults + 1
    /\ \/ /\ pc[e] = "get"
          /\ Goto(e, "release")
          /\ UNCHANGED <<lock, why>>
       \/ /\ pc[e] = "set"
          /\ Goto(e, "release")
          /\ UNCHANGED lock \/ SetKey(e, LockTTL)
          /\ UNCHANGED why
       \/ /\ pc[e] \in {"skip", "release"}
          /\ Goto(e, "idle")
          /\ \/ UNCHANGED <<lock, why>>
             \/ Key(e) > 0 /\ SetKey(e, 0) /\ Blame(e, "deleted")

(* The calls that end with the process of e.                               *)
Process(e) == IF StoreOf[e] \in Memory THEN Peers(e) \cup {e} ELSE {e}

(* The instance dies.  A lock key in Redis stays behind, one in its memory *)
(* goes with it.                                                           *)
Crash(e) ==
    /\ faults < MaxFaults
    /\ faults' = faults + 1
    /\ pc[e] # "idle"
    /\ pc' = [f \in Exec |-> IF f \in Process(e) THEN "idle" ELSE pc[f]]
    /\ why' = [f \in Exec |-> IF f \in Process(e) THEN {} ELSE why[f]]
    /\ IF StoreOf[e] \in Memory THEN SetKey(e, 0) ELSE UNCHANGED lock

(* Variant to refute LockNeverStuck: the key is written without a ttl.     *)
Unaged(n) == n

(* Variant to refute TypeOK: a key that has expired goes on ageing.        *)
AgedBelowZero(n) == n - 2

Aged(n) == n - 1

(* Time passes; a store drops the key when its time to live is over.       *)
Tick ==
    /\ \E s \in Stores : lock[s] > 0
    /\ lock' = [s \in Stores |-> IF lock[s] > 0 THEN Aged(lock[s]) ELSE 0]
    /\ why' = [e \in Exec |-> IF Key(e) > 0 /\ Key(e)' = 0 /\ pc[e] = "run"
                              THEN why[e] \cup {"expired"} ELSE why[e]]
    /\ UNCHANGED <<pc, faults>>

Call(e) == GetLock(e) \/ SetLock(e) \/ BodyEnds(e) \/ Release(e)

Next ==
    \/ \E e \in Exec : Fire(e) \/ Call(e) \/ CacheFails(e) \/ Crash(e)
    \/ Tick

Spec == Init /\ [][Next]_vars

(* A call in progress goes on, its body ends, and time passes. *)
Progress == WF_vars(Tick) /\ \A e \in Exec : WF_vars(Call(e))

FairSpec == Spec /\ Progress

-----------------------------------------------------------------------------
Running(e) == pc[e] = "run"

(* The decorator's purpose: no duplicate execution of the task.            *)
MutualExclusion == \A e, f \in Exec : Running(e) /\ Running(f) => e = f

(* How far the exclusion goes: two bodies overlap only if their instances  *)
(* do not share a store, or one of them was raced between get and set, or  *)
(* lost its key to another call's finally block or to its time to live.    *)
OverlapHasACause ==
    \A e, f \in Exec : Running(e) /\ Running(f) /\ e # f
                         => \/ StoreOf[e] # StoreOf[f]
                            \/ why[e] \cup why[f] # {}

(* A crashed holder does not block the job for good: the key is always     *)
(* gone again, from every store, even if the job is never started again.   *)
LockNeverStuck == \A s \in Stores : []<>(lock[s] = 0)

(* As long as calls keep coming, the body keeps being executed: no order   *)
(* of calls that skip each other, or crash, starves the job.               *)
JobKeepsRunning ==
    []<>(\E e \in Exec : pc[e] = "get") => []<>(\E e \in Exec : Running(e))
=============================================================================
