--------------------------- MODULE CronLockProofs ---------------------------
(***************************************************************************)
(* For any number of calls, any time to live and any number of faults:     *)
(* what withDistributedLock does guarantee about overlapping bodies.       *)
(***************************************************************************)
EXTENDS CronLock, TLAPS

(* Writing one key keeps the stores well typed and leaves the others.      *)
LEMMA SetKeyType ==
    ASSUME TypeOK, NEW e \in Exec, NEW n \in 0..LockTTL, SetKey(e, n)
    PROVE  /\ lock' \in [Stores -> 0..LockTTL]
           /\ StoreOf[e] \in Stores
           /\ lock'[StoreOf[e]] = n
           /\ \A s \in Stores : s # StoreOf[e] => lock'[s] = lock[s]
  BY StoresAreKnown DEF TypeOK, SetKey

LEMMA TypeStep ==
    ASSUME TypeOK, [Next]_vars
    PROVE  TypeOK'
<1> USE LockTTLIsPositive, FaultBound
<1>0. 0 \in 0..LockTTL /\ LockTTL \in 0..LockTTL
  OBVIOUS
<1>1. ASSUME NEW e \in Exec, Fire(e) PROVE TypeOK'
  BY <1>1 DEF Fire, Goto, TypeOK
<1>2. ASSUME NEW e \in Exec, GetLock(e) PROVE TypeOK'
  BY <1>2 DEF GetLock, Goto, TypeOK
<1>3. ASSUME NEW e \in Exec, SetLock(e) PROVE TypeOK'
  BY <1>0, <1>3, SetKeyType DEF SetLock, Goto, TypeOK, Cause
<1>4. ASSUME NEW e \in Exec, BodyEnds(e) PROVE TypeOK'
  BY <1>4 DEF BodyEnds, Goto, TypeOK
<1>5. ASSUME NEW e \in Exec, Blame(e, "deleted")
      PROVE  why' \in [Exec -> SUBSET Cause]
  BY <1>5 DEF Blame, TypeOK, Cause
<1>6. ASSUME NEW e \in Exec, Release(e) PROVE TypeOK'
  BY <1>0, <1>5, <1>6, SetKeyType DEF Release, Goto, TypeOK
<1>7. ASSUME NEW e \in Exec, CacheFails(e) PROVE TypeOK'
  <2>1. lock' \in [Stores -> 0..LockTTL]
    BY <1>0, <1>7, SetKeyType DEF CacheFails, TypeOK
  <2> QED BY <1>5, <1>7, <2>1 DEF CacheFails, Goto, TypeOK
<1>8. ASSUME NEW e \in Exec, Crash(e) PROVE TypeOK'
  BY <1>0, <1>8, SetKeyType DEF Crash, TypeOK
<1>9. CASE Tick
  <2>1. lock' \in [Stores -> 0..LockTTL]
    BY <1>9 DEF Tick, Aged, TypeOK
  <2> QED BY <1>9, <2>1 DEF Tick, TypeOK, Cause
<1>10. CASE UNCHANGED vars
  BY <1>10 DEF vars, TypeOK
<1> QED
  BY <1>1, <1>2, <1>3, <1>4, <1>6, <1>7, <1>8, <1>9, <1>10 DEF Next, Call

(* Type correctness: in particular the key's life stays within the ttl.    *)
THEOREM TypeCorrect == Spec => []TypeOK
<1>1. Init => TypeOK
  BY StoresAreKnown, LockTTLIsPositive, FaultBound DEF Init, TypeOK
<1>2. TypeOK /\ [Next]_vars => TypeOK'
  BY TypeStep
<1> QED BY <1>1, <1>2, PTL DEF Spec

-----------------------------------------------------------------------------
(* Why the lock works when nothing interferes: while a body runs that no   *)
(* cause has touched, its key is there, so no peer is past its get.        *)
UntouchedHoldsLock ==
    \A e \in Exec : Running(e) /\ why[e] = {}
                      => Key(e) > 0 /\ \A f \in Peers(e) : pc[f] # "set"

OverlapInv == OverlapHasACause /\ UntouchedHoldsLock

(* A step that touches no running body keeps the invariant if nobody comes *)
(* to the set, and every body it leaves without a cause keeps its key.     *)
LEMMA Kept ==
    ASSUME TypeOK, OverlapInv,
           \A f \in Exec : Running(f)' =>
              Running(f) /\ (why'[f] = {} => why[f] = {} /\ Key(f)' > 0),
           \A f \in Exec : pc'[f] = "set" =>
              pc[f] = "set" \/ ~(Key(f) > 0)
    PROVE  OverlapInv'
<1>1. OverlapHasACause'
  BY DEF OverlapInv, OverlapHasACause
<1>2. ASSUME NEW e \in Exec, Running(e)', why'[e] = {}, NEW f \in Peers(e),
             pc'[f] = "set"
      PROVE  FALSE
  <2>1. Key(e) > 0 /\ pc[f] # "set" /\ Key(f) = Key(e)
    BY <1>2 DEF OverlapInv, UntouchedHoldsLock, Peers, Key
  <2> QED BY <1>2, <2>1 DEF Peers
<1> QED BY <1>1, <1>2 DEF OverlapInv, UntouchedHoldsLock

(* A step that leaves the keys alone.                                      *)
LEMMA KeysStay ==
    ASSUME TypeOK, OverlapInv, lock' = lock,
           \A f \in Exec : Running(f)' =>
              Running(f) /\ (why'[f] = {} => why[f] = {}),
           \A f \in Exec : pc'[f] = "set" =>
              pc[f] = "set" \/ ~(Key(f) > 0)
    PROVE  OverlapInv'
<1>1. ASSUME NEW f \in Exec, Running(f)', why'[f] = {}
      PROVE  Running(f) /\ why[f] = {} /\ Key(f)' > 0
  BY <1>1 DEF OverlapInv, UntouchedHoldsLock, Key
<1> QED BY <1>1, Kept

LEMMA OverlapStep ==
    ASSUME TypeOK, OverlapInv, [Next]_vars
    PROVE  OverlapInv'
<1>0. \A e \in Exec : StoreOf[e] \in Stores
  BY StoresAreKnown
<1>1. ASSUME NEW e \in Exec, Fire(e) PROVE OverlapInv'
  BY <1>1, KeysStay DEF Fire, Goto, TypeOK, Running
<1>2. ASSUME NEW e \in Exec, GetLock(e) PROVE OverlapInv'
  BY <1>2, KeysStay DEF GetLock, Goto, TypeOK, Running
<1>3. ASSUME NEW e \in Exec, SetLock(e) PROVE OverlapInv'
  <2>1. \A f \in Peers(e) : Running(f) => why[f] # {}
    BY <1>3 DEF SetLock, OverlapInv, UntouchedHoldsLock, Peers
  <2>2. /\ \A f \in Exec \ {e} : why'[f] = why[f] /\ pc'[f] = pc[f]
        /\ pc'[e] = "run"
        /\ why'[e] = {} => \A f \in Peers(e) : pc[f] # "set"
    BY <1>3 DEF SetLock, Goto, TypeOK
  <2>3. /\ Key(e)' > 0
        /\ \A f \in Exec : f # e /\ f \notin Peers(e) => Key(f)' = Key(f)
    BY <1>0, <1>3, LockTTLIsPositive, SetKeyType DEF SetLock, Key, Peers
  <2>4. OverlapHasACause'
    BY <2>1, <2>2 DEF OverlapInv, OverlapHasACause, Running, Peers
  <2>5. ASSUME NEW f \in Exec, Running(f)', why'[f] = {}
        PROVE  Key(f)' > 0 /\ \A g \in Peers(f) : pc'[g] # "set"
    <3>1. CASE f = e
      BY <2>2, <2>3, <2>5, <3>1 DEF Peers
    <3>2. CASE f # e
      <4>1. Running(f) /\ why[f] = {} /\ f \notin Peers(e)
        BY <2>1, <2>2, <2>5, <3>2 DEF Running
      <4>2. Key(f) > 0 /\ \A g \in Peers(f) : pc[g] # "set"
        BY <4>1 DEF OverlapInv, UntouchedHoldsLock
      <4> QED BY <2>2, <2>3, <3>2, <4>1, <4>2 DEF Peers
    <3> QED BY <3>1, <3>2
  <2> QED BY <2>4, <2>5 DEF OverlapInv, UntouchedHoldsLock
<1>4. ASSUME NEW e \in Exec, BodyEnds(e) PROVE OverlapInv'
  BY <1>4, KeysStay DEF BodyEnds, Goto, TypeOK, Running
<1>5. ASSUME NEW e \in Exec, Goto(e, "idle"), SetKey(e, 0), Blame(e, "deleted")
      PROVE  OverlapInv'
  <2>1. \A f \in Exec : pc'[f] = pc[f] \/ pc'[f] = "idle"
    BY <1>5 DEF Goto, TypeOK
  <2>2. \A f \in Exec : Running(f)' => Running(f) /\ f # e
    BY <1>5 DEF Goto, TypeOK, Running
  <2>3. ASSUME NEW f \in Exec, Running(f)', why'[f] = {}
        PROVE  why[f] = {} /\ Key(f)' > 0
    <3>1. f \notin Peers(e) /\ why[f] = {}
      BY <1>5, <2>2, <2>3 DEF Blame, Running
    <3>2. Key(f)' = Key(f)
      BY <1>0, <1>5, <2>2, <2>3, <3>1, LockTTLIsPositive, SetKeyType DEF Key, Peers
    <3> QED BY <2>2, <2>3, <3>1, <3>2 DEF OverlapInv, UntouchedHoldsLock
  <2> QED BY <2>1, <2>2, <2>3, Kept
<1>6. ASSUME NEW e \in Exec, Goto(e, "idle"), lock' = lock, why' = why
      PROVE  OverlapInv'
  BY <1>6, KeysStay DEF Goto, TypeOK, Running
<1>7. ASSUME NEW e \in Exec, Release(e) PROVE OverlapInv'
  <2>1. CASE Key(e) > 0
    BY <1>5, <1>7, <2>1 DEF Release
  <2>2. CASE ~(Key(e) > 0)
    <3>1. lock' = lock
      BY <1>0, <1>7, <2>2 DEF Release, SetKey, Key, TypeOK
    <3> QED BY <1>6, <1>7, <2>2, <3>1 DEF Release
  <2> QED BY <2>1, <2>2
<1>8. ASSUME NEW e \in Exec, CacheFails(e) PROVE OverlapInv'
  <2>1. CASE pc[e] = "get"
    BY <1>8, <2>1, KeysStay DEF CacheFails, Goto, TypeOK, Running
  <2>2. CASE pc[e] = "set"
    <3>1. \A f \in Peers(e) : Running(f) => why[f] # {}
      BY <2>2 DEF OverlapInv, UntouchedHoldsLock, Peers
    <3>2. /\ why' = why
          /\ lock' = lock \/ SetKey(e, LockTTL)
          /\ \A f \in Exec : pc'[f] = pc[f] \/ pc'[f] = "release"
          /\ \A f \in Exec : Running(f)' => Running(f) /\ f # e
      BY <1>8, <2>2 DEF CacheFails, Goto, TypeOK, Running
    <3>3. ASSUME NEW f \in Exec, Running(f)', why'[f] = {}
          PROVE  why[f] = {} /\ Key(f)' > 0
      <4>1. why[f] = {} /\ Key(f) > 0 /\ f \notin Peers(e)
        BY <1>8, <2>2, <3>1, <3>2, <3>3
        DEF CacheFails, OverlapInv, UntouchedHoldsLock
      <4>2. CASE lock' = lock
        BY <4>1, <4>2 DEF Key
      <4>3. CASE SetKey(e, LockTTL)
        BY <1>0, <3>2, <3>3, <4>1, <4>3, LockTTLIsPositive, SetKeyType
        DEF Key, Peers
      <4> QED BY <3>2, <4>1, <4>2, <4>3
    <3> QED BY <3>2, <3>3, Kept
  <2>3. CASE pc[e] \in {"skip", "release"}
    BY <1>5, <1>6, <1>8, <2>3 DEF CacheFails
  <2> QED BY <1>8, <2>1, <2>2, <2>3 DEF CacheFails
<1>9. ASSUME NEW e \in Exec, Crash(e) PROVE OverlapInv'
  <2>1. /\ \A f \in Exec : pc'[f] = pc[f] \/ pc'[f] = "idle"
        /\ \A f \in Exec : Running(f)' =>
              Running(f) /\ why'[f] = why[f] /\ f \notin Process(e)
    BY <1>9 DEF Crash, TypeOK, Running
  <2>2. ASSUME NEW f \in Exec, Running(f)', why'[f] = {}
        PROVE  why[f] = {} /\ Key(f)' > 0
    <3>1. why[f] = {} /\ Key(f) > 0
      BY <2>1, <2>2 DEF OverlapInv, UntouchedHoldsLock
    <3>2. CASE StoreOf[e] \in Memory
      <4>1. SetKey(e, 0) /\ StoreOf[f] # StoreOf[e]
        BY <1>9, <2>1, <2>2, <3>2 DEF Crash, Process, Peers
      <4> QED BY <1>0, <3>1, <4>1, LockTTLIsPositive, SetKeyType DEF Key
    <3>3. CASE StoreOf[e] \notin Memory
      BY <1>9, <3>1, <3>3 DEF Crash, Key
    <3> QED BY <3>2, <3>3
  <2> QED BY <2>1, <2>2, Kept
<1>10. CASE Tick
  <2>1. ASSUME NEW f \in Exec, Running(f)', why'[f] = {}
        PROVE  Running(f) /\ why[f] = {} /\ Key(f)' > 0
    <3>1. Running(f) /\ why[f] = {}
      BY <1>10, <2>1 DEF Tick, Running
    <3>2. Key(f) > 0 /\ ~(Key(f)' = 0)
      BY <1>10, <2>1, <3>1 DEF Tick, Running, OverlapInv, UntouchedHoldsLock
    <3>3. Key(f)' \in Nat
      BY <1>0, <1>10, LockTTLIsPositive, TypeStep DEF Key, TypeOK
    <3> QED BY <3>1, <3>2, <3>3
  <2>2. pc' = pc
    BY <1>10 DEF Tick
  <2> QED BY <2>1, <2>2, Kept DEF Running
<1>11. CASE UNCHANGED vars
  BY <1>11, KeysStay DEF vars, Running
<1> QED
  BY <1>1, <1>2, <1>3, <1>4, <1>7, <1>8, <1>9, <1>10, <1>11 DEF Next, Call

(* Two bodies of one task run at the same time only on instances that do   *)
(* not share a store, or after a race between get and set, a deleted key   *)
(* or an expired key.                                                      *)
THEOREM OverlapOnlyWithCause == Spec => []OverlapHasACause
<1>1. Init => OverlapInv
  BY DEF Init, OverlapInv, OverlapHasACause, UntouchedHoldsLock, Running
<1>2. TypeOK /\ OverlapInv /\ [Next]_vars => OverlapInv'
  BY OverlapStep
<1>3. OverlapInv => OverlapHasACause
  BY DEF OverlapInv
<1> QED BY <1>1, <1>2, <1>3, TypeCorrect, PTL DEF Spec

-----------------------------------------------------------------------------

(* The measure behind LockNeverStuck: a key gets a new time to live only   *)
(* from a call that had found it absent in its store and now writes it;    *)
(* calls that skip or crash, and failures elsewhere, never prolong it.     *)
THEOREM OnlyHoldersProlong ==
    Spec =>
        [][\A s \in Stores : lock'[s] > lock[s] =>
             \E e \in Exec : /\ StoreOf[e] = s /\ pc[e] = "set"
                             /\ pc'[e] \in {"run", "release"}]_vars
<1>1. ASSUME TypeOK, [Next]_vars, NEW s \in Stores, lock'[s] > lock[s]
      PROVE  \E e \in Exec : /\ StoreOf[e] = s /\ pc[e] = "set"
                             /\ pc'[e] \in {"run", "release"}
  <2> DEFINE Writes(e) == /\ StoreOf[e] = s /\ pc[e] = "set"
                          /\ pc'[e] \in {"run", "release"}
  <2> USE <1>1
  <2>1. lock[s] \in Nat /\ LockTTL \in Nat /\ 0 \in 0..LockTTL
        /\ LockTTL \in 0..LockTTL
    BY LockTTLIsPositive DEF TypeOK
  <2>2. ASSUME NEW e \in Exec, SetLock(e) PROVE Writes(e)
    BY <2>1, <2>2, SetKeyType DEF SetLock, Goto, TypeOK
  <2>3. ASSUME NEW e \in Exec, SetKey(e, 0) PROVE FALSE
    BY <2>1, <2>3, SetKeyType
  <2>4. ASSUME lock' = lock PROVE FALSE
    BY <2>1, <2>4
  <2>5. ASSUME NEW e \in Exec, CacheFails(e) PROVE Writes(e)
    <3>1. pc[e] = "set" /\ Goto(e, "release") /\ SetKey(e, LockTTL)
      BY <2>3, <2>4, <2>5 DEF CacheFails
    <3> QED BY <2>1, <3>1, SetKeyType DEF Goto, TypeOK
  <2>6. ASSUME NEW e \in Exec,
               \/ Fire(e) \/ GetLock(e) \/ BodyEnds(e) \/ Crash(e)
               \/ Release(e)
        PROVE  FALSE
    BY <2>3, <2>4, <2>6 DEF Fire, GetLock, BodyEnds, Crash, Release
  <2>7. ~Tick
    BY <2>1 DEF Tick, Aged
  <2>8. ~UNCHANGED vars
    BY <2>4 DEF vars
  <2> HIDE DEF Writes
  <2>9. \E e \in Exec : Writes(e)
    BY <2>2, <2>5, <2>6, <2>7, <2>8 DEF Next, Call
  <2> QED BY <2>9 DEF Writes
<1>2. TypeOK /\ [Next]_vars =>
        [\A s \in Stores : lock'[s] > lock[s] =>
             \E e \in Exec : /\ StoreOf[e] = s /\ pc[e] = "set"
                             /\ pc'[e] \in {"run", "release"}]_vars
  BY <1>1
<1> QED BY <1>2, TypeCorrect, PTL DEF Spec
=============================================================================
