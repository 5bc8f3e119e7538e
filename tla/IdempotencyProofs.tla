------------------------- MODULE IdempotencyProofs -------------------------
(***************************************************************************)
(* For any number of keys, attempts and faults: what IdempotencyMiddleware *)
(* guarantees in spite of the races of its lookup, purge and late store.   *)
(***************************************************************************)
EXTENDS Idempotency, TLAPS

(* The locals an attempt has at each of its waiting points. *)
LEMMA AttemptShape ==
    ASSUME NEW a \in Attempt
    PROVE  /\ a.pc \in {"lookup", "purge"} =>
                 a \in [pc : {"lookup", "purge"}, key : Keys, n : Num]
           /\ a.pc = "handle" =>
                 a \in [pc : {"handle"}, key : Keys, n : Num, capture : BOOLEAN]
           /\ a.pc = "send" =>
                 a \in [pc : {"send"}, key : Keys, n : Num, capture : BOOLEAN,
                        ok : BOOLEAN]
           /\ a.pc = "store" =>
                 a \in [pc : {"store"}, key : Keys, n : Num, ok : BOOLEAN]
  BY DEF Attempt, Idle

LEMMA GotoType ==
    ASSUME TypeOK, NEW p \in Slots, NEW a \in Attempt, Goto(p, a)
    PROVE  att' \in [Slots -> Attempt]
  BY DEF TypeOK, Goto

LEMMA AttemptNumber ==
    ASSUME NEW a \in Attempt, a # Idle
    PROVE  a.key \in Keys /\ a.n \in Num
  BY DEF Attempt

LEMMA ForgetType ==
    ASSUME TypeOK, NEW k \in Keys, NEW S \in SUBSET Num, Forget(k, S)
    PROVE  unstored' \in [Keys -> SUBSET Num]
  BY DEF TypeOK, Forget

LEMMA HandlingType ==
    ASSUME NEW a \in Attempt, a.pc \in {"lookup", "purge"}, NEW c \in BOOLEAN
    PROVE  Handling(a, c) \in Attempt
<1>1. a.key \in Keys /\ a.n \in Num
  BY AttemptShape
<1> QED BY <1>1 DEF Handling, Attempt

LEMMA AgedType ==
    ASSUME NEW R \in SUBSET Row
    PROVE  Aged(R) \in SUBSET Row
  BY TTLIsPositive DEF Aged, Row

LEMMA TypeStep ==
    ASSUME TypeOK, [Next]_vars
    PROVE  TypeOK'
<1> USE TTLIsPositive, Bounds
<1>i. Idle \in Attempt
  BY DEF Attempt
<1>1. ASSUME NEW p \in Slots, NEW k \in Keys, Arrive(p, k) PROVE TypeOK'
  <2>1. arrived[k] + 1 \in Num /\ arrived' \in [Keys -> 0..MaxAttempts]
    BY <1>1 DEF Arrive, TypeOK, Num
  <2>2. [pc |-> "lookup", key |-> k, n |-> arrived[k] + 1] \in Attempt
    BY <2>1 DEF Attempt
  <2> QED BY <1>1, <2>1, <2>2, GotoType DEF Arrive, TypeOK
<1>2. ASSUME NEW p \in Slots, Lookup(p) PROVE TypeOK'
  <2>1. Handling(att[p], TRUE) \in Attempt
    BY <1>2, HandlingType DEF Lookup, TypeOK
  <2>2. [att[p] EXCEPT !.pc = "purge"] \in Attempt
    BY <1>2, AttemptShape DEF Lookup, TypeOK, Attempt
  <2>3. att' \in [Slots -> Attempt]
    BY <1>2, <1>i, <2>1, <2>2, GotoType DEF Lookup
  <2> QED BY <1>2, <2>3 DEF Lookup, TypeOK
<1>3. ASSUME NEW p \in Slots, Purge(p) PROVE TypeOK'
  <2>1. Handling(att[p], store[att[p].key] # {}) \in Attempt
    BY <1>3, HandlingType DEF Purge, TypeOK
  <2>2. att' \in [Slots -> Attempt]
    BY <1>3, <2>1, GotoType DEF Purge
  <2>3. att[p].key \in Keys /\ att[p].n \in Num
    BY <1>3, AttemptShape DEF Purge, TypeOK
  <2>4. {r.resp : r \in {q \in store[att[p].key] : ~Expired(q)}} \in SUBSET Num
    BY <2>3 DEF TypeOK, Row
  <2>5. unstored' \in [Keys -> SUBSET Num]
    BY <1>3, <2>3, <2>4, ForgetType DEF Purge
  <2> QED BY <1>3, <2>2, <2>5 DEF Purge, TypeOK
<1>4. ASSUME NEW p \in Slots, Handle(p) PROVE TypeOK'
  <2>1. /\ att[p].key \in Keys /\ att[p].n \in Num
        /\ att[p].capture \in BOOLEAN
    BY <1>4, AttemptShape DEF Handle, TypeOK
  <2>2. PICK ok \in BOOLEAN :
          /\ Goto(p, [pc |-> "send", key |-> att[p].key, n |-> att[p].n,
                      capture |-> att[p].capture, ok |-> ok])
          /\ successes' = IF ok
                THEN [successes EXCEPT ![att[p].key] =
                        @ \cup {[resp |-> att[p].n, life |-> TTL]}]
                ELSE successes
    BY <1>4 DEF Handle
  <2>3. att' \in [Slots -> Attempt]
    <3>1. [pc |-> "send", key |-> att[p].key, n |-> att[p].n,
           capture |-> att[p].capture, ok |-> ok] \in Attempt
      BY <2>1 DEF Attempt
    <3> QED BY <2>2, <3>1, GotoType
  <2>4. [resp |-> att[p].n, life |-> TTL] \in Row
    BY <2>1 DEF Row
  <2>5. successes' \in [Keys -> SUBSET Row]
    BY <2>2, <2>4 DEF TypeOK
  <2> QED BY <1>4, <2>3, <2>5 DEF Handle, TypeOK
<1>5. ASSUME NEW p \in Slots, Finish(p) PROVE TypeOK'
  <2>1. [pc |-> "store", key |-> att[p].key, n |-> att[p].n, ok |-> att[p].ok]
          \in Attempt
    BY <1>5, AttemptShape DEF Finish, TypeOK, Attempt
  <2>2. att' \in [Slots -> Attempt]
    BY <1>5, <1>i, <2>1, GotoType DEF Finish
  <2> QED BY <1>5, <2>2 DEF Finish, TypeOK
<1>6. ASSUME NEW p \in Slots, Store(p) PROVE TypeOK'
  <2>1. att[p].n \in Num
    BY <1>6, AttemptShape DEF Store, TypeOK
  <2>2. [resp |-> att[p].n, life |-> TTL] \in Row
    BY <2>1 DEF Row
  <2>3. store' \in [Keys -> SUBSET Row]
    BY <1>6, <2>2 DEF Store, TypeOK
  <2>4. att' \in [Slots -> Attempt]
    BY <1>6, <1>i, GotoType DEF Store
  <2>5. att[p].key \in Keys
    BY <1>6, AttemptShape DEF Store, TypeOK
  <2>6. unstored' \in [Keys -> SUBSET Num]
    BY <1>6, <2>1, <2>5, ForgetType DEF Store
  <2> QED BY <1>6, <2>3, <2>4, <2>6 DEF Store, TypeOK
<1>7. ASSUME NEW p \in Slots, Lose(p) PROVE TypeOK'
  <2>1. att' \in [Slots -> Attempt]
    BY <1>7, <1>i, GotoType DEF Lose
  <2>2. {att[p].n} \in SUBSET Num /\ att[p].key \in Keys
    BY <1>7, AttemptNumber DEF Lose, TypeOK
  <2>3. unstored' \in [Keys -> SUBSET Num]
    BY <1>7, <2>2, ForgetType DEF Lose
  <2> QED BY <1>7, <2>1, <2>3 DEF Lose, TypeOK
<1>8. ASSUME NEW p \in Slots, DbError(p) PROVE TypeOK'
  <2>1. AfterDbError(att[p]) \in Attempt
    BY <1>8, <1>i, HandlingType DEF DbError, AfterDbError, TypeOK
  <2>2. att' \in [Slots -> Attempt]
    BY <1>8, <2>1, GotoType DEF DbError
  <2>3. {att[p].n} \in SUBSET Num /\ att[p].key \in Keys
    BY <1>8, AttemptNumber DEF DbError, TypeOK, Idle
  <2>4. unstored' \in [Keys -> SUBSET Num]
    BY <1>8, <2>3, ForgetType DEF DbError
  <2> QED BY <1>8, <2>2, <2>4 DEF DbError, TypeOK
<1>9. CASE CleanupExpiredKeys
  BY <1>9 DEF CleanupExpiredKeys, TypeOK
<1>10. CASE Tick
  BY <1>10, AgedType DEF Tick, TypeOK
<1>11. CASE UNCHANGED vars
  BY <1>11 DEF vars, TypeOK
<1> QED
  BY <1>1, <1>2, <1>3, <1>4, <1>5, <1>6, <1>7, <1>8, <1>9, <1>10, <1>11
  DEF Next, Serve

(* Type correctness of the table, the attempts and the history.            *)
THEOREM TypeCorrect == Spec => []TypeOK
<1>1. Init => TypeOK
  BY Bounds DEF Init, TypeOK, Attempt
<1>2. TypeOK /\ [Next]_vars => TypeOK'
  BY TypeStep
<1> QED BY <1>1, <1>2, PTL DEF Spec

-----------------------------------------------------------------------------
(* A response on its way to the table comes from an attempt that succeeded. *)
Succeeded(k, n) == \E s \in successes[k] : s.resp = n

ReplayInv ==
    /\ OnlySuccessesStored
    /\ \A p \in Slots : att[p].pc \in {"send", "store"} /\ att[p].ok
                          => Succeeded(att[p].key, att[p].n)

(* Ageing keeps the responses of a set of rows, and lets none pass 0.      *)
LEMMA AgedKeeps ==
    ASSUME NEW R \in SUBSET Row
    PROVE  /\ \A r \in Aged(R) : \E q \in R : r.resp = q.resp
           /\ \A q \in R : \E r \in Aged(R) :
                 /\ r.resp = q.resp
                 /\ r.life = IF q.life = 0 THEN 0 ELSE q.life - 1
<1> DEFINE older(q) == [q EXCEPT !.life = IF @ = 0 THEN 0 ELSE @ - 1]
<1>1. ASSUME NEW q \in R
      PROVE  /\ older(q).resp = q.resp
             /\ older(q).life = IF q.life = 0 THEN 0 ELSE q.life - 1
  <2>1. q \in [resp : Num, life : 0..TTL]
    BY DEF Row
  <2> QED BY <2>1
<1>2. Aged(R) = {older(q) : q \in R}
  BY DEF Aged
<1> HIDE DEF older
<1> QED BY <1>1, <1>2

LEMMA ReplayStep ==
    ASSUME TypeOK, ReplayInv, [Next]_vars
    PROVE  ReplayInv'
<1> USE DEF ReplayInv, OnlySuccessesStored, Succeeded
<1> DEFINE Quiet == /\ successes' = successes
                    /\ \A k \in Keys : store'[k] \subseteq store[k]
           Kept(p) == \A q \in Slots \ {p} : att'[q] = att[q]
<1>1. ASSUME NEW p \in Slots, Quiet, Kept(p),
             \/ att'[p].pc \notin {"send", "store"}
             \/ /\ att[p].pc = "send" /\ att'[p].key = att[p].key
                /\ att'[p].n = att[p].n /\ att'[p].ok = att[p].ok
      PROVE  ReplayInv'
  BY <1>1
<1>2. ASSUME NEW p \in Slots, NEW a, Goto(p, a) PROVE att'[p] = a /\ Kept(p)
  BY <1>2 DEF Goto, TypeOK
<1> HIDE DEF Kept
<1>3. ASSUME NEW p \in Slots, NEW k \in Keys, Arrive(p, k) PROVE ReplayInv'
  BY <1>1, <1>2, <1>3 DEF Arrive
<1>4. ASSUME NEW p \in Slots, Lookup(p) \/ Purge(p) PROVE ReplayInv'
  <2>1. att[p].pc \in {"lookup", "purge"}
    BY <1>4 DEF Lookup, Purge
  <2>2. Quiet
    BY <1>4 DEF Lookup, Purge, TypeOK
  <2>3. att'[p].pc \in {"idle", "purge", "handle"} /\ Kept(p)
    <3>1. [att[p] EXCEPT !.pc = "purge"].pc = "purge"
      BY <2>1, AttemptShape DEF TypeOK
    <3>2. CASE Purge(p)
      BY <1>2, <3>2 DEF Purge, Handling
    <3>3. CASE Lookup(p)
      <4>1. \/ Goto(p, Handling(att[p], TRUE)) \/ Goto(p, Idle)
            \/ Goto(p, [att[p] EXCEPT !.pc = "purge"])
        BY <3>3 DEF Lookup
      <4>2. Handling(att[p], TRUE).pc = "handle" /\ Idle.pc = "idle"
        BY DEF Handling, Idle
      <4> QED BY <1>2, <3>1, <4>1, <4>2
    <3> QED BY <1>4, <3>2, <3>3
  <2> QED BY <1>1, <2>2, <2>3
<1>5. ASSUME NEW p \in Slots, Handle(p) PROVE ReplayInv'
  <2>1. PICK ok \in BOOLEAN :
          /\ Goto(p, [pc |-> "send", key |-> att[p].key, n |-> att[p].n,
                      capture |-> att[p].capture, ok |-> ok])
          /\ successes' = IF ok
                THEN [successes EXCEPT ![att[p].key] =
                        @ \cup {[resp |-> att[p].n, life |-> TTL]}]
                ELSE successes
    BY <1>5 DEF Handle
  <2>2. att[p].key \in Keys
    BY <1>5, AttemptShape DEF Handle, TypeOK
  <2>3. \A k \in Keys : successes[k] \subseteq successes'[k]
    BY <2>1 DEF TypeOK
  <2>4. ok => \E s \in successes'[att[p].key] : s.resp = att[p].n
    <3>1. ok => [resp |-> att[p].n, life |-> TTL] \in successes'[att[p].key]
      BY <2>1, <2>2 DEF TypeOK
    <3> QED BY <3>1
  <2>5. /\ att'[p].key = att[p].key /\ att'[p].n = att[p].n /\ att'[p].ok = ok
        /\ Kept(p)
    BY <1>2, <2>1
  <2>6. OnlySuccessesStored'
    BY <1>5, <2>3 DEF Handle
  <2>7. ASSUME NEW q \in Slots, att'[q].pc \in {"send", "store"}, att'[q].ok
        PROVE  \E s \in successes'[att'[q].key] : s.resp = att'[q].n
    <3>1. CASE q = p
      BY <2>4, <2>5, <2>7, <3>1
    <3>2. CASE q # p
      <4>1. att'[q] = att[q]
        BY <2>5, <3>2 DEF Kept
      <4>2. att[q].key \in Keys
        BY <2>7, <4>1, AttemptShape DEF TypeOK
      <4> QED BY <2>3, <2>7, <4>1, <4>2
    <3> QED BY <3>1, <3>2
  <2> QED BY <2>6, <2>7
<1>6. ASSUME NEW p \in Slots, Finish(p) PROVE ReplayInv'
  <2>1. CASE att[p].capture
    BY <1>1, <1>2, <1>6, <2>1 DEF Finish
  <2>2. CASE ~att[p].capture
    BY <1>1, <1>2, <1>6, <2>2 DEF Finish, Idle
  <2> QED BY <2>1, <2>2
<1>7. ASSUME NEW p \in Slots, Store(p) PROVE ReplayInv'
  <2>1. att'[p] = Idle /\ Kept(p) /\ successes' = successes
    BY <1>2, <1>7 DEF Store
  <2>2. att[p].key \in Keys
    BY <1>7, AttemptShape DEF Store, TypeOK
  <2>3. ASSUME NEW k \in Keys, NEW r \in store'[k]
        PROVE  \E s \in successes[k] : s.resp = r.resp
    <3>1. r \in store[k] \/ (att[p].ok /\ k = att[p].key /\ r.resp = att[p].n)
      BY <1>7, <2>2 DEF Store, Storable, TypeOK
    <3> QED BY <1>7, <3>1 DEF Store
  <2> QED BY <2>1, <2>3 DEF Kept, Idle
<1>8. ASSUME NEW p \in Slots, Lose(p) PROVE ReplayInv'
  BY <1>1, <1>2, <1>8 DEF Lose, Idle
<1>9. ASSUME NEW p \in Slots, DbError(p) PROVE ReplayInv'
  BY <1>1, <1>2, <1>9 DEF DbError, AfterDbError, Handling, Idle
<1>10. CASE CleanupExpiredKeys
  BY <1>10 DEF CleanupExpiredKeys
<1>11. CASE Tick
  <2>1. ASSUME NEW k \in Keys, NEW n, \E s \in successes[k] : s.resp = n
        PROVE  \E s \in successes'[k] : s.resp = n
    <3>1. successes'[k] = Aged(successes[k]) /\ successes[k] \in SUBSET Row
      BY <1>11 DEF Tick, TypeOK
    <3> QED BY <2>1, <3>1, AgedKeeps
  <2>2. ASSUME NEW k \in Keys, NEW r \in store'[k]
        PROVE  \E s \in successes'[k] : s.resp = r.resp
    <3>0. store'[k] = Aged(store[k]) /\ store[k] \in SUBSET Row
      BY <1>11 DEF Tick, TypeOK
    <3>1. PICK q \in store[k] : r.resp = q.resp
      BY <3>0, AgedKeeps
    <3>2. \E s \in successes[k] : s.resp = r.resp
      BY <3>1
    <3> QED BY <2>1, <3>2
  <2>3. ASSUME NEW q \in Slots, att[q].pc \in {"send", "store"}
        PROVE  att[q].key \in Keys
    BY <2>3, AttemptShape DEF TypeOK
  <2>4. att' = att
    BY <1>11 DEF Tick
  <2> QED BY <2>1, <2>2, <2>3, <2>4
<1>12. CASE UNCHANGED vars
  BY <1>12 DEF vars
<1> QED
  BY <1>3, <1>4, <1>5, <1>6, <1>7, <1>8, <1>9, <1>10, <1>11, <1>12
  DEF Next, Serve

(* Nothing but the response of a successful attempt is ever replayed.      *)
THEOREM ReplaysAreSuccesses == Spec => []OnlySuccessesStored
<1>1. Init => ReplayInv
  BY DEF Init, ReplayInv, OnlySuccessesStored, Idle
<1>2. TypeOK /\ ReplayInv /\ [Next]_vars => ReplayInv'
  BY ReplayStep
<1>3. ReplayInv => OnlySuccessesStored
  BY DEF ReplayInv
<1> QED BY <1>1, <1>2, <1>3, TypeCorrect, PTL DEF Spec

-----------------------------------------------------------------------------
(* The @unique constraint on idempotency_keys.key.                         *)
OneRow == \A k \in Keys : \A r, q \in store[k] : r = q

LEMMA OneRowStep ==
    ASSUME TypeOK, OneRow, [Next]_vars
    PROVE  OneRow'
<1>1. ASSUME NEW p \in Slots, Purge(p) PROVE OneRow'
  BY <1>1 DEF Purge, OneRow, TypeOK
<1>2. ASSUME NEW p \in Slots, Store(p) PROVE OneRow'
  <2>1. ASSUME NEW k \in Keys
        PROVE  \/ store'[k] = store[k]
               \/ store'[k] = {[resp |-> att[p].n, life |-> TTL]}
    BY <1>2 DEF Store, TypeOK
  <2> QED BY <2>1 DEF OneRow
<1>3. CASE CleanupExpiredKeys
  BY <1>3 DEF CleanupExpiredKeys, OneRow
<1>4. CASE Tick
  BY <1>4 DEF Tick, Aged, OneRow
<1>5. CASE store' = store
  BY <1>5 DEF OneRow
<1> QED
  BY <1>1, <1>2, <1>3, <1>4, <1>5
  DEF Next, Serve, Arrive, Lookup, Handle, Finish, Lose, DbError, vars

(* Once its response is stored and no attempt is past its lookup, a key    *)
(* only replays until the row expires, whatever attempts arrive.           *)
THEOREM SettledReplay == Spec => SettledKeysReplay
<1> DEFINE Held(k) == Settled(k)' \/ \E r \in store'[k] : Expired(r)
<1>1. ASSUME TypeOK, OneRow, [Next]_vars, NEW k \in Keys, Settled(k),
             dbErrors' = dbErrors
      PROVE  Held(k)
  <2> USE DEF Settled
  <2>1. PICK r \in store[k] : ~Expired(r) /\ \A q \in store[k] : q = r
    BY <1>1 DEF OneRow
  <2>2. ASSUME NEW p \in Slots, NEW a, Goto(p, a), r \in store'[k],
               a.pc \in {"purge", "handle"} => a.key # k
        PROVE  Held(k)
    BY <1>1, <2>1, <2>2 DEF Goto, TypeOK
  <2>3. Idle.pc = "idle"
    BY DEF Idle
  <2>4. ASSUME NEW p \in Slots, NEW o \in Keys, Arrive(p, o) PROVE Held(k)
    BY <2>1, <2>2, <2>4 DEF Arrive
  <2>5. ASSUME NEW p \in Slots, Lookup(p) PROVE Held(k)
    <3>1. r \in store'[k]
      BY <2>1, <2>5 DEF Lookup
    <3>2. [att[p] EXCEPT !.pc = "purge"].key = att[p].key
      BY <1>1, <2>5, AttemptShape DEF Lookup, TypeOK
    <3>3. Handling(att[p], TRUE).key = att[p].key
      BY DEF Handling
    <3>4. CASE att[p].key = k
      <4>1. Goto(p, Idle)
        BY <2>1, <2>5, <3>4 DEF Lookup
      <4> QED BY <2>2, <2>3, <3>1, <4>1
    <3>5. CASE att[p].key # k
      <4>1. \/ Goto(p, Handling(att[p], TRUE)) \/ Goto(p, Idle)
            \/ Goto(p, [att[p] EXCEPT !.pc = "purge"])
        BY <2>5 DEF Lookup
      <4> QED BY <2>2, <2>3, <3>1, <3>2, <3>3, <3>5, <4>1
    <3> QED BY <3>4, <3>5
  <2>6. ASSUME NEW p \in Slots, Purge(p) PROVE Held(k)
    <3>1. att[p].key # k
      BY <1>1, <2>6 DEF Purge
    <3>2. r \in store'[k]
      BY <1>1, <2>1, <2>6, <3>1 DEF Purge, TypeOK
    <3>3. Handling(att[p], store[att[p].key] # {}).key = att[p].key
      BY DEF Handling
    <3> QED BY <2>2, <2>6, <3>1, <3>2, <3>3 DEF Purge
  <2>7. ASSUME NEW p \in Slots, Handle(p) PROVE Held(k)
    BY <2>1, <2>2, <2>7 DEF Handle
  <2>8. ASSUME NEW p \in Slots, Finish(p) PROVE Held(k)
    <3>1. CASE att[p].capture
      BY <2>1, <2>2, <2>8, <3>1 DEF Finish
    <3>2. CASE ~att[p].capture
      BY <2>1, <2>2, <2>3, <2>8, <3>2 DEF Finish
    <3> QED BY <3>1, <3>2
  <2>9. ASSUME NEW p \in Slots, Store(p) PROVE Held(k)
    <3>1. r \in store'[k]
      BY <1>1, <2>1, <2>9 DEF Store, Storable, TypeOK
    <3> QED BY <2>2, <2>3, <2>9, <3>1 DEF Store
  <2>10. ASSUME NEW p \in Slots, Lose(p) PROVE Held(k)
    BY <2>1, <2>2, <2>3, <2>10 DEF Lose
  <2>11. ASSUME NEW p \in Slots, DbError(p) PROVE Held(k)
    BY <1>1, <2>11 DEF DbError, TypeOK
  <2>12. CASE CleanupExpiredKeys
    BY <1>1, <2>1, <2>12 DEF CleanupExpiredKeys
  <2>13. CASE Tick
    <3>1. store[k] \in SUBSET Row /\ store'[k] = Aged(store[k]) /\ att' = att
      BY <1>1, <2>13 DEF Tick, TypeOK
    <3>2. \E q \in store'[k] : TRUE
      BY <2>1, <3>1, AgedKeeps
    <3> QED BY <1>1, <3>1, <3>2
  <2>14. CASE UNCHANGED vars
    BY <1>1, <2>14 DEF vars
  <2> QED
    BY <1>1, <2>4, <2>5, <2>6, <2>7, <2>8, <2>9, <2>10, <2>11, <2>12, <2>13,
       <2>14 DEF Next, Serve
<1>2. TypeOK /\ OneRow /\ [Next]_vars =>
        [\A k \in Keys : Settled(k) /\ dbErrors' = dbErrors =>
            \/ Settled(k)'
            \/ \E r \in store'[k] : Expired(r)]_vars
  BY <1>1
<1>3. Init => OneRow
  BY DEF Init, OneRow
<1>4. TypeOK /\ OneRow /\ [Next]_vars => OneRow'
  BY OneRowStep
<1> QED
  BY <1>2, <1>3, <1>4, TypeCorrect, PTL DEF Spec, SettledKeysReplay

-----------------------------------------------------------------------------
(* Where the response of success s with key k is: left out, in a row that  *)
(* lives at least as long as s, or with its attempt.                       *)
Stored(k, s) == \E r \in store[k] : r.resp = s.resp /\ s.life <= r.life

InFlight(k, s) ==
    \E p \in Slots : /\ att[p].pc \in {"send", "store"}
                     /\ att[p].key = k /\ att[p].n = s.resp

Whereabouts(k, s) == s.resp \in unstored[k] \/ Stored(k, s) \/ InFlight(k, s)

ReplayableInv ==
    /\ \A k \in Keys : \A s \in Recent(k) : Whereabouts(k, s)
    /\ \A p \in Slots : att[p].pc \in {"handle", "send"} /\ ~att[p].capture
                          => att[p].n \in unstored[att[p].key]

LEMMA ReplayableStep ==
    ASSUME TypeOK, ReplayableInv, [Next]_vars
    PROVE  ReplayableInv'
<1> DEFINE Rows == \A k \in Keys : store[k] \subseteq store'[k]
           More == \A k \in Keys : unstored[k] \subseteq unstored'[k]
           Others(p) == \A q \in Slots \ {p} : att'[q] = att[q]
           Hooked(p) == att'[p].pc \in {"handle", "send"} /\ ~att'[p].capture
                          => att'[p].n \in unstored'[att'[p].key]
           OnItsWay(p) == att[p].pc \in {"send", "store"} =>
                            \/ att[p].n \in unstored'[att[p].key]
                            \/ /\ att'[p].pc \in {"send", "store"}
                               /\ att'[p].key = att[p].key
                               /\ att'[p].n = att[p].n
           Traced == \A k \in Keys : \A s \in Recent(k)' : Whereabouts(k, s)'
<1>1. ASSUME NEW p \in Slots, NEW a, Goto(p, a) PROVE att'[p] = a /\ Others(p)
  BY <1>1 DEF Goto, TypeOK
<1>2. ASSUME NEW k \in Keys, NEW S \in SUBSET Num, Forget(k, S)
      PROVE  More /\ S \subseteq unstored'[k]
  BY <1>2 DEF Forget, TypeOK
<1>3. unstored' = unstored => More
  OBVIOUS
<1>4. ASSUME NEW p \in Slots, More, Others(p), Hooked(p), Traced
      PROVE  ReplayableInv'
  <2>1. ASSUME NEW q \in Slots, q # p PROVE Hooked(q)
    BY <1>4, <2>1, AttemptShape DEF ReplayableInv, TypeOK
  <2> QED BY <1>4, <2>1 DEF ReplayableInv
<1>5. ASSUME NEW p \in Slots, More, Others(p), OnItsWay(p),
             NEW k \in Keys, NEW s \in Recent(k),
             Stored(k, s) => s.resp \in unstored'[k] \/ Stored(k, s)'
      PROVE  Whereabouts(k, s)'
  BY <1>5 DEF ReplayableInv, Whereabouts, InFlight
<1>6. ASSUME NEW p \in Slots, More, Others(p), OnItsWay(p), Hooked(p), Rows,
             successes' = successes
      PROVE  ReplayableInv'
  <2>1. ASSUME NEW k \in Keys, NEW s \in Recent(k) PROVE Whereabouts(k, s)'
    BY <1>5, <1>6, <2>1 DEF Stored
  <2>2. Traced
    BY <1>6, <2>1 DEF Recent
  <2> QED BY <1>4, <1>6, <2>2
<1>7. ASSUME NEW p \in Slots, NEW k \in Keys, Arrive(p, k) PROVE ReplayableInv'
  <2>1. More /\ Rows /\ successes' = successes
    BY <1>7 DEF Arrive
  <2>2. Others(p) /\ Hooked(p) /\ OnItsWay(p)
    BY <1>1, <1>7 DEF Arrive, Idle
  <2> QED BY <1>6, <2>1, <2>2
<1>8. ASSUME NEW p \in Slots, Lookup(p) PROVE ReplayableInv'
  <2>1. More /\ Rows /\ successes' = successes /\ att[p].pc = "lookup"
    BY <1>8 DEF Lookup
  <2>2. \/ Goto(p, Handling(att[p], TRUE)) \/ Goto(p, Idle)
        \/ Goto(p, [att[p] EXCEPT !.pc = "purge"])
    BY <1>8 DEF Lookup
  <2>3. [att[p] EXCEPT !.pc = "purge"].pc = "purge"
    BY <2>1, AttemptShape DEF TypeOK
  <2>4. Handling(att[p], TRUE).capture /\ Idle.pc = "idle"
    BY DEF Handling, Idle
  <2>5. Others(p) /\ Hooked(p) /\ OnItsWay(p)
    BY <1>1, <2>1, <2>2, <2>3, <2>4
  <2> QED BY <1>6, <2>1, <2>5
<1>9. ASSUME NEW p \in Slots, Purge(p) PROVE ReplayableInv'
  <2> DEFINE a == att[p]
             S == IF store[a.key] = {} THEN {a.n}
                  ELSE {r.resp : r \in {q \in store[a.key] : ~Expired(q)}}
  <2>1. a.key \in Keys /\ a.n \in Num /\ a.pc = "purge"
    BY <1>9, AttemptShape DEF Purge, TypeOK
  <2>2. S \in SUBSET Num
    BY <2>1 DEF TypeOK, Row
  <2>3. More /\ S \subseteq unstored'[a.key]
    <3>1. Forget(a.key, S)
      BY <1>9 DEF Purge
    <3> QED BY <1>2, <2>1, <2>2, <3>1
  <2>4. att'[p] = Handling(a, store[a.key] # {}) /\ Others(p)
    BY <1>1, <1>9 DEF Purge
  <2>5. Hooked(p) /\ OnItsWay(p)
    <3>1. att'[p].key = a.key /\ att'[p].n = a.n
      BY <2>4 DEF Handling
    <3>2. store[a.key] = {} => a.n \in unstored'[a.key]
      BY <2>3
    <3>3. store[a.key] # {} => att'[p] = Handling(a, TRUE)
      BY <2>4
    <3>4. store[a.key] # {} => att'[p].capture
      BY <3>3 DEF Handling
    <3> HIDE DEF a, S
    <3>5. Hooked(p)
      BY <3>1, <3>2, <3>4
    <3>6. OnItsWay(p)
      BY <2>1 DEF a
    <3> QED BY <3>5, <3>6
  <2>6. ASSUME NEW k \in Keys, NEW s \in Recent(k), Stored(k, s)
        PROVE  s.resp \in unstored'[k] \/ Stored(k, s)'
    <3>1. CASE k # a.key
      BY <1>9, <2>6, <3>1 DEF Purge, Stored, TypeOK
    <3>2. CASE k = a.key
      <4>1. PICK r \in store[k] : r.resp = s.resp /\ s.life <= r.life
        BY <2>6 DEF Stored
      <4>2. s.life > 0 /\ s.life \in 0..TTL
        BY <2>6 DEF Recent, TypeOK, Row
      <4>3. ~Expired(r)
        BY <4>1, <4>2 DEF Expired
      <4>4. r.resp \in S
        BY <3>2, <4>1, <4>3
      <4> QED BY <2>3, <3>2, <4>1, <4>4
    <3> QED BY <3>1, <3>2
  <2>7. \A k \in Keys : \A s \in Recent(k) : Whereabouts(k, s)'
    BY <1>5, <2>3, <2>4, <2>5, <2>6
  <2>8. Traced
    BY <1>9, <2>7 DEF Purge, Recent
  <2> HIDE DEF a, S
  <2> QED BY <1>4, <2>3, <2>4, <2>5, <2>8
<1>10. ASSUME NEW p \in Slots, Handle(p) PROVE ReplayableInv'
  <2>1. PICK ok \in BOOLEAN :
          /\ Goto(p, [pc |-> "send", key |-> att[p].key, n |-> att[p].n,
                      capture |-> att[p].capture, ok |-> ok])
          /\ successes' = IF ok
                THEN [successes EXCEPT ![att[p].key] =
                        @ \cup {[resp |-> att[p].n, life |-> TTL]}]
                ELSE successes
    BY <1>10 DEF Handle
  <2>2. /\ att'[p].pc = "send" /\ att'[p].key = att[p].key
        /\ att'[p].n = att[p].n /\ att'[p].capture = att[p].capture
        /\ Others(p) /\ att[p].pc = "handle"
    BY <1>1, <1>10, <2>1 DEF Handle
  <2>3. More /\ Hooked(p) /\ OnItsWay(p)
    BY <1>10, <2>2 DEF Handle, ReplayableInv
  <2>4. ASSUME NEW k \in Keys, NEW s \in Recent(k) PROVE Whereabouts(k, s)'
    BY <1>5, <1>10, <2>2, <2>3 DEF Handle, Stored
  <2>5. ASSUME NEW k \in Keys, NEW s \in Recent(k)', s \notin Recent(k)
        PROVE  InFlight(k, s)'
    <3>1. k = att[p].key /\ s = [resp |-> att[p].n, life |-> TTL]
      BY <2>1, <2>5 DEF Recent, TypeOK
    <3> QED BY <2>2, <3>1 DEF InFlight
  <2>6. Traced
    BY <2>4, <2>5 DEF Whereabouts
  <2> QED BY <1>4, <2>2, <2>3, <2>6
<1>11. ASSUME NEW p \in Slots, Finish(p) PROVE ReplayableInv'
  <2>1. More /\ Rows /\ successes' = successes
    BY <1>11 DEF Finish
  <2>2. CASE att[p].capture
    BY <1>1, <1>6, <1>11, <2>1, <2>2 DEF Finish
  <2>3. CASE ~att[p].capture
    <3>1. att[p].n \in unstored'[att[p].key]
      BY <1>11, <2>3 DEF Finish, ReplayableInv
    <3> QED BY <1>1, <1>6, <1>11, <2>1, <2>3, <3>1 DEF Finish, Idle
  <2> QED BY <2>2, <2>3
<1>12. ASSUME NEW p \in Slots, Store(p) PROVE ReplayableInv'
  <2> DEFINE a == att[p]
             S == IF Storable(a) THEN {} ELSE {a.n}
             new == [resp |-> a.n, life |-> TTL]
  <2>1. a.key \in Keys /\ a.n \in Num /\ a.pc = "store"
    BY <1>12, AttemptShape DEF Store, TypeOK
  <2>2. More /\ S \subseteq unstored'[a.key]
    <3>1. Forget(a.key, S) /\ S \in SUBSET Num
      BY <1>12, <2>1 DEF Store
    <3> QED BY <1>2, <2>1, <3>1
  <2>3. att'[p] = Idle /\ Others(p) /\ successes' = successes
    BY <1>1, <1>12 DEF Store
  <2>4. Hooked(p)
    BY <2>3 DEF Idle
  <2>5. CASE ~Storable(a)
    <3>1. Rows
      BY <1>12, <2>5 DEF Store
    <3>2. OnItsWay(p)
      BY <2>2, <2>5
    <3> HIDE DEF a, S, new
    <3> QED BY <1>6, <2>2, <2>3, <2>4, <3>1, <3>2
  <2>6. CASE Storable(a)
    <3>1. store' = [store EXCEPT ![a.key] = {new}] /\ store[a.key] = {}
      BY <1>12, <2>6 DEF Store, Storable
    <3>2. Rows /\ new \in store'[a.key]
      BY <2>1, <3>1 DEF TypeOK
    <3>3. ASSUME NEW k \in Keys, NEW s \in Recent(k) PROVE Whereabouts(k, s)'
      <4>1. CASE s.resp \in unstored[k]
        BY <2>2, <4>1 DEF Whereabouts
      <4>2. CASE Stored(k, s)
        BY <3>2, <4>2 DEF Whereabouts, Stored
      <4>3. CASE InFlight(k, s)
        <5>1. PICK q \in Slots : /\ att[q].pc \in {"send", "store"}
                                 /\ att[q].key = k /\ att[q].n = s.resp
          BY <4>3 DEF InFlight
        <5>2. CASE q # p
          BY <2>3, <5>1, <5>2 DEF Whereabouts, InFlight
        <5>3. CASE q = p
          <6>1. s.life <= TTL
            BY TTLIsPositive DEF Recent, TypeOK, Row
          <6>2. new.resp = s.resp /\ s.life <= new.life
            BY <5>1, <5>3, <6>1
          <6>3. k = a.key
            BY <5>1, <5>3
          <6> QED BY <3>2, <6>2, <6>3 DEF Whereabouts, Stored
        <5> QED BY <5>2, <5>3
      <4> QED BY <4>1, <4>2, <4>3 DEF ReplayableInv, Whereabouts
    <3>4. Traced
      BY <2>3, <3>3 DEF Recent
    <3> HIDE DEF a, S, new
    <3> QED BY <1>4, <2>2, <2>3, <2>4, <3>4
  <2> QED BY <2>5, <2>6
<1>13. ASSUME NEW p \in Slots, Lose(p) PROVE ReplayableInv'
  <2>1. att[p].key \in Keys /\ {att[p].n} \in SUBSET Num
    BY <1>13, AttemptNumber DEF Lose, TypeOK
  <2>2. More /\ att[p].n \in unstored'[att[p].key]
    BY <1>2, <1>13, <2>1 DEF Lose
  <2>3. Others(p) /\ Hooked(p) /\ OnItsWay(p)
    BY <1>1, <1>13, <2>2 DEF Lose, Idle
  <2>4. Rows /\ successes' = successes
    BY <1>13 DEF Lose
  <2> QED BY <1>6, <2>2, <2>3, <2>4
<1>14. ASSUME NEW p \in Slots, DbError(p) PROVE ReplayableInv'
  <2>1. att[p].key \in Keys /\ {att[p].n} \in SUBSET Num
    BY <1>14, AttemptNumber DEF DbError, TypeOK, Idle
  <2>2. More /\ att[p].n \in unstored'[att[p].key]
    BY <1>2, <1>14, <2>1 DEF DbError
  <2>3. Others(p) /\ Hooked(p) /\ OnItsWay(p)
    BY <1>1, <1>14, <2>2 DEF DbError, AfterDbError, Handling, Idle
  <2>4. Rows /\ successes' = successes
    BY <1>14 DEF DbError
  <2> QED BY <1>6, <2>2, <2>3, <2>4
<1>15. CASE CleanupExpiredKeys
  <2>1. ASSUME NEW k \in Keys, NEW s \in Recent(k), Stored(k, s)
        PROVE  Stored(k, s)'
    <3>1. PICK r \in store[k] : r.resp = s.resp /\ s.life <= r.life
      BY <2>1 DEF Stored
    <3>2. ~Expired(r)
      BY <3>1 DEF Expired, Recent, TypeOK, Row
    <3> QED BY <1>15, <3>1, <3>2 DEF CleanupExpiredKeys, Stored
  <2> QED
    BY <1>15, <2>1
    DEF CleanupExpiredKeys, ReplayableInv, Whereabouts, InFlight, Recent
<1>16. CASE Tick
  <2>1. att' = att /\ unstored' = unstored
    BY <1>16 DEF Tick
  <2>2. ASSUME NEW k \in Keys, NEW t \in Recent(k)' PROVE Whereabouts(k, t)'
    <3>1. /\ successes'[k] = Aged(successes[k]) /\ successes[k] \in SUBSET Row
          /\ store'[k] = Aged(store[k]) /\ store[k] \in SUBSET Row
      BY <1>16 DEF Tick, TypeOK
    <3>2. PICK s \in successes[k] :
             t = [s EXCEPT !.life = IF @ = 0 THEN 0 ELSE @ - 1]
      BY <2>2, <3>1 DEF Recent, Aged
    <3>3. /\ t.resp = s.resp /\ t.life = (IF s.life = 0 THEN 0 ELSE s.life - 1)
          /\ s.life \in Nat
      BY <3>1, <3>2 DEF Row
    <3>4. t.life > 0
      BY <2>2 DEF Recent
    <3>5. s \in Recent(k)
      BY <3>3, <3>4 DEF Recent
    <3>6. CASE Stored(k, s)
      <4>1. PICK q \in store[k] : q.resp = s.resp /\ s.life <= q.life
        BY <3>6 DEF Stored
      <4>2. PICK r \in store'[k] :
               /\ r.resp = q.resp
               /\ r.life = IF q.life = 0 THEN 0 ELSE q.life - 1
        BY <3>1, AgedKeeps
      <4>3. q.life \in Nat
        BY <3>1 DEF Row
      <4>4. r.resp = t.resp /\ t.life <= r.life
        BY <3>3, <3>4, <4>1, <4>2, <4>3
      <4> QED BY <4>4 DEF Whereabouts, Stored
    <3>7. CASE s.resp \in unstored[k] \/ InFlight(k, s)
      BY <2>1, <3>3, <3>7 DEF Whereabouts, InFlight
    <3> QED BY <3>5, <3>6, <3>7 DEF ReplayableInv, Whereabouts
  <2> QED BY <2>1, <2>2 DEF ReplayableInv
<1>17. CASE UNCHANGED vars
  BY <1>17
  DEF vars, ReplayableInv, Whereabouts, Stored, InFlight, Recent
<1> QED
  BY <1>7, <1>8, <1>9, <1>10, <1>11, <1>12, <1>13, <1>14, <1>15, <1>16, <1>17
  DEF Next, Serve

(* A success is replayed for as long as it lives, but for the causes that  *)
(* unstored names.                                                         *)
THEOREM RememberedSuccesses == Spec => []SuccessesAreReplayed
<1>1. Init => ReplayableInv
  BY DEF Init, ReplayableInv, Recent, Idle
<1>2. TypeOK /\ ReplayableInv /\ [Next]_vars => ReplayableInv'
  BY ReplayableStep
<1>3. TypeOK /\ ReplayableInv => SuccessesAreReplayed
  <2>1. ASSUME TypeOK, NEW k \in Keys, NEW s \in Recent(k), Stored(k, s)
        PROVE  \E r \in store[k] : r.resp = s.resp /\ ~Expired(r)
    <3>1. PICK r \in store[k] : r.resp = s.resp /\ s.life <= r.life
      BY <2>1 DEF Stored
    <3>2. ~Expired(r)
      BY <2>1, <3>1 DEF Expired, Recent, TypeOK, Row
    <3> QED BY <3>1, <3>2
  <2> QED
    BY <2>1 DEF ReplayableInv, SuccessesAreReplayed, Whereabouts, InFlight
<1> QED BY <1>1, <1>2, <1>3, TypeCorrect, PTL DEF Spec

-----------------------------------------------------------------------------

(* The waiting points of an attempt, in the order it comes to them.        *)
Stage(a) == CASE a.pc = "lookup" -> 1 [] a.pc = "purge"  -> 2
              [] a.pc = "handle" -> 3 [] a.pc = "send"   -> 4
              [] a.pc = "store"  -> 5 [] OTHER -> 6

(* The measure behind EveryAttemptEnds: an attempt only goes forward, and  *)
(* stays the attempt it is, until its slot is free; neither a purge, nor a *)
(* database error, nor another attempt sends it back to a former query.    *)
THEOREM AttemptsGoForward ==
    Spec =>
        [][\A p \in Slots : att[p] # Idle /\ att'[p] # att[p] =>
             \/ att'[p] = Idle
             \/ /\ Stage(att'[p]) > Stage(att[p])
                /\ att'[p].key = att[p].key /\ att'[p].n = att[p].n]_vars
<1> DEFINE Forward(p) ==
             att[p] # Idle /\ att'[p] # att[p] =>
               \/ att'[p] = Idle
               \/ /\ Stage(att'[p]) > Stage(att[p])
                  /\ att'[p].key = att[p].key /\ att'[p].n = att[p].n
<1>1. ASSUME TypeOK, [Next]_vars, NEW p \in Slots PROVE Forward(p)
  <2> USE <1>1 DEF TypeOK
  <2>1. ASSUME NEW q \in Slots, NEW a, Goto(q, a),
               \/ att[q] = Idle \/ a = Idle
               \/ /\ Stage(a) > Stage(att[q])
                  /\ a.key = att[q].key /\ a.n = att[q].n
        PROVE  Forward(p)
    BY <2>1 DEF Goto
  <2>2. ASSUME NEW q \in Slots, NEW k \in Keys, Arrive(q, k) PROVE Forward(p)
    BY <2>1, <2>2 DEF Arrive
  <2>3. ASSUME NEW q \in Slots, Lookup(q) PROVE Forward(p)
    BY <2>1, <2>3 DEF Lookup, Handling, Stage, Attempt
  <2>4. ASSUME NEW q \in Slots, Purge(q) PROVE Forward(p)
    BY <2>1, <2>4 DEF Purge, Handling, Stage
  <2>5. ASSUME NEW q \in Slots, Handle(q) PROVE Forward(p)
    BY <2>1, <2>5 DEF Handle, Stage
  <2>6. ASSUME NEW q \in Slots, Finish(q) PROVE Forward(p)
    BY <2>1, <2>6 DEF Finish, Stage
  <2>7. ASSUME NEW q \in Slots, Store(q) \/ Lose(q) PROVE Forward(p)
    BY <2>1, <2>7 DEF Store, Lose
  <2>8. ASSUME NEW q \in Slots, DbError(q) PROVE Forward(p)
    BY <2>1, <2>8 DEF DbError, AfterDbError, Handling, Stage
  <2>9. CASE CleanupExpiredKeys \/ Tick \/ UNCHANGED vars
    BY <2>9 DEF CleanupExpiredKeys, Tick, vars
  <2> QED
    BY <2>2, <2>3, <2>4, <2>5, <2>6, <2>7, <2>8, <2>9 DEF Next, Serve
<1>2. TypeOK /\ [Next]_vars => [\A p \in Slots : Forward(p)]_vars
  BY <1>1
<1> QED BY <1>2, TypeCorrect, PTL DEF Spec
=============================================================================
