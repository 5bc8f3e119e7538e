---------------------------- MODULE Idempotency ----------------------------
(***************************************************************************)
(* IdempotencyMiddleware: attempts at one operation that carry the same    *)
(* Idempotency-Key, over all instances, and the idempotency_keys table.    *)
(* An attempt looks its key up, replays the stored response or runs the    *)
(* handler, and stores the response after it has been sent, when the       *)
(* response's 'finish' event fires.  Attempts interleave at every await.   *)
(*                                                                         *)
(* A response is identified by the number of the attempt that produced it. *)
(***************************************************************************)
EXTENDS Integers

CONSTANTS
    Keys,           \* idempotency keys
    Slots,          \* slots for attempts in progress
    TTL,            \* the 24 hours of a row, in clock ticks
    MaxAttempts,    \* bound on the attempts per key
    MaxLost,        \* bound on lost responses and crashes
    MaxDbErrors     \* bound on failed database calls

ASSUME TTLIsPositive == TTL \in Nat \ {0}
ASSUME Bounds == MaxAttempts \in Nat /\ MaxLost \in Nat /\ MaxDbErrors \in Nat

VARIABLES
    store,      \* store[k]: the row of key k, as a set of at most one row
    att,        \* the attempts in progress
    arrived,    \* arrived[k]: attempts made so far with key k
    successes,  \* history: the attempts whose handler succeeded, ageing
    unstored,   \* history: the attempts whose response is not kept, see below
    lost,       \* lost responses and crashes so far
    dbErrors    \* failed database calls so far

vars == <<store, att, arrived, successes, unstored, lost, dbErrors>>

Num == 1..MaxAttempts

(* life is the time left to expiresAt; the row stays when it reaches 0. *)
Row == [resp : Num, life : 0..TTL]

Idle == [pc |-> "idle"]

Attempt ==
         {Idle}
    \cup [pc : {"lookup", "purge"}, key : Keys, n : Num]
    \cup [pc : {"handle"}, key : Keys, n : Num, capture : BOOLEAN]
    \cup [pc : {"send"}, key : Keys, n : Num, capture : BOOLEAN, ok : BOOLEAN]
    \cup [pc : {"store"}, key : Keys, n : Num, ok : BOOLEAN]

TypeOK ==
    /\ store \in [Keys -> SUBSET Row]
    /\ att \in [Slots -> Attempt]
    /\ arrived \in [Keys -> 0..MaxAttempts]
    /\ successes \in [Keys -> SUBSET Row]
    /\ unstored \in [Keys -> SUBSET Num]
    /\ lost \in 0..MaxLost
    /\ dbErrors \in 0..MaxDbErrors

Init ==
    /\ store = [k \in Keys |-> {}]
    /\ att = [p \in Slots |-> Idle]
    /\ arrived = [k \in Keys |-> 0]
    /\ successes = [k \in Keys |-> {}]
    /\ unstored = [k \in Keys |-> {}]
    /\ lost = 0
    /\ dbErrors = 0

-----------------------------------------------------------------------------
Goto(p, a) == att' = [att EXCEPT ![p] = a]

(* The responses in S have been, or will be, left out of the table.        *)
Forget(k, S) == unstored' = [unstored EXCEPT ![k] = @ \cup S]

Handling(a, capture) ==
    [pc |-> "handle", key |-> a.key, n |-> a.n, capture |-> capture]

(* A POST, PUT or PATCH with an Idempotency-Key reaches the middleware. *)
Arrive(p, k) ==
    /\ att[p] = Idle
    /\ arrived[k] < MaxAttempts
    /\ arrived' = [arrived EXCEPT ![k] = @ + 1]
    /\ Goto(p, [pc |-> "lookup", key |-> k, n |-> arrived[k] + 1])
    /\ UNCHANGED <<store, successes, unstored, lost, dbErrors>>

Expired(r) == r.life = 0

(* findUnique: nothing stored, an expired row, or a response to replay.    *)
Lookup(p) ==
    LET a == att[p]
    IN  /\ a.pc = "lookup"
        /\ \/ store[a.key] = {} /\ Goto(p, Handling(a, TRUE))
           \/ \E r \in store[a.key] :
                 IF Expired(r) THEN Goto(p, [a EXCEPT !.pc = "purge"])
                               ELSE Goto(p, Idle)
        /\ UNCHANGED <<store, arrived, successes, unstored, lost, dbErrors>>

(* Variant to refute EveryAttemptEnds: the error of a delete that finds no *)
(* row is not caught, and next() never called.                             *)
PurgeUncaught(p) ==
    LET a == att[p]
    IN  /\ a.pc = "purge"
        /\ store[a.key] # {}
        /\ store' = [store EXCEPT ![a.key] = {}]
        /\ Goto(p, Handling(a, TRUE))
        /\ UNCHANGED <<arrived, successes, unstored, lost, dbErrors>>

(* delete by key: whatever row is there now.  When another attempt has     *)
(* deleted it, prisma throws; the catch block calls next() all the same,   *)
(* before res.send and 'finish' were hooked.                               *)
Purge(p) ==
    LET a == att[p]
    IN  /\ a.pc = "purge"
        /\ store' = [store EXCEPT ![a.key] = {}]
        /\ Goto(p, Handling(a, store[a.key] # {}))
        /\ Forget(a.key, IF store[a.key] = {} THEN {a.n}
                         ELSE {r.resp : r \in {q \in store[a.key] : ~Expired(q)}})
        /\ UNCHANGED <<arrived, successes, lost, dbErrors>>

(* Guards and handler run: a 2xx whose effect is committed, or an error.   *)
Handle(p) ==
    LET a == att[p]
    IN  /\ a.pc = "handle"
        /\ \E ok \in BOOLEAN :
              /\ Goto(p, [pc |-> "send", key |-> a.key, n |-> a.n,
                          capture |-> a.capture, ok |-> ok])
              /\ successes' = IF ok
                    THEN [successes EXCEPT ![a.key] =
                            @ \cup {[resp |-> a.n, life |-> TTL]}]
                    ELSE successes
        /\ UNCHANGED <<store, arrived, unstored, lost, dbErrors>>

(* The response has been written to the client: 'finish' fires.            *)
Finish(p) ==
    LET a == att[p]
    IN  /\ a.pc = "send"
        /\ IF a.capture
           THEN Goto(p, [pc |-> "store", key |-> a.key, n |-> a.n, ok |-> a.ok])
           ELSE Goto(p, Idle)
        /\ UNCHANGED <<store, arrived, successes, unstored, lost, dbErrors>>

(* Variant to refute OnlySuccessesStored: no test of the status code.      *)
StorableAny(a) == store[a.key] = {}

(* Only a 2xx is stored, and key is @unique: a second create throws.       *)
Storable(a) == a.ok /\ store[a.key] = {}

Store(p) ==
    LET a == att[p]
    IN  /\ a.pc = "store"
        /\ IF Storable(a)
           THEN store' = [store EXCEPT ![a.key] = {[resp |-> a.n, life |-> TTL]}]
           ELSE UNCHANGED store
        /\ Forget(a.key, IF Storable(a) THEN {} ELSE {a.n})
        /\ Goto(p, Idle)
        /\ UNCHANGED <<arrived, successes, lost, dbErrors>>

(* The instance dies, or the client's connection closes and 'finish' does  *)
(* not fire: nothing after this point of the attempt happens.              *)
Lose(p) ==
    /\ att[p] # Idle
    /\ lost < MaxLost
    /\ lost' = lost + 1
    /\ Forget(att[p].key, {att[p].n})
    /\ Goto(p, Idle)
    /\ UNCHANGED <<store, arrived, successes, dbErrors>>

(* An error before the hooks are set runs the handler without them; an     *)
(* error while storing is logged.                                          *)
AfterDbError(a) == IF a.pc = "store" THEN Idle ELSE Handling(a, FALSE)

DbError(p) ==
    /\ att[p].pc \in {"lookup", "purge", "store"}
    /\ dbErrors < MaxDbErrors
    /\ dbErrors' = dbErrors + 1
    /\ Forget(att[p].key, {att[p].n})
    /\ Goto(p, AfterDbError(att[p]))
    /\ UNCHANGED <<store, arrived, successes, lost>>

(* Variant to refute SettledKeysReplay: gt instead of lt.                  *)
CleanupUnexpiredKeys ==
    /\ \E k \in Keys : \E r \in store[k] : ~Expired(r)
    /\ store' = [k \in Keys |-> {r \in store[k] : Expired(r)}]
    /\ UNCHANGED <<att, arrived, successes, unstored, lost, dbErrors>>

(* CleanupTask.cleanupExpiredIdempotencyKeys. *)
CleanupExpiredKeys ==
    /\ \E k \in Keys : \E r \in store[k] : Expired(r)
    /\ store' = [k \in Keys |-> {r \in store[k] : ~Expired(r)}]
    /\ UNCHANGED <<att, arrived, successes, unstored, lost, dbErrors>>

(* Variant to refute TypeOK: the time left goes below zero.                *)
AgedBelowZero(rows) == {[r EXCEPT !.life = @ - 1] : r \in rows}

Aged(rows) == {[r EXCEPT !.life = IF @ = 0 THEN 0 ELSE @ - 1] : r \in rows}

Tick ==
    /\ \E k \in Keys : \E r \in store[k] \cup successes[k] : r.life > 0
    /\ store' = [k \in Keys |-> Aged(store[k])]
    /\ successes' = [k \in Keys |-> Aged(successes[k])]
    /\ UNCHANGED <<att, arrived, unstored, lost, dbErrors>>

Serve(p) == Lookup(p) \/ Purge(p) \/ Handle(p) \/ Finish(p) \/ Store(p)

Next ==
    \/ \E p \in Slots : \/ \E k \in Keys : Arrive(p, k)
                        \/ Serve(p) \/ Lose(p) \/ DbError(p)
    \/ CleanupExpiredKeys
    \/ Tick

Spec == Init /\ [][Next]_vars

(* The database answers or rejects, and handlers return.                   *)
FairSpec == Spec /\ \A p \in Slots : WF_vars(Serve(p) \/ DbError(p))

-----------------------------------------------------------------------------
(* What a replay returns is the response of an attempt that succeeded.     *)
OnlySuccessesStored ==
    \A k \in Keys : \A r \in store[k] : \E s \in successes[k] : s.resp = r.resp

(* The row of a key is in force and no attempt is past its lookup without  *)
(* having seen it.                                                         *)
Settled(k) ==
    /\ \E r \in store[k] : ~Expired(r)
    /\ \A p \in Slots : att[p].pc \in {"purge", "handle"} => att[p].key # k

(* Once a key is settled every later attempt replays it: until the row     *)
(* expires the handler does not run again, whatever attempts arrive, as    *)
(* long as the database answers.                                           *)
SettledKeysReplay ==
    [][\A k \in Keys :
          Settled(k) /\ dbErrors' = dbErrors =>
            \/ Settled(k)'
            \/ \E r \in store'[k] : Expired(r)]_vars

(* An attempt never hangs in the middleware, even when the database fails  *)
(* or a row disappears under it.                                           *)
EveryAttemptEnds == \A p \in Slots : att[p] # Idle ~> att[p] = Idle

Recent(k) == {s \in successes[k] : s.life > 0}

(* The response of a success is on its way to the table or there for as    *)
(* long as it lives, unless its attempt was lost or met a database error   *)
(* or the row of another attempt, another attempt had purged the expired   *)
(* row it was to purge, or one purged the new row for the expired one.     *)
SuccessesAreReplayed ==
    \A k \in Keys : \A s \in Recent(k) :
        \/ s.resp \in unstored[k]
        \/ \E r \in store[k] : r.resp = s.resp /\ ~Expired(r)
        \/ \E p \in Slots : /\ att[p].pc \in {"send", "store"}
                           /\ att[p].key = k /\ att[p].n = s.resp
=============================================================================
