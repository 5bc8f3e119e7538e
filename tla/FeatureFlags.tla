---------------------------- MODULE FeatureFlags ----------------------------
(***************************************************************************)
(* FeatureFlagService: one flag, its row in feature_flags, and the cached  *)
(* answers of isEnabled.  Readers fill the cache on a miss; writers change *)
(* the row and then delete the cache entry.  Every call interleaves with   *)
(* the others at its awaits.                                               *)
(*                                                                         *)
(* Caches has one element when the instances share the Redis store of      *)
(* CacheModule, and one per instance when each caches in its own memory.   *)
(***************************************************************************)
EXTENDS Integers

CONSTANTS
    Calls,      \* slots for calls in progress, over all instances
    Caches,     \* the caches
    TTL,        \* cacheTTL, in clock ticks
    MayFail     \* whether calls in progress may fail

ASSUME TTLIsPositive == TTL \in Nat \ {0}
ASSUME FailureSwitch == MayFail \in BOOLEAN

VARIABLES
    db,         \* the flag's row: absent, or its enabled column
    cache,      \* cache[c]: the entry feature:<key>
    call        \* the calls in progress

vars == <<db, cache, call>>

Value == {"on", "off"}

Miss == [val |-> "none", life |-> 0]

Entry == {Miss} \cup [val : Value, life : 1..TTL]

Idle == [pc |-> "idle"]

Call == {Idle} \cup [pc : {"find"}, at : Caches]
               \cup [pc : {"set"}, at : Caches, val : Value]
               \cup [pc : {"toggle"}, at : Caches, val : Value]
               \cup [pc : {"del"}, at : Caches]

TypeOK ==
    /\ db \in Value \cup {"absent"}
    /\ cache \in [Caches -> Entry]
    /\ call \in [Calls -> Call]

Init ==
    /\ db = "absent"
    /\ cache = [c \in Caches |-> Miss]
    /\ call = [p \in Calls |-> Idle]

-----------------------------------------------------------------------------
Goto(p, a) == call' = [call EXCEPT ![p] = a]

(* What isEnabled answers for a row: a missing flag is disabled.           *)
Answer(row) == IF row = "on" THEN "on" ELSE "off"

Opposite(v) == IF v = "on" THEN "off" ELSE "on"

(* isEnabled, through FeatureFlagGuard or GET :key/status.  A hit returns  *)
(* and changes nothing; a miss goes on to the database.                    *)
CheckMiss(p, c) ==
    /\ call[p] = Idle
    /\ cache[c] = Miss
    /\ Goto(p, [pc |-> "find", at |-> c])
    /\ UNCHANGED <<db, cache>>

CheckFind(p) ==
    /\ call[p].pc = "find"
    /\ Goto(p, [pc |-> "set", at |-> call[p].at, val |-> Answer(db)])
    /\ UNCHANGED <<db, cache>>

Filled(v) == [val |-> v, life |-> TTL]

CheckSet(p) ==
    /\ call[p].pc = "set"
    /\ cache' = [cache EXCEPT ![call[p].at] = Filled(call[p].val)]
    /\ Goto(p, Idle)
    /\ UNCHANGED db

(* enable (upsert), disable (update) and delete; update and delete throw   *)
(* when there is no row, before the cache is touched.                      *)
Enable(p, c) ==
    /\ call[p] = Idle
    /\ db' = "on"
    /\ Goto(p, [pc |-> "del", at |-> c])
    /\ UNCHANGED cache

Disable(p, c) ==
    /\ call[p] = Idle
    /\ db # "absent"
    /\ db' = "off"
    /\ Goto(p, [pc |-> "del", at |-> c])
    /\ UNCHANGED cache

Delete(p, c) ==
    /\ call[p] = Idle
    /\ db # "absent"
    /\ db' = "absent"
    /\ Goto(p, [pc |-> "del", at |-> c])
    /\ UNCHANGED cache

(* create does not touch the cache; the key is unique. *)
Create ==
    /\ db = "absent"
    /\ db' \in Value
    /\ UNCHANGED <<cache, call>>

(* toggle reads the row, and throws when there is none. *)
ToggleFind(p, c) ==
    /\ call[p] = Idle
    /\ db # "absent"
    /\ Goto(p, [pc |-> "toggle", at |-> c, val |-> Opposite(db)])
    /\ UNCHANGED <<db, cache>>

(* The row it updates may have been changed or deleted in between. *)
ToggleUpdate(p) ==
    /\ call[p].pc = "toggle"
    /\ IF db # "absent"
       THEN db' = call[p].val /\ Goto(p, [pc |-> "del", at |-> call[p].at])
       ELSE db' = db /\ Goto(p, Idle)
    /\ UNCHANGED cache

(* Variant to refute CoherenceIsStable: the writer leaves a value behind   *)
(* instead of deleting the entry.                                          *)
InvalidateByWriting(p) ==
    /\ call[p].pc = "del"
    /\ \E v \in Value : cache' = [cache EXCEPT ![call[p].at] = Filled(v)]
    /\ Goto(p, Idle)
    /\ UNCHANGED db

Invalidate(p) ==
    /\ call[p].pc = "del"
    /\ cache' = [cache EXCEPT ![call[p].at] = Miss]
    /\ Goto(p, Idle)
    /\ UNCHANGED db

(* The instance dies or an operation rejects: the call goes no further, a  *)
(* written row keeps its old cache entry.                                  *)
Fail(p) ==
    /\ MayFail
    /\ call[p] # Idle
    /\ Goto(p, Idle)
    /\ UNCHANGED <<db, cache>>

(* Variant to refute StalenessEnds: entries are set without a ttl.         *)
Ageless(e) == e

(* Variant to refute TypeOK: the last tick leaves the entry in place.      *)
AgedToZero(e) == IF e = Miss THEN Miss ELSE [e EXCEPT !.life = @ - 1]

Aged(e) == IF e.life > 1 THEN [e EXCEPT !.life = @ - 1] ELSE Miss

Tick ==
    /\ \E c \in Caches : cache[c] # Miss
    /\ cache' = [c \in Caches |-> Aged(cache[c])]
    /\ UNCHANGED <<db, call>>

Proceed(p) == CheckFind(p) \/ CheckSet(p) \/ ToggleUpdate(p) \/ Invalidate(p)

Next ==
    \/ \E p \in Calls : \/ \E c \in Caches : \/ CheckMiss(p, c) \/ Enable(p, c)
                                            \/ Disable(p, c) \/ Delete(p, c)
                                            \/ ToggleFind(p, c)
                        \/ Proceed(p) \/ Fail(p)
    \/ Create
    \/ Tick

Spec == Init /\ [][Next]_vars

(* Calls in progress go on, and time passes. *)
FairSpec == Spec /\ WF_vars(Tick) /\ \A p \in Calls : WF_vars(Proceed(p))

-----------------------------------------------------------------------------
Coherent(c) == cache[c] = Miss \/ cache[c].val = Answer(db)

(* Nobody is about to fill the cache with an answer that is out of date.   *)
NoLateFill(c) ==
    \A p \in Calls : call[p].pc = "set" /\ call[p].at = c
                        => call[p].val = Answer(db)

Settled(c) == Coherent(c) /\ NoLateFill(c)

(* A cache that agrees with the row, with no outdated fill under way,      *)
(* stays so until the row's answer changes: neither the invalidations of   *)
(* earlier writes, in any order, nor failing calls can spoil it.           *)
CoherenceIsStable ==
    [][\A c \in Caches : Settled(c) /\ Answer(db') = Answer(db)
                            => Settled(c)']_vars

(* Once the row stops changing, every cache ends up agreeing with it, even *)
(* where an invalidation was lost, overtaken by a late fill or addressed   *)
(* to another instance's cache.                                            *)
StalenessEnds ==
    <>[][db' = db]_db => <>[](\A c \in Caches : Settled(c))
=============================================================================
