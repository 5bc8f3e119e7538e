------------------------- MODULE FeatureFlagsProofs -------------------------
(* Proofs about FeatureFlags for any number of calls and caches.           *)
EXTENDS FeatureFlags, TLAPS

LEMMA FilledEntry == ASSUME NEW v \in Value PROVE Filled(v) \in Entry
  BY TTLIsPositive DEF Filled, Entry

LEMMA AgedEntry ==
    ASSUME NEW e \in Entry
    PROVE  Aged(e) \in Entry /\ (Aged(e) = Miss \/ Aged(e).val = e.val)
  BY TTLIsPositive DEF Aged, Entry, Miss

(* The row, the entries and the calls in progress keep their types.        *)
THEOREM TypeCorrect == Spec => []TypeOK
<1>1. Init => TypeOK
  BY DEF Init, TypeOK, Entry, Call
<1>2. TypeOK /\ [Next]_vars => TypeOK'
  <2> SUFFICES ASSUME TypeOK, [Next]_vars PROVE TypeOK'
    OBVIOUS
  <2>1. ASSUME NEW p \in Calls, NEW a \in Call, Goto(p, a)
        PROVE  call' \in [Calls -> Call]
    BY <2>1 DEF TypeOK, Goto
  <2>2. Idle \in Call /\ \A v : Answer(v) \in Value /\ Opposite(v) \in Value
    BY DEF Call, Answer, Opposite, Value
  <2>3. \A p \in Calls : /\ call[p].pc \in {"find", "set", "toggle", "del"}
                               => call[p].at \in Caches
                         /\ call[p].pc \in {"set", "toggle"}
                               => call[p].val \in Value
    BY DEF TypeOK, Call, Idle
  <2>4. Miss \in Entry
    BY DEF Entry
  <2>5. ASSUME NEW c \in Caches,
               \/ \E p \in Calls : \/ CheckMiss(p, c) \/ Enable(p, c)
                                   \/ Disable(p, c) \/ Delete(p, c)
                                   \/ ToggleFind(p, c)
        PROVE  TypeOK'
    <3>1. [pc |-> "find", at |-> c] \in Call /\ [pc |-> "del", at |-> c] \in Call
      BY DEF Call
    <3>2. [pc |-> "toggle", at |-> c, val |-> Opposite(db)] \in Call
      BY <2>2 DEF Call
    <3>3. call' \in [Calls -> Call]
      BY <2>1, <2>5, <3>1, <3>2
      DEF CheckMiss, Enable, Disable, Delete, ToggleFind
    <3>4. db' \in Value \cup {"absent"} /\ cache' = cache
      BY <2>5
      DEF TypeOK, Value, CheckMiss, Enable, Disable, Delete, ToggleFind
    <3> QED BY <3>3, <3>4 DEF TypeOK
  <2>6. ASSUME NEW p \in Calls, CheckFind(p) PROVE TypeOK'
    <3>1. [pc |-> "set", at |-> call[p].at, val |-> Answer(db)] \in Call
      BY <2>2, <2>3, <2>6 DEF CheckFind, Call
    <3> QED BY <2>1, <2>6, <3>1 DEF CheckFind, TypeOK
  <2>7. ASSUME NEW p \in Calls, CheckSet(p) PROVE TypeOK'
    BY <2>1, <2>2, <2>3, <2>7, FilledEntry DEF CheckSet, TypeOK
  <2>8. ASSUME NEW p \in Calls, ToggleUpdate(p) PROVE TypeOK'
    <3>1. [pc |-> "del", at |-> call[p].at] \in Call
      BY <2>3, <2>8 DEF ToggleUpdate, Call
    <3>2. db' \in Value \cup {"absent"}
      BY <2>3, <2>8 DEF ToggleUpdate, TypeOK
    <3> QED BY <2>1, <2>2, <2>8, <3>1, <3>2 DEF ToggleUpdate, TypeOK
  <2>9. ASSUME NEW p \in Calls, Invalidate(p) PROVE TypeOK'
    BY <2>1, <2>2, <2>4, <2>9 DEF Invalidate, TypeOK
  <2>10. ASSUME NEW p \in Calls, Fail(p) PROVE TypeOK'
    BY <2>1, <2>2, <2>10 DEF Fail, TypeOK
  <2>11. CASE Create
    BY <2>11 DEF Create, TypeOK
  <2>12. CASE Tick
    BY <2>12, AgedEntry DEF Tick, TypeOK
  <2>13. CASE UNCHANGED vars
    BY <2>13 DEF vars, TypeOK
  <2> QED
    BY <2>5, <2>6, <2>7, <2>8, <2>9, <2>10, <2>11, <2>12, <2>13
    DEF Next, Proceed
<1> QED BY <1>1, <1>2, PTL DEF Spec

-----------------------------------------------------------------------------
(* Nothing but a write that changes the flag's answer can put a cache at   *)
(* odds with the row, or set an outdated fill on its way.                  *)
THEOREM StableCoherence == Spec => CoherenceIsStable
<1>1. ASSUME TypeOK, [Next]_vars, NEW c \in Caches, Settled(c),
             Answer(db') = Answer(db)
      PROVE  Settled(c)'
  <2>1. ASSUME NEW p \in Calls, NEW a, Goto(p, a),
               a.pc = "set" /\ a.at = c => a.val = Answer(db)
        PROVE  NoLateFill(c)'
    BY <1>1, <2>1 DEF Settled, NoLateFill, Goto, TypeOK
  <2>2. Idle.pc = "idle"
    BY DEF Idle
  <2>3. ASSUME cache'[c] = cache[c] \/ cache'[c] = Miss PROVE Coherent(c)'
    BY <1>1, <2>3 DEF Settled, Coherent
  <2>4. ASSUME call' = call PROVE NoLateFill(c)'
    BY <1>1, <2>4 DEF Settled, NoLateFill
  <2>5. ASSUME NEW p \in Calls, NEW d \in Caches,
               \/ CheckMiss(p, d) \/ Enable(p, d) \/ Disable(p, d)
               \/ Delete(p, d) \/ ToggleFind(p, d)
        PROVE  Settled(c)'
    <3>1. cache' = cache
      BY <2>5 DEF CheckMiss, Enable, Disable, Delete, ToggleFind
    <3>2. \/ Goto(p, [pc |-> "find", at |-> d])
          \/ Goto(p, [pc |-> "del", at |-> d])
          \/ Goto(p, [pc |-> "toggle", at |-> d, val |-> Opposite(db)])
      BY <2>5 DEF CheckMiss, Enable, Disable, Delete, ToggleFind
    <3>3. NoLateFill(c)'
      BY <2>1, <3>2
    <3> QED BY <2>3, <3>1, <3>3 DEF Settled
  <2>6. ASSUME NEW p \in Calls, CheckFind(p) PROVE Settled(c)'
    BY <2>1, <2>3, <2>6 DEF CheckFind, Settled
  <2>7. ASSUME NEW p \in Calls, CheckSet(p) PROVE Settled(c)'
    <3>1. NoLateFill(c)'
      BY <2>1, <2>2, <2>7 DEF CheckSet
    <3>2. CASE call[p].at = c
      <4>1. cache'[c] = Filled(Answer(db))
        BY <1>1, <2>7, <3>2 DEF CheckSet, Settled, NoLateFill, TypeOK
      <4> QED BY <1>1, <3>1, <4>1 DEF Settled, Coherent, Filled
    <3>3. CASE call[p].at # c
      BY <2>3, <2>7, <3>1, <3>3 DEF CheckSet, Settled, TypeOK
    <3> QED BY <3>2, <3>3
  <2>8. ASSUME NEW p \in Calls, ToggleUpdate(p) PROVE Settled(c)'
    BY <2>1, <2>2, <2>3, <2>8 DEF ToggleUpdate, Settled
  <2>9. ASSUME NEW p \in Calls, Invalidate(p) PROVE Settled(c)'
    <3>1. cache'[c] = cache[c] \/ cache'[c] = Miss
      BY <1>1, <2>9 DEF Invalidate, TypeOK
    <3> QED BY <2>1, <2>2, <2>3, <2>9, <3>1 DEF Invalidate, Settled
  <2>10. ASSUME NEW p \in Calls, Fail(p) PROVE Settled(c)'
    BY <2>1, <2>2, <2>3, <2>10 DEF Fail, Settled
  <2>11. CASE Create
    BY <2>3, <2>4, <2>11 DEF Create, Settled
  <2>12. CASE Tick
    <3>1. cache'[c] = Aged(cache[c]) /\ cache[c] \in Entry
      BY <1>1, <2>12 DEF Tick, TypeOK
    <3>2. Coherent(c)'
      BY <1>1, <3>1, AgedEntry DEF Settled, Coherent, Aged, Miss
    <3> QED BY <2>4, <2>12, <3>2 DEF Tick, Settled
  <2>13. CASE UNCHANGED vars
    BY <2>3, <2>4, <2>13 DEF vars, Settled
  <2> QED
    BY <1>1, <2>5, <2>6, <2>7, <2>8, <2>9, <2>10, <2>11, <2>12, <2>13
    DEF Next, Proceed
<1>2. TypeOK /\ [Next]_vars =>
        [\A c \in Caches : Settled(c) /\ Answer(db') = Answer(db)
                              => Settled(c)']_vars
  BY <1>1
<1> QED BY <1>2, TypeCorrect, PTL DEF Spec, CoherenceIsStable

-----------------------------------------------------------------------------
(* A call about to fill its cache with an answer that is out of date.      *)
StaleFill(p) == call[p].pc = "set" /\ call[p].val # Answer(db)

(* An entry that is at odds with the row after a step is unchanged, or was *)
(* so before and has aged, or comes from a stale fill that is now over.    *)
OldStaleness(c) ==
    \/ cache'[c] = cache[c]
    \/ ~Coherent(c) /\ cache'[c].life < cache[c].life
    \/ \E p \in Calls : StaleFill(p) /\ ~StaleFill(p)' /\ call[p].at = c

(* The measure behind StalenessEnds: while the row's answer stays, no call *)
(* becomes a stale fill, and a cache is made stale only by one of those    *)
(* there are, for one time to live.                                        *)
THEOREM StalenessRunsOut ==
    Spec =>
        [][Answer(db') = Answer(db) =>
             /\ \A p \in Calls : StaleFill(p)' => StaleFill(p)
             /\ \A c \in Caches : ~Coherent(c)' => OldStaleness(c)]_vars
<1> DEFINE NoNewFill == \A p \in Calls : StaleFill(p)' => StaleFill(p)
           RunsOut == \A c \in Caches : ~Coherent(c)' => OldStaleness(c)
<1>1. ASSUME TypeOK, [Next]_vars, Answer(db') = Answer(db)
      PROVE  NoNewFill /\ RunsOut
  <2>1. ASSUME NEW p \in Calls, NEW a, Goto(p, a),
               a.pc = "set" => a.val = Answer(db)
        PROVE  NoNewFill /\ ~StaleFill(p)'
    BY <1>1, <2>1 DEF StaleFill, Goto, TypeOK
  <2>2. Idle.pc # "set"
    BY DEF Idle
  <2>3. ASSUME cache' = cache PROVE RunsOut
    BY <2>3 DEF OldStaleness
  <2>4. ASSUME call' = call PROVE NoNewFill
    BY <1>1, <2>4 DEF StaleFill
  <2>5. ASSUME NEW p \in Calls, NEW d \in Caches,
               \/ CheckMiss(p, d) \/ Enable(p, d) \/ Disable(p, d)
               \/ Delete(p, d) \/ ToggleFind(p, d)
        PROVE  NoNewFill /\ RunsOut
    <3>1. cache' = cache
      BY <2>5 DEF CheckMiss, Enable, Disable, Delete, ToggleFind
    <3>2. \/ Goto(p, [pc |-> "find", at |-> d])
          \/ Goto(p, [pc |-> "del", at |-> d])
          \/ Goto(p, [pc |-> "toggle", at |-> d, val |-> Opposite(db)])
      BY <2>5 DEF CheckMiss, Enable, Disable, Delete, ToggleFind
    <3>3. NoNewFill
      BY <2>1, <3>2
    <3> QED BY <2>3, <3>1, <3>3
  <2>6. ASSUME NEW p \in Calls, CheckFind(p) PROVE NoNewFill /\ RunsOut
    BY <2>1, <2>3, <2>6 DEF CheckFind
  <2>7. ASSUME NEW p \in Calls, CheckSet(p) PROVE NoNewFill /\ RunsOut
    <3>1. NoNewFill /\ ~StaleFill(p)'
      BY <2>1, <2>2, <2>7 DEF CheckSet
    <3>2. ASSUME NEW c \in Caches, ~Coherent(c)' PROVE OldStaleness(c)
      <4>1. CASE call[p].at = c
        <5>1. cache'[c].val = call[p].val
          BY <1>1, <2>7, <3>2, <4>1 DEF CheckSet, Filled, TypeOK
        <5>2. StaleFill(p)
          BY <1>1, <2>7, <3>2, <5>1 DEF CheckSet, StaleFill, Coherent
        <5> QED BY <3>1, <4>1, <5>2 DEF OldStaleness
      <4>2. CASE call[p].at # c
        BY <1>1, <2>7, <4>2 DEF CheckSet, TypeOK, OldStaleness
      <4> QED BY <4>1, <4>2
    <3> QED BY <3>1, <3>2
  <2>8. ASSUME NEW p \in Calls, ToggleUpdate(p) PROVE NoNewFill /\ RunsOut
    BY <2>1, <2>2, <2>3, <2>8 DEF ToggleUpdate
  <2>9. ASSUME NEW p \in Calls, Invalidate(p) PROVE NoNewFill /\ RunsOut
    <3>1. \A c \in Caches : cache'[c] = cache[c] \/ cache'[c] = Miss
      BY <1>1, <2>9 DEF Invalidate, TypeOK
    <3>2. RunsOut
      BY <3>1 DEF OldStaleness, Coherent
    <3>3. NoNewFill
      BY <2>1, <2>2, <2>9 DEF Invalidate
    <3> QED BY <3>2, <3>3
  <2>10. ASSUME NEW p \in Calls, Fail(p) PROVE NoNewFill /\ RunsOut
    BY <2>1, <2>2, <2>3, <2>10 DEF Fail
  <2>11. CASE Create
    BY <2>3, <2>4, <2>11 DEF Create
  <2>12. CASE Tick
    <3>1. ASSUME NEW c \in Caches, ~Coherent(c)' PROVE OldStaleness(c)
      <4>1. cache'[c] = Aged(cache[c]) /\ cache'[c] # Miss
        BY <2>12, <3>1 DEF Tick, Coherent
      <4>2. /\ cache[c] \in [val : Value, life : 1..TTL]
            /\ cache'[c] = [cache[c] EXCEPT !.life = @ - 1]
        BY <1>1, <4>1 DEF Aged, TypeOK, Entry, Miss
      <4>3. cache'[c].val = cache[c].val /\ cache'[c].life = cache[c].life - 1
              /\ cache[c].life \in Nat
        BY <4>2, TTLIsPositive
      <4>4. cache[c] # Miss
        BY <4>2 DEF Miss
      <4>5. ~Coherent(c)
        BY <1>1, <3>1, <4>3, <4>4 DEF Coherent
      <4> QED BY <4>3, <4>5 DEF OldStaleness
    <3> QED BY <2>4, <2>12, <3>1 DEF Tick
  <2>13. CASE UNCHANGED vars
    BY <2>3, <2>4, <2>13 DEF vars
  <2> QED
    BY <1>1, <2>5, <2>6, <2>7, <2>8, <2>9, <2>10, <2>11, <2>12, <2>13
    DEF Next, Proceed
<1> QED BY <1>1, TypeCorrect, PTL DEF Spec
=============================================================================
