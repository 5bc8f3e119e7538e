---------------------------- MODULE TablesProofs ----------------------------
(***************************************************************************)
(* The users and audit_logs tables: who writes them, and who lists them.   *)
(*                                                                         *)
(* Accounts: for any number of accounts, requests and faults, the state is *)
(* well typed, an account is announced once, and the audit trail is        *)
(* complete but for the named reasons.                                     *)
(*                                                                         *)
(* Listing: for tables and pages of any size, and whatever column a table  *)
(* is sorted by, a walk misses and repeats rows for the named causes only. *)
(***************************************************************************)
EXTENDS Accounts, Listing, FiniteSetTheorems, TLAPS

LEMMA GotoType ==
    ASSUME TypeOK, NEW p \in Reqs, NEW r \in Request, Goto(p, r)
    PROVE  /\ req' \in [Reqs -> Request]
           /\ req'[p] = r
           /\ \A q \in Reqs \ {p} : req'[q] = req[q]
  BY DEF TypeOK, Goto

LEMMA IdleType == Idle \in Request
  BY DEF Request, Idle

(* What the interceptor will audit is known to every audited request.      *)
LEMMA AuditedShape ==
    ASSUME TypeOK, NEW p \in Reqs,
           req[p].pc \in {"update", "delete", "deleted", "audit"}
    PROVE  req[p].actor \in Ids /\ req[p].n \in 1..MaxAudited
  BY DEF TypeOK, Request, Idle

LEMMA ToAuditType ==
    ASSUME TypeOK, NEW p \in Reqs,
           req[p].pc \in {"update", "delete", "deleted"}, ToAudit(p)
    PROVE  /\ req' \in [Reqs -> Request]
           /\ req'[p].pc = "audit" /\ req'[p].n = req[p].n
           /\ \A q \in Reqs \ {p} : req'[q] = req[q]
<1> DEFINE r == [pc |-> "audit", actor |-> req[p].actor, n |-> req[p].n]
<1>1. r \in Request /\ r.pc = "audit" /\ r.n = req[p].n
  BY AuditedShape DEF Request
<1>2. Goto(p, r)
  BY DEF ToAudit
<1> HIDE DEF r
<1> QED BY <1>1, <1>2, GotoType

(* The removal that is about to announce itself keeps all it knows.        *)
LEMMA DeletedShape ==
    ASSUME TypeOK, NEW p \in Reqs, req[p].pc = "delete"
    PROVE  LET r == [req[p] EXCEPT !.pc = "deleted"]
           IN  /\ r \in Request
               /\ r.pc = "deleted" /\ r.id = req[p].id /\ r.n = req[p].n
               /\ req[p].id \in Ids
<1>1. req[p] \in [pc : {"update", "delete", "deleted"}, id : Ids, actor : Ids,
                  n : 1..MaxAudited]
  BY DEF TypeOK, Request, Idle
<1> QED BY <1>1 DEF Request

LEMMA EmitType ==
    ASSUME TypeOK, NEW kind \in Kinds, NEW i \in Ids, Emit(kind, i)
    PROVE  /\ emitted' \in [Kinds -> [Ids -> 0..2]]
           /\ \A k \in Kinds, j \in Ids :
                 emitted'[k][j] =
                    IF k = kind /\ j = i /\ emitted[k][j] < 2
                    THEN emitted[k][j] + 1 ELSE emitted[k][j]
  BY DEF TypeOK, Emit

LEMMA UpdateKeepsIds ==
    ASSUME TypeOK, NEW p \in Reqs, Update(p)
    PROVE  users' \subseteq User /\ IdsOf(users') = IdsOf(users)
<1>1. PICK admin, active \in BOOLEAN :
         users' = {IF u.id = req[p].id
                   THEN [u EXCEPT !.admin = admin, !.active = active]
                   ELSE u : u \in users}
  BY DEF Update
<1>2. ASSUME NEW u \in users
      PROVE  /\ [u EXCEPT !.admin = admin, !.active = active] \in User
             /\ [u EXCEPT !.admin = admin, !.active = active].id = u.id
  BY DEF TypeOK, User
<1>3. users' \subseteq User
  BY <1>1, <1>2 DEF TypeOK
<1>4. \A v \in users' : \E u \in users : v.id = u.id
  BY <1>1, <1>2
<1>5. \A u \in users : \E v \in users' : v.id = u.id
  <2> SUFFICES ASSUME NEW u \in users PROVE \E v \in users' : v.id = u.id
    OBVIOUS
  <2> DEFINE v == IF u.id = req[p].id
                  THEN [u EXCEPT !.admin = admin, !.active = active] ELSE u
  <2>1. v \in users'
    BY <1>1
  <2>2. v.id = u.id
    BY <1>2
  <2> HIDE DEF v
  <2> QED BY <2>1, <2>2
<1>6. \A i : i \in IdsOf(users') <=> i \in IdsOf(users)
  BY <1>4, <1>5 DEF IdsOf
<1> QED BY <1>3, <1>6

LEMMA FindTargetType ==
    ASSUME TypeOK, NEW p \in Reqs, NEW a \in Ids, NEW i \in Ids,
           NEW adminOnly, Admitted(a, adminOnly),
           NEW next \in {"update", "delete"}, FindTarget(p, a, i, next)
    PROVE  /\ TypeOK'
           /\ audited' = audited + 1
           /\ req[p] = Idle
           /\ req'[p].pc \in {next, "audit"} /\ req'[p].n = audited + 1
           /\ \A q \in Reqs \ {p} : req'[q] = req[q]
<1>1. /\ audited + 1 \in 1..MaxAudited /\ audited' \in 0..MaxAudited
      /\ audited' = audited + 1
  BY Bounds DEF Admitted, TypeOK
<1> DEFINE r == IF Exists(i)
                THEN [pc |-> next, id |-> i, actor |-> a, n |-> audited + 1]
                ELSE [pc |-> "audit", actor |-> a, n |-> audited + 1]
<1>2. r \in Request /\ r.pc \in {next, "audit"} /\ r.n = audited + 1
  BY <1>1 DEF Request
<1>3. Goto(p, r) /\ req[p] = Idle
  BY DEF FindTarget
<1> HIDE DEF r
<1>4. req' \in [Reqs -> Request] /\ req'[p] = r /\ \A q \in Reqs \ {p} : req'[q] = req[q]
  BY <1>2, <1>3, GotoType
<1> QED BY <1>1, <1>2, <1>3, <1>4 DEF FindTarget, TypeOK, history

LEMMA FindShape ==
    ASSUME TypeOK, NEW p \in Reqs, NEW a \in Ids, NEW i \in Ids,
           UpdateFind(p, a, i) \/ RemoveFind(p, a, i)
    PROVE  /\ TypeOK'
           /\ audited' = audited + 1
           /\ req[p].pc = "idle"
           /\ req'[p].pc \in {"update", "delete", "audit"}
           /\ req'[p].n = audited + 1
           /\ \A q \in Reqs \ {p} : req'[q] = req[q]
           /\ UNCHANGED <<users, used, audit, emitted, lost, unlogged>>
<1>1. CASE UpdateFind(p, a, i)
  <2>1. Admitted(a, FALSE) /\ FindTarget(p, a, i, "update")
    BY <1>1 DEF UpdateFind
  <2>2. UNCHANGED <<users, used, audit, emitted, lost, unlogged>>
    BY <2>1 DEF FindTarget, history
  <2>3. /\ TypeOK' /\ audited' = audited + 1 /\ req[p] = Idle
        /\ req'[p].pc \in {"update", "audit"} /\ req'[p].n = audited + 1
        /\ \A q \in Reqs \ {p} : req'[q] = req[q]
    BY <2>1, FindTargetType
  <2> QED BY <2>2, <2>3 DEF Idle
<1>2. CASE RemoveFind(p, a, i)
  <2>1. Admitted(a, TRUE) /\ FindTarget(p, a, i, "delete")
    BY <1>2 DEF RemoveFind
  <2>2. UNCHANGED <<users, used, audit, emitted, lost, unlogged>>
    BY <2>1 DEF FindTarget, history
  <2>3. /\ TypeOK' /\ audited' = audited + 1 /\ req[p] = Idle
        /\ req'[p].pc \in {"delete", "audit"} /\ req'[p].n = audited + 1
        /\ \A q \in Reqs \ {p} : req'[q] = req[q]
    BY <2>1, FindTargetType
  <2> QED BY <2>2, <2>3 DEF Idle
<1> QED BY <1>1, <1>2

LEMMA TypeStep ==
    ASSUME TypeOK, [Next]_vars
    PROVE  TypeOK'
<1> USE DEF history
<1>1. ASSUME NEW p \in Reqs, NEW e \in Emails, CreateFind(p, e) PROVE TypeOK'
  <2>1. [pc |-> "insert", email |-> e] \in Request
    BY DEF Request
  <2>2. req' \in [Reqs -> Request]
    BY <1>1, <2>1, GotoType DEF CreateFind
  <2> QED BY <1>1, <2>2 DEF CreateFind, TypeOK
<1>2. ASSUME NEW p \in Reqs, CreateInsert(p) PROVE TypeOK'
  <2>1. req[p].email \in Emails
    BY <1>2 DEF CreateInsert, TypeOK, Request, Idle
  <2>2. PICK i \in Ids \ used, admin \in BOOLEAN :
           /\ users' = users \cup {[id |-> i, email |-> req[p].email,
                                    admin |-> admin, active |-> TRUE]}
           /\ used' = used \cup {i}
           /\ Goto(p, [pc |-> "created", id |-> i])
    BY <1>2 DEF CreateInsert
  <2>3. [id |-> i, email |-> req[p].email, admin |-> admin,
         active |-> TRUE] \in User
    BY <2>1 DEF User
  <2>4. [pc |-> "created", id |-> i] \in Request
    BY DEF Request
  <2>5. req' \in [Reqs -> Request]
    BY <2>2, <2>4, GotoType
  <2> QED BY <1>2, <2>2, <2>3, <2>5 DEF CreateInsert, TypeOK
<1>3. ASSUME NEW p \in Reqs, CreateInsertThrows(p) PROVE TypeOK'
  BY <1>3, IdleType, GotoType DEF CreateInsertThrows, TypeOK
<1>4. ASSUME NEW p \in Reqs, NEW a \in Ids, NEW i \in Ids,
             UpdateFind(p, a, i) \/ RemoveFind(p, a, i)
      PROVE  TypeOK'
  BY <1>4, FindShape
<1>5. ASSUME NEW p \in Reqs, Update(p) PROVE TypeOK'
  <2>1. req' \in [Reqs -> Request]
    BY <1>5, ToAuditType DEF Update
  <2> QED BY <1>5, <2>1, UpdateKeepsIds DEF Update, TypeOK
<1>6. ASSUME NEW p \in Reqs, Delete(p) PROVE TypeOK'
  <2>1. req' \in [Reqs -> Request]
    BY <1>6, DeletedShape, GotoType DEF Delete
  <2>2. audit' \subseteq Log
    <3>1. ASSUME NEW l \in audit
          PROVE  [l EXCEPT !.actor = IF @ = req[p].id THEN Nobody ELSE @] \in Log
      BY <3>1 DEF TypeOK, Log
    <3> QED BY <1>6, <3>1 DEF Delete, DetachedLogs
  <2>3. users' \subseteq User
    BY <1>6 DEF Delete, TypeOK
  <2> QED BY <1>6, <2>1, <2>2, <2>3 DEF Delete, TypeOK
<1>7. ASSUME NEW p \in Reqs, DeleteThrows(p) PROVE TypeOK'
  <2>1. req' \in [Reqs -> Request]
    BY <1>7, ToAuditType DEF DeleteThrows
  <2> QED BY <1>7, <2>1 DEF DeleteThrows, TypeOK
<1>8. ASSUME NEW p \in Reqs, CreateAuditLog(p) PROVE TypeOK'
  <2>1. req' \in [Reqs -> Request]
    BY <1>8, IdleType, GotoType DEF CreateAuditLog
  <2>2. req[p].actor \in Ids /\ req[p].n \in 1..MaxAudited
    BY <1>8, AuditedShape DEF CreateAuditLog
  <2>3. audit' \subseteq Log
    <3>1. [n |-> req[p].n, actor |-> req[p].actor, old |-> FALSE] \in Log
      BY <2>2 DEF Log
    <3> QED BY <1>8, <3>1 DEF CreateAuditLog, TypeOK
  <2>4. unlogged' \in [1..MaxAudited -> {"no", "fault", "orphan", "old"}]
    BY <1>8 DEF CreateAuditLog, TypeOK
  <2> QED BY <1>8, <2>1, <2>3, <2>4 DEF CreateAuditLog, TypeOK
<1>9. ASSUME NEW p \in Reqs, Fault(p) PROVE TypeOK'
  <2>1. req' \in [Reqs -> Request]
    BY <1>9, IdleType, GotoType, ToAuditType DEF Fault
  <2>2. faults' \in 0..MaxFaults
    BY <1>9, Bounds DEF Fault, TypeOK
  <2>3. lost' \subseteq Kinds \X Ids
    <3>1. req[p].pc \in Kinds => req[p].id \in Ids
      BY DEF TypeOK, Request, Idle, Kinds
    <3> QED BY <1>9, <3>1 DEF Fault, Unannounced, TypeOK
  <2>4. unlogged' \in [1..MaxAudited -> {"no", "fault", "orphan", "old"}]
    BY <1>9 DEF Fault, Unlogged, TypeOK
  <2> QED BY <1>9, <2>1, <2>2, <2>3, <2>4 DEF Fault, TypeOK
<1>10. ASSUME NEW l \in audit, Grow(l) PROVE TypeOK'
  <2>1. [l EXCEPT !.old = TRUE] \in Log
    BY DEF TypeOK, Log
  <2> QED BY <1>10, <2>1 DEF Grow, TypeOK
<1>11. CASE CleanupOldAuditLogs
  <2>1. unlogged' \in [1..MaxAudited -> {"no", "fault", "orphan", "old"}]
    BY <1>11 DEF CleanupOldAuditLogs, TypeOK
  <2> QED BY <1>11, <2>1 DEF CleanupOldAuditLogs, TypeOK
<1>12. ASSUME NEW p \in Reqs, EmitCreated(p) PROVE TypeOK'
  <2>1. req' \in [Reqs -> Request]
    BY <1>12, IdleType, GotoType DEF EmitCreated
  <2>2. req[p].id \in Ids
    BY <1>12 DEF EmitCreated, TypeOK, Request, Idle
  <2>3. emitted' \in [Kinds -> [Ids -> 0..2]]
    BY <1>12, <2>2, EmitType DEF EmitCreated, Kinds
  <2> QED BY <1>12, <2>1, <2>3 DEF EmitCreated, TypeOK
<1>13. ASSUME NEW p \in Reqs, EmitDeleted(p) PROVE TypeOK'
  <2>1. req' \in [Reqs -> Request]
    BY <1>13, ToAuditType DEF EmitDeleted
  <2>2. req[p].id \in Ids
    BY <1>13 DEF EmitDeleted, TypeOK, Request, Idle
  <2>3. emitted' \in [Kinds -> [Ids -> 0..2]]
    BY <1>13, <2>2, EmitType DEF EmitDeleted, Kinds
  <2> QED BY <1>13, <2>1, <2>3 DEF EmitDeleted, TypeOK
<1>14. CASE UNCHANGED vars
  BY <1>14 DEF vars, TypeOK
<1> QED
  BY <1>1, <1>2, <1>3, <1>4, <1>5, <1>6, <1>7, <1>8, <1>9, <1>10, <1>11, <1>12,
     <1>13, <1>14
     DEF Next, Serve

(* Type correctness of the two tables, the requests and the events.        *)
THEOREM TypeCorrect == Spec => []TypeOK
<1>1. Init => TypeOK
  BY SeedsAreAccounts, Bounds, IdleType DEF Init, TypeOK, User, IdsOf
<1>2. TypeOK /\ [Next]_vars => TypeOK'
  BY TypeStep
<1> QED BY <1>1, <1>2, PTL DEF Spec

-----------------------------------------------------------------------------
(* AnnouncedOnce is not inductive: two requests about to emit one event    *)
(* would emit it twice.  Each event has one such request, none once it is  *)
(* lost, and only where it is due.                                         *)
Ledger ==
    /\ IdsOf(users) \subseteq used /\ IdsOf(Seeds) \subseteq used
    /\ \A kind \in Kinds, p \in Reqs : req[p].pc = kind =>
          req[p].id \in Due(kind) /\ <<kind, req[p].id>> \notin lost
    /\ \A p, q \in Reqs :
          req[p].pc \in Kinds /\ req[p].pc = req[q].pc /\ req[p].id = req[q].id
             => p = q
    /\ \A kind \in Kinds, i \in Ids : <<kind, i>> \in lost => i \in Due(kind)
    /\ AnnouncedOnce

(* Steps that are not about announcements.                                 *)
LEMMA QuietStep ==
    ASSUME Ledger, IdsOf(users') = IdsOf(users), UNCHANGED <<used, emitted, lost>>,
           \A q \in Reqs : \/ req'[q] = req[q]
                           \/ req'[q].pc \notin Kinds /\ req[q].pc \notin Kinds
    PROVE  Ledger'
<1>1. \A kind : Due(kind)' = Due(kind)
  BY DEF Due
<1>2. \A kind \in Kinds, i \in Ids : Announcing(kind, i)' <=> Announcing(kind, i)
  BY DEF Announcing
<1>3. AnnouncedOnce'
  BY <1>1, <1>2 DEF Ledger, AnnouncedOnce
<1> QED BY <1>1, <1>3 DEF Ledger

LEMMA AnnounceStep ==
    ASSUME TypeOK, Ledger, NEW p \in Reqs, NEW kind \in Kinds,
           req[p].pc = kind, Emit(kind, req[p].id),
           req'[p].pc \notin Kinds,
           \A q \in Reqs \ {p} : req'[q] = req[q],
           UNCHANGED <<users, used, lost>>
    PROVE  Ledger'
<1>1. PICK i \in Ids : i = req[p].id
  BY DEF TypeOK, Request, Idle, Kinds
<1>2. i \in Due(kind) /\ <<kind, i>> \notin lost /\ Announcing(kind, i)
  BY <1>1 DEF Ledger, Announcing
<1>3. \A k : Due(k)' = Due(k)
  BY DEF Due
<1>4. ~Announcing(kind, i)'
  BY <1>1 DEF Announcing, Ledger
<1>5. \A k \in Kinds, j \in Ids :
         k # kind \/ j # i => (Announcing(k, j)' <=> Announcing(k, j))
  BY <1>1 DEF Announcing
<1>6. emitted[kind][i] = 0 /\ Emit(kind, i)
  BY <1>1, <1>2 DEF Ledger, AnnouncedOnce
<1>7. /\ emitted'[kind][i] = 1
      /\ \A k \in Kinds, j \in Ids :
            k # kind \/ j # i => emitted'[k][j] = emitted[k][j]
  BY <1>1, <1>6, EmitType
<1>8. AnnouncedOnce'
  <2>1. ASSUME NEW k \in Kinds, NEW j \in Ids
        PROVE  emitted'[k][j] =
                 IF j \in Due(k)' /\ ~Announcing(k, j)' /\ <<k, j>> \notin lost'
                 THEN 1 ELSE 0
    <3>1. CASE k = kind /\ j = i
      BY <1>2, <1>3, <1>4, <1>7, <3>1
    <3>2. CASE k # kind \/ j # i
      BY <1>3, <1>5, <1>7, <3>2 DEF Ledger, AnnouncedOnce
    <3> QED BY <3>1, <3>2
  <2> QED BY <2>1 DEF AnnouncedOnce
<1> QED BY <1>3, <1>8 DEF Ledger

LEMMA InsertAnnounces ==
    ASSUME TypeOK, Ledger, NEW p \in Reqs, CreateInsert(p)
    PROVE  Ledger'
<1>1. PICK i \in Ids \ used, admin \in BOOLEAN :
         /\ users' = users \cup {[id |-> i, email |-> req[p].email,
                                  admin |-> admin, active |-> TRUE]}
         /\ used' = used \cup {i}
         /\ Goto(p, [pc |-> "created", id |-> i])
  BY DEF CreateInsert
<1>2. [pc |-> "created", id |-> i] \in Request
  BY DEF Request
<1>3. /\ req'[p] = [pc |-> "created", id |-> i]
      /\ \A q \in Reqs \ {p} : req'[q] = req[q]
  BY <1>1, <1>2, GotoType
<1>4. IdsOf(users') = IdsOf(users) \cup {i}
  <2> DEFINE u == [id |-> i, email |-> req[p].email, admin |-> admin, active |-> TRUE]
  <2>1. u.id = i
    OBVIOUS
  <2>2. users' = users \cup {u}
    BY <1>1
  <2> HIDE DEF u
  <2> QED BY <2>1, <2>2 DEF IdsOf
<1>5. Due("deleted")' = Due("deleted")
  BY <1>1, <1>4 DEF Due, Ledger
<1>6. i \notin Due("created") /\ i \notin Due("deleted")
  BY DEF Due
<1>7. Due("created")' = Due("created") \cup {i}
  BY <1>1 DEF Due, Ledger
<1>8. emitted' = emitted /\ lost' = lost /\ req[p].pc = "insert"
  BY DEF CreateInsert, history
<1>9. \A q \in Reqs : req[q].pc \in Kinds => req[q].id # i
  BY <1>6 DEF Ledger, Kinds
<1>10. /\ \A j \in Ids : Announcing("deleted", j)' <=> Announcing("deleted", j)
       /\ \A j \in Ids \ {i} : Announcing("created", j)' <=> Announcing("created", j)
       /\ Announcing("created", i)'
  BY <1>3, <1>8 DEF Announcing
<1>11. emitted["created"][i] = 0 /\ <<"created", i>> \notin lost
  BY <1>6 DEF Ledger, AnnouncedOnce, Kinds
<1>12. AnnouncedOnce'
  <2>1. ASSUME NEW j \in Ids
        PROVE  emitted'["deleted"][j] =
                 IF /\ j \in Due("deleted")' /\ ~Announcing("deleted", j)'
                    /\ <<"deleted", j>> \notin lost'
                 THEN 1 ELSE 0
    BY <1>5, <1>8, <1>10 DEF Ledger, AnnouncedOnce, Kinds
  <2>2. ASSUME NEW j \in Ids
        PROVE  emitted'["created"][j] =
                 IF /\ j \in Due("created")' /\ ~Announcing("created", j)'
                    /\ <<"created", j>> \notin lost'
                 THEN 1 ELSE 0
    <3>1. CASE j = i
      BY <1>8, <1>10, <1>11, <3>1
    <3>2. CASE j # i
      BY <1>7, <1>8, <1>10, <3>2 DEF Ledger, AnnouncedOnce, Kinds
    <3> QED BY <3>1, <3>2
  <2> QED BY <2>1, <2>2 DEF AnnouncedOnce, Kinds
<1>13. \A kind \in Kinds : Due(kind) \subseteq Due(kind)'
  BY <1>5, <1>7 DEF Kinds
<1>14. \A kind \in Kinds, q \in Reqs : req'[q].pc = kind =>
          req'[q].id \in Due(kind)' /\ <<kind, req'[q].id>> \notin lost'
  BY <1>3, <1>7, <1>8, <1>11, <1>13 DEF Ledger, Kinds
<1>15. \A q, r \in Reqs :
          req'[q].pc \in Kinds /\ req'[q].pc = req'[r].pc /\ req'[q].id = req'[r].id
             => q = r
  BY <1>3, <1>9 DEF Ledger
<1>16. IdsOf(users)' \subseteq used' /\ IdsOf(Seeds) \subseteq used'
  BY <1>1, <1>4 DEF Ledger
<1>17. \A kind \in Kinds, j \in Ids : <<kind, j>> \in lost' => j \in Due(kind)'
  BY <1>8, <1>13 DEF Ledger
<1> QED BY <1>12, <1>14, <1>15, <1>16, <1>17 DEF Ledger

LEMMA DeleteAnnounces ==
    ASSUME TypeOK, Ledger, NEW p \in Reqs, Delete(p)
    PROVE  Ledger'
<1>1. PICK i \in Ids : i = req[p].id
  BY DeletedShape DEF Delete
<1>2. /\ req[p].pc = "delete" /\ i \in IdsOf(users)
      /\ users' = {u \in users : u.id # i}
      /\ used' = used /\ emitted' = emitted /\ lost' = lost
  BY <1>1 DEF Delete, Exists, history
<1>3. /\ req'[p].pc = "deleted" /\ req'[p].id = i
      /\ \A q \in Reqs \ {p} : req'[q] = req[q]
  BY <1>1, <1>2, DeletedShape, GotoType DEF Delete
<1>4. IdsOf(users') = IdsOf(users) \ {i}
  BY <1>2 DEF IdsOf
<1>5. /\ Due("created")' = Due("created")
      /\ Due("deleted")' = Due("deleted") \cup {i}
      /\ i \notin Due("deleted")
  BY <1>2, <1>4 DEF Due, Ledger
<1>6. \A q \in Reqs : req[q].pc = "deleted" => req[q].id # i
  BY <1>5 DEF Ledger, Kinds
<1>7. /\ \A j \in Ids : Announcing("created", j)' <=> Announcing("created", j)
      /\ \A j \in Ids \ {i} : Announcing("deleted", j)' <=> Announcing("deleted", j)
      /\ Announcing("deleted", i)'
  BY <1>2, <1>3 DEF Announcing
<1>8. emitted["deleted"][i] = 0 /\ <<"deleted", i>> \notin lost
  BY <1>5 DEF Ledger, AnnouncedOnce, Kinds
<1>9. AnnouncedOnce'
  <2>1. ASSUME NEW j \in Ids
        PROVE  emitted'["created"][j] =
                 IF /\ j \in Due("created")' /\ ~Announcing("created", j)'
                    /\ <<"created", j>> \notin lost'
                 THEN 1 ELSE 0
    BY <1>2, <1>5, <1>7 DEF Ledger, AnnouncedOnce, Kinds
  <2>2. ASSUME NEW j \in Ids
        PROVE  emitted'["deleted"][j] =
                 IF /\ j \in Due("deleted")' /\ ~Announcing("deleted", j)'
                    /\ <<"deleted", j>> \notin lost'
                 THEN 1 ELSE 0
    <3>1. CASE j = i
      BY <1>2, <1>7, <1>8, <3>1
    <3>2. CASE j # i
      BY <1>2, <1>5, <1>7, <3>2 DEF Ledger, AnnouncedOnce, Kinds
    <3> QED BY <3>1, <3>2
  <2> QED BY <2>1, <2>2 DEF AnnouncedOnce, Kinds
<1>10. \A kind \in Kinds : Due(kind) \subseteq Due(kind)'
  BY <1>5 DEF Kinds
<1>11. \A kind \in Kinds, q \in Reqs : req'[q].pc = kind =>
          req'[q].id \in Due(kind)' /\ <<kind, req'[q].id>> \notin lost'
  BY <1>2, <1>3, <1>5, <1>8, <1>10 DEF Ledger, Kinds
<1>12. \A q, r \in Reqs :
          req'[q].pc \in Kinds /\ req'[q].pc = req'[r].pc /\ req'[q].id = req'[r].id
             => q = r
  BY <1>3, <1>6 DEF Ledger
<1>13. IdsOf(users)' \subseteq used' /\ IdsOf(Seeds) \subseteq used'
  BY <1>2, <1>4 DEF Ledger
<1>14. \A kind \in Kinds, j \in Ids : <<kind, j>> \in lost' => j \in Due(kind)'
  BY <1>2, <1>10 DEF Ledger
<1> QED BY <1>9, <1>11, <1>12, <1>13, <1>14 DEF Ledger

LEMMA FaultStep ==
    ASSUME TypeOK, Ledger, NEW p \in Reqs, Fault(p)
    PROVE  Ledger'
<1>1. /\ req'[p].pc \notin Kinds
      /\ \A q \in Reqs \ {p} : req'[q] = req[q]
  BY IdleType, GotoType, ToAuditType DEF Fault, Idle, Kinds
<1>2. UNCHANGED <<users, used, emitted>>
  BY DEF Fault
<1>3. CASE req[p].pc \notin Kinds
  <2>1. lost' = lost
    BY <1>3 DEF Fault, Unannounced
  <2>2. IdsOf(users') = IdsOf(users)
    BY <1>2
  <2> QED BY <1>1, <1>2, <1>3, <2>1, <2>2, QuietStep
<1>4. CASE req[p].pc \in Kinds
  <2>1. PICK kind \in Kinds, i \in Ids : kind = req[p].pc /\ i = req[p].id
    BY <1>4 DEF TypeOK, Request, Idle, Kinds
  <2>2. lost' = lost \cup {<<kind, i>>}
    BY <1>4, <2>1 DEF Fault, Unannounced
  <2>3. \A k : Due(k)' = Due(k)
    BY <1>2 DEF Due
  <2>4. i \in Due(kind) /\ Announcing(kind, i)
    BY <2>1 DEF Ledger, Announcing
  <2>5. \A k \in Kinds, j \in Ids :
           k # kind \/ j # i => (Announcing(k, j)' <=> Announcing(k, j))
    BY <1>1, <2>1 DEF Announcing
  <2>6. AnnouncedOnce'
    <3>1. ASSUME NEW k \in Kinds, NEW j \in Ids
          PROVE  emitted'[k][j] =
                   IF j \in Due(k)' /\ ~Announcing(k, j)' /\ <<k, j>> \notin lost'
                   THEN 1 ELSE 0
      <4>1. CASE k = kind /\ j = i
        BY <1>2, <2>2, <2>4, <4>1 DEF Ledger, AnnouncedOnce
      <4>2. CASE k # kind \/ j # i
        BY <1>2, <2>2, <2>3, <2>5, <4>2 DEF Ledger, AnnouncedOnce
      <4> QED BY <4>1, <4>2
    <3> QED BY <3>1 DEF AnnouncedOnce
  <2>7. \A q \in Reqs : req'[q].pc \in Kinds =>
           /\ q # p /\ req'[q] = req[q]
           /\ ~(req[q].pc = kind /\ req[q].id = i)
    BY <1>1, <2>1 DEF Ledger
  <2>8. \A k \in Kinds, q \in Reqs : req'[q].pc = k =>
           req'[q].id \in Due(k)' /\ <<k, req'[q].id>> \notin lost'
    BY <2>2, <2>3, <2>7 DEF Ledger
  <2>9. \A q, r \in Reqs :
           req'[q].pc \in Kinds /\ req'[q].pc = req'[r].pc /\ req'[q].id = req'[r].id
              => q = r
    BY <2>7 DEF Ledger
  <2>10. \A k \in Kinds, j \in Ids : <<k, j>> \in lost' => j \in Due(k)'
    BY <2>2, <2>3, <2>4 DEF Ledger
  <2>11. IdsOf(users)' \subseteq used' /\ IdsOf(Seeds) \subseteq used'
    BY <1>2 DEF Ledger
  <2> QED BY <2>6, <2>8, <2>9, <2>10, <2>11 DEF Ledger
<1> QED BY <1>3, <1>4

LEMMA LedgerStep ==
    ASSUME TypeOK, Ledger, [Next]_vars
    PROVE  Ledger'
<1> USE DEF history
<1>1. ASSUME NEW p \in Reqs, CreateInsert(p) PROVE Ledger'
  BY <1>1, InsertAnnounces
<1>2. ASSUME NEW p \in Reqs, Delete(p) PROVE Ledger'
  BY <1>2, DeleteAnnounces
<1>3. ASSUME NEW p \in Reqs, Fault(p) PROVE Ledger'
  BY <1>3, FaultStep
<1>4. ASSUME NEW p \in Reqs, EmitCreated(p) PROVE Ledger'
  <2>1. req'[p].pc \notin Kinds /\ \A q \in Reqs \ {p} : req'[q] = req[q]
    BY <1>4, IdleType, GotoType DEF EmitCreated, Idle, Kinds
  <2>2. "created" \in Kinds
    BY DEF Kinds
  <2> QED BY <1>4, <2>1, <2>2, AnnounceStep DEF EmitCreated
<1>5. ASSUME NEW p \in Reqs, EmitDeleted(p) PROVE Ledger'
  <2>1. req'[p].pc \notin Kinds /\ \A q \in Reqs \ {p} : req'[q] = req[q]
    BY <1>5, ToAuditType DEF EmitDeleted, Kinds
  <2>2. "deleted" \in Kinds
    BY DEF Kinds
  <2> QED BY <1>5, <2>1, <2>2, AnnounceStep DEF EmitDeleted
<1>6. ASSUME NEW p \in Reqs, NEW e \in Emails, CreateFind(p, e) PROVE Ledger'
  <2>1. [pc |-> "insert", email |-> e] \in Request
    BY DEF Request
  <2>2. req'[p].pc \notin Kinds /\ \A q \in Reqs \ {p} : req'[q] = req[q]
    BY <1>6, <2>1, GotoType DEF CreateFind, Kinds
  <2> QED BY <1>6, <2>2, QuietStep DEF CreateFind, Idle, Kinds
<1>7. ASSUME NEW p \in Reqs, CreateInsertThrows(p) \/ CreateAuditLog(p)
      PROVE  Ledger'
  <2>1. req'[p].pc \notin Kinds /\ \A q \in Reqs \ {p} : req'[q] = req[q]
    BY <1>7, IdleType, GotoType DEF CreateInsertThrows, CreateAuditLog, Idle, Kinds
  <2>2. /\ req[p].pc \notin Kinds
        /\ UNCHANGED <<users, used, emitted, lost>>
    BY <1>7 DEF CreateInsertThrows, CreateAuditLog, Kinds
  <2> QED BY <2>1, <2>2, QuietStep
<1>8. ASSUME NEW p \in Reqs, NEW a \in Ids, NEW i \in Ids,
             UpdateFind(p, a, i) \/ RemoveFind(p, a, i)
      PROVE  Ledger'
  <2>1. /\ req'[p].pc \notin Kinds /\ req[p].pc \notin Kinds
        /\ \A q \in Reqs \ {p} : req'[q] = req[q]
    BY <1>8, FindShape DEF Kinds
  <2>2. IdsOf(users') = IdsOf(users) /\ UNCHANGED <<used, emitted, lost>>
    BY <1>8, FindShape
  <2> QED BY <2>1, <2>2, QuietStep
<1>9. ASSUME NEW p \in Reqs, Update(p) \/ DeleteThrows(p) PROVE Ledger'
  <2>1. /\ req'[p].pc \notin Kinds /\ req[p].pc \notin Kinds
        /\ \A q \in Reqs \ {p} : req'[q] = req[q]
    BY <1>9, ToAuditType DEF Update, DeleteThrows, Kinds
  <2>2. IdsOf(users') = IdsOf(users) /\ UNCHANGED <<used, emitted, lost>>
    BY <1>9, UpdateKeepsIds DEF Update, DeleteThrows
  <2> QED BY <2>1, <2>2, QuietStep
<1>10. CASE UNCHANGED <<users, used, req, emitted, lost>>
  <2>1. IdsOf(users') = IdsOf(users)
    BY <1>10
  <2> QED BY <1>10, <2>1, QuietStep
<1> QED
  BY <1>1, <1>2, <1>3, <1>4, <1>5, <1>6, <1>7, <1>8, <1>9, <1>10
     DEF Next, Serve, vars, Grow, CleanupOldAuditLogs

(* One event for each account inserted and for each account gone, however  *)
(* many requests insert and remove at once; faults alone prevent it.       *)
THEOREM SingleAnnouncement == Spec => []AnnouncedOnce
<1>1. Init => Ledger
  BY SeedsAreAccounts DEF Init, Ledger, AnnouncedOnce, Due, Announcing, Idle, Kinds
<1>2. TypeOK /\ Ledger /\ [Next]_vars => Ledger'
  BY LedgerStep
<1>3. Ledger => AnnouncedOnce
  BY DEF Ledger
<1> QED BY <1>1, <1>2, <1>3, TypeCorrect, PTL DEF Spec

-----------------------------------------------------------------------------
Auditing == {"update", "delete", "deleted", "audit"}

(* What keeps a request accounted for through a step.                      *)
Accounted(n) ==
    \/ unlogged[n] # "no"
    \/ \E l \in audit : l.n = n
    \/ \E p \in Reqs : req[p].pc \in Auditing /\ req[p].n = n

(* Steps that leave the table, and move one request on without dropping    *)
(* its number.                                                             *)
LEMMA StillServed ==
    ASSUME NEW n, Accounted(n), UNCHANGED <<audit, unlogged>>, NEW p \in Reqs,
           \A q \in Reqs \ {p} : req'[q] = req[q],
           req[p].pc \in Auditing => req'[p].pc \in Auditing /\ req'[p].n = req[p].n
    PROVE  Accounted(n)'
  BY DEF Accounted

LEMMA AccountedStep ==
    ASSUME TypeOK, [Next]_vars, NEW n \in 1..MaxAudited, Accounted(n)
    PROVE  Accounted(n)'
<1> USE DEF history
<1>1. ASSUME NEW p \in Reqs, NEW e \in Emails, CreateFind(p, e)
      PROVE  Accounted(n)'
  <2>1. [pc |-> "insert", email |-> e] \in Request
    BY DEF Request
  <2>2. \A q \in Reqs \ {p} : req'[q] = req[q]
    BY <1>1, <2>1, GotoType DEF CreateFind
  <2> QED BY <1>1, <2>2, StillServed DEF CreateFind, Idle, Auditing
<1>2. ASSUME NEW p \in Reqs,
             CreateInsert(p) \/ CreateInsertThrows(p) \/ EmitCreated(p)
      PROVE  Accounted(n)'
  <2>1. \A i \in Ids : [pc |-> "created", id |-> i] \in Request
    BY DEF Request
  <2>2. \A q \in Reqs \ {p} : req'[q] = req[q]
    BY <1>2, <2>1, IdleType, GotoType
       DEF CreateInsert, CreateInsertThrows, EmitCreated
  <2>3. req[p].pc \notin Auditing /\ UNCHANGED <<audit, unlogged>>
    BY <1>2 DEF CreateInsert, CreateInsertThrows, EmitCreated, Auditing
  <2> QED BY <2>2, <2>3, StillServed
<1>3. ASSUME NEW p \in Reqs, NEW a \in Ids, NEW i \in Ids,
             UpdateFind(p, a, i) \/ RemoveFind(p, a, i)
      PROVE  Accounted(n)'
  <2>1. /\ req[p].pc \notin Auditing /\ UNCHANGED <<audit, unlogged>>
        /\ \A q \in Reqs \ {p} : req'[q] = req[q]
    BY <1>3, FindShape DEF Auditing
  <2> QED BY <2>1, StillServed
<1>4. ASSUME NEW p \in Reqs, Update(p) \/ DeleteThrows(p) \/ EmitDeleted(p)
      PROVE  Accounted(n)'
  <2>1. /\ req'[p].pc \in Auditing /\ req'[p].n = req[p].n
        /\ \A q \in Reqs \ {p} : req'[q] = req[q]
    BY <1>4, ToAuditType DEF Update, DeleteThrows, EmitDeleted, Auditing
  <2>2. UNCHANGED <<audit, unlogged>>
    BY <1>4 DEF Update, DeleteThrows, EmitDeleted
  <2> QED BY <2>1, <2>2, StillServed
<1>5. ASSUME NEW p \in Reqs, Delete(p) PROVE Accounted(n)'
  <2>1. /\ req'[p].pc \in Auditing /\ req'[p].n = req[p].n
        /\ \A q \in Reqs \ {p} : req'[q] = req[q]
    BY <1>5, DeletedShape, GotoType DEF Delete, Auditing
  <2>2. ASSUME NEW l \in audit PROVE \E m \in audit' : m.n = l.n
    <3> DEFINE m == [l EXCEPT !.actor = IF @ = req[p].id THEN Nobody ELSE @]
    <3>1. m \in audit'
      BY <1>5 DEF Delete, DetachedLogs
    <3>2. m.n = l.n
      BY DEF TypeOK, Log
    <3> HIDE DEF m
    <3> QED BY <3>1, <3>2
  <2>3. unlogged' = unlogged
    BY <1>5 DEF Delete
  <2> QED BY <2>1, <2>2, <2>3 DEF Accounted
<1>6. ASSUME NEW p \in Reqs, CreateAuditLog(p) PROVE Accounted(n)'
  <2>1. /\ \A q \in Reqs \ {p} : req'[q] = req[q]
        /\ audit \subseteq audit' /\ req[p].n \in 1..MaxAudited
    BY <1>6, IdleType, GotoType, AuditedShape DEF CreateAuditLog
  <2>2. \/ unlogged'[req[p].n] # "no"
        \/ \E l \in audit' : l.n = req[p].n
    BY <1>6, <2>1 DEF CreateAuditLog, TypeOK
  <2>3. unlogged[n] # "no" => unlogged'[n] # "no"
    BY <1>6 DEF CreateAuditLog, TypeOK
  <2> QED BY <2>1, <2>2, <2>3 DEF Accounted
<1>7. ASSUME NEW p \in Reqs, Fault(p) PROVE Accounted(n)'
  <2>1. CASE Goto(p, Idle) /\ Unlogged(p)
    <3>1. \A q \in Reqs \ {p} : req'[q] = req[q]
      BY <2>1, IdleType, GotoType
    <3>2. req[p].pc \in Auditing =>
             req[p].n \in 1..MaxAudited /\ unlogged'[req[p].n] # "no"
      BY <2>1, AuditedShape DEF Unlogged, Auditing, TypeOK
    <3>3. unlogged[n] # "no" => unlogged'[n] # "no"
      BY <2>1 DEF Unlogged, TypeOK
    <3>4. audit' = audit
      BY <1>7 DEF Fault
    <3> QED BY <3>1, <3>2, <3>3, <3>4 DEF Accounted
  <2>2. ASSUME req[p].pc \in {"update", "delete", "deleted"}, ToAudit(p),
               UNCHANGED unlogged
        PROVE  Accounted(n)'
    <3>1. /\ req'[p].pc \in Auditing /\ req'[p].n = req[p].n
          /\ \A q \in Reqs \ {p} : req'[q] = req[q]
      BY <2>2, ToAuditType DEF Auditing
    <3>2. audit' = audit
      BY <1>7 DEF Fault
    <3> QED BY <2>2, <3>1, <3>2, StillServed
  <2> QED BY <1>7, <2>1, <2>2 DEF Fault
<1>8. ASSUME NEW o \in audit, Grow(o) PROVE Accounted(n)'
  <2>1. ASSUME NEW l \in audit PROVE \E m \in audit' : m.n = l.n
    <3>1. CASE l = o
      <4>1. [o EXCEPT !.old = TRUE] \in audit'
        BY <1>8 DEF Grow
      <4>2. [o EXCEPT !.old = TRUE].n = l.n
        BY <3>1 DEF TypeOK, Log
      <4> QED BY <4>1, <4>2
    <3>2. CASE l # o
      BY <1>8, <3>2 DEF Grow
    <3> QED BY <3>1, <3>2
  <2> QED BY <1>8, <2>1 DEF Grow, Accounted
<1>9. CASE CleanupOldAuditLogs
  <2>1. /\ audit' = audit \ {l \in audit : l.old} /\ req' = req
        /\ unlogged' = [k \in 1..MaxAudited |->
                          IF \E l \in {l \in audit : l.old} : l.n = k
                          THEN "old" ELSE unlogged[k]]
    BY <1>9 DEF CleanupOldAuditLogs
  <2> QED BY <2>1 DEF Accounted
<1>10. CASE UNCHANGED vars
  BY <1>10 DEF vars, Accounted
<1> QED
  BY <1>1, <1>2, <1>3, <1>4, <1>5, <1>6, <1>7, <1>8, <1>9, <1>10
     DEF Next, Serve

(* A request is in the account from the moment the guards have let it in.  *)
LEMMA AdmissionStep ==
    ASSUME TypeOK, [Next]_vars
    PROVE  \/ audited' = audited
           \/ audited' = audited + 1 /\ \A n : n = audited' => Accounted(n)'
<1>1. ASSUME NEW p \in Reqs, NEW a \in Ids, NEW i \in Ids,
             UpdateFind(p, a, i) \/ RemoveFind(p, a, i)
      PROVE  audited' = audited + 1 /\ \A n : n = audited' => Accounted(n)'
  BY <1>1, FindShape DEF Accounted, Auditing
<1> QED
  BY <1>1
     DEF Next, Serve, vars, CreateFind, CreateInsert, CreateInsertThrows,
         EmitCreated, Update, Delete, DeleteThrows, EmitDeleted, CreateAuditLog,
         Fault, Grow, CleanupOldAuditLogs

(* The audit trail is complete but for the named reasons, for any number   *)
(* of requests, and whatever accounts are removed while it is written.     *)
THEOREM TrailIsComplete == Spec => []MutationsAreLogged
<1>1. Init => MutationsAreLogged
  BY DEF Init, MutationsAreLogged
<1>2. ASSUME TypeOK, MutationsAreLogged, [Next]_vars PROVE MutationsAreLogged'
  <2>1. \A n \in 1..audited : Accounted(n)
    BY <1>2 DEF MutationsAreLogged, Accounted, Auditing
  <2>2. 1..audited \subseteq 1..MaxAudited
    BY <1>2, Bounds DEF TypeOK
  <2>3. \A n \in 1..audited : Accounted(n)'
    BY <1>2, <2>1, <2>2, AccountedStep
  <2>4. audited \in Nat
    BY <1>2, Bounds DEF TypeOK
  <2>5. CASE audited' = audited
    BY <2>3, <2>5 DEF MutationsAreLogged, Accounted, Auditing
  <2>6. CASE audited' = audited + 1 /\ \A n : n = audited' => Accounted(n)'
    <3>1. \A n \in 1..audited' : n \in 1..audited \/ n = audited'
      BY <2>4, <2>6
    <3> QED BY <2>3, <2>6, <3>1 DEF MutationsAreLogged, Accounted, Auditing
  <2> QED BY <1>2, <2>5, <2>6, AdmissionStep
<1> QED BY <1>1, <1>2, TypeCorrect, PTL DEF Spec

(* The foreign key of audit_logs: a log names nobody, or an account that   *)
(* is there, although it is written when its request has been answered and *)
(* the actor may have been removed meanwhile.                              *)
LogsNameAccounts == \A l \in audit : l.actor = Nobody \/ Exists(l.actor)

(* No interleaving of removals with the interceptor leaves a log behind    *)
(* that names an account that is gone.                                     *)
THEOREM LogIntegrity == Spec => []LogsNameAccounts
<1>1. Init => LogsNameAccounts
  BY DEF Init, LogsNameAccounts
<1>2. ASSUME TypeOK, LogsNameAccounts, [Next]_vars PROVE LogsNameAccounts'
  <2> USE <1>2 DEF LogsNameAccounts, Exists, history
  <2>1. ASSUME NEW p \in Reqs, CreateInsert(p) PROVE LogsNameAccounts'
    BY <2>1 DEF CreateInsert, IdsOf
  <2>2. ASSUME NEW p \in Reqs, Update(p) PROVE LogsNameAccounts'
    BY <2>2, UpdateKeepsIds DEF Update
  <2>3. ASSUME NEW p \in Reqs, Delete(p) PROVE LogsNameAccounts'
    <3>1. ASSUME NEW m \in audit' PROVE m.actor = Nobody \/ Exists(m.actor)'
      <4>1. PICK l \in audit :
              m = [l EXCEPT !.actor = IF @ = req[p].id THEN Nobody ELSE @]
        BY <2>3, <3>1 DEF Delete, DetachedLogs
      <4>2. m.actor = IF l.actor = req[p].id THEN Nobody ELSE l.actor
        BY <4>1 DEF TypeOK, Log
      <4>3. l.actor # req[p].id /\ Exists(l.actor) => Exists(l.actor)'
        BY <2>3 DEF Delete, IdsOf
      <4> QED BY <4>2, <4>3
    <3> QED BY <3>1
  <2>4. ASSUME NEW p \in Reqs, CreateAuditLog(p) PROVE LogsNameAccounts'
    BY <2>4 DEF CreateAuditLog
  <2>5. ASSUME NEW o \in audit, Grow(o) PROVE LogsNameAccounts'
    <3>1. [o EXCEPT !.old = TRUE].actor = o.actor
      BY DEF TypeOK, Log
    <3> QED BY <2>5, <3>1 DEF Grow
  <2>6. CASE CleanupOldAuditLogs
    BY <2>6 DEF CleanupOldAuditLogs
  <2>7. CASE UNCHANGED <<users, audit>>
    BY <2>7
  <2>8. ASSUME NEW p \in Reqs, NEW a \in Ids, NEW i \in Ids,
               UpdateFind(p, a, i) \/ RemoveFind(p, a, i)
        PROVE  UNCHANGED <<users, audit>>
    BY <2>8 DEF UpdateFind, RemoveFind, FindTarget
  <2> QED
    BY <2>1, <2>2, <2>3, <2>4, <2>5, <2>6, <2>7, <2>8
       DEF Next, Serve, vars, CreateFind, CreateInsertThrows, EmitCreated,
           DeleteThrows, EmitDeleted, Fault
<1> QED BY <1>1, <1>2, TypeCorrect, PTL DEF Spec

-----------------------------------------------------------------------------
(* Listing: the arithmetic of pages.                                       *)
LEMMA SkipNext ==
    ASSUME NEW page \in Nat \ {0}, NEW limit \in Nat
    PROVE  /\ Skip(page, limit) \in Nat
           /\ Skip(page + 1, limit) = Skip(page, limit) + limit
           /\ Skip(page + 1, limit) = page * limit
           /\ Skip(1, limit) = 0
  BY DEF Skip

LEMMA CeilingBounds ==
    ASSUME NEW total \in Nat, NEW limit \in Nat \ {0}
    PROVE  LET q == TotalPages(total, limit)
           IN  /\ q \in Nat
               /\ q * limit >= total
               /\ (q - 1) * limit < total \/ q = 0
  BY DEF TotalPages

(* The client goes on exactly when there are rows after those it asked for.*)
LEMMA HasNextMeansMore ==
    ASSUME NEW total \in Nat, NEW limit \in Int, NEW page \in Nat \ {0}
    PROVE  /\ limit > 0 /\ HasNext(page, total, limit) => page < total
           /\ limit < 0 => ~HasNext(page, total, limit)
           /\ limit >= 0 /\ ~HasNext(page, total, limit)
                 => total <= Skip(page + 1, limit)
<1>1. CASE limit = 0
  BY <1>1, SkipNext DEF HasNext
<1>2. CASE limit > 0
  <2> DEFINE q == TotalPages(total, limit)
  <2>1. /\ q \in Nat /\ q * limit >= total
        /\ (q - 1) * limit < total \/ q = 0
    BY <1>2, CeilingBounds
  <2>2. HasNext(page, total, limit) <=> page < q
    BY <1>2 DEF HasNext
  <2> HIDE DEF q
  <2>3. ASSUME page < q PROVE page < total
    <3>1. page <= q - 1 /\ (q - 1) * limit < total
      BY <2>1, <2>3
    <3>2. page <= page * limit /\ page * limit <= (q - 1) * limit
      BY <1>2, <2>1, <3>1
    <3>3. page * limit \in Nat /\ (q - 1) * limit \in Nat
      BY <2>1, <2>3
    <3> QED BY <3>1, <3>2, <3>3
  <2>4. ASSUME ~(page < q) PROVE total <= page * limit
    <3>1. q * limit <= page * limit
      BY <1>2, <2>1, <2>4
    <3>2. page * limit \in Nat /\ q * limit \in Nat
      BY <1>2, <2>1
    <3> QED BY <2>1, <3>1, <3>2
  <2>5. Skip(page + 1, limit) = page * limit
    BY DEF Skip
  <2> QED BY <1>2, <2>2, <2>3, <2>4, <2>5
<1>3. CASE limit < 0
  BY <1>3 DEF HasNext
<1> QED BY <1>1, <1>2, <1>3

-----------------------------------------------------------------------------
(* The rows that come before y, or may.                                    *)
Preceding(y) == {x \in Present \ {y} : MayPrecede(x, y)}

LEMMA PresentIsFinite ==
    /\ IsFiniteSet(Present) /\ Present \subseteq Rows
    /\ Cardinality(Present) \in 0..Cardinality(Rows)
    /\ Cardinality(Rows) \in Nat \ {0}
<1>1. Present \in SUBSET Rows
  BY DEF Present
<1>2. /\ IsFiniteSet(Present)
      /\ Cardinality(Present) <= Cardinality(Rows)
  BY <1>1, SomeRows, FS_Subset
<1>3. Cardinality(Present) \in Nat /\ Cardinality(Rows) \in Nat
  BY <1>2, SomeRows, FS_CardinalityType
<1>4. Cardinality(Rows) # 0
  BY SomeRows, FS_EmptySet
<1> QED BY <1>1, <1>2, <1>3, <1>4

LEMMA SmallerSet ==
    ASSUME NEW S \in SUBSET Present, NEW T \in SUBSET S
    PROVE  /\ IsFiniteSet(T) /\ Cardinality(T) \in Nat
           /\ Cardinality(T) <= Cardinality(S) /\ Cardinality(S) \in Nat
<1>1. IsFiniteSet(S)
  BY PresentIsFinite, FS_Subset
<1>2. IsFiniteSet(T) /\ Cardinality(T) <= Cardinality(S)
  BY <1>1, FS_Subset
<1> QED BY <1>1, <1>2, FS_CardinalityType

(* A set of rows without y, and y, are one row more.                       *)
LEMMA OneMore ==
    ASSUME NEW S \in SUBSET Present, NEW y \in S, NEW T \in SUBSET (S \ {y})
    PROVE  /\ IsFiniteSet(T) /\ Cardinality(T) \in Nat
           /\ Cardinality(S) \in Nat
           /\ Cardinality(T) + 1 <= Cardinality(S)
<1>1. IsFiniteSet(T) /\ Cardinality(T) \in Nat
  BY SmallerSet
<1>2. T \cup {y} \in SUBSET S /\ y \notin T
  OBVIOUS
<1>3. Cardinality(T \cup {y}) = Cardinality(T) + 1
  BY <1>1, <1>2, FS_AddElement
<1>4. /\ Cardinality(T \cup {y}) <= Cardinality(S)
      /\ Cardinality(S) \in Nat
  BY <1>2, SmallerSet
<1> QED BY <1>1, <1>3, <1>4

LEMMA PrecedingBounds ==
    ASSUME NEW y \in Present
    PROVE  /\ IsFiniteSet(Preceding(y)) /\ Cardinality(Preceding(y)) \in Nat
           /\ Cardinality(Preceding(y)) + 1 <= Cardinality(Present)
<1>1. Preceding(y) \in SUBSET (Present \ {y})
  BY DEF Preceding
<1> QED BY <1>1, OneMore

(* Where a page lies in the order.  A row of the page has as many rows     *)
(* before it as were skipped, at least, and fewer than with the page; a    *)
(* row that was not skipped and is not on the page is after all of them.   *)
(* Rows that share their createdAt are anywhere among their equals.        *)
LEMMA PageContents ==
    ASSUME ListingTypeOK, NEW skip \in Nat, NEW take \in Nat,
           NEW P \in Pages(skip, take), NEW y \in Present \ Tied
    PROVE  /\ y \in P => /\ Cardinality(Preceding(y)) >= skip
                        /\ Cardinality(Preceding(y)) < skip + take
           /\ y \notin P /\ Cardinality(Preceding(y)) >= skip
                 => Cardinality(Preceding(y)) >= skip + take
<1> DEFINE n == Cardinality(Present)
<1>1. PICK B \in SUBSET (Present \ P) :
         /\ Cardinality(B) = Skipped(skip, take, n)
         /\ Cardinality(P) = Least(Size(take), n - Cardinality(B))
         /\ \A x \in B, z \in P \cup (Present \ (B \cup P)) : MayPrecede(x, z)
         /\ \A x \in P, z \in Present \ (B \cup P) : MayPrecede(x, z)
  BY DEF Pages
<1>2. P \in SUBSET Present /\ B \in SUBSET Present /\ y \in Present
  BY <1>1 DEF Pages
<1>3. /\ IsFiniteSet(B) /\ Cardinality(B) \in Nat
      /\ IsFiniteSet(P) /\ Cardinality(P) \in Nat
      /\ n \in Nat
  BY <1>2, SmallerSet
<1>4. Cardinality(B \cup P) = Cardinality(B) + Cardinality(P)
  <2>1. B \cap P = {}
    BY <1>1
  <2>2. Cardinality(B \cup P) =
           Cardinality(B) + Cardinality(P) - Cardinality(B \cap P)
    BY <1>3, FS_Union
  <2>3. Cardinality(B \cap P) = 0
    BY <2>1, FS_EmptySet
  <2> QED BY <1>3, <2>2, <2>3
<1>5. ASSUME NEW x \in Present \ {y}, MayPrecede(y, x)
      PROVE  x \notin Preceding(y)
  <2>1. key[x] # key[y]
    BY DEF Tied
  <2>2. key[x] \in Nat /\ key[y] \in Nat
    BY <1>2, PresentIsFinite, TimesAreNumbers DEF ListingTypeOK
  <2> QED BY <1>5, <2>1, <2>2 DEF Preceding, MayPrecede, KeyPrecedes
<1>6. Preceding(y) \in SUBSET Present /\ Cardinality(Preceding(y)) \in Nat
  BY PrecedingBounds DEF Preceding
<1>7. CASE y \in P
  <2>1. B \in SUBSET Preceding(y)
    BY <1>1, <1>2, <1>7 DEF Preceding
  <2>2. Preceding(y) \in SUBSET ((B \cup P) \ {y})
    BY <1>1, <1>2, <1>5, <1>7 DEF Preceding
  <2>3. Cardinality(B) <= Cardinality(Preceding(y))
    BY <1>6, <2>1, SmallerSet
  <2>4. Cardinality(Preceding(y)) + 1 <= Cardinality(B \cup P)
    BY <1>2, <1>7, <2>2, OneMore
  <2>5. Cardinality(P) # 0
    BY <1>3, <1>7, FS_EmptySet
  <2> QED
    BY <1>1, <1>3, <1>4, <1>6, <1>7, <2>3, <2>4, <2>5 DEF Least, Skipped, Size
<1>8. CASE y \in B
  <2>1. Preceding(y) \in SUBSET (B \ {y})
    BY <1>1, <1>2, <1>5, <1>8 DEF Preceding
  <2>2. Cardinality(Preceding(y)) + 1 <= Cardinality(B)
    BY <1>2, <1>8, <2>1, OneMore
  <2> QED BY <1>1, <1>3, <1>6, <1>8, <2>2 DEF Least, Skipped, Size
<1>9. CASE y \notin B /\ y \notin P
  <2>1. B \cup P \in SUBSET Preceding(y)
    BY <1>1, <1>2, <1>9 DEF Preceding
  <2>2. B \cup P \in SUBSET (Present \ {y})
    BY <1>2, <1>9
  <2>3. Cardinality(B \cup P) + 1 <= n
    BY <1>2, <2>2, OneMore
  <2>4. Cardinality(B \cup P) <= Cardinality(Preceding(y))
    BY <1>6, <2>1, SmallerSet
  <2> QED BY <1>1, <1>3, <1>4, <1>6, <1>9, <2>3, <2>4 DEF Least, Skipped, Size
<1> QED BY <1>7, <1>8, <1>9

-----------------------------------------------------------------------------
(* What is noted about the walk: nothing before it begins, always rows of  *)
(* the list, and no page before the last one if the limit is negative.     *)
NotesAreOfRows ==
    /\ want \cup seen \subseteq Present
    /\ walk.pc = "idle" => want = {} /\ seen = {} /\ walk.page = 1
    /\ walk.limit < 0 /\ Walking => seen = {}

LEMMA WalkShape ==
    ASSUME ListingTypeOK
    PROVE  /\ walk \in Walk
           /\ walk.limit \in Int
           /\ walk.page \in Nat \ {0} /\ walk.page <= MaxPage
           /\ walk.total \in 0..Cardinality(Rows)
<1>1. MaxPage \in Nat
  BY PresentIsFinite DEF MaxPage
<1>2. walk \in Walk
  BY DEF ListingTypeOK
<1>3. walk.limit \in Limits /\ walk.page \in 1..MaxPage
        /\ walk.total \in 0..Cardinality(Rows)
  BY <1>2 DEF Walk
<1>4. walk.limit \in Int
  BY <1>3, LimitsAreNumbers
<1>5. walk.page \in Nat \ {0} /\ walk.page <= MaxPage
  BY <1>1, <1>3
<1> QED BY <1>2, <1>3, <1>4, <1>5

LEMMA WalkSkip ==
    ASSUME ListingTypeOK, walk.limit >= 0
    PROVE  /\ Skip(walk.page, walk.limit) \in Nat /\ walk.total \in Nat
           /\ walk.page = 1 => Skip(walk.page, walk.limit) = 0
           /\ walk.page \in Nat \ {0}
<1>1. /\ walk.limit \in Nat /\ walk.total \in Nat
      /\ walk.page \in Nat \ {0}
  BY WalkShape, PresentIsFinite
<1> QED BY <1>1 DEF Skip

(* Where a page leads to: the next one, or the end.                        *)
LEMMA WalkOn ==
    ASSUME ListingTypeOK, NEW P, FindMany(P)
    PROVE  /\ walk.pc = "find"
           /\ walk'.order = walk.order /\ walk'.limit = walk.limit
           /\ walk.limit < 0 => ~HasNext(walk.page, walk.total, walk.limit)
           /\ HasNext(walk.page, walk.total, walk.limit) =>
                 /\ walk'.pc = "count"
                 /\ walk'.page = Least(walk.page + 1, MaxPage)
                 /\ walk'.total = 0
                 /\ walk.limit > 0 => walk.page + 1 < MaxPage
           /\ ~HasNext(walk.page, walk.total, walk.limit) =>
                 /\ walk'.pc = "done"
                 /\ walk'.page = walk.page /\ walk'.total = walk.total
<1>1. walk \in Walk
  BY WalkShape
<1>2. /\ walk.limit > 0 /\ HasNext(walk.page, walk.total, walk.limit)
            => walk.page < walk.total
      /\ walk.limit < 0 => ~HasNext(walk.page, walk.total, walk.limit)
  <2>1. /\ walk.limit \in Int /\ walk.total \in Nat
        /\ walk.page \in Nat \ {0}
    BY WalkShape, PresentIsFinite
  <2> QED BY <2>1, HasNextMeansMore
<1>3. walk.limit > 0 /\ HasNext(walk.page, walk.total, walk.limit)
         => walk.page + 1 < MaxPage
  BY <1>2, WalkShape, PresentIsFinite DEF MaxPage
<1> QED BY <1>1, <1>2, <1>3 DEF FindMany, Walk

LEMMA ListingTypeStep ==
    ASSUME ListingTypeOK, NotesAreOfRows, [ListingNext]_listingVars
    PROVE  ListingTypeOK'
<1> USE TimesAreNumbers DEF ListingTypeOK, table, listed, moved
<1>1. /\ Cardinality(Present) \in 0..Cardinality(Rows)
      /\ Cardinality(Rows) \in Nat \ {0} /\ Present \subseteq Rows
  BY PresentIsFinite
<1>2. ASSUME NEW order \in {"asc", "desc"}, Begin(order)
      PROVE  ListingTypeOK'
  <2>1. walk' \in Walk /\ walk'.limit = walk.limit /\ walk'.page = walk.page
    BY <1>1, <1>2 DEF Begin, Walk
  <2>2. slid = {}
    BY <1>2 DEF Begin, NotesAreOfRows
  <2> QED BY <1>1, <1>2, <2>1, <2>2 DEF Begin
<1>3. CASE Count
  <2>1. walk' \in Walk /\ walk'.limit = walk.limit /\ walk'.page = walk.page
    BY <1>1, <1>3 DEF Count, Walk
  <2> QED BY <1>3, <2>1 DEF Count
<1>4. ASSUME NEW P \in SUBSET Rows, FindMany(P) PROVE ListingTypeOK'
  <2>1. /\ walk'.limit = walk.limit
        /\ walk'.limit > 0 => walk'.page <= Cardinality(Rows)
    BY <1>1, <1>4, WalkOn, WalkShape DEF MaxPage, Least
  <2>2. Least(walk.page + 1, MaxPage) \in 1..MaxPage
    BY <1>1, WalkShape DEF MaxPage, Least
  <2>3. walk' \in Walk
    <3>1. 0 \in 0..Cardinality(Rows)
      BY <1>1
    <3>2. walk \in Walk
      BY WalkShape
    <3>3. \A page \in 1..MaxPage, total \in 0..Cardinality(Rows) :
             [walk EXCEPT !.pc = "count", !.total = total, !.page = page] \in Walk
      BY <3>2 DEF Walk
    <3>4. [walk EXCEPT !.pc = "done"] \in Walk
      BY <3>2 DEF Walk
    <3> QED BY <1>4, <2>2, <3>1, <3>3, <3>4 DEF FindMany
  <2>4. Tied \subseteq Rows
    BY <1>1 DEF Tied
  <2> QED BY <1>4, <2>1, <2>3, <2>4 DEF FindMany
<1>5. CASE QueryRejects
  <2>1. walk' \in Walk /\ walk'.limit = walk.limit /\ walk'.page = walk.page
    BY <1>5 DEF QueryRejects, Walk
  <2> QED BY <1>5, <2>1 DEF QueryRejects
<1>6. ASSUME NEW x \in Rows, NEW k \in 0..MaxTime, Insert(x, k) \/ Move(x, k)
      PROVE  ListingTypeOK'
  <2>1. /\ \A S \in SUBSET Rows : MovedDown(S) \in SUBSET Rows
        /\ \A S : MovedUp(S) \in SUBSET want /\ PastTheEnd(S) \in SUBSET want
    BY DEF MovedUp, MovedDown, PastTheEnd
  <2>2. CASE Insert(x, k)
    <3>1. {y \in Present : KeyPrecedes(k, y)} \in SUBSET Rows
      BY <1>1
    <3> QED BY <2>1, <2>2, <3>1 DEF Insert
  <2>3. CASE Move(x, k)
    <3> DEFINE up == {y \in Present : MayPrecede(x, y) /\ ~KeyPrecedes(k, y)}
               down == {y \in Present : KeyPrecedes(k, y) /\ ~MayPrecede(x, y)}
    <3>1. down \cup {x} \in SUBSET Rows
      BY <1>1
    <3>2. /\ UNCHANGED <<now, row, walk, want, seen, repeated>>
          /\ key' = [key EXCEPT ![x] = k]
          /\ pushed' = pushed \cup MovedDown(down \cup {x})
          /\ slid' = slid \cup MovedUp(up \cup {x})
                          \cup PastTheEnd(down \cup {x})
      BY <2>3 DEF Move
    <3> HIDE DEF up, down
    <3> QED BY <2>1, <3>1, <3>2
  <2> QED BY <1>6, <2>2, <2>3
<1>7. ASSUME NEW S \in SUBSET Rows, DeleteRows(S) PROVE ListingTypeOK'
  <2>1. \A T : MovedUp(T) \in SUBSET want
    BY DEF MovedUp
  <2> QED BY <1>7, <2>1 DEF DeleteRows
<1>8. ASSUME NEW x \in Rows, Remove(x) PROVE ListingTypeOK'
  BY <1>7, <1>8 DEF Remove
<1>9. CASE DeleteOldAuditLogs
  BY <1>1, <1>7, <1>9 DEF DeleteOldAuditLogs
<1>10. CASE Tick
  BY <1>10 DEF Tick
<1>11. CASE UNCHANGED listingVars
  BY <1>11 DEF listingVars
<1> QED
  BY <1>2, <1>3, <1>4, <1>5, <1>6, <1>8, <1>9, <1>10, <1>11
     DEF ListingNext, Answer

LEMMA NotesStep ==
    ASSUME ListingTypeOK, NotesAreOfRows, [ListingNext]_listingVars
    PROVE  NotesAreOfRows'
<1> USE DEF ListingTypeOK, NotesAreOfRows, Walking, table, listed
<1>1. ASSUME NEW order \in {"asc", "desc"}, Begin(order)
      PROVE  NotesAreOfRows'
  BY <1>1, WalkShape DEF Begin, Present, Walk
<1>2. CASE Count \/ QueryRejects
  BY <1>2, WalkShape DEF Count, QueryRejects, Walk, Present
<1>3. ASSUME NEW P \in SUBSET Rows, FindMany(P) PROVE NotesAreOfRows'
  <2>1. P \subseteq Present
    BY <1>3 DEF FindMany, Pages
  <2>2. /\ walk'.pc # "idle" /\ walk'.limit = walk.limit
        /\ walk.limit < 0 => walk'.pc = "done"
    BY <1>3, WalkOn
  <2> QED BY <1>3, <2>1, <2>2 DEF FindMany, Present
<1>4. ASSUME NEW x \in Rows, NEW k \in 0..MaxTime, Insert(x, k) \/ Move(x, k)
      PROVE  NotesAreOfRows'
  <2>1. UNCHANGED <<walk, want, seen>> /\ Present \subseteq Present'
    BY <1>4 DEF Insert, Move, Present
  <2> QED BY <2>1
<1>5. ASSUME NEW S \in SUBSET Rows, DeleteRows(S) PROVE NotesAreOfRows'
  <2>1. /\ walk' = walk /\ want' = want \ S /\ seen' = seen \ S
        /\ Present' = Present \ S
    BY <1>5 DEF DeleteRows, Present
  <2> QED BY <2>1
<1>6. ASSUME NEW x \in Rows, Remove(x) PROVE NotesAreOfRows'
  BY <1>5, <1>6 DEF Remove
<1>7. CASE DeleteOldAuditLogs
  BY <1>5, <1>7 DEF DeleteOldAuditLogs, Present
<1>8. CASE Tick \/ UNCHANGED listingVars
  BY <1>8 DEF Tick, listingVars, Present
<1> QED
  BY <1>1, <1>2, <1>3, <1>4, <1>6, <1>7, <1>8 DEF ListingNext, Answer

LEMMA ListingInvariant ==
    ListingSpec => [](ListingTypeOK /\ NotesAreOfRows)
<1>1. ListingInit => ListingTypeOK
  BY PresentIsFinite, TimesAreNumbers
     DEF ListingInit, ListingTypeOK, Walk, MaxPage
<1>2. ListingInit => NotesAreOfRows
  BY DEF ListingInit, NotesAreOfRows, Walk, Walking
<1>3. ListingTypeOK /\ NotesAreOfRows /\ [ListingNext]_listingVars
         => ListingTypeOK' /\ NotesAreOfRows'
  BY ListingTypeStep, NotesStep
<1> QED BY <1>1, <1>2, <1>3, PTL DEF ListingSpec

(* Type correctness: among other things, a client with a limit above 0 is  *)
(* never led to a page beyond the number of rows there can be.             *)
THEOREM ListingTypeCorrect == ListingSpec => []ListingTypeOK
  BY ListingInvariant, PTL

-----------------------------------------------------------------------------
(* The rows the client may still be owed, and how many come before them.   *)
Missed == {y \in want \ (seen \cup slid) : walk.limit >= 0}

(* A row the client is owed lies after everything that it has asked for    *)
(* so far: at least so many rows precede it as the next query skips.  When *)
(* the page is the last by the count, the count did not include as many:   *)
(* there is no such row.                                                   *)
MissedAreAhead ==
    \A y \in Missed :
        /\ walk.pc # "done"
        /\ Walking => Cardinality(Preceding(y)) >= Skip(walk.page, walk.limit)
        /\ walk.pc = "find" /\ ~HasNext(walk.page, walk.total, walk.limit)
              => Cardinality(Preceding(y)) < walk.total

(* A row the client was sent lies before the next page, unless others may  *)
(* have pushed it down.                                                    *)
SentAreBehind ==
    \A y \in (seen \cap Present) \ pushed :
        Walking => Cardinality(Preceding(y)) < Skip(walk.page, walk.limit)

ListingInv == MissedAreAhead /\ SentAreBehind /\ RepeatsHaveACause

(* A step that leaves the table and the order alone leaves the places.     *)
LEMMA SamePlaces ==
    ASSUME UNCHANGED <<row, key>>, walk'.order = walk.order
    PROVE  Present' = Present /\ \A y \in Present : Preceding(y)' = Preceding(y)
  BY DEF Present, Preceding, MayPrecede, KeyPrecedes

(* Fewer rows do not make a place go up.                                   *)
LEMMA FewerPrecede ==
    ASSUME NEW y \in Present, NEW T \in SUBSET Preceding(y)
    PROVE  /\ Cardinality(T) \in Nat
           /\ Cardinality(T) <= Cardinality(Preceding(y))
<1>1. Preceding(y) \in SUBSET Present
  BY DEF Preceding
<1> QED BY <1>1, SmallerSet

LEMMA BeginStep ==
    ASSUME ListingTypeOK, NotesAreOfRows, ListingInv,
           NEW order \in {"asc", "desc"}, Begin(order)
    PROVE  ListingInv'
<1>1. /\ UNCHANGED <<row, key, seen, repeated, slid, pushed>>
      /\ want' = Present /\ seen = {} /\ Present' = Present
      /\ walk'.pc = "count" /\ walk'.page = 1 /\ walk'.limit = walk.limit
  BY WalkShape DEF Begin, table, moved, NotesAreOfRows, Present, Walk
<1>2. walk.limit >= 0 => Skip(1, walk.limit) = 0
  <2>1. walk.limit \in Int
    BY WalkShape
  <2> QED BY <2>1 DEF Skip
<1>3. \A y \in Present : Cardinality(Preceding(y)') \in Nat
  <2> SUFFICES ASSUME NEW y \in Present PROVE Cardinality(Preceding(y)') \in Nat
    OBVIOUS
  <2>1. Preceding(y)' \in SUBSET Present
    BY <1>1 DEF Preceding
  <2> QED BY <2>1, SmallerSet
<1>4. MissedAreAhead'
  BY <1>1, <1>2, <1>3 DEF MissedAreAhead, Missed
<1>5. SentAreBehind' /\ RepeatsHaveACause'
  BY <1>1 DEF SentAreBehind, RepeatsHaveACause, ListingInv
<1> QED BY <1>4, <1>5 DEF ListingInv

LEMMA CountStep ==
    ASSUME ListingTypeOK, NotesAreOfRows, ListingInv, Count
    PROVE  ListingInv'
<1>1. /\ UNCHANGED <<row, key, want, seen, repeated, slid, pushed>>
      /\ walk.pc = "count" /\ walk'.pc = "find" /\ walk'.order = walk.order
      /\ walk'.page = walk.page /\ walk'.limit = walk.limit
      /\ walk'.total = Cardinality(Present)
  BY DEF Count, table, listed, moved, ListingTypeOK, Walk
<1>2. Present' = Present /\ \A y \in Present : Preceding(y)' = Preceding(y)
  BY <1>1, SamePlaces
<1>3. \A y \in Present : Cardinality(Preceding(y)) < Cardinality(Present)
  BY PrecedingBounds, PresentIsFinite
<1>4. MissedAreAhead'
  BY <1>1, <1>2, <1>3
     DEF MissedAreAhead, Missed, Walking, ListingInv, NotesAreOfRows
<1>5. SentAreBehind' /\ RepeatsHaveACause'
  BY <1>1, <1>2 DEF SentAreBehind, Walking, RepeatsHaveACause, ListingInv
<1> QED BY <1>4, <1>5 DEF ListingInv

LEMMA FindManyStep ==
    ASSUME ListingTypeOK, NotesAreOfRows, ListingInv, walk.limit >= 0,
           NEW P \in SUBSET Rows, FindMany(P)
    PROVE  ListingInv'
<1> DEFINE skip == Skip(walk.page, walk.limit)
           end == Skip(walk.page + 1, walk.limit)
           more == HasNext(walk.page, walk.total, walk.limit)
<1>1. /\ walk.limit \in Nat /\ walk.total \in Nat
      /\ walk.page \in Nat \ {0} /\ MaxPage \in Nat \ {0}
  BY WalkShape, PresentIsFinite DEF MaxPage
<1>2. skip \in Nat /\ end \in Nat /\ end = skip + walk.limit
  BY <1>1 DEF Skip
<1>3. ~more => walk.total <= end
  <2>1. walk.limit \in Int /\ walk.limit >= 0
    BY <1>1
  <2> QED BY <1>1, <2>1, HasNextMeansMore
<1>4. /\ UNCHANGED <<row, key, want>>
      /\ seen' = seen \cup P /\ repeated' = repeated \cup (seen \cap P)
      /\ slid' = slid \cup (Tied \cap want) /\ pushed' = pushed \cup Tied
      /\ P \in Pages(skip, walk.limit) /\ walk.pc = "find"
  BY DEF FindMany, table
<1>5. /\ walk'.order = walk.order /\ walk'.limit = walk.limit
      /\ more => walk'.pc = "count"
      /\ ~more => walk'.pc = "done"
  BY WalkOn
<1>6. more => Skip(walk'.page, walk'.limit) = end
  <2>1. CASE walk.limit = 0
    BY <1>1, <1>5, <2>1, WalkOn DEF Skip, Least
  <2>2. CASE walk.limit > 0
    <3>1. more => walk'.page = walk.page + 1
      BY <1>1, <2>2, WalkOn DEF Least
    <3> QED BY <1>5, <3>1
  <2> QED BY <1>1, <2>1, <2>2
<1>7. Present' = Present /\ \A y \in Present : Preceding(y)' = Preceding(y)
  BY <1>4, <1>5, SamePlaces
<1>8. \A y \in Present : Cardinality(Preceding(y)) \in Nat
  BY PrecedingBounds
<1>9. \A y \in Present \ Tied :
         /\ y \in P => /\ Cardinality(Preceding(y)) >= skip
                      /\ Cardinality(Preceding(y)) < end
         /\ y \notin P /\ Cardinality(Preceding(y)) >= skip
               => Cardinality(Preceding(y)) >= end
  BY <1>1, <1>2, <1>4, PageContents
<1> HIDE DEF skip, end, more
<1>10. ASSUME NEW y \in Missed'
       PROVE  /\ more /\ y \in Present
              /\ Cardinality(Preceding(y)) >= end
  <2>1. y \in Missed /\ y \in Present \ Tied /\ y \notin P
    BY <1>4, <1>5, <1>7 DEF Missed, NotesAreOfRows
  <2>2. /\ Cardinality(Preceding(y)) >= skip
        /\ ~more => Cardinality(Preceding(y)) < walk.total
    BY <1>4, <2>1 DEF ListingInv, MissedAreAhead, Walking, skip, more
  <2>3. Cardinality(Preceding(y)) >= end
    BY <1>9, <2>1, <2>2
  <2> QED BY <1>1, <1>2, <1>3, <1>8, <2>1, <2>2, <2>3
<1>11. MissedAreAhead'
  BY <1>5, <1>6, <1>7, <1>10 DEF MissedAreAhead
<1>12. \A y \in (seen \cap Present) \ pushed : Cardinality(Preceding(y)) < skip
  BY <1>4 DEF ListingInv, SentAreBehind, Walking, skip
<1>13. SentAreBehind'
  <2> SUFFICES ASSUME NEW y \in ((seen \cap Present) \ pushed)', more
               PROVE  Cardinality(Preceding(y)') < Skip(walk'.page, walk'.limit)
    BY <1>5 DEF SentAreBehind, Walking
  <2>1. y \in Present \ Tied /\ (y \in P \/ y \in (seen \cap Present) \ pushed)
    BY <1>4, <1>7
  <2>2. Cardinality(Preceding(y)) < end
    BY <1>1, <1>2, <1>8, <1>9, <1>12, <2>1
  <2> QED BY <1>6, <1>7, <2>1, <2>2
<1>14. seen \cap P \subseteq pushed \cup Tied
  <2> SUFFICES ASSUME NEW y \in seen \cap P, y \notin pushed, y \notin Tied
               PROVE  FALSE
    OBVIOUS
  <2>1. y \in Present
    BY <1>4 DEF Pages
  <2>2. /\ Cardinality(Preceding(y)) < skip
        /\ Cardinality(Preceding(y)) >= skip
    BY <1>9, <1>12, <2>1
  <2> QED BY <1>2, <1>8, <2>1, <2>2
<1>15. RepeatsHaveACause'
  BY <1>4, <1>14 DEF ListingInv, RepeatsHaveACause
<1> QED BY <1>11, <1>13, <1>15 DEF ListingInv

(* A new row comes before some, and after the others.                      *)
LEMMA InsertStep ==
    ASSUME ListingTypeOK, NotesAreOfRows, ListingInv, walk.limit >= 0,
           NEW x \in Rows, NEW t \in 0..MaxTime, Insert(x, t)
    PROVE  ListingInv'
<1> DEFINE first(y) == KeyPrecedes(t, y)
<1>1. /\ UNCHANGED <<walk, want, seen, repeated>> /\ row[x] = "absent"
      /\ slid \subseteq slid' /\ pushed \subseteq pushed'
  BY DEF Insert, listed
<1>2. /\ \A y \in Present : y # x /\ key'[y] = key[y]
      /\ key'[x] = t /\ Present' = Present \cup {x}
  BY DEF Insert, Present, ListingTypeOK
<1>3. /\ Walking /\ walk.page > 1 =>
            \A y \in Present : first(y) => y \in pushed'
      /\ walk.pc = "find" /\ ~HasNext(walk.page, walk.total, walk.limit) =>
            \A y \in Present \cap want : first(y) => y \in slid'
  BY DEF Insert, MovedDown, PastTheEnd
<1>4. t \in Nat /\ \A y \in Present : key[y] \in Nat
  BY PresentIsFinite, TimesAreNumbers DEF ListingTypeOK
<1>5. ASSUME NEW y \in Present
      PROVE  /\ Cardinality(Preceding(y)) \in Nat
             /\ Cardinality(Preceding(y)') \in Nat
             /\ Cardinality(Preceding(y)) <= Cardinality(Preceding(y)')
             /\ ~first(y) => Preceding(y)' = Preceding(y)
  <2>1. MayPrecede(x, y)' <=> first(y)
    BY <1>1, <1>2, <1>4 DEF MayPrecede, KeyPrecedes
  <2>2. \A z \in Present : MayPrecede(z, y)' <=> MayPrecede(z, y)
    BY <1>1, <1>2 DEF MayPrecede, KeyPrecedes
  <2>3. Preceding(y)' = IF first(y) THEN Preceding(y) \cup {x} ELSE Preceding(y)
    <3> HIDE DEF first
    <3> QED BY <1>2, <2>1, <2>2 DEF Preceding
  <2>4. IsFiniteSet(Preceding(y)) /\ Cardinality(Preceding(y)) \in Nat
    BY PrecedingBounds
  <2>5. x \notin Preceding(y)
    BY <1>2 DEF Preceding
  <2>6. Cardinality(Preceding(y) \cup {x}) = Cardinality(Preceding(y)) + 1
    BY <2>4, <2>5, FS_AddElement
  <2> HIDE DEF first
  <2> QED BY <2>3, <2>4, <2>6
<1>6. x \notin want /\ x \notin seen
  BY <1>1 DEF NotesAreOfRows, Present
<1>7. /\ Skip(walk.page, walk.limit) \in Nat /\ walk.total \in Nat
      /\ walk.page = 1 => Skip(walk.page, walk.limit) = 0
      /\ walk.page \in Nat \ {0}
  BY WalkSkip
<1>8. Missed' \subseteq Missed /\ Missed \subseteq Present
  BY <1>1, <1>2, <1>6 DEF Missed, NotesAreOfRows
<1>9. MissedAreAhead'
  <2> SUFFICES ASSUME NEW y \in Missed'
               PROVE  /\ walk.pc # "done"
                      /\ Walking => Cardinality(Preceding(y)')
                                       >= Skip(walk.page, walk.limit)
                      /\ walk.pc = "find"
                         /\ ~HasNext(walk.page, walk.total, walk.limit)
                            => Cardinality(Preceding(y)') < walk.total
    BY <1>1 DEF MissedAreAhead, Walking
  <2>1. y \in Missed /\ y \in Present /\ y \in want /\ y \notin slid'
    BY <1>8 DEF Missed
  <2>2. walk.pc # "done"
    BY <2>1 DEF ListingInv, MissedAreAhead
  <2>3. Walking => Cardinality(Preceding(y)) >= Skip(walk.page, walk.limit)
    BY <2>1 DEF ListingInv, MissedAreAhead
  <2>4. ASSUME walk.pc = "find", ~HasNext(walk.page, walk.total, walk.limit)
        PROVE  Cardinality(Preceding(y)') < walk.total
    <3>1. ~first(y)
      BY <1>3, <2>1, <2>4
    <3>2. Cardinality(Preceding(y)) < walk.total
      BY <2>1, <2>4 DEF ListingInv, MissedAreAhead
    <3> QED BY <1>5, <2>1, <3>1, <3>2
  <2> QED BY <1>5, <1>7, <2>1, <2>2, <2>3, <2>4
<1>10. SentAreBehind'
  <2> SUFFICES ASSUME NEW y \in ((seen \cap Present) \ pushed)', Walking
               PROVE  Cardinality(Preceding(y)') < Skip(walk.page, walk.limit)
    BY <1>1 DEF SentAreBehind, Walking
  <2>1. y \in (seen \cap Present) \ pushed
    BY <1>1, <1>2, <1>6
  <2>2. Cardinality(Preceding(y)) < Skip(walk.page, walk.limit)
    BY <2>1 DEF ListingInv, SentAreBehind
  <2>3. walk.page > 1
    BY <1>5, <1>7, <2>1, <2>2
  <2>4. ~first(y)
    BY <1>3, <2>1, <2>3
  <2> QED BY <1>5, <2>1, <2>2, <2>4
<1>11. RepeatsHaveACause'
  BY <1>1 DEF ListingInv, RepeatsHaveACause
<1> QED BY <1>9, <1>10, <1>11 DEF ListingInv

(* Rows that go leave the others where they were, or nearer to the top.    *)
LEMMA DeleteStep ==
    ASSUME ListingTypeOK, NotesAreOfRows, ListingInv, walk.limit >= 0,
           NEW S \in SUBSET Rows, DeleteRows(S)
    PROVE  ListingInv'
<1>1. /\ walk' = walk /\ want' = want \ S /\ seen' = seen \ S
      /\ repeated' = repeated \ S /\ pushed' = pushed \ S
      /\ slid \ S \subseteq slid'
      /\ Walking /\ walk.page > 1 =>
            \A y \in (want \cap Present) \ S :
                (\E x \in S : MayPrecede(x, y)) => y \in slid'
  BY DEF DeleteRows, MovedUp
<1>2. /\ Present' = Present \ S
      /\ \A y \in Present \ S : key'[y] = key[y]
  BY DEF DeleteRows, Present
<1>3. ASSUME NEW y \in Present \ S
      PROVE  /\ Cardinality(Preceding(y)) \in Nat
             /\ Cardinality(Preceding(y)') \in Nat
             /\ Cardinality(Preceding(y)') <= Cardinality(Preceding(y))
             /\ (\A x \in S : ~MayPrecede(x, y))
                   => Preceding(y)' = Preceding(y)
  <2>1. \A z \in Present \ S : MayPrecede(z, y)' <=> MayPrecede(z, y)
    BY <1>1, <1>2 DEF MayPrecede, KeyPrecedes
  <2>2. Preceding(y)' = Preceding(y) \ S
    BY <1>2, <2>1 DEF Preceding
  <2>3. Preceding(y)' \in SUBSET Preceding(y)
    BY <2>2
  <2>4. /\ Cardinality(Preceding(y)') \in Nat
        /\ Cardinality(Preceding(y)') <= Cardinality(Preceding(y))
    BY <2>3, FewerPrecede
  <2>5. (\A x \in S : ~MayPrecede(x, y)) => Preceding(y)' = Preceding(y)
    BY <2>2 DEF Preceding
  <2> QED BY <2>4, <2>5, PrecedingBounds
<1>4. /\ Skip(walk.page, walk.limit) \in Nat /\ walk.total \in Nat
      /\ walk.page = 1 => Skip(walk.page, walk.limit) = 0
      /\ walk.page \in Nat \ {0}
  BY WalkSkip
<1>5. MissedAreAhead'
  <2> SUFFICES ASSUME NEW y \in Missed'
               PROVE  /\ walk.pc # "done"
                      /\ Walking => Cardinality(Preceding(y)')
                                       >= Skip(walk.page, walk.limit)
                      /\ walk.pc = "find"
                         /\ ~HasNext(walk.page, walk.total, walk.limit)
                            => Cardinality(Preceding(y)') < walk.total
    BY <1>1 DEF MissedAreAhead, Walking
  <2>1. y \in Missed /\ y \in Present \ S /\ y \in want /\ y \notin slid'
    BY <1>1, <1>2 DEF Missed, NotesAreOfRows
  <2>2. /\ walk.pc # "done"
        /\ Walking => Cardinality(Preceding(y)) >= Skip(walk.page, walk.limit)
        /\ walk.pc = "find" /\ ~HasNext(walk.page, walk.total, walk.limit)
              => Cardinality(Preceding(y)) < walk.total
    BY <2>1 DEF ListingInv, MissedAreAhead
  <2>3. ASSUME Walking
        PROVE  Cardinality(Preceding(y)') >= Skip(walk.page, walk.limit)
    <3>1. CASE walk.page = 1
      BY <1>3, <1>4, <2>1, <3>1
    <3>2. CASE walk.page > 1
      <4>1. \A x \in S : ~MayPrecede(x, y)
        BY <1>1, <2>1, <2>3, <3>2
      <4>2. Preceding(y)' = Preceding(y)
        BY <1>3, <2>1, <4>1
      <4> QED BY <2>2, <2>3, <4>2
    <3> QED BY <1>4, <3>1, <3>2
  <2> QED BY <1>3, <1>4, <2>1, <2>2, <2>3
<1>6. SentAreBehind'
  <2> SUFFICES ASSUME NEW y \in ((seen \cap Present) \ pushed)', Walking
               PROVE  Cardinality(Preceding(y)') < Skip(walk.page, walk.limit)
    BY <1>1 DEF SentAreBehind, Walking
  <2>1. y \in (seen \cap Present) \ pushed /\ y \in Present \ S
    BY <1>1, <1>2
  <2>2. Cardinality(Preceding(y)) < Skip(walk.page, walk.limit)
    BY <2>1 DEF ListingInv, SentAreBehind
  <2> QED BY <1>3, <1>4, <2>1, <2>2
<1>7. RepeatsHaveACause'
  BY <1>1 DEF ListingInv, RepeatsHaveACause
<1> QED BY <1>5, <1>6, <1>7 DEF ListingInv

(* A row that is updated moves, and so do those that it passes, one place. *)
LEMMA MoveStep ==
    ASSUME ListingTypeOK, NotesAreOfRows, ListingInv, walk.limit >= 0,
           NEW x \in Rows, NEW k \in 0..MaxTime, Move(x, k)
    PROVE  ListingInv'
<1> DEFINE old(y) == MayPrecede(x, y)
           new(y) == KeyPrecedes(k, y)
<1>1. /\ UNCHANGED <<walk, want, seen, repeated>>
      /\ slid \subseteq slid' /\ pushed \subseteq pushed'
      /\ Present' = Present /\ x \in Present
      /\ key'[x] = k /\ \A y \in Present \ {x} : key'[y] = key[y]
  BY DEF Move, Present, listed, ListingTypeOK
<1>2. /\ Walking /\ walk.page > 1 =>
            /\ \A y \in Present : y = x \/ (new(y) /\ ~old(y)) => y \in pushed'
            /\ \A y \in Present \cap want :
                  y = x \/ (old(y) /\ ~new(y)) => y \in slid'
      /\ walk.pc = "find" /\ ~HasNext(walk.page, walk.total, walk.limit) =>
            \A y \in Present \cap want :
                y = x \/ (new(y) /\ ~old(y)) => y \in slid'
  BY DEF Move, MovedUp, MovedDown, PastTheEnd
<1>3. ASSUME NEW y \in Present
      PROVE  /\ Cardinality(Preceding(y)) \in Nat
             /\ Cardinality(Preceding(y)') \in Nat
  <2>1. Preceding(y)' \in SUBSET Present
    BY <1>1 DEF Preceding
  <2> QED BY <2>1, SmallerSet, PrecedingBounds
<1>4. ASSUME NEW y \in Present \ {x}
      PROVE  /\ ~(new(y) /\ ~old(y)) =>
                   Cardinality(Preceding(y)') <= Cardinality(Preceding(y))
             /\ ~(old(y) /\ ~new(y)) =>
                   Cardinality(Preceding(y)') >= Cardinality(Preceding(y))
  <2>1. MayPrecede(x, y)' <=> new(y)
    BY <1>1 DEF MayPrecede, KeyPrecedes
  <2>2. \A z \in Present \ {x} : MayPrecede(z, y)' <=> MayPrecede(z, y)
    BY <1>1 DEF MayPrecede, KeyPrecedes
  <2> HIDE DEF new
  <2>3. ASSUME ~(new(y) /\ ~old(y))
        PROVE  Cardinality(Preceding(y)') <= Cardinality(Preceding(y))
    <3>1. Preceding(y)' \in SUBSET Preceding(y)
      BY <1>1, <2>1, <2>2, <2>3 DEF Preceding
    <3> QED BY <3>1, FewerPrecede
  <2>4. ASSUME ~(old(y) /\ ~new(y))
        PROVE  Cardinality(Preceding(y)') >= Cardinality(Preceding(y))
    <3>1. /\ Preceding(y) \in SUBSET Preceding(y)'
          /\ Preceding(y)' \in SUBSET Present
      BY <1>1, <2>1, <2>2, <2>4 DEF Preceding
    <3>2. Cardinality(Preceding(y)) <= Cardinality(Preceding(y)')
      BY <3>1, SmallerSet
    <3> QED BY <1>3, <3>2
  <2> QED BY <2>3, <2>4
<1>5. /\ Skip(walk.page, walk.limit) \in Nat /\ walk.total \in Nat
      /\ walk.page = 1 => Skip(walk.page, walk.limit) = 0
      /\ walk.page \in Nat \ {0}
  BY WalkSkip
<1> HIDE DEF old, new
<1>6. MissedAreAhead'
  <2> SUFFICES ASSUME NEW y \in Missed'
               PROVE  /\ walk.pc # "done"
                      /\ Walking => Cardinality(Preceding(y)')
                                       >= Skip(walk.page, walk.limit)
                      /\ walk.pc = "find"
                         /\ ~HasNext(walk.page, walk.total, walk.limit)
                            => Cardinality(Preceding(y)') < walk.total
    BY <1>1 DEF MissedAreAhead, Walking
  <2>1. /\ y \in Missed /\ y \in Present \cap want
        /\ y \notin slid' /\ y \notin slid
    BY <1>1 DEF Missed, NotesAreOfRows
  <2>2. /\ walk.pc # "done"
        /\ Walking => Cardinality(Preceding(y)) >= Skip(walk.page, walk.limit)
        /\ walk.pc = "find" /\ ~HasNext(walk.page, walk.total, walk.limit)
              => Cardinality(Preceding(y)) < walk.total
    BY <2>1 DEF ListingInv, MissedAreAhead
  <2>3. ASSUME Walking
        PROVE  Cardinality(Preceding(y)') >= Skip(walk.page, walk.limit)
    <3>1. CASE walk.page = 1
      BY <1>3, <1>5, <2>1, <3>1
    <3>2. CASE walk.page > 1
      <4>1. y # x /\ ~(old(y) /\ ~new(y))
        BY <1>2, <2>1, <2>3, <3>2
      <4>2. Cardinality(Preceding(y)') >= Cardinality(Preceding(y))
        BY <1>4, <2>1, <4>1
      <4> QED BY <1>3, <1>5, <2>1, <2>2, <2>3, <4>2
    <3> QED BY <1>5, <3>1, <3>2
  <2>4. ASSUME walk.pc = "find", ~HasNext(walk.page, walk.total, walk.limit)
        PROVE  Cardinality(Preceding(y)') < walk.total
    <3>1. y # x /\ ~(new(y) /\ ~old(y))
      BY <1>2, <2>1, <2>4
    <3>2. Cardinality(Preceding(y)') <= Cardinality(Preceding(y))
      BY <1>4, <2>1, <3>1
    <3> QED BY <1>3, <1>5, <2>1, <2>2, <2>4, <3>2
  <2> QED BY <2>2, <2>3, <2>4
<1>7. SentAreBehind'
  <2> SUFFICES ASSUME NEW y \in ((seen \cap Present) \ pushed)', Walking
               PROVE  Cardinality(Preceding(y)') < Skip(walk.page, walk.limit)
    BY <1>1 DEF SentAreBehind, Walking
  <2>1. y \in (seen \cap Present) \ pushed /\ y \notin pushed'
    BY <1>1
  <2>2. Cardinality(Preceding(y)) < Skip(walk.page, walk.limit)
    BY <2>1 DEF ListingInv, SentAreBehind
  <2>3. walk.page > 1
    BY <1>3, <1>5, <2>1, <2>2
  <2>4. y # x /\ ~(new(y) /\ ~old(y))
    BY <1>2, <2>1, <2>3
  <2>5. Cardinality(Preceding(y)') <= Cardinality(Preceding(y))
    BY <1>4, <2>1, <2>4
  <2> QED BY <1>3, <1>5, <2>1, <2>2, <2>5
<1>8. RepeatsHaveACause'
  BY <1>1 DEF ListingInv, RepeatsHaveACause
<1> QED BY <1>6, <1>7, <1>8 DEF ListingInv

(* With a negative limit there is one page, and nothing is promised of it. *)
LEMMA NegativeStep ==
    ASSUME ListingTypeOK, NotesAreOfRows, NotesAreOfRows', ListingInv,
           walk.limit < 0, [ListingNext]_listingVars
    PROVE  ListingInv'
<1>1. ASSUME NEW P \in SUBSET Rows, FindMany(P)
      PROVE  walk'.limit = walk.limit /\ repeated' = repeated /\ pushed \subseteq pushed'
  <2>1. seen = {}
    BY <1>1 DEF FindMany, NotesAreOfRows, Walking
  <2> QED BY <1>1, <2>1, WalkOn DEF FindMany
<1>2. ASSUME NEW S, DeleteRows(S)
      PROVE  walk' = walk /\ repeated' = repeated \ S /\ pushed' = pushed \ S
  BY <1>2 DEF DeleteRows
<1>3. ASSUME NEW x \in Rows, NEW k \in 0..MaxTime, Insert(x, k) \/ Move(x, k)
      PROVE  walk' = walk /\ repeated' = repeated /\ pushed \subseteq pushed'
  BY <1>3 DEF Insert, Move, listed
<1>4. ASSUME NEW order \in {"asc", "desc"}, Begin(order)
      PROVE  walk'.limit = walk.limit /\ UNCHANGED <<repeated, pushed>>
  BY <1>4, WalkShape DEF Begin, moved, Walk
<1>5. /\ walk'.limit = walk.limit
      /\ repeated \subseteq pushed => repeated' \subseteq pushed'
  <2>1. CASE Count \/ QueryRejects
    BY <2>1, WalkShape DEF Count, QueryRejects, listed, moved, Walk
  <2>2. CASE Tick \/ UNCHANGED listingVars
    BY <2>2 DEF Tick, listingVars, listed, moved
  <2>3. CASE DeleteOldAuditLogs \/ \E x \in Rows : Remove(x)
    BY <1>2, <2>3 DEF DeleteOldAuditLogs, Remove
  <2> QED BY <1>1, <1>3, <1>4, <2>1, <2>2, <2>3 DEF ListingNext, Answer
<1>6. Missed' = {}
  BY <1>5, WalkShape DEF Missed
<1>7. Walking' => seen' = {}
  BY <1>5 DEF NotesAreOfRows
<1> QED
  BY <1>5, <1>6, <1>7
     DEF ListingInv, MissedAreAhead, SentAreBehind, RepeatsHaveACause

LEMMA ListingStep ==
    ASSUME ListingTypeOK, NotesAreOfRows, ListingInv, walk.limit >= 0,
           [ListingNext]_listingVars
    PROVE  ListingInv'
<1>1. ASSUME UNCHANGED <<row, key, want, seen, repeated, slid, pushed>>,
             UNCHANGED walk \/ QueryRejects
      PROVE  ListingInv'
  <2>1. /\ walk'.order = walk.order /\ walk'.limit = walk.limit
        /\ walk' = walk \/ walk'.pc = "failed"
    BY <1>1, WalkShape DEF QueryRejects, Walk
  <2>2. Present' = Present /\ \A y \in Present : Preceding(y)' = Preceding(y)
    BY <1>1, <2>1, SamePlaces
  <2>3. MissedAreAhead'
    BY <1>1, <2>1, <2>2
       DEF ListingInv, MissedAreAhead, Missed, Walking, NotesAreOfRows
  <2>4. SentAreBehind' /\ RepeatsHaveACause'
    BY <1>1, <2>1, <2>2
       DEF ListingInv, SentAreBehind, RepeatsHaveACause, Walking
  <2> QED BY <2>3, <2>4 DEF ListingInv
<1>2. CASE QueryRejects \/ Tick \/ UNCHANGED listingVars
  BY <1>1, <1>2 DEF QueryRejects, Tick, listingVars, table, listed, moved
<1>3. ASSUME NEW x \in Rows, Remove(x) PROVE ListingInv'
  BY <1>3, DeleteStep DEF Remove
<1>4. CASE DeleteOldAuditLogs
  <2>1. {x \in Present : key[x] + Age < now} \in SUBSET Rows
    BY PresentIsFinite
  <2> QED BY <1>4, <2>1, DeleteStep DEF DeleteOldAuditLogs
<1> QED
  BY <1>2, <1>3, <1>4, BeginStep, CountStep, FindManyStep, InsertStep,
     MoveStep
     DEF ListingNext, Answer

LEMMA ListingPlaces == ListingSpec => []ListingInv
<1>1. ListingInit => ListingInv
  BY DEF ListingInit, ListingInv, MissedAreAhead, Missed, SentAreBehind,
         RepeatsHaveACause
<1>2. ListingTypeOK /\ NotesAreOfRows /\ ListingInv /\ NotesAreOfRows'
         /\ [ListingNext]_listingVars => ListingInv'
  <2>1. ListingTypeOK => walk.limit \in Int
    BY WalkShape
  <2> QED BY <2>1, ListingStep, NegativeStep
<1> QED BY <1>1, <1>2, ListingInvariant, PTL DEF ListingSpec

(* Whatever others write meanwhile, in whatever order the rows are listed, *)
(* and whatever the page size that is not negative: a client that has read *)
(* to the end was sent every row that was there all the while, but for     *)
(* those that slid.                                                        *)
THEOREM NothingElseIsMissed == ListingSpec => []SurvivorsAreListed
<1>1. ListingInv => SurvivorsAreListed
  BY DEF ListingInv, MissedAreAhead, Missed, SurvivorsAreListed
<1> QED BY <1>1, ListingPlaces, PTL

(* No row is sent twice but those that were pushed, whatever the order and *)
(* the page size; removals, which move rows up, repeat nothing.            *)
THEOREM NothingElseIsRepeated == ListingSpec => []RepeatsHaveACause
<1>1. ListingInv => RepeatsHaveACause
  BY DEF ListingInv
<1> QED BY <1>1, ListingPlaces, PTL

(* Audit logs are listed with the newest first: what comes after a log     *)
(* that the weekly cleanup takes is as old, and is taken with it.  So the  *)
(* cleanup is no cause for a client to miss a log, whenever it runs.       *)
THEOREM CleanupHidesNothing ==
    ListingSpec =>
        [][DeleteOldAuditLogs /\ walk.order = "desc"
             => slid' \cap Present' \subseteq slid]_listingVars
<1>1. ASSUME ListingTypeOK, DeleteOldAuditLogs, walk.order = "desc",
             NEW y \in slid', y \in Present'
      PROVE  y \in slid
  <2> DEFINE old == {x \in Present : key[x] + Age < now}
  <2>1. DeleteRows(old)
    BY <1>1 DEF DeleteOldAuditLogs
  <2>2. y \in Present /\ y \notin old
    BY <1>1, <2>1 DEF DeleteRows, Present
  <2>3. ASSUME NEW x \in old PROVE ~MayPrecede(x, y)
    <3>1. key[x] \in Nat /\ key[y] \in Nat /\ now \in Nat /\ Age \in Nat
      BY <1>1, <2>2, PresentIsFinite, TimesAreNumbers, AgeIsANumber
         DEF ListingTypeOK
    <3>2. key[x] + Age < now /\ ~(key[y] + Age < now)
      BY <2>2
    <3> QED BY <1>1, <3>1, <3>2 DEF MayPrecede, KeyPrecedes
  <2> HIDE DEF old
  <2> QED BY <1>1, <2>1, <2>3 DEF DeleteRows, MovedUp
<1>2. ListingTypeOK /\ [ListingNext]_listingVars
         => [DeleteOldAuditLogs /\ walk.order = "desc"
               => slid' \cap Present' \subseteq slid]_listingVars
  BY <1>1
<1> QED BY <1>2, ListingTypeCorrect, PTL DEF ListingSpec

(* The measure behind WalksEnd: of the answers a client with a limit other *)
(* than 0 gets, each ends the walk, or leads from a count to its query or  *)
(* to a later page; no write of others takes it back.  ListingTypeCorrect  *)
(* bounds the pages by the rows there can be at a time.                    *)
THEOREM WalksGoForward ==
    ListingSpec =>
        [][Walking /\ walk.limit # 0 =>
             \/ ~Walking'
             \/ walk'.page > walk.page
             \/ /\ walk'.page = walk.page
                /\ walk'.pc = walk.pc \/ walk.pc = "count"]_listingVars
<1>1. ASSUME ListingTypeOK, [ListingNext]_listingVars, Walking, walk.limit # 0
      PROVE  \/ ~Walking'
             \/ walk'.page > walk.page
             \/ /\ walk'.page = walk.page
                /\ walk'.pc = walk.pc \/ walk.pc = "count"
  <2> USE DEF Walking
  <2>1. ASSUME NEW P \in SUBSET Rows, FindMany(P)
        PROVE  ~Walking' \/ walk'.page > walk.page
    <3>1. CASE HasNext(walk.page, walk.total, walk.limit)
      <4>1. /\ walk'.page = Least(walk.page + 1, MaxPage)
            /\ walk.page + 1 < MaxPage
        BY <1>1, <2>1, <3>1, WalkOn, WalkShape
      <4>2. walk.page \in Nat /\ MaxPage \in Nat
        BY <1>1, WalkShape, PresentIsFinite DEF MaxPage
      <4> QED BY <4>1, <4>2 DEF Least
    <3>2. CASE ~HasNext(walk.page, walk.total, walk.limit)
      BY <1>1, <2>1, <3>2, WalkOn
    <3> QED BY <3>1, <3>2
  <2>2. CASE Count \/ QueryRejects
    BY <1>1, <2>2, WalkShape DEF Count, QueryRejects, Walk
  <2>3. CASE UNCHANGED walk
    BY <1>1, <2>3
  <2>4. ASSUME NEW order \in {"asc", "desc"}, Begin(order)
        PROVE  FALSE
    BY <1>1, <2>4 DEF Begin
  <2>5. ASSUME NEW x \in Rows, Remove(x) PROVE UNCHANGED walk
    BY <2>5 DEF Remove, DeleteRows
  <2>6. ASSUME NEW x \in Rows, NEW k \in 0..MaxTime, Insert(x, k) \/ Move(x, k)
        PROVE  UNCHANGED walk
    BY <2>6 DEF Insert, Move
  <2>7. CASE DeleteOldAuditLogs \/ Tick \/ UNCHANGED listingVars
    BY <2>3, <2>7 DEF DeleteOldAuditLogs, DeleteRows, Tick, listingVars
  <2> QED
    BY <1>1, <2>1, <2>2, <2>3, <2>4, <2>5, <2>6, <2>7 DEF ListingNext, Answer
<1> QED BY <1>1, ListingTypeCorrect, PTL DEF ListingSpec
=============================================================================
