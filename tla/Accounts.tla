------------------------------ MODULE Accounts ------------------------------
(***************************************************************************)
(* UserService's create, update and remove as requests that interleave at  *)
(* their awaits, the domain events they emit, and the audit log that       *)
(* AuditInterceptor writes after the handler of every authenticated        *)
(* mutation, without the response waiting for it.                          *)
(***************************************************************************)
EXTENDS Integers

CONSTANTS
    Ids,        \* account identities (a bound on the accounts created)
    Emails,
    Seeds,      \* the rows of users that the seed script has created
    Nobody,     \* the null of audit_logs.userId
    Reqs,       \* slots for concurrently served requests
    MaxAudited, \* bound on the audited requests
    MaxFaults   \* bound on crashes and failed database calls

User == [id : Ids, email : Emails, admin : BOOLEAN, active : BOOLEAN]

ASSUME SeedsAreAccounts == Seeds \subseteq User
ASSUME NobodyIsNobody == Nobody \notin Ids
ASSUME Bounds == MaxAudited \in Nat /\ MaxFaults \in Nat

VARIABLES
    users,      \* the users table
    used,       \* the identities given out so far
    audit,      \* the audit_logs table
    req,        \* the requests being served
    audited,    \* audited requests so far
    emitted,    \* history: events per kind and account, counted up to 2
    lost,       \* history: the events that a fault has prevented
    unlogged,   \* history: why an audited request has no log
    faults

vars == <<users, used, audit, req, audited, emitted, lost, unlogged, faults>>

(* user.created and user.deleted. *)
Kinds == {"created", "deleted"}

(* n is the request the row is about; old: more than 90 days have passed.  *)
Log == [n : 1..MaxAudited, actor : Ids \cup {Nobody}, old : BOOLEAN]

Idle == [pc |-> "idle"]

Request ==
         {Idle}
    \cup [pc : {"insert"}, email : Emails]
    \cup [pc : {"created"}, id : Ids]
    \cup [pc : {"update", "delete", "deleted"}, id : Ids, actor : Ids,
          n : 1..MaxAudited]
    \cup [pc : {"audit"}, actor : Ids, n : 1..MaxAudited]

TypeOK ==
    /\ users \subseteq User
    /\ used \subseteq Ids
    /\ audit \subseteq Log
    /\ req \in [Reqs -> Request]
    /\ audited \in 0..MaxAudited
    /\ emitted \in [Kinds -> [Ids -> 0..2]]
    /\ lost \subseteq Kinds \X Ids
    /\ unlogged \in [1..MaxAudited -> {"no", "fault", "orphan", "old"}]
    /\ faults \in 0..MaxFaults

IdsOf(rows) == {u.id : u \in rows}

Init ==
    /\ users = Seeds
    /\ used = IdsOf(Seeds)
    /\ audit = {}
    /\ req = [p \in Reqs |-> Idle]
    /\ audited = 0
    /\ emitted = [kind \in Kinds |-> [i \in Ids |-> 0]]
    /\ lost = {}
    /\ unlogged = [n \in 1..MaxAudited |-> "no"]
    /\ faults = 0

-----------------------------------------------------------------------------
Goto(p, r) == req' = [req EXCEPT ![p] = r]

history == <<emitted, lost, unlogged>>

Exists(i) == i \in IdsOf(users)

(* create, a public route, up to its argon2.hash; 409 when the address is  *)
(* taken.                                                                  *)
CreateFind(p, e) ==
    /\ req[p] = Idle
    /\ \A u \in users : u.email # e
    /\ Goto(p, [pc |-> "insert", email |-> e])
    /\ UNCHANGED <<users, used, audit, audited, history, faults>>

(* email is @unique. *)
Insertable(e) == \A u \in users : u.email # e

(* The body may name a role. *)
CreateInsert(p) ==
    /\ req[p].pc = "insert"
    /\ Insertable(req[p].email)
    /\ \E i \in Ids \ used, admin \in BOOLEAN :
          /\ users' = users \cup {[id |-> i, email |-> req[p].email,
                                   admin |-> admin, active |-> TRUE]}
          /\ used' = used \cup {i}
          /\ Goto(p, [pc |-> "created", id |-> i])
    /\ UNCHANGED <<audit, audited, history, faults>>

Emit(kind, i) ==
    emitted' = [emitted EXCEPT ![kind][i] = IF @ < 2 THEN @ + 1 ELSE @]

(* The insert has answered: user.created. *)
EmitCreated(p) ==
    /\ req[p].pc = "created"
    /\ Emit("created", req[p].id)
    /\ Goto(p, Idle)
    /\ UNCHANGED <<users, used, audit, audited, lost, unlogged, faults>>

(* Prisma's error is no HttpException: HttpExceptionFilter answers 500.    *)
CreateInsertThrows(p) ==
    /\ req[p].pc = "insert"
    /\ ~Insertable(req[p].email)
    /\ Goto(p, Idle)
    /\ UNCHANGED <<users, used, audit, audited, history, faults>>

(* The guards: the account of the access token exists and is active, and   *)
(* remove needs an administrator.  The interceptor numbers the request.    *)
Admitted(a, adminOnly) ==
    /\ audited < MaxAudited
    /\ audited' = audited + 1
    /\ \E u \in users : u.id = a /\ u.active /\ (adminOnly => u.admin)

(* findById; 404 when there is no such account, which is audited too.      *)
FindTarget(p, a, i, next) ==
    /\ req[p] = Idle
    /\ Goto(p, IF Exists(i)
               THEN [pc |-> next, id |-> i, actor |-> a, n |-> audited + 1]
               ELSE [pc |-> "audit", actor |-> a, n |-> audited + 1])
    /\ UNCHANGED <<users, used, audit, history, faults>>

UpdateFind(p, a, i) == Admitted(a, FALSE) /\ FindTarget(p, a, i, "update")

RemoveFind(p, a, i) == Admitted(a, TRUE) /\ FindTarget(p, a, i, "delete")

ToAudit(p) == Goto(p, [pc |-> "audit", actor |-> req[p].actor, n |-> req[p].n])

(* update: role and isActive may be changed; it throws when the account is *)
(* gone.                                                                   *)
Update(p) ==
    /\ req[p].pc = "update"
    /\ \E admin, active \in BOOLEAN :
          users' = {IF u.id = req[p].id
                    THEN [u EXCEPT !.admin = admin, !.active = active]
                    ELSE u : u \in users}
    /\ ToAudit(p)
    /\ UNCHANGED <<used, audit, audited, history, faults>>

(* Variant to refute MutationsAreLogged: onDelete: Cascade.                *)
CascadedLogs(i) == {l \in audit : l.actor # i}

(* Variant to refute TypeOK: onDelete: SetDefault.                         *)
DefaultedLogs(i) ==
    {[l EXCEPT !.actor = IF @ = i THEN "default" ELSE @] : l \in audit}

(* audit_logs.userId is onDelete: SetNull. *)
DetachedLogs(i) ==
    {[l EXCEPT !.actor = IF @ = i THEN Nobody ELSE @] : l \in audit}

(* The delete, which throws when the account is gone, and, when it has     *)
(* answered, user.deleted.                                                 *)
Delete(p) ==
    /\ req[p].pc = "delete"
    /\ Exists(req[p].id)
    /\ users' = {u \in users : u.id # req[p].id}
    /\ audit' = DetachedLogs(req[p].id)
    /\ Goto(p, [req[p] EXCEPT !.pc = "deleted"])
    /\ UNCHANGED <<used, audited, history, faults>>

EmitDeleted(p) ==
    /\ req[p].pc = "deleted"
    /\ Emit("deleted", req[p].id)
    /\ ToAudit(p)
    /\ UNCHANGED <<users, used, audit, audited, lost, unlogged, faults>>

(* Variant to refute AnnouncedOnce: deleteMany does not throw.             *)
DeleteIgnoresMissing(p) ==
    /\ req[p].pc = "delete"
    /\ ~Exists(req[p].id)
    /\ Goto(p, [req[p] EXCEPT !.pc = "deleted"])
    /\ UNCHANGED <<users, used, audit, audited, history, faults>>

DeleteThrows(p) ==
    /\ req[p].pc = "delete"
    /\ ~Exists(req[p].id)
    /\ ToAudit(p)
    /\ UNCHANGED <<users, used, audit, audited, history, faults>>

(* createAuditLog: userId references users.id; an error is only logged, so *)
(* a request whose actor has been removed meanwhile leaves no log.         *)
CreateAuditLog(p) ==
    /\ req[p].pc = "audit"
    /\ IF Exists(req[p].actor)
       THEN /\ audit' = audit \cup {[n |-> req[p].n, actor |-> req[p].actor,
                                     old |-> FALSE]}
            /\ UNCHANGED unlogged
       ELSE /\ unlogged' = [unlogged EXCEPT ![req[p].n] = "orphan"]
            /\ UNCHANGED audit
    /\ Goto(p, Idle)
    /\ UNCHANGED <<users, used, audited, emitted, lost, faults>>

(* What a fault prevents: an event that was about to be emitted, ...       *)
Unannounced(p) ==
    lost' = IF req[p].pc \in Kinds
            THEN lost \cup {<<req[p].pc, req[p].id>>} ELSE lost

(* ... and the log of an audited request.                                  *)
Unlogged(p) ==
    unlogged' = IF req[p].pc \in {"insert", "created"} THEN unlogged
                ELSE [unlogged EXCEPT ![req[p].n] = "fault"]

(* The instance dies, or the database rejects the pending call, or rejects *)
(* one that it has applied; before the interceptor's tap, the failure of   *)
(* the handler is still to be audited.                                     *)
Fault(p) ==
    /\ req[p] # Idle
    /\ faults < MaxFaults
    /\ faults' = faults + 1
    /\ Unannounced(p)
    /\ \/ Goto(p, Idle) /\ Unlogged(p)
       \/ /\ req[p].pc \in {"update", "delete", "deleted"}
          /\ ToAudit(p) /\ UNCHANGED unlogged
    /\ UNCHANGED <<users, used, audit, audited, emitted>>

(* Ninety days after its creation a log is old. *)
Grow(l) ==
    /\ ~l.old
    /\ audit' = (audit \ {l}) \cup {[l EXCEPT !.old = TRUE]}
    /\ UNCHANGED <<users, used, req, audited, history, faults>>

CleanupOldAuditLogs ==
    LET old == {l \in audit : l.old}
    IN  /\ old # {}
        /\ audit' = audit \ old
        /\ unlogged' = [n \in 1..MaxAudited |->
                          IF \E l \in old : l.n = n THEN "old" ELSE unlogged[n]]
        /\ UNCHANGED <<users, used, req, audited, emitted, lost, faults>>

Serve(p) ==
    \/ \E e \in Emails : CreateFind(p, e)
    \/ CreateInsert(p) \/ CreateInsertThrows(p) \/ EmitCreated(p)
    \/ \E a, i \in Ids : UpdateFind(p, a, i) \/ RemoveFind(p, a, i)
    \/ Update(p) \/ Delete(p) \/ DeleteThrows(p) \/ EmitDeleted(p)
    \/ CreateAuditLog(p)
    \/ Fault(p)

Next ==
    \/ \E p \in Reqs : Serve(p)
    \/ \E l \in audit : Grow(l)
    \/ CleanupOldAuditLogs

Spec == Init /\ [][Next]_vars

-----------------------------------------------------------------------------
(* The accounts that ask for an event: those that were not seeded, and     *)
(* those that are gone.                                                    *)
Due(kind) == IF kind = "created" THEN used \ IdsOf(Seeds) ELSE used \ IdsOf(users)

Announcing(kind, i) == \E p \in Reqs : req[p].pc = kind /\ req[p].id = i

(* Every account that create has inserted is announced by one user.created *)
(* and every one that is gone by one user.deleted, however many requests   *)
(* remove it at once, and no other account is.  The event is missing only  *)
(* while the request is about to emit it, and for good when that request   *)
(* died, or was told of a failure, after the database had done its part.   *)
AnnouncedOnce ==
    \A kind \in Kinds, i \in Ids :
        emitted[kind][i] =
            IF i \in Due(kind) /\ ~Announcing(kind, i) /\ <<kind, i>> \notin lost
            THEN 1 ELSE 0

(* Every audited request is being served, or has a log, or has none for a  *)
(* known reason: its actor was removed before the interceptor wrote it, a  *)
(* fault came before that, or the log has become old.  In particular no    *)
(* removal of an account takes a log with it that has been written.        *)
MutationsAreLogged ==
    \A n \in 1..audited :
        \/ unlogged[n] # "no"
        \/ \E l \in audit : l.n = n
        \/ \E p \in Reqs : /\ req[p].pc \in {"update", "delete", "deleted", "audit"}
                           /\ req[p].n = n
=============================================================================
