--------------------------- MODULE RefreshTokens ---------------------------
(***************************************************************************)
(* The refresh-token life cycle of AuthService: login, refresh (rotation)  *)
(* and logout as multi-step requests that interleave at every await, over  *)
(* one refresh_tokens table, together with the other writers of that table *)
(* and of the accounts it references: user update and removal, and the     *)
(* nightly cleanup.                                                        *)
(*                                                                         *)
(* A refresh token is a JWT whose payload is {sub, email, role} plus the   *)
(* second it was signed in (iat) and an expiry computed from it: nothing   *)
(* in it is random, so the string is a function of the account and the     *)
(* second.  Token models it as exactly that pair.                          *)
(***************************************************************************)
EXTENDS Integers

CONSTANTS
    Users,      \* accounts that exist at the start
    Reqs,       \* slots for concurrently served requests, over all instances
    Session,    \* identities of login sessions (a bound on the logins)
    Envs,       \* environments the program is started in, see Env
    AccessTTL,  \* jwt.access.expiresIn, in clock units
    MaxTime,    \* bound on the clock
    NoToken     \* no token: an absent body field, or no token presented

Token == [user : Users, iat : 0..MaxTime]

(* lasts: how long JWT_REFRESH_EXPIRATION is to jsonwebtoken, which takes   *)
(* "7d" and "1w", "7 days" or "120" alike.  parsed: whether it has the form *)
(* saveRefreshToken takes too, a number and one of d, h, m and s.  At      *)
(* change the local clock of the server moves by shift, 0 in UTC.          *)
Env == [lasts : Nat, parsed : BOOLEAN, change : Nat, shift : Int]

ASSUME EnvsAreKnown == Envs \subseteq Env /\ AccessTTL \in Nat
ASSUME LocalTimeIsPositive == \A e \in Envs : e.change + e.shift \in Nat
ASSUME ClockBound == MaxTime \in Nat
ASSUME NoTokenIsNoToken == NoToken \notin Token

VARIABLES
    env,        \* the environment, read once at the start
    account,    \* users.isActive, and whether the row still exists
    rows,       \* the refresh_tokens table
    req,        \* the requests being served
    issued,     \* the refresh tokens clients have been given
    opened,     \* history: the sessions logins have opened
    now         \* the clock, in the seconds of a JWT

vars == <<env, account, rows, req, issued, opened, now>>

(* A row also carries, as history, the session it belongs to. *)
Row == [token : Token, ses : Session, expiresAt : Nat]

Idle == [pc |-> "idle"]

(* Where a request waits, with the locals it still needs. *)
Request ==
         {Idle}
    \cup [pc : {"verify"}, user : Users]
    \cup [pc : {"rotate"}, old : Token, new : Token, ses : Session]
    \cup [pc : {"save"}, new : Token, ses : Session]
    \cup [pc : {"reply"}, new : Token]
    \cup [pc : {"logout"}, user : Users, only : Token \cup {NoToken}]

TypeOK ==
    /\ env \in Envs
    /\ account \in [Users -> {"active", "inactive", "deleted"}]
    /\ rows \subseteq Row
    /\ req \in [Reqs -> Request]
    /\ issued \subseteq Token
    /\ opened \subseteq Session
    /\ now \in 0..MaxTime

Init ==
    /\ env \in Envs
    /\ account = [u \in Users |-> "active"]
    /\ rows = {}
    /\ req = [p \in Reqs |-> Idle]
    /\ issued = {}
    /\ opened = {}
    /\ now = 0

-----------------------------------------------------------------------------
(* Variant to refute TypeOK: a time past the expiry for the signing time.  *)
SignFromExpiry(u) == [user |-> u, iat |-> now + env.lasts + 1]

(* Variant to refute SpentTokensStaySpent: iat counts minutes, not seconds. *)
SignToTheMinute(u) == [user |-> u, iat |-> 2 * (now \div 2)]

Sign(u) == [user |-> u, iat |-> now]

JwtValid(t) == now < t.iat + env.lasts

Expired(r) == r.expiresAt < now

Step(p, r) == req' = [req EXCEPT ![p] = r]

(* login: findByEmail answered with an active account. *)
LoginFind(p, u) ==
    /\ req[p] = Idle
    /\ account[u] = "active"
    /\ Step(p, [pc |-> "verify", user |-> u])
    /\ UNCHANGED <<account, rows, issued, opened, now>>

(* argon2.verify answered true; the second of the tokens is taken in the   *)
(* same turn.                                                              *)
LoginAccept(p) ==
    /\ req[p].pc = "verify"
    /\ \E s \in Session \ opened :
          /\ opened' = opened \cup {s}
          /\ Step(p, [pc |-> "save", new |-> Sign(req[p].user), ses |-> s])
    /\ UNCHANGED <<account, rows, issued, now>>

(* argon2.verify answered false: 401. *)
LoginRefuse(p) ==
    /\ req[p].pc = "verify"
    /\ Step(p, Idle)
    /\ UNCHANGED <<account, rows, issued, opened, now>>

(* Variant to refute DeactivationHolds: refresh without the isActive check. *)
RefreshFindInactive(p, t) ==
    /\ req[p] = Idle
    /\ JwtValid(t)
    /\ \E r \in rows :
          /\ r.token = t
          /\ ~Expired(r)
          /\ Step(p, [pc |-> "rotate", old |-> t, new |-> Sign(t.user),
                      ses |-> r.ses])
    /\ UNCHANGED <<account, rows, issued, opened, now>>

(* refresh: the JWT verifies, its row is stored and not expired, and the   *)
(* account read with it is active.  The second of the new tokens is taken  *)
(* in the turn that resumes with the row, before the next await.           *)
RefreshFind(p, t) ==
    /\ req[p] = Idle
    /\ JwtValid(t)
    /\ account[t.user] = "active"
    /\ \E r \in rows :
          /\ r.token = t
          /\ ~Expired(r)
          /\ Step(p, [pc |-> "rotate", old |-> t, new |-> Sign(t.user),
                      ses |-> r.ses])
    /\ UNCHANGED <<account, rows, issued, opened, now>>

(* deleteRefreshToken.  The row deleted need not be the row read: the same *)
(* string may have been stored again in between.                           *)
DeleteOld(p) ==
    /\ req[p].pc = "rotate"
    /\ \E r \in rows :
          /\ r.token = req[p].old
          /\ rows' = rows \ {r}
          /\ Step(p, [pc |-> "save", new |-> req[p].new, ses |-> r.ses])
    /\ UNCHANGED <<account, issued, opened, now>>

(* Variant to refute OneHolder: deleteMany instead of delete, which does   *)
(* not throw when no row matches.                                          *)
DeleteOldIgnoresMissing(p) ==
    /\ req[p].pc = "rotate"
    /\ \A r \in rows : r.token # req[p].old
    /\ Step(p, [pc |-> "save", new |-> req[p].new, ses |-> req[p].ses])
    /\ UNCHANGED <<account, rows, issued, opened, now>>

(* prisma's delete throws when the row is gone: refresh answers 401.       *)
DeleteOldThrows(p) ==
    /\ req[p].pc = "rotate"
    /\ \A r \in rows : r.token # req[p].old
    /\ Step(p, Idle)
    /\ UNCHANGED <<account, rows, issued, opened, now>>

(* Variant to refute ImplementsSessions: no @unique.                       *)
InsertableTwice(t) == account[t.user] # "deleted"

(* token is @unique and userId references users.id.                        *)
Insertable(t) == account[t.user] # "deleted" /\ \A r \in rows : r.token # t

(* The server's wall clock at t, and the moment it shows l.  A wall time   *)
(* that is skipped, or comes twice, is read with the offset before the     *)
(* change, as Date does.                                                   *)
Local(t) == IF t < env.change THEN t ELSE t + env.shift

Moment(l) ==
    IF l < env.change \/ l < env.change + env.shift THEN l ELSE l - env.shift

(* The setters of Date that saveRefreshToken uses count in local time.     *)
ExpiresAt == Moment(Local(now) + env.lasts)

(* Variant to refute RowOutlivesJwt: no case for the unit of the setting.  *)
SaveWithoutLifetime(p) ==
    /\ req[p].pc = "save"
    /\ env.parsed
    /\ Insertable(req[p].new)
    /\ rows' = rows \cup {[token |-> req[p].new, ses |-> req[p].ses,
                           expiresAt |-> now]}
    /\ Step(p, [pc |-> "reply", new |-> req[p].new])
    /\ UNCHANGED <<account, issued, opened, now>>

(* saveRefreshToken: the row's lifetime starts after the signature.        *)
SaveRefreshToken(p) ==
    /\ req[p].pc = "save"
    /\ env.parsed
    /\ Insertable(req[p].new)
    /\ rows' = rows \cup {[token |-> req[p].new, ses |-> req[p].ses,
                           expiresAt |-> ExpiresAt]}
    /\ Step(p, [pc |-> "reply", new |-> req[p].new])
    /\ UNCHANGED <<account, issued, opened, now>>

(* The setting has another form, or the insert is refused: login answers   *)
(* 500 and refresh 401; the deleted row is not put back.                   *)
SaveThrows(p) ==
    /\ req[p].pc = "save"
    /\ ~env.parsed \/ ~Insertable(req[p].new)
    /\ Step(p, Idle)
    /\ UNCHANGED <<account, rows, issued, opened, now>>

Reply(p) ==
    /\ req[p].pc = "reply"
    /\ issued' = issued \cup {req[p].new}
    /\ Step(p, Idle)
    /\ UNCHANGED <<account, rows, opened, now>>

(* JwtStrategy.validate let an access token of u through; the body may     *)
(* name one refresh token.                                                 *)
LogoutBegin(p, u, only) ==
    /\ req[p] = Idle
    /\ \E t \in issued : t.user = u /\ now < t.iat + AccessTTL
    /\ account[u] = "active"
    /\ Step(p, [pc |-> "logout", user |-> u, only |-> only])
    /\ UNCHANGED <<account, rows, issued, opened, now>>

DeleteRefreshTokens(p) ==
    LET gone(r) == /\ r.token.user = req[p].user
                   /\ req[p].only \in {NoToken, r.token}
    IN  /\ req[p].pc = "logout"
        /\ rows' = {r \in rows : ~gone(r)}
        /\ Step(p, Idle)
        /\ UNCHANGED <<account, issued, opened, now>>

(* The instance serving p dies between two awaits. *)
Crash(p) ==
    /\ req[p] # Idle
    /\ Step(p, Idle)
    /\ UNCHANGED <<account, rows, issued, opened, now>>

-----------------------------------------------------------------------------
(* UserService.update with a new isActive. *)
UserSetActive(u, a) ==
    /\ account[u] # "deleted"
    /\ account' = [account EXCEPT ![u] = IF a THEN "active" ELSE "inactive"]
    /\ UNCHANGED <<rows, req, issued, opened, now>>

(* UserService.remove; the foreign key is onDelete: Cascade. *)
UserRemove(u) ==
    /\ account[u] # "deleted"
    /\ account' = [account EXCEPT ![u] = "deleted"]
    /\ rows' = {r \in rows : r.token.user # u}
    /\ UNCHANGED <<req, issued, opened, now>>

CleanupExpiredTokens ==
    /\ \E r \in rows : Expired(r)
    /\ rows' = {r \in rows : ~Expired(r)}
    /\ UNCHANGED <<account, req, issued, opened, now>>

Tick ==
    /\ now < MaxTime
    /\ now' = now + 1
    /\ UNCHANGED <<account, rows, req, issued, opened>>

Serve(p) ==
    \/ \E u \in Users : LoginFind(p, u)
    \/ LoginAccept(p)
    \/ LoginRefuse(p)
    \/ \E t \in issued : RefreshFind(p, t)
    \/ DeleteOld(p)
    \/ DeleteOldThrows(p)
    \/ SaveRefreshToken(p)
    \/ SaveThrows(p)
    \/ Reply(p)
    \/ \E u \in Users, only \in issued \cup {NoToken} : LogoutBegin(p, u, only)
    \/ DeleteRefreshTokens(p)
    \/ Crash(p)

Next ==
    /\ \/ \E p \in Reqs : Serve(p)
       \/ \E u \in Users, a \in BOOLEAN : UserSetActive(u, a)
       \/ \E u \in Users : UserRemove(u)
       \/ CleanupExpiredTokens
       \/ Tick
    /\ UNCHANGED env

Spec == Init /\ [][Next]_vars

-----------------------------------------------------------------------------
Saving(p) == req[p].pc = "save"

(* A session is never forked: however logins, refreshes and logouts        *)
(* interleave, it is held by at most one row or one request between        *)
(* deleteRefreshToken and createRefreshToken.  (A token string may be      *)
(* redeemed twice: within the second of its signing the first refresh      *)
(* stores the same string again, and a second one takes the session on.)   *)
OneHolder ==
    /\ \A r1, r2 \in rows : r1.ses = r2.ses => r1 = r2
    /\ \A p, q \in Reqs : Saving(p) /\ Saving(q) /\ req[p].ses = req[q].ses
                            => p = q
    /\ \A p \in Reqs, r \in rows : Saving(p) => req[p].ses # r.ses

(* The @unique constraint on refresh_tokens.token, which the lookups by    *)
(* token rely on.                                                          *)
TokensAreUnique == \A r1, r2 \in rows : r1.token = r2.token => r1 = r2

(* Removing an account leaves no row behind, not even one written by a     *)
(* login or refresh that read the account before it was removed.           *)
NoRowOfDeletedUser == \A r \in rows : account[r.token.user] # "deleted"

(* Where the local clock makes a row expire before its JWT does: it went   *)
(* forward since the signature, or it went back by more than a lifetime.   *)
CutShort(r) ==
    /\ env.change <= now
    /\ \/ /\ env.shift > 0 /\ r.token.iat < env.change
          /\ r.expiresAt + env.shift >= r.token.iat + env.lasts
       \/ /\ env.shift < 0 /\ env.lasts < -env.shift
          /\ r.expiresAt - env.shift >= r.token.iat + env.lasts

(* saveRefreshToken's own parsing of the lifetime agrees with              *)
(* jsonwebtoken's: a row whose JWT still verifies has not expired, unless  *)
(* a change of the server's local clock cut it short, and then by no more  *)
(* than that change.  Otherwise refresh and the cleanup would log out      *)
(* clients whose token is good.                                            *)
RowOutlivesJwt ==
    \A r \in rows : JwtValid(r.token) /\ Expired(r) => CutShort(r)

Owner(r) == IF r.pc = "verify" THEN r.user ELSE r.new.user

Quiet(u) ==
    /\ account[u] # "active"
    /\ \A p \in Reqs : req[p].pc \in {"verify", "rotate", "save"}
                         => Owner(req[p]) # u

(* Deactivation takes hold: once an account is not active and the requests *)
(* that had read it while it was are over, no login or refresh starts for  *)
(* it and its rows only disappear, until it is activated again.            *)
DeactivationHolds ==
    [][\A u \in Users :
          Quiet(u) => \/ account'[u] = "active"
                      \/ /\ Quiet(u)'
                         /\ {r \in rows' : r.token.user = u} \subseteq rows]_vars

(* No row holds t, and no request is about to store it.                    *)
Spent(t) ==
    /\ t.iat < now
    /\ \A r \in rows : r.token # t
    /\ \A p \in Reqs : req[p].pc \in {"rotate", "save"} => req[p].new # t

(* Once the second of its signing is over, a token that was redeemed,      *)
(* logged out, cleaned up or removed with its account stays so: nothing    *)
(* that is still in progress, and no later login or refresh, stores the    *)
(* string again, so no refresh that presents it succeeds any more.         *)
SpentTokensStaySpent ==
    [][\A t \in issued : Spent(t) => Spent(t)']_vars

-----------------------------------------------------------------------------
(* The refinement mapping: where each session is. *)
Place(s) ==
    IF s \notin opened THEN [at |-> "unopened"]
    ELSE IF \E r \in rows : r.ses = s
         THEN [at |-> "stored", token |-> (CHOOSE r \in rows : r.ses = s).token]
         ELSE IF \E p \in Reqs : Saving(p) /\ req[p].ses = s
              THEN [at |-> "in flight"]
              ELSE [at |-> "ended"]

Abs == INSTANCE Sessions WITH place <- [s \in Session |-> Place(s)]

(* The handlers implement the abstract sessions: one holder at a time, no  *)
(* shared token string, and no way back for an ended session.              *)
ImplementsSessions == Abs!Spec
=============================================================================
