------------------------ MODULE RefreshTokensProofs ------------------------
(***************************************************************************)
(* What RefreshTokens guarantees for any number of accounts, requests,     *)
(* sessions and any lifetimes, proved from the handlers' steps.            *)
(***************************************************************************)
EXTENDS RefreshTokens, TLAPS

(* The locals a request has at each of its waiting points. *)
LEMMA RequestShape ==
    ASSUME NEW r \in Request
    PROVE  /\ r.pc = "verify" => r \in [pc : {"verify"}, user : Users]
           /\ r.pc = "rotate" =>
                 r \in [pc : {"rotate"}, old : Token, new : Token, ses : Session]
           /\ r.pc = "save" =>
                 r \in [pc : {"save"}, new : Token, ses : Session]
           /\ r.pc = "reply" =>
                 r \in [pc : {"reply"}, new : Token]
           /\ r.pc = "logout" =>
                 r \in [pc : {"logout"}, user : Users, only : Token \cup {NoToken}]
  BY DEF Request, Idle

(* Setting one request keeps the table of requests well typed. *)
LEMMA StepType ==
    ASSUME TypeOK, NEW p \in Reqs, NEW r \in Request, Step(p, r)
    PROVE  req' \in [Reqs -> Request]
  BY DEF TypeOK, Step

LEMMA IdleType == Idle \in Request
  BY DEF Request

LEMMA SignType ==
    ASSUME TypeOK, NEW u \in Users
    PROVE  Sign(u) \in Token
  BY DEF TypeOK, Sign, Token

(* Nothing the local clock does makes an expiry lie before the epoch.      *)
LEMMA ExpiryType ==
    ASSUME TypeOK
    PROVE  ExpiresAt \in Nat
<1>1. /\ env.lasts \in Nat /\ env.change \in Nat /\ env.shift \in Int
      /\ env.change + env.shift \in Nat /\ now \in Nat
  BY EnvsAreKnown, LocalTimeIsPositive, ClockBound DEF TypeOK, Env
<1> QED BY <1>1 DEF ExpiresAt, Moment, Local

LEMMA TypeStep ==
    ASSUME TypeOK, [Next]_vars
    PROVE  TypeOK'
<1>0. env' = env
  BY DEF Next, vars
<1> USE <1>0
<1>1. ASSUME NEW p \in Reqs, NEW u \in Users, LoginFind(p, u) PROVE TypeOK'
  <2>1. [pc |-> "verify", user |-> u] \in Request
    BY DEF Request
  <2> QED BY <1>1, <2>1, StepType DEF LoginFind, TypeOK
<1>2. ASSUME NEW p \in Reqs, LoginAccept(p) PROVE TypeOK'
  <2>1. PICK s \in Session :
          /\ opened' = opened \cup {s}
          /\ Step(p, [pc |-> "save", new |-> Sign(req[p].user), ses |-> s])
    BY <1>2 DEF LoginAccept
  <2>2. req[p].user \in Users
    BY <1>2, RequestShape DEF LoginAccept, TypeOK
  <2>3. [pc |-> "save", new |-> Sign(req[p].user),
         ses |-> s] \in Request
    BY <2>2, SignType DEF Request
  <2> QED BY <1>2, <2>1, <2>3, StepType DEF LoginAccept, TypeOK
<1>3. ASSUME NEW p \in Reqs, NEW t \in issued, RefreshFind(p, t) PROVE TypeOK'
  <2>1. PICK r \in rows :
          Step(p, [pc |-> "rotate", old |-> t, new |-> Sign(t.user),
                   ses |-> r.ses])
    BY <1>3 DEF RefreshFind
  <2>2. t \in Token /\ t.user \in Users /\ r.ses \in Session
    BY DEF TypeOK, Token, Row
  <2>3. [pc |-> "rotate", old |-> t, new |-> Sign(t.user), ses |-> r.ses]
          \in Request
    BY <2>2, SignType DEF Request
  <2> QED BY <1>3, <2>1, <2>3, StepType DEF RefreshFind, TypeOK
<1>4. ASSUME NEW p \in Reqs, DeleteOld(p) PROVE TypeOK'
  <2>1. PICK r \in rows :
          /\ rows' = rows \ {r}
          /\ Step(p, [pc |-> "save", new |-> req[p].new, ses |-> r.ses])
    BY <1>4 DEF DeleteOld
  <2>2. req[p].old \in Token /\ req[p].new \in Token /\ r.ses \in Session
    BY <1>4, RequestShape DEF DeleteOld, TypeOK, Row
  <2>3. [pc |-> "save", new |-> req[p].new,
         ses |-> r.ses] \in Request
    BY <2>2 DEF Request
  <2> QED BY <1>4, <2>1, <2>3, StepType DEF DeleteOld, TypeOK
<1>5. ASSUME NEW p \in Reqs, SaveRefreshToken(p) PROVE TypeOK'
  <2>1. /\ req[p].new \in Token /\ req[p].ses \in Session
    BY <1>5, RequestShape DEF SaveRefreshToken, TypeOK
  <2>2. [pc |-> "reply", new |-> req[p].new] \in Request
    BY <2>1 DEF Request
  <2>3. ExpiresAt \in Nat
    BY ExpiryType
  <2>4. rows' \subseteq Row
    BY <1>5, <2>1, <2>3 DEF SaveRefreshToken, TypeOK, Row
  <2> QED BY <1>5, <2>2, <2>4, StepType DEF SaveRefreshToken, TypeOK
<1>6. ASSUME NEW p \in Reqs, Reply(p) PROVE TypeOK'
  <2>1. req[p].new \in Token
    BY <1>6, RequestShape DEF Reply, TypeOK
  <2> QED BY <1>6, <2>1, IdleType, StepType DEF Reply, TypeOK
<1>7. ASSUME NEW p \in Reqs, NEW u \in Users,
             NEW only \in issued \cup {NoToken}, LogoutBegin(p, u, only)
      PROVE  TypeOK'
  <2>1. [pc |-> "logout", user |-> u, only |-> only] \in Request
    BY DEF Request, TypeOK
  <2> QED BY <1>7, <2>1, StepType DEF LogoutBegin, TypeOK
<1>8. ASSUME NEW p \in Reqs, DeleteRefreshTokens(p) PROVE TypeOK'
  BY <1>8, IdleType, StepType DEF DeleteRefreshTokens, TypeOK
<1>9. ASSUME NEW p \in Reqs,
             LoginRefuse(p) \/ DeleteOldThrows(p) \/ SaveThrows(p) \/ Crash(p)
      PROVE  TypeOK'
  BY <1>9, IdleType, StepType
  DEF LoginRefuse, DeleteOldThrows, SaveThrows, Crash, TypeOK
<1>10. ASSUME NEW u \in Users, NEW a \in BOOLEAN, UserSetActive(u, a)
       PROVE  TypeOK'
  BY <1>10 DEF UserSetActive, TypeOK
<1>11. ASSUME NEW u \in Users, UserRemove(u) PROVE TypeOK'
  BY <1>11 DEF UserRemove, TypeOK
<1>12. CASE CleanupExpiredTokens
  BY <1>12 DEF CleanupExpiredTokens, TypeOK
<1>13. CASE Tick
  BY <1>13, ClockBound DEF Tick, TypeOK
<1>14. CASE UNCHANGED vars
  BY <1>14 DEF vars, TypeOK
<1> QED
  BY <1>1, <1>2, <1>3, <1>4, <1>5, <1>6, <1>7, <1>8, <1>9, <1>10, <1>11,
     <1>12, <1>13, <1>14 DEF Next, Serve

(* Type correctness: every action keeps the table, the requests and the    *)
(* clock inside the types the schema and the handlers give them.           *)
THEOREM TypeCorrect == Spec => []TypeOK
<1>1. Init => TypeOK
  BY ClockBound, IdleType DEF Init, TypeOK
<1>2. TypeOK /\ [Next]_vars => TypeOK'
  BY TypeStep
<1> QED BY <1>1, <1>2, PTL DEF Spec

-----------------------------------------------------------------------------
(* What a step does to the holders of sessions.  Only three actions move a *)
(* session; any other step can only lose rows and requests.                *)
Shrinks ==
    /\ rows' \subseteq rows
    /\ opened' = opened
    /\ \A q \in Reqs : req'[q].pc = "save" =>
                          req[q].pc = "save" /\ req'[q].ses = req[q].ses

(* A request that moves to a point other than "save" holds no session.     *)
LEMMA StepShrinks ==
    ASSUME TypeOK, rows' \subseteq rows, opened' = opened,
           NEW p \in Reqs, NEW r, r.pc # "save", Step(p, r)
    PROVE  Shrinks
  BY DEF TypeOK, Step, Shrinks

LEMMA StepKinds ==
    ASSUME TypeOK, [Next]_vars
    PROVE  \/ Shrinks
           \/ \E p \in Reqs : LoginAccept(p) \/ DeleteOld(p) \/ SaveRefreshToken(p)
<1>1. ASSUME NEW p \in Reqs, NEW u \in Users, LoginFind(p, u) PROVE Shrinks
  BY <1>1, StepShrinks DEF LoginFind
<1>2. ASSUME NEW p \in Reqs, NEW t \in issued, RefreshFind(p, t) PROVE Shrinks
  BY <1>2, StepShrinks DEF RefreshFind
<1>3. ASSUME NEW p \in Reqs, NEW u \in Users,
             NEW only \in issued \cup {NoToken}, LogoutBegin(p, u, only)
      PROVE  Shrinks
  BY <1>3, StepShrinks DEF LogoutBegin
<1>4. ASSUME NEW p \in Reqs,
             \/ LoginRefuse(p) \/ DeleteOldThrows(p) \/ SaveThrows(p)
             \/ Reply(p) \/ DeleteRefreshTokens(p) \/ Crash(p)
      PROVE  Shrinks
  <2>1. Idle.pc # "save"
    BY DEF Idle
  <2>2. rows' \subseteq rows /\ opened' = opened /\ Step(p, Idle)
    BY <1>4 DEF LoginRefuse, DeleteOldThrows, SaveThrows, Reply,
                DeleteRefreshTokens, Crash
  <2> QED BY <2>1, <2>2, StepShrinks
<1>5. ASSUME \/ \E u \in Users, a \in BOOLEAN : UserSetActive(u, a)
             \/ \E u \in Users : UserRemove(u)
             \/ CleanupExpiredTokens \/ Tick \/ UNCHANGED vars
      PROVE  Shrinks
  BY <1>5 DEF UserSetActive, UserRemove, CleanupExpiredTokens, Tick, vars, Shrinks
<1> QED
  BY <1>1, <1>2, <1>3, <1>4, <1>5 DEF Next, Serve

-----------------------------------------------------------------------------
(* OneHolder is not inductive alone: a login must also be known to pick a  *)
(* session nobody holds yet.                                               *)
HoldersAreOpened ==
    /\ \A r \in rows : r.ses \in opened
    /\ \A p \in Reqs : Saving(p) => req[p].ses \in opened

HolderInv == OneHolder /\ HoldersAreOpened

LEMMA HolderInvStep ==
    ASSUME TypeOK, HolderInv, [Next]_vars
    PROVE  HolderInv'
<1>1. CASE Shrinks
  BY <1>1 DEF Shrinks, HolderInv, OneHolder, HoldersAreOpened, Saving
<1>2. ASSUME NEW p \in Reqs, LoginAccept(p) PROVE HolderInv'
  <2>1. PICK s \in Session \ opened :
          /\ opened' = opened \cup {s}
          /\ Step(p, [pc |-> "save", new |-> Sign(req[p].user), ses |-> s])
    BY <1>2 DEF LoginAccept
  <2>2. rows' = rows
    BY <1>2 DEF LoginAccept
  <2>3. req'[p].ses = s /\ \A q \in Reqs \ {p} : req'[q] = req[q]
    BY <2>1 DEF Step, TypeOK
  <2> QED BY <2>1, <2>2, <2>3 DEF HolderInv, OneHolder, HoldersAreOpened, Saving
<1>3. ASSUME NEW p \in Reqs, DeleteOld(p) PROVE HolderInv'
  <2>1. PICK r \in rows :
          /\ rows' = rows \ {r}
          /\ Step(p, [pc |-> "save", new |-> req[p].new, ses |-> r.ses])
    BY <1>3 DEF DeleteOld
  <2>2. opened' = opened
    BY <1>3 DEF DeleteOld
  <2>3. req'[p].ses = r.ses /\ \A q \in Reqs \ {p} : req'[q] = req[q]
    BY <2>1 DEF Step, TypeOK
  <2> QED BY <2>1, <2>2, <2>3 DEF HolderInv, OneHolder, HoldersAreOpened, Saving
<1>4. ASSUME NEW p \in Reqs, SaveRefreshToken(p) PROVE HolderInv'
  <2> DEFINE r == [token |-> req[p].new, ses |-> req[p].ses,
                   expiresAt |-> ExpiresAt]
  <2>1. rows' = rows \cup {r} /\ opened' = opened /\ Saving(p)
    BY <1>4 DEF SaveRefreshToken, Saving
  <2>2. r.ses = req[p].ses
    OBVIOUS
  <2>3. req'[p].pc # "save" /\ \A q \in Reqs \ {p} : req'[q] = req[q]
    BY <1>4 DEF SaveRefreshToken, Step, TypeOK
  <2> HIDE DEF r
  <2> QED BY <2>1, <2>2, <2>3 DEF HolderInv, OneHolder, HoldersAreOpened, Saving
<1> QED
  BY <1>1, <1>2, <1>3, <1>4, StepKinds

(* Sessions are not forked: at every moment a session is held by one row   *)
(* or one request.  It says nothing of token strings, which may be stored  *)
(* again within the second of their signing: SpentForGood does.            *)
THEOREM SessionsAreNotForked == Spec => []OneHolder
<1>1. Init => HolderInv
  BY DEF Init, HolderInv, OneHolder, HoldersAreOpened, Saving, Idle
<1>2. TypeOK /\ HolderInv /\ [Next]_vars => HolderInv'
  BY HolderInvStep
<1>3. HolderInv => OneHolder
  BY DEF HolderInv
<1> QED BY <1>1, <1>2, <1>3, TypeCorrect, PTL DEF Spec

-----------------------------------------------------------------------------
(* The only step that adds a row is createRefreshToken.                    *)
LEMMA RowsStep ==
    ASSUME TypeOK, [Next]_vars
    PROVE  rows' \subseteq rows \/ \E p \in Reqs : SaveRefreshToken(p)
<1>1. ASSUME NEW p \in Reqs, LoginAccept(p) \/ DeleteOld(p)
      PROVE  rows' \subseteq rows
  BY <1>1 DEF LoginAccept, DeleteOld
<1> QED BY <1>1, StepKinds DEF Shrinks

(* No two rows share a token string.                                       *)
THEOREM UniqueTokens == Spec => []TokensAreUnique
<1>1. Init => TokensAreUnique
  BY DEF Init, TokensAreUnique
<1>2. ASSUME TypeOK, TokensAreUnique, [Next]_vars PROVE TokensAreUnique'
  <2>1. CASE rows' \subseteq rows
    BY <1>2, <2>1 DEF TokensAreUnique
  <2>2. ASSUME NEW p \in Reqs, SaveRefreshToken(p) PROVE TokensAreUnique'
    <3> DEFINE r == [token |-> req[p].new, ses |-> req[p].ses,
                     expiresAt |-> ExpiresAt]
    <3>1. rows' = rows \cup {r} /\ \A o \in rows : o.token # r.token
      BY <2>2 DEF SaveRefreshToken, Insertable
    <3> HIDE DEF r
    <3> QED BY <1>2, <3>1 DEF TokensAreUnique
  <2> QED BY <1>2, <2>1, <2>2, RowsStep
<1> QED BY <1>1, <1>2, TypeCorrect, PTL DEF Spec

(* No row of a removed account, whatever was in flight when it was removed. *)
THEOREM AccountIntegrity == Spec => []NoRowOfDeletedUser
<1>1. Init => NoRowOfDeletedUser
  BY DEF Init, NoRowOfDeletedUser
<1>2. TypeOK /\ NoRowOfDeletedUser /\ [Next]_vars => NoRowOfDeletedUser'
  <2> SUFFICES ASSUME TypeOK, NoRowOfDeletedUser, [Next]_vars
               PROVE  NoRowOfDeletedUser'
    OBVIOUS
  <2>1. ASSUME NEW r \in rows' PROVE r.token.user \in Users
    BY TypeStep DEF TypeOK, Row, Token
  <2>2. ASSUME NEW p \in Reqs, SaveRefreshToken(p) PROVE NoRowOfDeletedUser'
    BY <2>2 DEF SaveRefreshToken, Insertable, NoRowOfDeletedUser
  <2>3. ASSUME NEW u \in Users, NEW a \in BOOLEAN, UserSetActive(u, a)
        PROVE  NoRowOfDeletedUser'
    BY <2>1, <2>3 DEF UserSetActive, NoRowOfDeletedUser, TypeOK
  <2>4. ASSUME NEW u \in Users, UserRemove(u) PROVE NoRowOfDeletedUser'
    BY <2>1, <2>4 DEF UserRemove, NoRowOfDeletedUser, TypeOK
  <2>5. CASE rows' \subseteq rows /\ account' = account
    BY <2>5 DEF NoRowOfDeletedUser
  <2>6. \/ account' = account
        \/ \E u \in Users, a \in BOOLEAN : UserSetActive(u, a)
        \/ \E u \in Users : UserRemove(u)
    BY DEF Next, Serve, vars, LoginFind, LoginAccept, LoginRefuse, RefreshFind,
           DeleteOld, DeleteOldThrows, SaveRefreshToken, SaveThrows, Reply,
           LogoutBegin, DeleteRefreshTokens, Crash, CleanupExpiredTokens, Tick
  <2> QED BY <2>2, <2>3, <2>4, <2>5, <2>6, RowsStep
<1> QED BY <1>1, <1>2, TypeCorrect, PTL DEF Spec

-----------------------------------------------------------------------------
(* The token a request is about to store was signed in this step, or it    *)
(* was about to store it before.                                           *)
LEMMA NewTokens ==
    ASSUME TypeOK, [Next]_vars, NEW q \in Reqs,
           req'[q].pc \in {"rotate", "save"}
    PROVE  \/ req'[q].new.iat = now
           \/ req[q].pc \in {"rotate", "save"} /\ req'[q].new = req[q].new
<1> DEFINE Kept == \/ req'[q].new.iat = now
                   \/ req[q].pc \in {"rotate", "save"} /\ req'[q].new = req[q].new
<1>1. ASSUME NEW p \in Reqs, NEW r, r.pc \notin {"rotate", "save"}, Step(p, r)
      PROVE  Kept
  BY <1>1 DEF Step, TypeOK
<1>2. ASSUME NEW p \in Reqs, NEW u \in Users, LoginFind(p, u) PROVE Kept
  BY <1>1, <1>2 DEF LoginFind
<1>3. ASSUME NEW p \in Reqs, LoginAccept(p) PROVE Kept
  BY <1>3 DEF LoginAccept, Step, Sign, TypeOK
<1>4. ASSUME NEW p \in Reqs, NEW t \in issued, RefreshFind(p, t) PROVE Kept
  BY <1>4 DEF RefreshFind, Step, Sign, TypeOK
<1>5. ASSUME NEW p \in Reqs, DeleteOld(p) PROVE Kept
  BY <1>5 DEF DeleteOld, Step, TypeOK
<1>6. ASSUME NEW p \in Reqs, SaveRefreshToken(p) PROVE Kept
  BY <1>1, <1>6 DEF SaveRefreshToken
<1>7. ASSUME NEW p \in Reqs, NEW u \in Users,
             NEW only \in issued \cup {NoToken}, LogoutBegin(p, u, only)
      PROVE  Kept
  BY <1>1, <1>7 DEF LogoutBegin
<1>8. ASSUME NEW p \in Reqs,
             \/ LoginRefuse(p) \/ DeleteOldThrows(p) \/ SaveThrows(p)
             \/ Reply(p) \/ DeleteRefreshTokens(p) \/ Crash(p)
      PROVE  Kept
  <2>1. Step(p, Idle)
    BY <1>8 DEF LoginRefuse, DeleteOldThrows, SaveThrows, Reply,
                DeleteRefreshTokens, Crash
  <2> QED BY <1>1, <2>1 DEF Idle
<1>9. ASSUME req' = req PROVE Kept
  BY <1>9
<1> HIDE DEF Kept
<1>10. ASSUME NEW p \in Reqs, Serve(p) PROVE Kept
  BY <1>2, <1>3, <1>4, <1>5, <1>6, <1>7, <1>8, <1>10 DEF Serve
<1>11. (\E p \in Reqs : Serve(p)) \/ req' = req
  BY DEF Next, UserSetActive, UserRemove, CleanupExpiredTokens, Tick, vars
<1>12. Kept
  BY <1>9, <1>10, <1>11
<1> QED BY <1>12 DEF Kept

(* The clock goes on, and the environment stays.                           *)
LEMMA ClockStep ==
    ASSUME TypeOK, [Next]_vars
    PROVE  env' = env /\ now \in Nat /\ now' \in Nat /\ now <= now'
<1>1. now' = now \/ now' = now + 1
  BY DEF Next, Serve, vars, LoginFind, LoginAccept, LoginRefuse, RefreshFind,
         DeleteOld, DeleteOldThrows, SaveRefreshToken, SaveThrows, Reply,
         LogoutBegin, DeleteRefreshTokens, Crash, UserSetActive, UserRemove,
         CleanupExpiredTokens, Tick
<1>2. env' = env
  BY DEF Next, vars
<1> QED BY <1>1, <1>2, ClockBound DEF TypeOK

(* A spent token stays spent: a string whose second of signing is over is  *)
(* stored again by nobody, whatever was in progress when it was spent.     *)
THEOREM SpentForGood == Spec => SpentTokensStaySpent
<1>1. TypeOK /\ [Next]_vars =>
        [\A t \in issued : Spent(t) => Spent(t)']_vars
  <2> SUFFICES ASSUME TypeOK, [Next]_vars, NEW t \in issued, Spent(t)
               PROVE  Spent(t)'
    OBVIOUS
  <2>1. t.iat \in Nat /\ t.iat < now'
    BY ClockStep DEF Spent, TypeOK, Token
  <2>2. ASSUME NEW q \in Reqs, req'[q].pc \in {"rotate", "save"}
        PROVE  req'[q].new # t
    BY <2>1, <2>2, NewTokens, ClockStep DEF Spent
  <2>3. ASSUME NEW r \in rows' PROVE r.token # t
    <3>1. ASSUME NEW p \in Reqs, SaveRefreshToken(p) PROVE r.token # t
      BY <3>1 DEF SaveRefreshToken, Spent
    <3> QED BY <3>1, RowsStep DEF Spent
  <2> QED BY <2>1, <2>2, <2>3 DEF Spent
<1> QED BY <1>1, TypeCorrect, PTL DEF Spec, SpentTokensStaySpent

-----------------------------------------------------------------------------
(* RowOutlivesJwt needs the arithmetic behind it: a row's expiry counts    *)
(* from the moment it is written, which is no earlier than the signature,  *)
(* and the local clock takes from it no more than CutShort allows.         *)
Lasts(iat, expiresAt) ==
    \/ iat + env.lasts <= expiresAt
    \/ /\ env.shift > 0 /\ iat < env.change /\ env.change <= expiresAt
       /\ expiresAt + env.shift >= iat + env.lasts
    \/ /\ env.shift < 0 /\ env.lasts < -env.shift /\ env.change <= now
       /\ expiresAt - env.shift >= iat + env.lasts

Lifetime ==
    /\ \A r \in rows : Lasts(r.token.iat, r.expiresAt)
    /\ \A p \in Reqs : req[p].pc \in {"rotate", "save"} => req[p].new.iat <= now

LEMMA EnvType ==
    ASSUME TypeOK
    PROVE  env.lasts \in Nat /\ env.change \in Nat /\ env.shift \in Int
  BY EnvsAreKnown DEF TypeOK, Env

(* What the conversion through local time can do to a lifetime.            *)
LEMMA ExpiryLasts ==
    ASSUME TypeOK, NEW iat \in Nat, iat <= now
    PROVE  Lasts(iat, ExpiresAt)
<1>1. now \in Nat
  BY DEF TypeOK
<1> QED BY <1>1, EnvType DEF Lasts, ExpiresAt, Moment, Local

LEMMA LifetimeStep ==
    ASSUME TypeOK, Lifetime, [Next]_vars
    PROVE  Lifetime'
<1>1. ASSUME NEW q \in Reqs, req'[q].pc \in {"rotate", "save"}
      PROVE  req'[q].new.iat <= now'
  <2>1. CASE req'[q].new.iat = now
    BY <2>1, ClockStep
  <2>2. CASE req[q].pc \in {"rotate", "save"} /\ req'[q].new = req[q].new
    <3>1. req[q].new.iat \in Nat
      BY <2>2, RequestShape DEF TypeOK, Token
    <3> QED BY <2>2, <3>1, ClockStep DEF Lifetime
  <2> QED BY <1>1, <2>1, <2>2, NewTokens
<1>2. ASSUME NEW r \in rows PROVE Lasts(r.token.iat, r.expiresAt)'
  <2>1. Lasts(r.token.iat, r.expiresAt)
    BY DEF Lifetime
  <2> QED BY <2>1, ClockStep, EnvType DEF Lasts
<1>3. ASSUME NEW p \in Reqs, SaveRefreshToken(p)
      PROVE  \A r \in rows' : Lasts(r.token.iat, r.expiresAt)'
  <2>1. req[p].new.iat \in Nat /\ req[p].new.iat <= now
    BY <1>3, RequestShape DEF SaveRefreshToken, TypeOK, Token, Lifetime
  <2>2. Lasts(req[p].new.iat, ExpiresAt)
    BY <2>1, ExpiryLasts
  <2>3. now' = now /\ env' = env
    BY <1>3, ClockStep DEF SaveRefreshToken
  <2>4. ASSUME NEW r \in rows', r \notin rows
        PROVE  r.token.iat = req[p].new.iat /\ r.expiresAt = ExpiresAt
    BY <1>3, <2>4 DEF SaveRefreshToken
  <2> QED BY <1>2, <2>2, <2>3, <2>4 DEF Lasts
<1>4. \A r \in rows' : Lasts(r.token.iat, r.expiresAt)'
  BY <1>2, <1>3, RowsStep
<1> QED BY <1>1, <1>4 DEF Lifetime

(* A row that has expired while its JWT verifies was cut short by a change *)
(* of the local clock, in any zone and for any lifetime.                   *)
THEOREM RowsOutliveTheirJwt == Spec => []RowOutlivesJwt
<1>1. Init => Lifetime
  BY DEF Init, Lifetime, Idle
<1>2. TypeOK /\ Lifetime /\ [Next]_vars => Lifetime'
  BY LifetimeStep
<1>3. TypeOK /\ Lifetime => RowOutlivesJwt
  <2> SUFFICES ASSUME TypeOK, Lifetime, NEW r \in rows,
                      JwtValid(r.token), Expired(r)
               PROVE  CutShort(r)
    BY DEF RowOutlivesJwt
  <2>1. /\ r.token.iat \in Nat /\ r.expiresAt \in Nat /\ now \in Nat
        /\ Lasts(r.token.iat, r.expiresAt)
    BY DEF TypeOK, Row, Token, Lifetime
  <2> QED BY <2>1, EnvType DEF Lasts, CutShort, JwtValid, Expired
<1> QED BY <1>1, <1>2, <1>3, TypeCorrect, PTL DEF Spec

(* The nightly cleanup logs a client out only by the local clock: a row it *)
(* deletes holds a token that no longer verifies, or was cut short.        *)
THEOREM CleanupLogsOutByClockOnly ==
    Spec =>
        [][CleanupExpiredTokens =>
             \A r \in rows \ rows' : JwtValid(r.token) => CutShort(r)]_vars
<1>1. RowOutlivesJwt =>
        [CleanupExpiredTokens =>
           \A r \in rows \ rows' : JwtValid(r.token) => CutShort(r)]_vars
  BY DEF RowOutlivesJwt, CleanupExpiredTokens
<1> QED BY <1>1, RowsOutliveTheirJwt, PTL DEF Spec

-----------------------------------------------------------------------------
(* A request that is none of u's before the step, and none of u's after.   *)
Apart(q, u) == req[q].pc \in {"verify", "rotate", "save"} => Owner(req[q]) # u

LEMMA ApartStep ==
    ASSUME TypeOK, NEW u \in Users, account[u] # "active",
           NEW p \in Reqs, Serve(p), \A q \in Reqs : Apart(q, u)
    PROVE  \A q \in Reqs : Apart(q, u)'
<1>1. ASSUME NEW w \in Users, LoginFind(p, w) PROVE Apart(p, u)'
  BY <1>1 DEF LoginFind, Step, Apart, Owner, TypeOK
<1>2. ASSUME LoginAccept(p) PROVE Apart(p, u)'
  <2>1. req[p].user # u
    BY <1>2 DEF LoginAccept, Apart, Owner
  <2>2. req'[p].pc = "save" /\ req'[p].new.user = req[p].user
    BY <1>2 DEF LoginAccept, Step, Sign, TypeOK
  <2> QED BY <1>2, <2>1, <2>2 DEF LoginAccept, Step, Apart, Owner, TypeOK
<1>3. ASSUME NEW t \in issued, RefreshFind(p, t) PROVE Apart(p, u)'
  <2>1. t.user # u
    BY <1>3 DEF RefreshFind
  <2>2. req'[p].pc = "rotate" /\ req'[p].new.user = t.user
    BY <1>3 DEF RefreshFind, Step, Sign, TypeOK
  <2> QED BY <2>1, <2>2 DEF Apart, Owner
<1>4. ASSUME DeleteOld(p) PROVE Apart(p, u)'
  <2>1. req[p].new.user # u
    BY <1>4 DEF DeleteOld, Apart, Owner
  <2>2. req'[p].pc = "save" /\ req'[p].new = req[p].new
    BY <1>4 DEF DeleteOld, Step, TypeOK
  <2> QED BY <2>1, <2>2 DEF Apart, Owner
<1>5. ASSUME SaveRefreshToken(p) PROVE Apart(p, u)'
  BY <1>5 DEF SaveRefreshToken, Step, Apart, TypeOK
<1>6. ASSUME NEW w \in Users, NEW only \in issued \cup {NoToken},
             LogoutBegin(p, w, only)
      PROVE  Apart(p, u)'
  BY <1>6 DEF LogoutBegin, Step, Apart, TypeOK
<1>7. ASSUME Step(p, Idle) PROVE Apart(p, u)'
  BY <1>7 DEF Step, Idle, Apart, TypeOK
<1>8. Apart(p, u)'
  BY <1>1, <1>2, <1>3, <1>4, <1>5, <1>6, <1>7
  DEF Serve, LoginRefuse, DeleteOldThrows, SaveThrows, Reply,
      DeleteRefreshTokens, Crash
<1>9. \A q \in Reqs \ {p} : req'[q] = req[q]
  <2>1. \E r : Step(p, r)
    BY DEF Serve, LoginFind, LoginAccept, LoginRefuse, RefreshFind, DeleteOld,
           DeleteOldThrows, SaveRefreshToken, SaveThrows, Reply, LogoutBegin,
           DeleteRefreshTokens, Crash
  <2> QED BY <2>1 DEF Step, TypeOK
<1> QED BY <1>8, <1>9 DEF Apart

(* Deactivating or removing an account is final for the sessions of that   *)
(* account once the requests that had read it as active are over.          *)
THEOREM Deactivation == Spec => DeactivationHolds
<1> DEFINE Held(u) == \/ account'[u] = "active"
                      \/ /\ Quiet(u)'
                         /\ {r \in rows' : r.token.user = u} \subseteq rows
<1>1. TypeOK /\ [Next]_vars => [\A u \in Users : Quiet(u) => Held(u)]_vars
  <2> SUFFICES ASSUME TypeOK, [Next]_vars, NEW u \in Users, Quiet(u)
               PROVE  Held(u)
    OBVIOUS
  <2>1. account[u] # "active" /\ \A q \in Reqs : Apart(q, u)
    BY DEF Quiet, Apart
  <2>2. (account'[u] # "active" /\ \A q \in Reqs : Apart(q, u)') => Quiet(u)'
    BY DEF Quiet, Apart
  <2>3. {r \in rows' : r.token.user = u} \subseteq rows
    <3>1. ASSUME NEW p \in Reqs, SaveRefreshToken(p)
          PROVE  {r \in rows' : r.token.user = u} \subseteq rows
      <4>1. req[p].new.user # u
        BY <2>1, <3>1 DEF SaveRefreshToken, Apart, Owner
      <4> QED BY <3>1, <4>1 DEF SaveRefreshToken
    <3> QED BY <3>1, RowsStep
  <2>4. ASSUME NEW p \in Reqs, Serve(p) PROVE Held(u)
    <3>1. account' = account
      BY <2>4 DEF Serve, LoginFind, LoginAccept, LoginRefuse, RefreshFind,
             DeleteOld, DeleteOldThrows, SaveRefreshToken, SaveThrows, Reply,
             LogoutBegin, DeleteRefreshTokens, Crash
    <3>2. \A q \in Reqs : Apart(q, u)'
      BY <2>1, <2>4, ApartStep
    <3> QED BY <2>1, <2>2, <2>3, <3>1, <3>2
  <2>5. ASSUME req' = req PROVE Held(u)
    <3>1. \A q \in Reqs : Apart(q, u)'
      BY <2>1, <2>5 DEF Apart
    <3> QED BY <2>2, <2>3, <3>1
  <2> QED
    BY <2>4, <2>5
    DEF Next, vars, UserSetActive, UserRemove, CleanupExpiredTokens, Tick
<1> QED BY <1>1, TypeCorrect, PTL DEF Spec, DeactivationHolds

-----------------------------------------------------------------------------
(* With one row per session, the row the mapping chooses is that row.      *)
LEMMA ChosenRow ==
    ASSUME NEW R, NEW r \in R,
           \A r1, r2 \in R : r1.ses = r2.ses => r1 = r2
    PROVE  (CHOOSE x \in R : x.ses = r.ses) = r
  OBVIOUS

LEMMA PlaceStored ==
    ASSUME HolderInv, NEW r \in rows
    PROVE  Place(r.ses) = [at |-> "stored", token |-> r.token]
  BY ChosenRow DEF HolderInv, OneHolder, HoldersAreOpened, Place

LEMMA PlaceStoredNext ==
    ASSUME HolderInv', NEW r \in rows'
    PROVE  Place(r.ses)' = [at |-> "stored", token |-> r.token]
  BY ChosenRow DEF HolderInv, OneHolder, HoldersAreOpened, Place

LEMMA PlaceInFlight ==
    ASSUME HolderInv, NEW p \in Reqs, Saving(p)
    PROVE  Place(req[p].ses) = [at |-> "in flight"]
  BY DEF HolderInv, OneHolder, HoldersAreOpened, Place

LEMMA PlaceInFlightNext ==
    ASSUME HolderInv', NEW s, NEW p \in Reqs, Saving(p)', req'[p].ses = s
    PROVE  Place(s)' = [at |-> "in flight"]
  BY DEF HolderInv, OneHolder, HoldersAreOpened, Place, Saving

(* A session whose row, holders and opening a step leaves alone stays put. *)
LEMMA PlaceKept ==
    ASSUME NEW s, s \in opened' <=> s \in opened,
           HolderInv, HolderInv',
           \A r : r.ses = s => (r \in rows' <=> r \in rows),
           \A q \in Reqs : (Saving(q) /\ req[q].ses = s)
                              <=> (Saving(q)' /\ req'[q].ses = s)
    PROVE  Place(s)' = Place(s)
<1>1. CASE \E r \in rows : r.ses = s
  <2>1. PICK r \in rows : r.ses = s
    BY <1>1
  <2>2. r \in rows'
    BY <2>1
  <2> QED BY <2>1, <2>2, PlaceStored, PlaceStoredNext
<1>2. CASE ~\E r \in rows : r.ses = s
  <2>1. ~\E r \in rows' : r.ses = s
    BY <1>2
  <2> QED BY <1>2, <2>1 DEF Place, Saving
<1> QED BY <1>1, <1>2

(* Each step of a handler is a step of the abstract sessions or hidden.    *)
LEMMA SessionsStep ==
    ASSUME TypeOK, HolderInv, TokensAreUnique, [Next]_vars
    PROVE  [Abs!Next]_(Abs!vars)
<1> DEFINE P == [s \in Session |-> Place(s)]
<1> HolderInv'
  BY HolderInvStep
<1>t. opened \subseteq Session /\ opened' \subseteq Session
  BY TypeStep DEF TypeOK
<1>1. CASE Shrinks
  <2> DEFINE S == {s \in opened : Place(s)' # Place(s)}
  <2>1. ASSUME NEW s \in S PROVE Place(s)' = [at |-> "ended"]
    <3>1. ~\E r \in rows' : r.ses = s
      BY <1>1, PlaceStored, PlaceStoredNext DEF Shrinks
    <3>2. ASSUME NEW q \in Reqs, Saving(q)', req'[q].ses = s PROVE FALSE
      <4>1. Saving(q) /\ req[q].ses = s
        BY <1>1, <3>2 DEF Shrinks, Saving
      <4> QED BY <3>2, <4>1, PlaceInFlight, PlaceInFlightNext
    <3> QED BY <1>1, <3>1, <3>2 DEF Shrinks, Place, Saving
  <2>2. ASSUME NEW s \in Session \ opened PROVE Place(s)' = Place(s)
    BY <1>1 DEF Shrinks, Place
  <2>3. P' = [s \in Session |-> IF s \in S THEN [at |-> "ended"] ELSE P[s]]
    BY <2>1, <2>2
  <2>4. \A s \in S : P[s] # [at |-> "unopened"]
    BY <1>t DEF Place
  <2>5. S \in SUBSET Session
    BY <1>t
  <2> HIDE DEF S
  <2>6. Abs!End(S)
    BY <2>3, <2>4, <2>5 DEF Abs!End, Abs!Unopened, Abs!Ended
  <2> QED BY <2>5, <2>6 DEF Abs!Next
<1>2. ASSUME NEW p \in Reqs, LoginAccept(p) PROVE Abs!Next
  <2>1. PICK s \in Session \ opened :
          /\ opened' = opened \cup {s}
          /\ Step(p, [pc |-> "save", new |-> Sign(req[p].user), ses |-> s])
    BY <1>2 DEF LoginAccept
  <2>2. rows' = rows /\ ~Saving(p)
    BY <1>2 DEF LoginAccept, Saving
  <2>3. /\ req'[p].ses = s /\ req'[p].pc = "save"
        /\ \A q \in Reqs \ {p} : req'[q] = req[q]
    BY <2>1 DEF Step, TypeOK
  <2>4. Place(s) = [at |-> "unopened"]
    BY DEF Place
  <2>5. Place(s)' = [at |-> "in flight"]
    BY <2>3, PlaceInFlightNext DEF Saving
  <2>6. ASSUME NEW o \in Session, o # s PROVE Place(o)' = Place(o)
    BY <2>1, <2>2, <2>3, <2>6, PlaceKept DEF Saving
  <2>7. Abs!Open(s)
    BY <2>4, <2>5, <2>6 DEF Abs!Open, Abs!Unopened, Abs!InFlight
  <2> QED BY <2>7 DEF Abs!Next
<1>3. ASSUME NEW p \in Reqs, DeleteOld(p) PROVE Abs!Next
  <2>1. PICK r \in rows :
          /\ rows' = rows \ {r}
          /\ Step(p, [pc |-> "save", new |-> req[p].new, ses |-> r.ses])
    BY <1>3 DEF DeleteOld
  <2>2. opened' = opened /\ ~Saving(p)
    BY <1>3 DEF DeleteOld, Saving
  <2>3. /\ req'[p].ses = r.ses /\ req'[p].pc = "save"
        /\ \A q \in Reqs \ {p} : req'[q] = req[q]
    BY <2>1 DEF Step, TypeOK
  <2>4. Place(r.ses) = [at |-> "stored", token |-> r.token]
    BY PlaceStored
  <2>5. Place(r.ses)' = [at |-> "in flight"]
    BY <2>3, PlaceInFlightNext DEF Saving
  <2>6. ASSUME NEW o \in Session, o # r.ses PROVE Place(o)' = Place(o)
    BY <2>1, <2>2, <2>3, <2>6, PlaceKept DEF Saving
  <2>7. r.ses \in Session /\ r.token \in Token
    BY DEF TypeOK, Row
  <2>8. Abs!Redeem(r.ses)
    BY <2>4, <2>5, <2>6, <2>7 DEF Abs!Redeem, Abs!Stored, Abs!InFlight
  <2> QED BY <2>7, <2>8 DEF Abs!Next
<1>4. ASSUME NEW p \in Reqs, SaveRefreshToken(p) PROVE Abs!Next
  <2>0. PICK r : r = [token |-> req[p].new, ses |-> req[p].ses,
                      expiresAt |-> ExpiresAt]
    OBVIOUS
  <2>1. /\ rows' = rows \cup {r} /\ opened' = opened /\ Saving(p)
        /\ \A o \in rows : o.token # r.token
    BY <1>4, <2>0 DEF SaveRefreshToken, Insertable, Saving
  <2>2. req'[p].pc # "save" /\ \A q \in Reqs \ {p} : req'[q] = req[q]
    BY <1>4 DEF SaveRefreshToken, Step, TypeOK
  <2>3. r.ses = req[p].ses /\ r.ses \in Session /\ r.token \in Token
    BY <2>0, <2>1, RequestShape DEF Saving, TypeOK
  <2>4. Place(r.ses) = [at |-> "in flight"]
    BY <2>1, <2>3, PlaceInFlight
  <2>5. Place(r.ses)' = [at |-> "stored", token |-> r.token]
    BY <2>1, PlaceStoredNext
  <2>6. ASSUME NEW o \in Session, o # r.ses PROVE Place(o)' = Place(o)
    <3>1. \A q : q.ses = o => (q \in rows' <=> q \in rows)
      BY <2>1, <2>6
    <3>2. \A q \in Reqs : (Saving(q) /\ req[q].ses = o)
                             <=> (Saving(q)' /\ req'[q].ses = o)
      BY <2>1, <2>2, <2>3, <2>6 DEF Saving
    <3> QED BY <2>1, <3>1, <3>2, PlaceKept
  <2>7. ASSUME NEW o \in Session
        PROVE  Place(o) # [at |-> "stored", token |-> r.token]
    <3>1. CASE \E q \in rows : q.ses = o
      <4>1. PICK q \in rows : q.ses = o
        BY <3>1
      <4>2. Place(o) = [at |-> "stored", token |-> q.token]
        BY <4>1, PlaceStored
      <4>3. q.token # r.token
        BY <2>1
      <4>4. Place(o).token = q.token
        BY <4>2
      <4> QED BY <4>3, <4>4
    <3>2. CASE ~\E q \in rows : q.ses = o
      <4>1. Place(o).at # "stored"
        BY <3>2 DEF Place
      <4> QED BY <4>1
    <3> QED BY <3>1, <3>2
  <2>8. Abs!Store(r.ses, r.token)
    BY <2>3, <2>4, <2>5, <2>6, <2>7 DEF Abs!Store, Abs!Stored, Abs!InFlight
  <2> QED BY <2>3, <2>8 DEF Abs!Next
<1> QED BY <1>1, <1>2, <1>3, <1>4, StepKinds

(* The handlers implement the abstract specification of sessions.          *)
THEOREM Refinement == Spec => ImplementsSessions
<1>1. Init => Abs!Init
  BY DEF Init, Abs!Init, Abs!Unopened, Place
<1>2. TypeOK /\ HolderInv /\ TokensAreUnique /\ [Next]_vars
        => [Abs!Next]_(Abs!vars)
  BY SessionsStep
<1>3. Spec => []HolderInv
  <2>1. Init => HolderInv
    BY DEF Init, HolderInv, OneHolder, HoldersAreOpened, Saving, Idle
  <2>2. TypeOK /\ HolderInv /\ [Next]_vars => HolderInv'
    BY HolderInvStep
  <2> QED BY <2>1, <2>2, TypeCorrect, PTL DEF Spec
<1> QED
  BY <1>1, <1>2, <1>3, TypeCorrect, UniqueTokens, PTL
  DEF Spec, ImplementsSessions, Abs!Spec
=============================================================================
