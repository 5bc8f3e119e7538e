------------------------------ MODULE Sessions ------------------------------
(***************************************************************************)
(* What the refresh tokens of the auth domain promise, without requests,  *)
(* rows or clocks.  A login opens a session.  At every moment a session    *)
(* is in one place: stored under one token string that no other session    *)
(* is stored under, in flight inside the one request that took it out of   *)
(* the store, or ended; and an ended session never comes back.             *)
(***************************************************************************)
CONSTANTS
    Session,    \* identities of login sessions
    Token       \* refresh token strings

VARIABLE place  \* place[s]: where session s is

vars == <<place>>

Unopened  == [at |-> "unopened"]
InFlight  == [at |-> "in flight"]
Ended     == [at |-> "ended"]
Stored(t) == [at |-> "stored", token |-> t]

Place == {Unopened, InFlight, Ended} \cup {Stored(t) : t \in Token}

TypeOK == place \in [Session -> Place]

Init == place = [s \in Session |-> Unopened]

(* A login has checked the password and signed a token. *)
Open(s) ==
    /\ place[s] = Unopened
    /\ place' = [place EXCEPT ![s] = InFlight]

(* The request holding s writes it to the store under a fresh string. *)
Store(s, t) ==
    /\ place[s] = InFlight
    /\ \A o \in Session : place[o] # Stored(t)
    /\ place' = [place EXCEPT ![s] = Stored(t)]

(* A refresh takes s out of the store: exactly one request can. *)
Redeem(s) ==
    /\ \E t \in Token : place[s] = Stored(t)
    /\ place' = [place EXCEPT ![s] = InFlight]

(* Logout, expiry, deletion of the account or a failed request. *)
End(S) ==
    /\ \A s \in S : place[s] # Unopened
    /\ place' = [s \in Session |-> IF s \in S THEN Ended ELSE place[s]]

Next ==
    \/ \E s \in Session : Open(s) \/ Redeem(s) \/ \E t \in Token : Store(s, t)
    \/ \E S \in SUBSET Session : End(S)

Spec == Init /\ [][Next]_vars
=============================================================================
