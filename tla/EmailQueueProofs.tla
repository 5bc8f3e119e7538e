-------------------------- MODULE EmailQueueProofs --------------------------
(***************************************************************************)
(* For any number of events, attempts, stalls and crashes: attempts are    *)
(* not exceeded, and the queue with its processor implements Delivery.     *)
(***************************************************************************)
EXTENDS EmailQueue, TLAPS

(* No job but a failed one has used up its attempts, which is why a job    *)
(* that is taken may be tried.                                             *)
AttemptsLeft == \A j \in Jobs : job[j] # "failed" => made[j] < Attempts

LEMMA TypeStep ==
    ASSUME TypeOK, AttemptsLeft, [Next]_vars
    PROVE  TypeOK' /\ AttemptsLeft'
<1> USE AttemptsIsPositive, Bounds DEF TypeOK, AttemptsLeft, Goto
<1>1. ASSUME NEW j \in Jobs, Emit(j) \/ Add(j) \/ AddFails(j)
      PROVE  TypeOK' /\ AttemptsLeft'
  BY <1>1 DEF Emit, Add, AddFails
<1>2. ASSUME NEW j \in Jobs, Take(j) \/ Complete(j) \/ BackoffOver(j)
      PROVE  TypeOK' /\ AttemptsLeft'
  BY <1>2 DEF Take, Complete, BackoffOver
<1>3. ASSUME NEW j \in Jobs, SendEmail(j) PROVE TypeOK' /\ AttemptsLeft'
  BY <1>3 DEF SendEmail
<1>4. ASSUME NEW j \in Jobs, SendEmailFails(j) PROVE TypeOK' /\ AttemptsLeft'
  BY <1>4 DEF SendEmailFails
<1>5. ASSUME NEW j \in Jobs, Crash(j) PROVE TypeOK' /\ AttemptsLeft'
  BY <1>5 DEF Crash
<1>6. CASE UNCHANGED vars
  BY <1>6 DEF vars
<1> QED BY <1>1, <1>2, <1>3, <1>4, <1>5, <1>6 DEF Next, Work

(* Type correctness of the jobs, their attempts and stalls, and the counter. *)
THEOREM TypeCorrect == Spec => []TypeOK
<1>1. Init => TypeOK /\ AttemptsLeft
  BY AttemptsIsPositive, Bounds DEF Init, TypeOK, AttemptsLeft
<1>2. TypeOK /\ AttemptsLeft /\ [Next]_vars => TypeOK' /\ AttemptsLeft'
  BY TypeStep
<1> QED BY <1>1, <1>2, PTL DEF Spec

-----------------------------------------------------------------------------
(* A job whose handler has returned is in sent, and stays there. *)
ReturnedWereSent ==
    \A j \in Jobs : job[j] \in {"returned", "completed"} => j \in sent

LEMMA ReturnedStep ==
    ASSUME TypeOK, ReturnedWereSent, [Next]_vars
    PROVE  ReturnedWereSent'
<1> USE DEF TypeOK, ReturnedWereSent, Goto
<1>1. ASSUME NEW j \in Jobs, Emit(j) \/ Add(j) \/ AddFails(j) \/ Take(j)
                             \/ SendEmailFails(j) \/ BackoffOver(j)
      PROVE  ReturnedWereSent'
  BY <1>1 DEF Emit, Add, AddFails, Take, SendEmailFails, BackoffOver
<1>2. ASSUME NEW j \in Jobs, SendEmail(j) \/ Complete(j)
      PROVE  ReturnedWereSent'
  BY <1>2 DEF SendEmail, Complete
<1>3. ASSUME NEW j \in Jobs, Crash(j) PROVE ReturnedWereSent'
  BY <1>3 DEF Crash
<1>4. CASE UNCHANGED vars
  BY <1>4 DEF vars
<1> QED BY <1>1, <1>2, <1>3, <1>4 DEF Next, Work

LEMMA ReturnedAlways == Spec => []ReturnedWereSent
<1>1. Init => ReturnedWereSent
  BY DEF Init, ReturnedWereSent
<1>2. TypeOK /\ ReturnedWereSent /\ [Next]_vars => ReturnedWereSent'
  BY ReturnedStep
<1> QED BY <1>1, <1>2, TypeCorrect, PTL DEF Spec

-----------------------------------------------------------------------------
(* The phase of each state of a job, before and after a step. *)
LEMMA PhaseOf ==
    ASSUME NEW j \in Jobs
    PROVE  /\ job[j] = "none" => Phase(j) = "unasked"
           /\ job[j] = "adding" => Phase(j) = "asked"
           /\ job[j] \in {"waiting", "active", "returned", "delayed"}
                => Phase(j) = "kept"
  BY DEF Phase

LEMMA PhaseNext ==
    ASSUME NEW j \in Jobs
    PROVE  /\ job'[j] = "adding" => Phase(j)' = "asked"
           /\ job'[j] = "lost" => Phase(j)' = "lost"
           /\ job'[j] = "completed" => Phase(j)' = "delivered"
           /\ job'[j] = "failed" => Phase(j)' = "dead"
           /\ job'[j] \in {"waiting", "active", "returned", "delayed"}
                => Phase(j)' = "kept"
  BY DEF Phase

LEMMA DeliveryStep ==
    ASSUME TypeOK, AttemptsLeft, ReturnedWereSent, [Next]_vars
    PROVE  [Abs!Next]_(Abs!vars)
<1> DEFINE phase == [j \in Jobs |-> Phase(j)]
<1>1. ASSUME NEW j \in Jobs, NEW s, Goto(j, s)
      PROVE  /\ job'[j] = s
             /\ phase' = [phase EXCEPT ![j] = Phase(j)']
  <2>1. job'[j] = s /\ \A k \in Jobs \ {j} : job'[k] = job[k]
    BY <1>1 DEF Goto, TypeOK
  <2>2. \A k \in Jobs \ {j} : Phase(k)' = Phase(k)
    BY <2>1 DEF Phase
  <2> QED BY <2>1, <2>2
<1>2. ASSUME NEW j \in Jobs, Emit(j) PROVE Abs!Ask(j)
  BY <1>1, PhaseOf, PhaseNext, <1>2 DEF Emit, Abs!Ask, Abs!Move
<1>3. ASSUME NEW j \in Jobs, Add(j) PROVE Abs!Keep(j)
  BY <1>1, PhaseOf, PhaseNext, <1>3 DEF Add, Abs!Keep, Abs!Move
<1>4. ASSUME NEW j \in Jobs, AddFails(j) PROVE Abs!Lose(j)
  BY <1>1, PhaseOf, PhaseNext, <1>4 DEF AddFails, Abs!Lose, Abs!Move
<1>5. ASSUME NEW j \in Jobs, Take(j) \/ BackoffOver(j)
      PROVE  UNCHANGED Abs!vars
  BY <1>1, PhaseOf, PhaseNext, <1>5 DEF Take, BackoffOver, Abs!vars
<1>6. ASSUME NEW j \in Jobs, SendEmail(j) PROVE Abs!Send(j)
  BY <1>1, PhaseOf, PhaseNext, <1>6 DEF SendEmail, Abs!Send
<1>7. ASSUME NEW j \in Jobs, Complete(j) PROVE Abs!Deliver(j)
  <2>1. j \in sent
    BY <1>7 DEF Complete, ReturnedWereSent
  <2> QED BY <1>1, PhaseOf, PhaseNext, <1>7, <2>1 DEF Complete, Abs!Deliver, Abs!Move
<1>8. ASSUME NEW j \in Jobs, SendEmailFails(j) PROVE Abs!Fail(j)
  <2>1. made'[j] = made[j] + 1 /\ made[j] + 1 <= Attempts
    BY <1>8, AttemptsIsPositive DEF SendEmailFails, TypeOK, AttemptsLeft
  <2>2. made[j] + 1 < Attempts <=> made'[j] # Attempts
    BY <1>8, <2>1, AttemptsIsPositive DEF TypeOK
  <2>3. Phase(j)' = IF made'[j] = Attempts THEN "dead" ELSE "kept"
    BY <1>1, PhaseOf, PhaseNext, <1>8, <2>2 DEF SendEmailFails, Phase
  <2> QED
    BY <1>1, PhaseOf, PhaseNext, <1>8, <2>3 DEF SendEmailFails, Abs!Fail, Abs!Move
<1>9. ASSUME NEW j \in Jobs, Crash(j) PROVE Abs!Next
  <2>1. CASE job[j] = "adding" /\ Goto(j, "lost") /\ UNCHANGED stalled
    <3>1. Abs!Lose(j)
      BY <1>1, PhaseOf, PhaseNext, <1>9, <2>1 DEF Crash, Abs!Lose, Abs!Move
    <3> QED BY <3>1 DEF Abs!Next
  <2>2. CASE /\ job[j] \in {"active", "returned"} /\ stalled[j] < MaxStalled
             /\ stalled' = [stalled EXCEPT ![j] = @ + 1] /\ Goto(j, "waiting")
    <3>1. Abs!Interrupt(j)
      BY <1>1, PhaseOf, PhaseNext, <1>9, <2>2 DEF Crash, Abs!Interrupt, Abs!Move
    <3> QED BY <3>1 DEF Abs!Next
  <2>3. CASE /\ job[j] \in {"active", "returned"} /\ ~(stalled[j] < MaxStalled)
             /\ Goto(j, "failed") /\ UNCHANGED stalled
    <3>1. stalled[j] = MaxStalled
      BY <2>3, Bounds DEF TypeOK
    <3>2. Abs!GiveUp(j)
      BY <1>1, PhaseOf, PhaseNext, <1>9, <2>3, <3>1 DEF Crash, Abs!GiveUp, Abs!Move
    <3> QED BY <3>2 DEF Abs!Next
  <2> QED BY <1>9, <2>1, <2>2, <2>3 DEF Crash
<1>10. CASE UNCHANGED vars
  BY <1>10 DEF vars, Phase, Abs!vars
<1> QED
  BY <1>2, <1>3, <1>4, <1>5, <1>6, <1>7, <1>8, <1>9, <1>10
  DEF Next, Work, Abs!Next

(* Handlers, queue and processor implement Delivery: a mail is lost only   *)
(* before it is queued and given up only at one of the two limits.         *)
THEOREM Refinement == Spec => ImplementsDelivery
<1>1. Init => Abs!Init
  BY DEF Init, Abs!Init, Phase
<1>2. TypeOK /\ AttemptsLeft /\ ReturnedWereSent /\ [Next]_vars
        => [Abs!Next]_(Abs!vars)
  BY DeliveryStep
<1>3. Spec => [](TypeOK /\ AttemptsLeft)
  <2>1. Init => TypeOK /\ AttemptsLeft
    BY AttemptsIsPositive, Bounds DEF Init, TypeOK, AttemptsLeft
  <2>2. TypeOK /\ AttemptsLeft /\ [Next]_vars => (TypeOK /\ AttemptsLeft)'
    BY TypeStep
  <2> QED BY <2>1, <2>2, PTL DEF Spec
<1> QED
  BY <1>1, PhaseOf, PhaseNext, <1>2, <1>3, ReturnedAlways, PTL
  DEF Spec, ImplementsDelivery, Abs!Spec

-----------------------------------------------------------------------------
(* The order in which an attempt goes on. *)
Onwards == {<<"delayed", "waiting">>, <<"waiting", "active">>,
            <<"active", "returned">>}

(* The measure behind EmailJobsEnd: a job that Bull keeps ends, or has     *)
(* used up one more attempt, or has stalled once more, or goes on within   *)
(* its attempt; failures, backoffs and crashes never give anything back.   *)
(* TypeCorrect bounds the attempts and the stalls.                         *)
THEOREM JobsGoForward ==
    Spec =>
        [][\A j \in Jobs :
             job[j] \in {"waiting", "active", "returned", "delayed"}
             /\ job'[j] # job[j] =>
                /\ made'[j] >= made[j] /\ stalled'[j] >= stalled[j]
                /\ \/ job'[j] \in {"completed", "failed"}
                   \/ made'[j] > made[j]
                   \/ stalled'[j] > stalled[j]
                   \/ <<job[j], job'[j]>> \in Onwards]_vars
<1> DEFINE Forward(j) ==
             job[j] \in {"waiting", "active", "returned", "delayed"}
             /\ job'[j] # job[j] =>
                /\ made'[j] >= made[j] /\ stalled'[j] >= stalled[j]
                /\ \/ job'[j] \in {"completed", "failed"}
                   \/ made'[j] > made[j]
                   \/ stalled'[j] > stalled[j]
                   \/ <<job[j], job'[j]>> \in Onwards
<1>1. ASSUME TypeOK, [Next]_vars, NEW j \in Jobs PROVE Forward(j)
  <2>1. made[j] \in Nat /\ stalled[j] \in Nat
    BY <1>1, AttemptsIsPositive, Bounds DEF TypeOK
  <2> USE <1>1, <2>1 DEF TypeOK, Goto, Onwards
  <2>2. ASSUME NEW k \in Jobs, Emit(k) \/ Add(k) \/ AddFails(k)
        PROVE  Forward(j)
    BY <2>2 DEF Emit, Add, AddFails
  <2>3. ASSUME NEW k \in Jobs, Take(k) \/ SendEmail(k) \/ BackoffOver(k)
        PROVE  Forward(j)
    BY <2>3 DEF Take, SendEmail, BackoffOver
  <2>4. ASSUME NEW k \in Jobs, Complete(k) PROVE Forward(j)
    BY <2>4 DEF Complete
  <2>5. ASSUME NEW k \in Jobs, SendEmailFails(k) PROVE Forward(j)
    BY <2>5 DEF SendEmailFails
  <2>6. ASSUME NEW k \in Jobs, Crash(k) PROVE Forward(j)
    BY <2>6 DEF Crash
  <2>7. CASE UNCHANGED vars
    BY <2>7 DEF vars
  <2> QED BY <2>2, <2>3, <2>4, <2>5, <2>6, <2>7 DEF Next, Work
<1>2. TypeOK /\ [Next]_vars => [\A j \in Jobs : Forward(j)]_vars
  BY <1>1
<1> QED BY <1>2, TypeCorrect, PTL DEF Spec
=============================================================================
