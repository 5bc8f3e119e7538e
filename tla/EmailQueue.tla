----------------------------- MODULE EmailQueue -----------------------------
(***************************************************************************)
(* From a domain event to the mail: UserEmailHandler and                   *)
(* UserNotificationHandler add a job to one of the two Bull queues, and    *)
(* EmailProcessor works on the email queue.  Each event is one job.  The   *)
(* retries, the backoff and the recovery of stalled jobs are Bull's, with  *)
(* the job options of getBullConfig.                                       *)
(***************************************************************************)
EXTENDS Integers, FiniteSets

CONSTANTS
    Jobs,           \* the events
    Notifications,  \* those that go to the notification queue
    Attempts,       \* defaultJobOptions.attempts
    MaxStalled,     \* Bull's maxStalledCount
    MaxCrashes      \* bound on the crashes of instances

ASSUME NotificationsAreJobs == Notifications \subseteq Jobs
ASSUME AttemptsIsPositive == Attempts \in Nat \ {0}
ASSUME Bounds == MaxStalled \in Nat /\ MaxCrashes \in Nat

VARIABLES
    job,        \* the state of each job
    made,       \* attemptsMade of each job
    stalled,    \* how often each job has stalled
    sent,       \* history: the jobs whose mail has been sent
    failures,   \* the counter queue_jobs_failed_total of the email queue
    crashes

vars == <<job, made, stalled, sent, failures, crashes>>

TypeOK ==
    /\ job \in [Jobs -> {"none", "adding", "lost", "waiting", "active",
                         "returned", "delayed", "completed", "failed"}]
    /\ made \in [Jobs -> 0..Attempts]
    /\ stalled \in [Jobs -> 0..MaxStalled]
    /\ sent \subseteq Jobs
    /\ failures \in Nat
    /\ crashes \in 0..MaxCrashes

Init ==
    /\ job = [j \in Jobs |-> "none"]
    /\ made = [j \in Jobs |-> 0]
    /\ stalled = [j \in Jobs |-> 0]
    /\ sent = {}
    /\ failures = 0
    /\ crashes = 0

-----------------------------------------------------------------------------
Goto(j, s) == job' = [job EXCEPT ![j] = s]

(* eventEmitter.emit runs the handler up to queue.add; nobody awaits it.   *)
Emit(j) ==
    /\ job[j] = "none"
    /\ Goto(j, "adding")
    /\ UNCHANGED <<made, stalled, sent, failures, crashes>>

(* sendEmail or sendNotification. *)
Add(j) ==
    /\ job[j] = "adding"
    /\ Goto(j, "waiting")
    /\ UNCHANGED <<made, stalled, sent, failures, crashes>>

(* queue.add rejects: the handler logs it, and the event is forgotten.     *)
AddFails(j) ==
    /\ job[j] = "adding"
    /\ Goto(j, "lost")
    /\ UNCHANGED <<made, stalled, sent, failures, crashes>>

(* Only the email queue has a processor. *)
Take(j) ==
    /\ job[j] = "waiting"
    /\ j \notin Notifications
    /\ Goto(j, "active")
    /\ UNCHANGED <<made, stalled, sent, failures, crashes>>

(* handleSendEmail returns; Bull has not recorded it yet. *)
SendEmail(j) ==
    /\ job[j] = "active"
    /\ sent' = sent \cup {j}
    /\ Goto(j, "returned")
    /\ UNCHANGED <<made, stalled, failures, crashes>>

Complete(j) ==
    /\ job[j] = "returned"
    /\ Goto(j, "completed")
    /\ UNCHANGED <<made, stalled, sent, failures, crashes>>

(* Variant to refute TypeOK: one attempt too many.                         *)
SendEmailOnceMore(j) ==
    /\ job[j] = "active"
    /\ failures' = failures + 1
    /\ made' = [made EXCEPT ![j] = @ + 1]
    /\ Goto(j, IF made[j] < Attempts THEN "delayed" ELSE "failed")
    /\ UNCHANGED <<stalled, sent, crashes>>

(* Variant to refute EmailJobsEnd: attempts without end, the number of the *)
(* last one standing for all that follow.                                  *)
SendEmailRetriesForever(j) ==
    /\ job[j] = "active"
    /\ failures' = IF failures > Attempts * Cardinality(Jobs)
                   THEN failures ELSE failures + 1
    /\ Goto(j, "delayed")
    /\ UNCHANGED <<made, stalled, sent, crashes>>

(* handleSendEmail counts the failure and throws: Bull retries the job     *)
(* after a delay, or gives it up when its attempts are used up.            *)
SendEmailFails(j) ==
    /\ job[j] = "active"
    /\ failures' = failures + 1
    /\ made' = [made EXCEPT ![j] = @ + 1]
    /\ Goto(j, IF made[j] + 1 < Attempts THEN "delayed" ELSE "failed")
    /\ UNCHANGED <<stalled, sent, crashes>>

BackoffOver(j) ==
    /\ job[j] = "delayed"
    /\ Goto(j, "waiting")
    /\ UNCHANGED <<made, stalled, sent, failures, crashes>>

(* Variant to refute ImplementsDelivery: a job is off the queue while it   *)
(* is worked on, and dies with its worker.                                 *)
CrashLosesJob(j) ==
    /\ crashes < MaxCrashes
    /\ crashes' = crashes + 1
    /\ job[j] \in {"adding", "active", "returned"}
    /\ Goto(j, "lost")
    /\ UNCHANGED <<made, stalled, sent, failures>>

(* The instance working on the job dies.  Another one finds it stalled and *)
(* puts it back, or fails it when it has stalled before.                   *)
Crash(j) ==
    /\ crashes < MaxCrashes
    /\ crashes' = crashes + 1
    /\ \/ /\ job[j] = "adding"
          /\ Goto(j, "lost")
          /\ UNCHANGED stalled
       \/ /\ job[j] \in {"active", "returned"}
          /\ IF stalled[j] < MaxStalled
             THEN /\ stalled' = [stalled EXCEPT ![j] = @ + 1]
                  /\ Goto(j, "waiting")
             ELSE Goto(j, "failed") /\ UNCHANGED stalled
    /\ UNCHANGED <<made, sent, failures>>

Work(j) ==
    \/ Take(j) \/ SendEmail(j) \/ Complete(j) \/ SendEmailFails(j)
    \/ BackoffOver(j)

Next ==
    \E j \in Jobs : Emit(j) \/ Add(j) \/ AddFails(j) \/ Work(j) \/ Crash(j)

Spec == Init /\ [][Next]_vars

(* Some instance takes waiting jobs and goes on with them. *)
FairSpec == Spec /\ \A j \in Jobs : WF_vars(Work(j))

-----------------------------------------------------------------------------
Ended(j) == job[j] \in {"completed", "failed"}

(* An email job that is in the queue ends: failing sends, backoffs and     *)
(* stalls do not keep it there for ever.                                   *)
EmailJobsEnd ==
    \A j \in Jobs \ Notifications : job[j] = "waiting" ~> Ended(j)

-----------------------------------------------------------------------------
(* The refinement mapping: Bull keeps a job in any state between its add   *)
(* and its end.                                                            *)
Phase(j) ==
    CASE job[j] = "none" -> "unasked"
      [] job[j] = "adding" -> "asked"
      [] job[j] = "lost" -> "lost"
      [] job[j] = "completed" -> "delivered"
      [] job[j] = "failed" -> "dead"
      [] job[j] \in {"waiting", "active", "returned", "delayed"} -> "kept"

Abs == INSTANCE Delivery WITH
           Mails <- Jobs, MaxTries <- Attempts, MaxInterrupts <- MaxStalled,
           phase <- [j \in Jobs |-> Phase(j)], out <- sent,
           tries <- made, interrupts <- stalled

(* An event is lost before its job is added or not at all, and a mail is   *)
(* given up only for the two limits of getBullConfig and Bull, whatever    *)
(* fails and crashes.                                                      *)
ImplementsDelivery == Abs!Spec
=============================================================================
