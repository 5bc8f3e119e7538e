------------------------------ MODULE Delivery ------------------------------
(***************************************************************************)
(* What becomes of the mail that a domain event asks for, without queues,  *)
(* workers, backoff or crashes.  Until the queue has accepted it, it may be *)
(* lost.  From then on it is kept: it is recorded as delivered only after  *)
(* it went out, perhaps more than once, and it is given up only when its   *)
(* tries are used up or it was interrupted too often.                      *)
(***************************************************************************)
EXTENDS Integers

CONSTANTS
    Mails,          \* the mails asked for
    MaxTries,       \* failing tries after which a mail is given up
    MaxInterrupts   \* interruptions a mail survives

VARIABLES
    phase,          \* the phase of each mail
    out,            \* the mails that have been sent, once or more
    tries,          \* failing tries of each mail
    interrupts      \* interruptions of each mail

vars == <<phase, out, tries, interrupts>>

TypeOK ==
    /\ phase \in [Mails -> {"unasked", "asked", "lost", "kept", "delivered",
                            "dead"}]
    /\ out \subseteq Mails
    /\ tries \in [Mails -> 0..MaxTries]
    /\ interrupts \in [Mails -> 0..MaxInterrupts]

Init ==
    /\ phase = [m \in Mails |-> "unasked"]
    /\ out = {}
    /\ tries = [m \in Mails |-> 0]
    /\ interrupts = [m \in Mails |-> 0]

Move(m, from, to) == phase[m] = from /\ phase' = [phase EXCEPT ![m] = to]

(* The event is emitted. *)
Ask(m) == Move(m, "unasked", "asked") /\ UNCHANGED <<out, tries, interrupts>>

(* The queue accepts the mail, or whoever asked fails before. *)
Keep(m) == Move(m, "asked", "kept") /\ UNCHANGED <<out, tries, interrupts>>
Lose(m) == Move(m, "asked", "lost") /\ UNCHANGED <<out, tries, interrupts>>

Send(m) ==
    /\ phase[m] = "kept"
    /\ out' = out \cup {m}
    /\ UNCHANGED <<phase, tries, interrupts>>

Deliver(m) ==
    /\ m \in out
    /\ Move(m, "kept", "delivered")
    /\ UNCHANGED <<out, tries, interrupts>>

(* A try fails; the last one gives the mail up. *)
Fail(m) ==
    /\ tries' = [tries EXCEPT ![m] = @ + 1]
    /\ Move(m, "kept", IF tries'[m] = MaxTries THEN "dead" ELSE "kept")
    /\ UNCHANGED <<out, interrupts>>

Interrupt(m) ==
    /\ interrupts[m] < MaxInterrupts
    /\ interrupts' = [interrupts EXCEPT ![m] = @ + 1]
    /\ Move(m, "kept", "kept")
    /\ UNCHANGED <<out, tries>>

GiveUp(m) ==
    /\ interrupts[m] = MaxInterrupts
    /\ Move(m, "kept", "dead")
    /\ UNCHANGED <<out, tries, interrupts>>

Next ==
    \E m \in Mails : \/ Ask(m) \/ Keep(m) \/ Lose(m)
                     \/ Send(m) \/ Deliver(m)
                     \/ Fail(m) \/ Interrupt(m) \/ GiveUp(m)

Spec == Init /\ [][Next]_vars
=============================================================================
