------------------------------ MODULE Control ------------------------------
(***************************************************************************)
(* Who may change OBS: the cooperative lease, the lock of a running take   *)
(* and the confirmation of live actions (control.rs).  A request is a      *)
(* record: the caller, the class of its tool, whether confirmation is      *)
(* enabled and can be asked for, the typed answer and the confirm flag of  *)
(* the arguments.  Names of tools are reduced to the classes the policy    *)
(* tells apart; the lease runs out in a step of the clock.                 *)
(***************************************************************************)
EXTENDS Integers, FiniteSets

CONSTANTS Callers,     \* identified callers
          Anonymous    \* a caller that did not identify itself

ASSUME ControlAssumption == Anonymous \notin Callers

VARIABLES lease,       \* the holder of the lease, or "free"
          takeLock     \* a take runs with its lock

controlVars == <<lease, takeLock>>

Everyone == Callers \union {Anonymous}
Answers == {"missing", "accepted", "declined"}
Tools == {"read", "stop", "settings", "live", "edit"}

Request(caller, tool, enabled, elicit, answer, confirm) ==
    [caller |-> caller, tool |-> tool, enabled |-> enabled, elicit |-> elicit,
     answer |-> answer, confirm |-> confirm]

\* The lease gate spares reads, claims and stops.
AlwaysAllowed(tool) == tool \in {"read", "stop"}
\* Settings of profile, collection, canvas, directory, service or output.
LockedAction(tool) == tool = "settings"
\* Tools whose use on air is asked about; stopping is one of them.
LiveQuestion(tool) == tool \in {"live", "stop"}

\* ConfirmationAnswer: an accepted answer with false is a declined one.
Confirmed(r) ==
    IF r.answer = "accepted" THEN "allow"
    ELSE IF r.answer = "declined" THEN "cancelled"
    ELSE IF r.elicit THEN "input"
    ELSE IF r.confirm THEN "allow"
    ELSE "refused"

HeldByOther(r) == lease # "free" /\ lease # r.caller

\* ControlDomain::evaluate: lease, then take lock, then confirmation.
Evaluate(r) ==
    IF ~AlwaysAllowed(r.tool) /\ HeldByOther(r) THEN "refused"
    ELSE IF takeLock /\ LockedAction(r.tool) THEN "refused"
    ELSE IF ~r.enabled \/ ~LiveQuestion(r.tool) THEN "allow"
    ELSE Confirmed(r)

\* claim: an unidentified caller cannot hold the lease, nobody takes it from
\* its holder, and the holder renews it.
Claim(c) ==
    /\ c \in Callers /\ lease \in {"free", c}
    /\ lease' = c
    /\ UNCHANGED takeLock

\* release by the holder; for anyone else it changes nothing.
Release(c) ==
    /\ lease = c
    /\ lease' = "free"
    /\ UNCHANGED takeLock

\* active_lease finds the lease expired.
LeaseExpires ==
    /\ lease # "free"
    /\ lease' = "free"
    /\ UNCHANGED takeLock

\* set_take_lock, by the supervisor of takes.
SetTakeLock(b) ==
    /\ takeLock # b
    /\ takeLock' = b
    /\ UNCHANGED lease

ControlInit == lease = "free" /\ takeLock = FALSE

LeaseNext ==
    \/ \E c \in Callers : Claim(c) \/ Release(c)
    \/ LeaseExpires
ControlNext ==
    \/ LeaseNext
    \/ \E b \in BOOLEAN : SetTakeLock(b)

ControlTypeOK == lease \in Callers \union {"free"} /\ takeLock \in BOOLEAN

=============================================================================
