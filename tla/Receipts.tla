------------------------------ MODULE Receipts ------------------------------
(***************************************************************************)
(* Durable receipts for OBS effects: the receipt files and their atomic    *)
(* publication (operation_store.rs), the one writer that lends bounded     *)
(* typed scopes (receipt_broker.rs), and the drivers that journal an       *)
(* effect, send it and record what became of it (custody.rs,               *)
(* generic_requests.rs, takes.rs).                                         *)
(*                                                                         *)
(* A receipt is published by writing a temporary file, renaming it over    *)
(* the old one and syncing the directories.  A failure before the rename   *)
(* leaves the old file; a failure after it leaves the new one visible but  *)
(* perhaps not durable: a power loss may bring the old one back.  The      *)
(* process may also die between any two steps.  What the transport says of *)
(* a request is the contract of module Rpc.                                *)
(*                                                                         *)
(* Receipts of other endpoints share the directory and its capacity;       *)
(* timestamps, hashes and path checks are abstracted into publication      *)
(* failures.                                                               *)
(***************************************************************************)
EXTENDS Naturals, FiniteSets

CONSTANTS Ops,          \* operation identifiers
          OpKind,       \* the kind of each operation
          Loans,        \* scopes the broker may lend
          LoanOf,       \* the scope each operation is journalled through
          MaxReceipts,  \* files the directory may hold (1024 in the code)
          MaxScopes,    \* scopes lent at a time (34 in the code)
          Foreign,      \* receipts of other endpoints in the same directory
          MaxFaults     \* bound: publication failures, crashes and power losses

Kinds == {"generic", "critical", "publicStop", "takeStart", "takeStop"}

ASSUME ReceiptsAssumption ==
    /\ OpKind \in [Ops -> Kinds]
    /\ LoanOf \in [Ops -> Loans]
    /\ IsFiniteSet(Ops)
    /\ IsFiniteSet(Loans)
    /\ MaxReceipts \in Nat
    /\ MaxScopes \in Nat
    /\ Foreign \in 0..MaxReceipts
    /\ MaxFaults \in Nat
    /\ \A o, q \in Ops : LoanOf[o] = LoanOf[q] =>
          OpKind[o] = OpKind[q] \/ {OpKind[o], OpKind[q]} = {"takeStart", "takeStop"}

Phases == {"Prepared", "Dispatching", "Accepted", "Rejected", "Observed",
           "NotDispatched", "Unknown"}

\* Version 2 receipts; the others are version 1.
IsGeneric(o) == OpKind[o] \in {"generic", "publicStop"}
IsTake(o) == OpKind[o] \in {"takeStart", "takeStop"}

\* Scopes that journal at least one operation of the kind.
LoanIs(l, kinds) == \E o \in Ops : LoanOf[o] = l /\ OpKind[o] \in kinds

TakeLoan(l) == LoanIs(l, {"takeStart", "takeStop"})

VARIABLES
    disk,      \* the visible phase of each receipt file, or "absent"
    synced,    \* the phase that a power loss is sure to preserve
    loan,      \* new, open or closed, for each scope
    ids,       \* the receipts each open scope published
    reserved,  \* open take scopes that hold a reserved Stop receipt
    poisoned,  \* publication proof was lost in this process
    driver,    \* new, prepared, intent, inFlight, answered, accepted, settled or failed
    response,  \* what the transport told the driver
    sent,      \* operations whose frame may have reached OBS
    faults     \* faults so far

storeVars  == <<disk, synced>>
brokerVars == <<loan, ids, reserved, poisoned>>
vars == <<storeVars, brokerVars, driver, response, sent, faults>>

-----------------------------------------------------------------------------
(* Reads of the inventory: OperationView.                                  *)

\* Phase::is_uncertain for version 1, GenericReceipt::blocking for version 2.
Blocking(o) ==
    disk[o] \in IF IsGeneric(o) THEN {"Dispatching", "Unknown"}
                ELSE {"Dispatching", "Accepted", "Unknown"}

\* Fault seed: any unsettled receipt of a live scope counts as in flight.
LiveIfUnsettled(o) == Blocking(o)

\* StoredReceipt::known_live_in_flight.
KnownLiveInFlight(o) ==
    disk[o] \in IF IsGeneric(o) THEN {"Dispatching"} ELSE {"Dispatching", "Accepted"}

Open == {l \in Loans : loan[l] = "open"}
LiveIds == UNION {ids[l] : l \in Open}

AdmissionBlocked == \E o \in Ops : Blocking(o)

\* admission_with_live_ids: a Stop passes receipts whose live owner is known.
SafetyBlocked(own) ==
    \E o \in Ops \ own : Blocking(o) /\ ~(o \in LiveIds /\ KnownLiveInFlight(o))

CapacityUsed == Foreign + Cardinality({o \in Ops : disk[o] # "absent"})
ReservedStops == Cardinality(reserved)

-----------------------------------------------------------------------------
(* ReceiptBroker::scope and Drop for ReceiptPort.                          *)

OpenScope(l) ==
    /\ loan[l] = "new"
    /\ ~poisoned
    /\ Cardinality(Open) < MaxScopes
    /\ IF LoanIs(l, {"publicStop"})
       THEN ~SafetyBlocked({}) /\ ~\E m \in Open : LoanIs(m, {"publicStop"})
       ELSE ~AdmissionBlocked
    /\ TakeLoan(l) => CapacityUsed + 2 <= MaxReceipts /\ ~\E m \in Open : TakeLoan(m)
    /\ loan' = [loan EXCEPT ![l] = "open"]
    /\ reserved' = IF TakeLoan(l) THEN reserved \cup {l} ELSE reserved
    /\ UNCHANGED <<storeVars, ids, poisoned, driver, response, sent, faults>>

\* Publication rights end; a driver that had not settled is gone with its port.
DropPort(l) ==
    /\ loan[l] = "open"
    /\ loan' = [loan EXCEPT ![l] = "closed"]
    /\ ids' = [ids EXCEPT ![l] = {}]
    /\ reserved' = reserved \ {l}
    /\ driver' = [o \in Ops |-> IF LoanOf[o] = l /\ driver[o] # "settled" THEN "failed"
                                ELSE driver[o]]
    /\ UNCHANGED <<storeVars, poisoned, response, sent, faults>>

-----------------------------------------------------------------------------
(* BackendStore::persist_value under ReceiptPort::apply.                   *)

\* Complete publication: the directory sync also settles earlier renames.
Published(o, phase) ==
    /\ disk' = [disk EXCEPT ![o] = phase]
    /\ synced' = [disk EXCEPT ![o] = phase]
    /\ UNCHANGED <<poisoned, faults>>

\* Failure before the rename (nothing visible) or after it (visible, and not
\* known durable); either loses publication proof.
PublicationFails(o, phase) ==
    /\ faults < MaxFaults
    /\ faults' = faults + 1
    /\ poisoned' = TRUE
    /\ UNCHANGED synced
    /\ disk' = disk \/ disk' = [disk EXCEPT ![o] = phase]

Step(o, from, to) ==
    /\ driver[o] = from
    /\ loan[LoanOf[o]] = "open"
    /\ driver' = [driver EXCEPT ![o] = to]

Fails(o, from) == Step(o, from, "failed")

-----------------------------------------------------------------------------
(* The drivers.                                                            *)

\* What each driver checks before it asks for a receipt: the generic executor
\* and Take Start read admission; a Take Stop needs a take, that is a settled
\* Start; custody relies on the scope's admission and on its guard.
MayPrepare(o) ==
    CASE OpKind[o] = "generic"    -> ~AdmissionBlocked
      [] OpKind[o] = "publicStop" -> ~SafetyBlocked({})
      [] OpKind[o] = "critical"   -> TRUE
      [] OpKind[o] = "takeStart"  -> /\ ~AdmissionBlocked
                                     /\ \A q \in Ops : LoanOf[q] = LoanOf[o] =>
                                            driver[q] \in {"new", "settled"}
      [] OpKind[o] = "takeStop"   -> \E q \in Ops : /\ LoanOf[q] = LoanOf[o]
                                                    /\ OpKind[q] = "takeStart"
                                                    /\ driver[q] = "settled"
                                                    /\ response[q] = "ok"

\* Receipts a prepare adds to the reservations: its own, unless it spends the
\* scope's reserved Stop, and a new Stop reservation when a take restarts.
Restarting(o) == OpKind[o] = "takeStart" /\ LoanOf[o] \notin reserved
SpendsReserve(o) == OpKind[o] = "takeStop" /\ LoanOf[o] \in reserved
\* Fault seed: a restarting take does not pay for its new Stop reservation.
DemandOwnOnly(o) == IF SpendsReserve(o) THEN 0 ELSE 1

Demand(o) == (IF SpendsReserve(o) THEN 0 ELSE 1) + (IF Restarting(o) THEN 1 ELSE 0)

PortAdmitsPrepare(o) ==
    /\ ~poisoned \/ OpKind[o] = "takeStop"
    /\ CapacityUsed + ReservedStops + Demand(o) <= MaxReceipts

Prepare(o) ==
    /\ MayPrepare(o)
    /\ PortAdmitsPrepare(o)
    /\ disk[o] = "absent"
    /\ \/ /\ Step(o, "new", "prepared")
          /\ Published(o, "Prepared")
          /\ ids' = [ids EXCEPT ![LoanOf[o]] = @ \cup {o}]
          /\ reserved' = IF OpKind[o] = "takeStop" THEN reserved \ {LoanOf[o]}
                         ELSE IF Restarting(o) THEN reserved \cup {LoanOf[o]}
                         ELSE reserved
       \/ /\ Fails(o, "new")
          /\ PublicationFails(o, "Prepared")
          /\ UNCHANGED <<ids, reserved>>
    /\ UNCHANGED <<loan, response, sent>>

\* Dispatching is durable before the request can enter the session queue.
Intend(o) ==
    /\ \/ Step(o, "prepared", "intent") /\ Published(o, "Dispatching")
       \/ Fails(o, "prepared") /\ PublicationFails(o, "Dispatching")
    /\ UNCHANGED <<loan, ids, reserved, response, sent>>

\* Fault seed: the fence looks at its own receipt only.
PermitsOwn(o) ==
    /\ ~poisoned
    /\ o \in ids[LoanOf[o]]
    /\ disk[o] = "Dispatching"

\* DispatchFence::permits, run by the socket actor just before the frame.
Permits(o) ==
    /\ ~poisoned
    /\ o \in ids[LoanOf[o]]
    /\ disk[o] = "Dispatching"
    /\ IF OpKind[o] = "publicStop" THEN ~SafetyBlocked({o})
       ELSE ~\E q \in Ops \ {o} : Blocking(q)

\* A take's guard consults take ownership and control policy, not the fence.
Send(o) ==
    /\ IsTake(o) \/ Permits(o)
    /\ Step(o, "intent", "inFlight")
    /\ sent' = sent \cup {o}
    /\ UNCHANGED <<storeVars, brokerVars, response, faults>>

\* The transport's verdict, within the contract of module Rpc.
Respond(o, v) ==
    /\ \/ Step(o, "intent", "answered") /\ v \in {"before", "unknown"}
       \/ Step(o, "inFlight", "answered") /\ v \in {"ok", "rejected", "unknown"}
    /\ response' = [response EXCEPT ![o] = v]
    /\ UNCHANGED <<storeVars, brokerVars, sent, faults>>

\* Fault seed: the transport's word is stored as it is.
VerdictVerbatim(o) == response[o]

\* Fault seed: an unknown outcome is recorded as not dispatched.
VerdictOptimistic(o) == IF response[o] \in {"ok", "rejected"} THEN "Accepted" ELSE "NotDispatched"

\* The phase each driver records for a verdict.
Verdict(o) ==
    CASE response[o] = "ok"       -> "Accepted"
      [] response[o] = "unknown"  -> "Unknown"
      [] response[o] = "rejected" -> IF IsGeneric(o) THEN "Rejected" ELSE "Unknown"
      [] response[o] = "before"   -> IF OpKind[o] = "takeStart" THEN "Unknown" ELSE "NotDispatched"

RecordVerdict(o) ==
    /\ \/ /\ Step(o, "answered", IF Verdict(o) = "Accepted" /\ ~IsGeneric(o)
                                  THEN "accepted" ELSE "settled")
          /\ Published(o, Verdict(o))
       \/ Fails(o, "answered") /\ PublicationFails(o, Verdict(o))
    /\ UNCHANGED <<loan, ids, reserved, response, sent>>

\* The postcondition of a version 1 effect was read back, or was not.
RecordObservation(o, phase) ==
    /\ phase \in {"Observed", "Unknown"}
    /\ \/ Step(o, "accepted", "settled") /\ Published(o, phase)
       \/ Fails(o, "accepted") /\ PublicationFails(o, phase)
    /\ UNCHANGED <<loan, ids, reserved, response, sent>>

-----------------------------------------------------------------------------
(* The process dies and restarts: scopes, drivers and the poison flag are  *)
(* memory, the files stay.  A power loss may also undo unsynced renames.   *)

ProcessLost ==
    /\ faults < MaxFaults
    /\ faults' = faults + 1
    /\ loan' = [l \in Loans |-> IF loan[l] = "open" THEN "closed" ELSE loan[l]]
    /\ ids' = [l \in Loans |-> {}]
    /\ reserved' = {}
    /\ poisoned' = FALSE
    /\ driver' = [o \in Ops |-> IF driver[o] \in {"new", "settled"} THEN driver[o] ELSE "failed"]
    /\ UNCHANGED <<response, sent>>

Crash ==
    /\ ProcessLost
    /\ UNCHANGED storeVars

PowerLoss ==
    /\ ProcessLost
    /\ \E undone \in SUBSET {o \in Ops : disk[o] # synced[o]} :
          disk' = [o \in Ops |-> IF o \in undone THEN synced[o] ELSE disk[o]]
    /\ synced' = disk'

Init ==
    /\ disk = [o \in Ops |-> "absent"]
    /\ synced = [o \in Ops |-> "absent"]
    /\ loan = [l \in Loans |-> "new"]
    /\ ids = [l \in Loans |-> {}]
    /\ reserved = {}
    /\ poisoned = FALSE
    /\ driver = [o \in Ops |-> "new"]
    /\ response = [o \in Ops |-> "none"]
    /\ sent = {}
    /\ faults = 0

Next ==
    \/ Crash \/ PowerLoss
    \/ \E l \in Loans : OpenScope(l) \/ DropPort(l)
    \/ \E o \in Ops :
          \/ Prepare(o) \/ Intend(o) \/ Send(o) \/ RecordVerdict(o)
          \/ \E v \in {"ok", "rejected", "before", "unknown"} : Respond(o, v)
          \/ \E phase \in {"Observed", "Unknown"} : RecordObservation(o, phase)

Spec == Init /\ [][Next]_vars

-----------------------------------------------------------------------------

Drivers == {"new", "prepared", "intent", "inFlight", "answered", "accepted", "settled", "failed"}

TypeOK ==
    /\ disk \in [Ops -> Phases \cup {"absent"}]
    /\ synced \in [Ops -> Phases \cup {"absent"}]
    /\ loan \in [Loans -> {"new", "open", "closed"}]
    /\ ids \in [Loans -> SUBSET Ops]
    /\ reserved \subseteq Loans
    /\ poisoned \in BOOLEAN
    /\ driver \in [Ops -> Drivers]
    /\ response \in [Ops -> {"none", "ok", "rejected", "before", "unknown"}]
    /\ sent \subseteq Ops
    /\ faults \in 0..MaxFaults

\* Phases that do not deny that the request was sent.
MayBeSent == {"Dispatching", "Accepted", "Rejected", "Observed", "Unknown"}

(* Whatever fails and whenever the process or the machine dies, a request  *)
(* that may have reached OBS has a receipt that does not deny it, both in  *)
(* the visible file and in the one that survives a power loss.             *)
HistoryNeverDeniesASend ==
    \A o \in sent : disk[o] \in MayBeSent /\ synced[o] \in MayBeSent

\* An effect that may have happened and whose outcome nobody was ever told.
Unresolved(o) == o \in sent /\ response[o] \in {"none", "unknown"}

Ordinary(o) == OpKind[o] \in {"generic", "critical"}

(* Ordinary effects are never stacked on an unresolved one, not even after *)
(* a crash or by a driver that was admitted before the trouble began.      *)
OneUnresolvedEffect ==
    \A o, q \in Ops : Ordinary(o) /\ Ordinary(q) /\ Unresolved(o) /\ Unresolved(q) => o = q

(* A public Stop is let past an effect of unknown fate only while its scope *)
(* is open and its driver runs, waiting or with a verdict it is about to    *)
(* record: never past an orphan, nor past a fate recorded as unknown.       *)
PublicStopOvertakesOnlyLiveOwners ==
    [][\A s \in sent' \ sent : OpKind[s] = "publicStop" =>
          \A o \in Ops \ {s} : Unresolved(o) =>
              loan[LoanOf[o]] = "open" /\ driver[o] \in {"inFlight", "answered"}]_vars

(* The Stop receipt of a live take always has room in the directory: its   *)
(* reservation counts against everybody else's prepare.                    *)
ReservedStopHasRoom ==
    ~poisoned => CapacityUsed + ReservedStops <= MaxReceipts
=============================================================================
