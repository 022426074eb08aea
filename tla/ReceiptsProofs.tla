--------------------------- MODULE ReceiptsProofs ---------------------------
(***************************************************************************)
(* Machine-checked proofs about module Receipts, for any number of         *)
(* operations, scopes and faults and any capacity.                         *)
(*                                                                         *)
(* The safety properties speak of files and of frames; they are inductive  *)
(* only together with what each driver knows of its own file (Journalled), *)
(* who may still write it (Owned) and how the directory fills (Roomy).     *)
(***************************************************************************)
EXTENDS Receipts, FiniteSetTheorems, TLAPS

Final == {"Accepted", "Rejected", "Observed", "NotDispatched", "Unknown"}

\* What the progress of a driver says of its file, visible and durable.
Journalled ==
    \A o \in Ops :
        /\ driver[o] = "prepared" => disk[o] # "absent"
        /\ driver[o] \in {"intent", "inFlight", "answered"} =>
              disk[o] = "Dispatching" /\ synced[o] = "Dispatching"
        /\ driver[o] = "accepted" => disk[o] = "Accepted" /\ synced[o] = "Accepted"
        /\ driver[o] = "settled" => disk[o] \in Final /\ synced[o] = disk[o]
        /\ disk[o] = "absent" => synced[o] = "absent"

\* What a sent request, its answer and its file agree on.
Accounted ==
    \A o \in Ops :
        /\ driver[o] \in {"new", "prepared", "intent", "inFlight"} => response[o] = "none"
        /\ driver[o] \in {"new", "prepared", "intent"} => o \notin sent
        /\ driver[o] = "answered" => response[o] # "none"
        /\ driver[o] = "accepted" => response[o] = "ok"
        /\ response[o] = "before" => o \notin sent
        /\ o \in sent => disk[o] \in MayBeSent /\ synced[o] \in MayBeSent
        /\ Unresolved(o) => /\ disk[o] \in {"Dispatching", "Unknown"}
                            /\ synced[o] \in {"Dispatching", "Unknown"}

\* Only the open scope of an operation stands behind a running driver.
Owned ==
    /\ \A l \in Loans : \A o \in ids[l] : LoanOf[o] = l
    /\ \A o \in Ops :
          /\ loan[LoanOf[o]] = "new" => driver[o] = "new"
          /\ driver[o] \notin {"new", "settled", "failed"} => loan[LoanOf[o]] = "open"
          /\ driver[o] = "failed" /\ loan[LoanOf[o]] = "open" => poisoned
    /\ \A l \in reserved : loan[l] = "open" /\ TakeLoan(l)

Roomy == CapacityUsed <= MaxReceipts

IInv == TypeOK /\ Journalled /\ Accounted /\ Owned /\ OneUnresolvedEffect
        /\ Roomy /\ ReservedStopHasRoom

-----------------------------------------------------------------------------
(* Room in the directory.                                                  *)

Files == {o \in Ops : disk[o] # "absent"}

\* The sets the capacity checks count are finite.
LEMMA Counted ==
  ASSUME TypeOK
  PROVE  /\ IsFiniteSet(Files) /\ Cardinality(Files) \in Nat
         /\ IsFiniteSet(reserved) /\ Cardinality(reserved) \in Nat
  <1>1. IsFiniteSet(Files) /\ IsFiniteSet(reserved)
    BY ReceiptsAssumption, FS_Subset DEF Files, TypeOK
  <1>2. QED BY <1>1, FS_CardinalityType

\* A step that adds neither a file nor a reservation keeps the room.
LEMMA RoomKept ==
  ASSUME TypeOK, TypeOK', Roomy, ReservedStopHasRoom,
         Files' \subseteq Files, reserved' \subseteq reserved,
         ~poisoned' => ~poisoned \/ reserved' = {}
  PROVE  Roomy' /\ ReservedStopHasRoom'
  <1>1. Cardinality(Files') <= Cardinality(Files)
    BY Counted, FS_Subset
  <1>2. Cardinality(reserved') <= Cardinality(reserved)
    BY Counted, FS_Subset
  <1>3. /\ Cardinality(Files) \in Nat /\ Cardinality(reserved) \in Nat
        /\ Cardinality(Files') \in Nat /\ Cardinality(reserved') \in Nat
    <2>1. /\ IsFiniteSet(Files') /\ IsFiniteSet(reserved')
      BY Counted, FS_Subset
    <2>2. QED BY <2>1, Counted, FS_CardinalityType
  <1>4. Foreign \in Nat /\ MaxReceipts \in Nat
    BY ReceiptsAssumption
  <1>5. CapacityUsed = Foreign + Cardinality(Files) /\ CapacityUsed' = Foreign + Cardinality(Files')
    BY DEF CapacityUsed, Files
  <1>6. Roomy'
    BY <1>1, <1>3, <1>4, <1>5 DEF Roomy
  <1>7. ReservedStopHasRoom'
    <2>1. CASE poisoned'
      BY <2>1 DEF ReservedStopHasRoom
    <2>2. CASE reserved' = {}
      <3>1. Cardinality(reserved') = 0
        BY <2>2, FS_EmptySet
      <3>2. ReservedStops' = 0
        BY <3>1 DEF ReservedStops
      <3>3. QED BY <1>3, <1>4, <1>5, <1>6, <3>2 DEF Roomy, ReservedStopHasRoom
    <2>3. CASE ~poisoned
      BY <2>3, <1>1, <1>2, <1>3, <1>4, <1>5 DEF ReservedStopHasRoom, ReservedStops
    <2>4. QED BY <2>1, <2>2, <2>3
  <1>8. QED BY <1>6, <1>7

-----------------------------------------------------------------------------
(* Every step keeps the invariant.                                         *)

\* What a driver records for a verdict.
LEMMA VerdictFacts ==
  ASSUME IInv, NEW o \in Ops, driver[o] = "answered"
  PROVE  /\ Verdict(o) \in Final
         /\ Verdict(o) = "NotDispatched" => response[o] = "before"
         /\ response[o] = "unknown" => Verdict(o) = "Unknown"
         /\ Verdict(o) = "Accepted" => response[o] = "ok"
BY DEF IInv, TypeOK, Accounted, Verdict, Final

\* Lending an ordinary or Stop scope.
LEMMA OpenScopeStep ==
  ASSUME IInv, NEW l \in Loans, OpenScope(l), ~TakeLoan(l)
  PROVE  IInv'
  <1>1. TypeOK'
    BY ReceiptsAssumption DEF IInv, TypeOK, Phases, Drivers, OpenScope, storeVars,
       brokerVars
  <1>2. Journalled'
    BY <1>1, ReceiptsAssumption DEF IInv, TypeOK, Journalled, OpenScope, storeVars,
       brokerVars
  <1>3. Accounted'
    BY <1>1, ReceiptsAssumption DEF IInv, TypeOK, Journalled, Accounted, Unresolved,
       MayBeSent, OpenScope, storeVars, brokerVars
  <1>4. Owned'
    BY <1>1, ReceiptsAssumption DEF IInv, TypeOK, Owned, TakeLoan, LoanIs,
       OpenScope, storeVars, brokerVars
  <1>5. OneUnresolvedEffect'
    BY <1>1, ReceiptsAssumption DEF IInv, TypeOK, OneUnresolvedEffect, Unresolved,
       Ordinary, OpenScope, storeVars, brokerVars
  <1>6. Roomy' /\ ReservedStopHasRoom'
    <2>1. Files' \subseteq Files /\ reserved' \subseteq reserved /\ (~poisoned' => ~poisoned \/ reserved' = {})
      BY ReceiptsAssumption DEF IInv, TypeOK, Files, OpenScope, storeVars,
         brokerVars
    <2>2. QED BY <1>1, <2>1, RoomKept DEF IInv
  <1>7. QED BY <1>1, <1>2, <1>3, <1>4, <1>5, <1>6 DEF IInv

\* Returning a scope.
LEMMA DropPortStep ==
  ASSUME IInv, NEW l \in Loans, DropPort(l)
  PROVE  IInv'
  <1>1. TypeOK'
    BY ReceiptsAssumption DEF IInv, TypeOK, Phases, Drivers, DropPort, storeVars,
       brokerVars
  <1>2. Journalled'
    BY <1>1, ReceiptsAssumption DEF IInv, TypeOK, Journalled, DropPort, storeVars,
       brokerVars
  <1>3. Accounted'
    BY <1>1, ReceiptsAssumption DEF IInv, TypeOK, Journalled, Accounted, Unresolved,
       MayBeSent, DropPort, storeVars, brokerVars
  <1>4. Owned'
    BY <1>1, ReceiptsAssumption DEF IInv, TypeOK, Owned, TakeLoan, LoanIs, DropPort,
       storeVars, brokerVars
  <1>5. OneUnresolvedEffect'
    BY <1>1, ReceiptsAssumption DEF IInv, TypeOK, OneUnresolvedEffect, Unresolved,
       Ordinary, DropPort, storeVars, brokerVars
  <1>6. Roomy' /\ ReservedStopHasRoom'
    <2>1. Files' \subseteq Files /\ reserved' \subseteq reserved /\ (~poisoned' => ~poisoned \/ reserved' = {})
      BY ReceiptsAssumption DEF IInv, TypeOK, Files, DropPort, storeVars, brokerVars
    <2>2. QED BY <1>1, <2>1, RoomKept DEF IInv
  <1>7. QED BY <1>1, <1>2, <1>3, <1>4, <1>5, <1>6 DEF IInv

\* Journalling the intent.
LEMMA IntendStep ==
  ASSUME IInv, NEW o \in Ops, Intend(o)
  PROVE  IInv'
  <1>1. TypeOK'
    <2>1. faults' \in 0..MaxFaults
      BY ReceiptsAssumption DEF IInv, TypeOK, Intend, PublicationFails, Published,
         Step, Fails, storeVars, brokerVars
    <2>2. poisoned' \in BOOLEAN
      BY Zenon DEF IInv, TypeOK, Intend, PublicationFails, Published, Step, Fails,
         storeVars, brokerVars
    <2>3. QED
      BY <2>1, <2>2, ReceiptsAssumption DEF IInv, TypeOK, Phases, Drivers, Intend,
         PublicationFails, Published, Step, Fails, storeVars, brokerVars
  <1>2. Journalled'
    BY <1>1, ReceiptsAssumption DEF IInv, TypeOK, Journalled, Intend,
       PublicationFails, Published, Step, Fails, storeVars, brokerVars
  <1>3. Accounted'
    BY <1>1, ReceiptsAssumption DEF IInv, TypeOK, Journalled, Accounted, Unresolved,
       MayBeSent, Intend, PublicationFails, Published, Step, Fails, storeVars,
       brokerVars
  <1>4. Owned'
    BY <1>1, ReceiptsAssumption DEF IInv, TypeOK, Owned, TakeLoan, LoanIs, Intend,
       PublicationFails, Published, Step, Fails, storeVars, brokerVars
  <1>5. OneUnresolvedEffect'
    BY <1>1, ReceiptsAssumption DEF IInv, TypeOK, OneUnresolvedEffect, Unresolved,
       Ordinary, Intend, PublicationFails, Published, Step, Fails, storeVars,
       brokerVars
  <1>6. Roomy' /\ ReservedStopHasRoom'
    <2>1. Files' \subseteq Files /\ reserved' \subseteq reserved /\ (~poisoned' => ~poisoned \/ reserved' = {})
      BY ReceiptsAssumption DEF IInv, TypeOK, Files, Intend, PublicationFails,
         Published, Step, Fails, storeVars, brokerVars, Journalled
    <2>2. QED BY <1>1, <2>1, RoomKept DEF IInv
  <1>7. QED BY <1>1, <1>2, <1>3, <1>4, <1>5, <1>6 DEF IInv

\* Passing the fence and writing the frame.
LEMMA SendStep ==
  ASSUME IInv, NEW o \in Ops, Send(o)
  PROVE  IInv'
  <1>1. TypeOK'
    BY ReceiptsAssumption DEF IInv, TypeOK, Phases, Drivers, Send, Step, storeVars,
       brokerVars
  <1>2. Journalled'
    BY <1>1, ReceiptsAssumption DEF IInv, TypeOK, Journalled, Send, Step, storeVars,
       brokerVars
  <1>3. Accounted'
    BY <1>1, ReceiptsAssumption DEF IInv, TypeOK, Journalled, Accounted, Unresolved,
       MayBeSent, Send, Step, storeVars, brokerVars
  <1>4. Owned'
    BY <1>1, ReceiptsAssumption DEF IInv, TypeOK, Owned, TakeLoan, LoanIs, Send,
       Step, storeVars, brokerVars
  <1>5. OneUnresolvedEffect'
    BY <1>1, ReceiptsAssumption DEF IInv, TypeOK, OneUnresolvedEffect, Unresolved,
       Ordinary, Send, Step, storeVars, brokerVars, Permits, Blocking, Accounted,
       IsTake
  <1>6. Roomy' /\ ReservedStopHasRoom'
    <2>1. Files' \subseteq Files /\ reserved' \subseteq reserved /\ (~poisoned' => ~poisoned \/ reserved' = {})
      BY ReceiptsAssumption DEF IInv, TypeOK, Files, Send, Step, storeVars,
         brokerVars
    <2>2. QED BY <1>1, <2>1, RoomKept DEF IInv
  <1>7. QED BY <1>1, <1>2, <1>3, <1>4, <1>5, <1>6 DEF IInv

\* The transport's verdict.
LEMMA RespondStep ==
  ASSUME IInv, NEW o \in Ops, NEW v \in {"ok", "rejected", "before", "unknown"}, Respond(o, v)
  PROVE  IInv'
  <1>1. TypeOK'
    BY ReceiptsAssumption DEF IInv, TypeOK, Phases, Drivers, Respond, Step,
       storeVars, brokerVars
  <1>2. Journalled'
    BY <1>1, ReceiptsAssumption DEF IInv, TypeOK, Journalled, Respond, Step,
       storeVars, brokerVars
  <1>3. Accounted'
    BY <1>1, ReceiptsAssumption DEF IInv, TypeOK, Journalled, Accounted, Unresolved,
       MayBeSent, Respond, Step, storeVars, brokerVars
  <1>4. Owned'
    BY <1>1, ReceiptsAssumption DEF IInv, TypeOK, Owned, TakeLoan, LoanIs, Respond,
       Step, storeVars, brokerVars
  <1>5. OneUnresolvedEffect'
    BY <1>1, ReceiptsAssumption DEF IInv, TypeOK, OneUnresolvedEffect, Unresolved,
       Ordinary, Respond, Step, storeVars, brokerVars, Accounted
  <1>6. Roomy' /\ ReservedStopHasRoom'
    <2>1. Files' \subseteq Files /\ reserved' \subseteq reserved /\ (~poisoned' => ~poisoned \/ reserved' = {})
      BY ReceiptsAssumption DEF IInv, TypeOK, Files, Respond, Step, storeVars,
         brokerVars
    <2>2. QED BY <1>1, <2>1, RoomKept DEF IInv
  <1>7. QED BY <1>1, <1>2, <1>3, <1>4, <1>5, <1>6 DEF IInv

\* Recording the verdict.
LEMMA RecordVerdictStep ==
  ASSUME IInv, NEW o \in Ops, RecordVerdict(o)
  PROVE  IInv'
  <1>1. TypeOK'
    <2>1. faults' \in 0..MaxFaults
      BY ReceiptsAssumption DEF IInv, TypeOK, RecordVerdict, PublicationFails,
         Published, Step, Fails, storeVars, brokerVars
    <2>2. poisoned' \in BOOLEAN
      BY Zenon DEF IInv, TypeOK, RecordVerdict, PublicationFails, Published, Step,
         Fails, storeVars, brokerVars
    <2>3. QED
      BY <2>1, <2>2, ReceiptsAssumption, VerdictFacts DEF IInv, TypeOK, Phases,
         Drivers, RecordVerdict, PublicationFails, Published, Step, Fails,
         storeVars, brokerVars, Final
  <1>2. Journalled'
    BY <1>1, ReceiptsAssumption, VerdictFacts DEF IInv, TypeOK, Journalled,
       RecordVerdict, PublicationFails, Published, Step, Fails, storeVars,
       brokerVars, Final
  <1>3. Accounted'
    BY <1>1, ReceiptsAssumption, VerdictFacts DEF IInv, TypeOK, Journalled,
       Accounted, Unresolved, MayBeSent, RecordVerdict, PublicationFails, Published,
       Step, Fails, storeVars, brokerVars, Final
  <1>4. Owned'
    BY <1>1, ReceiptsAssumption DEF IInv, TypeOK, Owned, TakeLoan, LoanIs,
       RecordVerdict, PublicationFails, Published, Step, Fails, storeVars,
       brokerVars
  <1>5. OneUnresolvedEffect'
    BY <1>1, ReceiptsAssumption DEF IInv, TypeOK, OneUnresolvedEffect, Unresolved,
       Ordinary, RecordVerdict, PublicationFails, Published, Step, Fails, storeVars,
       brokerVars
  <1>6. Roomy' /\ ReservedStopHasRoom'
    <2>1. Files' \subseteq Files /\ reserved' \subseteq reserved /\ (~poisoned' => ~poisoned \/ reserved' = {})
      BY VerdictFacts, ReceiptsAssumption DEF IInv, TypeOK, Files, RecordVerdict,
         PublicationFails, Published, Step, Fails, storeVars, brokerVars,
         Journalled, Final
    <2>2. QED BY <1>1, <2>1, RoomKept DEF IInv
  <1>7. QED BY <1>1, <1>2, <1>3, <1>4, <1>5, <1>6 DEF IInv

\* Recording the observed postcondition.
LEMMA RecordObservationStep ==
  ASSUME IInv, NEW o \in Ops, NEW phase \in {"Observed", "Unknown"}, RecordObservation(o, phase)
  PROVE  IInv'
  <1>1. TypeOK'
    <2>1. faults' \in 0..MaxFaults
      BY ReceiptsAssumption DEF IInv, TypeOK, RecordObservation, PublicationFails,
         Published, Step, Fails, storeVars, brokerVars
    <2>2. poisoned' \in BOOLEAN
      BY Zenon DEF IInv, TypeOK, RecordObservation, PublicationFails, Published,
         Step, Fails, storeVars, brokerVars
    <2>3. QED
      BY <2>1, <2>2, ReceiptsAssumption DEF IInv, TypeOK, Phases, Drivers,
         RecordObservation, PublicationFails, Published, Step, Fails, storeVars,
         brokerVars
  <1>2. Journalled'
    BY <1>1, ReceiptsAssumption DEF IInv, TypeOK, Journalled, RecordObservation,
       PublicationFails, Published, Step, Fails, storeVars, brokerVars, Final
  <1>3. Accounted'
    BY <1>1, ReceiptsAssumption DEF IInv, TypeOK, Journalled, Accounted, Unresolved,
       MayBeSent, RecordObservation, PublicationFails, Published, Step, Fails,
       storeVars, brokerVars
  <1>4. Owned'
    BY <1>1, ReceiptsAssumption DEF IInv, TypeOK, Owned, TakeLoan, LoanIs,
       RecordObservation, PublicationFails, Published, Step, Fails, storeVars,
       brokerVars
  <1>5. OneUnresolvedEffect'
    BY <1>1, ReceiptsAssumption DEF IInv, TypeOK, OneUnresolvedEffect, Unresolved,
       Ordinary, RecordObservation, PublicationFails, Published, Step, Fails,
       storeVars, brokerVars
  <1>6. Roomy' /\ ReservedStopHasRoom'
    <2>1. Files' \subseteq Files /\ reserved' \subseteq reserved /\ (~poisoned' => ~poisoned \/ reserved' = {})
      BY ReceiptsAssumption DEF IInv, TypeOK, Files, RecordObservation,
         PublicationFails, Published, Step, Fails, storeVars, brokerVars, Journalled
    <2>2. QED BY <1>1, <2>1, RoomKept DEF IInv
  <1>7. QED BY <1>1, <1>2, <1>3, <1>4, <1>5, <1>6 DEF IInv

\* The process dies.
LEMMA CrashStep ==
  ASSUME IInv, Crash
  PROVE  IInv'
  <1>1. TypeOK'
    <2>1. faults' \in 0..MaxFaults
      BY ReceiptsAssumption DEF IInv, TypeOK, Crash, ProcessLost, storeVars,
         brokerVars
    <2>2. poisoned' \in BOOLEAN
      BY Zenon DEF IInv, TypeOK, Crash, ProcessLost, storeVars, brokerVars
    <2>3. QED
      BY <2>1, <2>2, ReceiptsAssumption DEF IInv, TypeOK, Phases, Drivers, Crash,
         ProcessLost, storeVars, brokerVars
  <1>2. Journalled'
    BY <1>1, ReceiptsAssumption DEF IInv, TypeOK, Journalled, Crash, ProcessLost,
       storeVars, brokerVars
  <1>3. Accounted'
    BY <1>1, ReceiptsAssumption DEF IInv, TypeOK, Journalled, Accounted, Unresolved,
       MayBeSent, Crash, ProcessLost, storeVars, brokerVars
  <1>4. Owned'
    BY <1>1, ReceiptsAssumption DEF IInv, TypeOK, Owned, TakeLoan, LoanIs, Crash,
       ProcessLost, storeVars, brokerVars
  <1>5. OneUnresolvedEffect'
    BY <1>1, ReceiptsAssumption DEF IInv, TypeOK, OneUnresolvedEffect, Unresolved,
       Ordinary, Crash, ProcessLost, storeVars, brokerVars
  <1>6. Roomy' /\ ReservedStopHasRoom'
    <2>1. Files' \subseteq Files /\ reserved' \subseteq reserved /\ (~poisoned' => ~poisoned \/ reserved' = {})
      BY ReceiptsAssumption DEF IInv, TypeOK, Files, Crash, ProcessLost, storeVars,
         brokerVars
    <2>2. QED BY <1>1, <2>1, RoomKept DEF IInv
  <1>7. QED BY <1>1, <1>2, <1>3, <1>4, <1>5, <1>6 DEF IInv

\* The machine dies.
LEMMA PowerLossStep ==
  ASSUME IInv, PowerLoss
  PROVE  IInv'
  <1>1. TypeOK'
    <2>1. faults' \in 0..MaxFaults
      BY ReceiptsAssumption DEF IInv, TypeOK, PowerLoss, ProcessLost, storeVars,
         brokerVars
    <2>2. poisoned' \in BOOLEAN
      BY Zenon DEF IInv, TypeOK, PowerLoss, ProcessLost, storeVars, brokerVars
    <2>3. QED
      BY <2>1, <2>2, ReceiptsAssumption DEF IInv, TypeOK, Phases, Drivers,
         PowerLoss, ProcessLost, storeVars, brokerVars
  <1>2. Journalled'
    BY <1>1, ReceiptsAssumption DEF IInv, TypeOK, Journalled, PowerLoss,
       ProcessLost, storeVars, brokerVars
  <1>3. Accounted'
    BY <1>1, ReceiptsAssumption DEF IInv, TypeOK, Journalled, Accounted, Unresolved,
       MayBeSent, PowerLoss, ProcessLost, storeVars, brokerVars
  <1>4. Owned'
    BY <1>1, ReceiptsAssumption DEF IInv, TypeOK, Owned, TakeLoan, LoanIs,
       PowerLoss, ProcessLost, storeVars, brokerVars
  <1>5. OneUnresolvedEffect'
    BY <1>1, ReceiptsAssumption DEF IInv, TypeOK, OneUnresolvedEffect, Unresolved,
       Ordinary, PowerLoss, ProcessLost, storeVars, brokerVars
  <1>6. Roomy' /\ ReservedStopHasRoom'
    <2>1. Files' \subseteq Files /\ reserved' \subseteq reserved /\ (~poisoned' => ~poisoned \/ reserved' = {})
      BY ReceiptsAssumption DEF IInv, TypeOK, Files, PowerLoss, ProcessLost,
         storeVars, brokerVars, Journalled
    <2>2. QED BY <1>1, <2>1, RoomKept DEF IInv
  <1>7. QED BY <1>1, <1>2, <1>3, <1>4, <1>5, <1>6 DEF IInv

\* Creating a receipt, within the directory's capacity.
LEMMA PrepareStep ==
  ASSUME IInv, NEW o \in Ops, Prepare(o)
  PROVE  IInv'
  <1>1. TypeOK'
    <2>1. faults' \in 0..MaxFaults
      BY ReceiptsAssumption DEF IInv, TypeOK, Prepare, PublicationFails, Published,
         Step, Fails, storeVars, brokerVars
    <2>2. poisoned' \in BOOLEAN
      BY Zenon DEF IInv, TypeOK, Prepare, PublicationFails, Published, Step, Fails,
         storeVars, brokerVars
    <2>3. QED
      BY <2>1, <2>2, ReceiptsAssumption DEF IInv, TypeOK, Phases, Drivers, Prepare,
         PublicationFails, Published, Step, Fails, storeVars, brokerVars
  <1>2. Journalled'
    BY <1>1, ReceiptsAssumption DEF IInv, TypeOK, Journalled, Prepare,
       PublicationFails, Published, Step, Fails, storeVars, brokerVars
  <1>3. Accounted'
    BY <1>1, ReceiptsAssumption DEF IInv, TypeOK, Journalled, Accounted, Unresolved,
       MayBeSent, Prepare, PublicationFails, Published, Step, Fails, storeVars,
       brokerVars
  <1>4. Owned'
    BY <1>1, ReceiptsAssumption DEF IInv, TypeOK, Owned, TakeLoan, LoanIs, Prepare,
       PublicationFails, Published, Step, Fails, storeVars, brokerVars, Restarting
  <1>5. OneUnresolvedEffect'
    BY <1>1, ReceiptsAssumption DEF IInv, TypeOK, OneUnresolvedEffect, Unresolved,
       Ordinary, Prepare, PublicationFails, Published, Step, Fails, storeVars,
       brokerVars
  <1>6. Roomy' /\ ReservedStopHasRoom'
    <2> DEFINE n == Cardinality(Files)
               k == Cardinality(reserved)
    <2>1. /\ n \in Nat /\ k \in Nat /\ Foreign \in Nat /\ MaxReceipts \in Nat
          /\ IsFiniteSet(Files) /\ IsFiniteSet(reserved)
      BY Counted, ReceiptsAssumption DEF IInv
    <2>2. Foreign + n + k + Demand(o) <= MaxReceipts
      BY DEF Prepare, PortAdmitsPrepare, CapacityUsed, ReservedStops, Files
    <2>3. o \notin Files
      BY DEF Prepare, Files
    <2>4. Cardinality(Files \cup {o}) = n + 1
      BY <2>1, <2>3, FS_AddElement
    <2>5. CASE driver'[o] = "prepared"
      <3>1. Files' = Files \cup {o}
        BY <2>5 DEF Prepare, Published, Step, Fails, IInv, TypeOK, Files
      <3>2. Cardinality(reserved') + 1 = k + Demand(o)
        <4>1. CASE SpendsReserve(o)
          <5>1. reserved' = reserved \ {LoanOf[o]} /\ LoanOf[o] \in reserved
            BY <2>5, <4>1 DEF Prepare, Step, Fails, IInv, TypeOK, SpendsReserve
          <5>2. Cardinality(reserved') = k - 1
            BY <2>1, <5>1, FS_RemoveElement
          <5>3. Demand(o) = 0
            BY <4>1 DEF Demand, SpendsReserve, Restarting
          <5>4. QED BY <2>1, <5>2, <5>3
        <4>2. CASE Restarting(o)
          <5>1. reserved' = reserved \cup {LoanOf[o]} /\ LoanOf[o] \notin reserved
            BY <2>5, <4>2 DEF Prepare, Step, Fails, IInv, TypeOK, Restarting
          <5>2. Cardinality(reserved') = k + 1
            BY <2>1, <5>1, FS_AddElement
          <5>3. Demand(o) = 2
            BY <4>2 DEF Demand, SpendsReserve, Restarting
          <5>4. QED BY <2>1, <5>2, <5>3
        <4>3. CASE ~SpendsReserve(o) /\ ~Restarting(o)
          <5>1. reserved' = reserved
            BY <2>5, <4>3 DEF Prepare, Step, Fails, IInv, TypeOK, SpendsReserve, Restarting
          <5>2. Demand(o) = 1
            BY <4>3 DEF Demand
          <5>3. QED BY <2>1, <5>1, <5>2
        <4>4. QED BY <4>1, <4>2, <4>3
      <3>3. Demand(o) \in Nat
        BY DEF Demand
      <3>4. CapacityUsed' = Foreign + (n + 1)
        BY <2>4, <3>1 DEF CapacityUsed, Files
      <3>5. Cardinality(reserved') \in Nat
        BY <1>1, ReceiptsAssumption, FS_Subset, FS_CardinalityType DEF TypeOK
      <3>6. Foreign + (n + 1) + Cardinality(reserved') <= MaxReceipts
        BY <2>1, <2>2, <3>2, <3>3, <3>5
      <3>7. QED BY <2>1, <3>4, <3>5, <3>6 DEF Roomy, ReservedStopHasRoom, ReservedStops
    <2>6. CASE driver'[o] = "failed"
      <3>1. poisoned' /\ (Files' = Files \/ Files' = Files \cup {o})
        BY <2>6 DEF Prepare, PublicationFails, Step, Fails, IInv, TypeOK, Files
      <3>2. k + Demand(o) >= 1
        <4>1. CASE SpendsReserve(o)
          <5>1. k # 0
            BY <2>1, <4>1, FS_EmptySet DEF SpendsReserve
          <5>2. QED BY <2>1, <5>1, <4>1 DEF Demand, SpendsReserve, Restarting
        <4>2. CASE ~SpendsReserve(o)
          BY <2>1, <4>2 DEF Demand
        <4>3. QED BY <4>1, <4>2
      <3>3. Foreign + n + 1 <= MaxReceipts
        <4>1. Demand(o) \in Nat
          BY DEF Demand
        <4>2. QED BY <2>1, <2>2, <3>2, <4>1
      <3>4. CapacityUsed' = Foreign + Cardinality(Files')
        BY DEF CapacityUsed, Files
      <3>5. Roomy'
        BY <2>1, <2>4, <3>1, <3>3, <3>4 DEF Roomy
      <3>6. QED BY <3>1, <3>5 DEF ReservedStopHasRoom
    <2>7. QED BY <2>5, <2>6 DEF Prepare, Step, Fails, IInv, TypeOK
  <1>7. QED BY <1>1, <1>2, <1>3, <1>4, <1>5, <1>6 DEF IInv

\* Lending the take scope reserves its Stop receipt.
LEMMA OpenTakeStep ==
  ASSUME IInv, NEW l \in Loans, OpenScope(l), TakeLoan(l)
  PROVE  IInv'
  <1>1. TypeOK'
    BY ReceiptsAssumption DEF IInv, TypeOK, Phases, Drivers, OpenScope, storeVars,
       brokerVars
  <1>2. Journalled'
    BY <1>1, ReceiptsAssumption DEF IInv, TypeOK, Journalled, OpenScope, storeVars,
       brokerVars
  <1>3. Accounted'
    BY <1>1, ReceiptsAssumption DEF IInv, TypeOK, Journalled, Accounted, Unresolved,
       MayBeSent, OpenScope, storeVars, brokerVars
  <1>4. Owned'
    BY <1>1, ReceiptsAssumption DEF IInv, TypeOK, Owned, TakeLoan, LoanIs,
       OpenScope, storeVars, brokerVars
  <1>5. OneUnresolvedEffect'
    BY <1>1, ReceiptsAssumption DEF IInv, TypeOK, OneUnresolvedEffect, Unresolved,
       Ordinary, OpenScope, storeVars, brokerVars
  <1>6. Roomy' /\ ReservedStopHasRoom'
    <2>1. reserved = {}
      BY DEF OpenScope, IInv, Owned, Open, TypeOK
    <2>2. reserved' = {l} /\ Cardinality(reserved') = 1
      BY <2>1, FS_Singleton DEF OpenScope
    <2>3. CapacityUsed' = CapacityUsed /\ CapacityUsed + 2 <= MaxReceipts
      BY DEF OpenScope, CapacityUsed, storeVars
    <2>4. CapacityUsed \in Nat /\ MaxReceipts \in Nat
      BY Counted, ReceiptsAssumption DEF IInv, CapacityUsed, Files
    <2>5. QED BY <2>2, <2>3, <2>4 DEF Roomy, ReservedStopHasRoom, ReservedStops
  <1>7. QED BY <1>1, <1>2, <1>3, <1>4, <1>5, <1>6 DEF IInv

LEMMA StutterStep ==
  ASSUME IInv, UNCHANGED vars
  PROVE  IInv'
  <1>1. TypeOK'
    BY ReceiptsAssumption DEF IInv, TypeOK, Phases, Drivers, vars, storeVars,
       brokerVars
  <1>2. Journalled'
    BY <1>1, ReceiptsAssumption DEF IInv, TypeOK, Journalled, vars, storeVars,
       brokerVars
  <1>3. Accounted'
    BY <1>1, ReceiptsAssumption DEF IInv, TypeOK, Journalled, Accounted, Unresolved,
       MayBeSent, vars, storeVars, brokerVars
  <1>4. Owned'
    BY <1>1, ReceiptsAssumption DEF IInv, TypeOK, Owned, TakeLoan, LoanIs, vars,
       storeVars, brokerVars
  <1>5. OneUnresolvedEffect'
    BY <1>1, ReceiptsAssumption DEF IInv, TypeOK, OneUnresolvedEffect, Unresolved,
       Ordinary, vars, storeVars, brokerVars
  <1>6. Roomy' /\ ReservedStopHasRoom'
    <2>1. Files' \subseteq Files /\ reserved' \subseteq reserved /\ (~poisoned' => ~poisoned \/ reserved' = {})
      BY ReceiptsAssumption DEF IInv, TypeOK, Files, vars, storeVars, brokerVars
    <2>2. QED BY <1>1, <2>1, RoomKept DEF IInv
  <1>7. QED BY <1>1, <1>2, <1>3, <1>4, <1>5, <1>6 DEF IInv

LEMMA IInvNext ==
  ASSUME IInv, [Next]_vars
  PROVE  IInv'
BY OpenScopeStep, OpenTakeStep, DropPortStep, PrepareStep, IntendStep, SendStep, RespondStep,
   RecordVerdictStep, RecordObservationStep, CrashStep, PowerLossStep, StutterStep DEF Next

LEMMA IInvInit ==
  ASSUME Init
  PROVE  IInv
  <1>1. TypeOK
    <2>1. faults \in 0..MaxFaults
      BY ReceiptsAssumption DEF Init
    <2>2. poisoned \in BOOLEAN
      BY DEF Init
    <2>3. QED BY <2>1, <2>2 DEF Init, TypeOK, Drivers
  <1>2. Journalled /\ Accounted /\ Owned /\ OneUnresolvedEffect
    BY <1>1, ReceiptsAssumption
       DEF Init, TypeOK, Journalled, Accounted, Owned, OneUnresolvedEffect, Unresolved
  <1>3. Roomy /\ ReservedStopHasRoom
    <2>1. Files = {}
      BY DEF Init, Files
    <2>2. Cardinality(Files) = 0 /\ Cardinality(reserved) = 0
      BY <2>1, FS_EmptySet DEF Init
    <2>3. Foreign + 0 + 0 <= MaxReceipts
      BY ReceiptsAssumption
    <2>4. QED
      BY <2>2, <2>3, ReceiptsAssumption DEF Roomy, ReservedStopHasRoom, CapacityUsed, ReservedStops, Files
  <1>4. QED BY <1>1, <1>2, <1>3 DEF IInv

LEMMA Invariance == Spec => []IInv
  <1>1. Init => IInv
    BY IInvInit
  <1>2. IInv /\ [Next]_vars => IInv'
    BY IInvNext
  <1>3. QED BY <1>1, <1>2, PTL DEF Spec

-----------------------------------------------------------------------------
(* What follows from the invariant.                                        *)

(* The types of the receipt files, of the broker's scopes and of the        *)
(* drivers hold through every failure, crash and power loss.                *)
THEOREM TypeCorrect == Spec => []TypeOK
  <1>1. IInv => TypeOK
    BY DEF IInv
  <1>2. QED BY <1>1, Invariance, PTL

(* persist_value and the two-phase journal of the drivers never leave, on   *)
(* disk or after a power loss, a receipt that denies a frame that may have  *)
(* been sent.                                                               *)
THEOREM HistoryHonest == Spec => []HistoryNeverDeniesASend
  <1>1. IInv => HistoryNeverDeniesASend
    BY DEF IInv, TypeOK, Accounted, HistoryNeverDeniesASend
  <1>2. QED BY <1>1, Invariance, PTL

(* DispatchFence::permits, run just before the frame, never lets two        *)
(* ordinary effects of unknown fate coexist, across restarts too.           *)
THEOREM OneUnresolved == Spec => []OneUnresolvedEffect
  <1>1. IInv => OneUnresolvedEffect
    BY DEF IInv
  <1>2. QED BY <1>1, Invariance, PTL

(* The capacity checks of ReceiptBroker::scope and ReceiptPort::prepare     *)
(* keep room for the Stop receipt of a live take.                           *)
THEOREM StopHasRoom == Spec => []ReservedStopHasRoom
  <1>1. IInv => ReservedStopHasRoom
    BY DEF IInv
  <1>2. QED BY <1>1, Invariance, PTL

(* safety_admission lets a public Stop past another effect only while the   *)
(* scope of that effect is open and its driver has not recorded an outcome. *)
THEOREM StopOvertakesLiveOwners == Spec => PublicStopOvertakesOnlyLiveOwners
  <1> DEFINE A == \A s \in sent' \ sent : OpKind[s] = "publicStop" =>
                     \A o \in Ops \ {s} : Unresolved(o) =>
                        loan[LoanOf[o]] = "open" /\ driver[o] \in {"inFlight", "answered"}
  <1>1. ASSUME IInv, NEW s \in Ops, Send(s)
        PROVE  A
    <2>1. SUFFICES ASSUME OpKind[s] = "publicStop", NEW o \in Ops \ {s}, Unresolved(o)
                   PROVE  loan[LoanOf[o]] = "open" /\ driver[o] \in {"inFlight", "answered"}
      BY <1>1 DEF Send
    <2>2. ~poisoned /\ ~SafetyBlocked({s})
      BY <1>1, <2>1 DEF Send, Permits, IsTake
    <2>3. Blocking(o)
      BY <1>1, <2>1 DEF IInv, Accounted, Blocking
    <2>4. o \in LiveIds /\ KnownLiveInFlight(o)
      BY <2>2, <2>3 DEF SafetyBlocked
    <2>5. loan[LoanOf[o]] = "open"
      BY <1>1, <2>4 DEF LiveIds, Open, IInv, Owned
    <2>6. disk[o] = "Dispatching"
      BY <1>1, <2>1, <2>4 DEF KnownLiveInFlight, IInv, Accounted
    <2>7. driver[o] \notin {"new", "prepared", "intent", "accepted", "settled", "failed"}
      BY <1>1, <2>1, <2>2, <2>5, <2>6
         DEF IInv, TypeOK, Accounted, Journalled, Owned, Final, Unresolved
    <2>8. QED BY <1>1, <2>1, <2>5, <2>7 DEF IInv, TypeOK, Drivers
  <1>2. ASSUME Next, \A s \in Ops : ~Send(s)
        PROVE  sent' = sent
    BY <1>2 DEF Next, Crash, PowerLoss, ProcessLost, OpenScope, DropPort, Prepare, Intend,
       RecordVerdict, Respond, RecordObservation
  <1>3. IInv /\ [Next]_vars => [A]_vars
    BY <1>1, <1>2
  <1>4. QED BY <1>3, Invariance, PTL DEF Spec, PublicStopOvertakesOnlyLiveOwners
=============================================================================
