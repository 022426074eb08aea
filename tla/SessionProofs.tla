--------------------------- MODULE SessionProofs ---------------------------
(***************************************************************************)
(* Machine-checked proofs about module Session, for every set of requests, *)
(* every assignment of kinds and every set of faults.                      *)
(*                                                                         *)
(* None of the properties is inductive: that BeforeDispatch is honest      *)
(* rests on who owns the command and on what the admission state allows    *)
(* its owner to do.  IInv says both.                                       *)
(***************************************************************************)
EXTENDS Session, SequenceTheorems, TLAPS

Waiting == {r \in Requests : Queued(r)}

Custody == Waiting \cup Active \cup ({current} \ {None})

\* A lane holds only its own requests, each once.
Tidy ==
    \A l \in Lanes : \A i \in 1..Len(queue[l]) :
        /\ Lane(queue[l][i]) = l
        /\ \A j \in 1..Len(queue[l]) : queue[l][i] = queue[l][j] => i = j

\* Where commands are, in each state of the actor.
Placed ==
    /\ \A l \in Lanes : slot[l] # None => Lane(slot[l]) = l
    /\ actor \in {"prepare", "claim", "sending"} <=> current # None
    /\ actor = "sending" => current \in Active
    /\ actor \in {"prepare", "claim"} => slot[Lane(current)] = None
    /\ actor \in {"idle", "retiring", "draining", "stopped"} => Active = {}
    /\ current \notin Waiting
    /\ closed <=> actor = "stopped"
    /\ closed => Waiting = {}
    /\ early # "none" => actor = "sending" /\ early = answer[current]

\* The admission state decides who may do what with a command.
Admitted ==
    /\ \A r \in Waiting : state[r] # "DISPATCHING"
    /\ \A r \in Active : state[r] = "DISPATCHING"
    /\ current # None => (state[current] = "DISPATCHING" <=> actor = "sending")
    /\ \A r \in onWire \cup flushed : state[r] = "DISPATCHING"
    /\ actor = "sending" => current \notin flushed
    /\ \A r \in Active : r \in flushed \/ (actor = "sending" /\ r = current)

\* What the caller, its reply channel and the custody of its command agree on.
Agreed ==
    \A r \in Requests :
        /\ caller[r] = "new" => state[r] = "QUEUED" /\ r \notin Custody /\ reply[r] = "empty"
        /\ caller[r] \notin {"done", "gone"} => outcome[r] = "none"
        /\ reply[r] # "empty" => r \notin Custody
        /\ caller[r] = "waiting" => r \in Custody \/ reply[r] # "empty"
        /\ reply[r] = "before" => r \notin onWire
        /\ outcome[r] = "before" => r \notin onWire /\ (state[r] = "ABANDONED" \/ r \notin Custody)
        /\ reply[r] \in Answers => reply[r] = answer[r] /\ r \in flushed
        /\ outcome[r] \in Answers => outcome[r] = answer[r] /\ r \in flushed

IInv == TypeOK /\ Tidy /\ Placed /\ Admitted /\ Agreed

-----------------------------------------------------------------------------
(* How the queue-changing steps change the set of waiting commands.        *)

\* A step that leaves the lanes alone keeps what waits in them.
LEMMA QueueKept ==
  ASSUME UNCHANGED queue
  PROVE  Waiting' = Waiting /\ (Tidy => Tidy')
BY DEF Waiting, Queued, Tidy

\* Appending a request that waits nowhere adds exactly it.
LEMMA QueueGrows ==
  ASSUME TypeOK, Tidy, NEW r \in Requests, r \notin Waiting,
         queue' = [queue EXCEPT ![Lane(r)] = Append(@, r)]
  PROVE  Waiting' = Waiting \cup {r} /\ Tidy'
  <1>1. Lane(r) \in Lanes
    BY SessionAssumption DEF Lane, Lanes, Kinds
  <1>2. \A l \in Lanes : queue[l] \in Seq(Requests)
    BY DEF TypeOK
  <1>3. /\ queue'[Lane(r)] = Append(queue[Lane(r)], r)
        /\ \A l \in Lanes \ {Lane(r)} : queue'[l] = queue[l]
    BY <1>1 DEF TypeOK
  <1>4. /\ Len(queue'[Lane(r)]) = Len(queue[Lane(r)]) + 1
        /\ \A i \in 1..Len(queue[Lane(r)]) : queue'[Lane(r)][i] = queue[Lane(r)][i]
        /\ queue'[Lane(r)][Len(queue[Lane(r)]) + 1] = r
        /\ Len(queue[Lane(r)]) \in Nat
    BY <1>1, <1>2, <1>3
  <1>5. \A l \in Lanes : \A i \in 1..Len(queue[l]) : queue[l][i] \in Waiting
    BY <1>2 DEF Waiting, Queued
  <1>6. Waiting' = Waiting \cup {r}
    <2>1. ASSUME NEW q \in Waiting'
          PROVE  q \in Waiting \cup {r}
      <3>1. PICK l \in Lanes : \E i \in 1..Len(queue'[l]) : queue'[l][i] = q
        BY <2>1 DEF Waiting, Queued
      <3>2. CASE l = Lane(r)
        BY <3>1, <3>2, <1>1, <1>4, <1>5
      <3>3. CASE l # Lane(r)
        BY <3>1, <3>3, <1>3, <1>5
      <3>4. QED BY <3>2, <3>3
    <2>2. ASSUME NEW q \in Waiting
          PROVE  q \in Waiting'
      <3>1. q \in Requests
        BY <2>2 DEF Waiting
      <3>2. PICK l \in Lanes : \E i \in 1..Len(queue[l]) : queue[l][i] = q
        BY <2>2 DEF Waiting, Queued
      <3>3. \E i \in 1..Len(queue'[l]) : queue'[l][i] = q
        <4>1. CASE l = Lane(r)
          <5>1. PICK i \in 1..Len(queue[l]) : queue[l][i] = q
            BY <3>2
          <5>2. i \in 1..Len(queue'[l]) /\ queue'[l][i] = q
            BY <5>1, <4>1, <1>4
          <5>3. QED BY <5>2
        <4>2. CASE l # Lane(r)
          BY <3>2, <4>2, <1>3
        <4>3. QED BY <4>1, <4>2
      <3>4. QED BY <3>1, <3>3 DEF Waiting, Queued
    <2>3. r \in Waiting'
      <3>1. Len(queue[Lane(r)]) + 1 \in 1..Len(queue'[Lane(r)])
        BY <1>4
      <3>2. QED BY <1>1, <1>4, <3>1 DEF Waiting, Queued
    <2>4. QED BY <2>1, <2>2, <2>3
  <1>7. Tidy'
    <2>1. SUFFICES ASSUME NEW l \in Lanes, NEW i \in 1..Len(queue'[l])
                   PROVE  /\ Lane(queue'[l][i]) = l
                          /\ \A j \in 1..Len(queue'[l]) : queue'[l][i] = queue'[l][j] => i = j
      BY DEF Tidy, Lane
    <2>2. CASE l # Lane(r)
      BY <2>2, <1>3 DEF Tidy
    <2>3. CASE l = Lane(r) /\ i = Len(queue[l]) + 1
      BY <2>3, <1>1, <1>4, <1>5
    <2>4. CASE l = Lane(r) /\ i # Len(queue[l]) + 1
      <3>1. i \in 1..Len(queue[l])
        BY <2>4, <1>4
      <3>2. QED BY <2>4, <3>1, <1>1, <1>4, <1>5 DEF Tidy
    <2>5. QED BY <2>2, <2>3, <2>4
  <1>8. QED BY <1>6, <1>7

\* Taking the head of a lane removes exactly it.
LEMMA QueueShrinks ==
  ASSUME TypeOK, Tidy, NEW l \in Lanes, queue[l] # <<>>,
         queue' = [queue EXCEPT ![l] = Tail(@)]
  PROVE  /\ Head(queue[l]) \in Waiting
         /\ Lane(Head(queue[l])) = l
         /\ Waiting' = Waiting \ {Head(queue[l])}
         /\ Tidy'
  <1> DEFINE h == Head(queue[l])
  <1>1. \A m \in Lanes : queue[m] \in Seq(Requests)
    BY DEF TypeOK
  <1>2. /\ queue'[l] = Tail(queue[l])
        /\ \A m \in Lanes \ {l} : queue'[m] = queue[m]
    BY DEF TypeOK
  <1>3. /\ Len(queue[l]) \in Nat \ {0}
        /\ h = queue[l][1]
        /\ h \in Requests
        /\ Len(queue'[l]) = Len(queue[l]) - 1
        /\ \A i \in 1..Len(queue'[l]) : queue'[l][i] = queue[l][i + 1]
    <2>1. queue[l] \in Seq(Requests)
      BY <1>1
    <2>2. Len(queue[l]) \in Nat \ {0} /\ h \in Requests
      BY <2>1, EmptySeq, HeadTailProperties
    <2>3. h = queue[l][1]
      BY <2>1
    <2>4. /\ Len(Tail(queue[l])) = Len(queue[l]) - 1
          /\ \A i \in 1..Len(Tail(queue[l])) : Tail(queue[l])[i] = queue[l][i + 1]
      BY <2>1, HeadTailProperties, Zenon
    <2>5. QED BY <1>2, <2>2, <2>3, <2>4, Zenon
  <1>4. 1 \in 1..Len(queue[l])
    BY <1>3
  <1>5. h \in Waiting /\ Lane(h) = l
    BY <1>3, <1>4 DEF Waiting, Queued, Tidy
  <1>6. \A i \in 1..Len(queue'[l]) : i + 1 \in 1..Len(queue[l]) /\ i + 1 # 1
    BY <1>3
  <1>7. Waiting' = Waiting \ {h}
    <2>1. ASSUME NEW q \in Waiting'
          PROVE  q \in Waiting \ {h}
      <3>1. q \in Requests
        BY <2>1 DEF Waiting
      <3>2. PICK m \in Lanes : \E i \in 1..Len(queue'[m]) : queue'[m][i] = q
        BY <2>1 DEF Waiting, Queued
      <3>3. CASE m = l
        <4>1. PICK i \in 1..Len(queue'[l]) : queue'[l][i] = q
          BY <3>2, <3>3
        <4>2. i + 1 \in 1..Len(queue[l]) /\ queue[l][i + 1] = q /\ i + 1 # 1
          BY <4>1, <1>3, <1>6
        <4>3. q # h
          BY <4>2, <1>3, <1>4 DEF Tidy
        <4>4. QED BY <3>1, <4>2, <4>3 DEF Waiting, Queued
      <3>4. CASE m # l
        <4>1. PICK i \in 1..Len(queue[m]) : queue[m][i] = q
          BY <3>2, <3>4, <1>2
        <4>2. Lane(q) = m
          BY <4>1 DEF Tidy
        <4>3. QED BY <3>1, <3>4, <4>1, <4>2, <1>5 DEF Waiting, Queued
      <3>5. QED BY <3>3, <3>4
    <2>2. ASSUME NEW q \in Waiting, q # h
          PROVE  q \in Waiting'
      <3>1. q \in Requests
        BY <2>2 DEF Waiting
      <3>2. PICK m \in Lanes : \E i \in 1..Len(queue[m]) : queue[m][i] = q
        BY <2>2 DEF Waiting, Queued
      <3>3. PICK i \in 1..Len(queue[m]) : queue[m][i] = q
        BY <3>2
      <3>4. CASE m = l
        <4>1. i - 1 \in 1..Len(queue'[l]) /\ (i - 1) + 1 = i
          BY <3>3, <3>4, <2>2, <1>3
        <4>2. queue'[l][i - 1] = q
          BY <4>1, <3>3, <3>4, <1>3
        <4>3. QED BY <3>1, <4>1, <4>2 DEF Waiting, Queued
      <3>5. CASE m # l
        BY <3>1, <3>3, <3>5, <1>2 DEF Waiting, Queued
      <3>6. QED BY <3>4, <3>5
    <2>3. QED BY <2>1, <2>2
  <1>8. Tidy'
    <2>1. SUFFICES ASSUME NEW m \in Lanes, NEW i \in 1..Len(queue'[m])
                   PROVE  /\ Lane(queue'[m][i]) = m
                          /\ \A j \in 1..Len(queue'[m]) : queue'[m][i] = queue'[m][j] => i = j
      BY DEF Tidy, Lane
    <2>2. CASE m # l
      BY <2>2, <1>2 DEF Tidy
    <2>3. CASE m = l
      <3>1. Lane(queue'[m][i]) = m
        BY <2>3, <1>3, <1>6 DEF Tidy
      <3>2. ASSUME NEW j \in 1..Len(queue'[l]), queue'[l][i] = queue'[l][j]
            PROVE  i = j
        <4>1. queue[l][i + 1] = queue[l][j + 1]
          BY <2>3, <3>2, <1>3
        <4>2. i + 1 = j + 1
          BY <2>3, <4>1, <1>6 DEF Tidy
        <4>3. QED BY <4>2, <2>3, <1>3
      <3>3. QED BY <2>3, <3>1, <3>2
    <2>4. QED BY <2>2, <2>3
  <1>9. QED BY <1>5, <1>7, <1>8

\* Emptying the lanes leaves nothing waiting.
LEMMA QueueEmptied ==
  ASSUME queue' = [l \in Lanes |-> <<>>]
  PROVE  Waiting' = {} /\ Tidy'
BY DEF Waiting, Queued, Tidy

-----------------------------------------------------------------------------
(* Every step keeps the invariant.                                        *)

\* Commands are requests.
LEMMA Members ==
  ASSUME TypeOK
  PROVE  Waiting \subseteq Requests /\ Active \subseteq Requests
BY DEF TypeOK, Waiting, Active

\* Callers: submission, delivery, timeout and cancellation.
LEMMA CallerStep ==
  ASSUME IInv, NEW r \in Requests, CallerNext(r)
  PROVE  IInv'
  <1>1. CASE SubmitRefused(r)
    <2>1. TypeOK'
      BY <1>1, SessionAssumption DEF IInv, TypeOK, Callers, Outcomes, SubmitRefused,
         callerVars, actorVars, envVars, peerVars
    <2>2. Waiting' = Waiting /\ Tidy'
      BY <1>1, QueueKept DEF IInv, SubmitRefused, callerVars, actorVars, envVars,
         peerVars
    <2>3. Active' = Active
      BY <1>1, SessionAssumption DEF Active, SubmitRefused, callerVars, actorVars,
         envVars, peerVars
    <2>4. Placed'
      BY <1>1, <2>1, <2>2, <2>3, SessionAssumption DEF IInv, TypeOK, Placed, Lane,
         SubmitRefused, callerVars, actorVars, envVars, peerVars
    <2>5. Admitted'
      BY <1>1, <2>1, <2>2, <2>3, SessionAssumption DEF IInv, TypeOK, Admitted,
         Placed, SubmitRefused, callerVars, actorVars, envVars, peerVars
    <2>6. Agreed'
      BY <1>1, <2>1, <2>2, <2>3, SessionAssumption DEF IInv, TypeOK, Agreed,
         Admitted, Placed, Custody, Answers, SubmitRefused, callerVars, actorVars,
         envVars, peerVars
    <2>7. QED BY <2>1, <2>2, <2>4, <2>5, <2>6 DEF IInv
  <1>2. CASE SubmitAdmitted(r)
    <2>1. TypeOK'
      BY <1>2, SessionAssumption DEF IInv, TypeOK, Callers, Outcomes,
         SubmitAdmitted, callerVars, actorVars, envVars, peerVars, Lane, Lanes,
         Kinds
    <2>2. Waiting' = Waiting \cup {r} /\ Tidy'
      BY <1>2, QueueGrows DEF IInv, SubmitAdmitted, callerVars, actorVars, envVars,
         peerVars, Agreed, Custody
    <2>3. Active' = Active
      BY <1>2, SessionAssumption DEF Active, SubmitAdmitted, callerVars, actorVars,
         envVars, peerVars
    <2>4. Placed'
      BY <1>2, <2>1, <2>2, <2>3, SessionAssumption DEF IInv, TypeOK, Placed, Lane,
         SubmitAdmitted, callerVars, actorVars, envVars, peerVars, Agreed, Custody
    <2>5. Admitted'
      BY <1>2, <2>1, <2>2, <2>3, SessionAssumption DEF IInv, TypeOK, Admitted,
         Placed, SubmitAdmitted, callerVars, actorVars, envVars, peerVars, Agreed,
         Custody
    <2>6. Agreed'
      BY <1>2, <2>1, <2>2, <2>3, SessionAssumption DEF IInv, TypeOK, Agreed,
         Admitted, Placed, Custody, Answers, SubmitAdmitted, callerVars, actorVars,
         envVars, peerVars
    <2>7. QED BY <2>1, <2>2, <2>4, <2>5, <2>6 DEF IInv
  <1>3. CASE CallerReceives(r)
    <2>1. TypeOK'
      BY <1>3, SessionAssumption DEF IInv, TypeOK, Callers, Outcomes,
         CallerReceives, callerVars, actorVars, envVars, peerVars
    <2>2. Waiting' = Waiting /\ Tidy'
      BY <1>3, QueueKept DEF IInv, CallerReceives, callerVars, actorVars, envVars,
         peerVars
    <2>3. Active' = Active
      BY <1>3, SessionAssumption DEF Active, CallerReceives, callerVars, actorVars,
         envVars, peerVars
    <2>4. Placed'
      BY <1>3, <2>1, <2>2, <2>3, SessionAssumption DEF IInv, TypeOK, Placed, Lane,
         CallerReceives, callerVars, actorVars, envVars, peerVars
    <2>5. Admitted'
      BY <1>3, <2>1, <2>2, <2>3, SessionAssumption DEF IInv, TypeOK, Admitted,
         Placed, CallerReceives, callerVars, actorVars, envVars, peerVars
    <2>6. Agreed'
      BY <1>3, <2>1, <2>2, <2>3, SessionAssumption DEF IInv, TypeOK, Agreed,
         Admitted, Placed, Custody, Answers, CallerReceives, callerVars, actorVars,
         envVars, peerVars
    <2>7. QED BY <2>1, <2>2, <2>4, <2>5, <2>6 DEF IInv
  <1>4. CASE CallerTimesOut(r)
    <2>1. TypeOK'
      BY <1>4, SessionAssumption DEF IInv, TypeOK, Callers, Outcomes,
         CallerTimesOut, callerVars, actorVars, envVars, peerVars
    <2>2. Waiting' = Waiting /\ Tidy'
      BY <1>4, QueueKept DEF IInv, CallerTimesOut, callerVars, actorVars, envVars,
         peerVars
    <2>3. Active' = Active
      BY <1>4, SessionAssumption DEF Active, CallerTimesOut, callerVars, actorVars,
         envVars, peerVars
    <2>4. Placed'
      BY <1>4, <2>1, <2>2, <2>3, SessionAssumption DEF IInv, TypeOK, Placed, Lane,
         CallerTimesOut, callerVars, actorVars, envVars, peerVars
    <2>5. Admitted'
      BY <1>4, <2>1, <2>2, <2>3, SessionAssumption DEF IInv, TypeOK, Admitted,
         Placed, CallerTimesOut, callerVars, actorVars, envVars, peerVars
    <2>6. Agreed'
      BY <1>4, <2>1, <2>2, <2>3, SessionAssumption DEF IInv, TypeOK, Agreed,
         Admitted, Placed, Custody, Answers, CallerTimesOut, callerVars, actorVars,
         envVars, peerVars
    <2>7. QED BY <2>1, <2>2, <2>4, <2>5, <2>6 DEF IInv
  <1>5. CASE CallerAbandons(r)
    <2>1. TypeOK'
      BY <1>5, SessionAssumption DEF IInv, TypeOK, Callers, Outcomes,
         CallerAbandons, callerVars, actorVars, envVars, peerVars
    <2>2. Waiting' = Waiting /\ Tidy'
      BY <1>5, QueueKept DEF IInv, CallerAbandons, callerVars, actorVars, envVars,
         peerVars
    <2>3. Active' = Active
      BY <1>5, SessionAssumption DEF Active, CallerAbandons, callerVars, actorVars,
         envVars, peerVars
    <2>4. Placed'
      BY <1>5, <2>1, <2>2, <2>3, SessionAssumption DEF IInv, TypeOK, Placed, Lane,
         CallerAbandons, callerVars, actorVars, envVars, peerVars
    <2>5. Admitted'
      BY <1>5, <2>1, <2>2, <2>3, SessionAssumption DEF IInv, TypeOK, Admitted,
         Placed, CallerAbandons, callerVars, actorVars, envVars, peerVars
    <2>6. Agreed'
      BY <1>5, <2>1, <2>2, <2>3, SessionAssumption DEF IInv, TypeOK, Agreed,
         Admitted, Placed, Custody, Answers, CallerAbandons, callerVars, actorVars,
         envVars, peerVars
    <2>7. QED BY <2>1, <2>2, <2>4, <2>5, <2>6 DEF IInv
  <1>6. CASE CallerCancels(r)
    <2>1. TypeOK'
      BY <1>6, SessionAssumption DEF IInv, TypeOK, Callers, Outcomes, CallerCancels,
         callerVars, actorVars, envVars, peerVars
    <2>2. Waiting' = Waiting /\ Tidy'
      BY <1>6, QueueKept DEF IInv, CallerCancels, callerVars, actorVars, envVars,
         peerVars
    <2>3. Active' = Active
      BY <1>6, SessionAssumption DEF Active, CallerCancels, callerVars, actorVars,
         envVars, peerVars
    <2>4. Placed'
      BY <1>6, <2>1, <2>2, <2>3, SessionAssumption DEF IInv, TypeOK, Placed, Lane,
         CallerCancels, callerVars, actorVars, envVars, peerVars
    <2>5. Admitted'
      BY <1>6, <2>1, <2>2, <2>3, SessionAssumption DEF IInv, TypeOK, Admitted,
         Placed, CallerCancels, callerVars, actorVars, envVars, peerVars
    <2>6. Agreed'
      BY <1>6, <2>1, <2>2, <2>3, SessionAssumption DEF IInv, TypeOK, Agreed,
         Admitted, Placed, Custody, Answers, CallerCancels, callerVars, actorVars,
         envVars, peerVars
    <2>7. QED BY <2>1, <2>2, <2>4, <2>5, <2>6 DEF IInv
  <1>7. CASE CancellationDrops(r)
    <2>1. TypeOK'
      BY <1>7, SessionAssumption DEF IInv, TypeOK, Callers, Outcomes,
         CancellationDrops, callerVars, actorVars, envVars, peerVars
    <2>2. Waiting' = Waiting /\ Tidy'
      BY <1>7, QueueKept DEF IInv, CancellationDrops, callerVars, actorVars,
         envVars, peerVars
    <2>3. Active' = Active
      BY <1>7, SessionAssumption DEF Active, CancellationDrops, callerVars,
         actorVars, envVars, peerVars
    <2>4. Placed'
      BY <1>7, <2>1, <2>2, <2>3, SessionAssumption DEF IInv, TypeOK, Placed, Lane,
         CancellationDrops, callerVars, actorVars, envVars, peerVars
    <2>5. Admitted'
      BY <1>7, <2>1, <2>2, <2>3, SessionAssumption DEF IInv, TypeOK, Admitted,
         Placed, CancellationDrops, callerVars, actorVars, envVars, peerVars
    <2>6. Agreed'
      BY <1>7, <2>1, <2>2, <2>3, SessionAssumption DEF IInv, TypeOK, Agreed,
         Admitted, Placed, Custody, Answers, CancellationDrops, callerVars,
         actorVars, envVars, peerVars
    <2>7. QED BY <2>1, <2>2, <2>4, <2>5, <2>6 DEF IInv
  <1>8. QED BY <1>1, <1>2, <1>3, <1>4, <1>5, <1>6, <1>7 DEF CallerNext

\* The environment: owner, event consumer, clock and peer.
LEMMA EnvStep ==
  ASSUME IInv, EnvNext
  PROVE  IInv'
  <1>1. CASE RequestShutdown
    <2>1. TypeOK'
      BY <1>1, SessionAssumption DEF IInv, TypeOK, Callers, Outcomes,
         RequestShutdown, callerVars, actorVars, envVars, peerVars
    <2>2. Waiting' = Waiting /\ Tidy'
      BY <1>1, QueueKept DEF IInv, RequestShutdown, callerVars, actorVars, envVars,
         peerVars
    <2>3. Active' = Active
      BY <1>1, SessionAssumption DEF Active, RequestShutdown, callerVars, actorVars,
         envVars, peerVars
    <2>4. Placed'
      BY <1>1, <2>1, <2>2, <2>3, SessionAssumption DEF IInv, TypeOK, Placed, Lane,
         RequestShutdown, callerVars, actorVars, envVars, peerVars
    <2>5. Admitted'
      BY <1>1, <2>1, <2>2, <2>3, SessionAssumption DEF IInv, TypeOK, Admitted,
         Placed, RequestShutdown, callerVars, actorVars, envVars, peerVars
    <2>6. Agreed'
      BY <1>1, <2>1, <2>2, <2>3, SessionAssumption DEF IInv, TypeOK, Agreed,
         Admitted, Placed, Custody, Answers, RequestShutdown, callerVars, actorVars,
         envVars, peerVars
    <2>7. QED BY <2>1, <2>2, <2>4, <2>5, <2>6 DEF IInv
  <1>2. CASE ShutdownBudgetElapses
    <2>1. TypeOK'
      BY <1>2, SessionAssumption DEF IInv, TypeOK, Callers, Outcomes,
         ShutdownBudgetElapses, callerVars, actorVars, envVars, peerVars
    <2>2. Waiting' = Waiting /\ Tidy'
      BY <1>2, QueueKept DEF IInv, ShutdownBudgetElapses, callerVars, actorVars,
         envVars, peerVars
    <2>3. Active' = Active
      BY <1>2, SessionAssumption DEF Active, ShutdownBudgetElapses, callerVars,
         actorVars, envVars, peerVars
    <2>4. Placed'
      BY <1>2, <2>1, <2>2, <2>3, SessionAssumption DEF IInv, TypeOK, Placed, Lane,
         ShutdownBudgetElapses, callerVars, actorVars, envVars, peerVars
    <2>5. Admitted'
      BY <1>2, <2>1, <2>2, <2>3, SessionAssumption DEF IInv, TypeOK, Admitted,
         Placed, ShutdownBudgetElapses, callerVars, actorVars, envVars, peerVars
    <2>6. Agreed'
      BY <1>2, <2>1, <2>2, <2>3, SessionAssumption DEF IInv, TypeOK, Agreed,
         Admitted, Placed, Custody, Answers, ShutdownBudgetElapses, callerVars,
         actorVars, envVars, peerVars
    <2>7. QED BY <2>1, <2>2, <2>4, <2>5, <2>6 DEF IInv
  <1>3. CASE DropOwner
    <2>1. TypeOK'
      BY <1>3, SessionAssumption DEF IInv, TypeOK, Callers, Outcomes, DropOwner,
         callerVars, actorVars, envVars, peerVars
    <2>2. Waiting' = Waiting /\ Tidy'
      BY <1>3, QueueKept DEF IInv, DropOwner, callerVars, actorVars, envVars,
         peerVars
    <2>3. Active' = Active
      BY <1>3, SessionAssumption DEF Active, DropOwner, callerVars, actorVars,
         envVars, peerVars
    <2>4. Placed'
      BY <1>3, <2>1, <2>2, <2>3, SessionAssumption DEF IInv, TypeOK, Placed, Lane,
         DropOwner, callerVars, actorVars, envVars, peerVars
    <2>5. Admitted'
      BY <1>3, <2>1, <2>2, <2>3, SessionAssumption DEF IInv, TypeOK, Admitted,
         Placed, DropOwner, callerVars, actorVars, envVars, peerVars
    <2>6. Agreed'
      BY <1>3, <2>1, <2>2, <2>3, SessionAssumption DEF IInv, TypeOK, Agreed,
         Admitted, Placed, Custody, Answers, DropOwner, callerVars, actorVars,
         envVars, peerVars
    <2>7. QED BY <2>1, <2>2, <2>4, <2>5, <2>6 DEF IInv
  <1>4. CASE DropConsumer
    <2>1. TypeOK'
      BY <1>4, SessionAssumption DEF IInv, TypeOK, Callers, Outcomes, DropConsumer,
         callerVars, actorVars, envVars, peerVars
    <2>2. Waiting' = Waiting /\ Tidy'
      BY <1>4, QueueKept DEF IInv, DropConsumer, callerVars, actorVars, envVars,
         peerVars
    <2>3. Active' = Active
      BY <1>4, SessionAssumption DEF Active, DropConsumer, callerVars, actorVars,
         envVars, peerVars
    <2>4. Placed'
      BY <1>4, <2>1, <2>2, <2>3, SessionAssumption DEF IInv, TypeOK, Placed, Lane,
         DropConsumer, callerVars, actorVars, envVars, peerVars
    <2>5. Admitted'
      BY <1>4, <2>1, <2>2, <2>3, SessionAssumption DEF IInv, TypeOK, Admitted,
         Placed, DropConsumer, callerVars, actorVars, envVars, peerVars
    <2>6. Agreed'
      BY <1>4, <2>1, <2>2, <2>3, SessionAssumption DEF IInv, TypeOK, Agreed,
         Admitted, Placed, Custody, Answers, DropConsumer, callerVars, actorVars,
         envVars, peerVars
    <2>7. QED BY <2>1, <2>2, <2>4, <2>5, <2>6 DEF IInv
  <1>5. CASE \E r \in Requests : DeadlinePasses(r)
    <2>1. TypeOK'
      BY <1>5, SessionAssumption DEF IInv, TypeOK, Callers, Outcomes,
         DeadlinePasses, callerVars, actorVars, envVars, peerVars
    <2>2. Waiting' = Waiting /\ Tidy'
      BY <1>5, QueueKept DEF IInv, DeadlinePasses, callerVars, actorVars, envVars,
         peerVars
    <2>3. Active' = Active
      BY <1>5, SessionAssumption DEF Active, DeadlinePasses, callerVars, actorVars,
         envVars, peerVars
    <2>4. Placed'
      BY <1>5, <2>1, <2>2, <2>3, SessionAssumption DEF IInv, TypeOK, Placed, Lane,
         DeadlinePasses, callerVars, actorVars, envVars, peerVars
    <2>5. Admitted'
      BY <1>5, <2>1, <2>2, <2>3, SessionAssumption DEF IInv, TypeOK, Admitted,
         Placed, DeadlinePasses, callerVars, actorVars, envVars, peerVars
    <2>6. Agreed'
      BY <1>5, <2>1, <2>2, <2>3, SessionAssumption DEF IInv, TypeOK, Agreed,
         Admitted, Placed, Custody, Answers, DeadlinePasses, callerVars, actorVars,
         envVars, peerVars
    <2>7. QED BY <2>1, <2>2, <2>4, <2>5, <2>6 DEF IInv
  <1>6. CASE \E r \in Requests : \E v \in Answers : PeerExecutes(r, v)
    <2>1. TypeOK'
      BY <1>6, SessionAssumption DEF IInv, TypeOK, Callers, Outcomes, PeerExecutes,
         callerVars, actorVars, envVars, peerVars
    <2>2. Waiting' = Waiting /\ Tidy'
      BY <1>6, QueueKept DEF IInv, PeerExecutes, callerVars, actorVars, envVars,
         peerVars
    <2>3. Active' = Active
      BY <1>6, SessionAssumption DEF Active, PeerExecutes, callerVars, actorVars,
         envVars, peerVars
    <2>4. Placed'
      BY <1>6, <2>1, <2>2, <2>3, SessionAssumption DEF IInv, TypeOK, Placed, Lane,
         PeerExecutes, callerVars, actorVars, envVars, peerVars
    <2>5. Admitted'
      BY <1>6, <2>1, <2>2, <2>3, SessionAssumption DEF IInv, TypeOK, Admitted,
         Placed, PeerExecutes, callerVars, actorVars, envVars, peerVars
    <2>6. Agreed'
      BY <1>6, <2>1, <2>2, <2>3, SessionAssumption DEF IInv, TypeOK, Agreed,
         Admitted, Placed, Custody, Answers, PeerExecutes, callerVars, actorVars,
         envVars, peerVars
    <2>7. QED BY <2>1, <2>2, <2>4, <2>5, <2>6 DEF IInv
  <1>7. QED BY <1>1, <1>2, <1>3, <1>4, <1>5, <1>6 DEF EnvNext

\* Ending drive answers and releases every active command.
LEMMA RetireStep ==
  ASSUME IInv, NEW reason \in Reasons, Retire(reason), actor \in {"idle", "driving", "sending"}
  PROVE  IInv'
  <1>1. TypeOK'
    BY SessionAssumption DEF IInv, TypeOK, Callers, Outcomes, Retire, Answered,
       ReplyClosed, callerVars, actorVars, envVars, peerVars, Answers
  <1>2. Waiting' = Waiting /\ Tidy'
    BY QueueKept DEF IInv, Retire, Answered, ReplyClosed, callerVars, actorVars,
       envVars, peerVars
  <1>3. Active' = {}
    BY SessionAssumption DEF Active, Retire, Answered, ReplyClosed, callerVars,
       actorVars, envVars, peerVars
  <1>4. Placed'
    BY <1>1, <1>2, <1>3, SessionAssumption, Members DEF IInv, TypeOK, Placed,
       Lane, Retire, Answered, ReplyClosed, callerVars, actorVars, envVars,
       peerVars
  <1>5. Admitted'
    BY <1>1, <1>2, <1>3, SessionAssumption DEF IInv, TypeOK, Admitted, Placed,
       Retire, Answered, ReplyClosed, callerVars, actorVars, envVars, peerVars
  <1>6. Agreed'
    BY <1>1, <1>2, <1>3, SessionAssumption DEF IInv, TypeOK, Agreed, Admitted,
       Placed, Custody, Answers, Retire, Answered, ReplyClosed, callerVars,
       actorVars, envVars, peerVars
  <1>7. QED BY <1>1, <1>2, <1>4, <1>5, <1>6 DEF IInv

\* A refused command is finished without having touched the socket.
LEMMA RefuseStep ==
  ASSUME IInv, Refuse, actor \in {"prepare", "claim"},
         \/ state' = state
         \/ state' = [state EXCEPT ![current] = "DISPATCHING"] /\ ReplyClosed(current)
  PROVE  IInv'
  <1>1. TypeOK'
    BY SessionAssumption DEF IInv, TypeOK, Callers, Outcomes, Refuse, Answered,
       ReplyClosed, callerVars, actorVars, envVars, peerVars, Answers
  <1>2. Waiting' = Waiting /\ Tidy'
    BY QueueKept DEF IInv, Refuse, Answered, ReplyClosed, callerVars, actorVars,
       envVars, peerVars
  <1>3. Active' = Active
    BY SessionAssumption DEF Active, Refuse, Answered, ReplyClosed, callerVars,
       actorVars, envVars, peerVars
  <1>4. Placed'
    BY <1>1, <1>2, <1>3, SessionAssumption, Members DEF IInv, TypeOK, Placed,
       Lane, Refuse, Answered, ReplyClosed, callerVars, actorVars, envVars,
       peerVars
  <1>5. Admitted'
    BY <1>1, <1>2, <1>3, SessionAssumption, Members DEF IInv, TypeOK, Admitted,
       Placed, Refuse, Answered, ReplyClosed, callerVars, actorVars, envVars,
       peerVars
  <1>6. Agreed'
    BY <1>1, <1>2, <1>3, SessionAssumption DEF IInv, TypeOK, Agreed, Admitted,
       Placed, Custody, Answers, Refuse, Answered, ReplyClosed, callerVars,
       actorVars, envVars, peerVars
  <1>7. QED BY <1>1, <1>2, <1>4, <1>5, <1>6 DEF IInv

\* The socket actor.
LEMMA ActorStep ==
  ASSUME IInv, ActorNext
  PROVE  IInv'
  <1>1. CASE Interrupted \/ WriteFails \/ StreamFails
    BY <1>1, RetireStep DEF Interrupted, StopsWaiting, WriteFails, StreamFails, Listening, Reasons
  <1>2. CASE RetireObservations
    <2>1. TypeOK'
      BY <1>2, SessionAssumption DEF IInv, TypeOK, Callers, Outcomes,
         RetireObservations, Answered, ReplyClosed, callerVars, actorVars, envVars,
         peerVars, Answers
    <2>2. Waiting' = Waiting /\ Tidy'
      BY <1>2, QueueKept DEF IInv, RetireObservations, Answered, ReplyClosed,
         callerVars, actorVars, envVars, peerVars
    <2>3. Active' = Active \ {r \in Active : Retirable(r)}
      BY <1>2, SessionAssumption DEF Active, IInv, TypeOK, Lanes,
         RetireObservations, Answered, ReplyClosed, callerVars, actorVars, envVars,
         peerVars
    <2>4. Placed'
      BY <1>2, <2>1, <2>2, <2>3, SessionAssumption, Members DEF IInv, TypeOK,
         Placed, Lane, RetireObservations, Answered, ReplyClosed, callerVars,
         actorVars, envVars, peerVars, Lanes, Kinds
    <2>5. Admitted'
      BY <1>2, <2>1, <2>2, <2>3, SessionAssumption, Members DEF IInv, TypeOK,
         Admitted, Placed, RetireObservations, Answered, ReplyClosed, callerVars,
         actorVars, envVars, peerVars
    <2>6. Agreed'
      BY <1>2, <2>1, <2>2, <2>3, SessionAssumption, Members DEF IInv, TypeOK,
         Agreed, Admitted, Placed, Custody, Answers, RetireObservations, Answered,
         ReplyClosed, callerVars, actorVars, envVars, peerVars
    <2>7. QED BY <2>1, <2>2, <2>4, <2>5, <2>6 DEF IInv
  <1>3. CASE PrepareDispatch /\ Refuse
    BY <1>3, RefuseStep DEF PrepareDispatch
  <1>4. CASE PrepareDispatch /\ ~Refuse
    <2>1. TypeOK'
      BY <1>4, SessionAssumption DEF IInv, TypeOK, Callers, Outcomes,
         PrepareDispatch, callerVars, actorVars, envVars, peerVars
    <2>2. Waiting' = Waiting /\ Tidy'
      BY <1>4, QueueKept DEF IInv, PrepareDispatch, callerVars, actorVars, envVars,
         peerVars
    <2>3. Active' = Active
      BY <1>4, SessionAssumption DEF Active, PrepareDispatch, callerVars, actorVars,
         envVars, peerVars
    <2>4. Placed'
      BY <1>4, <2>1, <2>2, <2>3, SessionAssumption DEF IInv, TypeOK, Placed, Lane,
         PrepareDispatch, callerVars, actorVars, envVars, peerVars
    <2>5. Admitted'
      BY <1>4, <2>1, <2>2, <2>3, SessionAssumption DEF IInv, TypeOK, Admitted,
         Placed, PrepareDispatch, callerVars, actorVars, envVars, peerVars
    <2>6. Agreed'
      BY <1>4, <2>1, <2>2, <2>3, SessionAssumption DEF IInv, TypeOK, Agreed,
         Admitted, Placed, Custody, Answers, PrepareDispatch, callerVars, actorVars,
         envVars, peerVars
    <2>7. QED BY <2>1, <2>2, <2>4, <2>5, <2>6 DEF IInv
  <1>5. CASE ClaimDispatch /\ Refuse
    BY <1>5, RefuseStep DEF ClaimDispatch, Refuse, IInv, TypeOK
  <1>6. CASE ClaimDispatch /\ ~Refuse
    <2>1. TypeOK'
      BY <1>6, SessionAssumption DEF IInv, TypeOK, Callers, Outcomes, ClaimDispatch,
         ReplyClosed, callerVars, actorVars, envVars, peerVars, Placed
    <2>2. Waiting' = Waiting /\ Tidy'
      BY <1>6, QueueKept DEF IInv, ClaimDispatch, ReplyClosed, callerVars,
         actorVars, envVars, peerVars
    <2>3. Active' = Active \cup {current}
      BY <1>6, SessionAssumption DEF Active, IInv, TypeOK, Lanes, Lane, Placed,
         Kinds, ClaimDispatch, ReplyClosed, callerVars, actorVars, envVars, peerVars
    <2>4. Placed'
      BY <1>6, <2>1, <2>2, <2>3, SessionAssumption, Members DEF IInv, TypeOK,
         Placed, Lane, ClaimDispatch, ReplyClosed, callerVars, actorVars, envVars,
         peerVars
    <2>5. Admitted'
      BY <1>6, <2>1, <2>2, <2>3, SessionAssumption, Members DEF IInv, TypeOK,
         Admitted, Placed, ClaimDispatch, ReplyClosed, callerVars, actorVars,
         envVars, peerVars
    <2>6. Agreed'
      BY <1>6, <2>1, <2>2, <2>3, SessionAssumption, Members DEF IInv, TypeOK,
         Agreed, Admitted, Placed, Custody, Answers, ClaimDispatch, ReplyClosed,
         callerVars, actorVars, envVars, peerVars
    <2>7. QED BY <2>1, <2>2, <2>4, <2>5, <2>6 DEF IInv
  <1>7. CASE WriteFrame
    <2>1. TypeOK'
      BY <1>7, SessionAssumption DEF IInv, TypeOK, Callers, Outcomes, WriteFrame,
         callerVars, actorVars, envVars, peerVars, Placed
    <2>2. Waiting' = Waiting /\ Tidy'
      BY <1>7, QueueKept DEF IInv, WriteFrame, callerVars, actorVars, envVars,
         peerVars
    <2>3. Active' = Active
      BY <1>7, SessionAssumption DEF Active, WriteFrame, callerVars, actorVars,
         envVars, peerVars
    <2>4. Placed'
      BY <1>7, <2>1, <2>2, <2>3, SessionAssumption DEF IInv, TypeOK, Placed, Lane,
         WriteFrame, callerVars, actorVars, envVars, peerVars
    <2>5. Admitted'
      BY <1>7, <2>1, <2>2, <2>3, SessionAssumption DEF IInv, TypeOK, Admitted,
         Placed, WriteFrame, callerVars, actorVars, envVars, peerVars
    <2>6. Agreed'
      BY <1>7, <2>1, <2>2, <2>3, SessionAssumption DEF IInv, TypeOK, Agreed,
         Admitted, Placed, Custody, Answers, WriteFrame, callerVars, actorVars,
         envVars, peerVars
    <2>7. QED BY <2>1, <2>2, <2>4, <2>5, <2>6 DEF IInv
  <1>8. CASE DriveReturns
    <2>1. TypeOK'
      BY <1>8, SessionAssumption DEF IInv, TypeOK, Callers, Outcomes, DriveReturns,
         callerVars, actorVars, envVars, peerVars, Placed
    <2>2. Waiting' = Waiting /\ Tidy'
      BY <1>8, QueueKept DEF IInv, DriveReturns, callerVars, actorVars, envVars,
         peerVars
    <2>3. Active' = Active
      BY <1>8, SessionAssumption DEF Active, DriveReturns, callerVars, actorVars,
         envVars, peerVars
    <2>4. Placed'
      BY <1>8, <2>1, <2>2, <2>3, SessionAssumption DEF IInv, TypeOK, Placed, Lane,
         DriveReturns, callerVars, actorVars, envVars, peerVars
    <2>5. Admitted'
      BY <1>8, <2>1, <2>2, <2>3, SessionAssumption DEF IInv, TypeOK, Admitted,
         Placed, DriveReturns, callerVars, actorVars, envVars, peerVars
    <2>6. Agreed'
      BY <1>8, <2>1, <2>2, <2>3, SessionAssumption DEF IInv, TypeOK, Agreed,
         Admitted, Placed, Custody, Answers, DriveReturns, callerVars, actorVars,
         envVars, peerVars
    <2>7. QED BY <2>1, <2>2, <2>4, <2>5, <2>6 DEF IInv
  <1>9. CASE PublishTerminal
    <2>1. TypeOK'
      BY <1>9, SessionAssumption DEF IInv, TypeOK, Callers, Outcomes,
         PublishTerminal, callerVars, actorVars, envVars, peerVars, Placed
    <2>2. Waiting' = Waiting /\ Tidy'
      BY <1>9, QueueKept DEF IInv, PublishTerminal, callerVars, actorVars, envVars,
         peerVars
    <2>3. Active' = Active
      BY <1>9, SessionAssumption DEF Active, PublishTerminal, callerVars, actorVars,
         envVars, peerVars
    <2>4. Placed'
      BY <1>9, <2>1, <2>2, <2>3, SessionAssumption DEF IInv, TypeOK, Placed, Lane,
         PublishTerminal, callerVars, actorVars, envVars, peerVars
    <2>5. Admitted'
      BY <1>9, <2>1, <2>2, <2>3, SessionAssumption DEF IInv, TypeOK, Admitted,
         Placed, PublishTerminal, callerVars, actorVars, envVars, peerVars
    <2>6. Agreed'
      BY <1>9, <2>1, <2>2, <2>3, SessionAssumption DEF IInv, TypeOK, Agreed,
         Admitted, Placed, Custody, Answers, PublishTerminal, callerVars, actorVars,
         envVars, peerVars
    <2>7. QED BY <2>1, <2>2, <2>4, <2>5, <2>6 DEF IInv
  <1>10. CASE FlushCompletes /\ early = "none"
    <2>1. TypeOK'
      BY <1>10, SessionAssumption DEF IInv, TypeOK, Callers, Outcomes,
         FlushCompletes, callerVars, actorVars, envVars, peerVars
    <2>2. Waiting' = Waiting /\ Tidy'
      BY <1>10, QueueKept DEF IInv, FlushCompletes, callerVars, actorVars, envVars,
         peerVars
    <2>3. Active' = Active
      BY <1>10, SessionAssumption DEF Active, FlushCompletes, callerVars, actorVars,
         envVars, peerVars
    <2>4. Placed'
      BY <1>10, <2>1, <2>2, <2>3, SessionAssumption, Members DEF IInv, TypeOK,
         Placed, Lane, FlushCompletes, callerVars, actorVars, envVars, peerVars
    <2>5. Admitted'
      BY <1>10, <2>1, <2>2, <2>3, SessionAssumption DEF IInv, TypeOK, Admitted,
         Placed, FlushCompletes, callerVars, actorVars, envVars, peerVars
    <2>6. Agreed'
      BY <1>10, <2>1, <2>2, <2>3, SessionAssumption DEF IInv, TypeOK, Agreed,
         Admitted, Placed, Custody, Answers, FlushCompletes, callerVars, actorVars,
         envVars, peerVars
    <2>7. QED BY <2>1, <2>2, <2>4, <2>5, <2>6 DEF IInv
  <1>11. CASE FlushCompletes /\ early # "none"
    <2>1. TypeOK'
      BY <1>11, SessionAssumption DEF IInv, TypeOK, Callers, Outcomes,
         FlushCompletes, Answered, ReplyClosed, callerVars, actorVars, envVars,
         peerVars, Placed, Answers
    <2>2. Waiting' = Waiting /\ Tidy'
      BY <1>11, QueueKept DEF IInv, FlushCompletes, Answered, ReplyClosed,
         callerVars, actorVars, envVars, peerVars
    <2>3. Active' = Active \ {current}
      BY <1>11, SessionAssumption DEF Active, IInv, TypeOK, Lanes, Lane, Placed,
         FlushCompletes, Answered, ReplyClosed, callerVars, actorVars, envVars,
         peerVars
    <2>4. Placed'
      BY <1>11, <2>1, <2>2, <2>3, SessionAssumption, Members DEF IInv, TypeOK,
         Placed, Lane, FlushCompletes, Answered, ReplyClosed, callerVars, actorVars,
         envVars, peerVars
    <2>5. Admitted'
      BY <1>11, <2>1, <2>2, <2>3, SessionAssumption, Members DEF IInv, TypeOK,
         Admitted, Placed, FlushCompletes, Answered, ReplyClosed, callerVars,
         actorVars, envVars, peerVars
    <2>6. Agreed'
      BY <1>11, <2>1, <2>2, <2>3, SessionAssumption, Members DEF IInv, TypeOK,
         Agreed, Admitted, Placed, Custody, Answers, FlushCompletes, Answered,
         ReplyClosed, callerVars, actorVars, envVars, peerVars
    <2>7. QED BY <2>1, <2>2, <2>4, <2>5, <2>6 DEF IInv
  <1>12. CASE DrainQueues
    <2>1. TypeOK'
      BY <1>12, SessionAssumption DEF IInv, TypeOK, Callers, Outcomes, DrainQueues,
         Answered, ReplyClosed, callerVars, actorVars, envVars, peerVars, Answers
    <2>2. Waiting' = {} /\ Tidy'
      BY <1>12, QueueEmptied DEF IInv, DrainQueues, Answered, ReplyClosed,
         callerVars, actorVars, envVars, peerVars
    <2>3. Active' = Active
      BY <1>12, SessionAssumption DEF Active, DrainQueues, Answered, ReplyClosed,
         callerVars, actorVars, envVars, peerVars
    <2>4. Placed'
      BY <1>12, <2>1, <2>2, <2>3, SessionAssumption DEF IInv, TypeOK, Placed, Lane,
         DrainQueues, Answered, ReplyClosed, callerVars, actorVars, envVars,
         peerVars
    <2>5. Admitted'
      BY <1>12, <2>1, <2>2, <2>3, SessionAssumption DEF IInv, TypeOK, Admitted,
         Placed, DrainQueues, Answered, ReplyClosed, callerVars, actorVars, envVars,
         peerVars
    <2>6. Agreed'
      BY <1>12, <2>1, <2>2, <2>3, SessionAssumption, Members DEF IInv, TypeOK,
         Agreed, Admitted, Placed, Custody, Answers, DrainQueues, Answered,
         ReplyClosed, callerVars, actorVars, envVars, peerVars, Waiting
    <2>7. QED BY <2>1, <2>2, <2>4, <2>5, <2>6 DEF IInv
  <1>13. CASE AbortTask
    <2>1. TypeOK'
      BY <1>13, SessionAssumption DEF IInv, TypeOK, Callers, Outcomes, AbortTask,
         ReplyClosed, callerVars, actorVars, envVars, peerVars, Answers
    <2>2. Waiting' = {} /\ Tidy'
      BY <1>13, QueueEmptied DEF IInv, AbortTask, ReplyClosed, callerVars,
         actorVars, envVars, peerVars
    <2>3. Active' = {}
      BY <1>13, SessionAssumption DEF Active, AbortTask, ReplyClosed, callerVars,
         actorVars, envVars, peerVars
    <2>4. Placed'
      BY <1>13, <2>1, <2>2, <2>3, SessionAssumption DEF IInv, TypeOK, Placed, Lane,
         AbortTask, ReplyClosed, callerVars, actorVars, envVars, peerVars
    <2>5. Admitted'
      BY <1>13, <2>1, <2>2, <2>3, SessionAssumption DEF IInv, TypeOK, Admitted,
         Placed, AbortTask, ReplyClosed, callerVars, actorVars, envVars, peerVars
    <2>6. Agreed'
      BY <1>13, <2>1, <2>2, <2>3, SessionAssumption, Members DEF IInv, TypeOK,
         Agreed, Admitted, Placed, Custody, Answers, AbortTask, ReplyClosed,
         callerVars, actorVars, envVars, peerVars, InCustody, Waiting
    <2>7. QED BY <2>1, <2>2, <2>4, <2>5, <2>6 DEF IInv
  <1>14. CASE \E l \in Lanes : TakeCommand(l)
    <2>1. TypeOK'
      BY <1>14, SessionAssumption DEF IInv, TypeOK, Callers, Outcomes, TakeCommand,
         MayAdmit, callerVars, actorVars, envVars, peerVars
    <2>2. current' \in Waiting /\ slot[Lane(current')] = None /\ Waiting' = Waiting \ {current'} /\ Tidy'
      BY <1>14, QueueShrinks DEF IInv, TakeCommand, MayAdmit, callerVars, actorVars,
         envVars, peerVars
    <2>3. Active' = Active
      BY <1>14, SessionAssumption DEF Active, TakeCommand, MayAdmit, callerVars,
         actorVars, envVars, peerVars
    <2>4. Placed'
      BY <1>14, <2>1, <2>2, <2>3, SessionAssumption, Members DEF IInv, TypeOK,
         Placed, Lane, TakeCommand, MayAdmit, callerVars, actorVars, envVars,
         peerVars
    <2>5. Admitted'
      BY <1>14, <2>1, <2>2, <2>3, SessionAssumption, Members DEF IInv, TypeOK,
         Admitted, Placed, TakeCommand, MayAdmit, callerVars, actorVars, envVars,
         peerVars
    <2>6. Agreed'
      BY <1>14, <2>1, <2>2, <2>3, SessionAssumption, Members DEF IInv, TypeOK,
         Agreed, Admitted, Placed, Custody, Answers, TakeCommand, MayAdmit,
         callerVars, actorVars, envVars, peerVars
    <2>7. QED BY <2>1, <2>2, <2>4, <2>5, <2>6 DEF IInv
  <1>15. CASE \E r \in Requests : RouteResponse(r) /\ Retire("ResponseIdentityMismatch")
    BY <1>15, RetireStep DEF RouteResponse, Listening, Reasons
  <1>16. CASE \E r \in Active : RouteResponse(r) /\ early' # early
    <2>1. TypeOK'
      BY <1>16, SessionAssumption, Members DEF IInv, TypeOK, Callers, Outcomes,
         RouteResponse, callerVars, actorVars, envVars, peerVars, Answers
    <2>2. Waiting' = Waiting /\ Tidy'
      BY <1>16, QueueKept DEF IInv, RouteResponse, callerVars, actorVars, envVars,
         peerVars
    <2>3. Active' = Active
      BY <1>16, SessionAssumption DEF Active, RouteResponse, callerVars, actorVars,
         envVars, peerVars
    <2>4. Placed'
      BY <1>16, <2>1, <2>2, <2>3, SessionAssumption DEF IInv, TypeOK, Placed, Lane,
         RouteResponse, callerVars, actorVars, envVars, peerVars, Answers
    <2>5. Admitted'
      BY <1>16, <2>1, <2>2, <2>3, SessionAssumption DEF IInv, TypeOK, Admitted,
         Placed, RouteResponse, callerVars, actorVars, envVars, peerVars
    <2>6. Agreed'
      BY <1>16, <2>1, <2>2, <2>3, SessionAssumption DEF IInv, TypeOK, Agreed,
         Admitted, Placed, Custody, Answers, RouteResponse, callerVars, actorVars,
         envVars, peerVars
    <2>7. QED BY <2>1, <2>2, <2>4, <2>5, <2>6 DEF IInv
  <1>17. ASSUME NEW r \in Active, r # current, RouteResponse(r), early' = early
        PROVE  IInv'
    <2>1. TypeOK'
      BY <1>17, SessionAssumption, Members DEF IInv, TypeOK, Callers, Outcomes,
         RouteResponse, Answered, ReplyClosed, Listening, callerVars, actorVars,
         envVars, peerVars, Answers
    <2>2. Waiting' = Waiting /\ Tidy'
      BY <1>17, QueueKept DEF IInv, RouteResponse, Answered, ReplyClosed, Listening,
         callerVars, actorVars, envVars, peerVars
    <2>3. Active' = Active \ {r}
      BY <1>17, SessionAssumption, Members DEF Active, IInv, TypeOK, Lanes, Lane,
         Placed, RouteResponse, Answered, ReplyClosed, Listening, callerVars,
         actorVars, envVars, peerVars
    <2>4. Placed'
      BY <1>17, <2>1, <2>2, <2>3, SessionAssumption, Members DEF IInv, TypeOK,
         Placed, Lane, RouteResponse, Answered, ReplyClosed, Listening, callerVars,
         actorVars, envVars, peerVars
    <2>5. Admitted'
      BY <1>17, <2>1, <2>2, <2>3, SessionAssumption, Members DEF IInv, TypeOK,
         Admitted, Placed, RouteResponse, Answered, ReplyClosed, Listening,
         callerVars, actorVars, envVars, peerVars
    <2>6. Agreed'
      BY <1>17, <2>1, <2>2, <2>3, SessionAssumption, Members DEF IInv, TypeOK,
         Agreed, Admitted, Placed, Custody, Answers, RouteResponse, Answered,
         ReplyClosed, Listening, callerVars, actorVars, envVars, peerVars
    <2>7. QED BY <2>1, <2>2, <2>4, <2>5, <2>6 DEF IInv
  <1>18. CASE \E r \in Requests : RouteResponse(r)
    <2>1. PICK r \in Requests : RouteResponse(r)
      BY <1>18
    <2>2. CASE r \notin Active
      BY <2>1, <2>2, <1>15 DEF RouteResponse
    <2>3. CASE r \in Active
      <3>1. early' # early \/ (early' = early /\ r # current)
        BY <2>1, <2>3 DEF RouteResponse, Listening, IInv, Placed, Active
      <3>2. QED BY <2>1, <2>3, <3>1, <1>16, <1>17
    <2>4. QED BY <2>2, <2>3
  <1>19. QED
    BY <1>1, <1>2, <1>3, <1>4, <1>5, <1>6, <1>7, <1>8, <1>9, <1>10, <1>11, <1>12,
       <1>13, <1>14, <1>15, <1>16, <1>17, <1>18 DEF ActorNext

\* Init establishes the invariant.
LEMMA IInvInit ==
  ASSUME Init
  PROVE  IInv
  <1>1. Waiting = {} /\ Active = {} /\ Tidy
    BY DEF Init, Waiting, Queued, Active, Tidy
  <1>2. TypeOK
    <2>1. queue \in [Lanes -> Seq(Requests)]
      BY EmptySeq DEF Init
    <2>2. QED BY <2>1 DEF Init, TypeOK, Callers, Outcomes, Answers
  <1>3. QED
    BY <1>1, <1>2, SessionAssumption DEF IInv, Init, Placed, Admitted, Agreed, Custody, Answers

\* A stuttering step keeps it.
LEMMA StutterStep ==
  ASSUME IInv, UNCHANGED vars
  PROVE  IInv'
  <1>1. TypeOK'
    BY DEF IInv, TypeOK, vars, callerVars, actorVars, envVars, peerVars
  <1>2. Waiting' = Waiting /\ Tidy' /\ Active' = Active
    BY QueueKept DEF IInv, Active, vars, actorVars
  <1>3. Placed' /\ Admitted' /\ Agreed'
    BY <1>2 DEF IInv, Placed, Lane, Admitted, Agreed, Custody, vars, callerVars, actorVars,
                envVars, peerVars
  <1>4. QED BY <1>1, <1>2, <1>3 DEF IInv

LEMMA IInvNext ==
  ASSUME IInv, [Next]_vars
  PROVE  IInv'
BY CallerStep, EnvStep, ActorStep, StutterStep DEF Next

LEMMA Invariance == Spec => []IInv
  <1>1. Init => IInv
    BY IInvInit
  <1>2. IInv /\ [Next]_vars => IInv'
    BY IInvNext
  <1>3. QED BY <1>1, <1>2, PTL DEF Spec

-----------------------------------------------------------------------------
(* What follows from the invariant.                                        *)

(* The types of the session's state hold in every behaviour of the callers,*)
(* the socket actor of session.rs and the peer.                            *)
THEOREM TypeCorrect == Spec => []TypeOK
  <1>1. IInv => TypeOK
    BY DEF IInv
  <1>2. QED BY <1>1, Invariance, PTL

(* However the caller's timeout, its cancellation, prepare_dispatch and an  *)
(* abort of the actor interleave, a caller told BeforeDispatch has no byte  *)
(* of its frame on the wire.                                                *)
THEOREM BeforeDispatchHonest == Spec => []BeforeDispatchIsHonest
  <1>1. IInv => BeforeDispatchIsHonest
    BY DEF IInv, Agreed, BeforeDispatchIsHonest
  <1>2. QED BY <1>1, Invariance, PTL

(* route_response and the deferred early reply deliver to each caller the   *)
(* answer the peer gave for its own request, once its frame is complete,    *)
(* and the flush of a frame delivers the answer that came before it.        *)
THEOREM AnswerOwn == Spec => AnswerIsPeersOwn
  <1>1. IInv => AnswersAreOwn
    BY DEF IInv, Agreed, AnswersAreOwn
  <1>2. ASSUME IInv, FlushCompletes
        PROVE  EarlyIsKept
    <2>1. current \in Requests /\ reply \in [Requests -> {"empty", "dropped", "before", "unknown"} \cup Answers]
      BY <1>2 DEF IInv, TypeOK, Placed, FlushCompletes
    <2>2. QED BY <1>2, <2>1 DEF FlushCompletes, EarlyIsKept, Answered
  <1>3. ASSUME Next, ~FlushCompletes
        PROVE  EarlyIsKept
    BY <1>3 DEF EarlyIsKept, Next, ActorNext, EnvNext, CallerNext, Interrupted, StopsWaiting,
       RetireObservations, PrepareDispatch, Refuse, ClaimDispatch, WriteFrame, WriteFails,
       StreamFails, DriveReturns, PublishTerminal, DrainQueues, AbortTask, TakeCommand,
       RouteResponse, Retire, RequestShutdown, ShutdownBudgetElapses, DropOwner, DropConsumer,
       DeadlinePasses, PeerExecutes, SubmitRefused, SubmitAdmitted, CallerReceives,
       CallerTimesOut, CallerAbandons, CallerCancels, CancellationDrops, actorVars
  <1>4. IInv /\ [Next]_vars => [EarlyIsKept]_vars
    BY <1>2, <1>3
  <1>5. QED BY <1>1, <1>4, Invariance, PTL DEF Spec, AnswerIsPeersOwn

(* Whichever way the actor ends (drain or abort), no command is left        *)
(* behind and every caller still waiting can read an outcome.               *)
THEOREM NoOrphan == Spec => []StoppedLeavesNoOrphan
  <1>1. IInv => StoppedLeavesNoOrphan
    BY SessionAssumption DEF IInv, Placed, Agreed, Custody, Waiting, InCustody, StoppedLeavesNoOrphan
  <1>2. QED BY <1>1, Invariance, PTL

(* send_active and drive retire the connection for a deadline or a          *)
(* cancellation only while an effect, or an unfinished write, is at stake.  *)
THEOREM ObservationAlone == Spec => ObservationExpiresAlone
  <1> DEFINE A == (cause' # cause /\ cause' \in {"DeadlineAfterDispatch", "CancelledAfterDispatch"})
                    => \E r \in Active : r \notin flushed \/ Kind[r] # "observation"
  <1>1. ASSUME IInv, Interrupted
        PROVE  A
    <2>1. SUFFICES ASSUME ~stopping, Overdue \/ Deserted
                   PROVE  A
      BY <1>1 DEF Interrupted, StopsWaiting, Retire
    <2>2. CASE actor = "driving"
      BY <1>1, <2>1, <2>2 DEF Interrupted, Retirable, Overdue, Deserted
    <2>3. CASE actor = "sending"
      BY <1>1, <2>3 DEF IInv, Placed, Admitted
    <2>4. CASE actor = "idle"
      BY <1>1, <2>1, <2>4 DEF IInv, Placed, Overdue, Deserted
    <2>5. QED BY <1>1, <2>2, <2>3, <2>4 DEF Interrupted, StopsWaiting
  <1>2. ASSUME Next, ~Interrupted
        PROVE  A
    BY <1>2 DEF Next, ActorNext, EnvNext, CallerNext, RetireObservations, PrepareDispatch, Refuse,
       ClaimDispatch, WriteFrame, FlushCompletes, WriteFails, StreamFails, DriveReturns,
       PublishTerminal, DrainQueues, AbortTask, TakeCommand, RouteResponse, Retire,
       RequestShutdown, ShutdownBudgetElapses, DropOwner, DropConsumer, DeadlinePasses,
       PeerExecutes, SubmitRefused, SubmitAdmitted, CallerReceives, CallerTimesOut,
       CallerAbandons, CallerCancels, CancellationDrops, actorVars
  <1>3. IInv /\ [Next]_vars => [A]_vars
    BY <1>1, <1>2 DEF Next, ActorNext
  <1>4. QED BY <1>3, Invariance, PTL DEF Spec, ObservationExpiresAlone

(* The session implements the contract its callers rely on: module Rpc,     *)
(* read through onWire and outcome.                                         *)
THEOREM SessionImplementsRpc == Spec => ImplementsRpc
  <1>1. Init => Contract!Init
    BY DEF Init, Contract!Init
  <1>2. ASSUME IInv, NEW r \in Requests, CallerNext(r)
        PROVE  Contract!Next \/ UNCHANGED Contract!vars
    <2>1. CASE SubmitRefused(r)
      <3>1. Contract!Tell(r, "before")
        BY <1>2, <2>1 DEF SubmitRefused, peerVars, Contract!Tell, IInv, Agreed, Admitted, Answers
      <3>2. QED BY <3>1 DEF Contract!Next
    <2>2. CASE CallerReceives(r)
      <3>1. Contract!Tell(r, outcome'[r])
        BY <1>2, <2>2 DEF CallerReceives, peerVars, Contract!Tell, IInv, TypeOK, Agreed, Admitted, Answers
      <3>2. outcome'[r] \in Answers \cup {"before", "unknown"}
        BY <1>2, <2>2 DEF CallerReceives, IInv, TypeOK, Answers
      <3>3. QED BY <3>1, <3>2 DEF Contract!Next
    <2>3. CASE CallerAbandons(r)
      <3>1. Contract!Tell(r, outcome'[r])
        BY <1>2, <2>3 DEF CallerAbandons, peerVars, Contract!Tell, IInv, TypeOK, Agreed, Admitted, Answers
      <3>2. outcome'[r] \in Answers \cup {"before", "unknown"}
        BY <1>2, <2>3 DEF CallerAbandons, IInv, TypeOK
      <3>3. QED BY <3>1, <3>2 DEF Contract!Next
    <2>4. CASE SubmitAdmitted(r) \/ CallerTimesOut(r) \/ CallerCancels(r) \/ CancellationDrops(r)
      BY <2>4 DEF SubmitAdmitted, CallerTimesOut, CallerCancels, CancellationDrops, peerVars, Contract!vars
    <2>5. QED BY <1>2, <2>1, <2>2, <2>3, <2>4 DEF CallerNext
  <1>3. ASSUME IInv, WriteFrame
        PROVE  Contract!Next
    <2>1. current \in Requests /\ outcome[current] # "before"
      BY <1>3, SessionAssumption DEF WriteFrame, IInv, TypeOK, Placed, Admitted, Agreed, Custody
    <2>2. Contract!Write(current)
      BY <1>3, <2>1 DEF WriteFrame, callerVars, Contract!Write
    <2>3. QED BY <2>1, <2>2 DEF Contract!Next
  <1>4. ASSUME IInv, EnvNext
        PROVE  Contract!Next \/ UNCHANGED Contract!vars
    <2>1. ASSUME NEW r \in Requests, NEW v \in Answers, PeerExecutes(r, v)
          PROVE  Contract!Next
      <3>1. Contract!Execute(r, v)
        BY <2>1 DEF PeerExecutes, callerVars, Contract!Execute
      <3>2. QED BY <3>1 DEF Contract!Next
    <2>2. CASE \/ RequestShutdown \/ ShutdownBudgetElapses \/ DropOwner \/ DropConsumer
               \/ \E r \in Requests : DeadlinePasses(r)
      BY <2>2 DEF RequestShutdown, ShutdownBudgetElapses, DropOwner, DropConsumer,
         DeadlinePasses, callerVars, peerVars, Contract!vars
    <2>3. QED BY <1>4, <2>1, <2>2 DEF EnvNext
  <1>5. ASSUME ActorNext, ~WriteFrame
        PROVE  UNCHANGED Contract!vars
    BY <1>5 DEF ActorNext, Interrupted, StopsWaiting, RetireObservations, PrepareDispatch, Refuse,
       ClaimDispatch, FlushCompletes, WriteFails, StreamFails, DriveReturns, PublishTerminal,
       DrainQueues, AbortTask, TakeCommand, RouteResponse, Retire, callerVars, peerVars,
       Contract!vars
  <1>6. ASSUME UNCHANGED vars
        PROVE  UNCHANGED Contract!vars
    BY <1>6 DEF vars, callerVars, peerVars, Contract!vars
  <1>7. IInv /\ [Next]_vars => [Contract!Next]_(Contract!vars)
    BY <1>2, <1>3, <1>4, <1>5, <1>6 DEF Next
  <1>8. QED BY <1>1, <1>7, Invariance, PTL DEF Spec, ImplementsRpc, Contract!Spec
=============================================================================
