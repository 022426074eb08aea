---------------------------- MODULE TakesProofs ----------------------------
(***************************************************************************)
(* Machine-checked proofs about module Takes, for any number of takes and  *)
(* of concurrent Stop calls, any start options and any disturbances.       *)
(*                                                                         *)
(* The properties compare what OBS is doing with what the supervisor       *)
(* decided several awaits ago.  What makes them inductive is, in each      *)
(* case, who may still act: which take a reservation or a task stands for  *)
(* (Reserved, Employed), which takes are over (Lived), which Stop frames   *)
(* may still be answered (Framed), what a status answer seen by stop_once  *)
(* is worth (Witnessed), where the stopped event of a lineage is           *)
(* (Traced), and who serves a due deadline (Served).                       *)
(***************************************************************************)
EXTENDS Takes, SequenceTheorems, TLAPS

-----------------------------------------------------------------------------
(* The inductive invariant.                                                *)

\* A start before its intent, between intent and confirmation, and in the
\* setup of the confirmed take.
Before == start.pc = "preflight" \/ (start.pc = "parked" /\ start.point = "intent")
Asked  == \/ start.pc \in {"dispatch", "sent", "confirm"}
          \/ start.pc = "parked" /\ start.point = "confirmed"
SetUp  == start.pc \in {"setup", "chapter"} \/ (start.pc = "parked" /\ start.point = "monitor")

Fresh(tk) == /\ tk.result = "none" /\ tk.frame = "none"
             /\ ~tk.running /\ ~tk.fired /\ ~tk.uncertain

Live == {"ok", "void"}

\* What a start reservation stands for.
Reserved ==
    /\ start.pc = "parked" => start.point # "none"
    /\ start.pc = "idle" \/ Before => start.take = 0
    /\ Before \/ Asked => current = 0 /\ completed = "none"
    /\ Before => made < MaxTakes
    /\ Asked => /\ made # 0 /\ start.take = made /\ Fresh(take[made])
                /\ job[Owner(made)].pc = "idle"
    /\ start.pc = "dispatch" => take[made].startFrame = "none"
    /\ Asked /\ start.pc \in {"confirm", "parked"} => take[made].startFrame \in Live
    /\ SetUp \/ start.pc = "cleanup" =>
          made # 0 /\ start.take = made /\ (current = made \/ take[made].result # "none")
    /\ SetUp => job[Owner(made)].pc = "idle"
    /\ sup \in {"final", "closed"} => start.pc = "idle"

\* Takes follow one another: all but the last are over, and OBS does not
\* record a take that is over.
Lived ==
    /\ current # 0 => /\ current = made /\ take[current].result = "none"
                      /\ take[current].startFrame \in Live
                      /\ take[current].running => run.pc # "none"
    /\ \A t \in TakeIds :
          /\ t > made => take[t] = BlankTake /\ job[Owner(t)].pc = "idle"
          /\ t < made => take[t].result # "none"
          /\ t <= made => take[t].startOp # "none"
          /\ take[t].startOp = "observed" => t = current \/ take[t].result # "none"
          /\ take[t].result # "none" => take[t].startFrame \in Live /\ rec # t
          /\ rec = t => take[t].startFrame = "ok"
    /\ completed # "none" => made # 0 /\ take[made].result # "none"
    /\ report = "confirmed" => sup = "closed" /\ completed = "confirmed"

\* What a task in stop_take stands for.
Employed ==
    /\ \A j \in Jobs : job[j].pc # "idle" =>
          /\ job[j].take \in 1..made
          /\ job[j].take = current \/ take[job[j].take].result # "none"
    /\ slot = 0 => job[Deadline].pc = "idle"

\* A Stop frame that may have had an effect leaves its take uncertain.
Framed ==
    /\ \A t \in TakeIds : take[t].frame \in {"out", "ok"} => take[t].uncertain
    /\ run.pc \in {"dispatch", "sent"} => take[current].uncertain
    /\ run.pc = "dispatch" => take[current].frame \in {"none", "rejected"}

\* The revocation watermark is what really went out.
Marked ==
    /\ impact.touched = impact.revoked /\ impact.revoked <= impact.last
    /\ impact.pending \in {0, impact.last}

\* What a state of stop_once holds as evidence that the recording is over.
Shown(r) ==
    \/ r.seen = "inactive" \/ r.inactive
    \/ r.pc \in {"monitor", "inspect", "log"}
    \/ r.pc = "parked" /\ r.point \in {"summary", "inspected", "logged"}

Witnessed ==
    /\ run.pc # "none" /\ Shown(run) => rec # current
    /\ run.pc = "parked" => run.point # "none"

\* The stopped event of a lineage is on its way or applied.
Stopped(s) == \E i \in 1..Len(s) : s[i] = "stopped"

Traced ==
    alive /\ Lineage # 0 /\ take[Lineage].startFrame = "ok" /\ rec # Lineage
    => cont[Lineage].stopped \/ Stopped(feed) \/ Stopped(wire)

\* The worker is still to look at take t for the deadline that fired.
Watching(t) ==
    /\ job[Deadline].take = t
    /\ \/ job[Deadline].pc = "call"
       \/ job[Deadline].pc = "join" /\ job[Deadline].was

Spared(tk) == tk.served \/ tk.blocked \/ tk.uncertain

\* Who serves a deadline that came due and fired.
Served ==
    /\ \A t \in TakeIds : take[t].fired => take[t].deadline # "armed"
    /\ job[Deadline].pc # "idle" => take[job[Deadline].take].deadline # "armed"
    /\ run.pc # "none" /\ run.by = Deadline /\ ~run.due => take[current].deadline = "none"
    /\ current # 0 /\ take[current].deadline = "due" /\ take[current].fired =>
          /\ take[current].running /\ ~run.due => Watching(current)
          /\ ~take[current].running =>
                \/ Watching(current)
                \/ job[Deadline].take = current /\ job[Deadline].pc = "again"
                \/ Spared(take[current]) \/ Lost(current)

IInv == /\ TypeOK /\ Reserved /\ Lived /\ Employed /\ Framed /\ Marked /\ Witnessed
        /\ Traced /\ Served

-----------------------------------------------------------------------------
(* The tasks are distinct.                                                 *)

\* Every task has a name of its own.
LEMMA Names ==
  /\ Deadline \in Jobs /\ Final \in Jobs /\ Deadline # Final
  /\ \A t \in TakeIds : Owner(t) \in Jobs /\ Owner(t) # Deadline /\ Owner(t) # Final
  /\ \A t, u \in TakeIds : Owner(t) = Owner(u) => t = u
  /\ \A j \in ToolJobs : j \in Jobs /\ j # Deadline /\ j # Final
  /\ \A j \in ToolJobs, t \in TakeIds : j # Owner(t)
BY DEF Jobs, Deadline, Final, Owner, ToolJobs

\* What the invariant says of a take apart from how its start fared.
Steady(a, b) ==
    /\ b.result = a.result /\ b.frame = a.frame /\ b.uncertain = a.uncertain
    /\ b.running = a.running /\ b.blocked = a.blocked /\ b.served = a.served
    /\ b.deadline = a.deadline /\ b.fired = a.fired /\ b.epoch = a.epoch

\* The numbers that name takes.
LEMMA Ids ==
  ASSUME IInv
  PROVE  /\ \A x \in 1..made : x \in TakeIds
         /\ current # 0 => current \in TakeIds
         /\ made # 0 => made \in TakeIds
         /\ start.take # 0 => start.take \in TakeIds
         /\ 0 \notin TakeIds /\ Foreign \notin TakeIds
         /\ run.pc # "none" => current \in TakeIds
         /\ made \in Int /\ \A t \in TakeIds : t \in Int /\ 0 < t /\ t \in 0..Foreign
BY TakesAssumption DEF IInv, TypeOK, OneRun, TakeIds, Foreign, StartRecords

\* Whether a stopped event waits in a queue, when an event is added.
LEMMA StoppedAppend ==
  ASSUME NEW s \in Seq(FeedEvents), NEW e \in FeedEvents
  PROVE  Stopped(Append(s, e)) <=> Stopped(s) \/ e = "stopped"
  <1>1. Append(s, e) \in Seq(FeedEvents) /\ Len(Append(s, e)) = Len(s) + 1
        /\ Append(s,e)[Len(s) + 1] = e /\ \A i \in 1..Len(s) : Append(s,e)[i] = s[i]
    BY AppendProperties
  <1>2. Len(s) \in Nat BY LenProperties
  <1>3. QED BY <1>1, <1>2 DEF Stopped

\* What OBS sends while the session lives is on the wire.
LEMMA EmitFacts ==
  ASSUME wire \in Seq(Events), NEW e \in Events, Emit(e)
  PROVE  /\ wire' \in Seq(Events)
         /\ Stopped(wire) => Stopped(wire')
         /\ alive /\ e = "stopped" => Stopped(wire')
  <1>1. wire' = wire \/ wire' = Append(wire, e)
    BY DEF Emit
  <1>2. Append(wire, e) \in Seq(Events) 
    BY AppendProperties
  <1>3. wire \in Seq(FeedEvents) /\ e \in FeedEvents
    BY DEF FeedEvents
  <1>4. QED BY <1>1, <1>2, <1>3, StoppedAppend DEF Emit

\* Whether a stopped event waits in a queue, when the first event is taken.
LEMMA StoppedTail ==
  ASSUME NEW s \in Seq(FeedEvents), s # <<>>
  PROVE  Stopped(s) <=> Head(s) = "stopped" \/ Stopped(Tail(s))
  <1>1. Tail(s) \in Seq(FeedEvents) /\ Len(Tail(s)) = Len(s) - 1
       /\ \A i \in 1..Len(s)-1 : Tail(s)[i] = s[i+1]
    BY HeadTailProperties
  <1>2. Head(s) = s[1] /\ Len(s) \in Nat /\ Len(s) > 0 BY LenProperties
  <1>3. Stopped(Tail(s)) => Stopped(s)
    BY <1>1, <1>2 DEF Stopped
  <1>4. ASSUME Stopped(s), Head(s) # "stopped"
        PROVE  Stopped(Tail(s))
    <2>1. PICK i \in 1..Len(s) : s[i] = "stopped"
      BY <1>4 DEF Stopped
    <2>2. i # 1 /\ i - 1 \in 1..Len(Tail(s)) /\ Tail(s)[i - 1] = "stopped"
      BY <1>1, <1>2, <1>4, <2>1
    <2>3. QED BY <2>2 DEF Stopped
  <1>5. Head(s) = "stopped" => Stopped(s)
    BY <1>2 DEF Stopped
  <1>6. QED BY <1>3, <1>4, <1>5

\* One take is replaced, the others stay.
LEMMA TakeUpdate ==
  ASSUME take \in [TakeIds -> TakeRecords], NEW t \in TakeIds, NEW tk \in TakeRecords,
         take' = [take EXCEPT ![t] = tk]
  PROVE  /\ take' \in [TakeIds -> TakeRecords] /\ take'[t] = tk
         /\ \A u \in TakeIds : u # t => take'[u] = take[u]
OBVIOUS

\* A step that changes only how starts fared, or what the events said.
LEMMA SteadyKeeps ==
  ASSUME IInv, \A u \in TakeIds : Steady(take[u], take'[u]),
         \A u \in TakeIds : cont[u].lost => cont'[u].lost,
         UNCHANGED <<alive, impact, current, made, job, run, slot>>
  PROVE  Employed' /\ Framed' /\ Marked' /\ Served' /\ OneRun'
  <1>1. Employed' /\ Marked'
    BY Ids DEF IInv, Employed, Marked, Steady
  <1>2. Framed'
    BY Ids DEF IInv, Framed, Steady
  <1>3. Served'
    BY Ids, Names DEF IInv, Employed, Served, Steady, Watching, Spared, Lost, Status
  <1>4. OneRun'
    BY Ids DEF IInv, TypeOK, OneRun, Steady
  <1>5. QED BY <1>1, <1>2, <1>3, <1>4

-----------------------------------------------------------------------------
(* OBS, its operator and the socket.                                       *)

\* Somebody else starts a recording.
LEMMA OperatorStartsStep ==
  ASSUME IInv, OperatorStarts
  PROVE  IInv'
  <1> USE TakesAssumption DEF OperatorStarts, takeVars, jobVars, supVars
  <1>1. wire' \in Seq(Events) /\ (Stopped(wire) => Stopped(wire'))
    BY EmitFacts DEF IInv, TypeOK, Events
  <1>2. foreign' \in 0..MaxTrouble
    BY DEF IInv, TypeOK, MayDisturb, Trouble, ImpactRecords
  <1>3. TypeOK'
    BY <1>1, <1>2 DEF IInv, TypeOK, OneRun, Foreign
  <1>4. Reserved'
    BY DEF IInv, Reserved, Before, Asked, SetUp
  <1>5. Lived'
    BY Ids DEF IInv, Lived
  <1>6. Employed' /\ Framed' /\ Marked'
    BY DEF IInv, Employed, Framed, Marked
  <1>7. Witnessed'
    BY Ids DEF IInv, Witnessed, Shown
  <1>8. Traced'
    BY <1>1, Ids DEF IInv, Traced, Lineage
  <1>9. Served'
    BY DEF IInv, Served, Watching, Lost, Status
  <1>10. QED BY <1>3, <1>4, <1>5, <1>6, <1>7, <1>8, <1>9 DEF IInv

\* The recording OBS makes ends: its event goes out with it.
LEMMA RecordingEndsStep ==
  ASSUME IInv, RecordingEnds
  PROVE  IInv'
  <1> USE DEF RecordingEnds, takeVars, jobVars, supVars
  <1>1. /\ wire' \in Seq(Events) /\ (Stopped(wire) => Stopped(wire'))
        /\ alive => Stopped(wire')
    BY EmitFacts DEF IInv, TypeOK, Events
  <1>2. TypeOK'
    BY <1>1, TakesAssumption DEF IInv, TypeOK, OneRun, Foreign
  <1>3. Reserved' /\ Employed' /\ Framed' /\ Marked'
    BY DEF IInv, Reserved, Before, Asked, SetUp, Employed, Framed, Marked
  <1>4. Lived'
    BY Ids DEF IInv, Lived
  <1>5. Witnessed'
    BY Ids DEF IInv, Witnessed, Shown
  <1>6. Traced'
    BY <1>1, Ids DEF IInv, Traced, Lineage
  <1>7. Served'
    BY DEF IInv, Served, Watching, Lost, Status
  <1>8. QED BY <1>2, <1>3, <1>4, <1>5, <1>6, <1>7 DEF IInv

\* OBS handles a StartRecord, however late.
LEMMA ObsHandlesStartStep ==
  ASSUME IInv, NEW t \in TakeIds, ObsHandlesStart(t)
  PROVE  IInv'
  <1>1. /\ UNCHANGED <<feed, alive, foreign, impact, start, current, made, cont, job, run, slot,
                       lease, sup, report, completed, faults>>
        /\ take[t].startFrame = "out"
    BY DEF ObsHandlesStart, jobVars, supVars
  <1>2. PICK f \in {"ok", "void", "rejected"} :
          /\ take' = [take EXCEPT ![t].startFrame = f]
          /\ IF f = "ok" THEN rec = 0 /\ rec' = t /\ Emit("started") ELSE UNCHANGED <<rec, wire>>
    BY DEF ObsHandlesStart
  <1> DEFINE tk == [take[t] EXCEPT !.startFrame = f]
  <1>3. tk \in TakeRecords /\ Steady(take[t], tk) /\ tk.startFrame = f /\ tk.startOp = take[t].startOp
    BY DEF IInv, TypeOK, TakeRecords, Steady
  <1>4. take' = [take EXCEPT ![t] = tk]
    BY <1>2
  <1> HIDE DEF tk
  <1>5. /\ take' \in [TakeIds -> TakeRecords] /\ take'[t] = tk
        /\ \A u \in TakeIds : u # t => take'[u] = take[u]
    BY <1>3, <1>4, TakeUpdate DEF IInv, TypeOK
  <1>6. /\ \A u \in TakeIds : Steady(take[u], take'[u]) /\ take'[u].startOp = take[u].startOp
        /\ \A u \in TakeIds : take'[u].startFrame # take[u].startFrame => take[u].startFrame = "out"
    BY <1>1, <1>3, <1>5 DEF Steady
  <1>7. /\ rec' \in 0..Foreign
        /\ wire' \in Seq(Events) /\ (Stopped(wire) => Stopped(wire'))
    <2>1. CASE f = "ok"
      BY <2>1, <1>2, Ids, EmitFacts DEF IInv, TypeOK, Events
    <2>2. CASE f # "ok"
      BY <2>2, <1>2 DEF IInv, TypeOK
    <2>3. QED BY <2>1, <2>2
  <1>8. Employed' /\ Framed' /\ Marked' /\ Served' /\ OneRun'
    BY <1>1, <1>6, SteadyKeeps
  <1>9. TypeOK'
    BY <1>1, <1>5, <1>7, <1>8 DEF IInv, TypeOK
  <1>10. Reserved'
    BY <1>1, <1>6, Ids DEF IInv, Reserved, Before, Asked, SetUp, Fresh, Live, Steady
  <1>11. Lived'
    <2>1. ~(t > made) /\ take[t].result = "none"
      <3>1. BlankTake.startFrame = "none" BY DEF BlankTake
      <3>2. QED BY <3>1, <1>1 DEF IInv, Lived, Live
    <2>2. \A u \in TakeIds : u > made => take'[u] = take[u]
      BY <1>5, <2>1
    <2>3. QED
      BY <1>1, <1>2, <1>3, <1>5, <1>6, <2>1, <2>2, Ids DEF IInv, Lived, Live, Steady
  <1>12. Witnessed'
    BY <1>1, <1>2, Ids DEF IInv, Witnessed, Shown, Lived, Live
  <1>13. Traced'
    BY <1>1, <1>2, <1>3, <1>5, <1>7, Ids DEF IInv, Traced, Lineage
  <1>14. QED BY <1>8, <1>9, <1>10, <1>11, <1>12, <1>13 DEF IInv

\* OBS handles a StopRecord, however late: it ends whatever is being recorded.
LEMMA ObsHandlesStopStep ==
  ASSUME IInv, NEW t \in TakeIds, ObsHandlesStop(t)
  PROVE  IInv'
  <1>1. /\ UNCHANGED <<feed, alive, foreign, impact, start, current, made, cont, job, run, slot,
                       lease, sup, report, completed, faults>>
        /\ take[t].frame = "out"
    BY DEF ObsHandlesStop, jobVars, supVars
  <1>2. PICK f \in {"ok", "rejected"} :
          /\ take' = [take EXCEPT ![t].frame = f]
          /\ \/ rec' = 0 /\ Emit("stopped")
             \/ UNCHANGED <<rec, wire>>
    BY DEF ObsHandlesStop
  <1> DEFINE tk == [take[t] EXCEPT !.frame = f]
             old == take[t]
  <1>3. /\ tk \in TakeRecords /\ tk.frame = f
        /\ tk.startFrame = old.startFrame /\ tk.startOp = old.startOp
        /\ tk.result = old.result /\ tk.uncertain = old.uncertain /\ tk.running = old.running
        /\ tk.blocked = old.blocked /\ tk.served = old.served /\ tk.deadline = old.deadline
        /\ tk.fired = old.fired /\ tk.epoch = old.epoch
    BY DEF IInv, TypeOK, TakeRecords
  <1>4. take' = [take EXCEPT ![t] = tk]
    BY <1>2
  <1> HIDE DEF tk
  <1>5. /\ take' \in [TakeIds -> TakeRecords] /\ take'[t] = tk
        /\ \A u \in TakeIds : u # t => take'[u] = take[u]
    BY <1>3, <1>4, TakeUpdate DEF IInv, TypeOK
  <1>6. \A u \in TakeIds :
          LET a == take[u]
              b == take'[u]
          IN  /\ b.startFrame = a.startFrame /\ b.startOp = a.startOp
              /\ b.result = a.result /\ b.uncertain = a.uncertain /\ b.running = a.running
              /\ b.blocked = a.blocked /\ b.served = a.served /\ b.deadline = a.deadline
              /\ b.fired = a.fired /\ b.epoch = a.epoch
    BY <1>3, <1>5
  <1>7. /\ rec' \in 0..Foreign /\ rec' \in {0, rec}
        /\ wire' \in Seq(Events) /\ (Stopped(wire) => Stopped(wire'))
        /\ alive /\ rec' # rec => Stopped(wire')
    <2>1. CASE rec' = 0 /\ Emit("stopped")
      BY <2>1, EmitFacts, TakesAssumption DEF IInv, TypeOK, Events, Foreign
    <2>2. CASE UNCHANGED <<rec, wire>>
      BY <2>2 DEF IInv, TypeOK
    <2>3. QED BY <2>1, <2>2, <1>2
  <1>8. TypeOK'
    BY <1>1, <1>5, <1>6, <1>7, Ids DEF IInv, TypeOK, OneRun
  <1>9. ~(t > made) /\ take[t].uncertain
    <2>1. BlankTake.frame = "none" BY DEF BlankTake
    <2>2. QED BY <2>1, <1>1 DEF IInv, Lived, Framed
  <1>10. Reserved'
    BY <1>1, <1>5, <1>6, <1>9, Ids DEF IInv, Reserved, Before, Asked, SetUp, Fresh, Live
  <1>11. Lived'
    BY <1>1, <1>5, <1>6, <1>7, <1>9, Ids DEF IInv, Lived, Live
  <1>12. Employed' /\ Marked'
    BY <1>1, <1>6, Ids DEF IInv, Employed, Marked
  <1>13. Framed'
    BY <1>1, <1>3, <1>5, <1>6, Ids DEF IInv, Framed
  <1>14. Witnessed'
    BY <1>1, <1>7, Ids DEF IInv, Witnessed, Shown
  <1>15. Traced'
    BY <1>1, <1>6, <1>7, Ids DEF IInv, Traced, Lineage
  <1>16. Served'
    BY <1>1, <1>6, Ids, Names DEF IInv, Employed, Served, Watching, Spared, Lost, Status
  <1>17. QED BY <1>8, <1>10, <1>11, <1>12, <1>13, <1>14, <1>15, <1>16 DEF IInv

\* OBS answers the status request: what it says is right when it says it.
LEMMA ObsAnswersStatusStep ==
  ASSUME IInv, ObsAnswersStatus
  PROVE  IInv'
  <1>1. /\ UNCHANGED <<rec, wire, feed, alive, foreign, impact, start, current, made, take, cont,
                       job, slot, lease, sup, report, completed, faults>>
        /\ run.pc \in {"status", "poll", "refused"}
    BY DEF ObsAnswersStatus, obsVars, takeVars, supVars
  <1>2. /\ run' \in RunRecords
        /\ run'.pc = run.pc /\ run'.by = run.by /\ run'.point = run.point
        /\ run'.inactive = run.inactive /\ run'.due = run.due
        /\ run'.seen = "inactive" => rec = 0
    BY DEF ObsAnswersStatus, IInv, TypeOK, RunRecords
  <1>3. TypeOK'
    BY <1>1, <1>2 DEF IInv, TypeOK, OneRun
  <1>4. Reserved' /\ Employed' /\ Framed' /\ Marked'
    BY <1>1, <1>2 DEF IInv, Reserved, Before, Asked, SetUp, Employed, Framed, Marked
  <1>5. Lived'
    BY <1>1, <1>2 DEF IInv, Lived
  <1>6. Witnessed'
    BY <1>1, <1>2, Ids DEF IInv, Witnessed, Shown
  <1>7. Traced'
    BY <1>1 DEF IInv, Traced, Lineage
  <1>8. Served'
    BY <1>1, <1>2 DEF IInv, Served, Watching, Lost, Status
  <1>9. QED BY <1>3, <1>4, <1>5, <1>6, <1>7, <1>8 DEF IInv

\* The socket reader takes an event in.
LEMMA ReceiveStep ==
  ASSUME IInv, Receive
  PROVE  IInv'
  <1> USE DEF Receive, takeVars, jobVars, supVars
  <1>1. Head(wire) \in Events /\ wire' \in Seq(Events)
    BY HeadTailProperties DEF IInv, TypeOK
  <1>2. /\ wire \in Seq(FeedEvents) /\ feed \in Seq(FeedEvents) /\ Head(wire) \in FeedEvents
    BY <1>1 DEF IInv, TypeOK, FeedEvents
  <1>3. feed' \in Seq(FeedEvents)
    BY <1>2, AppendProperties
  <1>4. Stopped(wire) \/ Stopped(feed) => Stopped(wire') \/ Stopped(feed')
    BY <1>2, StoppedAppend, StoppedTail
  <1>5. TypeOK'
    BY <1>1, <1>3 DEF IInv, TypeOK, OneRun
  <1>6. Reserved' /\ Lived' /\ Employed' /\ Framed' /\ Marked' /\ Witnessed'
    BY DEF IInv, Reserved, Before, Asked, SetUp, Lived, Employed, Framed, Marked, Witnessed,
           Shown
  <1>7. Traced'
    BY <1>4 DEF IInv, Traced, Lineage
  <1>8. Served'
    BY DEF IInv, Served, Watching, Lost, Status
  <1>9. QED BY <1>5, <1>6, <1>7, <1>8 DEF IInv

\* The session is lost: from now on the take is not ours to stop.
LEMMA DisconnectStep ==
  ASSUME IInv, Disconnect
  PROVE  IInv'
  <1> USE DEF Disconnect, takeVars, jobVars, supVars
  <1>1. feed' \in Seq(FeedEvents) /\ wire' \in Seq(Events)
    BY AppendProperties DEF IInv, TypeOK, FeedEvents
  <1>2. TypeOK'
    BY <1>1 DEF IInv, TypeOK, OneRun
  <1>3. Reserved' /\ Lived' /\ Employed' /\ Framed' /\ Marked' /\ Witnessed'
    BY DEF IInv, Reserved, Before, Asked, SetUp, Lived, Employed, Framed, Marked, Witnessed,
           Shown
  <1>4. Traced'
    BY DEF IInv, Traced
  <1>5. Served'
    BY DEF IInv, Served, Watching, Lost, Status
  <1>6. QED BY <1>2, <1>3, <1>4, <1>5 DEF IInv

-----------------------------------------------------------------------------
(* Manual Stops, and the events the supervisor applies.                    *)

\* A manual StopRecord begins.
LEMMA ManualBeginsStep ==
  ASSUME IInv, ManualBegins
  PROVE  IInv'
  <1>1. UNCHANGED <<rec, wire, feed, alive, foreign, start, current, made, take, cont, job, run,
                    slot, lease, sup, report, completed, faults>>
    BY DEF ManualBegins, obsVars, takeVars, jobVars, supVars
  <1>2. /\ impact' \in ImpactRecords /\ impact'.revoked = impact.revoked
        /\ impact'.touched = impact.touched /\ impact'.last = impact.last + 1
        /\ impact'.pending = impact'.last
    <2>1. impact \in ImpactRecords /\ foreign \in Nat /\ faults \in Nat
      BY TakesAssumption DEF IInv, TypeOK
    <2>2. impact.last + 1 \in 0..MaxTrouble
      BY <2>1, TakesAssumption DEF ManualBegins, ImpactRecords, MayDisturb, Trouble
    <2>3. impact' = [impact EXCEPT !.last = impact.last + 1, !.pending = impact.last + 1]
      BY DEF ManualBegins
    <2>4. QED BY <2>1, <2>2, <2>3 DEF ImpactRecords
  <1>3. TypeOK'
    BY <1>1, <1>2 DEF IInv, TypeOK, OneRun
  <1>4. Reserved' /\ Lived' /\ Employed' /\ Framed' /\ Witnessed'
    BY <1>1 DEF IInv, Reserved, Before, Asked, SetUp, Lived, Employed, Framed, Witnessed, Shown
  <1>5. Marked'
    BY <1>2, TakesAssumption DEF IInv, TypeOK, ImpactRecords, Marked
  <1>6. Traced'
    BY <1>1 DEF IInv, Traced, Lineage
  <1>7. Served'
    BY <1>1, <1>2 DEF IInv, Served, Watching, Lost, Status
  <1>8. QED BY <1>3, <1>4, <1>5, <1>6, <1>7 DEF IInv

\* A manual StopRecord is settled: a revocation is never withdrawn.
LEMMA ManualSettlesStep ==
  ASSUME IInv, NEW fate \in Fates, ManualSettles(fate)
  PROVE  IInv'
  <1>1. UNCHANGED <<rec, wire, feed, alive, foreign, start, current, made, take, cont, job, run,
                    slot, lease, sup, report, completed, faults>>
    BY DEF ManualSettles, obsVars, takeVars, jobVars, supVars
  <1>2. /\ impact' \in ImpactRecords /\ impact'.last = impact.last /\ impact'.pending = 0
        /\ \/ impact'.revoked = impact.revoked /\ impact'.touched = impact.touched
           \/ impact'.revoked = impact.pending /\ impact'.touched = impact.pending
    <2>1. impact \in ImpactRecords
      BY DEF IInv, TypeOK
    <2>2. 0 \in 0..MaxTrouble
      BY TakesAssumption
    <2>3. QED BY <2>1, <2>2 DEF ManualSettles, Settle, ImpactRecords
  <1>3. /\ impact.pending = impact.last /\ impact.revoked <= impact.last
        /\ impact.revoked \in Int /\ impact.last \in Int /\ impact'.revoked \in Int
    BY <1>2, TakesAssumption DEF ManualSettles, IInv, Marked, TypeOK, ImpactRecords
  <1>4. TypeOK'
    BY <1>1, <1>2 DEF IInv, TypeOK, OneRun
  <1>5. Reserved' /\ Lived' /\ Employed' /\ Framed' /\ Witnessed'
    BY <1>1 DEF IInv, Reserved, Before, Asked, SetUp, Lived, Employed, Framed, Witnessed, Shown
  <1>6. Marked'
    BY <1>2, <1>3 DEF IInv, Marked
  <1>7. Traced'
    BY <1>1 DEF IInv, Traced, Lineage
  <1>8. Served'
    <2>1. current # 0 => (Lost(current) => Lost(current)')
      <3>1. ASSUME current # 0
            PROVE  take[current].epoch \in Int
        BY <3>1, Ids, TakesAssumption DEF IInv, TypeOK, TakeRecords
      <3>2. impact.revoked <= impact'.revoked
        BY <1>2, <1>3
      <3>3. QED BY <1>1, <1>3, <3>1, <3>2 DEF Lost, Status
    <2>2. QED BY <1>1, <2>1 DEF IInv, Served, Watching
  <1>9. QED BY <1>4, <1>5, <1>6, <1>7, <1>8 DEF IInv

\* A publication fails only within the bound.
LEMMA PublishesType ==
  ASSUME IInv, NEW ok \in BOOLEAN, Publishes(ok)
  PROVE  faults' \in 0..MaxTrouble
BY TakesAssumption DEF IInv, TypeOK, ImpactRecords, Publishes, MayDisturb, Trouble

\* The supervisor applies an event to the lineage it belongs to.
LEMMA ObserveStep ==
  ASSUME IInv, Observe
  PROVE  IInv'
  <1>1. /\ UNCHANGED <<rec, wire, alive, foreign, impact, start, current, made, job, run, slot,
                       lease, sup, report, completed>>
        /\ feed # <<>> /\ feed' = Tail(feed)
    BY DEF Observe, jobVars, supVars
  <1>2. /\ faults' \in 0..MaxTrouble
        /\ \/ take' = take
           \/ current # 0 /\ take' = [take EXCEPT ![current].startOp = "unknown"]
    BY PublishesType DEF Observe, IInv, TypeOK
  <1>3. /\ take' \in [TakeIds -> TakeRecords]
        /\ \A u \in TakeIds :
             /\ Steady(take[u], take'[u]) /\ take'[u].startFrame = take[u].startFrame
             /\ take'[u].startOp = take[u].startOp \/ (u = current /\ take'[u].startOp = "unknown")
    <2>1. CASE take' = take
      BY <2>1 DEF Steady, IInv, TypeOK
    <2>2. CASE current # 0 /\ take' = [take EXCEPT ![current].startOp = "unknown"]
      <3> DEFINE tk == [take[current] EXCEPT !.startOp = "unknown"]
      <3>1. current \in TakeIds /\ take[current] \in TakeRecords
        BY <2>2, Ids DEF IInv, TypeOK
      <3>2. /\ tk \in TakeRecords /\ Steady(take[current], tk)
            /\ tk.startFrame = take[current].startFrame /\ tk.startOp = "unknown"
        BY <3>1 DEF TakeRecords, Steady
      <3>3. take' = [take EXCEPT ![current] = tk]
        BY <2>2
      <3> HIDE DEF tk
      <3>4. /\ take' \in [TakeIds -> TakeRecords] /\ take'[current] = tk
            /\ \A u \in TakeIds : u # current => take'[u] = take[u]
        BY <3>1, <3>2, <3>3, TakeUpdate DEF IInv, TypeOK
      <3>5. QED BY <3>1, <3>2, <3>4 DEF Steady
    <2>3. QED BY <1>2, <2>1, <2>2
  <1>4. /\ cont' \in [TakeIds -> Continuities]
        /\ \A u \in TakeIds : cont[u].lost => cont'[u].lost
        /\ \A u \in TakeIds : cont[u].stopped => cont'[u].stopped
        /\ \A u \in TakeIds : u = Lineage /\ Head(feed) = "stopped" => cont'[u].stopped
    BY DEF Observe, IInv, TypeOK, Heard, Continuities
  <1>5. /\ feed' \in Seq(FeedEvents)
        /\ Stopped(feed) => Head(feed) = "stopped" \/ Stopped(feed')
    BY <1>1, HeadTailProperties, StoppedTail DEF IInv, TypeOK
  <1>6. Employed' /\ Framed' /\ Marked' /\ Served' /\ OneRun'
    BY <1>1, <1>3, <1>4, SteadyKeeps
  <1>7. TypeOK'
    BY <1>1, <1>2, <1>3, <1>4, <1>5, <1>6 DEF IInv, TypeOK
  <1>8. Reserved'
    BY <1>1, <1>3, Ids DEF IInv, Reserved, Before, Asked, SetUp, Fresh, Live, Steady
  <1>9. Lived'
    <2>1. \A u \in TakeIds : u > made => take'[u] = take[u]
      <3>1. \A u \in TakeIds : u # current => take'[u] = take[u]
        <4>1. CASE take' = take
          BY <4>1
        <4>2. CASE current # 0 /\ take' = [take EXCEPT ![current].startOp = "unknown"]
          BY <4>2 DEF IInv, TypeOK
        <4>3. QED BY <1>2, <4>1, <4>2
      <3>2. QED BY <3>1, Ids DEF IInv, Lived
    <2>2. QED BY <1>1, <1>3, <2>1, Ids DEF IInv, Lived, Live, Steady
  <1>10. Witnessed'
    BY <1>1 DEF IInv, Witnessed, Shown
  <1>11. Traced'
    BY <1>1, <1>3, <1>4, <1>5, Ids DEF IInv, Traced, Lineage
  <1>12. QED BY <1>6, <1>7, <1>8, <1>9, <1>10, <1>11 DEF IInv

-----------------------------------------------------------------------------
(* Starting.                                                               *)

\* A reservation is made.
LEMMA StartCommandStep ==
  ASSUME IInv, NEW opt \in Options, NEW epoch \in 0..MaxTrouble, StartCommand(opt, epoch)
  PROVE  IInv'
  <1>1. /\ UNCHANGED <<rec, wire, feed, alive, foreign, impact, current, made, take, cont, job,
                       run, slot, lease, sup, report, faults>>
        /\ sup = "open" /\ current = 0 /\ made < MaxTakes /\ completed' = "none"
    BY DEF StartCommand, obsVars, takeVars, jobVars, supVars, CacheCleared
  <1>2. start' \in StartRecords /\ start'.pc = "preflight" /\ start'.take = 0
    <2>1. opt \in AllOptions /\ 0 \in 0..MaxTakes
      BY TakesAssumption
    <2>2. QED BY <2>1 DEF StartCommand, NoStart, StartRecords
  <1>3. TypeOK'
    BY <1>1, <1>2 DEF IInv, TypeOK, OneRun
  <1>4. Reserved'
    BY <1>1, <1>2 DEF Reserved, Before, Asked, SetUp
  <1>5. Lived'
    BY <1>1 DEF IInv, Lived
  <1>6. Employed' /\ Framed' /\ Marked' /\ Witnessed'
    BY <1>1 DEF IInv, Employed, Framed, Marked, Witnessed, Shown
  <1>7. Traced'
    BY <1>1, <1>2 DEF Traced, Lineage
  <1>8. Served'
    BY <1>1 DEF IInv, Served, Watching, Lost, Status
  <1>9. QED BY <1>3, <1>4, <1>5, <1>6, <1>7, <1>8 DEF IInv

\* The reservation moves on or ends, and nothing else happens.
LEMMA StartMoves ==
  ASSUME IInv, start' \in StartRecords, start'.take \in {0, start.take},
         faults' \in 0..MaxTrouble,
         UNCHANGED <<rec, wire, feed, alive, foreign, impact, current, made, take, cont, job, run,
                     slot, lease, sup, report, completed>>,
         Reserved'
  PROVE  IInv'
  <1>1. TypeOK'
    BY DEF IInv, TypeOK, OneRun
  <1>2. Lived' /\ Employed' /\ Framed' /\ Marked' /\ Witnessed'
    BY DEF IInv, Lived, Employed, Framed, Marked, Witnessed, Shown
  <1>3. Traced'
    BY DEF IInv, Traced, Lineage
  <1>4. Served'
    BY DEF IInv, Served, Watching, Lost, Status
  <1>5. QED BY <1>1, <1>2, <1>3, <1>4 DEF IInv

\* The fate of the request is recorded, or the request is sent.
LEMMA StartFares ==
  ASSUME IInv, Asked, NEW tk \in TakeRecords, Steady(take[made], tk),
         tk.startOp \in {"unknown", "accepted", take[made].startOp},
         tk.startFrame = take[made].startFrame \/ start.pc = "dispatch",
         tk.startFrame # "ok" \/ tk.startFrame = take[made].startFrame,
         take' = [take EXCEPT ![made] = tk],
         start' \in StartRecords, start'.take \in {0, start.take}, faults' \in 0..MaxTrouble,
         UNCHANGED <<rec, wire, feed, alive, foreign, impact, current, made, cont, job, run,
                     slot, lease, sup, report, completed>>,
         Reserved'
  PROVE  IInv'
  <1>1. /\ made \in TakeIds /\ current = 0 /\ take[made].result = "none"
        /\ start.pc = "dispatch" => take[made].startFrame = "none"
    BY Ids DEF IInv, Reserved, Fresh
  <1>2. /\ take' \in [TakeIds -> TakeRecords] /\ take'[made] = tk
        /\ \A u \in TakeIds : u # made => take'[u] = take[u]
    BY <1>1, TakeUpdate DEF IInv, TypeOK
  <1>3. \A u \in TakeIds : Steady(take[u], take'[u])
    BY <1>2 DEF Steady
  <1>4. Employed' /\ Framed' /\ Marked' /\ Served' /\ OneRun'
    BY <1>3, SteadyKeeps
  <1>5. TypeOK'
    BY <1>2, <1>4 DEF IInv, TypeOK
  <1>6. Lived'
    BY <1>1, <1>2, <1>3, Ids DEF IInv, Lived, Live, Steady
  <1>7. Witnessed'
    BY DEF IInv, Witnessed, Shown
  <1>8. Traced'
    BY <1>1, <1>2, Ids DEF IInv, Traced, Lineage
  <1>9. QED BY <1>4, <1>5, <1>6, <1>7, <1>8 DEF IInv

\* The reservation ends.
LEMMA StartEndsFacts ==
  ASSUME IInv, StartEnds
  PROVE  start' \in StartRecords /\ start'.pc = "idle" /\ start'.take = 0
  <1>1. 0 \in 0..MaxTakes /\ 0 \in 0..MaxTrouble
    BY TakesAssumption
  <1>2. QED BY <1>1 DEF StartEnds, NoStart, StartRecords, AllOptions

\* A reservation that ended stands for nothing.
LEMMA StartEndsReserved ==
  ASSUME IInv, StartEnds
  PROVE  Reserved'
BY StartEndsFacts DEF Reserved, Before, Asked, SetUp

\* A reservation in progress moves to another phase.
LEMMA StartField ==
  ASSUME start \in StartRecords,
         NEW pc \in {"parked", "dispatch", "sent", "confirm", "setup", "chapter", "cleanup"},
         start' = [start EXCEPT !.pc = pc]
  PROVE  /\ start' \in StartRecords /\ start'.pc = pc
         /\ start'.take = start.take /\ start'.point = start.point
BY DEF StartRecords

\* Intent: a new take follows takes that are all over.
LEMMA IntentStep ==
  ASSUME IInv, Before, Intent, UNCHANGED jobVars,
         UNCHANGED <<rec, wire, feed, alive, foreign, impact, sup, report, completed>>
  PROVE  IInv'
  <1>1. CASE StartEnds /\ UNCHANGED <<takeVars, lease>> /\ faults' \in 0..MaxTrouble
    <2>1. start' \in StartRecords /\ start'.take = 0
      BY <1>1, StartEndsFacts
    <2>2. Reserved'
      BY <1>1, StartEndsReserved
    <2>3. QED BY <1>1, <2>1, <2>2, StartMoves DEF takeVars, jobVars
  <1>2. CASE /\ ~Blocking /\ Publishes(TRUE) /\ made' = made + 1
             /\ take' = [take EXCEPT ![made + 1] =
                           [BlankTake EXCEPT !.epoch = start.epoch, !.startOp = "dispatching"]]
             /\ start' = [start EXCEPT !.pc = "dispatch", !.take = made + 1]
             /\ UNCHANGED <<current, cont, lease>>
    <2> DEFINE tk == [BlankTake EXCEPT !.epoch = start.epoch, !.startOp = "dispatching"]
               n == made + 1
    <2>1. /\ tk.result = "none" /\ tk.frame = "none" /\ tk.startFrame = "none"
          /\ tk.startOp = "dispatching" /\ tk.deadline = "none"
          /\ ~tk.running /\ ~tk.fired /\ ~tk.uncertain
      BY DEF BlankTake
    <2>2. tk \in TakeRecords
      <3>1. start.epoch \in 0..MaxTrouble /\ NoReceipt \in Receipts
        BY DEF IInv, TypeOK, StartRecords, Receipts, NoReceipt
      <3>2. QED BY <3>1 DEF BlankTake, TakeRecords
    <2> HIDE DEF tk
    <2>3. /\ n \in TakeIds /\ n \in 0..MaxTakes /\ n # 0 /\ made \in Int
          /\ \A u \in TakeIds : u \in Int
      BY <1>2, TakesAssumption DEF IInv, Reserved, TypeOK, TakeIds
    <2>4. /\ take' \in [TakeIds -> TakeRecords] /\ take'[n] = tk
          /\ \A u \in TakeIds : u # n => take'[u] = take[u]
      BY <1>2, <2>2, <2>3, TakeUpdate DEF IInv, TypeOK, tk
    <2>5. /\ start' \in StartRecords /\ start'.pc = "dispatch" /\ start'.take = n
      BY <1>2, <2>3 DEF IInv, TypeOK, StartRecords
    <2>6. current = 0 /\ completed = "none" /\ run.pc = "none"
      BY DEF IInv, Reserved, TypeOK, OneRun
    <2>7. UNCHANGED <<current, cont, lease, job, run, slot>> /\ faults' \in 0..MaxTrouble
      BY <1>2, PublishesType DEF jobVars
    <2>8. made' = n /\ rec # n /\ job[Owner(n)].pc = "idle"
      <3>1. n > made
        BY <2>3
      <3>2. take[n] = BlankTake /\ BlankTake.startFrame = "none" /\ job[Owner(n)].pc = "idle"
        BY <3>1, <2>3 DEF IInv, Lived, BlankTake
      <3>3. QED BY <1>2, <2>3, <3>2 DEF IInv, Lived
    <2>9. \A j \in Jobs : job[j].pc # "idle" =>
             /\ job[j].take \in 1..n /\ job[j].take # n /\ job[j].take \in TakeIds
             /\ take[job[j].take].result # "none"
      <3>1. ASSUME NEW j \in Jobs, job[j].pc # "idle"
            PROVE  job[j].take \in 1..made /\ take[job[j].take].result # "none"
        BY <3>1, <2>6, <2>3 DEF IInv, Employed
      <3>2. \A x \in 1..made : x \in 1..n /\ x # n
        BY <2>3
      <3>3. QED BY <3>1, <3>2, Ids
    <2>10. TypeOK'
      BY <2>3, <2>4, <2>5, <2>6, <2>7, <2>8 DEF IInv, TypeOK, OneRun
    <2>11. Reserved'
      <3>1. sup \notin {"final", "closed"}
        BY DEF IInv, Reserved, Before
      <3>2. QED
        BY <3>1, <2>1, <2>4, <2>5, <2>6, <2>7, <2>8, <2>3 DEF Reserved, Before, Asked, SetUp, Fresh
    <2>12. Lived'
      <3>1. \A u \in TakeIds : u < n => take[u].result # "none"
        <4>1. ASSUME made # 0
              PROVE  take[made].result # "none"
          <5>1. made \in TakeIds /\ take[made].startOp \in
                   {"none", "dispatching", "accepted", "observed", "unknown"}
            BY <4>1, Ids DEF IInv, TypeOK, TakeRecords
          <5>2. take[made].startOp = "observed"
            BY <1>2, <5>1, <2>3 DEF Blocking, IInv, Lived
          <5>3. QED BY <4>1, <5>1, <5>2, <2>6 DEF IInv, Lived
        <4>2. \A u \in TakeIds : u < n => u = made \/ u < made
          BY <2>3
        <4>3. QED BY <4>1, <4>2, Ids DEF IInv, Lived
      <3>2. \A u \in TakeIds : (u > n => u > made /\ u # n) /\ (u <= n => u <= made \/ u = n)
        BY <2>3
      <3>3. QED BY <3>1, <3>2, <2>1, <2>3, <2>4, <2>6, <2>7, <2>8 DEF IInv, Lived
    <2>13. Employed'
      BY <2>7, <2>8, <2>9, <2>4 DEF IInv, Employed
    <2>14. Framed' /\ Marked'
      BY <2>1, <2>4, <2>6, <2>7 DEF IInv, Framed, Marked
    <2>15. Witnessed' /\ Traced'
      BY <2>1, <2>4, <2>5, <2>6, <2>7 DEF Witnessed, Traced, Lineage
    <2>16. Served'
      BY <2>1, <2>4, <2>6, <2>7, <2>9, Names DEF IInv, Served
    <2>17. QED BY <2>10, <2>11, <2>12, <2>13, <2>14, <2>15, <2>16 DEF IInv
  <1>3. QED
    <2>1. UNCHANGED faults => faults' \in 0..MaxTrouble
      BY DEF IInv, TypeOK
    <2>2. Publishes(FALSE) => faults' \in 0..MaxTrouble
      BY PublishesType
    <2>3. CASE Blocking
      BY <2>3, <2>1, <1>1 DEF Intent
    <2>4. CASE ~Blocking
      <3>1. PICK ok \in BOOLEAN :
              /\ Publishes(ok)
              /\ IF ok
                 THEN /\ made' = made + 1
                      /\ take' = [take EXCEPT ![made + 1] =
                           [BlankTake EXCEPT !.epoch = start.epoch, !.startOp = "dispatching"]]
                      /\ start' = [start EXCEPT !.pc = "dispatch", !.take = made + 1]
                 ELSE StartEnds /\ UNCHANGED <<made, take>>
              /\ UNCHANGED <<current, cont, lease>>
        BY <2>4 DEF Intent
      <3>2. CASE ok
        BY <3>1, <3>2, <2>4, <1>2
      <3>3. CASE ~ok
        BY <3>1, <3>3, <2>2, <1>1 DEF takeVars
      <3>4. QED BY <3>2, <3>3
    <2>5. QED BY <2>3, <2>4

\* The take's own job begins: a cleanup or a clip.
LEMMA OwnerJob ==
  ASSUME job \in [Jobs -> JobRecords], NEW t \in TakeIds, NEW pc \in {"call", "clip"},
         job' = [job EXCEPT ![Owner(t)] = [IdleJob EXCEPT !.pc = pc, !.take = t]]
  PROVE  /\ job' \in [Jobs -> JobRecords]
         /\ job'[Owner(t)].pc = pc /\ job'[Owner(t)].take = t
         /\ \A j \in Jobs : j # Owner(t) => job'[j] = job[j]
  <1>1. Owner(t) \in Jobs /\ t \in 0..MaxTakes
    BY Names DEF TakeIds
  <1>2. [IdleJob EXCEPT !.pc = pc, !.take = t] \in JobRecords
    BY <1>1 DEF IdleJob, JobRecords
  <1>3. /\ [IdleJob EXCEPT !.pc = pc, !.take = t].pc = pc
        /\ [IdleJob EXCEPT !.pc = pc, !.take = t].take = t
    BY DEF IdleJob
  <1> DEFINE new == [IdleJob EXCEPT !.pc = pc, !.take = t]
  <1> HIDE DEF new
  <1>4. job' = [job EXCEPT ![Owner(t)] = new] /\ new \in JobRecords /\ new.pc = pc /\ new.take = t
    BY <1>2, <1>3 DEF new
  <1>5. QED BY <1>1, <1>4

\* The recording is confirmed and the take becomes current.
LEMMA ConfirmedStep ==
  ASSUME IInv, Asked, start.pc \in {"confirm", "parked"}, NEW ready \in BOOLEAN,
         Confirmed(ready),
         UNCHANGED <<rec, wire, feed, alive, foreign, impact, sup, report, completed>>
  PROVE  IInv'
  <1> DEFINE t == made
  <1>1. /\ start.take = t /\ t \in TakeIds /\ t # 0 /\ current = 0 /\ completed = "none"
        /\ Fresh(take[t]) /\ take[t].startFrame \in Live /\ job[Owner(t)].pc = "idle"
        /\ run.pc = "none" /\ sup \notin {"final", "closed"}
    <2>1. run.pc = "none"
      BY DEF IInv, TypeOK, OneRun, Reserved
    <2>2. QED BY <2>1, Ids DEF IInv, Reserved, Asked
  <1>2. PICK ok \in BOOLEAN, op \in {"observed", "unknown", take[t].startOp},
             d \in {"armed", "none"} :
          /\ Publishes(ok)
          /\ take' = [take EXCEPT ![t] = [take[t] EXCEPT !.startOp = op, !.deadline = d,
                                                          !.setupPending = ready]]
    <2>1. PICK ok \in BOOLEAN, op \in {"observed", "unknown"}, d \in {"armed", "none"} :
            /\ Publishes(ok)
            /\ take' = [take EXCEPT ![start.take] = [take[start.take] EXCEPT
                   !.startOp = IF ok THEN op ELSE take[start.take].startOp,
                   !.deadline = d, !.setupPending = ready]]
      BY Zenon DEF Confirmed
    <2>2. QED BY <2>1, <1>1
  <1>3. /\ cont' \in [TakeIds -> Continuities]
        /\ \A u \in TakeIds : cont'[u].stopped = cont[u].stopped
    <2>1. PICK x \in BOOLEAN : cont' = [cont EXCEPT ![t].lost = x]
      BY <1>1, Zenon DEF Confirmed
    <2>2. cont[t] \in Continuities /\ cont \in [TakeIds -> Continuities]
      BY <1>1 DEF IInv, TypeOK
    <2>3. /\ [cont[t] EXCEPT !.lost = x] \in Continuities
          /\ [cont[t] EXCEPT !.lost = x].stopped = cont[t].stopped
      BY <2>2 DEF Continuities
    <2>4. QED BY <1>1, <2>1, <2>2, <2>3
  <1>4. /\ current' = t
        /\ \/ ready /\ start' = [start EXCEPT !.pc = "setup"] /\ UNCHANGED <<job, lease>>
           \/ /\ start' = [start EXCEPT !.pc = "cleanup"] /\ UNCHANGED lease
              /\ job' = [job EXCEPT ![Owner(t)] = [IdleJob EXCEPT !.pc = "call", !.take = t]]
        /\ UNCHANGED <<made, run, slot>>
    BY <1>1 DEF Confirmed, StartCleansUp
  <1> DEFINE tk == [take[t] EXCEPT !.startOp = op, !.deadline = d, !.setupPending = ready]
             old == take[t]
  <1>5. /\ tk \in TakeRecords /\ tk.startOp = op /\ tk.startFrame = old.startFrame
        /\ tk.result = "none" /\ tk.frame = "none" /\ ~tk.running /\ ~tk.fired /\ ~tk.uncertain
    <2>1. old \in TakeRecords
      BY <1>1 DEF IInv, TypeOK
    <2>2. op \in {"none", "dispatching", "accepted", "observed", "unknown"}
      BY <2>1 DEF TakeRecords
    <2>3. tk \in TakeRecords
      BY <2>1, <2>2 DEF TakeRecords
    <2>4. /\ tk.startOp = op /\ tk.startFrame = old.startFrame /\ tk.result = old.result
          /\ tk.frame = old.frame /\ tk.running = old.running /\ tk.fired = old.fired
          /\ tk.uncertain = old.uncertain
      BY <2>1 DEF TakeRecords
    <2>5. QED BY <1>1, <2>3, <2>4 DEF Fresh
  <1>6. take' = [take EXCEPT ![t] = tk]
    BY <1>2
  <1>7. op # "none"
    BY <1>1, Ids DEF IInv, Lived
  <1> HIDE DEF tk, t
  <1>8. /\ take' \in [TakeIds -> TakeRecords] /\ take'[t] = tk
        /\ \A u \in TakeIds : u # t => take'[u] = take[u]
    BY <1>1, <1>5, <1>6, TakeUpdate DEF IInv, TypeOK
  <1>9. faults' \in 0..MaxTrouble /\ made = t
    BY <1>2, PublishesType DEF t
  <1>10. /\ start' \in StartRecords /\ start'.pc \in {"setup", "cleanup"} /\ start'.take = t
         /\ start'.pc = "setup" => UNCHANGED job
         /\ job' \in [Jobs -> JobRecords]
         /\ \A j \in Jobs : job'[j] = job[j] \/ (j = Owner(t) /\ job'[j].pc = "call" /\ job'[j].take = t)
    <2>1. start \in StartRecords /\ job \in [Jobs -> JobRecords]
      BY DEF IInv, TypeOK
    <2>2. CASE ready /\ start' = [start EXCEPT !.pc = "setup"] /\ UNCHANGED <<job, lease>>
      BY <2>1, <2>2, <1>1, StartField
    <2>3. CASE /\ start' = [start EXCEPT !.pc = "cleanup"] /\ UNCHANGED lease
               /\ job' = [job EXCEPT ![Owner(t)] = [IdleJob EXCEPT !.pc = "call", !.take = t]]
      <3>1. start' \in StartRecords /\ start'.pc = "cleanup" /\ start'.take = t
        BY <2>1, <2>3, <1>1, StartField
      <3>2. QED BY <3>1, <2>1, <2>3, <1>1, OwnerJob
    <2>4. QED BY <1>4, <2>2, <2>3
  <1>11. \A j \in Jobs : job[j].pc # "idle" =>
            /\ job[j].take \in 1..made /\ job[j].take # t /\ job[j].take \in TakeIds
            /\ take[job[j].take].result # "none"
    BY <1>1, Ids DEF IInv, Employed, Fresh
  <1>12. TypeOK'
    <2>1. current' \in 0..MaxTakes
      BY <1>4, <1>1 DEF TakeIds
    <2>2. OneRun'
      BY <1>1, <1>4, <1>10 DEF IInv, TypeOK, OneRun
    <2>3. QED BY <1>3, <1>4, <1>8, <1>9, <1>10, <2>1, <2>2 DEF IInv, TypeOK
  <1>13. Reserved'
    BY <1>1, <1>4, <1>9, <1>10 DEF Reserved, Before, Asked, SetUp
  <1>14. Lived'
    <2>1. \A u \in TakeIds : u > made => u # t /\ Owner(u) \in Jobs /\ Owner(u) # Owner(t)
      BY <1>1, <1>9, Ids, Names
    <2>2. QED
      BY <1>1, <1>4, <1>5, <1>7, <1>8, <1>9, <1>10, <2>1, Ids DEF IInv, Lived
  <1>15. Employed'
    <2>1. t \in 1..made
      BY <1>1, <1>9, Ids
    <2>2. job'[Deadline] = job[Deadline]
      BY <1>1, <1>10, Names
    <2>3. ASSUME NEW j \in Jobs, job'[j].pc # "idle"
          PROVE  job'[j].take \in 1..made' /\ (job'[j].take = current' \/ take'[job'[j].take].result # "none")
      BY <2>3, <1>4, <1>8, <1>10, <1>11, <2>1
    <2>4. QED BY <1>4, <2>2, <2>3 DEF IInv, Employed
  <1>16. Framed' /\ Marked' /\ Witnessed'
    BY <1>1, <1>4, <1>5, <1>8 DEF IInv, Framed, Marked, Witnessed, Shown
  <1>17. Traced'
    BY <1>1, <1>3, <1>4, <1>5, <1>8 DEF IInv, Traced, Lineage
  <1>18. Served'
    BY <1>1, <1>4, <1>5, <1>8, <1>10, <1>11, Names DEF IInv, Served
  <1>19. QED BY <1>12, <1>13, <1>14, <1>15, <1>16, <1>17, <1>18 DEF IInv

\* The setup of the current take goes on or ends.
LEMMA SetUpMoves ==
  ASSUME IInv, SetUp, NEW tk \in TakeRecords, Steady(take[made], tk),
         tk.startOp = take[made].startOp, tk.startFrame = take[made].startFrame,
         take' = [take EXCEPT ![made] = tk],
         start' \in StartRecords, start'.take \in {0, start.take},
         \/ UNCHANGED job
         \/ \E pc \in {"call", "clip"} :
               job' = [job EXCEPT ![Owner(made)] = [IdleJob EXCEPT !.pc = pc, !.take = made]],
         lease' \in 0..MaxTakes,
         UNCHANGED <<rec, wire, feed, alive, foreign, impact, current, made, cont, run, slot, sup,
                     report, completed, faults>>,
         start'.pc \in {"idle", "chapter", "cleanup"},
         start'.pc = "chapter" => UNCHANGED job /\ start'.take = start.take,
         start'.pc = "cleanup" => start'.take = start.take,
         start'.pc = "idle" => start'.take = 0
  PROVE  IInv'
  <1>1. /\ made \in TakeIds /\ made # 0 /\ start.take = made
        /\ current = made \/ take[made].result # "none"
        /\ job[Owner(made)].pc = "idle" /\ sup \notin {"final", "closed"}
    BY Ids DEF IInv, Reserved, SetUp
  <1>2. /\ take' \in [TakeIds -> TakeRecords] /\ take'[made] = tk
        /\ \A u \in TakeIds : u # made => take'[u] = take[u]
    BY <1>1, TakeUpdate DEF IInv, TypeOK
  <1>3. \A u \in TakeIds : /\ Steady(take[u], take'[u]) /\ take'[u].startOp = take[u].startOp
                           /\ take'[u].startFrame = take[u].startFrame
    BY <1>2 DEF Steady
  <1>4. /\ job' \in [Jobs -> JobRecords]
        /\ \A j \in Jobs : \/ job'[j] = job[j]
                           \/ j = Owner(made) /\ job'[j].pc \in {"call", "clip"} /\ job'[j].take = made
    <2>1. job \in [Jobs -> JobRecords]
      BY DEF IInv, TypeOK
    <2>2. ASSUME NEW pc \in {"call", "clip"},
                 job' = [job EXCEPT ![Owner(made)] = [IdleJob EXCEPT !.pc = pc, !.take = made]]
          PROVE  /\ job' \in [Jobs -> JobRecords]
                 /\ job'[Owner(made)].pc = pc /\ job'[Owner(made)].take = made
                 /\ \A j \in Jobs : j # Owner(made) => job'[j] = job[j]
      BY <2>1, <2>2, <1>1, OwnerJob
    <2>3. QED BY <2>1, <2>2
  <1>5. TypeOK'
    <2>1. OneRun'
      <3>1. run.pc # "none" => run.by \in Jobs /\ job[run.by].pc = "run"
        BY DEF IInv, TypeOK, OneRun, RunRecords
      <3>2. run.pc # "none" => job'[run.by] = job[run.by]
        BY <3>1, <1>1, <1>4
      <3>3. \A j \in Jobs : job'[j].pc = "run" => job[j].pc = "run"
        BY <1>4
      <3>4. run.pc # "none" => /\ current # 0 /\ take'[current].running
                               /\ job'[run.by].pc = "run" /\ job'[run.by].take = current
        BY <3>2, <1>3, Ids DEF IInv, TypeOK, OneRun, Steady
      <3>5. QED BY <3>3, <3>4 DEF IInv, TypeOK, OneRun
    <2>2. QED BY <1>2, <1>4, <2>1 DEF IInv, TypeOK
  <1>6. Reserved'
    BY <1>1, <1>3 DEF IInv, Reserved, Before, Asked, SetUp, Steady
  <1>7. Lived'
    <2>1. \A u \in TakeIds : u > made => u # made /\ Owner(u) \in Jobs /\ Owner(u) # Owner(made)
      BY <1>1, Ids, Names
    <2>2. QED
      BY <1>1, <1>2, <1>3, <1>4, <2>1, Ids DEF IInv, Lived, Steady
  <1>8. Employed'
    <2>1. made \in 1..made
      BY <1>1, Ids
    <2>2. QED
      BY <1>1, <1>3, <1>4, <2>1, Ids, Names DEF IInv, Employed, Steady
  <1>9. Framed' /\ Marked' /\ Witnessed'
    BY <1>3, Ids DEF IInv, Framed, Marked, Witnessed, Shown, Steady
  <1>10. Traced'
    BY <1>3, Ids DEF IInv, Traced, Lineage
  <1>11. Served'
    <2>1. job'[Deadline] = job[Deadline]
      BY <1>1, <1>4, Names
    <2>2. QED
      BY <1>3, <2>1, Ids, Names DEF IInv, Employed, Served, Steady, Watching, Spared, Lost, Status
  <1>12. QED BY <1>5, <1>6, <1>7, <1>8, <1>9, <1>10, <1>11 DEF IInv

\* The end of the setup: stop at once, add the chapter, or report.
LEMMA MonitoredStep ==
  ASSUME IInv, SetUp, NEW ok \in BOOLEAN, Monitored(ok),
         UNCHANGED <<rec, wire, feed, alive, foreign, impact, sup, report, completed>>
  PROVE  IInv'
  <1>1. /\ start.take = made /\ made \in TakeIds /\ made # 0
        /\ start \in StartRecords /\ take[made] \in TakeRecords
        /\ lease \in 0..MaxTakes /\ made \in 0..MaxTakes
    BY Ids DEF IInv, TypeOK, Reserved
  <1> DEFINE tk == [take[made] EXCEPT !.setupPending = FALSE]
  <1>2. /\ tk \in TakeRecords /\ Steady(take[made], tk)
        /\ tk.startOp = take[made].startOp /\ tk.startFrame = take[made].startFrame
    BY <1>1 DEF TakeRecords, Steady
  <1>3. take' = [take EXCEPT ![made] = tk]
    BY <1>1 DEF Monitored, SetupOver
  <1> HIDE DEF tk
  <1>4. UNCHANGED <<current, made, cont, faults, run, slot>>
    BY DEF Monitored
  <1>5. \/ StartCleansUp(made)
        \/ start' = [start EXCEPT !.pc = "chapter"] /\ UNCHANGED <<job, lease>>
        \/ Report(made)
    BY <1>1 DEF Monitored
  <1>6. CASE StartCleansUp(made)
    <2>1. /\ start' \in StartRecords /\ start'.pc = "cleanup" /\ start'.take = start.take
      BY <1>6, <1>1, StartField DEF StartCleansUp
    <2>2. QED BY <2>1, <1>1, <1>2, <1>3, <1>4, <1>6, SetUpMoves DEF StartCleansUp
  <1>7. CASE start' = [start EXCEPT !.pc = "chapter"] /\ UNCHANGED <<job, lease>>
    <2>1. /\ start' \in StartRecords /\ start'.pc = "chapter" /\ start'.take = start.take
      BY <1>7, <1>1, StartField
    <2>2. QED BY <2>1, <1>1, <1>2, <1>3, <1>4, <1>7, SetUpMoves
  <1>8. CASE Report(made)
    <2>1. start' \in StartRecords /\ start'.pc = "idle" /\ start'.take = 0
      BY <1>8, StartEndsFacts DEF Report
    <2>2. /\ lease' \in 0..MaxTakes
          /\ \/ UNCHANGED job
             \/ \E pc \in {"call", "clip"} :
                  job' = [job EXCEPT ![Owner(made)] = [IdleJob EXCEPT !.pc = pc, !.take = made]]
      BY <1>8, <1>1 DEF Report
    <2>3. QED BY <2>1, <2>2, <1>2, <1>3, <1>4, SetUpMoves
  <1>9. QED BY <1>5, <1>6, <1>7, <1>8

\* The first chapter is added, or not, and the start is reported.
LEMMA ChapterDoneStep ==
  ASSUME IInv, ChapterDone
  PROVE  IInv'
  <1>1. SetUp /\ start.take = made /\ made \in TakeIds /\ made # 0
        /\ take[made] \in TakeRecords /\ lease \in 0..MaxTakes /\ made \in 0..MaxTakes
    BY Ids DEF ChapterDone, IInv, TypeOK, Reserved, SetUp
  <1>2. /\ take' = [take EXCEPT ![made] = take[made]] /\ Steady(take[made], take[made])
        /\ UNCHANGED <<rec, wire, feed, alive, foreign, impact, current, made, cont, run, slot, sup,
                       report, completed, faults>>
    BY DEF ChapterDone, IInv, TypeOK, Steady, obsVars, takeVars, supVars
  <1>3. start' \in StartRecords /\ start'.pc = "idle" /\ start'.take = 0
    BY StartEndsFacts DEF ChapterDone, Report
  <1>4. /\ lease' \in 0..MaxTakes
        /\ \/ UNCHANGED job
           \/ \E pc \in {"call", "clip"} :
                job' = [job EXCEPT ![Owner(made)] = [IdleJob EXCEPT !.pc = pc, !.take = made]]
    BY <1>1 DEF ChapterDone, Report
  <1>5. QED BY <1>1, <1>2, <1>3, <1>4, SetUpMoves

\* The part of the start that follows a wait for the registry.
LEMMA StartPassStep ==
  ASSUME IInv, NEW point \in {"intent", "confirmed", "monitor"}, NEW ready \in BOOLEAN,
         NEW ok \in BOOLEAN, StartPass(point, ready, ok),
         point = "intent" => Before,
         point = "confirmed" => Asked /\ start.pc \in {"confirm", "parked"},
         point = "monitor" => SetUp,
         UNCHANGED <<obsVars, impact, supVars, completed>>
  PROVE  IInv'
  <1>1. UNCHANGED <<rec, wire, feed, alive, foreign, impact, sup, report, completed>>
    BY DEF obsVars, supVars
  <1>2. CASE point = "intent" /\ ready
    BY <1>1, <1>2, IntentStep DEF StartPass
  <1>3. CASE point = "intent" /\ ~ready
    <2>1. StartEnds /\ UNCHANGED <<current, made, take, cont, job, run, slot, lease, faults>>
      BY <1>3 DEF StartPass, takeVars, jobVars
    <2>2. start' \in StartRecords /\ start'.take = 0 /\ Reserved' /\ faults' \in 0..MaxTrouble
      BY <2>1, StartEndsFacts, StartEndsReserved DEF IInv, TypeOK
    <2>3. QED BY <1>1, <2>1, <2>2, StartMoves
  <1>4. CASE point = "confirmed"
    BY <1>1, <1>4, ConfirmedStep DEF StartPass
  <1>5. CASE point = "monitor"
    BY <1>1, <1>5, MonitoredStep DEF StartPass
  <1>6. QED BY <1>2, <1>3, <1>4, <1>5

\* wait_impact: the start is parked or goes on.
LEMMA StartGateStep ==
  ASSUME IInv, NEW point \in {"intent", "confirmed", "monitor"}, NEW ok \in BOOLEAN,
         StartGate(point, ok),
         point = "intent" => Before,
         point = "confirmed" => Asked /\ start.pc \in {"confirm", "parked"},
         point = "monitor" => SetUp,
         UNCHANGED <<obsVars, impact, supVars, completed>>
  PROVE  IInv'
  <1>1. CASE Status(start.epoch) = "suspended"
    <2>1. /\ start' = [start EXCEPT !.pc = "parked", !.point = point, !.ok = ok]
          /\ UNCHANGED <<rec, wire, feed, alive, foreign, impact, current, made, take, cont, job,
                         run, slot, lease, faults, sup, report, completed>>
      BY <1>1 DEF StartGate, obsVars, takeVars, jobVars, supVars
    <2>2. /\ start' \in StartRecords /\ start'.pc = "parked" /\ start'.point = point
          /\ start'.take = start.take
      <3>1. start \in StartRecords
        BY DEF IInv, TypeOK
      <3>2. QED BY <2>1, <3>1 DEF StartRecords
    <2>3. Reserved'
      BY <2>1, <2>2 DEF IInv, Reserved, Before, Asked, SetUp
    <2>4. faults' \in 0..MaxTrouble
      BY <2>1 DEF IInv, TypeOK
    <2>5. QED BY <2>1, <2>2, <2>3, <2>4, StartMoves
  <1>2. CASE Status(start.epoch) # "suspended"
    <2>1. StartPass(point, Status(start.epoch) = "ready", ok)
      BY <1>2 DEF StartGate
    <2>2. (Status(start.epoch) = "ready") \in BOOLEAN
      OBVIOUS
    <2>3. QED BY <2>1, <2>2, StartPassStep
  <1>3. QED BY <1>1, <1>2

\* The fate of the start request, when it is recorded.
LEMMA StartRecorded ==
  ASSUME IInv, Asked, NEW ok \in BOOLEAN, Publishes(ok), NEW op \in {"unknown", "accepted"},
         take' = IF ok THEN [take EXCEPT ![start.take].startOp = op] ELSE take,
         start' \in StartRecords, start'.take \in {0, start.take},
         UNCHANGED <<rec, wire, feed, alive, foreign, impact, current, made, cont, job, run,
                     slot, lease, sup, report, completed>>,
         start'.pc = "idle" => start'.take = 0,
         start'.pc \in {"idle", "confirm"},
         start'.pc = "confirm" => start'.take = start.take /\ take[made].startFrame \in Live
  PROVE  IInv'
  <1>1. /\ start.take = made /\ made \in TakeIds /\ made # 0 /\ take[made] \in TakeRecords
        /\ Fresh(take[made]) /\ job[Owner(made)].pc = "idle" /\ current = 0 /\ completed = "none"
        /\ sup \notin {"final", "closed"}
    BY Ids DEF IInv, TypeOK, Reserved, Asked
  <1>2. faults' \in 0..MaxTrouble
    BY PublishesType
  <1>3. CASE ~ok
    <2>1. take' = take
      BY <1>3
    <2>2. Reserved'
      BY <2>1, <1>1 DEF Reserved, Before, Asked, SetUp
    <2>3. QED BY <1>2, <2>1, <2>2, StartMoves
  <1>4. CASE ok
    <2> DEFINE tk == [take[made] EXCEPT !.startOp = op]
    <2>1. /\ tk \in TakeRecords /\ Steady(take[made], tk)
          /\ tk.startFrame = take[made].startFrame /\ tk.startOp = op
      BY <1>1 DEF TakeRecords, Steady
    <2>2. take' = [take EXCEPT ![made] = tk]
      BY <1>1, <1>4
    <2> HIDE DEF tk
    <2>3. take'[made] = tk
      BY <2>2, <1>1 DEF IInv, TypeOK
    <2>4. Reserved'
      BY <2>1, <2>3, <1>1 DEF Reserved, Before, Asked, SetUp, Fresh, Steady
    <2>5. QED BY <1>2, <2>1, <2>2, <2>4, StartFares
  <1>5. QED BY <1>3, <1>4

\* Every step of a start keeps the invariant.
LEMMA StartStepKeeps ==
  ASSUME IInv, StartStep
  PROVE  IInv'
  <1>1. CASE Preflighted
    <2>1. Before /\ start.pc = "preflight" /\ UNCHANGED <<obsVars, impact, supVars, completed>>
      BY <1>1 DEF Preflighted, Before
    <2>2. CASE StartEnds /\ UNCHANGED <<takeVars, jobVars, lease, faults>>
      <3>1. start' \in StartRecords /\ start'.take = 0 /\ Reserved' /\ faults' \in 0..MaxTrouble
        BY <2>2, StartEndsFacts, StartEndsReserved DEF IInv, TypeOK
      <3>2. QED BY <2>1, <2>2, <3>1, StartMoves DEF obsVars, takeVars, jobVars, supVars
    <2>3. CASE StartGate("intent", TRUE)
      BY <2>1, <2>3, StartGateStep
    <2>4. QED BY <1>1, <2>2, <2>3 DEF Preflighted
  <1>2. CASE StartWakes
    <2>1. /\ start.pc = "parked" /\ UNCHANGED <<obsVars, impact, supVars, completed>>
          /\ start.ok \in BOOLEAN
          /\ start.point \in {"intent", "confirmed", "monitor"}
      BY <1>2 DEF StartWakes, IInv, Reserved, TypeOK, StartRecords
    <2>2. \E ready \in BOOLEAN : StartPass(start.point, ready, start.ok)
      BY <1>2 DEF StartWakes
    <2>3. /\ start.point = "intent" => Before
          /\ start.point = "confirmed" => Asked /\ start.pc \in {"confirm", "parked"}
          /\ start.point = "monitor" => SetUp
      BY <2>1 DEF Before, Asked, SetUp
    <2>4. QED BY <2>1, <2>2, <2>3, StartPassStep
  <1>3. CASE StartSends
    <2>1. /\ start.pc = "dispatch" /\ Asked
          /\ take' = [take EXCEPT ![start.take].startFrame = "out"]
          /\ start' = [start EXCEPT !.pc = "sent"]
          /\ UNCHANGED <<rec, wire, feed, alive, foreign, impact, current, made, cont, job, run,
                         slot, lease, sup, report, completed, faults>>
      BY <1>3 DEF StartSends, StartVarsOnly, Asked, obsVars, jobVars, supVars
    <2>2. /\ start.take = made /\ made \in TakeIds /\ take[made] \in TakeRecords /\ made # 0
          /\ Fresh(take[made]) /\ job[Owner(made)].pc = "idle" /\ current = 0
          /\ completed = "none" /\ sup \notin {"final", "closed"}
      BY <2>1, Ids DEF IInv, TypeOK, Reserved
    <2>3. /\ start' \in StartRecords /\ start'.pc = "sent" /\ start'.take = start.take
      BY <2>1, StartField DEF IInv, TypeOK
    <2> DEFINE tk == [take[made] EXCEPT !.startFrame = "out"]
    <2>4. /\ tk \in TakeRecords /\ Steady(take[made], tk)
          /\ tk.startFrame = "out" /\ tk.startOp = take[made].startOp
      BY <2>2 DEF TakeRecords, Steady
    <2>5. take' = [take EXCEPT ![made] = tk]
      BY <2>1, <2>2
    <2> HIDE DEF tk
    <2>6. take'[made] = tk
      BY <2>5, <2>2 DEF IInv, TypeOK
    <2>7. Reserved'
      BY <2>1, <2>2, <2>3, <2>4, <2>6 DEF Reserved, Before, Asked, SetUp, Fresh, Steady
    <2>8. faults' \in 0..MaxTrouble
      BY <2>1 DEF IInv, TypeOK
    <2>9. QED BY <2>1, <2>3, <2>4, <2>5, <2>7, <2>8, StartFares
  <1>4. CASE StartFails
    <2>1. /\ Asked /\ StartEnds
          /\ UNCHANGED <<rec, wire, feed, alive, foreign, impact, current, made, cont, job, run,
                         slot, lease, sup, report, completed>>
          /\ \E ok \in BOOLEAN :
                /\ Publishes(ok)
                /\ take' = IF ok THEN [take EXCEPT ![start.take].startOp = "unknown"] ELSE take
      BY <1>4 DEF StartFails, StartVarsOnly, Asked, obsVars, jobVars, supVars
    <2>2. start' \in StartRecords /\ start'.pc = "idle" /\ start'.take = 0
      BY <2>1, StartEndsFacts
    <2>3. QED BY <2>1, <2>2, StartRecorded
  <1>5. CASE StartAccepted
    <2>1. /\ Asked /\ start' = [start EXCEPT !.pc = "confirm"]
          /\ take[start.take].startFrame \in Live
          /\ UNCHANGED <<rec, wire, feed, alive, foreign, impact, current, made, cont, job, run,
                         slot, lease, sup, report, completed>>
          /\ \E ok \in BOOLEAN :
                /\ Publishes(ok)
                /\ take' = IF ok THEN [take EXCEPT ![start.take].startOp = "accepted"] ELSE take
      BY <1>5 DEF StartAccepted, StartVarsOnly, Asked, Live, obsVars, jobVars, supVars
    <2>2. start' \in StartRecords /\ start'.pc = "confirm" /\ start'.take = start.take
      BY <2>1, StartField DEF IInv, TypeOK
    <2>3. take[made].startFrame \in Live
      BY <2>1 DEF IInv, Reserved
    <2>4. QED BY <2>1, <2>2, <2>3, StartRecorded
  <1>6. CASE StartConfirmed
    <2>1. /\ start.pc = "confirm" /\ Asked /\ StartGate("confirmed", TRUE)
          /\ UNCHANGED <<obsVars, impact, supVars, completed>>
      BY <1>6 DEF StartConfirmed, Asked
    <2>2. QED BY <2>1, StartGateStep
  <1>7. CASE SetupDone
    <2>1. /\ SetUp /\ UNCHANGED <<obsVars, impact, supVars, completed>>
          /\ \E ok \in BOOLEAN : StartGate("monitor", ok)
      BY <1>7 DEF SetupDone, SetUp
    <2>2. QED BY <2>1, StartGateStep
  <1>8. CASE ChapterDone
    BY <1>8, ChapterDoneStep
  <1>9. CASE CleanupDone
    <2>1. /\ StartEnds
          /\ UNCHANGED <<rec, wire, feed, alive, foreign, impact, current, made, take, cont, job,
                         run, slot, lease, faults, sup, report, completed>>
      BY <1>9 DEF CleanupDone, obsVars, takeVars, jobVars, supVars
    <2>2. start' \in StartRecords /\ start'.take = 0 /\ Reserved' /\ faults' \in 0..MaxTrouble
      BY <2>1, StartEndsFacts, StartEndsReserved DEF IInv, TypeOK
    <2>3. QED BY <2>1, <2>2, StartMoves
  <1>10. QED
    BY <1>1, <1>2, <1>3, <1>4, <1>5, <1>6, <1>7, <1>8, <1>9 DEF StartStep

-----------------------------------------------------------------------------
(* stop_once.  Whatever its control flow, one of its steps either goes on  *)
(* (Goes) or returns (Ends), and touches the take only in ways that these  *)
(* two formulas list.                                                      *)

Alike(a, b) ==
    /\ b.epoch = a.epoch /\ b.startOp = a.startOp /\ b.startFrame = a.startFrame
    /\ b.result = a.result /\ b.running = a.running /\ b.fired = a.fired /\ b.served = a.served
    /\ b.deadline \in {a.deadline, "none"}

Calm(a, b) == Alike(a, b) /\ b.frame = a.frame /\ b.uncertain = a.uncertain

Same(r) == r.by = run.by /\ r.due = run.due

Goes(tk, r) ==
    /\ Continue(tk, r) /\ Same(r) /\ r.pc # "none"
    /\ Shown(r) => Shown(run)
    /\ r.pc = "parked" => r.point # "none"
    /\ \/ Calm(take[current], tk) /\ r.pc \notin {"dispatch", "sent"}
       \/ /\ run.pc = "status" /\ r.pc = "dispatch"
          /\ ~take[current].uncertain /\ tk.uncertain
          /\ Alike(take[current], tk) /\ tk.frame = take[current].frame
       \/ /\ run.pc = "dispatch" /\ r.pc = "sent" /\ StopGuard(current)
          /\ Alike(take[current], tk) /\ tk.frame = "out" /\ tk.uncertain = take[current].uncertain
       \/ /\ run.pc = "dispatch" /\ r.pc \notin {"dispatch", "sent"}
          /\ Alike(take[current], tk) /\ tk.frame = take[current].frame /\ ~tk.uncertain

Ends(tk, result, cleared) ==
    /\ Finish(tk, result, cleared)
    /\ cleared => Shown(run)
    /\ Alike(take[current], tk) /\ tk.frame = take[current].frame
    /\ \/ tk.uncertain = take[current].uncertain
       \/ ~tk.uncertain /\ (run.pc = "dispatch" \/ take[current].frame = "rejected")

Outcomes == {"confirmed", "unconfirmed"}

Effect ==
    /\ lease' \in 0..MaxTakes /\ faults' \in 0..MaxTrouble
    /\ \/ \E tk \in TakeRecords, r \in RunRecords : Goes(tk, r)
       \/ \E tk \in TakeRecords, result \in Outcomes, cleared \in BOOLEAN :
             Ends(tk, result, cleared)

\* Likeness of takes is kept from step to step.
LEMMA CalmTrans ==
  ASSUME NEW a, NEW b, NEW c, Calm(a, b), Calm(b, c)
  PROVE  Calm(a, c)
BY DEF Calm, Alike

\* The changes of a take that leave its frames alone.
LEMMA CalmUpdates ==
  ASSUME NEW tk \in TakeRecords
  PROVE  /\ Calm(tk, tk)
         /\ \A x \in BOOLEAN : LET b == [tk EXCEPT !.blocked = x]
                               IN  b \in TakeRecords /\ Calm(tk, b)
         /\ LET b == [tk EXCEPT !.deadline = "none"] IN b \in TakeRecords /\ Calm(tk, b)
         /\ \A o \in Receipts : LET b == [tk EXCEPT !.stopOp = o]
                                IN  b \in TakeRecords /\ Calm(tk, b)
  <1>1. Calm(tk, tk)
    BY DEF Calm, Alike
  <1>2. ASSUME NEW x \in BOOLEAN
        PROVE  LET b == [tk EXCEPT !.blocked = x] IN b \in TakeRecords /\ Calm(tk, b)
    BY DEF TakeRecords, Calm, Alike
  <1>3. LET b == [tk EXCEPT !.deadline = "none"] IN b \in TakeRecords /\ Calm(tk, b)
    BY DEF TakeRecords, Calm, Alike
  <1>4. ASSUME NEW o \in Receipts
        PROVE  LET b == [tk EXCEPT !.stopOp = o] IN b \in TakeRecords /\ Calm(tk, b)
    BY DEF TakeRecords, Calm, Alike
  <1>5. QED BY <1>1, <1>2, <1>3, <1>4

\* The phase of the Stop receipt changes.
LEMMA PhaseUpdate ==
  ASSUME NEW tk \in TakeRecords,
         NEW p \in {"none", "dispatching", "accepted", "observed", "unknown"}
  PROVE  /\ [tk EXCEPT !.stopOp.phase = p] \in TakeRecords
         /\ Calm(tk, [tk EXCEPT !.stopOp.phase = p])
  <1>1. tk.stopOp \in Receipts
    BY DEF TakeRecords
  <1>2. [tk.stopOp EXCEPT !.phase = p] \in Receipts
    BY <1>1 DEF Receipts
  <1>3. [tk EXCEPT !.stopOp.phase = p] = [tk EXCEPT !.stopOp = [tk.stopOp EXCEPT !.phase = p]]
    OBVIOUS
  <1>4. QED BY <1>2, <1>3, CalmUpdates

\* stop_once moves to another place.
LEMMA RunMoves ==
  ASSUME NEW r \in RunRecords,
         NEW pc \in {"dispatch", "sent", "event", "monitor", "inspect", "log", "unowned", "poll"},
         NEW q, q = [r EXCEPT !.pc = pc]
  PROVE  /\ q \in RunRecords /\ q.pc = pc /\ q.by = r.by /\ q.due = r.due
         /\ pc \notin {"monitor", "inspect", "log"} /\ Shown(q) => Shown(r)
BY DEF RunRecords, Shown

\* uncertain: the attempt returns, and the take keeps its frames.
LEMMA UncertainEffect ==
  ASSUME IInv, run.pc # "none", NEW tk \in TakeRecords, Calm(take[current], tk),
         NEW cleared \in BOOLEAN, cleared => Shown(run),
         Uncertain(tk, cleared), lease' \in 0..MaxTakes
  PROVE  Effect
  <1>1. CASE Finish(tk, "unconfirmed", cleared) /\ UNCHANGED faults
    <2>1. Ends(tk, "unconfirmed", cleared)
      BY <1>1 DEF Ends, Calm
    <2>2. faults' \in 0..MaxTrouble
      BY <1>1 DEF IInv, TypeOK
    <2>3. QED BY <2>1, <2>2 DEF Effect, Outcomes
  <1>2. ASSUME NEW ok \in BOOLEAN, Publishes(ok),
               Finish(IF ok THEN [tk EXCEPT !.stopOp.phase = "unknown"] ELSE tk,
                      "unconfirmed", cleared)
        PROVE  Effect
    <2> DEFINE new == IF ok THEN [tk EXCEPT !.stopOp.phase = "unknown"] ELSE tk
    <2>1. new \in TakeRecords /\ Calm(tk, new)
      BY PhaseUpdate, CalmUpdates
    <2>2. Finish(new, "unconfirmed", cleared)
      BY <1>2
    <2> HIDE DEF new
    <2>3. Ends(new, "unconfirmed", cleared)
      BY <2>1, <2>2, CalmTrans DEF Ends, Calm
    <2>4. faults' \in 0..MaxTrouble
      BY <1>2, PublishesType
    <2>5. QED BY <2>1, <2>3, <2>4 DEF Effect, Outcomes
  <1>3. QED BY <1>1, <1>2 DEF Uncertain

\* A step that only moves stop_once on.
LEMMA ContinueEffect ==
  ASSUME IInv, NEW tk \in TakeRecords, Calm(take[current], tk),
         NEW r \in RunRecords, Same(r), r.pc \notin {"none", "dispatch", "sent"},
         Shown(r) => Shown(run), r.pc = "parked" => r.point # "none",
         Continue(tk, r), lease' \in 0..MaxTakes, faults' \in 0..MaxTrouble
  PROVE  Effect
  <1>1. Goes(tk, r)
    BY DEF Goes
  <1>2. QED BY <1>1 DEF Effect

\* wait_take_impact, whatever it finds.
LEMMA GateEffect ==
  ASSUME IInv, run.pc # "none", NEW tk \in TakeRecords, Calm(take[current], tk),
         NEW r \in RunRecords, Same(r), Shown(r) => Shown(run),
         NEW point \in {"status", "stopped", "summary", "inspected", "logged"},
         point \in {"summary", "inspected", "logged"} => Shown(run),
         Gate(tk, r, point)
  PROVE  Effect
  <1> DEFINE free == [tk EXCEPT !.blocked = FALSE]
  <1>1. /\ free \in TakeRecords /\ Calm(take[current], free)
        /\ lease \in 0..MaxTakes /\ faults \in 0..MaxTrouble /\ 0 \in 0..MaxTakes
    <2>1. free \in TakeRecords /\ Calm(tk, free)
      BY CalmUpdates
    <2>2. Calm(take[current], free)
      BY <2>1, CalmTrans
    <2>3. lease \in 0..MaxTakes /\ faults \in 0..MaxTrouble /\ 0 \in 0..MaxTakes
      BY TakesAssumption DEF IInv, TypeOK
    <2>4. QED BY <2>1, <2>2, <2>3
  <1> HIDE DEF free
  <1>2. CASE Refuse(tk, r)
    <2> DEFINE new == [tk EXCEPT !.deadline = "none"]
    <2>0. PICK q : q = [r EXCEPT !.pc = "refused", !.seen = "none"]
      OBVIOUS
    <2>1. new \in TakeRecords /\ Calm(take[current], new)
      BY CalmUpdates, CalmTrans
    <2>2. q \in RunRecords /\ q.pc = "refused" /\ Same(q) /\ (Shown(q) => Shown(run))
      BY <2>0 DEF Same, RunRecords, Shown
    <2>3. Continue(new, q) /\ UNCHANGED <<lease, faults>>
      BY <1>2, <2>0 DEF Refuse
    <2> HIDE DEF new
    <2>4. QED BY <1>1, <2>1, <2>2, <2>3, ContinueEffect
  <1>3. CASE /\ Continue([tk EXCEPT !.blocked = TRUE], [r EXCEPT !.pc = "parked", !.point = point])
             /\ UNCHANGED <<lease, faults>>
    <2> DEFINE new == [tk EXCEPT !.blocked = TRUE]
    <2>0. PICK q : q = [r EXCEPT !.pc = "parked", !.point = point]
      OBVIOUS
    <2>1. new \in TakeRecords /\ Calm(take[current], new)
      BY CalmUpdates, CalmTrans
    <2>2. /\ q \in RunRecords /\ q.pc = "parked" /\ q.point # "none" /\ Same(q)
          /\ (Shown(q) => Shown(run))
      <3>1. /\ q \in RunRecords /\ q.pc = "parked" /\ q.point = point
            /\ q.by = r.by /\ q.due = r.due
            /\ (point \notin {"summary", "inspected", "logged"} /\ Shown(q) => Shown(r))
        BY <2>0 DEF RunRecords, Shown
      <3>2. QED BY <3>1 DEF Same
    <2>3. Continue(new, q)
      BY <1>3, <2>0
    <2> HIDE DEF new
    <2>4. QED BY <1>1, <1>3, <2>1, <2>2, <2>3, ContinueEffect
  <1>4. CASE Pass(free, r, point)
    <2>1. CASE point = "status"
      <3>0. PICK q : q = [r EXCEPT !.pc = "status", !.seen = "none"]
        OBVIOUS
      <3>1. q \in RunRecords /\ q.pc = "status" /\ Same(q) /\ (Shown(q) => Shown(run))
        <4>1. /\ q \in RunRecords /\ q.pc = "status" /\ q.by = r.by /\ q.due = r.due
              /\ (Shown(q) => Shown(r))
          BY <3>0 DEF RunRecords, Shown
        <4>2. QED BY <4>1 DEF Same
      <3>2. Continue(free, q) /\ UNCHANGED <<lease, faults>>
        BY <1>4, <2>1, <3>0 DEF Pass
      <3>3. QED BY <1>1, <3>1, <3>2, ContinueEffect
    <2>2. CASE point = "stopped"
      <3>1. CASE cont[current].lost \/ ~r.inactive
        <4>1. Uncertain(free, FALSE) /\ UNCHANGED lease
          BY <1>4, <2>2, <3>1 DEF Pass
        <4>2. QED BY <1>1, <4>1, UncertainEffect
      <3>2. CASE ~(cont[current].lost \/ ~r.inactive)
        <4> DEFINE new == [free EXCEPT !.deadline = "none"]
                   q == [r EXCEPT !.pc = "monitor"]
        <4>1. new \in TakeRecords /\ Calm(take[current], new)
          BY <1>1, CalmUpdates, CalmTrans
        <4>2. q \in RunRecords /\ q.pc = "monitor" /\ Same(q)
          BY RunMoves DEF Same
        <4>3. Shown(run)
          BY <3>2 DEF Shown
        <4>4. Continue(new, q) /\ UNCHANGED <<lease, faults>>
          BY <1>4, <2>2, <3>2 DEF Pass
        <4> HIDE DEF new, q
        <4>5. QED BY <1>1, <4>1, <4>2, <4>3, <4>4, ContinueEffect
      <3>3. QED BY <3>1, <3>2
    <2>3. CASE point = "summary"
      <3>1. lease' \in 0..MaxTakes /\ Shown(run)
        BY <1>1, <1>4, <2>3 DEF Pass, ReleaseLease
      <3>2. CASE Finish(free, "unconfirmed", TRUE) /\ UNCHANGED faults
        <4>1. Ends(free, "unconfirmed", TRUE)
          BY <1>1, <3>1, <3>2 DEF Ends, Calm
        <4>2. QED BY <1>1, <3>1, <3>2, <4>1 DEF Effect, Outcomes
      <3>3. ASSUME NEW ok \in BOOLEAN, Publishes(ok),
                   Continue(IF ok THEN [free EXCEPT !.stopOp.phase = "observed"] ELSE free,
                            [r EXCEPT !.pc = "inspect"])
            PROVE  Effect
        <4> DEFINE new == IF ok THEN [free EXCEPT !.stopOp.phase = "observed"] ELSE free
                   q == [r EXCEPT !.pc = "inspect"]
        <4>1. new \in TakeRecords /\ Calm(free, new)
          BY <1>1, PhaseUpdate, CalmUpdates
        <4>2. q \in RunRecords /\ q.pc = "inspect" /\ Same(q)
          BY RunMoves DEF Same
        <4>3. Continue(new, q) /\ faults' \in 0..MaxTrouble
          BY <3>3, PublishesType
        <4> HIDE DEF new, q
        <4>4. Calm(take[current], new)
          BY <1>1, <4>1, CalmTrans
        <4>5. QED BY <3>1, <4>1, <4>2, <4>3, <4>4, ContinueEffect
      <3>4. QED BY <1>4, <2>3, <3>2, <3>3 DEF Pass
    <2>4. CASE point = "inspected"
      <3> DEFINE q == [r EXCEPT !.pc = "log"]
      <3>1. q \in RunRecords /\ q.pc = "log" /\ Same(q) /\ Shown(run)
        BY <2>4, RunMoves DEF Same
      <3>2. Continue(free, q) /\ UNCHANGED <<lease, faults>>
        BY <1>4, <2>4 DEF Pass
      <3> HIDE DEF q
      <3>3. QED BY <1>1, <3>1, <3>2, ContinueEffect
    <2>5. CASE point = "logged"
      <3>1. Finish(free, "confirmed", TRUE) /\ UNCHANGED <<lease, faults>> /\ Shown(run)
        BY <1>4, <2>5 DEF Pass
      <3>2. Ends(free, "confirmed", TRUE)
        BY <1>1, <3>1 DEF Ends, Calm
      <3>3. QED BY <1>1, <3>1, <3>2 DEF Effect, Outcomes
    <2>6. QED BY <2>1, <2>2, <2>3, <2>4, <2>5
  <1>5. Status(tk.epoch) \in {"ready", "suspended", "revoked"}
    BY DEF Status
  <1>6. QED BY <1>2, <1>3, <1>4, <1>5 DEF Gate, free

\* Every step of stop_once has an effect of the kind described.
LEMMA RunStepEffect ==
  ASSUME IInv, RunStep
  PROVE  Effect /\ StopFrame /\ run.pc # "none"
  <1> DEFINE old == take[current]
  <1>1. run.pc # "none"
    BY DEF RunStep, RunWakes, StatusRead, StopSends, StopUnsent, StopTimesOut, StopAnswered,
           StopEvent, PollRead, PollGivesUp, MonitorStopped, Inspected, Logged, RefusalRead, Unowned
  <1>2. StopFrame
    BY DEF RunStep, RunWakes, StatusRead, StopSends, StopUnsent, StopTimesOut, StopAnswered,
           StopEvent, PollRead, PollGivesUp, MonitorStopped, Inspected, Logged, RefusalRead, Unowned
  <1>3. /\ current \in TakeIds /\ old \in TakeRecords /\ run \in RunRecords
        /\ lease \in 0..MaxTakes /\ faults \in 0..MaxTrouble /\ 0 \in 0..MaxTakes
    BY <1>1, Ids, TakesAssumption DEF IInv, TypeOK
  <1>4. Calm(old, old) /\ Same(run)
    BY <1>3, CalmUpdates DEF Same
  <1> HIDE DEF old
  <1>5. CASE RunWakes
    <2>1. CASE Gate(old, run, run.point)
      <3>1. /\ run.point \in {"status", "stopped", "summary", "inspected", "logged"}
            /\ run.point \in {"summary", "inspected", "logged"} => Shown(run)
        BY <1>5, <1>3 DEF RunWakes, IInv, Witnessed, Shown, RunRecords
      <3>2. QED BY <1>1, <1>2, <1>3, <1>4, <2>1, <3>1, GateEffect DEF old
    <2>2. CASE Finish(old, "unconfirmed", FALSE) /\ UNCHANGED <<lease, faults>>
      <3>1. Ends(old, "unconfirmed", FALSE)
        BY <1>4, <2>2 DEF Ends, Calm, old
      <3>2. QED BY <1>1, <1>2, <1>3, <2>2, <3>1 DEF Effect, Outcomes
    <2>3. QED BY <1>1, <1>2, <1>5, <2>1, <2>2 DEF RunWakes, old
  <1>6. CASE StatusRead
    <2>1. CASE Uncertain(old, FALSE) /\ UNCHANGED lease
      BY <1>1, <1>2, <1>3, <1>4, <2>1, UncertainEffect DEF old
    <2>2. CASE Gate(old, run, "status")
      BY <1>1, <1>2, <1>3, <1>4, <2>2, GateEffect DEF old
    <2>3. CASE run.seen # "none" /\ Decide(old) /\ UNCHANGED lease
      <3> DEFINE ended == [old EXCEPT !.deadline = "none"]
      <3>1. ended \in TakeRecords /\ Calm(old, ended)
        BY <1>3, CalmUpdates
      <3> HIDE DEF ended
      <3>2. run.seen \in {"active", "inactive"} /\ run.pc = "status"
        BY <1>3, <1>6, <2>3 DEF RunRecords, StatusRead
      <3>3. CASE /\ Continue(ended, [run EXCEPT !.pc = "unowned", !.inactive = ~(run.seen = "active")])
                 /\ UNCHANGED faults
        <4>1. PICK q : q = [run EXCEPT !.pc = "unowned", !.inactive = ~(run.seen = "active")]
          OBVIOUS
        <4>2. q \in RunRecords /\ q.pc = "unowned" /\ Same(q) /\ (Shown(q) => Shown(run))
          BY <1>3, <3>2, <4>1 DEF RunRecords, Shown, Same
        <4>3. Continue(ended, q)
          BY <3>3, <4>1
        <4>4. QED BY <1>1, <1>2, <1>3, <2>3, <3>1, <3>3, <4>2, <4>3, ContinueEffect DEF old
      <3>4. CASE /\ run.seen # "active" /\ UNCHANGED faults
                 /\ Continue(ended, [run EXCEPT !.pc = "monitor"])
        <4>1. PICK q : q = [run EXCEPT !.pc = "monitor"]
          OBVIOUS
        <4>2. q \in RunRecords /\ q.pc = "monitor" /\ Same(q) /\ Shown(run)
          BY <1>3, <3>2, <3>4, <4>1 DEF RunRecords, Shown, Same
        <4>3. Continue(ended, q)
          BY <3>4, <4>1
        <4>4. QED BY <1>1, <1>2, <1>3, <2>3, <3>1, <3>4, <4>2, <4>3, ContinueEffect DEF old
      <3>5. CASE Uncertain(old, FALSE)
        BY <1>1, <1>2, <1>3, <1>4, <2>3, <3>5, UncertainEffect DEF old
      <3>6. CASE ~old.uncertain /\ StopIntent(old)
        <4>1. PICK ok \in BOOLEAN :
                /\ Publishes(ok)
                /\ IF ok THEN Continue([old EXCEPT !.stopOp.phase = "dispatching", !.uncertain = TRUE],
                                       [run EXCEPT !.pc = "dispatch"])
                   ELSE Finish(old, "unconfirmed", FALSE)
          BY <3>6 DEF StopIntent
        <4>2. faults' \in 0..MaxTrouble
          BY <4>1, PublishesType
        <4>3. CASE ok
          <5> DEFINE mid == [old EXCEPT !.stopOp.phase = "dispatching"]
                     new == [mid EXCEPT !.uncertain = TRUE]
          <5>1. mid \in TakeRecords /\ Calm(old, mid)
            BY <1>3, PhaseUpdate
          <5>2. /\ new \in TakeRecords /\ new.uncertain /\ new.frame = mid.frame
                /\ Alike(mid, new)
            <6> HIDE DEF mid
            <6>1. QED BY <5>1 DEF TakeRecords, Alike
          <5>3. new = [old EXCEPT !.stopOp.phase = "dispatching", !.uncertain = TRUE]
            OBVIOUS
          <5>4. PICK q : q = [run EXCEPT !.pc = "dispatch"]
            OBVIOUS
          <5>5. /\ q \in RunRecords /\ q.pc = "dispatch" /\ Same(q)
                /\ (Shown(q) => Shown(run))
            BY <1>3, <5>4 DEF RunRecords, Shown, Same
          <5>6. Continue(new, q)
            BY <4>1, <4>3, <5>3, <5>4
          <5> HIDE DEF mid, new
          <5>7. Alike(old, new) /\ new.frame = old.frame
            BY <5>1, <5>2 DEF Calm, Alike
          <5>8. Goes(new, q)
            BY <3>2, <3>6, <5>2, <5>5, <5>6, <5>7 DEF Goes, old
          <5>9. QED BY <1>1, <1>2, <1>3, <2>3, <4>2, <5>2, <5>5, <5>8 DEF Effect
        <4>4. CASE ~ok
          <5>1. Ends(old, "unconfirmed", FALSE)
            BY <1>4, <4>1, <4>4 DEF Ends, Calm, old
          <5>2. QED BY <1>1, <1>2, <1>3, <2>3, <4>2, <5>1 DEF Effect, Outcomes
        <4>5. QED BY <4>3, <4>4
      <3>7. QED BY <2>3, <3>3, <3>4, <3>5, <3>6 DEF Decide, ended
    <2>4. QED BY <1>6, <2>1, <2>2, <2>3 DEF StatusRead, old
  <1>7. CASE StopSends
    <2>1. PICK q : q = [run EXCEPT !.pc = "sent"]
      OBVIOUS
    <2>2. q \in RunRecords /\ q.pc = "sent" /\ Same(q) /\ (Shown(q) => Shown(run))
      BY <1>3, <1>7, <2>1 DEF StopSends, RunRecords, Shown, Same
    <2>3. PICK new : new = [old EXCEPT !.frame = "out"]
      OBVIOUS
    <2>4. /\ new \in TakeRecords /\ Alike(old, new)
          /\ new.frame = "out" /\ new.uncertain = old.uncertain
      BY <1>3, <2>3 DEF TakeRecords, Alike
    <2>5. /\ Continue(new, q) /\ UNCHANGED <<lease, faults>>
          /\ run.pc = "dispatch" /\ StopGuard(current)
      BY <1>7, <2>1, <2>3 DEF StopSends, old
    <2>6. Goes(new, q)
      BY <2>2, <2>4, <2>5 DEF Goes, old
    <2>7. QED BY <1>1, <1>2, <1>3, <2>2, <2>4, <2>5, <2>6 DEF Effect
  <1>8. CASE StopUnsent
    <2>0. PICK b \in {old.blocked, Status(old.epoch) = "suspended"} :
            LET tk == [old EXCEPT !.blocked = b] IN
            IF tk.stopOp.acc # "null"
            THEN Uncertain(tk, FALSE) /\ UNCHANGED lease
            ELSE \E ok \in BOOLEAN :
                   /\ Publishes(ok)
                   /\ LET retired == [tk EXCEPT !.uncertain = FALSE, !.stopOp = NoReceipt] IN
                      IF ok /\ Status(tk.epoch) = "revoked"
                      THEN Refuse(retired, run)
                      ELSE /\ \E after \in (IF ok THEN {retired} ELSE Unrecorded(tk)) :
                                Finish(after, "unconfirmed", FALSE)
                           /\ UNCHANGED lease
      BY <1>8, Zenon DEF StopUnsent, old
    <2> DEFINE tk == [old EXCEPT !.blocked = b]
    <2>1. /\ b \in BOOLEAN
          /\ IF tk.stopOp.acc # "null"
             THEN Uncertain(tk, FALSE) /\ UNCHANGED lease
             ELSE \E ok \in BOOLEAN :
                    /\ Publishes(ok)
                    /\ LET retired == [tk EXCEPT !.uncertain = FALSE, !.stopOp = NoReceipt] IN
                       IF ok /\ Status(tk.epoch) = "revoked"
                       THEN Refuse(retired, run)
                       ELSE /\ \E after \in (IF ok THEN {retired} ELSE Unrecorded(tk)) :
                                 Finish(after, "unconfirmed", FALSE)
                            /\ UNCHANGED lease
      <3>1. {old.blocked, Status(old.epoch) = "suspended"} \subseteq BOOLEAN
        BY <1>3 DEF TakeRecords
      <3>2. QED BY <2>0, <3>1, Zenon
    <2>2. tk \in TakeRecords /\ Calm(old, tk) /\ run.pc = "dispatch"
      BY <1>3, <1>8, <2>1, CalmUpdates DEF StopUnsent
    <2> HIDE DEF tk
    <2>3. CASE Uncertain(tk, FALSE) /\ UNCHANGED lease
      BY <1>1, <1>2, <1>3, <2>2, <2>3, UncertainEffect DEF old
    <2>4. ASSUME NEW ok \in BOOLEAN, Publishes(ok),
                 LET retired == [tk EXCEPT !.uncertain = FALSE, !.stopOp = NoReceipt] IN
                 IF ok /\ Status(tk.epoch) = "revoked"
                 THEN Refuse(retired, run)
                 ELSE /\ \E after \in (IF ok THEN {retired} ELSE Unrecorded(tk)) :
                           Finish(after, "unconfirmed", FALSE)
                      /\ UNCHANGED lease
          PROVE  Effect
      <3>1. PICK retired : retired = [tk EXCEPT !.uncertain = FALSE, !.stopOp = NoReceipt]
        OBVIOUS
      <3>2. /\ retired \in TakeRecords /\ ~retired.uncertain /\ retired.frame = old.frame
            /\ Alike(old, retired)
        <4>1. NoReceipt \in Receipts
          BY DEF NoReceipt, Receipts
        <4>2. retired \in TakeRecords /\ ~retired.uncertain /\ retired.frame = tk.frame
              /\ Alike(tk, retired)
          BY <2>2, <3>1, <4>1 DEF TakeRecords, Alike
        <4>3. QED BY <2>2, <4>2 DEF Calm, Alike
      <3>3. faults' \in 0..MaxTrouble
        BY <2>4, PublishesType
      <3>4. CASE Refuse(retired, run)
        <4>1. PICK new : new = [retired EXCEPT !.deadline = "none"]
          OBVIOUS
        <4>2. new \in TakeRecords /\ Calm(retired, new)
          BY <3>2, <4>1, CalmUpdates
        <4>3. PICK q : q = [run EXCEPT !.pc = "refused", !.seen = "none"]
          OBVIOUS
        <4>4. q \in RunRecords /\ q.pc = "refused" /\ Same(q) /\ (Shown(q) => Shown(run))
          BY <1>3, <4>3 DEF RunRecords, Shown, Same
        <4>5. Continue(new, q) /\ UNCHANGED <<lease, faults>>
          BY <3>4, <4>1, <4>3 DEF Refuse
        <4>6. Alike(old, new) /\ new.frame = old.frame /\ ~new.uncertain
          BY <3>2, <4>2 DEF Calm, Alike
        <4>7. Goes(new, q)
          BY <2>2, <4>2, <4>4, <4>5, <4>6 DEF Goes, old
        <4>8. QED BY <1>3, <3>3, <4>2, <4>4, <4>5, <4>7 DEF Effect
      <3>5. ASSUME NEW after \in (IF ok THEN {retired} ELSE Unrecorded(tk)),
                   Finish(after, "unconfirmed", FALSE), UNCHANGED lease
            PROVE  Effect
        <4>1. /\ after \in TakeRecords /\ Alike(old, after) /\ after.frame = old.frame
              /\ after.uncertain = old.uncertain \/ ~after.uncertain
          <5>1. CASE after = retired
            BY <3>2, <5>1
          <5>2. CASE after = tk
            BY <2>2, <5>2 DEF Calm
          <5>3. CASE after = [tk EXCEPT !.stopOp.phase = "unknown"]
            <6>1. after \in TakeRecords /\ Calm(tk, after)
              BY <2>2, <5>3, PhaseUpdate
            <6>2. QED BY <2>2, <6>1 DEF Calm, Alike
          <5>4. QED BY <3>5, <5>1, <5>2, <5>3 DEF Unrecorded
        <4>2. Ends(after, "unconfirmed", FALSE)
          BY <2>2, <3>5, <4>1 DEF Ends, old
        <4>3. QED BY <1>3, <3>3, <3>5, <4>1, <4>2 DEF Effect, Outcomes
      <3>6. QED BY <2>4, <3>1, <3>4, <3>5
    <2>5. QED BY <1>1, <1>2, <2>1, <2>3, <2>4
  <1>9. CASE StopTimesOut
    BY <1>1, <1>2, <1>3, <1>4, <1>9, UncertainEffect DEF StopTimesOut, AfterLostReply, old
  <1>10. CASE StopAnswered
    <2>1. PICK ok \in BOOLEAN :
            /\ Publishes(ok)
            /\ \/ /\ old.frame = "ok"
                  /\ IF ok THEN Continue([old EXCEPT !.stopOp = [phase |-> "accepted", acc |-> "yes"]],
                                         [run EXCEPT !.pc = "event"])
                     ELSE \E after \in Unrecorded(old) : Finish(after, "unconfirmed", FALSE)
               \/ /\ old.frame = "rejected"
                  /\ \E after \in (IF ok THEN {[old EXCEPT !.stopOp = [phase |-> "unknown", acc |-> "no"]]}
                                    ELSE Unrecorded(old)) :
                        Finish([after EXCEPT !.uncertain = FALSE], "unconfirmed", FALSE)
      BY <1>10 DEF StopAnswered, old
    <2>2. faults' \in 0..MaxTrouble /\ UNCHANGED lease
      BY <1>10, <2>1, PublishesType DEF StopAnswered
    <2>3. \A after \in Unrecorded(old) : after \in TakeRecords /\ Calm(old, after)
      BY <1>3, <1>4, PhaseUpdate DEF Unrecorded
    <2>4. CASE Continue([old EXCEPT !.stopOp = [phase |-> "accepted", acc |-> "yes"]],
                        [run EXCEPT !.pc = "event"])
      <3>1. PICK new : new = [old EXCEPT !.stopOp = [phase |-> "accepted", acc |-> "yes"]]
        OBVIOUS
      <3>2. [phase |-> "accepted", acc |-> "yes"] \in Receipts
        BY DEF Receipts
      <3>3. new \in TakeRecords /\ Calm(old, new)
        BY <1>3, <3>1, <3>2, CalmUpdates
      <3>4. PICK q : q = [run EXCEPT !.pc = "event"]
        OBVIOUS
      <3>5. q \in RunRecords /\ q.pc = "event" /\ Same(q) /\ (Shown(q) => Shown(run))
        BY <1>3, <3>4 DEF RunRecords, Shown, Same
      <3>6. Continue(new, q)
        BY <2>4, <3>1, <3>4
      <3>7. QED BY <1>1, <1>2, <1>3, <2>2, <3>3, <3>5, <3>6, ContinueEffect DEF old
    <2>5. ASSUME NEW after \in Unrecorded(old), Finish(after, "unconfirmed", FALSE)
          PROVE  Effect
      <3>1. Ends(after, "unconfirmed", FALSE)
        BY <2>3, <2>5 DEF Ends, Calm, old
      <3>2. QED BY <1>3, <2>2, <2>3, <3>1 DEF Effect, Outcomes
    <2>6. ASSUME old.frame = "rejected",
                 NEW after \in (IF ok THEN {[old EXCEPT !.stopOp = [phase |-> "unknown", acc |-> "no"]]}
                                 ELSE Unrecorded(old)),
                 Finish([after EXCEPT !.uncertain = FALSE], "unconfirmed", FALSE)
          PROVE  Effect
      <3>1. [phase |-> "unknown", acc |-> "no"] \in Receipts
        BY DEF Receipts
      <3>2. after \in TakeRecords /\ Calm(old, after)
        <4>1. CASE ok
          BY <1>3, <2>6, <3>1, <4>1, CalmUpdates
        <4>2. CASE ~ok
          BY <2>3, <2>6, <4>2
        <4>3. QED BY <4>1, <4>2
      <3>3. PICK new : new = [after EXCEPT !.uncertain = FALSE]
        OBVIOUS
      <3>4. /\ new \in TakeRecords /\ Alike(after, new) /\ new.frame = after.frame
            /\ ~new.uncertain
        BY <3>2, <3>3 DEF TakeRecords, Alike
      <3>5. Alike(old, new) /\ new.frame = old.frame
        BY <3>2, <3>4 DEF Calm, Alike
      <3>6. Finish(new, "unconfirmed", FALSE)
        BY <2>6, <3>3
      <3>7. Ends(new, "unconfirmed", FALSE)
        BY <2>6, <3>4, <3>5, <3>6 DEF Ends, old
      <3>8. QED BY <1>3, <2>2, <3>4, <3>7 DEF Effect, Outcomes
    <2>7. QED BY <1>1, <1>2, <2>1, <2>4, <2>5, <2>6
  <1>11. CASE StopEvent
    <2>1. CASE Continue(old, [run EXCEPT !.pc = "poll", !.seen = "none"]) /\ UNCHANGED <<lease, faults>>
      <3>1. PICK q : q = [run EXCEPT !.pc = "poll", !.seen = "none"]
        OBVIOUS
      <3>2. q \in RunRecords /\ q.pc = "poll" /\ Same(q) /\ (Shown(q) => Shown(run))
        BY <1>3, <3>1 DEF RunRecords, Shown, Same
      <3>3. Continue(old, q)
        BY <2>1, <3>1
      <3>4. QED BY <1>1, <1>2, <1>3, <1>4, <2>1, <3>2, <3>3, ContinueEffect DEF old
    <2>2. CASE Gate(old, run, "stopped")
      BY <1>1, <1>2, <1>3, <1>4, <2>2, GateEffect DEF old
    <2>3. QED BY <1>11, <2>1, <2>2 DEF StopEvent, old
  <1>12. CASE PollRead
    <2>1. CASE /\ cont[current].lost \/ run.seen = "inactive"
               /\ Gate(old, [run EXCEPT !.inactive = ~cont[current].lost], "stopped")
      <3>1. PICK q : q = [run EXCEPT !.inactive = ~cont[current].lost]
        OBVIOUS
      <3>2. q \in RunRecords /\ Same(q) /\ (Shown(q) => Shown(run))
        <4>1. run.pc = "poll"
          BY <1>12 DEF PollRead
        <4>2. QED BY <1>3, <2>1, <3>1, <4>1 DEF RunRecords, Shown, Same
      <3>3. Gate(old, q, "stopped")
        BY <2>1, <3>1
      <3>4. QED BY <1>1, <1>2, <1>3, <1>4, <3>2, <3>3, GateEffect DEF old
    <2>2. CASE Continue(old, [run EXCEPT !.seen = "none"]) /\ UNCHANGED <<lease, faults>>
      <3>1. PICK q : q = [run EXCEPT !.seen = "none"]
        OBVIOUS
      <3>2. q \in RunRecords /\ q.pc = "poll" /\ Same(q) /\ (Shown(q) => Shown(run))
        BY <1>3, <1>12, <3>1 DEF PollRead, RunRecords, Shown, Same
      <3>3. Continue(old, q)
        BY <2>2, <3>1
      <3>4. QED BY <1>1, <1>2, <1>3, <1>4, <2>2, <3>2, <3>3, ContinueEffect DEF old
    <2>3. QED BY <1>12, <2>1, <2>2 DEF PollRead, old
  <1>13. CASE PollGivesUp
    BY <1>1, <1>2, <1>3, <1>4, <1>13, GateEffect DEF PollGivesUp, old
  <1>14. CASE MonitorStopped
    <2>1. CASE Uncertain(old, FALSE) /\ UNCHANGED lease
      BY <1>1, <1>2, <1>3, <1>4, <2>1, UncertainEffect DEF old
    <2>2. CASE Gate(old, run, "summary")
      <3>1. Shown(run)
        BY <1>14 DEF MonitorStopped, Shown
      <3>2. QED BY <1>1, <1>2, <1>3, <1>4, <2>2, <3>1, GateEffect DEF old
    <2>3. QED BY <1>14, <2>1, <2>2 DEF MonitorStopped, old
  <1>15. CASE Inspected \/ Logged
    <2>1. Shown(run)
      BY <1>15 DEF Inspected, Logged, Shown
    <2>2. PICK p \in {"inspected", "logged"} : Gate(old, run, p)
      BY <1>15 DEF Inspected, Logged, old
    <2>3. QED BY <1>1, <1>2, <1>3, <1>4, <2>1, <2>2, GateEffect DEF old
  <1>16. CASE RefusalRead
    <2>1. PICK x \in {FALSE, run.seen = "inactive" /\ feed = <<>>} :
            Continue(old, [run EXCEPT !.pc = "unowned", !.inactive = x])
      BY <1>16 DEF RefusalRead, old
    <2>2. PICK q : q = [run EXCEPT !.pc = "unowned", !.inactive = x]
      OBVIOUS
    <2>3. q \in RunRecords /\ q.pc = "unowned" /\ Same(q) /\ (Shown(q) => Shown(run))
      BY <1>3, <2>1, <2>2 DEF RunRecords, Shown, Same
    <2>4. Continue(old, q) /\ UNCHANGED <<lease, faults>>
      BY <1>16, <2>1, <2>2 DEF RefusalRead
    <2>5. QED BY <1>1, <1>2, <1>3, <1>4, <2>3, <2>4, ContinueEffect DEF old
  <1>17. CASE Unowned
    <2>1. CASE Uncertain(old, FALSE) /\ UNCHANGED lease
      BY <1>1, <1>2, <1>3, <1>4, <2>1, UncertainEffect DEF old
    <2>2. CASE run.inactive /\ ReleaseLease /\ Uncertain(old, TRUE)
      <3>1. Shown(run) /\ lease' \in 0..MaxTakes
        BY <1>3, <2>2 DEF Shown, ReleaseLease
      <3>2. QED BY <1>1, <1>2, <1>3, <1>4, <2>2, <3>1, UncertainEffect DEF old
    <2>3. QED BY <1>17, <2>1, <2>2 DEF Unowned, old
  <1>18. QED
    BY <1>5, <1>6, <1>7, <1>8, <1>9, <1>10, <1>11, <1>12, <1>13, <1>14, <1>15, <1>16, <1>17
       DEF RunStep


\* What is known while stop_once runs.
LEMMA Running ==
  ASSUME IInv, run.pc # "none"
  PROVE  /\ current \in TakeIds /\ current # 0 /\ current = made /\ take[current] \in TakeRecords
         /\ take[current].result = "none" /\ take[current].startFrame \in Live
         /\ take[current].running
         /\ run.by \in Jobs /\ job[run.by].pc = "run" /\ job[run.by].take = current
         /\ \A j \in Jobs : job[j].pc = "run" => j = run.by
         /\ ~Before /\ ~Asked /\ report # "confirmed"
         /\ start.take = 0 \/ (start.take = made /\ (SetUp \/ start.pc = "cleanup"))
  <1>1. /\ current # 0 /\ take[current].running /\ run.by \in Jobs
        /\ job[run.by].pc = "run" /\ job[run.by].take = current
        /\ \A j \in Jobs : job[j].pc = "run" => j = run.by
    BY DEF IInv, TypeOK, OneRun, RunRecords
  <1>2. current \in TakeIds /\ take[current] \in TakeRecords
    BY <1>1, Ids DEF IInv, TypeOK
  <1>3. ~Before /\ ~Asked
    BY <1>1 DEF IInv, Reserved
  <1>4. current = made /\ take[current].result = "none" /\ take[current].startFrame \in Live
    BY <1>1 DEF IInv, Lived
  <1>5. report # "confirmed"
    BY <1>4 DEF IInv, Lived
  <1>6. start.pc = "idle" \/ SetUp \/ start.pc = "cleanup"
    <2>1. start \in StartRecords /\ (start.pc = "parked" => start.point # "none")
      BY DEF IInv, TypeOK, Reserved
    <2>2. QED BY <2>1, <1>3 DEF StartRecords, Before, Asked, SetUp
  <1>7. start.take = 0 \/ (start.take = made /\ (SetUp \/ start.pc = "cleanup"))
    BY <1>6 DEF IInv, Reserved
  <1>8. QED BY <1>1, <1>2, <1>3, <1>4, <1>5, <1>7

\* A step of stop_once that goes on.
LEMMA GoesKeeps ==
  ASSUME IInv, StopFrame, run.pc # "none", lease' \in 0..MaxTakes, faults' \in 0..MaxTrouble,
         NEW tk \in TakeRecords, NEW r \in RunRecords, Goes(tk, r)
  PROVE  IInv'
  <1>1. /\ current \in TakeIds /\ current = made /\ take[current].running
        /\ ~Before /\ ~Asked /\ take[current] \in TakeRecords
    BY Running
  <1>2. /\ take' = [take EXCEPT ![current] = tk] /\ run' = r
        /\ UNCHANGED <<rec, wire, feed, alive, foreign, impact, start, made, cont, slot, sup, report,
                       current, completed, job>>
    BY DEF Goes, Continue, StopFrame, obsVars, supVars
  <1>3. /\ take' \in [TakeIds -> TakeRecords] /\ take'[current] = tk
        /\ \A u \in TakeIds : u # current => take'[u] = take[u]
    BY <1>1, <1>2, TakeUpdate DEF IInv, TypeOK
  <1>4. Alike(take[current], tk) /\ Same(r) /\ r.pc # "none"
    BY DEF Goes, Calm
  <1>5. \A u \in TakeIds :
          /\ take'[u].epoch = take[u].epoch /\ take'[u].startOp = take[u].startOp
          /\ take'[u].startFrame = take[u].startFrame
          /\ take'[u].result = take[u].result /\ take'[u].running = take[u].running
          /\ take'[u].fired = take[u].fired /\ take'[u].served = take[u].served
          /\ take'[u].deadline \in {take[u].deadline, "none"}
    BY <1>3, <1>4 DEF Alike
  <1>6. TypeOK'
    <2>1. OneRun'
      BY <1>2, <1>4, <1>5, Ids DEF IInv, TypeOK, OneRun, Same
    <2>2. QED BY <1>2, <1>3, <2>1 DEF IInv, TypeOK
  <1>7. Reserved'
    BY <1>1, <1>2, <1>5 DEF IInv, Reserved, Before, Asked, SetUp
  <1>8. Lived'
    BY <1>1, <1>2, <1>3, <1>4, <1>5, Ids DEF IInv, Lived
  <1>9. Employed' /\ Marked'
    BY <1>2, <1>5, Ids DEF IInv, Employed, Marked
  <1>10. Framed'
    <2>1. take[current].frame \in {"none", "out", "ok", "rejected"}
      BY <1>1 DEF TakeRecords
    <2>2. take[current].frame \in {"out", "ok"} => take[current].uncertain
      BY <1>1 DEF IInv, Framed
    <2>3. run.pc = "dispatch" =>
             take[current].uncertain /\ take[current].frame \in {"none", "rejected"}
      BY DEF IInv, Framed
    <2>4. /\ tk.frame \in {"out", "ok"} => tk.uncertain
          /\ r.pc \in {"dispatch", "sent"} => tk.uncertain
          /\ r.pc = "dispatch" => tk.frame \in {"none", "rejected"}
      BY <2>1, <2>2, <2>3 DEF Goes, Calm
    <2>5. QED BY <1>2, <1>3, <2>4 DEF IInv, Framed
  <1>11. Witnessed'
    <2>1. /\ Shown(r) => Shown(run)
          /\ r.pc = "parked" => r.point # "none"
      BY DEF Goes
    <2>2. Shown(run)' => Shown(run)
      BY <1>2, <2>1 DEF Shown
    <2>3. QED BY <1>2, <2>1, <2>2 DEF IInv, Witnessed
  <1>12. Traced'
    BY <1>2, <1>5, Ids DEF IInv, Traced, Lineage
  <1>13. Served'
    <2>1. job[Deadline].pc # "idle" => job[Deadline].take \in TakeIds
      BY Ids, Names DEF IInv, Employed
    <2>2. Watching(current) => Watching(current)'
      BY <1>2 DEF Watching
    <2>3. QED BY <1>1, <1>2, <1>4, <1>5, <2>1, <2>2 DEF IInv, Served, Same
  <1>14. QED BY <1>6, <1>7, <1>8, <1>9, <1>10, <1>11, <1>12, <1>13 DEF IInv

\* A step of stop_once that returns.
LEMMA EndsKeeps ==
  ASSUME IInv, StopFrame, run.pc # "none", lease' \in 0..MaxTakes, faults' \in 0..MaxTrouble,
         NEW tk \in TakeRecords, NEW result \in Outcomes, NEW cleared \in BOOLEAN,
         Ends(tk, result, cleared)
  PROVE  IInv'
  <1>1. /\ current \in TakeIds /\ current = made /\ current # 0 /\ take[current] \in TakeRecords
        /\ take[current].result = "none" /\ take[current].startFrame \in Live
        /\ take[current].running
        /\ run.by \in Jobs /\ job[run.by].pc = "run" /\ job[run.by].take = current
        /\ \A j \in Jobs : job[j].pc = "run" => j = run.by
        /\ ~Before /\ ~Asked /\ report # "confirmed"
        /\ start.take = 0 \/ (start.take = made /\ (SetUp \/ start.pc = "cleanup"))
    BY Running
  <1> DEFINE old == take[current]
             new == [tk EXCEPT !.running = FALSE,
                               !.result = IF cleared THEN result ELSE @,
                               !.served = @ \/ (run.due /\ ~tk.blocked)]
             back == Returned(run.by, current, tk, cleared)
  <1>2. Alike(old, tk) /\ tk.frame = old.frame /\ (cleared => rec # current)
    BY DEF Ends, IInv, Witnessed
  <1>3. /\ take' = [take EXCEPT ![current] = new]
        /\ current' = IF cleared THEN 0 ELSE current
        /\ completed' = IF cleared THEN result ELSE completed
        /\ job' = [job EXCEPT ![run.by] = back] /\ run' = NoRun
        /\ UNCHANGED <<rec, wire, feed, alive, foreign, impact, start, made, cont, slot, sup, report>>
    BY DEF Ends, Finish, StopFrame, obsVars, supVars
  <1>4. /\ new \in TakeRecords /\ ~new.running
        /\ new.result = IF cleared THEN result ELSE old.result
        /\ run.due => new.served \/ new.blocked
        /\ new.frame = old.frame /\ new.uncertain = tk.uncertain
        /\ new.startOp = old.startOp /\ new.startFrame = old.startFrame
        /\ new.fired = old.fired /\ new.deadline \in {old.deadline, "none"}
    <2>1. PICK sv, res : /\ sv = (tk.served \/ (run.due /\ ~tk.blocked))
                         /\ res = IF cleared THEN result ELSE tk.result
      OBVIOUS
    <2>2. new = [tk EXCEPT !.running = FALSE, !.result = res, !.served = sv]
      BY <2>1
    <2>3. sv \in BOOLEAN
      BY <2>1
    <2>4. res \in {"none"} \union Outcomes
      BY <2>1 DEF TakeRecords, Outcomes
    <2> HIDE DEF new
    <2>5. /\ new.running = FALSE /\ new.result = res /\ new.served = sv
          /\ new.blocked = tk.blocked
          /\ new.frame = tk.frame /\ new.uncertain = tk.uncertain
          /\ new.startOp = tk.startOp /\ new.startFrame = tk.startFrame
          /\ new.fired = tk.fired /\ new.deadline = tk.deadline
      BY <2>2 DEF TakeRecords
    <2>6. /\ new.running = FALSE /\ new.result = IF cleared THEN result ELSE tk.result
          /\ new.served = (tk.served \/ (run.due /\ ~tk.blocked)) /\ new.blocked = tk.blocked
          /\ new.frame = tk.frame /\ new.uncertain = tk.uncertain
          /\ new.startOp = tk.startOp /\ new.startFrame = tk.startFrame
          /\ new.fired = tk.fired /\ new.deadline = tk.deadline
      BY <2>1, <2>5
    <2>7. new \in TakeRecords
      BY <2>2, <2>3, <2>4 DEF TakeRecords, Outcomes
    <2>8. tk.blocked \in BOOLEAN
      BY DEF TakeRecords
    <2>9. QED BY <1>2, <2>6, <2>7, <2>8 DEF Alike
  <1>5. back \in JobRecords
    <2>1. job[run.by] \in JobRecords
      BY <1>1 DEF IInv, TypeOK
    <2>2. IdleJob \in JobRecords
      BY TakesAssumption DEF IdleJob, JobRecords
    <2>3. [job[run.by] EXCEPT !.pc = "again", !.was = FALSE] \in JobRecords
      BY <2>1 DEF JobRecords
    <2>4. QED BY <2>2, <2>3 DEF Returned
  <1>6. back.pc \in {"idle", "again"}
        /\ (back.pc = "again" => ~cleared /\ back.take = current)
    <2>1. CASE back = IdleJob
      BY <2>1 DEF IdleJob
    <2>2. CASE ~cleared /\ back = [job[run.by] EXCEPT !.pc = "again", !.was = FALSE]
      <3>1. job[run.by] \in JobRecords
        BY <1>1 DEF IInv, TypeOK
      <3>2. back.pc = "again" /\ back.take = job[run.by].take
        BY <2>2, <3>1 DEF JobRecords
      <3>3. QED BY <1>1, <2>2, <3>2
    <2>3. QED BY <2>1, <2>2 DEF Returned
  <1> HIDE DEF new, back, old
  <1>7. /\ take' \in [TakeIds -> TakeRecords] /\ take'[current] = new
        /\ \A u \in TakeIds : u # current => take'[u] = take[u]
    BY <1>1, <1>3, <1>4, TakeUpdate DEF IInv, TypeOK
  <1>8. /\ job' \in [Jobs -> JobRecords] /\ job'[run.by] = back
        /\ \A j \in Jobs : j # run.by => job'[j] = job[j]
    BY <1>1, <1>3, <1>5 DEF IInv, TypeOK
  <1>9. NoRun \in RunRecords /\ NoRun.pc = "none"
    BY Names DEF NoRun, RunRecords
  <1>10. TypeOK'
    <2>1. OneRun'
      BY <1>1, <1>3, <1>6, <1>8, <1>9 DEF OneRun
    <2>2. current' \in 0..MaxTakes /\ completed' \in {"none", "confirmed", "unconfirmed"}
      BY <1>3, TakesAssumption DEF IInv, TypeOK, Outcomes
    <2>3. QED BY <1>3, <1>7, <1>8, <1>9, <2>1, <2>2 DEF IInv, TypeOK
  <1>11. cleared => new.result # "none" /\ result # "none"
    BY <1>4 DEF Outcomes
  <1>12. Reserved'
    <2>1. SetUp => job'[Owner(made)].pc = "idle"
      BY <1>1, <1>8, Names DEF IInv, Reserved
    <2>2. SetUp \/ start.pc = "cleanup" => current' = made \/ take'[made].result # "none"
      BY <1>1, <1>3, <1>7, <1>11
    <2>3. (SetUp' => SetUp) /\ ~Before' /\ ~Asked' /\ start.pc # "dispatch"
      BY <1>1, <1>3 DEF SetUp, Before, Asked
    <2>4. QED BY <1>1, <1>3, <2>1, <2>2, <2>3 DEF IInv, Reserved
  <1>13. Lived'
    <2>1. \A t \in TakeIds : t > made => t # current /\ job'[Owner(t)] = job[Owner(t)]
      BY <1>1, <1>8, Ids, Names DEF IInv, Lived
    <2>2. new.result # "none" => cleared
      BY <1>1, <1>4 DEF old
    <2>3. \A t \in TakeIds : t # current => take'[t] = take[t] /\ (take[t].startOp = "observed" => take[t].result # "none")
      BY <1>7 DEF IInv, Lived
    <2>4. ASSUME NEW t \in TakeIds
          PROVE /\ t > made => take'[t] = BlankTake /\ job'[Owner(t)].pc = "idle"
                /\ t < made => take'[t].result # "none"
                /\ t <= made => take'[t].startOp # "none"
                /\ take'[t].startOp = "observed" => t = current' \/ take'[t].result # "none"
                /\ take'[t].result # "none" => take'[t].startFrame \in Live /\ rec # t
                /\ rec = t => take'[t].startFrame = "ok"
      <3>1. CASE t = current
        <4>1. t = made /\ take'[t] = new /\ ~(t < made) /\ ~(t > made)
          BY <3>1, <1>1, <1>7, Ids
        <4>2. take[t].startOp # "none" /\ (rec = t => take[t].startFrame = "ok")
          BY <4>1, Ids DEF IInv, Lived
        <4>3. QED BY <3>1, <4>1, <4>2, <1>1, <1>2, <1>3, <1>4, <1>11, <2>2 DEF old
      <3>2. CASE t # current
        BY <3>2, <2>1, <2>3 DEF IInv, Lived
      <3>3. QED BY <3>1, <3>2
    <2>5. current' # 0 => /\ current' = made /\ take'[current'].result = "none"
                          /\ take'[current'].startFrame \in Live
                          /\ ~take'[current'].running
      BY <1>1, <1>3, <1>4, <1>7 DEF old
    <2>6. completed' # "none" => made # 0 /\ take'[made].result # "none"
      BY <1>1, <1>3, <1>7, <1>11 DEF IInv, Lived
    <2>7. QED BY <1>1, <1>3, <2>4, <2>5, <2>6 DEF Lived
  <1>14. Employed'
    <2>1. ASSUME NEW j \in Jobs, job'[j].pc # "idle"
          PROVE  job'[j].take \in 1..made' /\ (job'[j].take = current' \/ take'[job'[j].take].result # "none")
      <3>1. CASE j = run.by
        <4>1. current \in 1..made
          BY <1>1, Ids
        <4>2. QED BY <3>1, <4>1, <2>1, <1>3, <1>6, <1>8
      <3>2. CASE j # run.by
        <4>1. /\ job'[j] = job[j] /\ job[j].take \in 1..made
              /\ job[j].take = current \/ take[job[j].take].result # "none"
          BY <3>2, <2>1, <1>8 DEF IInv, Employed
        <4>2. job[j].take \in TakeIds
          BY <4>1, Ids
        <4>3. QED BY <4>1, <4>2, <1>1, <1>3, <1>7, <1>11
      <3>3. QED BY <3>1, <3>2
    <2>2. slot = 0 => job'[Deadline].pc = "idle"
      BY <1>1, <1>8, Names DEF IInv, Employed
    <2>3. QED BY <1>3, <2>1, <2>2 DEF Employed
  <1>15. Framed'
    <2>1. new.frame \in {"out", "ok"} => new.uncertain
      <3>1. old.frame \in {"out", "ok"} => old.uncertain
        BY <1>1 DEF IInv, Framed, old
      <3>2. run.pc = "dispatch" => old.frame \in {"none", "rejected"}
        BY DEF IInv, Framed, old
      <3>3. tk.uncertain = old.uncertain \/ run.pc = "dispatch" \/ old.frame = "rejected"
        BY DEF Ends, old
      <3>4. QED BY <1>4, <3>1, <3>2, <3>3
    <2>2. QED BY <1>1, <1>3, <1>7, <1>9, <2>1 DEF IInv, Framed
  <1>16. Marked' /\ Witnessed'
    BY <1>3, <1>9 DEF IInv, Marked, Witnessed
  <1>17. Traced'
    <2>1. Lineage' \in {0, made} /\ Lineage = made
      BY <1>1, <1>3 DEF Lineage
    <2>2. take'[made].startFrame = take[made].startFrame
      BY <1>1, <1>4, <1>7 DEF old
    <2>3. QED BY <1>1, <1>3, <2>1, <2>2 DEF IInv, Traced
  <1>18. Served'
    <2>1. \A t \in TakeIds : take'[t].fired = take[t].fired
                             /\ take'[t].deadline \in {take[t].deadline, "none"}
      BY <1>4, <1>7 DEF old
    <2>2. job[Deadline].pc # "idle" => job[Deadline].take \in TakeIds
      BY Ids, Names DEF IInv, Employed
    <2>3. job'[Deadline].pc # "idle" =>
             job[Deadline].pc # "idle" /\ job'[Deadline].take = job[Deadline].take
      BY <1>1, <1>6, <1>8, Names
    <2>4. job'[Deadline].pc # "idle" => take'[job'[Deadline].take].deadline # "armed"
      BY <2>1, <2>2, <2>3 DEF IInv, Served
    <2>5. ASSUME current' # 0, take'[current'].deadline = "due", take'[current'].fired
          PROVE  Spared(take'[current']) \/ Watching(current)'
      <3>1. current' = current /\ take'[current'] = new /\ old.deadline = "due" /\ old.fired
        BY <2>5, <2>1, <1>1, <1>3, <1>7 DEF old
      <3>2. CASE run.due
        BY <3>1, <3>2, <1>4 DEF Spared
      <3>3. CASE ~run.due
        <4>1. Watching(current)
          BY <3>1, <3>3, <1>1 DEF IInv, Served, old
        <4>2. run.by # Deadline /\ job'[Deadline] = job[Deadline]
          BY <4>1, <1>1, <1>8, Names DEF Watching
        <4>3. QED BY <3>1, <4>1, <4>2 DEF Watching
      <3>4. QED BY <3>2, <3>3, <1>1 DEF IInv, TypeOK, RunRecords
    <2>6. current' # 0 => ~take'[current'].running
      BY <1>3, <1>4, <1>7
    <2>7. \A t \in TakeIds : take'[t].fired => take'[t].deadline # "armed"
      BY <2>1 DEF IInv, Served
    <2>8. QED BY <2>4, <2>5, <2>6, <2>7, <1>3, <1>9 DEF Served
  <1>19. QED BY <1>10, <1>12, <1>13, <1>14, <1>15, <1>16, <1>17, <1>18 DEF IInv

\* Every step of stop_once keeps the invariant.
LEMMA RunStepKeeps ==
  ASSUME IInv, RunStep
  PROVE  IInv'
BY RunStepEffect, GoesKeeps, EndsKeeps DEF Effect

-----------------------------------------------------------------------------
(* The callers of stop_take and the actor.                                 *)

\* One task moves, outside stop_once; the supervisor's phase may change.
LEMMA JobMoves ==
  ASSUME IInv, NEW j \in Jobs, NEW q \in JobRecords,
         job' = [job EXCEPT ![j] = q], job[j].pc # "run", q.pc # "run",
         q.pc # "idle" => /\ q.take \in 1..made
                          /\ q.take = current \/ take[q.take].result # "none",
         \A u \in TakeIds : j = Owner(u) /\ job[j].pc = "idle" => q.pc = "idle",
         j = Deadline => (slot = 0 => q.pc = "idle") /\ Served',
         sup' \in {"open", "closing", "final", "closed"},
         report' \in {"none", "confirmed", "unconfirmed"},
         sup' \in {"final", "closed"} => start.pc = "idle",
         report' = "confirmed" => sup' = "closed" /\ completed = "confirmed",
         UNCHANGED <<rec, wire, feed, alive, foreign, impact, start, current, made, take, cont, run,
                     slot, lease, completed, faults>>
  PROVE  IInv'
  <1>1. /\ job' \in [Jobs -> JobRecords] /\ job'[j] = q
        /\ \A i \in Jobs : i # j => job'[i] = job[i]
    BY DEF IInv, TypeOK
  <1>2. OneRun'
    <2>1. run.pc # "none" => run.by \in Jobs /\ run.by # j
      BY DEF IInv, TypeOK, OneRun, RunRecords
    <2>2. QED BY <1>1, <2>1 DEF IInv, TypeOK, OneRun
  <1>3. TypeOK'
    BY <1>1, <1>2 DEF IInv, TypeOK
  <1>4. \A u \in TakeIds : job[Owner(u)].pc = "idle" => job'[Owner(u)].pc = "idle"
    BY <1>1, Names
  <1>5. Reserved'
    <2>1. made # 0 => made \in TakeIds
      BY Ids
    <2>2. (SetUp' <=> SetUp) /\ (Before' <=> Before) /\ (Asked' <=> Asked)
      BY DEF SetUp, Before, Asked
    <2>3. QED BY <1>4, <2>1, <2>2 DEF IInv, Reserved
  <1>6. Lived'
    BY <1>4 DEF IInv, Lived
  <1>7. Employed'
    BY <1>1, Names DEF IInv, Employed
  <1>8. Framed' /\ Marked' /\ Witnessed'
    BY DEF IInv, Framed, Marked, Witnessed, Shown
  <1>9. Traced'
    BY DEF IInv, Traced, Lineage
  <1>10. Served'
    <2>1. CASE j # Deadline
      <3>1. job'[Deadline] = job[Deadline]
        BY <2>1, <1>1, Names
      <3>2. QED BY <3>1 DEF IInv, Served, Watching, Spared, Lost, Status
    <2>2. QED BY <2>1
  <1>11. QED BY <1>3, <1>5, <1>6, <1>7, <1>8, <1>9, <1>10 DEF IInv

\* What a task in stop_take works for.
LEMMA Working ==
  ASSUME IInv, NEW j \in Jobs, job[j].pc # "idle"
  PROVE  /\ job[j].take \in 1..made /\ job[j].take \in TakeIds /\ job[j] \in JobRecords
         /\ job[j].take = current <=> take[job[j].take].result = "none"
         /\ sup \in {"final", "closed"} => start.pc = "idle"
         /\ report = "confirmed" => sup = "closed" /\ completed = "confirmed"
         /\ sup \in {"open", "closing", "final", "closed"}
         /\ report \in {"none", "confirmed", "unconfirmed"}
         /\ j = Deadline => slot # 0
BY Ids DEF IInv, TypeOK, Employed, Lived, Reserved

\* A task ends or changes its place: what the deadline worker must keep.
LEMMA WorkerMoves ==
  ASSUME IInv, NEW q \in JobRecords, job' = [job EXCEPT ![Deadline] = q],
         UNCHANGED <<alive, impact, current, take, cont, run>>,
         job[Deadline].pc # "idle",
         q.pc # "idle" => q.take = job[Deadline].take,
         job[Deadline].take = current =>
            /\ Watching(current) =>
                  \/ q.pc = "join" /\ q.was
                  \/ q.pc = "again" /\ ~take[current].running
                  \/ take[current].blocked /\ ~take[current].running
            /\ job[Deadline].pc = "again" => take[current].running
  PROVE  Served'
  <1>1. job'[Deadline] = q
    BY Names DEF IInv, TypeOK
  <1>2. job'[Deadline].pc # "idle" => take'[job'[Deadline].take].deadline # "armed"
    BY <1>1 DEF IInv, Served
  <1>3. /\ \A t \in TakeIds : take'[t].fired => take'[t].deadline # "armed"
        /\ run'.pc # "none" /\ run'.by = Deadline /\ ~run'.due => take'[current'].deadline = "none"
    BY DEF IInv, Served
  <1>4. ASSUME current # 0, take[current].deadline = "due", take[current].fired
        PROVE  /\ take[current].running /\ ~run.due => Watching(current)'
               /\ ~take[current].running =>
                     \/ Watching(current)'
                     \/ q.take = current /\ q.pc = "again"
                     \/ Spared(take[current]) \/ Lost(current)
    <2>1. /\ take[current].running /\ ~run.due => Watching(current)
          /\ ~take[current].running =>
                \/ Watching(current)
                \/ job[Deadline].take = current /\ job[Deadline].pc = "again"
                \/ Spared(take[current]) \/ Lost(current)
      BY <1>4 DEF IInv, Served
    <2>2. CASE Watching(current)
      <3>1. job[Deadline].take = current
        BY <2>2 DEF Watching
      <3>2. CASE q.pc = "join" /\ q.was
        BY <3>1, <3>2, <1>1 DEF Watching
      <3>3. CASE q.pc = "again" /\ ~take[current].running
        BY <3>1, <3>3
      <3>4. CASE take[current].blocked /\ ~take[current].running
        BY <3>4 DEF Spared
      <3>5. QED BY <2>2, <3>1, <3>2, <3>3, <3>4
    <2>3. CASE ~Watching(current)
      BY <2>1, <2>3
    <2>4. QED BY <2>2, <2>3
  <1>5. Spared(take[current])' = Spared(take[current]) /\ Lost(current)' = Lost(current)
    BY DEF Spared, Lost, Status
  <1>6. QED BY <1>1, <1>2, <1>3, <1>4, <1>5 DEF Served

\* A caller enters stop_take.
LEMMA CallStep ==
  ASSUME IInv, NEW j \in Jobs, Call(j)
  PROVE  IInv'
  <1> DEFINE t == job[j].take
             s == Status(take[t].epoch)
             old == take[t]
  <1>1. /\ job[j].pc \in {"call", "again"}
        /\ UNCHANGED <<rec, wire, feed, alive, foreign, impact, start, current, made, cont, slot,
                       lease, sup, report, completed, faults>>
    BY DEF Call, StopFrame, obsVars, supVars
  <1>2. /\ t \in 1..made /\ t \in TakeIds /\ job[j] \in JobRecords /\ t \in 0..MaxTakes
        /\ t = current <=> old.result = "none"
        /\ sup \in {"final", "closed"} => start.pc = "idle"
        /\ report = "confirmed" => sup = "closed" /\ completed = "confirmed"
        /\ sup \in {"open", "closing", "final", "closed"}
        /\ report \in {"none", "confirmed", "unconfirmed"}
        /\ j = Deadline => slot # 0
    BY <1>1, Working DEF TakeIds
  <1>3. CASE old.result # "none" /\ job' = [job EXCEPT ![j] = IdleJob] /\ UNCHANGED <<take, run>>
    <2>1. IdleJob \in JobRecords /\ IdleJob.pc = "idle"
      BY TakesAssumption DEF IdleJob, JobRecords
    <2>2. j = Deadline => Served'
      BY <1>1, <1>2, <1>3, <2>1, WorkerMoves
    <2>3. QED BY <1>1, <1>2, <1>3, <2>1, <2>2, JobMoves
  <1>4. CASE /\ old.result = "none" /\ old.running /\ UNCHANGED <<take, run>>
             /\ job' = [job EXCEPT ![j].pc = "join", ![j].was = job[j].pc = "call"]
    <2> DEFINE q == [job[j] EXCEPT !.pc = "join", !.was = job[j].pc = "call"]
    <2>1. q \in JobRecords /\ q.pc = "join" /\ q.take = t /\ q.was = (job[j].pc = "call")
      BY <1>2 DEF JobRecords
    <2>2. job' = [job EXCEPT ![j] = q]
      BY <1>4
    <2> HIDE DEF q
    <2>3. j = Deadline => Served'
      BY <1>1, <1>2, <1>4, <2>1, <2>2, WorkerMoves DEF Watching
    <2>4. QED BY <1>1, <1>2, <1>4, <2>1, <2>2, <2>3, JobMoves
  <1>5. CASE /\ old.result = "none" /\ ~old.running
             /\ job' = [job EXCEPT ![j].pc = "run"]
             /\ take' = [take EXCEPT ![t] = [take[t] EXCEPT
                           !.running = TRUE,
                           !.blocked = IF s = "revoked" THEN @ ELSE s = "suspended",
                           !.deadline = IF s = "revoked" THEN "none" ELSE @]]
             /\ run' = [NoRun EXCEPT
                           !.by = j, !.point = "status", !.due = take[t].deadline = "due",
                           !.pc = CASE s = "ready" -> "status"
                                    [] s = "suspended" -> "parked"
                                    [] s = "revoked" -> "refused"]
    <2> DEFINE tk == [old EXCEPT !.running = TRUE,
                                 !.blocked = IF s = "revoked" THEN @ ELSE s = "suspended",
                                 !.deadline = IF s = "revoked" THEN "none" ELSE @]
               pc == CASE s = "ready" -> "status" [] s = "suspended" -> "parked"
                       [] s = "revoked" -> "refused"
               r == [NoRun EXCEPT !.by = j, !.point = "status", !.due = old.deadline = "due", !.pc = pc]
               q == [job[j] EXCEPT !.pc = "run"]
    <2>1. old \in TakeRecords /\ t = current /\ t # 0 /\ t = made /\ run.pc = "none"
      BY <1>2, <1>5, Ids DEF IInv, TypeOK, OneRun, Lived
    <2>2. /\ tk \in TakeRecords /\ tk.running /\ tk.epoch = old.epoch /\ tk.startOp = old.startOp
          /\ tk.startFrame = old.startFrame /\ tk.result = old.result /\ tk.frame = old.frame
          /\ tk.uncertain = old.uncertain /\ tk.fired = old.fired
          /\ tk.deadline \in {old.deadline, "none"}
      BY <2>1 DEF TakeRecords
    <2>3. pc \in {"status", "parked", "refused"}
      BY DEF Status
    <2>4. /\ r \in RunRecords /\ r.pc = pc /\ r.by = j /\ r.point = "status"
          /\ r.due = (old.deadline = "due") /\ r.seen = "none" /\ r.inactive = FALSE
      BY <2>3 DEF NoRun, RunRecords
    <2>5. q \in JobRecords /\ q.pc = "run" /\ q.take = t
      BY <1>2 DEF JobRecords
    <2>6. job' = [job EXCEPT ![j] = q] /\ take' = [take EXCEPT ![t] = tk] /\ run' = r
      <3>1. job' = [job EXCEPT ![j] = q]
        BY <1>5
      <3>2. take' = [take EXCEPT ![t] = tk]
        BY <1>5
      <3>3. run' = r
        BY <1>5
      <3>4. QED BY <3>1, <3>2, <3>3
    <2> HIDE DEF tk, r, q, pc, s
    <2>7. /\ job' \in [Jobs -> JobRecords] /\ job'[j] = q
          /\ \A i \in Jobs : i # j => job'[i] = job[i]
      BY <2>5, <2>6 DEF IInv, TypeOK
    <2>8. /\ take' \in [TakeIds -> TakeRecords] /\ take'[t] = tk
          /\ \A u \in TakeIds : u # t => take'[u] = take[u]
      BY <1>2, <2>2, <2>6, TakeUpdate DEF IInv, TypeOK
    <2>9. \A i \in Jobs : job'[i].take = job[i].take /\ (job'[i].pc = "idle" <=> job[i].pc = "idle")
      BY <1>1, <2>5, <2>7
    <2>10. TypeOK'
      <3>1. OneRun'
        BY <1>1, <2>1, <2>2, <2>3, <2>4, <2>5, <2>6, <2>7, <2>8 DEF IInv, TypeOK, OneRun
      <3>2. QED BY <1>1, <2>4, <2>6, <2>7, <2>8, <3>1 DEF IInv, TypeOK
    <2>11. Reserved'
      <3>1. ~Before /\ ~Asked
        BY <2>1 DEF IInv, Reserved
      <3>2. ~Before' /\ ~Asked' /\ start.pc # "dispatch" /\ (SetUp' => SetUp)
        BY <1>1, <3>1 DEF Before, Asked, SetUp
      <3>3. SetUp => job'[Owner(made)].pc = "idle"
        BY <1>2, <2>1, <2>9, Names DEF IInv, Reserved
      <3>4. QED BY <1>1, <2>1, <3>2, <3>3 DEF IInv, Reserved
    <2>12. Lived'
      BY <1>1, <1>2, <2>1, <2>2, <2>3, <2>4, <2>6, <2>8, <2>9, Names, Ids DEF IInv, Lived
    <2>13. Employed'
      BY <1>1, <2>1, <2>2, <2>8, <2>9, Names, Ids DEF IInv, Employed
    <2>14. Framed'
      BY <1>1, <1>2, <2>1, <2>2, <2>3, <2>4, <2>6, <2>8 DEF IInv, Framed
    <2>15. Marked' /\ Witnessed'
      BY <1>1, <2>3, <2>4, <2>6 DEF IInv, Marked, Witnessed, Shown
    <2>16. Traced'
      <3>1. Lineage' = t /\ Lineage = t
        BY <1>1, <2>1 DEF Lineage
      <3>2. QED BY <1>1, <2>2, <2>8, <3>1 DEF IInv, Traced
    <2>17. Served'
      <3>1. job[Deadline].pc # "idle" => job[Deadline].take \in TakeIds
        BY Ids, Names DEF IInv, Employed
      <3>2. \A u \in TakeIds : take'[u].fired = take[u].fired /\ take'[u].deadline \in {take[u].deadline, "none"}
        BY <2>2, <2>8
      <3>3. job'[Deadline].pc # "idle" => take'[job'[Deadline].take].deadline # "armed"
        BY <2>9, <3>1, <3>2, Names DEF IInv, Served
      <3>4. run'.by = Deadline /\ ~run'.due => take'[current].deadline = "none"
        <4>1. j = Deadline => old.deadline # "armed"
          BY <1>1 DEF IInv, Served
        <4>2. old.deadline \in {"none", "armed", "due"}
          BY <2>1 DEF TakeRecords
        <4>3. QED BY <1>2, <2>1, <2>4, <2>6, <3>2, <4>1, <4>2
      <3>5. take'[current].running
            /\ (take'[current].deadline = "due" => run'.due)
        BY <1>2, <2>1, <2>2, <2>4, <2>6, <2>8
      <3>6. \A u \in TakeIds : take'[u].fired => take'[u].deadline # "armed"
        BY <3>2 DEF IInv, Served
      <3>7. QED BY <1>1, <3>3, <3>4, <3>5, <3>6 DEF Served
    <2>18. QED
      BY <2>10, <2>11, <2>12, <2>13, <2>14, <2>15, <2>16, <2>17 DEF IInv
  <1>6. QED BY <1>3, <1>4, <1>5 DEF Call, MustJoin

\* A waiting caller sees the end of the attempt it joined.
LEMMA JoinedStep ==
  ASSUME IInv, NEW j \in Jobs, Joined(j)
  PROVE  IInv'
  <1> DEFINE t == job[j].take
             q == Returned(j, t, take[t], current # t)
  <1>1. /\ job[j].pc = "join" /\ (take[t].result # "none" \/ ~take[t].running)
        /\ job' = [job EXCEPT ![j] = q]
        /\ UNCHANGED <<rec, wire, feed, alive, foreign, impact, start, current, made, take, cont,
                       run, slot, lease, sup, report, completed, faults>>
    BY DEF Joined, StopFrame, obsVars, supVars
  <1>2. /\ t \in 1..made /\ t \in TakeIds /\ job[j] \in JobRecords
        /\ t = current <=> take[t].result = "none"
        /\ sup \in {"final", "closed"} => start.pc = "idle"
        /\ report = "confirmed" => sup = "closed" /\ completed = "confirmed"
        /\ sup \in {"open", "closing", "final", "closed"}
        /\ report \in {"none", "confirmed", "unconfirmed"}
        /\ j = Deadline => slot # 0
    BY <1>1, Working
  <1>3. /\ q \in JobRecords /\ q.pc \in {"idle", "again"}
        /\ q.pc = "again" => q.take = t
        /\ j = Deadline /\ t = current /\ job[j].was => q.pc = "again" \/ take[t].blocked
    <2>1. IdleJob \in JobRecords /\ IdleJob.pc = "idle"
      BY TakesAssumption DEF IdleJob, JobRecords
    <2> DEFINE again == [job[j] EXCEPT !.pc = "again", !.was = FALSE]
    <2>2. again \in JobRecords /\ again.pc = "again" /\ again.take = t
      BY <1>2 DEF JobRecords
    <2>3. q = IF j = Deadline /\ job[j].was /\ t = current /\ ~take[t].blocked THEN again ELSE IdleJob
      BY DEF Returned
    <2> HIDE DEF again, q
    <2>4. QED BY <2>1, <2>2, <2>3
  <1> HIDE DEF q
  <1>4. j = Deadline => Served'
    BY <1>1, <1>2, <1>3, WorkerMoves DEF Watching
  <1>5. QED BY <1>1, <1>2, <1>3, <1>4, JobMoves

\* A Stop command, the end of a clip, and the joining of all jobs.
LEMMA CommandSteps ==
  ASSUME IInv,
         \/ \E j \in ToolJobs : StopCommand(j)
         \/ \E t \in TakeIds : ClipEnds(t)
         \/ JobsJoined
  PROVE  IInv'
  <1>1. /\ sup \in {"final", "closed"} => start.pc = "idle"
        /\ report = "confirmed" => sup = "closed" /\ completed = "confirmed"
        /\ sup \in {"open", "closing", "final", "closed"}
        /\ report \in {"none", "confirmed", "unconfirmed"}
    BY DEF IInv, TypeOK, Reserved, Lived
  <1> DEFINE new == [IdleJob EXCEPT !.pc = "call", !.take = current]
  <1>2. current # 0 =>
          new \in JobRecords /\ new.pc = "call" /\ new.take = current /\ current \in 1..made
    <2>1. current # 0 => current \in TakeIds /\ current \in 0..MaxTakes /\ current = made
      BY Ids DEF IInv, TypeOK, Lived
    <2>2. current # 0 => current \in 1..made
      BY <2>1, Ids
    <2>3. QED BY <2>1, <2>2 DEF IdleJob, JobRecords
  <1> HIDE DEF new
  <1>3. ASSUME NEW j \in ToolJobs, StopCommand(j)
        PROVE  IInv'
    <2>1. /\ sup = "open" /\ current # 0 /\ job[j].pc = "idle" /\ job' = [job EXCEPT ![j] = new]
          /\ UNCHANGED <<rec, wire, feed, alive, foreign, impact, start, current, made, take, cont,
                         run, slot, lease, sup, report, completed, faults>>
      BY <1>3 DEF StopCommand, new, obsVars, takeVars, supVars
    <2>2. j \in Jobs /\ j # Deadline /\ \A u \in TakeIds : j # Owner(u)
      BY Names
    <2>3. QED BY <1>1, <1>2, <2>1, <2>2, JobMoves
  <1>4. ASSUME NEW t \in TakeIds, ClipEnds(t)
        PROVE  IInv'
    <2> DEFINE j == Owner(t)
               q == [job[j] EXCEPT !.pc = "call"]
    <2>1. /\ job[j].pc = "clip" /\ job' = [job EXCEPT ![j] = q]
          /\ UNCHANGED <<rec, wire, feed, alive, foreign, impact, start, current, made, take, cont,
                         run, slot, lease, sup, report, completed, faults>>
      BY <1>4 DEF ClipEnds, obsVars, takeVars, supVars
    <2>2. j \in Jobs /\ j # Deadline
      BY Names
    <2>3. /\ job[j].take \in 1..made /\ job[j] \in JobRecords
          /\ job[j].take = current \/ take[job[j].take].result # "none"
      BY <2>1, <2>2, Working
    <2>4. q \in JobRecords /\ q.pc = "call" /\ q.take = job[j].take
      BY <2>3 DEF JobRecords
    <2> HIDE DEF j, q
    <2>5. QED BY <1>1, <2>1, <2>2, <2>3, <2>4, JobMoves
  <1>5. ASSUME JobsJoined
        PROVE  IInv'
    <2>1. /\ start.pc = "idle" /\ \A j \in Jobs : job[j].pc = "idle"
          /\ UNCHANGED <<rec, wire, feed, alive, foreign, impact, start, current, made, take, cont,
                         run, slot, lease, completed, faults>>
      BY <1>5 DEF JobsJoined, obsVars, takeVars
    <2>2. Final \in Jobs /\ Final # Deadline /\ \A u \in TakeIds : Final # Owner(u)
      BY Names
    <2>3. CASE current # 0
      <3>1. sup = "closing" /\ sup' = "final" /\ report' = report /\ job' = [job EXCEPT ![Final] = new]
        BY <1>5, <2>3 DEF JobsJoined, new
      <3>2. QED BY <1>1, <1>2, <2>1, <2>2, <2>3, <3>1, JobMoves
    <2>4. CASE current = 0
      <3>1. sup' = "closed" /\ report' = Reported /\ job' = job
        BY <1>5, <2>4 DEF JobsJoined
      <3>2. job' = [job EXCEPT ![Final] = job[Final]] /\ job[Final] \in JobRecords
        BY <2>2, <3>1 DEF IInv, TypeOK
      <3>3. /\ report' \in {"none", "confirmed", "unconfirmed"}
            /\ report' = "confirmed" => completed = "confirmed"
        BY <3>1 DEF Reported
      <3>4. QED BY <2>1, <2>2, <3>1, <3>2, <3>3, JobMoves
    <2>5. QED BY <2>3, <2>4
  <1>6. QED BY <1>3, <1>4, <1>5

\* Shutdown begins and ends.
LEMMA PhaseSteps ==
  ASSUME IInv, Shutdown \/ Closes
  PROVE  IInv'
  <1>1. /\ sup' \in {"closing", "closed"}
        /\ sup' = "closed" => start.pc = "idle"
        /\ report' \in {"none", "confirmed", "unconfirmed"}
        /\ report' = "confirmed" => sup' = "closed" /\ completed = "confirmed"
    <2>1. CASE Shutdown
      BY <2>1 DEF Shutdown, IInv, TypeOK, Lived
    <2>2. CASE Closes
      BY <2>2 DEF Closes, Reported, IInv, Reserved
    <2>3. QED BY <2>1, <2>2
  <1>2. UNCHANGED <<rec, wire, feed, alive, foreign, impact, start, current, made, take, cont, job,
                    run, slot, lease, completed, faults>>
    BY DEF Shutdown, Closes, obsVars, takeVars, jobVars
  <1>3. TypeOK'
    <2>1. OneRun'
      BY <1>2 DEF IInv, TypeOK, OneRun
    <2>2. QED BY <1>1, <1>2, <2>1 DEF IInv, TypeOK
  <1>4. Reserved'
    BY <1>1, <1>2 DEF IInv, Reserved, Before, Asked, SetUp
  <1>5. Lived' /\ Employed' /\ Framed' /\ Marked'
    BY <1>1, <1>2 DEF IInv, Lived, Employed, Framed, Marked
  <1>6. Witnessed' /\ Traced'
    BY <1>2 DEF IInv, Witnessed, Shown, Traced, Lineage
  <1>7. Served'
    BY <1>2 DEF IInv, Served, Watching, Spared, Lost, Status
  <1>8. QED BY <1>3, <1>4, <1>5, <1>6, <1>7 DEF IInv

\* The clock and the actor's loop change the current take's deadline, and may
\* give the deadline worker its task.
LEMMA TakeTurns ==
  ASSUME IInv, current # 0, NEW tk \in TakeRecords, take' = [take EXCEPT ![current] = tk],
         tk.epoch = take[current].epoch, tk.startOp = take[current].startOp,
         tk.startFrame = take[current].startFrame, tk.result = take[current].result,
         tk.frame = take[current].frame, tk.uncertain = take[current].uncertain,
         tk.running = take[current].running,
         job' \in [Jobs -> JobRecords],
         \A i \in Jobs : i # Deadline => job'[i] = job[i],
         \/ job'[Deadline] = job[Deadline]
         \/ /\ job'[Deadline].pc = "call" /\ job'[Deadline].take = current
            /\ job[Deadline].pc = "idle",
         slot' \in 0..MaxTakes, slot' = 0 => job'[Deadline].pc = "idle",
         Served',
         UNCHANGED <<rec, wire, feed, alive, foreign, impact, start, current, made, cont, run, lease,
                     sup, report, completed, faults>>
  PROVE  IInv'
  <1>1. current \in TakeIds /\ current = made /\ current \in 1..made
    BY Ids DEF IInv, Lived
  <1>2. /\ take' \in [TakeIds -> TakeRecords] /\ take'[current] = tk
        /\ \A u \in TakeIds : u # current => take'[u] = take[u]
    BY <1>1, TakeUpdate DEF IInv, TypeOK
  <1>3. \A u \in TakeIds :
          /\ take'[u].startOp = take[u].startOp /\ take'[u].startFrame = take[u].startFrame
          /\ take'[u].result = take[u].result /\ take'[u].frame = take[u].frame
          /\ take'[u].uncertain = take[u].uncertain /\ take'[u].running = take[u].running
    BY <1>2
  <1>4. \A u \in TakeIds : Owner(u) \in Jobs /\ job'[Owner(u)] = job[Owner(u)]
    BY Names
  <1>5. TypeOK'
    <2>1. OneRun'
      <3>1. run.pc # "none" => /\ run.by \in Jobs /\ job[run.by].pc = "run" /\ job[run.by].take = current
                               /\ take[current].running
        BY DEF IInv, TypeOK, OneRun, RunRecords
      <3>2. run.pc # "none" => job'[run.by] = job[run.by]
        BY <3>1
      <3>3. \A i \in Jobs : job'[i].pc = "run" => job[i].pc = "run"
        OBVIOUS
      <3>4. QED BY <1>1, <1>3, <3>1, <3>2, <3>3 DEF IInv, TypeOK, OneRun
    <2>2. QED BY <1>2, <2>1 DEF IInv, TypeOK
  <1>6. Reserved'
    <2>1. ~Before /\ ~Asked
      BY DEF IInv, Reserved
    <2>2. ~Before' /\ ~Asked' /\ start.pc # "dispatch" /\ (SetUp' => SetUp)
      BY <2>1 DEF Before, Asked, SetUp
    <2>3. QED BY <1>1, <1>3, <1>4, <2>2 DEF IInv, Reserved
  <1>7. Lived'
    <2>1. \A u \in TakeIds : u > made => u # current
      BY <1>1, Ids
    <2>2. QED BY <1>1, <1>2, <1>3, <1>4, <2>1, Ids DEF IInv, Lived
  <1>8. Employed'
    BY <1>1, <1>3, Names, Ids DEF IInv, Employed
  <1>9. Framed' /\ Marked'
    BY <1>1, <1>3 DEF IInv, Framed, Marked
  <1>10. Witnessed'
    BY DEF IInv, Witnessed, Shown
  <1>11. Traced'
    BY <1>1, <1>3 DEF IInv, Traced, Lineage
  <1>12. QED BY <1>5, <1>6, <1>7, <1>8, <1>9, <1>10, <1>11 DEF IInv

\* The deadline comes due.
LEMMA DeadlinePassesStep ==
  ASSUME IInv, DeadlinePasses
  PROVE  IInv'
  <1> DEFINE old == take[current]
             tk == [old EXCEPT !.deadline = "due"]
  <1>1. /\ current # 0 /\ old.deadline = "armed" /\ take' = [take EXCEPT ![current] = tk]
        /\ UNCHANGED <<rec, wire, feed, alive, foreign, impact, start, current, made, cont, job, run,
                       slot, lease, sup, report, completed, faults>>
    BY DEF DeadlinePasses, obsVars, jobVars, supVars
  <1>2. current \in TakeIds /\ old \in TakeRecords
    BY <1>1, Ids DEF IInv, TypeOK
  <1>3. /\ tk \in TakeRecords /\ tk.deadline = "due" /\ tk.fired = old.fired
        /\ tk.epoch = old.epoch /\ tk.startOp = old.startOp /\ tk.startFrame = old.startFrame
        /\ tk.result = old.result /\ tk.frame = old.frame /\ tk.uncertain = old.uncertain
        /\ tk.running = old.running
    BY <1>2 DEF TakeRecords
  <1> HIDE DEF tk, old
  <1>4. /\ take'[current] = tk
        /\ \A u \in TakeIds : u # current => take'[u] = take[u]
    BY <1>1, <1>2, <1>3, TakeUpdate DEF IInv, TypeOK
  <1>5. Served'
    <2>1. ~old.fired
      BY <1>1, <1>2 DEF IInv, Served, old
    <2>2. ~(run.pc # "none" /\ run.by = Deadline /\ ~run.due)
      BY <1>1 DEF IInv, Served, old
    <2>3. job[Deadline].pc # "idle" => job[Deadline].take \in TakeIds
      BY Ids, Names DEF IInv, Employed
    <2>4. QED BY <1>1, <1>2, <1>3, <1>4, <2>1, <2>2, <2>3 DEF IInv, Served
  <1>6. job \in [Jobs -> JobRecords] /\ slot \in 0..MaxTakes /\ (slot = 0 => job[Deadline].pc = "idle")
    BY DEF IInv, TypeOK, Employed
  <1>7. QED BY <1>1, <1>3, <1>5, <1>6, TakeTurns DEF old

\* One turn of the actor's loop.
LEMMA TickStep ==
  ASSUME IInv, Tick
  PROVE  IInv'
  <1> DEFINE free == slot = 0 \/ job[Deadline].pc = "idle"
  <1>1. /\ sup = "open"
        /\ UNCHANGED <<rec, wire, feed, alive, foreign, impact, start, current, made, cont, run, lease,
                       sup, report, completed, faults>>
    BY DEF Tick, obsVars, supVars
  <1>2. free => job[Deadline].pc = "idle"
    BY DEF IInv, Employed
  <1>3. CASE current = 0
    <2>1. slot' = (IF free THEN 0 ELSE slot) /\ UNCHANGED <<take, job>>
      BY <1>3 DEF Tick
    <2>2. slot' \in 0..MaxTakes /\ (slot' = 0 => job[Deadline].pc = "idle")
      BY <1>2, <2>1, TakesAssumption DEF IInv, TypeOK
    <2>3. TypeOK'
      <3>1. OneRun'
        BY <1>1, <2>1 DEF IInv, TypeOK, OneRun
      <3>2. QED BY <1>1, <2>1, <2>2, <3>1 DEF IInv, TypeOK
    <2>4. Reserved'
      BY <1>1, <2>1 DEF IInv, Reserved, Before, Asked, SetUp
    <2>5. Lived' /\ Employed' /\ Framed' /\ Marked'
      BY <1>1, <2>1, <2>2 DEF IInv, Lived, Employed, Framed, Marked
    <2>6. Witnessed' /\ Traced'
      BY <1>1, <2>1 DEF IInv, Witnessed, Shown, Traced, Lineage
    <2>7. Served'
      BY <1>1, <2>1 DEF IInv, Served, Watching, Spared, Lost, Status
    <2>8. QED BY <2>3, <2>4, <2>5, <2>6, <2>7 DEF IInv
  <1>4. CASE current # 0
    <2> DEFINE old == take[current]
               rearms == Rearms(old, free)
               tk == [old EXCEPT !.blocked = @ /\ ~rearms /\ Status(old.epoch) # "revoked",
                                 !.fired   = @ /\ ~(rearms /\ old.deadline # "none")]
               fires == Fires(tk, free)
               new == [tk EXCEPT !.fired = @ \/ fires]
               call == [IdleJob EXCEPT !.pc = "call", !.take = current]
    <2>1. /\ take' = [take EXCEPT ![current] = new]
          /\ slot' = IF fires /\ free THEN current ELSE IF free THEN 0 ELSE slot
          /\ job' = IF fires /\ free THEN [job EXCEPT ![Deadline] = call] ELSE job
      BY <1>4 DEF Tick
    <2>2. current \in TakeIds /\ old \in TakeRecords /\ current \in 0..MaxTakes
      BY <1>4, Ids DEF IInv, TypeOK
    <2>3. /\ tk \in TakeRecords /\ tk.deadline = old.deadline
          /\ tk.blocked = (old.blocked /\ ~rearms /\ Status(old.epoch) # "revoked")
          /\ tk.fired = (old.fired /\ ~(rearms /\ old.deadline # "none"))
          /\ tk.epoch = old.epoch /\ tk.startOp = old.startOp /\ tk.startFrame = old.startFrame
          /\ tk.result = old.result /\ tk.frame = old.frame /\ tk.uncertain = old.uncertain
          /\ tk.running = old.running /\ tk.served = old.served
      <3> HIDE DEF rearms
      <3>1. QED BY <2>2 DEF TakeRecords
    <2>4. rearms => old.blocked
      BY DEF Rearms
    <2>5. /\ fires => tk.deadline = "due" /\ free
          /\ fires \in BOOLEAN
      BY DEF Fires
    <2> HIDE DEF tk, rearms, fires
    <2>6. /\ new \in TakeRecords /\ new.deadline = old.deadline
          /\ new.blocked = tk.blocked /\ new.fired = (tk.fired \/ fires)
          /\ new.epoch = old.epoch /\ new.startOp = old.startOp /\ new.startFrame = old.startFrame
          /\ new.result = old.result /\ new.frame = old.frame /\ new.uncertain = old.uncertain
          /\ new.running = old.running /\ new.served = old.served
      BY <2>3, <2>5 DEF TakeRecords
    <2>7. call \in JobRecords /\ call.pc = "call" /\ call.take = current
      BY <2>2 DEF IdleJob, JobRecords
    <2> HIDE DEF new, call, old
    <2>8. /\ take'[current] = new
          /\ \A u \in TakeIds : u # current => take'[u] = take[u]
      BY <2>1, <2>2, <2>6, TakeUpdate DEF IInv, TypeOK
    <2>9. /\ job' \in [Jobs -> JobRecords]
          /\ \A i \in Jobs : i # Deadline => job'[i] = job[i]
          /\ fires => job'[Deadline].pc = "call" /\ job'[Deadline].take = current
                      /\ job[Deadline].pc = "idle"
          /\ ~fires => job'[Deadline] = job[Deadline]
      BY <1>2, <2>1, <2>5, <2>7, Names DEF IInv, TypeOK
    <2>10. slot' \in 0..MaxTakes /\ (slot' = 0 => job'[Deadline].pc = "idle")
      BY <1>2, <1>4, <2>1, <2>2, <2>9, TakesAssumption DEF IInv, TypeOK
    <2>11. Served'
      <3>1. \A u \in TakeIds : take'[u].fired => take'[u].deadline # "armed"
        BY <2>2, <2>3, <2>5, <2>6, <2>8 DEF IInv, Served, old
      <3>2. job[Deadline].pc # "idle" => job[Deadline].take \in TakeIds
        BY Ids, Names DEF IInv, Employed
      <3>3. job'[Deadline].pc # "idle" => take'[job'[Deadline].take].deadline # "armed"
        <4>1. CASE fires
          BY <4>1, <2>3, <2>5, <2>6, <2>8, <2>9
        <4>2. CASE ~fires
          BY <4>2, <2>6, <2>8, <2>9, <3>2 DEF IInv, Served, old
        <4>3. QED BY <4>1, <4>2
      <3>4. run.pc # "none" /\ run.by = Deadline /\ ~run.due => new.deadline = "none"
        BY <2>6 DEF IInv, Served, old
      <3>5. ASSUME new.deadline = "due", new.fired
            PROVE  /\ new.running /\ ~run.due => Watching(current)'
                   /\ ~new.running =>
                         \/ Watching(current)'
                         \/ job'[Deadline].take = current /\ job'[Deadline].pc = "again"
                         \/ Spared(new) \/ Lost(current)'
        <4>1. CASE fires
          BY <4>1, <1>1, <2>9 DEF Watching
        <4>2. CASE ~fires
          <5>1. old.fired /\ old.deadline = "due" /\ ~rearms
            BY <4>2, <3>5, <2>3, <2>6
          <5>2. /\ old.running /\ ~run.due => Watching(current)
                /\ ~old.running =>
                      \/ Watching(current)
                      \/ job[Deadline].take = current /\ job[Deadline].pc = "again"
                      \/ Spared(old) \/ Lost(current)
            BY <5>1, <1>4 DEF IInv, Served, old
          <5>3. Watching(current) => Watching(current)'
            BY <4>2, <1>1, <2>9 DEF Watching
          <5>4. Lost(current) => Lost(current)'
            BY <1>1, <2>6, <2>8 DEF Lost, Status, old
          <5>5. Spared(old) => Spared(new) \/ Lost(current)'
            <6>1. Status(old.epoch) = "revoked" => Lost(current)'
              BY <1>1, <2>6, <2>8 DEF Lost, Status
            <6>2. QED BY <5>1, <6>1, <2>3, <2>6 DEF Spared
          <5>6. QED BY <4>2, <5>2, <5>3, <5>4, <5>5, <2>6, <2>9
        <4>3. QED BY <4>1, <4>2
      <3>6. QED BY <1>1, <2>8, <3>1, <3>3, <3>4, <3>5 DEF Served
    <2>12. QED BY <1>1, <1>4, <2>1, <2>6, <2>9, <2>10, <2>11, TakeTurns DEF old
  <1>5. QED BY <1>3, <1>4

-----------------------------------------------------------------------------
(* The theorems.                                                           *)

\* The supervisor starts in a state of the invariant.
LEMMA InitKeeps == Init => IInv
  <1> SUFFICES ASSUME Init
               PROVE  IInv
    OBVIOUS
  <1>1. /\ rec = 0 /\ wire = <<>> /\ feed = <<>> /\ alive = TRUE /\ foreign = 0
        /\ start = NoStart /\ current = 0 /\ made = 0 /\ slot = 0 /\ lease = 0 /\ sup = "open"
        /\ completed = "none" /\ report = "none" /\ faults = 0
        /\ run = NoRun
    BY DEF Init
  <1>2. 0 \in 0..MaxTakes /\ 0 \in 0..MaxTrouble /\ 0 \in 0..Foreign
        /\ \A t \in TakeIds : t \in Int /\ t > 0 /\ t # 0
    BY TakesAssumption DEF Foreign, TakeIds
  <1>3. NoStart \in StartRecords /\ NoStart.pc = "idle" /\ NoStart.take = 0
    BY <1>2 DEF NoStart, StartRecords, AllOptions
  <1>4. NoRun \in RunRecords /\ NoRun.pc = "none"
    BY Names DEF NoRun, RunRecords
  <1>5. impact \in ImpactRecords /\ Marked
    BY <1>2 DEF Init, ImpactRecords, Marked
  <1>6. /\ BlankTake \in TakeRecords /\ BlankTake.result = "none" /\ BlankTake.startOp = "none"
        /\ BlankTake.frame = "none" /\ BlankTake.fired = FALSE
    BY <1>2 DEF BlankTake, NoReceipt, TakeRecords, Receipts
  <1>7. FreshCont \in Continuities
    BY DEF FreshCont, Continuities
  <1>8. IdleJob \in JobRecords /\ IdleJob.pc = "idle"
    BY <1>2 DEF IdleJob, JobRecords
  <1>9. /\ take \in [TakeIds -> TakeRecords] /\ \A t \in TakeIds : take[t] = BlankTake
        /\ cont \in [TakeIds -> Continuities]
        /\ job \in [Jobs -> JobRecords] /\ \A j \in Jobs : job[j].pc = "idle"
    BY <1>6, <1>7, <1>8 DEF Init
  <1>10. wire \in Seq(Events) /\ feed \in Seq(FeedEvents)
    BY <1>1
  <1>11. TypeOK
    BY <1>1, <1>2, <1>3, <1>4, <1>5, <1>9, <1>10 DEF TypeOK, OneRun
  <1>12. Reserved
    BY <1>1, <1>3 DEF Reserved, Before, Asked, SetUp
  <1>13. Lived
    BY <1>1, <1>2, <1>6, <1>9, Names DEF Lived
  <1>14. Employed /\ Framed /\ Witnessed
    BY <1>1, <1>4, <1>6, <1>9, Names DEF Employed, Framed, Witnessed
  <1>15. Traced
    BY <1>1, <1>3 DEF Traced, Lineage
  <1>16. Served
    BY <1>1, <1>4, <1>6, <1>9, Names DEF Served
  <1>17. QED BY <1>5, <1>11, <1>12, <1>13, <1>14, <1>15, <1>16 DEF IInv

\* A step that changes nothing.
LEMMA StutterKeeps ==
  ASSUME IInv, UNCHANGED vars
  PROVE  IInv'
  <1>1. UNCHANGED <<rec, wire, feed, alive, foreign, impact, start, current, made, take, cont, job,
                    run, slot, lease, sup, report, completed, faults>>
    BY DEF vars, obsVars, takeVars, jobVars, supVars
  <1>2. TypeOK'
    BY <1>1 DEF IInv, TypeOK, OneRun
  <1>3. Reserved'
    BY <1>1 DEF IInv, Reserved, Before, Asked, SetUp
  <1>4. Lived' /\ Employed' /\ Framed' /\ Marked'
    BY <1>1 DEF IInv, Lived, Employed, Framed, Marked
  <1>5. Witnessed' /\ Traced'
    BY <1>1 DEF IInv, Witnessed, Shown, Traced, Lineage
  <1>6. Served'
    BY <1>1 DEF IInv, Served, Watching, Spared, Lost, Status
  <1>7. QED BY <1>2, <1>3, <1>4, <1>5, <1>6 DEF IInv

\* Every step keeps the invariant.
LEMMA NextKeeps ==
  ASSUME IInv, [Next]_vars
  PROVE  IInv'
  <1>1. CASE OperatorStarts \/ RecordingEnds \/ Receive \/ Disconnect \/ ObsAnswersStatus
    BY <1>1, OperatorStartsStep, RecordingEndsStep, ReceiveStep, DisconnectStep,
       ObsAnswersStatusStep
  <1>2. CASE \E t \in TakeIds : ObsHandlesStart(t) \/ ObsHandlesStop(t) \/ ClipEnds(t)
    BY <1>2, ObsHandlesStartStep, ObsHandlesStopStep, CommandSteps
  <1>3. CASE ManualBegins \/ \E fate \in Fates : ManualSettles(fate)
    BY <1>3, ManualBeginsStep, ManualSettlesStep
  <1>4. CASE Observe
    BY <1>4, ObserveStep
  <1>5. CASE \E opt \in Options, epoch \in 0..MaxTrouble : StartCommand(opt, epoch)
    BY <1>5, StartCommandStep
  <1>6. CASE StartStep
    BY <1>6, StartStepKeeps
  <1>7. CASE JobsJoined \/ \E j \in ToolJobs : StopCommand(j)
    BY <1>7, CommandSteps
  <1>8. CASE \E j \in Jobs : Call(j) \/ Joined(j)
    BY <1>8, CallStep, JoinedStep
  <1>9. CASE RunStep
    BY <1>9, RunStepKeeps
  <1>10. CASE DeadlinePasses \/ Tick \/ Shutdown \/ Closes
    BY <1>10, DeadlinePassesStep, TickStep, PhaseSteps
  <1>11. CASE UNCHANGED vars
    BY <1>11, StutterKeeps
  <1>12. QED
    BY <1>1, <1>2, <1>3, <1>4, <1>5, <1>6, <1>7, <1>8, <1>9, <1>10, <1>11 DEF Next

\* The invariant holds in every state the supervisor reaches.
THEOREM Invariance == Spec => []IInv
  <1>1. IInv /\ [Next]_vars => IInv'
    BY NextKeeps
  <1>2. QED BY InitKeeps, <1>1, PTL DEF Spec

\* The state keeps its shape, and there is at most one stop_once, on behalf of
\* a task in stop_take and for the current take (takes.rs, stop_take).
THEOREM TypeCorrect == Spec => []TypeOK
  <1>1. IInv => TypeOK
    BY DEF IInv
  <1>2. QED BY Invariance, <1>1, PTL

\* A take reported as stopped, and a shutdown receipt that confirms a stop,
\* are right (stop_once, the tail of actor).
THEOREM StoppedIsTrue == Spec => []ConfirmedMeansStopped
  <1>1. IInv => ConfirmedMeansStopped
    <2> SUFFICES ASSUME IInv
                 PROVE  ConfirmedMeansStopped
      OBVIOUS
    <2>1. \A t \in TakeIds : take[t].result # "none" => rec # t
      BY DEF IInv, Lived
    <2>2. ASSUME report = "confirmed", rec \in TakeIds
          PROVE  FALSE
      <3>1. made # 0 /\ take[made].result # "none" /\ made \in TakeIds
        BY <2>2, Ids DEF IInv, Lived
      <3>2. take[rec].startFrame = "ok"
        BY <2>2 DEF IInv, Lived
      <3>3. ~(rec > made)
        BY <2>2, <3>2 DEF IInv, Lived, BlankTake
      <3>4. rec = made \/ take[rec].result # "none"
        BY <2>2, <3>1, <3>3, Ids DEF IInv, Lived
      <3>5. QED BY <2>1, <2>2, <3>1, <3>4
    <2>3. QED BY <2>1, <2>2 DEF ConfirmedMeansStopped
  <1>2. QED BY Invariance, <1>1, PTL

\* A due deadline that counts as fired is never spent for nothing
\* (reserve_deadline_job, job_completed, deadline_stop).
THEOREM DeadlineKept == Spec => []NoDeadlineIsForgotten
  <1>1. IInv => NoDeadlineIsForgotten
    BY Ids, Names DEF IInv, TypeOK, RunRecords, TakeRecords, Served, Watching, Spared,
       NoDeadlineIsForgotten
  <1>2. QED BY Invariance, <1>1, PTL

\* A step of anybody but stop_once's sending puts no Stop frame out.
Quiet == \A u \in TakeIds : take'[u].frame \in {take[u].frame, "none", "ok", "rejected"}

\* The steps of a start send no Stop.
LEMMA StartIsQuiet ==
  ASSUME IInv, take \in [TakeIds -> TakeRecords], StartStep
  PROVE  Quiet
  <1>1. ASSUME NEW t, NEW tk, take' = [take EXCEPT ![t] = tk],
               t \in TakeIds => tk.frame \in {take[t].frame, "none"}
        PROVE  Quiet
    BY <1>1 DEF Quiet
  <1>2. UNCHANGED take => Quiet
    BY DEF Quiet
  <1>3. ASSUME NEW t, NEW op, take' = [take EXCEPT ![t].startOp = op]
        PROVE  Quiet
    BY <1>3 DEF Quiet, TakeRecords
  <1>4. ASSUME NEW t, NEW f, take' = [take EXCEPT ![t].startFrame = f]
        PROVE  Quiet
    BY <1>4 DEF Quiet, TakeRecords
  <1>5. ASSUME Intent
        PROVE  Quiet
    <2>1. CASE UNCHANGED take
      BY <2>1, <1>2
    <2>2. CASE take' = [take EXCEPT ![made + 1] =
                          [BlankTake EXCEPT !.epoch = start.epoch, !.startOp = "dispatching"]]
      <3>1. [BlankTake EXCEPT !.epoch = start.epoch, !.startOp = "dispatching"].frame = "none"
        BY DEF BlankTake
      <3>2. QED BY <2>2, <3>1, <1>1
    <2>3. QED BY <1>5, <2>1, <2>2 DEF Intent, takeVars
  <1>6. ASSUME NEW ready, Confirmed(ready)
        PROVE  Quiet
    <2>1. PICK op, d : take' = [take EXCEPT ![start.take] = [take[start.take] EXCEPT
                          !.startOp = op, !.deadline = d, !.setupPending = ready]]
      BY <1>6, Zenon DEF Confirmed
    <2>2. start.take \in TakeIds =>
            [take[start.take] EXCEPT !.startOp = op, !.deadline = d, !.setupPending = ready].frame
            = take[start.take].frame
      BY DEF TakeRecords
    <2>3. QED BY <1>1, <2>1, <2>2
  <1>7. ASSUME NEW ok, Monitored(ok)
        PROVE  Quiet
    <2>1. take' = [take EXCEPT ![start.take] = [@ EXCEPT !.setupPending = FALSE]]
      BY <1>7 DEF Monitored, SetupOver
    <2>2. start.take \in TakeIds =>
            [take[start.take] EXCEPT !.setupPending = FALSE].frame = take[start.take].frame
      BY DEF TakeRecords
    <2>3. QED BY <1>1, <2>1, <2>2
  <1>8. ASSUME NEW p \in {"intent", "confirmed", "monitor"}, NEW ready, NEW ok, StartPass(p, ready, ok)
        PROVE  Quiet
    BY <1>8, <1>2, <1>5, <1>6, <1>7 DEF StartPass, takeVars
  <1>9. ASSUME NEW p \in {"intent", "confirmed", "monitor"}, NEW ok, StartGate(p, ok)
        PROVE  Quiet
    BY <1>9, <1>2, <1>8 DEF StartGate, takeVars
  <1>10. CASE Preflighted
    BY <1>10, <1>2, <1>9 DEF Preflighted, takeVars
  <1>11. CASE StartWakes
    <2>1. start.point \in {"intent", "confirmed", "monitor"}
      BY <1>11 DEF StartWakes, IInv, Reserved, TypeOK, StartRecords
    <2>2. \E ready \in BOOLEAN : StartPass(start.point, ready, start.ok)
      BY <1>11 DEF StartWakes
    <2>3. QED BY <2>1, <2>2, <1>8
  <1>12. CASE StartSends
    BY <1>12, <1>4 DEF StartSends
  <1>13. CASE StartFails
    BY <1>13, <1>2, <1>3 DEF StartFails
  <1>14. CASE StartAccepted
    BY <1>14, <1>2, <1>3 DEF StartAccepted
  <1>15. CASE StartConfirmed \/ SetupDone
    BY <1>15, <1>9 DEF StartConfirmed, SetupDone
  <1>16. CASE ChapterDone \/ CleanupDone
    BY <1>16, <1>2 DEF ChapterDone, CleanupDone, takeVars
  <1>17. QED
    BY <1>10, <1>11, <1>12, <1>13, <1>14, <1>15, <1>16 DEF StartStep

\* Only stop_once puts a Stop frame out, and only past its dispatch guard.
LEMMA OnlyTheGuardSends ==
  ASSUME IInv, [Next]_vars, NEW t \in TakeIds,
         take[t].frame # "out", take'[t].frame = "out"
  PROVE  current = t /\ run.pc = "dispatch" /\ StopGuard(t)
  <1>1. SUFFICES ~Quiet => current = t /\ run.pc = "dispatch" /\ StopGuard(t)
    BY DEF Quiet
  <1>2. UNCHANGED take => Quiet
    BY DEF Quiet
  <1>3. take \in [TakeIds -> TakeRecords]
    BY DEF IInv, TypeOK
  <1>4. CASE \/ OperatorStarts \/ RecordingEnds \/ Receive \/ Disconnect \/ ObsAnswersStatus
             \/ ManualBegins \/ (\E fate \in Fates : ManualSettles(fate))
             \/ (\E opt \in Options, epoch \in 0..MaxTrouble : StartCommand(opt, epoch))
             \/ (\E j \in ToolJobs : StopCommand(j)) \/ (\E u \in TakeIds : ClipEnds(u))
             \/ (\E j \in Jobs : Joined(j)) \/ Shutdown \/ JobsJoined \/ Closes \/ UNCHANGED vars
    <2>1. UNCHANGED take
      BY <1>4 DEF OperatorStarts, RecordingEnds, Receive, Disconnect, ObsAnswersStatus, ManualBegins,
         ManualSettles, StartCommand, StopCommand, ClipEnds, Joined, Shutdown, JobsJoined, Closes,
         takeVars, vars
    <2>2. QED BY <1>2, <2>1
  <1>5. CASE \E u \in TakeIds : ObsHandlesStart(u)
    BY <1>3, <1>5 DEF ObsHandlesStart, Quiet, TakeRecords
  <1>6. CASE \E u \in TakeIds : ObsHandlesStop(u)
    BY <1>3, <1>6 DEF ObsHandlesStop, Quiet, TakeRecords
  <1>7. CASE Observe
    BY <1>3, <1>7 DEF Observe, Quiet, TakeRecords
  <1>8. CASE StartStep
    BY <1>3, <1>8, StartIsQuiet
  <1>9. CASE \E j \in Jobs : Call(j)
    <2>1. PICK j \in Jobs : Call(j)
      BY <1>9
    <2> DEFINE u == job[j].take
               st == Status(take[u].epoch)
               tk == [take[u] EXCEPT !.running = TRUE,
                                     !.blocked = IF st = "revoked" THEN @ ELSE st = "suspended",
                                     !.deadline = IF st = "revoked" THEN "none" ELSE @]
    <2>2. UNCHANGED take \/ take' = [take EXCEPT ![u] = tk]
      BY <2>1 DEF Call
    <2>3. u \in TakeIds => tk.frame = take[u].frame
      BY <1>3 DEF TakeRecords
    <2> HIDE DEF tk
    <2>4. QED BY <1>2, <1>3, <2>2, <2>3 DEF Quiet
  <1>10. CASE DeadlinePasses
    BY <1>3, <1>10 DEF DeadlinePasses, Quiet, TakeRecords
  <1>11. CASE Tick
    <2>1. CASE current = 0
      BY <1>2, <1>11, <2>1 DEF Tick
    <2>2. CASE current # 0
      <3>1. current \in TakeIds
        BY <2>2, Ids
      <3> DEFINE old == take[current]
                 free == slot = 0 \/ job[Deadline].pc = "idle"
                 tk == [old EXCEPT
                          !.blocked = @ /\ ~Rearms(old, free) /\ Status(old.epoch) # "revoked",
                          !.fired   = @ /\ ~(Rearms(old, free) /\ old.deadline # "none")]
                 new == [tk EXCEPT !.fired = @ \/ Fires(tk, free)]
      <3>2. take' = [take EXCEPT ![current] = new]
        BY <1>11, <2>2 DEF Tick
      <3>3. new.frame = old.frame
        BY <1>3, <3>1 DEF TakeRecords
      <3> HIDE DEF new
      <3>4. QED BY <1>3, <3>1, <3>2, <3>3 DEF Quiet
    <2>3. QED BY <2>1, <2>2
  <1>12. CASE RunStep
    <2>1. Effect /\ run.pc # "none" /\ current \in TakeIds /\ take[current] \in TakeRecords
      BY <1>12, RunStepEffect, Running
    <2>2. CASE \E tk \in TakeRecords, r \in RunRecords : Goes(tk, r)
      <3>1. PICK tk \in TakeRecords, r \in RunRecords : Goes(tk, r)
        BY <2>2
      <3>2. take' = [take EXCEPT ![current] = tk]
        BY <3>1 DEF Goes, Continue
      <3>3. take'[t] = IF t = current THEN tk ELSE take[t]
        BY <1>3, <2>1, <3>1, <3>2, TakeUpdate
      <3>4. t = current /\ tk.frame # take[current].frame
        BY <3>3
      <3>5. QED BY <3>1, <3>4 DEF Goes, Calm
    <2>3. CASE \E tk \in TakeRecords, result \in Outcomes, cleared \in BOOLEAN :
                  Ends(tk, result, cleared)
      <3>1. PICK tk \in TakeRecords, result \in Outcomes, cleared \in BOOLEAN :
                  Ends(tk, result, cleared)
        BY <2>3
      <3>2. PICK new : new = [tk EXCEPT !.running = FALSE,
                             !.result = IF cleared THEN result ELSE @,
                             !.served = @ \/ (run.due /\ ~tk.blocked)]
        OBVIOUS
      <3>3. take' = [take EXCEPT ![current] = new]
        BY <3>1, <3>2 DEF Ends, Finish
      <3>4. new.frame = tk.frame /\ tk.frame = take[current].frame
        BY <3>1, <3>2 DEF TakeRecords, Ends
      <3>5. QED BY <1>3, <2>1, <3>3, <3>4
    <2>4. QED BY <2>1, <2>2, <2>3 DEF Effect
  <1>13. QED
    BY <1>4, <1>5, <1>6, <1>7, <1>8, <1>9, <1>10, <1>11, <1>12 DEF Next

\* The owned StopRecord leaves only for the recording the take started (the
\* dispatch guard of takes.rs, observe).
THEOREM StopsItsOwn == Spec => StopsOnlyItsOwnRecording
  <1>1. ASSUME IInv, [Next]_vars, NEW t \in TakeIds,
               take[t].frame # "out", take'[t].frame = "out", wire = <<>>,
               take[t].startFrame # "void"
        PROVE  rec \in {0, t}
    <2>1. current = t /\ StopGuard(t)
      BY <1>1, OnlyTheGuardSends
    <2>2. alive /\ feed = <<>> /\ ~cont[t].stopped
      BY <2>1 DEF StopGuard, Status
    <2>3. t # 0 /\ take[t].startFrame = "ok"
      BY <1>1, <2>1, Ids DEF IInv, Lived, Live
    <2>4. ~Stopped(feed) /\ ~Stopped(wire)
      BY <1>1, <2>2 DEF Stopped
    <2>5. Lineage = t
      BY <2>1, <2>3 DEF Lineage
    <2>6. QED BY <1>1, <2>2, <2>3, <2>4, <2>5 DEF IInv, Traced
  <1>2. IInv /\ [Next]_vars =>
          [\A t \in TakeIds :
             /\ take[t].frame # "out" /\ take'[t].frame = "out"
             /\ wire = <<>> /\ take[t].startFrame # "void"
             => rec \in {0, t}]_vars
    BY <1>1
  <1>3. QED BY Invariance, <1>2, PTL DEF Spec, StopsOnlyItsOwnRecording

\* A StopRecord that may have had an effect is not followed by another for
\* the same take (stop_once, stop_uncertain).
THEOREM NoReplay == Spec => StopIsNeverReplayed
  <1>1. IInv =>
          [\A t \in TakeIds :
             run.pc = "dispatch" /\ run'.pc = "sent" /\ current = t
             => take[t].frame \in {"none", "rejected"}]_vars
    BY DEF IInv, Framed
  <1>2. QED BY Invariance, <1>1, PTL DEF StopIsNeverReplayed

\* A manual StopRecord that may have reached OBS, or is in flight, holds back
\* the owned one (record_impact.rs, the dispatch guard).
THEOREM ManualStopVetoes == Spec => ManualStopVetoesOwnedStop
  <1>1. ASSUME IInv, [Next]_vars, NEW t \in TakeIds,
               take[t].frame # "out", take'[t].frame = "out"
        PROVE  impact.pending = 0 /\ impact.touched <= take[t].epoch
    <2>1. Status(take[t].epoch) = "ready"
      BY <1>1, OnlyTheGuardSends DEF StopGuard
    <2>2. impact.pending = 0 /\ ~(impact.revoked > take[t].epoch)
      BY <2>1 DEF Status
    <2>3. impact.revoked \in Int /\ take[t].epoch \in Int /\ impact.touched = impact.revoked
      BY <1>1 DEF IInv, TypeOK, ImpactRecords, TakeRecords, Marked
    <2>4. QED BY <2>2, <2>3
  <1>2. IInv /\ [Next]_vars =>
          [\A t \in TakeIds :
             take[t].frame # "out" /\ take'[t].frame = "out"
             => impact.pending = 0 /\ impact.touched <= take[t].epoch]_vars
    BY <1>1
  <1>3. QED BY Invariance, <1>2, PTL DEF Spec, ManualStopVetoesOwnedStop
=============================================================================
