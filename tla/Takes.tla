------------------------------- MODULE Takes -------------------------------
(***************************************************************************)
(* The take supervisor (takes.rs): it starts a recording, keeps track of   *)
(* whether the recording OBS is making is still its own, and stops it on   *)
(* request, at a deadline, after a failed setup or at shutdown.            *)
(*                                                                         *)
(* The runtime is single threaded (main.rs), so an action is what one task *)
(* does between two awaits.  Three parties act concurrently with it: OBS   *)
(* and its operator, whose events are first on the wire, then received and *)
(* at last applied by the supervisor; manual StopRecord calls of the same  *)
(* server, which suspend or revoke the take's authority                    *)
(* (record_impact.rs); and the clock.  A timeout may come at any await.    *)
(*                                                                         *)
(* Recordings are named by the take that started them.  Left out: meters   *)
(* and pictures, texts, the file inspection's verdict, Status and Mark     *)
(* (they change no state kept here), and the emergency Drop.               *)
(***************************************************************************)
EXTENDS Naturals, Sequences, FiniteSets, Functions

CONSTANTS MaxTakes,     \* bound: Start intents
          NTools,       \* obs-take-stop calls that may be open at a time
          Options,      \* start options that may be asked for
          Disturbances, \* kinds of disturbance that may happen
          MaxTrouble    \* bound: how many of them, see Trouble

Kinds == {"foreign", "manual", "fault", "gone"}
AllOptions == [timed : BOOLEAN, chapter : BOOLEAN, clip : BOOLEAN]

ASSUME TakesAssumption ==
    /\ MaxTakes \in Nat /\ NTools \in Nat
    /\ Options \subseteq AllOptions
    /\ Disturbances \subseteq Kinds /\ MaxTrouble \in Nat

TakeIds == 1..MaxTakes
Foreign == MaxTakes + 1

\* The tasks that may call stop_take.
ToolJobs == {<<"tool", i>> : i \in 1..NTools}
Owner(t) == <<"owner", t>>      \* the job that started take t
Deadline == <<"deadline", 0>>   \* the deadline worker
Final    == <<"final", 0>>      \* the Stop of shutdown
Jobs == ToolJobs \cup {Owner(t) : t \in TakeIds} \cup {Deadline, Final}

VARIABLES
    rec,        \* the recording OBS is making, 0 for none
    wire,       \* record events on their way to this process
    feed,       \* events received and not yet applied by the supervisor
    alive,      \* the session is connected
    foreign,    \* recordings somebody else has started
    impact,     \* the recording-impact registry
    start,      \* the start reservation and its task
    current,    \* the current take, 0 for none
    made,       \* takes whose Start intent was journalled
    take,       \* the takes
    cont,       \* what the events say about each take's recording
    job,        \* the tasks in stop_take
    run,        \* the one running stop_once
    slot,       \* the take of the deadline worker, 0 when the slot is free
    lease,      \* the take that claimed the control lease, 0 for none
    sup,        \* open, closing, final or closed
    completed,  \* the cached stop result
    report,     \* the shutdown receipt
    faults      \* failed receipt publications

obsVars  == <<rec, wire, feed, alive, foreign>>
takeVars == <<current, made, take, cont>>
jobVars  == <<job, run, slot>>
supVars  == <<sup, report>>
vars == <<obsVars, impact, start, takeVars, jobVars, lease, supVars, completed, faults>>

NoRun     == [pc |-> "none", by |-> Final, point |-> "none", seen |-> "none",
              inactive |-> FALSE, due |-> FALSE]
NoStart   == [pc |-> "idle", take |-> 0, epoch |-> 0, point |-> "none", ok |-> TRUE,
              opt |-> [timed |-> FALSE, chapter |-> FALSE, clip |-> FALSE]]
IdleJob   == [pc |-> "idle", take |-> 0, was |-> FALSE]
FreshCont == [started |-> FALSE, stopped |-> FALSE, lost |-> FALSE]
NoReceipt == [phase |-> "none", acc |-> "null"]
BlankTake == [epoch |-> 0, startOp |-> "none", startFrame |-> "none", stopOp |-> NoReceipt,
              frame |-> "none", uncertain |-> FALSE, running |-> FALSE, result |-> "none",
              blocked |-> FALSE, deadline |-> "none", fired |-> FALSE,
              setupPending |-> FALSE, served |-> FALSE]

Init ==
    /\ rec = 0 /\ wire = <<>> /\ feed = <<>> /\ alive = TRUE /\ foreign = 0
    /\ impact = [last |-> 0, pending |-> 0, revoked |-> 0, touched |-> 0]
    /\ start = NoStart
    /\ current = 0 /\ made = 0
    /\ take = [t \in TakeIds |-> BlankTake]
    /\ cont = [t \in TakeIds |-> FreshCont]
    /\ job = [j \in Jobs |-> IdleJob] /\ run = NoRun /\ slot = 0
    /\ lease = 0 /\ sup = "open" /\ completed = "none" /\ report = "none" /\ faults = 0

\* Recordings started by somebody else, manual Stop attempts, failed
\* publications and the disconnection.
Trouble == foreign + impact.last + faults + (IF alive THEN 0 ELSE 1)
MayDisturb(kind) == kind \in Disturbances /\ Trouble < MaxTrouble

\* A receipt publication succeeds, or fails within the bound.
Publishes(ok) ==
    /\ ok \/ MayDisturb("fault")
    /\ faults' = IF ok THEN faults ELSE faults + 1

-----------------------------------------------------------------------------
(* OBS, its operator and the socket.                                       *)

Emit(e) == wire' = IF alive THEN Append(wire, e) ELSE wire

OperatorStarts ==
    /\ rec = 0 /\ MayDisturb("foreign")
    /\ rec' = Foreign /\ foreign' = foreign + 1 /\ Emit("started")
    /\ UNCHANGED <<feed, alive, impact, start, takeVars, jobVars, lease, supVars, completed, faults>>

\* By hand, by a hotkey, by a manual StopRecord, or because the output fails.
RecordingEnds ==
    /\ rec # 0
    /\ rec' = 0 /\ Emit("stopped")
    /\ UNCHANGED <<feed, alive, foreign, impact, start, takeVars, jobVars, lease, supVars,
                   completed, faults>>

\* OBS refuses, or accepts and starts, or accepts and never becomes active.
ObsHandlesStart(t) ==
    /\ take[t].startFrame = "out"
    /\ \/ /\ rec = 0 /\ rec' = t /\ Emit("started")
          /\ take' = [take EXCEPT ![t].startFrame = "ok"]
       \/ /\ UNCHANGED <<rec, wire>>
          /\ \E answer \in {"void", "rejected"} :
                take' = [take EXCEPT ![t].startFrame = answer]
    /\ UNCHANGED <<feed, alive, foreign, impact, start, current, made, cont, jobVars, lease,
                   supVars, completed, faults>>

ObsHandlesStop(t) ==
    /\ take[t].frame = "out"
    /\ \/ /\ rec # 0 /\ rec' = 0 /\ Emit("stopped")
          /\ take' = [take EXCEPT ![t].frame = "ok"]
       \/ /\ UNCHANGED <<rec, wire>>
          /\ take' = [take EXCEPT ![t].frame = "rejected"]
    /\ UNCHANGED <<feed, alive, foreign, impact, start, current, made, cont, jobVars, lease,
                   supVars, completed, faults>>

\* OBS answers the status request of stop_once.
ObsAnswersStatus ==
    /\ alive /\ run.pc \in {"status", "poll", "refused"} /\ run.seen = "none"
    /\ run' = [run EXCEPT !.seen = IF rec = 0 THEN "inactive" ELSE "active"]
    /\ UNCHANGED <<obsVars, impact, start, takeVars, job, slot, lease, supVars, completed, faults>>

\* The socket reader takes an event in and advances the session's event cursor.
Receive ==
    /\ alive /\ wire # <<>>
    /\ feed' = Append(feed, Head(wire)) /\ wire' = Tail(wire)
    /\ UNCHANGED <<rec, alive, foreign, impact, start, takeVars, jobVars, lease, supVars,
                   completed, faults>>

Disconnect ==
    /\ alive /\ MayDisturb("gone")
    /\ alive' = FALSE /\ wire' = <<>> /\ feed' = Append(feed, "gone")
    /\ UNCHANGED <<rec, foreign, impact, start, takeVars, jobVars, lease, supVars, completed, faults>>

-----------------------------------------------------------------------------
(* The recording-impact registry: one pending manual attempt, an           *)
(* increasing identity and a revocation watermark (record_impact.rs).      *)

\* begin_at_send, the last step of a manual StopRecord's dispatch guard.
ManualBegins ==
    /\ alive /\ impact.pending = 0 /\ MayDisturb("manual")
    /\ impact' = [impact EXCEPT !.last = @ + 1, !.pending = impact.last + 1]
    /\ UNCHANGED <<obsVars, start, takeVars, jobVars, lease, supVars, completed, faults>>

\* settle: an attempt that may have had an effect revokes every older ticket.
Settle(fate) ==
    [impact EXCEPT !.pending = 0,
                   !.revoked = IF fate = "unsent" THEN @ ELSE impact.pending]

\* finish: accepted, refused, of unknown fate (or abandoned), or never sent.
\* touched records, for the properties, what really went out.
ManualSettles(fate) ==
    /\ impact.pending # 0
    /\ impact' = [Settle(fate) EXCEPT !.touched = IF fate = "unsent" THEN @ ELSE impact.pending]
    /\ UNCHANGED <<obsVars, start, takeVars, jobVars, lease, supVars, completed, faults>>

Fates == {"accepted", "rejected", "unknown", "unsent"}

\* TakeImpactTicket::check.
Status(epoch) ==
    IF ~alive \/ impact.revoked > epoch THEN "revoked"
    ELSE IF impact.pending # 0 THEN "suspended" ELSE "ready"

\* apply_impact marks the continuity lost; a revocation is never withdrawn.
Lost(t) == cont[t].lost \/ Status(take[t].epoch) = "revoked"

-----------------------------------------------------------------------------
(* observe: the supervisor applies one event.                              *)

\* Fault seed: a second start is taken for the same recording.
HeardWithoutLineage(c, e) ==
    [started |-> c.started \/ e = "started",
     stopped |-> (c.stopped \/ e = "stopped") /\ e # "started",
     lost    |-> c.lost \/ e = "gone"]

\* What an event says about the recording a lineage of events belongs to.
Heard(c, e) ==
    [started |-> c.started \/ e = "started",
     stopped |-> c.stopped \/ e = "stopped",
     lost    |-> \/ c.lost
                 \/ e = "gone"
                 \/ e = "started" /\ (c.started \/ c.stopped)]

\* The lineage an event belongs to: the current take, else the take being
\* started once its intent is journalled.
Lineage == IF current # 0 THEN current ELSE start.take

Observe ==
    /\ feed # <<>> /\ sup # "closed"
    /\ feed' = Tail(feed)
    /\ cont' = [t \in TakeIds |-> IF t = Lineage THEN Heard(cont[t], Head(feed)) ELSE cont[t]]
    /\ IF Head(feed) = "gone" /\ current # 0
       THEN \E ok \in BOOLEAN :
               /\ Publishes(ok)
               /\ take' = IF ok THEN [take EXCEPT ![current].startOp = "unknown"] ELSE take
       ELSE UNCHANGED <<take, faults>>
    /\ UNCHANGED <<rec, wire, alive, foreign, impact, start, current, made, jobVars, lease,
                   supVars, completed>>

-----------------------------------------------------------------------------
(* Starting: reserve_start, start_reserved_core, start_report, run_clip.   *)

StartVarsOnly == UNCHANGED <<obsVars, impact, jobVars, supVars, completed>>

StartEnds == start' = NoStart

\* Receipts of this endpoint that admission() calls blocking.
Blocking ==
    \E t \in TakeIds : \/ take[t].startOp \in {"dispatching", "accepted", "unknown"}
                       \/ take[t].stopOp.phase \in {"dispatching", "accepted", "unknown"}

\* Fault seed: the cached result of an earlier take survives a new start.
CacheKept == completed

\* reserve_start forgets the result of an earlier take.
CacheCleared == "none"

\* The ticket is reserved here or was reserved by the service at admission.
StartCommand(opt, epoch) ==
    /\ sup = "open" /\ current = 0 /\ start.pc = "idle" /\ made < MaxTakes
    /\ epoch <= impact.last /\ Status(epoch) # "revoked"
    /\ impact.pending # 0 => epoch < impact.last
    /\ start' = [NoStart EXCEPT !.pc = "preflight", !.epoch = epoch, !.opt = opt]
    /\ completed' = CacheCleared
    /\ UNCHANGED <<obsVars, impact, takeVars, jobVars, lease, supVars, faults>>

\* Admission, then prepare and dispatching; from here the events count.
Intent ==
    IF Blocking
    THEN StartEnds /\ UNCHANGED <<takeVars, lease, faults>>
    ELSE \E ok \in BOOLEAN :
           /\ Publishes(ok)
           /\ IF ok
              THEN /\ made' = made + 1
                   /\ take' = [take EXCEPT ![made + 1] =
                                 [BlankTake EXCEPT !.epoch = start.epoch, !.startOp = "dispatching"]]
                   /\ start' = [start EXCEPT !.pc = "dispatch", !.take = made + 1]
              ELSE StartEnds /\ UNCHANGED <<made, take>>
           /\ UNCHANGED <<current, cont, lease>>

\* Cleanup: start_reserved_core itself stops the take and reports an error.
StartCleansUp(t) ==
    /\ job' = [job EXCEPT ![Owner(t)] = [IdleJob EXCEPT !.pc = "call", !.take = t]]
    /\ start' = [start EXCEPT !.pc = "cleanup"]
    /\ UNCHANGED lease

\* start_report claims the lease for the caller unless another client has
\* it; a clip claims none and goes on to wait for its end.
Report(t) ==
    /\ StartEnds
    /\ IF start.opt.clip
       THEN /\ job' = [job EXCEPT ![Owner(t)] = [IdleJob EXCEPT !.pc = "clip", !.take = t]]
            /\ UNCHANGED lease
       ELSE UNCHANGED job /\ lease' \in {lease, t}

\* Fault seed: after a failed setup the flag stays up.
SetupOverOnSuccess(tk, ok) == [tk EXCEPT !.setupPending = ~ok]

\* Whatever the setup's outcome, monitor_stop may go on.
SetupOver(tk, ok) == [tk EXCEPT !.setupPending = FALSE]

\* The monitor is set up or not: stop at once, or add the chapter and report.
Monitored(ok) ==
    LET t == start.take IN
    /\ take' = [take EXCEPT ![t] = SetupOver(@, ok)]
    /\ \/ StartCleansUp(t) /\ (~ok \/ take[t].running \/ take[t].result # "none" \/ start.opt.clip)
       \/ /\ ok /\ ~take[t].running /\ take[t].result = "none"
          /\ IF start.opt.chapter
             THEN start' = [start EXCEPT !.pc = "chapter"] /\ UNCHANGED <<job, lease>>
             ELSE Report(t)
    /\ UNCHANGED <<current, made, cont, faults, run, slot>>

\* The recording is confirmed: the take becomes current.  Without a started
\* event of its own the recording's identity is uncertain.
Confirmed(ready) ==
    LET t    == start.take
        lost == Lost(t) \/ ~cont[t].started
    IN  /\ cont' = [cont EXCEPT ![t].lost = lost]
        /\ \E ok \in BOOLEAN :
             LET op == IF ready /\ ~lost THEN "observed" ELSE "unknown" IN
             /\ Publishes(ok)
             /\ take' = [take EXCEPT ![t] = [take[t] EXCEPT
                   !.startOp = IF ok THEN op ELSE take[t].startOp,
                   !.deadline = IF start.opt.timed THEN "armed" ELSE "none",
                   !.setupPending = ready]]
        /\ current' = t
        /\ IF ready
           THEN start' = [start EXCEPT !.pc = "setup"] /\ UNCHANGED <<job, lease>>
           ELSE StartCleansUp(t)
        /\ UNCHANGED <<made, run, slot>>

StartPass(point, ready, ok) ==
    CASE point = "intent" -> IF ready THEN Intent /\ UNCHANGED jobVars
                             ELSE StartEnds /\ UNCHANGED <<takeVars, jobVars, lease, faults>>
      [] point = "confirmed" -> Confirmed(ready)
      [] point = "monitor" -> Monitored(ok /\ ready)

\* wait_impact before the next part of the start.
StartGate(point, ok) ==
    LET s == Status(start.epoch) IN
    IF s = "suspended"
    THEN /\ start' = [start EXCEPT !.pc = "parked", !.point = point, !.ok = ok]
         /\ UNCHANGED <<takeVars, jobVars, lease, faults>>
    ELSE StartPass(point, s = "ready", ok)

\* The registry changed, or the bound on the wait is over.
StartWakes ==
    /\ start.pc = "parked"
    /\ \/ Status(start.epoch) # "suspended"
          /\ StartPass(start.point, Status(start.epoch) = "ready", start.ok)
       \/ StartPass(start.point, FALSE, start.ok)
    /\ UNCHANGED <<obsVars, impact, supVars, completed>>

Preflighted ==
    /\ start.pc = "preflight"
    /\ \/ StartEnds /\ UNCHANGED <<takeVars, jobVars, lease, faults>>
       \/ StartGate("intent", TRUE)
    /\ UNCHANGED <<obsVars, impact, supVars, completed>>

\* The guard at the moment of sending; a clip may be cancelled until then.
StartSends ==
    /\ start.pc = "dispatch"
    /\ sup = "open" /\ feed = <<>> /\ Status(start.epoch) = "ready"
    /\ take' = [take EXCEPT ![start.take].startFrame = "out"]
    /\ start' = [start EXCEPT !.pc = "sent"]
    /\ UNCHANGED <<current, made, cont, lease, faults>> /\ StartVarsOnly

\* Any failure of the request or of its confirmation leaves the receipt
\* Unknown and no take.
StartFails ==
    /\ start.pc \in {"dispatch", "sent", "confirm"}
    /\ start.pc = "confirm" => ~cont[start.take].started \/ cont[start.take].stopped
    /\ \E ok \in BOOLEAN :
         /\ Publishes(ok)
         /\ take' = IF ok THEN [take EXCEPT ![start.take].startOp = "unknown"] ELSE take
    /\ StartEnds
    /\ UNCHANGED <<current, made, cont, lease>> /\ StartVarsOnly

StartAccepted ==
    /\ start.pc = "sent" /\ take[start.take].startFrame \in {"ok", "void"} /\ feed = <<>>
    /\ \E ok \in BOOLEAN :
         /\ Publishes(ok)
         /\ take' = IF ok THEN [take EXCEPT ![start.take].startOp = "accepted"] ELSE take
    /\ start' = [start EXCEPT !.pc = "confirm"]
    /\ UNCHANGED <<current, made, cont, lease>> /\ StartVarsOnly

\* start_output_and_confirm: by the started event, else by a status that said
\* active; the recording may have ended since that answer.
StartConfirmed ==
    /\ start.pc = "confirm"
    /\ \/ cont[start.take].started
       \/ alive /\ feed = <<>> /\ (rec # 0 \/ "stopped" \in Range(wire))
    /\ StartGate("confirmed", TRUE)
    /\ UNCHANGED <<obsVars, impact, supVars, completed>>

SetupDone ==
    /\ start.pc = "setup"
    /\ \E ok \in BOOLEAN : StartGate("monitor", ok)
    /\ UNCHANGED <<obsVars, impact, supVars, completed>>

\* mark_take for the first chapter; its outcome is only a note.
ChapterDone ==
    /\ start.pc = "chapter"
    /\ Report(start.take)
    /\ UNCHANGED <<obsVars, impact, takeVars, run, slot, supVars, completed, faults>>

CleanupDone ==
    /\ start.pc = "cleanup" /\ job[Owner(start.take)].pc = "idle"
    /\ StartEnds
    /\ UNCHANGED <<obsVars, impact, takeVars, jobVars, lease, supVars, completed, faults>>

StartStep ==
    \/ Preflighted \/ StartWakes \/ StartSends \/ StartFails \/ StartAccepted
    \/ StartConfirmed \/ SetupDone \/ ChapterDone \/ CleanupDone

-----------------------------------------------------------------------------
(* stop_take: callers share one running attempt; stop_once is that attempt.*)

StopFrame == UNCHANGED <<obsVars, impact, start, made, cont, slot, supVars>>

\* A caller has its result.  The deadline worker tries once more when it had
\* joined an attempt that was older than the deadline (deadline_stop).
Returned(j, t, tk, cleared) ==
    IF j = Deadline /\ job[j].was /\ ~cleared /\ ~tk.blocked
    THEN [job[j] EXCEPT !.pc = "again", !.was = FALSE]
    ELSE IdleJob

\* stop_once returns; the take was cleared or is still current.
Finish(tk, result, cleared) ==
    /\ take' = [take EXCEPT ![current] =
                  [tk EXCEPT !.running = FALSE,
                             !.result = IF cleared THEN result ELSE @,
                             !.served = @ \/ (run.due /\ ~tk.blocked)]]
    /\ current' = IF cleared THEN 0 ELSE current
    /\ completed' = IF cleared THEN result ELSE completed
    /\ job' = [job EXCEPT ![run.by] = Returned(run.by, current, tk, cleared)]
    /\ run' = NoRun

Continue(tk, r) ==
    /\ take' = [take EXCEPT ![current] = tk]
    /\ run' = r
    /\ UNCHANGED <<current, completed, job>>

\* uncertain: an unfinished Stop receipt becomes Unknown, nothing is retried.
Uncertain(tk, cleared) ==
    IF tk.stopOp.phase \in {"none", "observed"}
    THEN Finish(tk, "unconfirmed", cleared) /\ UNCHANGED faults
    ELSE \E ok \in BOOLEAN :
           /\ Publishes(ok)
           /\ Finish(IF ok THEN [tk EXCEPT !.stopOp.phase = "unknown"] ELSE tk,
                     "unconfirmed", cleared)

\* uncertain after a publication that failed: its own may still succeed.
Unrecorded(tk) == {tk, [tk EXCEPT !.stopOp.phase = "unknown"]}

ReleaseLease == lease' = IF lease = current THEN 0 ELSE lease

\* impact_stop_refusal on a revoked ticket: only observation is left.
Refuse(tk, r) ==
    /\ Continue([tk EXCEPT !.deadline = "none"], [r EXCEPT !.pc = "refused", !.seen = "none"])
    /\ UNCHANGED <<lease, faults>>

\* What follows each wait_take_impact of stop_once once the ticket is ready.
Pass(tk, r, point) ==
    CASE point = "status" ->
           Continue(tk, [r EXCEPT !.pc = "status", !.seen = "none"]) /\ UNCHANGED <<lease, faults>>
      [] point = "stopped" ->
           /\ IF cont[current].lost \/ ~r.inactive
              THEN Uncertain(tk, FALSE)
              ELSE Continue([tk EXCEPT !.deadline = "none"], [r EXCEPT !.pc = "monitor"])
                   /\ UNCHANGED faults
           /\ UNCHANGED lease
      [] point = "summary" ->
           /\ ReleaseLease
           /\ \/ Finish(tk, "unconfirmed", TRUE) /\ UNCHANGED faults   \* no file was reported
              \/ \E ok \in BOOLEAN :
                   /\ Publishes(ok)
                   /\ Continue(IF ok THEN [tk EXCEPT !.stopOp.phase = "observed"] ELSE tk,
                               [r EXCEPT !.pc = "inspect"])
      [] point = "inspected" ->
           Continue(tk, [r EXCEPT !.pc = "log"]) /\ UNCHANGED <<lease, faults>>
      [] point = "logged" ->
           Finish(tk, "confirmed", TRUE) /\ UNCHANGED <<lease, faults>>

\* wait_take_impact.
Gate(tk, r, point) ==
    CASE Status(tk.epoch) = "ready" -> Pass([tk EXCEPT !.blocked = FALSE], r, point)
      [] Status(tk.epoch) = "suspended" ->
           /\ Continue([tk EXCEPT !.blocked = TRUE], [r EXCEPT !.pc = "parked", !.point = point])
           /\ UNCHANGED <<lease, faults>>
      [] Status(tk.epoch) = "revoked" -> Refuse(tk, r)

\* Fault seed: a second caller begins an attempt of its own.
NeverJoins(tk) == FALSE

\* One attempt at a time; the others wait for it.
MustJoin(tk) == tk.running

\* A caller enters stop_take: it has the cached result, joins the running
\* attempt, or begins one at the first wait_take_impact.
Call(j) ==
    LET t == job[j].take
        s == Status(take[t].epoch)
    IN
    /\ job[j].pc \in {"call", "again"}
    /\ \/ /\ take[t].result # "none"
          /\ job' = [job EXCEPT ![j] = IdleJob]
          /\ UNCHANGED <<take, run>>
       \/ /\ take[t].result = "none" /\ MustJoin(take[t])
          /\ job' = [job EXCEPT ![j].pc = "join", ![j].was = job[j].pc = "call"]
          /\ UNCHANGED <<take, run>>
       \/ /\ take[t].result = "none" /\ ~MustJoin(take[t])
          /\ job' = [job EXCEPT ![j].pc = "run"]
          /\ take' = [take EXCEPT ![t] = [take[t] EXCEPT
                        !.running = TRUE,
                        !.blocked = IF s = "revoked" THEN @ ELSE s = "suspended",
                        !.deadline = IF s = "revoked" THEN "none" ELSE @]]
          /\ run' = [NoRun EXCEPT
                        !.by = j, !.point = "status", !.due = take[t].deadline = "due",
                        !.pc = CASE s = "ready" -> "status"
                                 [] s = "suspended" -> "parked"
                                 [] s = "revoked" -> "refused"]
    /\ UNCHANGED <<current, lease, completed, faults>> /\ StopFrame

\* A waiting caller sees that the attempt it joined is over.
Joined(j) ==
    LET t == job[j].take IN
    /\ job[j].pc = "join" /\ (take[t].result # "none" \/ ~take[t].running)
    /\ job' = [job EXCEPT ![j] = Returned(j, t, take[t], current # t)]
    /\ UNCHANGED <<current, take, run, lease, completed, faults>> /\ StopFrame

RunWakes ==
    /\ run.pc = "parked"
    /\ LET tk == take[current] IN
       \/ Status(tk.epoch) # "suspended" /\ Gate(tk, run, run.point)
       \/ /\ Status(tk.epoch) # "revoked"   \* the wait is over: suspended_stop
          /\ Finish(tk, "unconfirmed", FALSE) /\ UNCHANGED <<lease, faults>>
    /\ StopFrame

\* Journal the Stop and only then ask for it; until its fate is known the
\* take is uncertain.  A receipt left by a refused Stop is used again.
StopIntent(tk) ==
    \E ok \in BOOLEAN :
      /\ Publishes(ok)
      /\ IF ok
         THEN Continue([tk EXCEPT !.stopOp.phase = "dispatching", !.uncertain = TRUE],
                       [run EXCEPT !.pc = "dispatch"])
         ELSE Finish(tk, "unconfirmed", FALSE)

\* A fresh status and the events decide what may be done at all.
Decide(tk) ==
    LET c      == cont[current]
        active == run.seen = "active"
        ended  == [tk EXCEPT !.deadline = "none"]
    IN
    CASE c.lost \/ (active /\ c.stopped) ->    \* not ours: only observe
           Continue(ended, [run EXCEPT !.pc = "unowned", !.inactive = ~active]) /\ UNCHANGED faults
      [] ~c.lost /\ ~active /\ c.stopped ->    \* it ended by itself
           Continue(ended, [run EXCEPT !.pc = "monitor"]) /\ UNCHANGED faults
      [] ~c.lost /\ ~c.stopped ->
           IF active /\ ~tk.uncertain THEN StopIntent(tk) ELSE Uncertain(tk, FALSE)

StatusRead ==
    /\ run.pc = "status"
    /\ \/ Uncertain(take[current], FALSE) /\ UNCHANGED lease
       \/ /\ run.seen # "none" /\ feed = <<>>
          /\ IF Status(take[current].epoch) = "ready"
             THEN Decide(take[current]) /\ UNCHANGED lease
             ELSE Gate(take[current], run, "status")
    /\ StopFrame

\* Fault seed: a manual Stop in flight does not hold back the owned one.
GuardIgnoresPending(t) ==
    feed = <<>> /\ ~cont[t].lost /\ ~cont[t].stopped /\ Status(take[t].epoch) # "revoked"

\* The dispatch guard, evaluated by the session when the frame is due: every
\* received event is applied and none ended the recording or the ownership.
StopGuard(t) ==
    feed = <<>> /\ ~cont[t].lost /\ ~cont[t].stopped /\ Status(take[t].epoch) = "ready"

StopSends ==
    /\ run.pc = "dispatch" /\ StopGuard(current)
    /\ Continue([take[current] EXCEPT !.frame = "out"], [run EXCEPT !.pc = "sent"])
    /\ UNCHANGED <<lease, faults>> /\ StopFrame

\* The guard, the policy or the queue refused: the receipt is retired, which
\* needs it to be exactly the Dispatching receipt of a Stop never answered.
StopUnsent ==
    /\ run.pc = "dispatch"
    /\ \E blocked \in {take[current].blocked, Status(take[current].epoch) = "suspended"} :
         LET tk == [take[current] EXCEPT !.blocked = blocked] IN
         IF tk.stopOp.acc # "null"
         THEN Uncertain(tk, FALSE) /\ UNCHANGED lease
         ELSE \E ok \in BOOLEAN :
                /\ Publishes(ok)
                /\ LET retired == [tk EXCEPT !.uncertain = FALSE, !.stopOp = NoReceipt] IN
                   IF ok /\ Status(tk.epoch) = "revoked"
                   THEN Refuse(retired, run)
                   ELSE /\ \E after \in (IF ok THEN {retired} ELSE Unrecorded(tk)) :
                             Finish(after, "unconfirmed", FALSE)
                        /\ UNCHANGED lease
    /\ StopFrame

\* Fault seed: a lost reply is treated like a refusal.
LostReplyIsRefusal(tk) == [tk EXCEPT !.uncertain = FALSE]

\* The take after a Stop request whose fate is unknown.
AfterLostReply(tk) == tk

\* No answer in time, whether or not the frame went out.
StopTimesOut ==
    /\ run.pc \in {"dispatch", "sent"}
    /\ Uncertain(AfterLostReply(take[current]), FALSE)
    /\ UNCHANGED lease /\ StopFrame

StopAnswered ==
    /\ run.pc = "sent" /\ feed = <<>>
    /\ LET tk == take[current] IN
       \E ok \in BOOLEAN :
         /\ Publishes(ok)
         /\ \/ /\ tk.frame = "ok"
               /\ IF ok THEN Continue([tk EXCEPT !.stopOp = [phase |-> "accepted", acc |-> "yes"]],
                                      [run EXCEPT !.pc = "event"])
                  ELSE \E after \in Unrecorded(tk) : Finish(after, "unconfirmed", FALSE)
            \/ /\ tk.frame = "rejected"
               /\ \E after \in (IF ok THEN {[tk EXCEPT !.stopOp = [phase |-> "unknown", acc |-> "no"]]}
                                 ELSE Unrecorded(tk)) :
                     Finish([after EXCEPT !.uncertain = FALSE], "unconfirmed", FALSE)
    /\ UNCHANGED lease /\ StopFrame

\* The stopped event of the subscription made before the request, or no
\* event before the deadline.
StopEvent ==
    /\ run.pc = "event"
    /\ \/ /\ cont[current].stopped
          /\ Continue(take[current], [run EXCEPT !.pc = "poll", !.seen = "none"])
          /\ UNCHANGED <<lease, faults>>
       \/ Gate(take[current], run, "stopped")
    /\ StopFrame

PollRead ==
    /\ run.pc = "poll" /\ run.seen # "none" /\ feed = <<>>
    /\ IF cont[current].lost \/ run.seen = "inactive"
       THEN Gate(take[current], [run EXCEPT !.inactive = ~cont[current].lost], "stopped")
       ELSE Continue(take[current], [run EXCEPT !.seen = "none"]) /\ UNCHANGED <<lease, faults>>
    /\ StopFrame

\* The stop deadline ends the polling, or the status is unavailable.
PollGivesUp ==
    /\ run.pc = "poll"
    /\ Gate(take[current], run, "stopped")
    /\ StopFrame

\* monitor_stop: waits for the setup, then joins the observers or fails.
MonitorStopped ==
    /\ run.pc = "monitor" /\ ~take[current].setupPending
    /\ \/ Uncertain(take[current], FALSE) /\ UNCHANGED lease
       \/ Gate(take[current], run, "summary")
    /\ StopFrame

Inspected == run.pc = "inspect" /\ Gate(take[current], run, "inspected") /\ StopFrame
Logged    == run.pc = "log" /\ Gate(take[current], run, "logged") /\ StopFrame

\* impact_stop_refusal reads the status once more.
RefusalRead ==
    /\ run.pc = "refused"
    /\ \E inactive \in {FALSE, run.seen = "inactive" /\ feed = <<>>} :
          Continue(take[current], [run EXCEPT !.pc = "unowned", !.inactive = inactive])
    /\ UNCHANGED <<lease, faults>> /\ StopFrame

\* A recording that is not ours: an inactive output retires the take.
Unowned ==
    /\ run.pc = "unowned" /\ ~take[current].setupPending
    /\ \/ Uncertain(take[current], FALSE) /\ UNCHANGED lease
       \/ run.inactive /\ ReleaseLease /\ Uncertain(take[current], TRUE)
    /\ StopFrame

RunStep ==
    \/ RunWakes \/ StatusRead \/ StopSends \/ StopUnsent \/ StopTimesOut \/ StopAnswered
    \/ StopEvent \/ PollRead \/ PollGivesUp \/ MonitorStopped \/ Inspected \/ Logged
    \/ RefusalRead \/ Unowned

-----------------------------------------------------------------------------
(* The actor: commands, the deadline worker's slot and shutdown.           *)

StopCommand(j) ==
    /\ sup = "open" /\ current # 0 /\ job[j].pc = "idle"
    /\ job' = [job EXCEPT ![j] = [IdleJob EXCEPT !.pc = "call", !.take = current]]
    /\ UNCHANGED <<obsVars, impact, start, takeVars, run, slot, lease, supVars, completed, faults>>

\* The clip's time is over, or it is cancelled.
ClipEnds(t) ==
    /\ job[Owner(t)].pc = "clip"
    /\ job' = [job EXCEPT ![Owner(t)].pc = "call"]
    /\ UNCHANGED <<obsVars, impact, start, takeVars, run, slot, lease, supVars, completed, faults>>

DeadlinePasses ==
    /\ current # 0 /\ take[current].deadline = "armed"
    /\ take' = [take EXCEPT ![current].deadline = "due"]
    /\ UNCHANGED <<obsVars, impact, start, current, made, cont, jobVars, lease, supVars,
                   completed, faults>>

\* Fault seed: a deadline counts as fired while the slot is still occupied.
FiresWithoutSlot(tk, free) == tk.deadline = "due" /\ ~tk.fired

\* reserve_deadline_job.
Fires(tk, free) == tk.deadline = "due" /\ ~tk.fired /\ free

\* Fault seed: a suspended deadline stays spent.
NeverRearms(tk, free) == FALSE

\* refresh_impacts: the suspension is over and nothing was sent.
Rearms(tk, free) ==
    tk.blocked /\ Status(tk.epoch) = "ready" /\ free /\ ~tk.running /\ ~tk.uncertain

\* One turn of the actor's loop: reap the worker, refresh_impacts, then let a
\* due deadline reserve the slot and spawn its worker.
Tick ==
    LET free == slot = 0 \/ job[Deadline].pc = "idle"
        Refreshed(tk) ==
            [tk EXCEPT !.blocked = @ /\ ~Rearms(tk, free) /\ Status(tk.epoch) # "revoked",
                       !.fired   = @ /\ ~(Rearms(tk, free) /\ tk.deadline # "none")]
    IN
    /\ sup = "open"
    /\ IF current = 0
       THEN slot' = (IF free THEN 0 ELSE slot) /\ UNCHANGED <<take, job>>
       ELSE LET tk == Refreshed(take[current])
                fires == Fires(tk, free)
            IN  /\ take' = [take EXCEPT ![current] = [tk EXCEPT !.fired = @ \/ fires]]
                /\ slot' = IF fires /\ free THEN current ELSE IF free THEN 0 ELSE slot
                /\ job' = IF fires /\ free
                          THEN [job EXCEPT ![Deadline] =
                                  [IdleJob EXCEPT !.pc = "call", !.take = current]]
                          ELSE job
    /\ UNCHANGED <<obsVars, impact, start, current, made, cont, run, lease, supVars,
                   completed, faults>>

Shutdown ==
    /\ sup = "open"
    /\ sup' = "closing"
    /\ UNCHANGED <<obsVars, impact, start, takeVars, jobVars, lease, report, completed, faults>>

\* Only when every admitted job is joined does shutdown stop what is left.
Reported == IF completed = "confirmed" THEN "confirmed" ELSE "unconfirmed"

JobsJoined ==
    /\ sup = "closing" /\ start.pc = "idle" /\ \A j \in Jobs : job[j].pc = "idle"
    /\ IF current # 0
       THEN /\ sup' = "final"
            /\ job' = [job EXCEPT ![Final] = [IdleJob EXCEPT !.pc = "call", !.take = current]]
            /\ UNCHANGED report
       ELSE sup' = "closed" /\ report' = Reported /\ UNCHANGED job
    /\ UNCHANGED <<obsVars, impact, start, takeVars, run, slot, lease, completed, faults>>

Closes ==
    /\ sup = "final" /\ job[Final].pc = "idle"
    /\ sup' = "closed" /\ report' = Reported
    /\ UNCHANGED <<obsVars, impact, start, takeVars, jobVars, lease, completed, faults>>

-----------------------------------------------------------------------------
Next ==
    \/ OperatorStarts \/ RecordingEnds \/ Receive \/ Disconnect \/ ObsAnswersStatus
    \/ \E t \in TakeIds : ObsHandlesStart(t) \/ ObsHandlesStop(t) \/ ClipEnds(t)
    \/ ManualBegins \/ \E fate \in Fates : ManualSettles(fate)
    \/ Observe
    \/ \E opt \in Options, epoch \in 0..MaxTrouble : StartCommand(opt, epoch)
    \/ StartStep
    \/ \E j \in ToolJobs : StopCommand(j)
    \/ \E j \in Jobs : Call(j) \/ Joined(j)
    \/ RunStep
    \/ DeadlinePasses \/ Tick \/ Shutdown \/ JobsJoined \/ Closes

Spec == Init /\ [][Next]_vars

\* Every task is run again and every await ends: requests carry deadlines.
\* The run queue is first in, first out, so a woken waiter is polled before a
\* later caller can begin: strong fairness for the waiters.
Fairness ==
    /\ WF_vars(Observe) /\ WF_vars(StartStep) /\ WF_vars(RunStep) /\ WF_vars(PollGivesUp)
    /\ \A j \in Jobs : WF_vars(Call(j)) /\ SF_vars(Joined(j))
    /\ \A t \in TakeIds : WF_vars(ClipEnds(t))
    /\ WF_vars(\E fate \in Fates : ManualSettles(fate))
    /\ WF_vars(Tick) /\ WF_vars(JobsJoined) /\ WF_vars(Closes)

FairSpec == Spec /\ Fairness

-----------------------------------------------------------------------------
(* Properties.                                                             *)

Events == {"started", "stopped"}
FeedEvents == Events \cup {"gone"}

ImpactRecords == [last : 0..MaxTrouble, pending : 0..MaxTrouble, revoked : 0..MaxTrouble,
                  touched : 0..MaxTrouble]

StartRecords ==
    [pc : {"idle", "preflight", "parked", "dispatch", "sent", "confirm", "setup", "chapter",
           "cleanup"},
     take : 0..MaxTakes, epoch : 0..MaxTrouble,
     point : {"none", "intent", "confirmed", "monitor"}, ok : BOOLEAN, opt : AllOptions]

Receipts ==
    [phase : {"none", "dispatching", "accepted", "observed", "unknown"},
     acc : {"null", "yes", "no"}]

TakeRecords ==
    [epoch : 0..MaxTrouble,
     startOp : {"none", "dispatching", "accepted", "observed", "unknown"},
     startFrame : {"none", "out", "ok", "void", "rejected"},
     stopOp : Receipts,
     frame : {"none", "out", "ok", "rejected"},
     uncertain : BOOLEAN, running : BOOLEAN,
     result : {"none", "confirmed", "unconfirmed"},
     blocked : BOOLEAN, deadline : {"none", "armed", "due"}, fired : BOOLEAN,
     setupPending : BOOLEAN, served : BOOLEAN]

Continuities == [started : BOOLEAN, stopped : BOOLEAN, lost : BOOLEAN]

JobRecords ==
    [pc : {"idle", "clip", "call", "again", "join", "run"}, take : 0..MaxTakes, was : BOOLEAN]

RunRecords ==
    [pc : {"none", "parked", "status", "dispatch", "sent", "event", "poll", "monitor", "inspect",
           "log", "refused", "unowned"},
     by : Jobs, point : {"none", "status", "stopped", "summary", "inspected", "logged"},
     seen : {"none", "active", "inactive"}, inactive : BOOLEAN, due : BOOLEAN]

\* There is at most one stop_once, for the current take and on behalf of the
\* caller that began it.
OneRun ==
    /\ run.pc # "none" => /\ current # 0 /\ take[current].running
                          /\ job[run.by].pc = "run" /\ job[run.by].take = current
    /\ \A j \in Jobs : job[j].pc = "run" => run.pc # "none" /\ run.by = j

\* Type invariant: the shape of the state, and one running attempt.
TypeOK ==
    /\ rec \in 0..Foreign
    /\ wire \in Seq(Events) /\ feed \in Seq(FeedEvents)
    /\ alive \in BOOLEAN /\ foreign \in 0..MaxTrouble
    /\ impact \in ImpactRecords
    /\ start \in StartRecords
    /\ current \in 0..MaxTakes /\ made \in 0..MaxTakes
    /\ take \in [TakeIds -> TakeRecords]
    /\ cont \in [TakeIds -> Continuities]
    /\ job \in [Jobs -> JobRecords]
    /\ run \in RunRecords
    /\ slot \in 0..MaxTakes /\ lease \in 0..MaxTakes
    /\ sup \in {"open", "closing", "final", "closed"}
    /\ completed \in {"none", "confirmed", "unconfirmed"}
    /\ report \in {"none", "confirmed", "unconfirmed"}
    /\ faults \in 0..MaxTrouble
    /\ OneRun

\* A take reported as stopped, and a shutdown receipt that confirms a stop,
\* are right: OBS is no longer making a recording that this server started
\* (stop_once, the tail of actor).
ConfirmedMeansStopped ==
    /\ \A t \in TakeIds : take[t].result = "confirmed" => rec # t
    /\ report = "confirmed" => rec \notin TakeIds

\* The owned StopRecord leaves only for the recording the take started: with
\* no event still on its way, OBS is recording that or nothing (guard,
\* observe, take_transport's fence).  Events do not name recordings, so a
\* Start that OBS accepted without ever becoming active is exempt.
StopsOnlyItsOwnRecording ==
    [][\A t \in TakeIds :
         /\ take[t].frame # "out" /\ take'[t].frame = "out"
         /\ wire = <<>> /\ take[t].startFrame # "void"
         => rec \in {0, t}]_vars

\* A StopRecord whose fate is not known to be a refusal is never followed by
\* another one for the same take: no replay (stop_once, stop_uncertain).
StopIsNeverReplayed ==
    [][\A t \in TakeIds :
         run.pc = "dispatch" /\ run'.pc = "sent" /\ current = t
         => take[t].frame \in {"none", "rejected"}]_vars

\* Once a manual StopRecord of this server may have reached OBS after the
\* take's ticket was issued, the take sends no Stop of its own, nor while one
\* is in flight (record_impact.rs, guard).
ManualStopVetoesOwnedStop ==
    [][\A t \in TakeIds :
         take[t].frame # "out" /\ take'[t].frame = "out"
         => impact.pending = 0 /\ impact.touched <= take[t].epoch]_vars

\* A deadline that came due is served by an attempt begun after it, however
\* long an older worker held the slot, an older attempt ran or a manual Stop
\* suspended it; unless the take ended, was lost, or has a Stop of unknown
\* fate (schedule, refresh_impacts, deadline_stop).
DueDeadlineIsServed ==
    \A t \in TakeIds :
      (current = t /\ take[t].deadline = "due" /\ sup = "open")
      ~> (\/ sup # "open" \/ current # t \/ take[t].deadline = "none"
          \/ take[t].served \/ take[t].uncertain \/ Lost(t))

\* A due deadline that counts as fired has its worker or an attempt begun
\* since then on it, was served, or is one that refresh_impacts will arm
\* again: it is never spent for nothing (reserve_deadline_job, job_completed,
\* deadline_stop).
NoDeadlineIsForgotten ==
    \A t \in TakeIds :
      current = t /\ take[t].deadline = "due" /\ take[t].fired
      => \/ job[Deadline].take = t /\ job[Deadline].pc # "idle"
         \/ take[t].running /\ run.due
         \/ take[t].served \/ take[t].blocked \/ take[t].uncertain \/ Lost(t)

\* Shutdown ends although a start, a stop, a due deadline or a suspension by a
\* manual Stop is pending.  (Clips end through the same stop_take; the run has
\* none.)
ShutdownCompletes == sup = "closing" ~> sup = "closed"

\* obs-take-start claims control for the length of the take.
LeaseLastsAsLongAsTheTake == lease # 0 => current = lease

\* A Stop that was refused before it was sent, and whose receipts could be
\* written, leaves the take free to be stopped by the next attempt.
UnsentStopCanBeRepeated ==
    [][StopUnsent /\ faults' = faults => ~take'[current].uncertain]_vars
=============================================================================
