------------------------------ MODULE Workflows ------------------------------
(***************************************************************************)
(* The scene workflows of the service: apply a scene, capture a window,    *)
(* restore a snapshot and take one (the *_workflow.rs and *_transport.rs   *)
(* files, snapshot_tools.rs, the snapshot file and the receipts of         *)
(* operation_store.rs).  The service runs one workflow at a time (Service).*)
(*                                                                         *)
(* A workflow reads OBS part by part, saves an undo snapshot, publishes a  *)
(* receipt before and after each frame, and reads again.  Between any two  *)
(* steps the user edits, OBS announces earlier changes, the deadline or a  *)
(* cancellation ends the workflow, a publication fails before or after its *)
(* rename, or the process dies; a frame may run long after its sender gave *)
(* up.  Presentation, screenshots, capabilities and size limits are left   *)
(* out; policy is one of the reasons a frame is refused at the gate.       *)
(***************************************************************************)
EXTENDS Scenes

CONSTANTS Scenarios,     \* [world, runs (requests in order), edits, refusals, crashes]
          MaxAuto,       \* auto snapshots that are kept (20)
          MaxUser,       \* snapshots taken by hand that are kept (50)
          MaxResamples   \* samples given up to late announcements (3)

\* What the service runs a workflow for.
WorkflowKinds == {"apply", "capture", "restore", "snapshot"}
ASSUME WorkflowsAssumption ==
    /\ {MaxAuto, MaxUser, MaxResamples} \subseteq Nat \ {0}
    /\ Scenarios # {}
    /\ \A s \in Scenarios :
           "runs" \in DOMAIN s /\ s.runs \in Seq({r \in Range(s.runs) : r.kind \in WorkflowKinds})

VARIABLES
    script,    \* the scenario, with what is left of its bounds
    world,     \* OBS
    pending,   \* changes that OBS has not announced: TRUE for one of the user
    rev,       \* evidence revision
    told,      \* history: a change of the user was announced since the last stamp
    history,   \* the snapshot file
    receipts,  \* the receipts on disk, by the number of the run
    doubt,     \* the store's view is uncertain: nothing is admitted any more
    flow,      \* the workflow that runs
    sent       \* every frame that left, with what OBS made of it

flowVars == <<script, world, pending, rev, told, history, receipts, doubt, flow, sent>>
outside == <<script, world, pending, rev, sent>>   \* what only OBS and the scenario change

(***************************************************************************)
(* Receipts: a phase, the stages, and the stage that is dispatching.       *)
(***************************************************************************)
NoReceipt == [phase |-> "none"]
NoCounts == <<0, 0, 0>>   \* successful, failed, skipped
StageNew(n) == [n |-> n, phase |-> IF n = 0 THEN "notneeded" ELSE "prepared", counts |-> NoCounts]
StageSet(s, phase, counts) == [s EXCEPT !.phase = phase, !.counts = counts]
StageOk(s) ==
    s.phase = "notneeded" \/ (s.phase = "acknowledged" /\ s.counts[2] = 0 /\ s.counts[3] = 0)
StageValid(s, halt) ==
    /\ (s.n = 0) = (s.phase = "notneeded")
    /\ s.phase # "acknowledged" => s.counts = NoCounts
    /\ s.phase = "acknowledged" =>
           /\ s.counts[1] + s.counts[2] + s.counts[3] = s.n
           /\ IF halt THEN s.counts[2] <= 1 /\ (s.counts[2] = 0 => s.counts[3] = 0)
              ELSE s.counts[3] = 0
\* The stages whose batch stops at the first failure.
Halts(kind, stage) == kind = "capture" \/ (kind = "apply" /\ stage = 1)

RestoreLayout(r) == Len(r.stages) = 1 /\ r.stages[1].n > 0 /\ r.stages[1].phase = r.phase
ApplyLayout(r) ==
    LET first == r.stages[1]
        second == IF Len(r.stages) = 2 THEN r.stages[2].phase ELSE "none"
    IN CASE r.phase = "prepared" -> first.phase \in {"prepared", "notneeded"} /\ second = "none"
         [] r.phase = "dispatching" ->
                IF r.active = 1 THEN first.phase = "dispatching" /\ second = "none"
                ELSE StageOk(first) /\ second = "dispatching"
         [] r.phase = "continuation" -> StageOk(first) /\ second = "none"
         [] r.phase = "closed" -> StageOk(first) /\ second \in {"acknowledged", "notneeded"}
         [] r.phase = "aborted" ->
                IF second = "none" THEN first.phase \in {"acknowledged", "notdispatched", "notneeded"}
                ELSE StageOk(first) /\ second = "notdispatched"
         [] r.phase = "unknown" ->
                (first.phase = "unknown" /\ second = "none") \/ (StageOk(first) /\ second = "unknown")
CaptureLayout(r) ==
    LET needed == SelectSeq(r.stages, LAMBDA s : s.n > 0)
        before(i) == \A j \in 1..(i - 1) : StageOk(needed[j])
        after(i, phase) == \A j \in (i + 1)..Len(needed) : needed[j].phase = phase
        done == Cardinality({i \in 1..Len(needed) : before(i + 1)})   \* those that lead and succeeded
    IN /\ needed # <<>>
       /\ CASE r.phase = "prepared" -> after(0, "prepared")
            [] r.phase = "continuation" -> done > 0 /\ after(done, "prepared")
            [] r.phase \in {"dispatching", "unknown"} ->
                   /\ done < Len(needed) /\ needed[done + 1].phase = r.phase
                   /\ after(done + 1, IF r.phase = "unknown" THEN "notdispatched" ELSE "prepared")
            [] r.phase = "closed" -> done = Len(needed)
            [] r.phase = "aborted" ->
                   \/ after(done, "notdispatched")
                   \/ /\ done < Len(needed) /\ needed[done + 1].phase = "acknowledged"
                      /\ after(done + 1, "notdispatched")
Checked(r) ==
    /\ \A i \in 1..Len(r.stages) : StageValid(r.stages[i], Halts(r.kind, i))
    /\ CASE r.kind = "restore" -> RestoreLayout(r)
         [] r.kind = "apply" -> ApplyLayout(r)
         [] r.kind = "capture" -> CaptureLayout(r)

Prepared(kind, plan) ==
    [kind |-> kind, phase |-> "prepared", active |-> 0,
     stages |-> [i \in 1..Len(plan) |-> StageNew(plan[i])]]
Update(what, stage, n, counts) == [what |-> what, stage |-> stage, n |-> n, counts |-> counts]
Ended == {"acknowledged", "notdispatched", "unknown"}
Active(r, phase, what, counts) ==
    [r EXCEPT !.phase = phase, !.active = 0, !.stages[r.active] = StageSet(@, what, counts)]
Dispatched(r, k) ==
    [r EXCEPT !.phase = "dispatching", !.active = k,
              !.stages[k] = StageSet(@, "dispatching", NoCounts)]
Remaining(r) == {i \in 1..Len(r.stages) : r.stages[i].phase = "prepared"}
\* The steps that will not be tried any more.
Abandoned(r) ==
    [r EXCEPT !.stages = [i \in 1..Len(@) |->
        IF i \in Remaining(r) THEN StageSet(@[i], "notdispatched", NoCounts) ELSE @[i]]]

RestoreUpdated(r, u) ==
    CASE u.what = "dispatch" /\ r.phase = "prepared" -> Dispatched(r, 1)
      [] u.what = "notdispatched" /\ r.phase = "prepared" ->
             Abandoned([r EXCEPT !.phase = "notdispatched"])
      [] u.what \in Ended /\ r.phase = "dispatching" -> Active(r, u.what, u.what, u.counts)
      [] OTHER -> NoReceipt
Clean(counts) == counts[2] = 0 /\ counts[3] = 0
ApplyUpdated(r, u) ==
    CASE u.what = "ready" /\ r.phase = "prepared" /\ r.stages[1].n = 0 ->
             [r EXCEPT !.phase = "continuation"]
      [] u.what = "dispatch" /\ u.stage = 1 /\ r.phase = "prepared" /\ r.stages[1].n > 0 ->
             Dispatched(r, 1)
      [] u.what = "dispatch" /\ u.stage = 2 /\ r.phase = "continuation" /\ u.n > 0 ->
             Dispatched([r EXCEPT !.stages = Append(@, StageNew(u.n))], 2)
      [] u.what = "acknowledged" /\ r.phase = "dispatching" ->
             Active(r, IF r.active = 2 THEN "closed"
                       ELSE IF Clean(u.counts) THEN "continuation" ELSE "aborted",
                    u.what, u.counts)
      [] u.what = "notdispatched" /\ r.phase = "dispatching" -> Active(r, "aborted", u.what, NoCounts)
      [] u.what = "unknown" /\ r.phase = "dispatching" -> Active(r, "unknown", u.what, NoCounts)
      [] u.what = "close" /\ r.phase = "continuation" ->
             [r EXCEPT !.phase = "closed", !.stages = Append(@, StageNew(0))]
      [] u.what = "abort" /\ r.phase \in {"prepared", "continuation"} ->
             [r EXCEPT !.phase = "aborted", !.stages[1] =
                  IF @.phase = "prepared" THEN StageSet(@, "notdispatched", NoCounts) ELSE @]
      [] OTHER -> NoReceipt
NextStep(r) == IF Remaining(r) = {} THEN 0
               ELSE CHOOSE i \in Remaining(r) : \A j \in Remaining(r) : i <= j
CaptureUpdated(r, u) ==
    CASE u.what = "dispatch" /\ r.phase \in {"prepared", "continuation"} /\ NextStep(r) = u.stage ->
             Dispatched(r, u.stage)
      [] u.what = "acknowledged" /\ r.phase = "dispatching" ->
             IF Clean(u.counts) THEN Active(r, "continuation", u.what, u.counts)
             ELSE Abandoned(Active(r, "aborted", u.what, u.counts))
      [] u.what = "notdispatched" /\ r.phase = "dispatching" ->
             Abandoned(Active(r, "aborted", u.what, NoCounts))
      [] u.what = "unknown" /\ r.phase = "dispatching" ->
             Abandoned(Active(r, "unknown", u.what, NoCounts))
      [] u.what = "close" /\ r.phase = "continuation" /\ NextStep(r) = 0 -> [r EXCEPT !.phase = "closed"]
      [] u.what = "abort" /\ r.phase \in {"prepared", "continuation"} ->
             Abandoned([r EXCEPT !.phase = "aborted"])
      [] OTHER -> NoReceipt
Updated(r, u) ==
    CASE r.kind = "restore" -> RestoreUpdated(r, u)
      [] r.kind = "apply" -> ApplyUpdated(r, u)
      [] r.kind = "capture" -> CaptureUpdated(r, u)

\* A workflow may not start over a receipt that is not settled.
Blocking(r) ==
    CASE r.phase = "none" -> FALSE
      [] r.kind = "restore" -> r.phase \in {"dispatching", "unknown"}
      [] OTHER -> r.phase \notin {"closed", "aborted"}
Admissible == ~doubt /\ \A id \in DOMAIN receipts : ~Blocking(receipts[id])

(***************************************************************************)
(* The workflow.                                                           *)
(***************************************************************************)
NoFlow(result) == [pc |-> "idle", result |-> result]
NewFlow(req, id) ==
    [pc |-> "read", req |-> req, kind |-> req.kind, id |-> id, parts |-> <<>>, sample |-> world,
     stamp |-> rev, strict |-> FALSE, then |-> "", tries |-> 0, original |-> world,
     expected |-> world, snap |-> <<>>, effects |-> <<>>, stage |-> 0, receipt |-> NoReceipt,
     update |-> <<>>, facts |-> 0, quiet |-> TRUE, result |-> "none"]

\* Reads in the order the code makes them.  Only capture binds them to a stamp.
SceneParts == <<"scene", "kinds", "items", "inputs">>
SnapshotParts == <<"items", "inputs">>
CaptureParts == <<"kinds", "scene", "items", "inputs">>
RebindParts == <<"kinds", "inputs", "scene", "items">>
PartOf == [scene |-> {"scene"}, kinds |-> {"kind", "uuid"}, items |-> {"scene", "items"},
           inputs |-> {"input", "window"}]
Reading(o, parts, then) == [o EXCEPT !.pc = "read", !.parts = parts, !.strict = FALSE, !.then = then]
Sampling(o, parts, then) ==
    [o EXCEPT !.pc = "stamp", !.parts = parts, !.strict = TRUE, !.then = then, !.tries = 0]

Publishing(o, update, then) == [o EXCEPT !.pc = "publish", !.update = update, !.then = then]
\* The end: a receipt that is still open is closed or aborted first.
Finish(o, result) ==
    IF o.receipt.phase \in {"prepared", "continuation"} /\ (o.kind = "capture" \/ ~doubt)
    THEN Publishing([o EXCEPT !.result = result],
             Update(IF o.kind = "capture" /\ result = "captured" /\ NextStep(o.receipt) = 0
                    THEN "close" ELSE "abort", 0, 0, NoCounts), "end")
    ELSE NoFlow(result)

StartFlow(req) ==
    LET o == NewFlow(req, Len(receipts) + 1)
        saved == SelectSeq(history, LAMBDA h : req.snapshot \in {0, h.id})
    IN CASE req.kind = "apply"    -> Reading(o, SceneParts, "first")
         [] req.kind = "snapshot" -> Reading(o, SnapshotParts, "save")
         [] req.kind = "capture"  -> Sampling(o, CaptureParts, "discover")
         [] req.kind = "restore"  ->
                IF saved = <<>> THEN NoFlow("missing")
                ELSE Reading([o EXCEPT !.snap = Last(saved)], SnapshotParts, "plan")

(***************************************************************************)
(* What follows a complete sample.                                         *)
(***************************************************************************)
\* Every owner's begin: admission, then the receipt.
Begun(o, plan) ==
    IF ~Admissible THEN NoFlow("refused")
    ELSE Publishing([o EXCEPT !.receipt = Prepared(o.kind, plan)], Update("prepare", 0, 0, NoCounts), "begun")
Dispatching(o, stage, effects) ==
    Publishing([o EXCEPT !.stage = stage, !.effects = effects],
               Update("dispatch", stage, Len(effects), NoCounts), "send")

RestorePlanned(o) ==
    LET changes == RestoreChanges(o.snap.content, o.sample) IN
    IF changes = <<>> THEN NoFlow("matches")
    ELSE IF ~o.req.apply THEN NoFlow("planned")
    ELSE Begun([o EXCEPT !.effects = changes], <<Len(changes)>>)

ApplyBegun(o) == Begun(o, <<Len(o.effects)>>)
ApplyFirst(o) ==
    LET r == o.req
        w == o.sample
        ready == [o EXCEPT !.original = w, !.effects = Creations(r, w)]
    IN IF PlanErrors(r, w) THEN NoFlow("errors")
       ELSE IF Matches(r, w) THEN NoFlow("matches")
       ELSE IF ~r.apply THEN NoFlow("planned")
       ELSE IF NeedsSnapshot(r, w) THEN Reading(ready, SnapshotParts, "save")
       ELSE ApplyBegun(ready)
\* continuation: what has to be created now is never created again.
ApplySecond(o) ==
    LET changes == Sendable(Changes(o.req, o.sample)) IN
    IF PlanErrors(o.req, o.sample) \/ Creations(o.req, o.sample) # <<>> THEN Finish(o, "stopped")
    ELSE IF changes = <<>> THEN Publishing(o, Update("close", 0, 0, NoCounts), "closed")
    ELSE Dispatching(o, 2, changes)
ApplyFinal(o) ==
    NoFlow(IF Matches(o.req, o.sample) /\ o.result # "problems" THEN "converged" ELSE "remaining")

Saved(o) ==
    LET r == o.req
        inputs == CASE o.kind = "apply"    -> SelectedInputs(r, o.original)
                    [] o.kind = "capture"  -> {r.target}
                    [] o.kind = "snapshot" -> {s \in Sources : HasItem(o.sample, s)}
    IN [id |-> o.id, auto |-> o.kind # "snapshot",
        content |-> SnapshotOf(o.sample, o.sample.scene, inputs)]

Agrees(o) == SameCapture(o.req, Inventory(o.req, o.original), o.expected, o.sample)
Existing(o) == IsInput(o.original, o.req.target)
CaptureEffects(o) == CapturePlan(o.req, o.original)
CaptureBegun(o) ==
    IF CaptureEffects(o) = <<0, 0, 0>> THEN Sampling(o, CaptureParts, "captured")
    ELSE Begun(o, CaptureEffects(o))
\* dispatch: the sample is checked once more before anything is published.
CaptureDispatch(o, stage, effects) ==
    IF rev # o.stamp THEN Finish(o, "failed") ELSE Dispatching(o, stage, effects)
CaptureInitial(o) ==
    IF CaptureEffects(o)[1] = 0 THEN Sampling(o, CaptureParts, "audio")
    ELSE CaptureDispatch(o, 1, <<InitialIntent(o.req, o.original)>>)
CaptureFit(o) ==
    IF CaptureEffects(o)[3] = 0 THEN Sampling(o, CaptureParts, "captured")
    ELSE CaptureDispatch(o, 3, <<FitIntent(o.req, o.sample)>>)
CaptureAudio(o) ==
    IF CaptureEffects(o)[2] = 0 THEN CaptureFit(o)
    ELSE CaptureDispatch(o, 2, AudioIntents(o.req, o.expected.uuid[o.req.target]))
\* After the acknowledgement of the initial step: exactly the target, with
\* exactly the wanted settings, in the scene.
Rebound(o) ==
    LET t == o.req.target
        w == o.sample
        uuid == IF Existing(o) THEN o.original.uuid[t] ELSE Last(sent).uuid
    IN IF \/ w.kind[t] # "k" \/ w.uuid[t] # uuid
          \/ SettingsOf(w, t) # o.original.window
          \/ ~w.scene \/ ~HasItem(w, t)
          \/ Existing(o) /\ Members(w, t) # Members(o.original, t)
       THEN Finish(o, "failed")
       ELSE Sampling([o EXCEPT !.expected =
                          [o.original EXCEPT !.kind[t] = w.kind[t], !.uuid[t] = w.uuid[t],
                                             !.input[t] = w.input[t], !.items = w.items]],
                     CaptureParts, "audio")

\* The last sample only tells what was reached; a screenshot may be missing.
CaptureFinal(o) == Finish(o, "captured")

Sampled(o) ==
    CASE o.then = "plan" -> RestorePlanned(o)
      [] o.then = "first" -> ApplyFirst(o)
      [] o.then = "second" -> ApplySecond(o)
      [] o.then = "final" -> ApplyFinal(o)
      [] o.then = "save" -> [o EXCEPT !.pc = "save", !.snap = Saved(o)]
      [] o.then = "discover" ->
             IF ~Discoverable(o.req, o.sample) THEN NoFlow("failed")
             ELSE Sampling([o EXCEPT !.original = o.sample, !.expected = o.sample], CaptureParts, "confirm")
      [] o.then = "rebind" -> Rebound(o)
      [] o.then \in {"confirm", "snap", "recheck", "begin", "audio", "fit", "captured"} ->
             IF o.then # "snap" /\ ~Agrees(o) THEN Finish(o, "failed")
             ELSE CASE o.then = "confirm" ->
                           IF ~o.req.apply THEN NoFlow("planned")
                           ELSE IF Existing(o) THEN Reading(o, SnapshotParts, "snap")
                           ELSE Sampling(o, CaptureParts, "begin")
                    [] o.then = "snap" ->
                           IF rev # o.stamp THEN NoFlow("failed")
                           ELSE Sampling([o EXCEPT !.snap = Saved(o)], CaptureParts, "recheck")
                    [] o.then = "recheck" -> [o EXCEPT !.pc = "save"]
                    [] o.then = "begin" -> CaptureBegun(o)
                    [] o.then = "audio" -> CaptureAudio(o)
                    [] o.then = "fit" -> CaptureFit(o)
                    [] o.then = "captured" -> CaptureFinal(o)

(***************************************************************************)
(* The steps.                                                              *)
(***************************************************************************)
Run ==
    /\ flow.pc = "idle" /\ script.runs # <<>>
    /\ script' = [script EXCEPT !.runs = Tail(@)]
    /\ flow' = StartFlow(Head(script.runs))
    /\ receipts' = Append(receipts, NoReceipt)
    /\ UNCHANGED <<world, pending, rev, told, history, doubt, sent>>

\* Reader::begin: synchronize and take the stamp.
Stamp ==
    /\ flow.pc = "stamp"
    /\ flow' = [flow EXCEPT !.pc = "read", !.stamp = rev]
    /\ told' = FALSE
    /\ UNCHANGED <<outside, history, receipts, doubt>>

\* fresh: a sample lost to an announcement is taken again after an
\* acknowledged effect, a bounded number of times.
Lost(o) ==
    IF o.facts > 0 /\ o.tries < MaxResamples /\ o.then \in {"audio", "fit", "captured"}
    THEN [o EXCEPT !.pc = "stamp", !.tries = @ + 1,
                   !.parts = CaptureParts]
    ELSE Finish(o, "failed")
\* One read of OBS, and the identities compared before anything else is read.
ReadPart ==
    /\ flow.pc = "read" /\ flow.parts # <<>>
    /\ LET part == Head(flow.parts)
           o == [flow EXCEPT !.parts = Tail(@),
                     !.sample = [f \in DOMAIN @ |-> IF f \in PartOf[part] THEN world[f] ELSE @[f]]]
       IN flow' = IF flow.strict /\ rev # flow.stamp THEN Lost(flow)
                  ELSE IF /\ flow.strict /\ part = "kinds" /\ flow.then \notin {"discover", "rebind"}
                          /\ ~SameIdentity(o.req, Inventory(o.req, o.original), o.expected, o.sample)
                  THEN Finish(flow, "failed")
                  ELSE o
    /\ UNCHANGED <<outside, told, history, receipts, doubt>>

SampleComplete ==
    /\ flow.pc = "read" /\ flow.parts = <<>>
    /\ flow' = IF flow.strict /\ rev # flow.stamp THEN Lost(flow) ELSE Sampled(flow)
    /\ UNCHANGED <<outside, told, history, receipts, doubt>>

\* A read ends with the deadline, a cancellation or the session.
FlowFails ==
    /\ flow.pc \in {"read", "stamp"}
    /\ flow' = Finish(flow, "failed")
    /\ UNCHANGED <<outside, told, history, receipts, doubt>>

\* SnapshotFile::save: refused before the rename, in doubt after it, or saved.
Save(outcome) ==
    /\ flow.pc = "save"
    /\ history' = IF outcome = "unchanged" THEN history
                  ELSE Prune(Append(history, flow.snap), MaxAuto, MaxUser)
    /\ flow' = IF outcome # "saved" THEN NoFlow("failed")
               ELSE CASE flow.kind = "apply" -> ApplyBegun(flow)
                      [] flow.kind = "capture" -> Sampling(flow, CaptureParts, "begin")
                      [] flow.kind = "snapshot" -> NoFlow("saved")
    /\ UNCHANGED <<outside, told, receipts, doubt>>

AfterPrepared(o) ==
    CASE o.kind = "restore" -> Dispatching(o, 1, o.effects)
      [] o.kind = "capture" -> CaptureInitial(o)
      [] o.kind = "apply" ->
             IF o.effects # <<>> THEN Dispatching(o, 1, o.effects)
             ELSE Publishing(o, Update("ready", 0, 0, NoCounts), "ready")
\* A stage is settled: go on only if all of it succeeded.
RestoreSettled(clean) == NoFlow(IF clean THEN "restored" ELSE "partial")
ApplySettled(o, clean) ==
    IF o.stage = 2 THEN Reading([o EXCEPT !.result = IF clean THEN "none" ELSE "problems"], SceneParts, "final")
    ELSE IF clean THEN Reading(o, SceneParts, "second") ELSE NoFlow("stopped")
CaptureSettled(o, clean) ==
    IF ~clean THEN NoFlow("failed")
    ELSE IF o.stage = 1 THEN Sampling(o, RebindParts, "rebind")
    ELSE Sampling(o, CaptureParts, IF o.stage = 2 THEN "fit" ELSE "captured")
AfterFrame(o) ==
    LET clean == Clean(o.update.counts) IN
    IF o.update.what # "acknowledged" THEN NoFlow(o.update.what)
    ELSE CASE o.kind = "restore" -> RestoreSettled(clean)
           [] o.kind = "apply" -> ApplySettled(o, clean)
           [] o.kind = "capture" -> CaptureSettled(o, clean)
\* What follows a publication.
Published(o) ==
    CASE o.then = "begun" -> AfterPrepared(o)
      [] o.then = "settled" -> AfterFrame(o)
      [] o.then = "ready" -> Reading(o, SceneParts, "second")
      [] o.then = "closed" -> Reading(o, SceneParts, "final")
      [] o.then = "send" -> [o EXCEPT !.pc = "send"]
      [] o.then = "end" -> NoFlow(o.result)

\* prepare_* and update_*: the file must hold what the owner knows, the update
\* must be legal, and the publication may fail with the old or the new content
\* on disk; any failure makes the view uncertain.
Publish(outcome) ==
    /\ flow.pc = "publish"
    /\ LET prepare == flow.update.what = "prepare"
           new == IF prepare THEN flow.receipt ELSE Updated(flow.receipt, flow.update)
           legal == new # NoReceipt /\ Checked(new)
                    /\ receipts[flow.id] = IF prepare THEN NoReceipt ELSE flow.receipt
       IN IF legal /\ outcome = "published"
          THEN /\ receipts' = [receipts EXCEPT ![flow.id] = new]
               /\ flow' = Published([flow EXCEPT !.receipt = new]) /\ UNCHANGED doubt
          ELSE /\ receipts' = IF legal /\ outcome = "doubtful" THEN [receipts EXCEPT ![flow.id] = new]
                             ELSE receipts
               /\ doubt' = TRUE
               /\ flow' = IF prepare \/ flow.kind # "capture" \/ flow.then = "end" THEN NoFlow("unpublished")
                          ELSE Finish(flow, "unpublished")
    /\ UNCHANGED <<outside, told, history>>

\* The guard that runs when the frame is about to leave.
Guard ==
    /\ receipts[flow.id].phase = "dispatching"
    /\ flow.kind = "capture" => rev = flow.stamp
\* Refused for the policy, a cancellation, the deadline or the evidence; or sent.
SendFrame(refused) ==
    /\ flow.pc = "send"
    /\ IF refused \/ ~Guard
       THEN /\ flow' = Publishing(flow, Update("notdispatched", 0, 0, NoCounts), "settled")
            /\ UNCHANGED sent
       ELSE /\ flow' = [flow EXCEPT !.pc = "wait"]
            /\ sent' = Append(sent, [id |-> flow.id, stage |-> flow.stage, effects |-> flow.effects,
                    halt |-> Halts(flow.kind, flow.stage), fate |-> "sent", rows |-> <<>>, uuid |-> 0])
    /\ UNCHANGED <<script, world, pending, rev, told, history, receipts, doubt>>

\* Fault seed: a frame without an answer counts as not sent.
OutcomeOfSilence == "notdispatched"
\* What is recorded of a frame that got no answer.
SilentOutcome == "unknown"
CountsOf(rows, n) ==
    LET ok == Len(SelectSeq(rows, LAMBDA x : x)) IN <<ok, Len(rows) - ok, n - Len(rows)>>
\* The rows of the batch, or none before the deadline or the disconnection.
Replied(answered) ==
    /\ flow.pc = "wait"
    /\ answered => Last(sent).fate = "done"
    /\ flow' = IF answered
               THEN Publishing([flow EXCEPT !.facts = @ + 1],
                        Update("acknowledged", 0, 0, CountsOf(Last(sent).rows, Len(flow.effects))), "settled")
               ELSE Publishing(flow, Update(SilentOutcome, 0, 0, NoCounts), "settled")
    /\ doubt' = (doubt \/ (~answered /\ flow.kind # "restore"))
    /\ UNCHANGED <<outside, told, history, receipts>>

(***************************************************************************)
(* OBS, its user and the process.                                          *)
(***************************************************************************)
Disturbed(o) == IF o.pc = "idle" THEN o ELSE [o EXCEPT !.quiet = FALSE]
Spend(what) == script[what] > 0 /\ script' = [script EXCEPT ![what] = @ - 1]
\* A frame runs whenever OBS gets to it; a request may be refused although it
\* could have been done.
ObsRuns(n, refused) ==
    /\ sent[n].fate = "sent"
    /\ LET x == sent[n]
           done == RunBatch(world, x.effects, x.halt, refused)
           target == x.effects[1].src
       IN /\ world' = done.world
          /\ pending' = IF done.world = world THEN pending ELSE Append(pending, FALSE)
          /\ sent' = [sent EXCEPT ![n] = [x EXCEPT !.fate = "done", !.rows = done.rows,
                 !.uuid = IF target = 0 THEN 0 ELSE done.world.uuid[target]]]
    /\ IF refused = {} THEN UNCHANGED <<script, flow>> ELSE Spend("refusals") /\ flow' = Disturbed(flow)
    /\ UNCHANGED <<rev, told, history, receipts, doubt>>
FrameLost(n) ==
    /\ sent[n].fate = "sent" /\ Spend("refusals")
    /\ sent' = [sent EXCEPT ![n].fate = "lost"]
    /\ flow' = Disturbed(flow)
    /\ UNCHANGED <<world, pending, rev, told, history, receipts, doubt>>

\* The user changes a field, replaces an input by another of its name, removes
\* or moves an item, closes the window or another one takes its title.
Edits(w) ==
    {[w EXCEPT !.input[s][f] = (@ + 1) % 2] : s \in {x \in Sources : IsInput(w, x)}, f \in {"settings", "muted"}}
    \union {[w EXCEPT !.uuid[s] = @ + 1, !.input[s] = Defaults, !.items = SelectSeq(@, LAMBDA x : x.src # s)] :
                s \in {x \in Sources : IsInput(w, x)}}
    \union {[w EXCEPT !.items = RemoveAt(@, i)] : i \in 1..Len(w.items)}
    \union {[w EXCEPT !.items[i].geometry = (@ + 1) % 2] : i \in 1..Len(w.items)}
    \union {[w EXCEPT !.window = (@ + 1) % 3]}
UserEdits(w) ==
    /\ Spend("edits") /\ w # world
    /\ world' = w /\ pending' = Append(pending, TRUE) /\ flow' = Disturbed(flow)
    /\ UNCHANGED <<rev, told, history, receipts, doubt, sent>>

Announced ==
    /\ pending # <<>>
    /\ pending' = Tail(pending) /\ rev' = rev + 1 /\ told' = (told \/ Head(pending))
    /\ UNCHANGED <<script, world, history, receipts, doubt, flow, sent>>

FlowCrash ==
    /\ flow.pc # "idle" /\ Spend("crashes")
    /\ flow' = NoFlow("crashed") /\ doubt' = FALSE /\ told' = FALSE
    /\ UNCHANGED <<world, pending, rev, history, receipts, sent>>

(***************************************************************************)
(* The specification.                                                      *)
(***************************************************************************)
FlowInit(s) ==
    /\ script = s /\ world = s.world /\ history = s.history
    /\ pending = <<>> /\ rev = 0 /\ told = FALSE
    /\ receipts = <<>> /\ doubt = FALSE /\ flow = NoFlow("none") /\ sent = <<>>

FlowNext ==
    \/ Run \/ Stamp \/ ReadPart \/ SampleComplete \/ FlowFails
    \/ \E outcome \in {"unchanged", "doubtful", "saved"} : Save(outcome)
    \/ \E outcome \in {"unchanged", "doubtful", "published"} : Publish(outcome)
    \/ \E refused \in BOOLEAN : SendFrame(refused)
    \/ \E answered \in BOOLEAN : Replied(answered)
    \/ \E n \in 1..Len(sent) :
           \/ FrameLost(n)
           \/ ObsRuns(n, {})
           \/ \E i \in 1..Len(sent[n].effects) : ObsRuns(n, {i})
    \/ \E w \in Edits(world) : UserEdits(w)
    \/ Announced \/ FlowCrash

(***************************************************************************)
(* Properties.                                                             *)
(***************************************************************************)
(* ReceiptsAreHonest: whatever failed or crashed, the receipt on disk never  *)
(* denies a frame that left, its counts are those of OBS's own rows, and a   *)
(* frame that OBS may still run keeps every later workflow out.              *)
ReceiptsAreHonest ==
    \A n \in 1..Len(sent) :
        LET x == sent[n]
            r == receipts[x.id]
        IN /\ r # NoReceipt /\ r.stages[x.stage].phase \in {"dispatching", "acknowledged", "unknown"}
           /\ r.stages[x.stage].phase = "acknowledged" =>
                  x.fate = "done" /\ r.stages[x.stage].counts = CountsOf(x.rows, Len(x.effects))
           /\ x.fate = "sent" => Blocking(r)

\* What undoing the workflow would start from: its own saved snapshot.
UndoOf(id) == {h \in Range(history) : h.id = id /\ h.auto}
(* FramesHaveTheirGrounds: when a frame leaves, its receipt is durably       *)
(* dispatching after stages that fully succeeded, every earlier frame has    *)
(* run to its end and belongs to another stage, and what existed has an undo *)
(* snapshot: one that holds exactly what is about to change if nobody        *)
(* interfered, and in any case the settings that a capture replaces unless   *)
(* OBS has not yet announced the change.  No frame of a capture leaves after *)
(* a change by the user was announced since its last sample began.           *)
FramesHaveTheirGrounds ==
    [][Len(sent') > Len(sent) =>
           LET x == Last(sent')
               r == receipts[x.id]
               first == \A n \in 1..Len(sent) : sent[n].id # x.id
               settled(h) == h.content.input[flow.req.target]["settings"]
           IN /\ r.phase = "dispatching" /\ r.active = x.stage
              /\ \A i \in 1..(x.stage - 1) : StageOk(r.stages[i])
              /\ \A n \in 1..Len(sent) : sent[n].fate = "done" /\ <<sent[n].id, sent[n].stage>> # <<x.id, x.stage>>
              /\ flow.kind = "apply" /\ NeedsSnapshot(flow.req, flow.original) => UndoOf(x.id) # {}
              /\ flow.kind = "capture" => ~told /\ (Existing(flow) => UndoOf(x.id) # {})
              /\ first => \A h \in UndoOf(x.id) :
                     /\ flow.quiet => RestoreChanges(h.content, world) = <<>>
                     /\ flow.kind = "capture" /\ TRUE \notin Range(pending) =>
                            settled(h) = SettingsOf(world, flow.req.target)]_flowVars

(* WorkflowsConverge: if neither the user nor a refusal of OBS interferes, a *)
(* workflow that gets to its end has made OBS what was asked for: every      *)
(* request was accepted, an applied scene needs no further change, a         *)
(* restored snapshot has nothing left to restore, a capture shows its window.*)
WorkflowsConverge ==
    [][flow.pc # "idle" /\ flow'.pc = "idle" /\ flow.quiet =>
           /\ flow'.result \notin {"remaining", "partial", "stopped"}
           /\ flow'.result = "converged" => Matches(flow.req, world)
           /\ flow'.result = "restored" => RestoreChanges(flow.snap.content, world) = <<>>
           /\ flow'.result = "captured" => Captured(flow.req, world)]_flowVars
=============================================================================
