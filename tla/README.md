# OBS-MCP in TLA+

OBS-MCP is a Model Context Protocol server that lets several agents drive one
OBS Studio. The Rust implementation under `native/` is the subject of this
project; the TypeScript one under `src/` of the repository is its oracle and is
not modelled. The server has to be careful for one reason: an OBS request that
was sent cannot be taken back, a reply can be lost, and a recording belongs to
whoever started it. Everything modelled here is about knowing what was sent,
remembering it, and stopping only one's own recording.

## 1. Inventory

Paths are relative to `native/src/`.

| Part | State it keeps | Operations | Talks to | What makes it correct |
|---|---|---|---|---|
| `session.rs` | three bounded lanes, one active command per lane, an atomic admission state and a one-shot reply per command, event cursor, terminal reason | submit, prepare and claim a dispatch, write, flush, route a reply, expire, retire, drain, shut down, abort | every other part submits to it; OBS answers | a caller told *before dispatch* has nothing on the wire; answers reach their own request; a reserved Stop never waits for ordinary work; nobody is stranded |
| `operation_store.rs` | one receipt file per operation, a read view | inventory, admission, publish (temporary file, rename, two syncs) | broker, take supervisor | a receipt never denies a frame that may have been sent, whatever fails |
| `receipt_broker.rs`, `custody.rs`, `generic_requests.rs` | lent scopes, reserved Stop capacity, poison flag, drivers | scope, prepare, fence, record verdict, drop | store, session | at most one ordinary effect of unknown fate; a public Stop overtakes only live owners; a live take has room for its Stop receipt |
| `takes.rs`, `take_transport.rs`, `record_clip.rs` | current take, start reservation, continuity, stop attempt, deadline and its worker, cached result, lease | start, clip, stop, mark, status, observe an event, fire a deadline, shut down | session, store, control, monitor, impact registry | stops only its own recording, never replays a Stop, serves every deadline, shutdown ends |
| `record_impact.rs` | last attempt, pending attempt, revocation watermark | reserve a ticket, begin at send, settle, check | manual StopRecord, takes | a manual Stop suspends and, unless it was never sent, revokes every older ticket |
| `output_start.rs`, output and replay transport | event subscription, deadline | start and confirm | session, events | a start is confirmed by an event or a status, not by its acknowledgement |
| `service_events.rs`, `session_observation.rs`, `observation.rs` | applied and published cursors, revision, evidence | publish, apply, synchronize, fence | session, takes, readers | evidence is never older than an event received before it |
| `control.rs`, `confirmation.rs` | control lease, take lock, continuations | claim, release, evaluate, answer | every mutation | policy is evaluated again at the moment of sending |
| `service.rs` and read workflows | job slots, actor queue | admit, run, cancel, shut down | all of the above | bounded slots, Stop always admitted, ordered shutdown |
| `preparation_journal.rs`, `demo.rs` | journal of attempts per field | prepare, recover | store, session | recovery never restores what it does not own |
| `stage`, `apply_scene`, `capture_window`, `restore`, snapshots | multi-step plans and their receipts | plan, apply, compensate, capture, restore | session, broker | partial application is reported and never repeated blindly |
| `native_host.rs`, `native_service.rs`, `native_connect.rs` | frontends, admissions, connection generation | connect, admit, disconnect, shut down | service, transports | a departing frontend frees only its own work; everything is joined |
| `resource_events.rs`, `resource_notifications.rs` | registrations, subscribed resources, a bounded queue of frozen publications, the first failure | plan and commit a registration, cancel, publish, drain, close | events, transports | a listener hears what was published while it stood, in order, or its stream ends |
| `dynamic_visibility.rs`, `dynamic_tools.rs` | the switch of each group of tools | switch, list | frontend on the pipe | a changed catalogue is announced before it is used |
| `stdio_output.rs` | bounded entries of one writer, reserved places | reserve, commit, write, fail | frontend loop | nothing half reserved becomes visible |
| `http_*` | connections, bodies, routes, sinks, streams, reserved places of the two stop classes | accept, read, open, submit, emit, reap, deliver, tick, close | host, router | the reply of an admitted stop finds room; a departed client gives everything back |
| `trim.rs`, `media_*` | child processes, staged files | trim, inspect, verify | file system, ffmpeg | a finished file is never overwritten |
| `preflight`, `scene_audit`, protocol, schema, validation, config, JSON | none shared | pure conversion and aggregation | | |

Hard behaviour, by kind:

* interleaving: callers against the socket actor; five kinds of caller of
  `stop_take`; manual and owned Stop; drivers at the dispatch fence; departures
  and cancellations against jobs; other programs against private files;
* unreliable delivery and timeouts: replies lost, late, duplicated, or early
  (before the flush of their own frame); events behind a reply;
* crashes: between intent and send, between rename and directory sync, between
  two fields of a preparation;
* partial failure: a receipt that cannot be written after the effect happened;
* ordering: start's last await against a stop that is already done; an
  acknowledgement against notifications frozen before it;
* stale state: samples, stage tokens, leases and plans used after an await;
* resource limits: item permits, receipt directory, deadline slot, places of
  jobs, packets and connections exactly when a Stop arrives;
* liveness: Stop behind ordinary work, suspended deadlines, shutdown.

`PROJECT.json` lists each hazard at its line with the properties that cover it,
or says why none does.

## 2. Modules

| Module | Models | Extends or uses |
|---|---|---|
| `Session` | `session.rs`: socket actor, lanes, callers, peer | `Rpc` through a refinement mapping |
| `Rpc` | the contract `RequestError` states | |
| `SessionProofs` | theorems about `Session` | `Session` |
| `Receipts` | `operation_store.rs`, `receipt_broker.rs`, `custody.rs`, the executor of `generic_requests.rs`, the journal of `takes.rs` | the transport verdicts of `Rpc` |
| `ReceiptsProofs` | theorems about `Receipts` | `Receipts` |
| `Takes` | `takes.rs`, `record_impact.rs`, the record part of `output_start.rs`, the take feed of `service_events.rs` | |
| `TakesProofs` | theorems about `Takes` | `Takes` |
| `Observation` | `session_observation.rs`, the hub and subscriptions of `service_events.rs`, `output_events.rs`, `replay_events.rs`, the sampling of `observation.rs` and `production_observation.rs` | |
| `Control` | `control.rs` | |
| `Stage` | `stage.rs`, `stage_transport.rs` | `Observation`, `Control` |
| `EvidenceProofs` | theorems about `Observation`, `Control` and `Stage` | `Stage` |
| `Host` | `native_host.rs`, `native_connect.rs`, `confirmation.rs`, the runtime in `native_service.rs` | `Control` |
| `Service` | `service.rs` | |
| `Notices` | `resource_events.rs` | |
| `Pipe` | the loop of `native_service.rs`, `resource_notifications.rs`, `stdio_output.rs`, `dynamic_*.rs` | `Notices` |
| `Web` | `http_ingress.rs`, `http_tcp.rs`, `http_bridge.rs`, `http_sink.rs`, `http_resources.rs` | `Notices` |
| `Serving` | the serving side | `Host`, `Service`, `Pipe`, `Web` |
| `HostProofs` | theorems about `Host`, as part of `Serving` | `Serving` |
| `ServiceProofs` | theorems about `Service`, as part of `Serving` | `Serving` |
| `Preparation` | `demo.rs`, `demo_transport.rs`, `preparation_journal.rs` | |
| `Scenes` | the planners `apply_scene.rs`, `snapshots.rs`, `capture_window.rs` | |
| `Workflows` | the `*_workflow.rs` and `*_transport.rs` of apply, capture and restore, `snapshot_tools.rs`, their receipts in `operation_store.rs` | `Scenes` |
| `Cuts` | the trim planner of `trim.rs`, the still tracker of `take_monitor.rs` | |
| `Process` | `media_verification.rs`: one child process | |
| `Media` | `media_tools.rs`, `media_backend.rs`, the export of `trim.rs` | the ends of `Process` |
| `Outputs` | `replay_save.rs`, `replay_files.rs`, `output_start_v2.rs`, `output_transport.rs` | |
| `Plans` | the workflows of many steps | the six before it |
| `FilesProofs` | theorems about `Process`, `Media` and `Outputs`, as parts of `Plans` | `Plans` |
| `JournalProofs` | theorems about `Preparation` and `Workflows`, as parts of `Plans` | `FilesProofs` |
| `MC*` | constants for TLC | |

### Session

`caller`, `outcome`, `state` and `reply` are the caller's future, its result,
the `AtomicU8` admission state and the one-shot channel; `queue`, `slot`,
`current`, `flushed`, `early` are the actor's lanes, its active commands, the
command being written, completed frames and the deferred early reply; `actor`
says where `actor`/`send_active`/`drive` are. `onWire` and `answer` are the
peer's side and exist in no variable of the code. One action per step at which
another task can intervene: a caller that gives up closes its receiver and only
then tries QUEUED to ABANDONED; the actor tries QUEUED to DISPATCHING after the
guard and before the first byte. The interleaving is finer than a
current-thread runtime needs, because `session.rs` uses atomics and does not
rely on one.

`Rpc` states the promise: *before* only if nothing was or will be written, an
answer only if it is the peer's for that request. `ImplementsRpc` maps
`wire <- onWire`, `told <- outcome`, `answer <- answer`.

### Receipts

`disk` is what readers of the directory see, `synced` what a power loss
preserves. A publication fails before the rename (old file stays), or after it
(new file visible, old one possibly back after a power loss), and poisons the
process. `Crash` loses every process variable, `PowerLoss` also the unsynced
renames. `driver` is the position of a driver: prepared, intent, in flight,
answered, accepted, settled. `Permits` is `DispatchFence::permits`, run again
just before the frame.

### Takes

The runtime is `current_thread` (`main.rs`), so an action is what one task does
between two awaits. `rec` is the recording OBS makes, named by the take that
started it (or `Foreign`); record events go through `wire` (sent by OBS), `feed`
(received, cursor advanced) and `cont` (applied by `observe`). `take` holds the
fields of `struct Take`, `start` the reservation and the program counter of
`start_reserved_core`, `job` every task in `stop_take`, `run` the single
`stop_once`, `slot` the deadline worker's slot, `impact` the registry. A guard
`feed = <<>>` is the fence `ready_at_cursor`: the supervisor has applied every
received event. `touched` and `served` are history variables for properties.

Each `wait_impact` or `wait_take_impact` is a gate: ready passes at once,
suspended parks, revoked refuses; a parked task wakes when the registry changed
or its bound is over. Left out: meters, pictures, texts, the verdict of the file
inspection, Status and Mark (they change none of this state), and the emergency
`Drop` of the supervisor.

### Observation, Control, Stage

`obs` is OBS itself, one bit per field; `wire` and `inbox` hold events and
replies between OBS, the socket and the observer. The session advances its
cursor on receipt, the observer publishes later, and every reader must close
that gap: a sample freezes a revision, reads, waits until the observer has
published up to the cursor and compares the revision; the take feed and the
waiters for outputs and replays wait at the same barrier. `Stage` runs its two
calls on top of that sample and of `Control`: the policy is evaluated at
admission and once more at the dispatch guard, while the lease changes hands.
`Takes` uses the barrier as its fence `feed = <<>>`; `TakeFenceMeansApplied`
is the statement that justifies it.

### Host and Service

`Host` is the one owner behind the frontends. A call is prepared, authorized
and dispatched in one turn (`turn`), which an await of dispatch may hold while
frontends depart and jobs end; `asks` are the continuations that wait for an
answer, `attempts` and `runtime` the one retained connection attempt, `ran` the
history of what was executed. `Service` has the actor's inbox, its two waiting
queues, the jobs of five lanes and the owners it lends (`prep`, `machine`, the
take supervisor); a request is its kind. The two meet in one assumption: `Host`
takes for granted that a call to the service is answered, and `Service` shows
it.

### Notices, Pipe, Web

`router` holds registrations and the queue, `due` is the history of what every
registration is owed. Planning, reserving and committing a registration is one
step because the runtime is `current_thread`; so is a publication, whose
recipients are frozen. `Pipe` reads, flushes what is queued, reserves room and
commits in one turn, and whatever ends the loop closes the router and flushes
once more; its lines are `pipe.seen` (written, without plain replies) and `pipe.entries` (owned by the
writer). `Web` follows one exchange per connection: `at` is the driver, `sink`
the packets charged to it, `route` its route in the bridge, `jobs` the calls
the host runs for it, `registry` the streams.

### Preparation, Scenes and Workflows

`Preparation` sets a few fields one by one and journals each step before and
after its frame; recovery may run in another process after a crash, with the
fields changed by the user in between. `Scenes` are the three pure planners
together with what OBS does with their effects; `Workflows` runs them: read
part by part, save the undo snapshot, publish a receipt before and after each
frame, read again, with edits of the user, lost frames, failed publications,
deadlines and crashes in between. A journal or receipt has a visible and a
synced version, as in `Receipts`.

### Cuts, Process, Media, Outputs

`Cuts` decides from pictures and silences what to cut; `Process` drives one
child with its two pipes, a deadline, a cancellation and the two signals;
`Media` is one operation with its private files: names and contents are apart
(`disk.names`, `disk.version`), and other programs rewrite, replace and remove
files at any step. `Outputs` has the verified replay save, on such files too,
and the confirmed output start.

Definitions introduced by a comment "Fault seed" are wrong versions of the
definition that follows them. No specification uses them; each shows that a
property notices the mistake.

## 3. Runs

All runs use `tlc -workers 2`. Deadlock checking is off because each system may
stop (session terminated, drivers settled, supervisor closed); that nothing is
stuck earlier is a matter of the liveness properties.

| Run | Instance | Shows |
|---|---|---|
| `session` (0.7 M states) | one observation, one owned Stop, every fault | `TypeOK`; `BeforeDispatchIsHonest`; `AnswerIsPeersOwn`: an answer reaches its own request and one that comes before its frame is flushed is kept until then; `StoppedLeavesNoOrphan`; `ObservationExpiresAlone`: only an unfinished write or an effect retires the connection; `ImplementsRpc` |
| `session_progress` (0.2 M) | a batch, an observation, a reserved Stop, fairness | `StopLanesNeverWaitForOrdinaryWork`; `LeasesComeBack`: permits are never lost |
| `receipts` (0.3 M) | a generic effect, a critical one and a public Stop, two faults | `TypeOK`; `HistoryNeverDeniesASend`; `OneUnresolvedEffect`; `PublicStopOvertakesOnlyLiveOwners` |
| `receipts_take` (41 K) | start, stop, restart of a take beside a generic effect in a directory of four files | `ReservedStopHasRoom` |
| `takes` (0.5 M) | one take with a chapter or as a clip, one Stop call, one disturbance of any kind | `TypeOK` with one attempt at a time; `StopsOnlyItsOwnRecording`; `StopIsNeverReplayed`; `ManualStopVetoesOwnedStop` |
| `takes_deadline` (0.3 M) | two timed takes | `ConfirmedMeansStopped`; `NoDeadlineIsForgotten` |
| `takes_progress` (0.2 M) | one timed take, one manual Stop, fairness | `DueDeadlineIsServed`; `ShutdownCompletes` |
| `takes_lease`, `takes_unsent` | one take, one Stop call, no disturbance | the two findings below |
| `evidence` (1.4 M) | one client at a time: a sample of two reads, an output waiter, a replay waiter, the take feed, the stage with two callers and a lease | `EvidenceTypeOK`; `SampleIsOneMoment`: what a report combines was true at one moment; `TakeFenceMeansApplied`; `OutputOutcomeIsHonest`: no expiry while a terminal event was received in time; `ReplayPathIsTheOnlyOne`; `EffectRestsOnFreshEvidence`: a mutation goes out only when no structural event came after the inspection, nobody else holds the lease and the call is not cancelled, and a token is used once; `StageReceiptIsHonest`: the receipt of a finished call does not deny what was sent, even when its last update was refused |
| `serving` (0.4 M) | a host with six scripts of clients; a service with every order of two requests of any kind and of three that compete; the pipe with a legacy or a modern client, a queue of two, a writer of two places and three publications; an HTTP server with three mixes of three clients; fairness | `ServingTypeOK`; `ConsentIsSpentOnce`: one answer authorizes one invocation of what was asked; `WritersDoNotOverlap`; `PipeIsExact`: a listener hears what was published while it stood, in order and after its own acknowledgement, with a gap only at the very end, and a changed catalogue is announced; `WebIsExact`; `RepliesAreExact`; `StopRefusedOnlyByStop`; `ServingCompletes` |
| `plans` (0.6 M) | one kind of workflow per behaviour, see `MCPlans` | `PlanReceiptsAreHonest`; `ExportsAreFaithful`; `EffectsHaveTheirGrounds`; `PlansAreSound`: only what was still and silent is cut, and the rounded timeline fits together (`StillsAreStill`, `CutsAreSound`), a frame of a scene workflow leaves only with its durable receipt, its undo snapshot and a sample nobody was told to be stale (`FramesHaveTheirGrounds`), and a scene workflow in which nobody interfered leaves nothing to do for the same request (`WorkflowsConverge`) |

**Bounds.** Session: two or three requests suffice because commands of a lane
are served one after another and lanes meet only in the actor; one permit makes
a lane full. Receipts: three operations give every pair of driver kinds and the
public Stop, two faults give a failed publication followed by a crash or power
loss. Takes: `MaxTrouble` bounds disturbances, `Disturbances` selects their
kinds (a foreign recording, a manual Stop, a failed publication, a lost
connection); what the recording itself does is unbounded. One disturbance is
enough for every fault seed to be noticed; larger instances (two disturbances;
a timed take with a Stop call and every disturbance, 5.5 M states; two timed
takes with every disturbance, 10 M states) were explored once with the same
safety properties and no violation, and are too slow to keep. Two takes are
needed where the state of an old take can leak into the next: the cached result
and the deadline slot. Evidence: three changes let a field change and change
back around a read; one or two are enough for the clients that read once.
Serving: every cap is one or two so that a single request more fills it; three
clients give an ordinary connection, a full house and an emergency one; three
events overflow a queue of two, in which two frozen publications wait in their
order, and two fill a stream over HTTP; three requests on the pipe give a
registration, its end and a second one of the same identity. Plans: two fields
are a finished and an unfinished step; one crash, two processes; scenes of two sources, where
ordering, removal and creation already conflict; recordings of eight pictures,
every sequence of them, against hand-picked parameters with odd remainders; one
interference (two for media) by other programs at every step.

**Fairness.** `Session!FairSpec`: the actor's task is polled while it can move
and each caller's wakeups are delivered; the peer need not answer and deadlines
need not pass. `Takes!FairSpec`: tokio polls every woken task and every await of
`takes.rs` carries a timeout (`bounded`, `timeout_at`, the request deadlines of
the session, the bounded wait of `wait_impact`), so start, stop, clip and
manual attempts move on. `Joined` is strongly fair: the run queue is first in,
first out, so a woken waiter runs before a later caller can begin another
attempt. The operator, OBS, the connection and the clock get no fairness.
`Serving!Fairness`: a spawned task ends, because each of its awaits has a
deadline or a cancellation; the owners' loops poll what they join, take the
next command and go on with a shutdown; the bridge ticks (`next_tick` is a
branch of its `select!`). Clients get none, and neither does the peer that
reads the pipe, so nothing is claimed about when its lines are written.

**Exempt from `StopsOnlyItsOwnRecording`.** Events carry no recording identity.
A stop the operator makes is therefore invisible until its event is received
(the property speaks of sends with nothing on the wire), and a Start that OBS
accepted without ever becoming active can be confused with a recording started
by somebody else right after it.

**What the other runs do not claim.** Modelling showed where the code promises
less than one might read into it; the properties are stated accordingly.

* Service: if a job other than a take job fails to join while a take job runs,
  the count of take jobs is wrong and the supervisor is never retired; a failed
  initialization of the take leaves `take_initializing` set, and queued generic
  calls wait until shutdown. Completion is claimed while no task has failed. A
  planned workflow is applied without another look at a safety stop that began
  meanwhile. Media may overlap a replay save or a start. Dropping the service without a shutdown (`Drop`, which aborts) is not
  modelled.
* Host: the table of continuations has no reserved place, so a stop that must
  be asked about can be refused there. A prepared stop of more than 64 KiB is
  refused the reserved permit for waiting for the connection
  (`native_host.rs:335`); prepared calls are small in the model.
* Pipe: when a publication finds no room the loop ends, and the last flush,
  which has the places of waiting replies again, may write a later publication.
  That single gap, the last thing a listener gets, is allowed (`OneGap`, after
  `pipe.refused`); on every other way out of the loop there is none. The reply
  of a job does not wait for queued notifications.
* Web: emergency connections begin where ordinary ones end, so a stop on an
  ordinary connection can be refused while the ordinary bodies are exhausted.
  Stop replies are assumed to fit their 64 KiB.
* Workflows: the reads of apply and restore are not bound to a revision, and
  the undo snapshot of a capture may be stale in mute, tracks and geometry; an
  apply whose frames were acknowledged with failures still closes its receipt;
  a receipt left open by a crash blocks later workflows for good. The bounded
  loop in which `readback` of a capture samples until the scene settles is one
  sample, taken at any later moment. `RestoreUpdated` keeps the store's update of
  a prepared receipt to not dispatched, which no workflow asks for. A preparation
  is complete only when every field was journalled and the last reading shows
  every desired value (`Compared`). Ordering does not converge for a source that is listed twice while others are removed, so
  the worlds have none.
* Trim and media: a wholly idle recording with nothing to keep is cut entirely
  and ffmpeg then fails; an export that is committed while the cleanup of its
  preview is unconfirmed does not say so; the encoder writes by name. A check
  of metadata and the system call after it are one step, and every write is
  assumed to change size or time; that a
  file is renamed away and back is not modelled.
  A stage that could not be cleaned is cleaned once more when it is dropped
  (`DropStage`), and nobody is told how that ended; the same holds for an export
  refused after its stage was made (`RefuseExport`).
* Outputs: a save whose completion fails in its last sync is closed, its active
  mark gone, and loses its verdict; a start that finds no fence after its record
  said dispatching is told as not sent, and the record bars later starts. An
  output that starts and stops between subscription and dispatch can be reported
  as started; a save may be recorded as verified while its
  client is told otherwise, when the mark of the active attempt cannot be
  removed.

**Findings.**

1. `takes_lease`: the README of the repository says `obs-take-start` claims
   control for the length of the take. If the take is stopped while its start
   still awaits the first chapter (`mark_take`), the stop has no lease to
   release, and `start_report` afterwards claims one for 240 minutes for a take
   that is over.
2. `takes_unsent`: after OBS rejected a Stop, the receipt keeps
   `requestAccepted = false`; the next attempt reuses it, and if that one is
   refused before it is sent, `retire_unsent_stop` insists on a null
   `requestAccepted` and gives up. `stop_uncertain` stays set, so this process
   never stops the take again although nothing is unresolved.

## 4. Proofs

`SessionProofs` (for every set of requests, kinds, lane size and set of faults;
from `SessionAssumption`): `TypeCorrect`, `BeforeDispatchHonest`, `AnswerOwn`,
`NoOrphan`, `ObservationAlone`, `SessionImplementsRpc`. None of the properties
is inductive: that a told *before* is honest depends on who may still send the
command. The invariant `IInv` says so in parts: `Tidy` (a lane holds only its
own requests, once each), `Placed` (where commands are in each state of the
actor, never in two places), `Admitted` (the admission state against custody,
wire and flush: nothing is on the wire unless DISPATCHING), `Agreed` (caller,
reply channel and custody agree; what a reply or an outcome says of the wire and
of the peer). Four lemmas say what the queue operations do to the set of waiting
commands; each action has a step; the refinement maps every step to one of `Rpc`
or a stutter, using that the outcome of a waiting caller is still empty.

`ReceiptsProofs` (for every finite set of operations and scopes, capacity and
number of faults; from `ReceiptsAssumption`): `TypeCorrect`, `HistoryHonest`,
`OneUnresolved`, `StopHasRoom`, `StopOvertakesLiveOwners`. `IInv` adds
`Journalled` (a driver's position fixes both the visible and the durable phase),
`Accounted` (a sent frame has a phase that admits it, on both levels), `Owned`
(only an open scope stands behind a running driver, and a failed driver whose
scope is open means poison), and `Roomy` (the directory is within its capacity),
without which the counting argument of `ReservedStopHasRoom` does not go
through.

`TakesProofs` (for every number of takes and of concurrent Stop calls, all start
options and disturbances; from `TakesAssumption`): `TypeCorrect`,
`StoppedIsTrue`, `DeadlineKept`, `StopsItsOwn`, `NoReplay`, `ManualStopVetoes`.
The properties compare what OBS does now with what the supervisor decided several
awaits ago, so none is inductive. `IInv` says who may still act: which take a
start reservation stands for (`Reserved`) and which one a task in `stop_take`
(`Employed`), that all takes but the last are over and OBS does not record one
that is over (`Lived`), that a Stop frame that may have had an effect leaves its
take uncertain (`Framed`), that the revocation watermark is what really went out
(`Marked`), what a status seen by `stop_once` proves (`Witnessed`), where the
stopped event of a lineage is (`Traced`), and who serves a due deadline
(`Served`). `StopsItsOwn` needs `Traced`: with the wire empty, a foreign
recording can only have begun after a stopped event the supervisor has applied.

`EvidenceProofs` (for every bound on events, inbox and calls and every mix of
clients; from `ObservationAssumption`, `ControlAssumption` and
`StageAssumption`): `TypeCorrect`, `AcceptedIsOneMoment`, `FenceMeansApplied`,
`OutputIsHonest`, `ReplayIsUnique`, `EffectsAreFresh`, `ReceiptIsHonest`. The
code compares cursors and revisions and never events, so the heart of `IInv` is
`Ordered`: a published revision is the number of invalidating events among those
published. From it follow what a feed has applied (`Feeding`), what a cell
without a result rules out (`Waiting`, `Saving`), and what a reply says of a
field as long as the revision stands (`Sampling`), which is why two passes under
one revision show one moment. `Staged` and `Spent` say what a call and a token
still stand for.

`HostProofs` (for every number of frontends, calls, identities, continuations,
places and attempts to connect; from `HostAssumption` and `ControlAssumption`):
`HostTypeCorrect`, `ConsentSpentOnce`, `RepliesExact`, `StopRefused`. `Asking`: a
continuation stands for the exchange whose number is its token and is bound to
exactly that call; `Spending`: no continuation has the token of an answer that
was used. `Owing`: what an exchange owes at each stage; `Holding`: what cannot
happen while dispatch holds a turn; `Home`: the one frontend of a session stays.
The last two theorems are action properties of the invariant.

`ServiceProofs` (for every capacity and number of requests and failed tasks;
from `ServiceAssumption`, which bounds `TakeCap` by the width of the counter):
`ServiceTypeCorrect`, `WritersAlone`. The actor decides whether an ordinary
effect may begin by comparing a counter of calls to the supervisor with the
number of its jobs, so `WritersDoNotOverlap` rests on that counter being right
while no task has failed (`Counted`), which in turn rests on a request being in
one queue or one job (`Placed`): a second job of one request would be one
element of the set of jobs and two in the counter. A task that fails on the
main lane takes one from the counter whatever it was, so from then on the counter
may be too low and even wrap; but the actor is then broken and admits no ordinary
effect, so `Alone` survives without it. Two lemmas, `JobAdded` and
`JobDropped`, carry the invariant through all commands and all ends of jobs.

`FilesProofs` (for every set of media requests and every bound on chunks, saves,
starts and interference; from no assumption): `ExportsFaithful`,
`FilesUnreplaced`, `SavesGrounded`, `StartsHonest`. Other programs rewrite,
replace and remove files between any two steps, so a verdict on a file is worth
only what ties it to the file that is used. `MediaInv`: a name has a file of its
own until the export is linked, and the encoder writes into a file only the
partial name can lead to (`Apart`); as long as the metadata is what it was when
it was noted, every reader so far has seen that one version (`Advancing`), which
is what makes probe, decoding and hash speak of one content. `SaveInv`: what an
attempt may call new and which version of its private copy the helpers read
(`Evident`), and that an attempt which has not asked OBS follows only closed ones
(`Journalled`). `LaunchInv`: every record and answer is true of what was sent and
accepted (`ToldTruly`), and what the running attempt has recorded so far
(`Underway`). `ProcInv`: a pipe that was read to its end has no writer left
(`Drained`), and what status and result stand for (`Reported`).

`JournalProofs` (for every set of scenarios, fields, operations and bounds; from
`PreparationAssumption` and `WorkflowsAssumption`, which says that a scenario is
a sequence of requests of the four kinds the service knows): `PlanReceiptsHonest`,
`RecoveryGrounded` and, with the theorems of `FilesProofs`, `EffectsGrounded`.
A receipt on disk is written by an owner that goes on from its own copy, after
frames that OBS may run much later. `PrepInv` keeps them together: each journal,
visible or as a crash would leave it, can be read back and tells the truth about
every frame of its operation, and the two differ only where a publication is in
doubt (`Disk`); the owner's copy does too (`Kept`); what was sampled under the
current revision has not been announced to have changed (`Sighted`); and an
attempt about to be sent follows decided ones only (`Trying`, `Untouched`).
`WorkInv` does the same for receipts with stages: every frame is told by the
receipt on disk (`Store`); a workflow that publishes, sends or waits is at a
stage beyond those of its earlier frames and holds the receipt of the disk
(`FlowCore`, `Own`). The key lemma is `UpdateMoves`: each legal update of the
three kinds of receipt moves the active stage, or prepared ones, and leaves what
is decided alone; `TellsMoved` then says that a receipt that told the truth about
a frame still does. `Leads` carries the position of a workflow through the
deterministic code between two awaits.

Every inductive invariant was checked with TLC on the bounds of the runs before
it was proved.

Only model-checked:

- liveness (`StopLanesNeverWaitForOrdinaryWork`, `LeasesComeBack`,
  `DueDeadlineIsServed`, `ShutdownCompletes`, `ServingCompletes`), which is out of
  the prover's reach;
- `PipeIsExact` and `WebIsExact`: they say that what a client got is a fold over
  what it was due (flattened packets and queues, merged notices), and what a fold
  computes for every input is an induction over data;
- `PlansAreSound` for the same reason: it is about what the trim planner and the
  scene planners compute with folds over pictures, spans, items and effects
  (`FramesHaveTheirGrounds` too compares the saved snapshot with the scene
  through the restore planner);
- `ServingTypeOK` as a whole; the parts of it about `Host` and `Service` are
  `HostTypeCorrect` and `ServiceTypeCorrect`.

## 5. Plan

The parts of the system are modelled as far as section 1 lists them, and the
safety properties that need no induction over data are proved. What is left:

1. `FramesHaveTheirGrounds` without its comparison of snapshot and scene: that
   earlier stages succeeded and earlier frames ended, by `WorkInv` extended with
   the layouts of receipts.
2. `Notices`: registrations and the queue within their bounds, which is the part
   of `PipeIsExact` and `WebIsExact` that needs no fold.

Not modelled: `opaque_commands.rs` (the journal discipline of
`generic_requests.rs`, which `Receipts` models for any driver), the arguments and
follow-up reads of generic requests, meters and pictures of the take monitor,
read workflows that aggregate replies, preflight and scene audit, protocol
tables, schemas and JSON (pure conversion, no shared state), heads and policy of
HTTP, framing of standard input, the TLS and resolver crates (foreign-function
glue), ffmpeg and OBS beyond how the code sees them.
