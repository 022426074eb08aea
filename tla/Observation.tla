---------------------------- MODULE Observation ----------------------------
(***************************************************************************)
(* What the server knows about OBS: the one observer of a physical session *)
(* (session_observation.rs), the hub that feeds takes and output waiters   *)
(* (service_events.rs, output_events.rs, replay_events.rs) and the samples *)
(* that readers take under a frozen revision (observation.rs,              *)
(* production_observation.rs).                                             *)
(*                                                                         *)
(* OBS is one bit per field, so that a field may change and change back; a *)
(* change of a loud field is followed by an event, and events and replies  *)
(* reach the socket in the order OBS sent them.  The session advances its  *)
(* cursor when it receives an event and queues it; the observer publishes  *)
(* it later.  Code that compares atomics is split at every load and store, *)
(* although the runtime is single threaded, because the source orders them *)
(* on purpose.                                                             *)
(*                                                                         *)
(* Each behaviour has one client (a sample, an output waiter, a replay     *)
(* waiter or the take feed): they share nothing but what is read here.     *)
(* Payloads, byte budgets and texts are left out; a deadline is a step the *)
(* clock may take at any time.                                             *)
(***************************************************************************)
EXTENDS Integers, Sequences, FiniteSets

CONSTANTS MaxEvents,  \* bound: changes of OBS
          Items,      \* event permits of the session
          Clients     \* clients considered

ASSUME ObservationAssumption ==
    /\ MaxEvents \in [Clients -> Nat] /\ Items \in Nat \ {0}
    /\ Clients \subseteq {"sample", "output", "replay", "take", "stage"}

Fields == {"scene", "record", "quiet"}
Kinds == {"scene", "record", "saved", "meter"}
Profiles == {"full", "audit"}
Missing == -1

VARIABLES
    client,     \* the client of this behaviour
    world,      \* OBS: the version of each field
    changes,    \* changes OBS has made
    socket,     \* messages of OBS not yet received
    received,   \* the events received; the cursor is their number
    inbox,      \* events between the socket and the observer
    alive,      \* the session is not invalidated
    late,       \* the client's confirmation clock has run out
    observer,   \* position of the observer task in one publication
    evidence,   \* the published EvidenceState of both profiles
    processed,  \* the published cursor
    feed,       \* the take feed
    cell,       \* the output subscription and its waiter
    replay,     \* the replay subscription and its waiter
    sample      \* the reader's sample

bridgeVars == <<client, world, changes, socket, received, inbox, alive, late,
                observer, evidence, processed, feed, cell, replay>>
observationVars == <<bridgeVars, sample>>

cursor == Len(received)

\* invalidates_event of the planning profile and of the audit profile.
Invalidates(profile, kind) ==
    \/ kind = "scene"
    \/ kind = "record" /\ profile = "full"

\* The reads of one pass: the planning report and the scene audit.  The stage
\* inspects the scene once.
PlanOf(profile) ==
    IF client = "stage" THEN <<"scene">>
    ELSE IF profile = "full" THEN <<"scene", "record", "scene", "record">>
    ELSE <<"scene", "quiet", "scene", "quiet">>
\* A rejected read of the scene fails the sample; the others are optional.
Required(field) == field = "scene"

(***************************************************************************)
(* OBS and the socket.                                                     *)
(***************************************************************************)
\* external: OBS changes and says so, except for a quiet field.
ObsChanges(kind) ==
    /\ changes < MaxEvents[client]
    /\ changes' = changes + 1
    /\ world' = [f \in Fields |-> IF f = kind THEN 1 - world[f] ELSE world[f]]
    /\ socket' = IF kind \in Kinds THEN Append(socket, [kind |-> kind]) ELSE socket
    /\ UNCHANGED <<client, received, inbox, alive, late, observer, evidence,
                   processed, feed, cell, replay, sample>>

NoSample == [pc |-> "off", profile |-> "full", frozen |-> 0, value |-> 0, values |-> <<>>,
             target |-> 0, loaded |-> 0, mid |-> [f \in Fields |-> 0]]

\* The field the sample is reading.
Asked == PlanOf(sample.profile)[Len(sample.values) + 1]

\* external: OBS answers the outstanding read, or rejects it.
ObsAnswers ==
    /\ sample.pc = "asked"
    /\ \E v \in {world[Asked], Missing} :
           socket' = Append(socket, [kind |-> "reply", value |-> v])
    /\ sample' = [sample EXCEPT !.pc = "awaiting"]
    /\ UNCHANGED <<client, world, changes, received, inbox, alive, late,
                   observer, evidence, processed, feed, cell, replay>>

\* Permits are held from receipt until the take consumer is done with the event.
Held == Len(inbox) + Len(feed.queue) + (IF observer.pc = "idle" THEN 0 ELSE 1)

\* The message on top: a reply resumes its reader, an event takes the next
\* sequence number, and only then a permit and a place in the bounded queue.
Receive ==
    /\ alive /\ socket # <<>>
    /\ socket' = Tail(socket)
    /\ LET m == Head(socket) IN
       \/ /\ m.kind = "reply"
          /\ sample' = IF sample.pc = "awaiting"
                       THEN [sample EXCEPT !.pc = "replied", !.value = m.value]
                       ELSE sample
          /\ UNCHANGED <<received, inbox, alive>>
       \/ /\ m.kind # "reply"
          /\ received' = Append(received, [kind |-> m.kind, late |-> late])
          /\ IF Held < Items
             THEN inbox' = Append(inbox, cursor + 1) /\ alive' = alive
             ELSE alive' = FALSE /\ inbox' = inbox
          /\ UNCHANGED sample
    /\ UNCHANGED <<client, world, changes, late, observer, evidence, processed,
                   feed, cell, replay>>

\* The connection is lost or shut down.
SessionEnds ==
    /\ alive
    /\ alive' = FALSE
    /\ UNCHANGED <<client, world, changes, socket, received, inbox, late,
                   observer, evidence, processed, feed, cell, replay, sample>>

ClockPasses ==
    /\ ~late /\ client \in {"output", "replay"}
    /\ late' = TRUE
    /\ UNCHANGED <<client, world, changes, socket, received, inbox, alive,
                   observer, evidence, processed, feed, cell, replay, sample>>

(***************************************************************************)
(* The observer.                                                           *)
(***************************************************************************)
\* EventHub::revoke: waiters without a result are revoked, the feed closes.
Revoked ==
    /\ cell' = [cell EXCEPT !.result = IF @ = 0 THEN Missing ELSE @, !.active = FALSE]
    /\ replay' = [replay EXCEPT !.issue = TRUE, !.active = FALSE]
    /\ feed' = [feed EXCEPT !.active = FALSE, !.queue = <<>>]

\* The loop takes the next event and publishes the revision it leads to, both
\* profiles, under the lock of the hub.
PublishRevision ==
    /\ observer.pc = "idle" /\ alive /\ inbox # <<>>
    /\ Head(inbox) = processed + 1
    /\ observer' = [pc |-> "revised", event |-> Head(inbox)]
    /\ inbox' = Tail(inbox)
    /\ evidence' = [evidence EXCEPT !.rev =
           [p \in Profiles |-> IF Invalidates(p, received[Head(inbox)].kind)
                               THEN @[p] + 1 ELSE @[p]]]
    /\ UNCHANGED <<client, world, changes, socket, received, alive, late,
                   processed, feed, cell, replay, sample>>

\* Fault seed: the published cursor runs one ahead.
PublishNextCursor ==
    /\ observer.pc = "revised"
    /\ observer' = [observer EXCEPT !.pc = "progressed"]
    /\ processed' = observer.event + 1
    /\ UNCHANGED <<client, world, changes, socket, received, inbox, alive, late,
                   evidence, feed, cell, replay, sample>>
\* ... and after it the cursor.
PublishCursor ==
    /\ observer.pc = "revised"
    /\ observer' = [observer EXCEPT !.pc = "progressed"]
    /\ processed' = observer.event
    /\ UNCHANGED <<client, world, changes, socket, received, inbox, alive, late,
                   evidence, feed, cell, replay, sample>>

\* An event counts for a waiter registered before it and not out of time.
Eligible(kind, after, n) ==
    received[n].kind = kind /\ n > after /\ ~received[n].late

\* Registry::publish: the first terminal goes into the pending cell.
ProjectEvent ==
    /\ observer.pc = "progressed"
    /\ observer' = [observer EXCEPT !.pc = "projected"]
    /\ LET n == observer.event IN
       /\ cell' = IF /\ cell.active /\ cell.pc \notin {"off", "done"} /\ cell.result = 0
                     /\ Eligible("record", cell.after, n)
                  THEN [cell EXCEPT !.result = n] ELSE cell
       /\ replay' = IF /\ replay.active /\ replay.armed # Missing
                       /\ Eligible("saved", replay.armed, n)
                    THEN [replay EXCEPT !.seen = @ + 1,
                                        !.path = IF replay.seen = 0 THEN n ELSE 0,
                                        !.issue = replay.seen > 0]
                    ELSE replay
    /\ UNCHANGED <<client, world, changes, socket, received, inbox, alive, late,
                   evidence, processed, feed, sample>>

\* ... then the watermark moves and the event goes to the take feed.
DeliverEvent ==
    /\ observer.pc = "projected"
    /\ observer' = [pc |-> "idle", event |-> 0]
    /\ cell' = [cell EXCEPT !.progress = observer.event]
    /\ replay' = [replay EXCEPT !.progress = observer.event]
    /\ feed' = IF feed.active THEN [feed EXCEPT !.queue = Append(@, observer.event)]
               ELSE feed
    /\ UNCHANGED <<client, world, changes, socket, received, inbox, alive, late,
                   evidence, processed, sample>>

\* The event stream is over, or its numbers have a gap: the lifetime guard ends
\* the evidence and revokes every consumer.
ObserverEnds ==
    /\ observer.pc = "idle"
    /\ ~alive \/ (inbox # <<>> /\ Head(inbox) # processed + 1)
    /\ observer' = [pc |-> "ended", event |-> 0]
    /\ evidence' = [evidence EXCEPT !.connected = FALSE]
    /\ inbox' = <<>>
    /\ Revoked
    /\ UNCHANGED <<client, world, changes, socket, received, alive, late,
                   processed, sample>>

\* ObservationBridge::invalidate and cancel_observations.
InvalidateBridge ==
    /\ evidence.connected /\ observer.pc \in {"idle", "ended"} /\ client # "stage"
    /\ evidence' = [evidence EXCEPT !.connected = FALSE]
    /\ Revoked
    /\ UNCHANGED <<client, world, changes, socket, received, inbox, alive, late,
                   observer, processed, sample>>
CancelObservations ==
    /\ ~evidence.cancelled /\ client = "sample"
    /\ evidence' = [evidence EXCEPT !.cancelled = TRUE]
    /\ UNCHANGED <<client, world, changes, socket, received, inbox, alive, late,
                   observer, processed, feed, cell, replay, sample>>

(***************************************************************************)
(* The take feed: one consumer, in step with the observer.                 *)
(***************************************************************************)
EvidenceLive == alive /\ evidence.connected /\ ~evidence.cancelled

\* EventHub::attach, under the lock that a publication holds.
AttachFeed ==
    /\ client = "take" /\ observer.pc = "idle" /\ ~feed.active /\ ~feed.ended
    /\ EvidenceLive
    /\ feed' = [feed EXCEPT !.active = TRUE, !.applied = processed, !.from = processed]
    /\ UNCHANGED <<client, world, changes, socket, received, inbox, alive, late,
                   observer, evidence, processed, cell, replay, sample>>

\* ObservedFrame::apply: the next frame in order reaches the take's state before
\* the applied mark moves; any other frame revokes the feed.
ApplyFrame ==
    /\ feed.queue # <<>>
    /\ LET n == Head(feed.queue) IN
       feed' = IF feed.active /\ n = feed.applied + 1
               THEN [feed EXCEPT !.queue = Tail(@), !.seen = Append(@, n), !.applied = n]
               ELSE [feed EXCEPT !.queue = <<>>, !.active = FALSE, !.ended = TRUE]
    /\ UNCHANGED <<client, world, changes, socket, received, inbox, alive, late,
                   observer, evidence, processed, cell, replay, sample>>

\* A frame dropped without being applied, or the owner leaving, revokes the feed.
DropFrame ==
    /\ feed.active
    /\ feed' = [feed EXCEPT !.queue = <<>>, !.active = FALSE, !.ended = TRUE]
    /\ UNCHANGED <<client, world, changes, socket, received, inbox, alive, late,
                   observer, evidence, processed, cell, replay, sample>>

\* Fault seed: the fence trusts the published cursor alone.
FenceReadyByCursor == feed.active /\ EvidenceLive /\ processed >= cursor
\* TakeEventFence::ready_at_cursor.
FenceReady ==
    feed.active /\ EvidenceLive /\ feed.applied >= cursor /\ processed >= cursor

\* project_after_applied: a read of the take's state at a settled cursor.
ProjectAfterApplied ==
    /\ FenceReady
    /\ feed' = [feed EXCEPT !.view = [cursor |-> cursor, seen |-> feed.seen]]
    /\ UNCHANGED <<client, world, changes, socket, received, inbox, alive, late,
                   observer, evidence, processed, cell, replay, sample>>

(***************************************************************************)
(* The output waiter.                                                      *)
(***************************************************************************)
OnlyCell == UNCHANGED <<client, world, changes, socket, received, inbox, alive,
                        late, observer, evidence, processed, feed, replay, sample>>

\* OutputEvents::subscribe.
SubscribeOutput ==
    /\ client = "output" /\ cell.pc = "off" /\ cell.active /\ alive /\ ~late
    /\ cell' = [cell EXCEPT !.pc = "look", !.after = cursor]
    /\ OnlyCell

Settle(outcome) == cell' = [cell EXCEPT !.pc = "done", !.outcome = outcome]

\* The top of receive: a result first, then the life of the session.
LookAtCell ==
    /\ cell.pc = "look"
    /\ \/ cell.result > 0 /\ Settle("got")
       \/ cell.result = Missing /\ Settle("revoked")
       \/ cell.result = 0 /\ ~alive /\ Settle("revoked")
       \/ cell.result = 0 /\ alive /\ cell' = [cell EXCEPT !.pc = "clock"]
    /\ OnlyCell

\* Fault seed: an expired clock ends the wait whatever is still unpublished.
ReadClockOnly ==
    /\ cell.pc = "clock"
    /\ cell' = [cell EXCEPT !.pc = IF late THEN "last" ELSE "wait"]
    /\ OnlyCell
\* At expiry the cursor is captured once and compared with the watermark.
ReadClock ==
    /\ cell.pc = "clock"
    /\ LET cutoff == IF ~late THEN Missing
                     ELSE IF cell.cutoff = Missing THEN cursor ELSE cell.cutoff
       IN cell' = [cell EXCEPT !.cutoff = cutoff,
                               !.pc = IF late /\ cell.progress >= cutoff
                                      THEN "last" ELSE "wait"]
    /\ OnlyCell

\* Fault seed: no second look.
NoLastLook ==
    /\ cell.pc = "last"
    /\ Settle("expired")
    /\ OnlyCell
\* The projection came before the watermark, so one more look decides.
LastLook ==
    /\ cell.pc = "last"
    /\ \/ cell.result > 0 /\ Settle("got")
       \/ cell.result = Missing /\ Settle("revoked")
       \/ cell.result = 0 /\ Settle("expired")
    /\ OnlyCell

\* Woken by the watermark or by a clock; the settlement bound ends the wait.
WakeOutput ==
    /\ cell.pc = "wait"
    /\ \/ cell' = [cell EXCEPT !.pc = "look"]
       \/ late /\ Settle("unsettled")
    /\ OnlyCell

(***************************************************************************)
(* The replay waiter.                                                      *)
(***************************************************************************)
OnlyReplay == UNCHANGED <<client, world, changes, socket, received, inbox, alive,
                          late, observer, evidence, processed, feed, cell, sample>>

\* ReplayEvents::subscribe.
SubscribeReplay ==
    /\ client = "replay" /\ replay.pc = "off" /\ replay.active /\ alive /\ ~late
    /\ replay' = [replay EXCEPT !.pc = "subscribed"]
    /\ OnlyReplay

\* Subscription::arm, in the dispatch guard of the save: once.
ArmReplay ==
    /\ replay.pc = "subscribed" /\ replay.armed = Missing
    /\ replay' = IF replay.active /\ alive /\ ~late
                 THEN [replay EXCEPT !.pc = "candidate", !.armed = cursor]
                 ELSE [replay EXCEPT !.pc = "failed"]
    /\ OnlyReplay

\* candidate: an issue or a passed deadline fails, the first path is kept.
Candidate ==
    /\ replay.pc = "candidate"
    /\ \/ (~alive \/ late \/ replay.issue) /\ replay' = [replay EXCEPT !.pc = "failed"]
       \/ /\ alive /\ ~late /\ ~replay.issue /\ replay.path > 0
          /\ replay' = [replay EXCEPT !.pc = "saved", !.expected = replay.path]
    /\ OnlyReplay

\* confirm begins once the file has been looked at: the cursor of that moment.
BeginConfirm ==
    /\ replay.pc = "saved"
    /\ replay' = [replay EXCEPT !.pc = "barrier", !.barrier = cursor]
    /\ OnlyReplay

\* Fault seed: confirm reads the cell again without the barrier.
ConfirmAtOnce ==
    /\ replay.pc = "barrier"
    /\ replay' = [replay EXCEPT !.pc =
          IF alive /\ ~late /\ ~replay.issue /\ replay.path = replay.expected
          THEN "confirmed" ELSE "failed"]
    /\ OnlyReplay
\* Up to that cursor everything is published, then the cell is read again.
Confirm ==
    /\ replay.pc = "barrier"
    /\ \/ late /\ replay' = [replay EXCEPT !.pc = "failed"]
       \/ /\ replay.progress >= replay.barrier
          /\ replay' = [replay EXCEPT !.pc =
                IF alive /\ ~late /\ ~replay.issue /\ replay.path = replay.expected
                THEN "confirmed" ELSE "failed"]
    /\ OnlyReplay

(***************************************************************************)
(* The sample: every read of both passes under one frozen revision.        *)
(***************************************************************************)
OnlySample == UNCHANGED bridgeVars

Fail == sample' = [sample EXCEPT !.pc = "failed"]

\* SessionReader::synchronize and Observation::new.
BeginSample(profile) ==
    /\ client = "sample" /\ sample.pc = "off" /\ EvidenceLive /\ processed >= cursor
    /\ sample' = [sample EXCEPT !.pc = "read", !.profile = profile,
                                !.frozen = evidence.rev[profile]]
    /\ OnlySample

\* check_state.
StillFrozen ==
    evidence.connected /\ ~evidence.cancelled /\ evidence.rev[sample.profile] = sample.frozen

\* Observation::read up to the dispatch of the request.
StartRead ==
    /\ sample.pc = "read" /\ Len(sample.values) < Len(PlanOf(sample.profile))
    /\ \/ ~(StillFrozen /\ alive) /\ Fail
       \/ StillFrozen /\ alive /\ sample' = [sample EXCEPT !.pc = "asked"]
    /\ OnlySample

\* A lost session resumes the reader with an error.
ReadLost ==
    /\ sample.pc \in {"asked", "awaiting"} /\ ~alive
    /\ Fail
    /\ OnlySample

\* Fault seed: no barrier behind the reply.
CaptureNothing ==
    /\ sample.pc = "replied"
    /\ sample' = [sample EXCEPT !.pc = "barrier", !.target = 0]
    /\ OnlySample
\* SessionReader::read: the barrier is the cursor at the reply, ...
CaptureCursor ==
    /\ sample.pc = "replied"
    /\ sample' = [sample EXCEPT !.pc = "barrier", !.target = cursor]
    /\ OnlySample

\* ... the published cursor is loaded before the state ...
LoadProcessed ==
    /\ sample.pc = "barrier"
    /\ sample' = [sample EXCEPT !.pc = "loaded", !.loaded = processed]
    /\ OnlySample

\* ... and a reply counts only if the state is still the frozen one.  At the
\* end of the first pass the state of OBS is noted for the property.
CheckRead ==
    /\ sample.pc = "loaded"
    /\ IF ~(alive /\ evidence.connected /\ ~evidence.cancelled) THEN Fail
       ELSE IF sample.loaded < sample.target
       THEN sample' = [sample EXCEPT !.pc = "barrier"]
       ELSE IF ~StillFrozen \/ (sample.value = Missing /\ Required(Asked)) THEN Fail
       ELSE sample' = [sample EXCEPT !.pc = "read",
                !.values = Append(@, sample.value),
                !.value = 0, !.target = 0, !.loaded = 0,
                !.mid = IF 2 * Len(sample.values) + 2 = Len(PlanOf(sample.profile))
                        THEN world ELSE @]
    /\ OnlySample

\* The passes are compared and the state is checked a last time.
FinishSample ==
    /\ client = "sample" /\ sample.pc = "read"
    /\ LET n == Len(PlanOf(sample.profile)) IN
       /\ Len(sample.values) = n
       /\ sample' = [sample EXCEPT !.pc =
              IF /\ \A i \in 1..(n \div 2) : sample.values[i] = sample.values[i + n \div 2]
                 /\ StillFrozen /\ alive
              THEN "accepted" ELSE "failed"]
    /\ OnlySample

\* The read or sample deadline, the request budget or an oversized reply.
SampleLimit ==
    /\ sample.pc \in {"read", "barrier", "replied", "awaiting"}
    /\ Fail
    /\ OnlySample

\* ObservationFence::ready_at_revision: the guard of a mutation.
ReadyAtRevision(profile, revision) ==
    alive /\ processed >= cursor /\ EvidenceLive /\ evidence.rev[profile] = revision

(***************************************************************************)
(* The specification.                                                      *)
(***************************************************************************)
ObservationInit ==
    /\ client \in Clients
    /\ world = [f \in Fields |-> 0]
    /\ changes = 0 /\ socket = <<>> /\ received = <<>> /\ inbox = <<>>
    /\ alive = TRUE /\ late = FALSE
    /\ observer = [pc |-> "idle", event |-> 0]
    /\ evidence = [rev |-> [p \in Profiles |-> 0], connected |-> TRUE, cancelled |-> FALSE]
    /\ processed = 0
    /\ feed = [active |-> FALSE, ended |-> FALSE, queue |-> <<>>, applied |-> 0,
               seen |-> <<>>, from |-> 0, view |-> [cursor |-> 0, seen |-> <<>>]]
    /\ cell = [active |-> TRUE, pc |-> "off", result |-> 0, after |-> 0, progress |-> 0,
               cutoff |-> Missing, outcome |-> "none"]
    /\ replay = [active |-> TRUE, pc |-> "off", armed |-> Missing, seen |-> 0, path |-> 0,
                 issue |-> FALSE, progress |-> 0, expected |-> 0, barrier |-> 0]
    /\ sample = NoSample

ObserverNext ==
    \/ PublishRevision \/ PublishCursor \/ ProjectEvent \/ DeliverEvent \/ ObserverEnds
    \/ InvalidateBridge \/ CancelObservations

FeedNext == AttachFeed \/ ApplyFrame \/ DropFrame \/ ProjectAfterApplied
OutputNext == SubscribeOutput \/ LookAtCell \/ ReadClock \/ LastLook \/ WakeOutput
ReplayNext == SubscribeReplay \/ ArmReplay \/ Candidate \/ BeginConfirm \/ Confirm
ReadNext ==
    StartRead \/ ReadLost \/ CaptureCursor \/ LoadProcessed \/ CheckRead \/ SampleLimit
SampleNext == (\E p \in Profiles : BeginSample(p)) \/ FinishSample

\* The changes a client can tell apart; a meter event stands for the rest.
KindsFor(c) ==
    CASE c = "sample" -> {"scene", "record", "quiet", "meter"}
      [] c = "output" -> {"record", "meter"}
      [] c = "replay" -> {"saved", "meter"}
      [] OTHER -> {"scene", "meter"}

WorldNext ==
    \/ \E kind \in KindsFor(client) : ObsChanges(kind)
    \/ ObsAnswers \/ Receive \/ SessionEnds \/ ClockPasses

ObservationNext ==
    WorldNext \/ ObserverNext \/ FeedNext \/ OutputNext \/ ReplayNext \/ ReadNext
    \/ SampleNext

ObservationSpec == ObservationInit /\ [][ObservationNext]_observationVars

(***************************************************************************)
(* Properties.                                                             *)
(***************************************************************************)
ObservationTypeOK ==
    /\ world \in [Fields -> 0..1] /\ alive \in BOOLEAN /\ late \in BOOLEAN
    /\ processed \in 0..cursor
    /\ \A i \in 1..Len(inbox) : inbox[i] \in 1..cursor
    /\ observer.pc \in {"idle", "revised", "progressed", "projected", "ended"}
    /\ evidence.rev \in [Profiles -> 0..cursor]
    /\ evidence.connected \in BOOLEAN /\ evidence.cancelled \in BOOLEAN
    /\ cell.pc \in {"off", "look", "clock", "last", "wait", "done"}
    /\ cell.result \in -1..cursor /\ cell.progress \in 0..processed
    /\ replay.armed \in -1..cursor /\ replay.path \in 0..cursor
    /\ sample.pc \in {"off", "read", "asked", "awaiting", "replied", "barrier", "loaded",
                       "accepted", "failed"}
    /\ \A i \in 1..Len(sample.values) : sample.values[i] \in -1..1

\* An accepted report or audit is a snapshot as far as OBS lets one be taken:
\* every reading of a field whose changes are announced was also the value of
\* that field at one moment between the two passes, even if the field changed
\* and changed back while the passes were under way.
SampleIsOneMoment ==
    sample.pc = "accepted" =>
        \A i \in 1..Len(sample.values) :
            LET f == PlanOf(sample.profile)[i] IN
            \/ sample.values[i] = Missing \/ f = "quiet"
            \/ sample.values[i] = sample.mid[f]

\* What a projection of the take's state at cursor c has seen: exactly the events
\* that the session received since the feed was attached, each once and in order,
\* up to c.
TakeFenceMeansApplied ==
    feed.view.cursor > 0 =>
        feed.view.seen = [i \in 1..(feed.view.cursor - feed.from) |-> feed.from + i]

\* An output waiter that reports its confirmation time as expired missed no
\* terminal event that the session received in time, and one that reports a
\* terminal reports the first.
OutputOutcomeIsHonest ==
    /\ cell.outcome = "expired" =>
           \A n \in 1..cursor : ~Eligible("record", cell.after, n)
    /\ cell.outcome = "got" =>
           /\ Eligible("record", cell.after, cell.result)
           /\ \A n \in 1..(cell.result - 1) : ~Eligible("record", cell.after, n)

\* A confirmed replay path belongs to the only saved event between the dispatch
\* of the save and the look at the finished file.
ReplayPathIsTheOnlyOne ==
    replay.pc = "confirmed" =>
        {n \in 1..replay.barrier : Eligible("saved", replay.armed, n)} = {replay.expected}

=============================================================================
