------------------------------ MODULE Service ------------------------------
(***************************************************************************)
(* The actor that owns OBS for all frontends (service.rs): its bounded     *)
(* command channel, the queue of safety stops and the queue of generic     *)
(* calls, the jobs of five lanes, the borrowed take supervisor, the two    *)
(* owners it lends to jobs (preparation and stage machine), and shutdown.  *)
(*                                                                         *)
(* A request is its kind; reads, snapshots of state and reports are one    *)
(* kind, since they share the lane and its bound.  What a job does with    *)
(* OBS is modelled in Receipts, Takes, Observation, Stage and Plans; here  *)
(* it ends, with or without an unresolved receipt, or its task fails.      *)
(* Queue bytes are left out, queue places are kept.                        *)
(***************************************************************************)
EXTENDS Integers, Sequences, FiniteSets, Functions

CONSTANTS MaxReqs,      \* bound: requests submitted
          Kinds,        \* the kinds of request considered, any two together
          Menus,        \* bound: sets of kinds of which more come together
          ChannelCap,   \* commands in the channel (32)
          GenericCap,   \* generic calls waiting (32)
          SafetyCap,    \* safety stops waiting (8)
          ReadCap,      \* reads under way (32)
          MediaCap,     \* media operations under way (2)
          TakeCap,      \* calls to the take supervisor under way (32)
          MaxFailures   \* bound: tasks that fail to join

\* usize with its wrap-around, at a width TLC computes with.
MaxUsize == 65535
Workflows == {"capture", "apply", "restore"}
Stops == {"manualstop", "safetystop"}

ASSUME ServiceAssumption ==
    /\ MaxReqs \in Nat /\ MaxFailures \in Nat
    /\ {ChannelCap, GenericCap, SafetyCap, ReadCap, MediaCap} \subseteq Nat
    /\ TakeCap \in 0..MaxUsize
    /\ Kinds \subseteq Workflows \union Stops \union
           {"snapshot", "read", "replay", "media", "handoff", "start", "takestop", "clip",
            "stage", "tracked", "prepare", "recover", "generic"}

VARIABLES reqs,  \* the kind of each request, in the order of their submission
          svc    \* the state of the actor

serviceVars == <<reqs, svc>>

Lane(kind) ==
    CASE kind = "safety" -> "safety" [] kind = "snapshot" -> "snapshot"
      [] kind = "media" -> "media" [] kind = "read" -> "observe" [] OTHER -> "main"
In(s, lane) == {j \in s.jobs : Lane(j.kind) = lane}
SafetyBusy(s) == In(s, "safety") # {} \/ s.waitS # <<>>
\* take_initializing, jobs beyond those of the supervisor, or a safety stop.
Busy(s) == s.initializing \/ Cardinality(In(s, "main")) > s.takeJobs \/ SafetyBusy(s)

Answer(s, r) == [s EXCEPT !.answered = @ \union {r}]
Spawn(s, r, kind) == [s EXCEPT !.jobs = @ \union {[req |-> r, kind |-> kind]}]
\* A release build: the unsigned counter wraps.
More(n) == (n + 1) % (MaxUsize + 1)
Less(n) == IF n = 0 THEN MaxUsize ELSE n - 1
SaturatingLess(n) == IF n = 0 THEN 0 ELSE n - 1

(***************************************************************************)
(* The top of the loop.                                                    *)
(***************************************************************************)
\* Fault seed: shutdown waits for the take to end by itself.
RetiresWhenIdle(s) == s.borrower = "idle" /\ s.takeJobs = 0
\* The supervisor is returned once nobody uses it and it is idle, or at shutdown.
Retires(s) == s.borrower # "none" /\ s.takeJobs = 0 /\ (s.closing \/ s.borrower = "idle")

Retired(s) ==
    IF Retires(s) THEN [Spawn(s, 0, "retire") EXCEPT !.borrower = "none"] ELSE s
\* A closing actor answers what waits, and cancels that and the jobs whose
\* tokens it keeps by job (the one ordinary effect has a token of its own) ...
TokensOf(s, kinds) == {j.req : j \in {i \in s.jobs : i.kind \in kinds}}
Drained(s) ==
    IF s.closing
    THEN LET waiting == Range(s.waitG) \union Range(s.waitS)
         IN [s EXCEPT !.answered = @ \union waiting, !.waitG = <<>>, !.waitS = <<>>,
                !.cancelled = @ \union waiting \union
                    TokensOf(s, {"safety", "media", "snapshot", "read",
                                 "clipinit", "clipready", "clip"})]
    ELSE s
\* ... and leaves the loop when every job has been joined; what is still in the
\* channel is dropped, which its callers see as a closed service.
Exited(s) ==
    IF s.closing /\ s.jobs = {} /\ s.borrower = "none"
    THEN [s EXCEPT !.exited = TRUE, !.answered = 1..Len(reqs), !.inbox = <<>>]
    ELSE s
Settle(s) == Exited(Drained(Retired(s)))

(***************************************************************************)
(* Commands.                                                               *)
(***************************************************************************)
\* Capture Window, Apply Scene and Restore borrow the preparation.
WorkflowCommand(s, r, late) ==
    IF s.broken \/ Busy(s) \/ s.prep # "here" \/ late THEN Answer(s, r)
    ELSE [Spawn(s, r, "plan") EXCEPT !.prep = "lent"]

SnapshotCommand(s, r) ==
    IF s.broken \/ s.prep # "here" THEN Answer(s, r)
    ELSE [Spawn(s, r, "snapshot") EXCEPT !.prep = "lent"]

ReadCommand(s, r) ==
    IF Cardinality(In(s, "observe")) >= ReadCap THEN Answer(s, r) ELSE Spawn(s, r, "read")

ReplayCommand(s, r) ==
    IF \/ s.broken \/ s.unsure \/ s.borrower # "none" \/ s.initializing
       \/ In(s, "main") # {} \/ SafetyBusy(s) \/ In(s, "media") # {}
    THEN Answer(s, r) ELSE Spawn(s, r, "replay")

MediaCommand(s, r) ==
    IF \/ Cardinality(In(s, "media")) >= MediaCap \/ s.broken \/ s.initializing
       \/ s.borrower = "take" \/ s.unsure
    THEN Answer(s, r) ELSE Spawn(s, r, "media")

\* Nothing runs, waits or is retained: the owner may be handed to another runtime.
HandoffCommand(s, r) ==
    IF \/ s.broken \/ s.borrower # "none" \/ s.jobs # {} \/ s.waitS # <<>> \/ s.waitG # <<>>
       \/ s.unsure \/ s.completed
    THEN Answer(s, r) ELSE [s EXCEPT !.handoff = r, !.closing = TRUE]

\* Take Start and Take Stop: through the supervisor, or by binding one.
TakeCommand(s, r) ==
    LET start == reqs[r] = "start" IN
    IF start /\ (In(s, "media") # {} \/ SafetyBusy(s)) THEN Answer(s, r)
    ELSE IF s.borrower # "none"
    THEN IF s.takeJobs >= TakeCap \/ (start /\ s.broken) THEN Answer(s, r)
         ELSE [Spawn(s, r, "takecall") EXCEPT !.takeJobs = More(@)]
    ELSE IF s.broken \/ In(s, "main") # {} \/ s.unsure \/ ~start THEN Answer(s, r)
    ELSE [Spawn(s, r, "init") EXCEPT !.initializing = TRUE]

ClipCommand(s, r, late) ==
    IF \/ late \/ s.broken \/ (s.borrower = "none" /\ s.unsure)
       \/ In(s, "media") # {} \/ SafetyBusy(s) \/ s.initializing \/ s.takeJobs >= TakeCap
       \/ (s.borrower = "none" /\ In(s, "main") # {})
    THEN Answer(s, r)
    ELSE IF s.borrower # "none"
    THEN [Spawn(s, r, "clipready") EXCEPT !.takeJobs = More(@)]
    ELSE [Spawn(s, r, "clipinit") EXCEPT !.takeJobs = More(@), !.initializing = TRUE]

StageCommand(s, r) ==
    IF s.broken \/ Busy(s) \/ s.unsure THEN Answer(s, r)
    ELSE [Spawn(s, r, "stage") EXCEPT !.machine = "lent"]

TrackedCommand(s, r) ==
    IF s.broken \/ s.borrower # "none" \/ In(s, "main") # {} \/ SafetyBusy(s) \/ s.unsure
    THEN Answer(s, r)
    ELSE [Spawn(s, r, "tracked") EXCEPT !.machine = "lent"]

\* Prepare and Recover; only Prepare asks for settled receipts.
PreparationCommand(s, r) ==
    IF \/ s.prep # "here" \/ s.broken \/ s.borrower # "none" \/ In(s, "main") # {}
       \/ SafetyBusy(s) \/ (reqs[r] = "prepare" /\ s.unsure)
    THEN Answer(s, r)
    ELSE [Spawn(s, r, "preparation") EXCEPT !.prep = "lent"]

\* The two safety stops: one runs, the others queue, nothing ordinary delays them.
SafetyCommand(s, r, late) ==
    IF s.broken \/ late THEN Answer(s, r)
    ELSE IF In(s, "safety") = {} THEN Spawn(s, r, "safety")
    ELSE IF Len(s.waitS) >= SafetyCap THEN Answer(s, r)
    ELSE [s EXCEPT !.waitS = Append(@, r)]

\* Fault seed: the queue has no end.
GenericUnbounded(s, r, late) ==
    IF s.broken \/ late THEN Answer(s, r)
    ELSE IF Busy(s) THEN [s EXCEPT !.waitG = Append(@, r)]
    ELSE IF s.unsure THEN Answer(s, r)
    ELSE Spawn(s, r, "generic")
GenericCommand(s, r, late) ==
    IF s.broken \/ late THEN Answer(s, r)
    ELSE IF Busy(s)
    THEN IF Len(s.waitG) >= GenericCap THEN Answer(s, r)
         ELSE [s EXCEPT !.waitG = Append(@, r)]
    ELSE IF s.unsure THEN Answer(s, r)
    ELSE Spawn(s, r, "generic")

Handle(s, r, late) ==
    LET kind == reqs[r] IN
    CASE kind \in Workflows -> WorkflowCommand(s, r, late)
      [] kind = "snapshot" -> SnapshotCommand(s, r)
      [] kind = "read" -> ReadCommand(s, r)
      [] kind = "replay" -> ReplayCommand(s, r)
      [] kind = "media" -> MediaCommand(s, r)
      [] kind = "handoff" -> HandoffCommand(s, r)
      [] kind \in {"start", "takestop"} -> TakeCommand(s, r)
      [] kind = "clip" -> ClipCommand(s, r, late)
      [] kind = "stage" -> StageCommand(s, r)
      [] kind = "tracked" -> TrackedCommand(s, r)
      [] kind \in {"prepare", "recover"} -> PreparationCommand(s, r)
      [] kind \in Stops -> SafetyCommand(s, r, late)
      [] kind = "generic" -> GenericCommand(s, r, late)

\* ServiceHandle::call: closed, full, or in the channel.
Call(kind) ==
    /\ Len(reqs) < MaxReqs
    /\ Len(reqs) < 2 \/ \E menu \in Menus : Range(reqs) \union {kind} \subseteq menu
    /\ reqs' = Append(reqs, kind)
    /\ svc' = IF svc.closing \/ Len(svc.inbox) >= ChannelCap
              THEN Answer(svc, Len(reqs) + 1)
              ELSE [svc EXCEPT !.inbox = Append(@, Len(reqs) + 1)]

\* The caller cancels its token.
CancelCall(r) ==
    /\ r \in 1..Len(reqs) /\ r \notin svc.answered \union svc.cancelled
    /\ svc' = [svc EXCEPT !.cancelled = @ \union {r}]
    /\ UNCHANGED reqs

SafetyReady == In(svc, "safety") = {} /\ svc.waitS # <<>>
GenericReady == svc.waitG # <<>> /\ ~Busy(svc)

\* The next command: a ready safety stop, a ready generic call, or the channel.
\* late: cancelled, or its deadline has passed since the admission.
TakeNext(late) ==
    /\ ~svc.closing
    /\ LET queue == IF SafetyReady THEN svc.waitS ELSE IF GenericReady THEN svc.waitG
                    ELSE svc.inbox
           rest == IF SafetyReady THEN [svc EXCEPT !.waitS = Tail(@)]
                   ELSE IF GenericReady THEN [svc EXCEPT !.waitG = Tail(@)]
                   ELSE [svc EXCEPT !.inbox = Tail(@)]
       IN /\ queue # <<>>
          /\ Head(queue) \in svc.cancelled => late
          /\ svc' = Settle(Handle(rest, Head(queue), late))
    /\ UNCHANGED reqs

(***************************************************************************)
(* Jobs.                                                                   *)
(***************************************************************************)
Without(j) == [svc EXCEPT !.jobs = @ \ {j}]
Became(s) == svc' = Settle(s) /\ UNCHANGED reqs

\* Reads, snapshots, media operations and safety stops; a media cleanup that is
\* not confirmed, or custody that a stop could not keep, breaks the service.
SideJobEnds(j, worse) ==
    /\ j \in svc.jobs /\ Lane(j.kind) # "main"
    /\ worse => j.kind \in {"media", "safety"}
    /\ Became([Answer(Without(j), j.req) EXCEPT
           !.prep = IF j.kind = "snapshot" THEN "here" ELSE @,
           !.broken = @ \/ worse,
           !.workers = @ /\ ~(worse /\ j.kind = "media")])

\* Generic calls, replay, stage, tracked requests, preparation and the second
\* half of a workflow: the owner comes back with the answer.
EffectEnds(j, unsure, worse) ==
    /\ j \in svc.jobs
    /\ j.kind \in {"generic", "replay", "stage", "tracked", "preparation", "apply"}
    /\ worse => j.kind \in {"replay", "stage", "tracked", "apply"}
    /\ Became([Answer(Without(j), j.req) EXCEPT
           !.prep = IF j.kind \in {"preparation", "apply"} THEN "here" ELSE @,
           !.machine = IF j.kind \in {"stage", "tracked"} THEN "here" ELSE @,
           !.unsure = @ \/ unsure, !.broken = @ \/ worse,
           !.workers = @ /\ ~(worse /\ j.kind = "replay")])

\* Fault seed: a plan that may not be applied keeps the owner it borrowed.
PlanEndsKeepingOwner(j, ready, late) ==
    /\ j \in svc.jobs /\ j.kind = "plan"
    /\ j.req \in svc.cancelled => late
    /\ Became(IF ready /\ ~svc.closing /\ ~late /\ ~svc.unsure
              THEN Spawn(Without(j), j.req, "apply")
              ELSE IF ready THEN Answer(Without(j), j.req)
              ELSE [Answer(Without(j), j.req) EXCEPT !.prep = "here"])
\* A plan is finished, or ready: closing, cancellation, deadline and custody are
\* looked at again before it is applied.
PlanEnds(j, ready, late) ==
    /\ j \in svc.jobs /\ j.kind = "plan"
    /\ j.req \in svc.cancelled => late
    /\ Became(IF ready /\ ~svc.closing /\ ~late /\ ~svc.unsure
              THEN Spawn(Without(j), j.req, "apply")
              ELSE [Answer(Without(j), j.req) EXCEPT !.prep = "here"])

\* The supervisor was bound and took its first call, or could not be bound.
InitEnds(j, bound, running) ==
    /\ j \in svc.jobs /\ j.kind = "init"
    /\ running => bound
    /\ Became([Answer(Without(j), j.req) EXCEPT !.initializing = FALSE,
           !.borrower = IF running THEN "take" ELSE IF bound THEN "idle" ELSE "none"])

\* A call to the supervisor was answered; a start leaves a take behind.
TakeCallEnds(j, running) ==
    /\ j \in svc.jobs /\ j.kind = "takecall"
    /\ running => reqs[j.req] = "start" \/ svc.borrower = "take"
    /\ Became([Answer(Without(j), j.req) EXCEPT !.takeJobs = Less(@),
           !.borrower = IF @ = "none" THEN @ ELSE IF running THEN "take" ELSE "idle",
           !.completed = @ \/ (svc.borrower = "take" /\ ~running)])

\* A clip was admitted by the supervisor and runs, or was refused.
ClipReadyEnds(j, bound, admitted, worse) ==
    /\ j \in svc.jobs /\ j.kind \in {"clipinit", "clipready"}
    /\ admitted => bound /\ ~worse
    /\ j.kind = "clipready" => bound
    /\ LET s == [Without(j) EXCEPT !.broken = @ \/ worse,
                    !.initializing = @ /\ j.kind = "clipready",
                    !.borrower = IF j.kind = "clipready" /\ (@ = "none" \/ ~admitted) THEN @
                                 ELSE IF admitted THEN "take"
                                 ELSE IF bound THEN "idle" ELSE "none"]
       IN Became(IF admitted THEN Spawn(s, j.req, "clip")
                 ELSE [Answer(s, j.req) EXCEPT !.takeJobs = Less(@)])
ClipEnds(j) ==
    /\ j \in svc.jobs /\ j.kind = "clip"
    /\ Became([Answer(Without(j), j.req) EXCEPT !.takeJobs = Less(@),
           !.borrower = IF @ = "none" THEN @ ELSE "idle"])

\* The supervisor was joined; its writer comes back, or the service is broken.
RetireEnds(j, joined) ==
    /\ j \in svc.jobs /\ j.kind = "retire"
    /\ Became([Without(j) EXCEPT !.takeJoined = @ /\ joined, !.broken = @ \/ ~joined])

\* A task fails: its owner is lost and the service is broken; whatever the task
\* was, one call to the supervisor is counted as gone.
WorkerFails(j) ==
    /\ j \in svc.jobs /\ svc.failures < MaxFailures
    /\ LET s == [Without(j) EXCEPT !.failures = @ + 1, !.broken = TRUE, !.workers = FALSE,
                    !.answered = @ \union ({j.req} \ {0}),
                    !.prep = IF j.kind \in {"snapshot", "plan", "apply", "preparation"}
                             THEN "lost" ELSE @,
                    !.machine = IF j.kind \in {"stage", "tracked"} THEN "lost" ELSE @]
       IN Became(IF Lane(j.kind) # "main" THEN s
                 ELSE [s EXCEPT !.takeJoined = FALSE, !.takeJobs = SaturatingLess(@)])

(***************************************************************************)
(* The supervisor and the end.                                             *)
(***************************************************************************)
\* The take ends by its deadline; the summary wakes the loop.
TakeEndsAlone ==
    /\ svc.borrower = "take"
    /\ Became([svc EXCEPT !.borrower = "idle", !.completed = TRUE])

\* The supervisor's summaries end: its task is gone.
SupervisorLost ==
    /\ svc.borrower # "none" /\ ~svc.closing /\ svc.failures < MaxFailures
    /\ Became([svc EXCEPT !.broken = TRUE, !.closing = TRUE, !.failures = @ + 1])

\* Service::shutdown tells the loop, which cancels the ordinary effect as well.
Stopping ==
    /\ ~svc.closing
    /\ Became([svc EXCEPT !.closing = TRUE,
           !.cancelled = @ \union TokensOf(svc, {"generic", "replay", "stage", "preparation",
                                                "plan", "apply"})])

ServiceInit ==
    /\ reqs = <<>>
    /\ svc = [inbox |-> <<>>, waitG |-> <<>>, waitS |-> <<>>, jobs |-> {}, answered |-> {},
              cancelled |-> {}, takeJobs |-> 0, initializing |-> FALSE, borrower |-> "none",
              prep |-> "here", machine |-> "here", completed |-> FALSE, unsure |-> FALSE,
              broken |-> FALSE, closing |-> FALSE, handoff |-> 0, workers |-> TRUE,
              takeJoined |-> TRUE, exited |-> FALSE, failures |-> 0]

\* Every job has a deadline and the loop polls all its lanes.
JobStep(j) ==
    \/ \E worse \in BOOLEAN : SideJobEnds(j, worse)
    \/ \E unsure, worse \in BOOLEAN : EffectEnds(j, unsure, worse)
    \/ \E ready, late \in BOOLEAN : PlanEnds(j, ready, late)
    \/ \E bound, running \in BOOLEAN : InitEnds(j, bound, running)
    \/ \E running \in BOOLEAN : TakeCallEnds(j, running)
    \/ \E bound, admitted, worse \in BOOLEAN : ClipReadyEnds(j, bound, admitted, worse)
    \/ ClipEnds(j)
    \/ \E joined \in BOOLEAN : RetireEnds(j, joined)
ServiceNext ==
    \/ \E kind \in Kinds : Call(kind)
    \/ \E r \in 1..MaxReqs : CancelCall(r)
    \/ \E late \in BOOLEAN : TakeNext(late)
    \/ \E j \in svc.jobs : JobStep(j) \/ WorkerFails(j)
    \/ TakeEndsAlone \/ SupervisorLost \/ Stopping

(***************************************************************************)
(* Properties.                                                             *)
(***************************************************************************)
ServiceTypeOK ==
    /\ reqs \in Seq(Kinds) /\ Len(reqs) <= MaxReqs
    /\ svc.jobs \subseteq [req : 0..MaxReqs, kind : {"safety", "snapshot", "media", "read",
           "generic", "replay", "stage", "tracked", "preparation", "plan", "apply", "init",
           "takecall", "clipinit", "clipready", "clip", "retire"}]
    /\ \A q \in {svc.inbox, svc.waitG, svc.waitS} : Range(q) \subseteq 1..Len(reqs)
    /\ Len(svc.inbox) <= ChannelCap /\ Len(svc.waitG) <= GenericCap /\ Len(svc.waitS) <= SafetyCap
    /\ svc.takeJobs \in 0..MaxUsize
    /\ svc.borrower \in {"none", "idle", "take"}
    /\ {svc.prep, svc.machine} \subseteq {"here", "lent", "lost"}

\* Ordinary work that changes OBS or lends an owner.
Ordinaries == {"generic", "replay", "stage", "tracked", "preparation", "plan", "apply",
               "init", "clipinit"}
Holders(owner) ==
    {j \in svc.jobs : j.kind \in IF owner = "prep" THEN {"snapshot", "preparation", "plan", "apply"}
                                 ELSE {"stage", "tracked"}}

(* WritersDoNotOverlap: at most one ordinary effect is under way in the      *)
(* actor; one that takes the receipts for itself (tracked requests,          *)
(* preparation, replay, binding a supervisor) runs without a supervisor      *)
(* beside it; and each owner that jobs borrow is held by exactly one job or  *)
(* is back, on every path a job can end, so that no later command finds it   *)
(* missing or twice.                                                         *)
WritersDoNotOverlap ==
    /\ Cardinality({j \in svc.jobs : j.kind \in Ordinaries}) <= 1
    /\ \A j \in svc.jobs :
           j.kind \in {"tracked", "preparation", "replay", "init", "clipinit"}
               => svc.borrower = "none"
    /\ Cardinality(Holders("prep")) = IF svc.prep = "lent" THEN 1 ELSE 0
    /\ Cardinality(Holders("machine")) = IF svc.machine = "lent" THEN 1 ELSE 0

(* Every request is answered, as long as no task has failed.                 *)
EveryRequestAnswered == []<>(1..Len(reqs) \subseteq svc.answered \/ svc.failures > 0)

=============================================================================
