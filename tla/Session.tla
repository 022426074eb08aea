------------------------------- MODULE Session -------------------------------
(***************************************************************************)
(* One physical OBS WebSocket session: the sole socket actor, the callers  *)
(* that submit requests to it through three bounded lanes, and the peer    *)
(* (native/src/session.rs).                                                *)
(*                                                                         *)
(* A caller and the actor are tasks that may run on different threads (the *)
(* module relies on no particular runtime) and meet in two places: an      *)
(* atomic admission state (QUEUED, DISPATCHING, ABANDONED) and a           *)
(* one-shot reply channel.  A caller that gives up first drops its         *)
(* receiver and then tries QUEUED -> ABANDONED; the actor tries            *)
(* QUEUED -> DISPATCHING just before it writes the frame.  What a caller   *)
(* is told is                                                              *)
(*   before    the request never reached the wire,                         *)
(*   ok, rejected   the peer's own answer,                                 *)
(*   unknown   it may have reached the wire and no answer is known.        *)
(*                                                                         *)
(* Frame encoding, byte permits and the reason strings are abstracted: a   *)
(* refusal that depends on them is a refusal that may happen at any time.  *)
(***************************************************************************)
EXTENDS Naturals, Sequences, FiniteSets

CONSTANTS Requests,      \* every request any caller will ever submit
          Kind,          \* the kind of each request
          RequestItems,  \* permits, and queue slots, of the normal lane
          Faults,        \* which disturbances the environment may cause
          None           \* no request

FaultKinds == {"cancel", "shutdown", "drop", "consumer", "socket"}

Kinds == {"single", "observation", "batch", "ownedStop", "safetyStop"}

ASSUME SessionAssumption ==
    /\ Kind \in [Requests -> Kinds]
    /\ RequestItems \in Nat \ {0}
    /\ Faults \subseteq FaultKinds
    /\ None \notin Requests

Lanes == {"normal", "ownedStop", "safetyStop"}

Lane(r) == IF Kind[r] \in {"ownedStop", "safetyStop"} THEN Kind[r] ELSE "normal"

LaneItems(l) == IF l = "normal" THEN RequestItems ELSE 1

Answers == {"ok", "rejected"}

\* Reasons for which the actor retires the connection.
Reasons == {"Shutdown", "DeadlineAfterDispatch", "CancelledAfterDispatch",
            "EventConsumerDropped", "SocketWriteFailed", "StreamFailed",
            "ResponseIdentityMismatch"}

VARIABLES
    caller,       \* new, waiting, timedOut, cancelling, done or gone
    outcome,      \* what the caller of each request was told
    state,        \* the shared admission state of each request
    reply,        \* contents of the one-shot reply channel
    expired,      \* requests whose absolute deadline has passed
    queue,        \* the three lane channels
    closed,       \* the actor has closed the lane channels
    actor,        \* idle, prepare, claim, sending, driving, retiring, draining, stopped
    current,      \* the command being prepared or sent
    slot,         \* the active command of each lane
    flushed,      \* requests whose complete frame was flushed
    early,        \* deferred answer of the frame being sent
    cause,        \* why the actor is leaving its loop
    terminal,     \* an invalidation has been published
    stopping,     \* shutdown was requested
    consumerGone, \* the event receiver was dropped
    aborted,      \* the owner dropped the session: the task will be aborted
    onWire,       \* requests of whose frame the peer may have seen a byte
    answer        \* the peer's verdict on each frame it executed

callerVars == <<caller, outcome, expired>>
actorVars  == <<queue, closed, actor, current, slot, flushed, early, cause>>
envVars    == <<stopping, consumerGone, aborted>>
peerVars   == <<onWire, answer>>
vars == <<callerVars, state, reply, actorVars, terminal, envVars, peerVars>>

-----------------------------------------------------------------------------

\* The receiver end of the reply channel has been dropped.
ReplyClosed(r) == caller[r] \notin {"new", "waiting"}

Active == {slot[l] : l \in Lanes} \ {None}

Queued(r) == \E l \in Lanes : \E i \in 1..Len(queue[l]) : queue[l][i] = r

\* The actor owns the command: nobody else can send, answer or drop it.
InCustody(r) == Queued(r) \/ r \in Active \/ r = current

\* The lease moves with the command and then with its undelivered reply.
LeaseHeld(r) == InCustody(r) \/ (caller[r] = "waiting" /\ reply[r] \notin {"empty", "dropped"})

LaneFull(l) == Cardinality({r \in Requests : Lane(r) = l /\ LeaseHeld(r)}) >= LaneItems(l)

\* Replies sent to a dropped receiver are lost.
Answered(f, R, v) == [r \in Requests |-> IF r \in R /\ ~ReplyClosed(r) THEN v ELSE f[r]]

Init ==
    /\ caller = [r \in Requests |-> "new"]
    /\ outcome = [r \in Requests |-> "none"]
    /\ state = [r \in Requests |-> "QUEUED"]
    /\ reply = [r \in Requests |-> "empty"]
    /\ expired = {}
    /\ queue = [l \in Lanes |-> <<>>]
    /\ closed = FALSE
    /\ actor = "idle"
    /\ current = None
    /\ slot = [l \in Lanes |-> None]
    /\ flushed = {}
    /\ early = "none"
    /\ cause = "none"
    /\ terminal = FALSE
    /\ stopping = FALSE
    /\ consumerGone = FALSE
    /\ aborted = FALSE
    /\ onWire = {}
    /\ answer = [r \in Requests |-> "none"]

-----------------------------------------------------------------------------
(* Callers: SessionHandle::single_until, batch_checked and enqueue.        *)

\* Refused before the command exists: stale token, invalid request, no item or
\* byte permit, an elapsed deadline, a terminal or closed session.
SubmitRefused(r) ==
    /\ caller[r] = "new"
    /\ caller' = [caller EXCEPT ![r] = "done"]
    /\ outcome' = [outcome EXCEPT ![r] = "before"]
    /\ UNCHANGED <<state, reply, expired, actorVars, terminal, envVars, peerVars>>

SubmitAdmitted(r) ==
    /\ caller[r] = "new"
    /\ ~terminal
    /\ ~LaneFull(Lane(r))
    /\ r \notin expired
    /\ ~closed
    /\ caller' = [caller EXCEPT ![r] = "waiting"]
    /\ queue' = [queue EXCEPT ![Lane(r)] = Append(@, r)]
    /\ UNCHANGED <<outcome, state, reply, expired, closed, actor, current, slot, flushed,
                   early, cause, terminal, envVars, peerVars>>

\* A reply arrived, or every sender of the channel was dropped unused.
CallerReceives(r) ==
    /\ caller[r] = "waiting"
    /\ reply[r] # "empty"
    /\ caller' = [caller EXCEPT ![r] = "done"]
    /\ outcome' = [outcome EXCEPT ![r] =
          IF reply[r] # "dropped" THEN reply[r]
          ELSE IF state[r] = "DISPATCHING" THEN "unknown" ELSE "before"]
    /\ reply' = [reply EXCEPT ![r] = "empty"]
    /\ UNCHANGED <<state, expired, actorVars, terminal, envVars, peerVars>>

\* timeout_at elapsed: the receiver is dropped first ...
CallerTimesOut(r) ==
    /\ caller[r] = "waiting"
    /\ r \in expired
    /\ reply[r] = "empty"
    /\ caller' = [caller EXCEPT ![r] = "timedOut"]
    /\ UNCHANGED <<outcome, state, reply, expired, actorVars, terminal, envVars, peerVars>>

\* Fault seed: a timeout is reported as BeforeDispatch whatever the actor did.
TimeoutAssumesUnsent(r) ==
    /\ caller[r] = "timedOut"
    /\ caller' = [caller EXCEPT ![r] = "done"]
    /\ state' = [state EXCEPT ![r] = IF @ = "QUEUED" THEN "ABANDONED" ELSE @]
    /\ outcome' = [outcome EXCEPT ![r] = "before"]
    /\ UNCHANGED <<reply, expired, actorVars, terminal, envVars, peerVars>>

\* ... and only then does the caller try to withdraw the request.
CallerAbandons(r) ==
    /\ caller[r] = "timedOut"
    /\ caller' = [caller EXCEPT ![r] = "done"]
    /\ state' = [state EXCEPT ![r] = IF @ = "QUEUED" THEN "ABANDONED" ELSE @]
    /\ outcome' = [outcome EXCEPT ![r] = IF state[r] = "QUEUED" THEN "before" ELSE "unknown"]
    /\ UNCHANGED <<reply, expired, actorVars, terminal, envVars, peerVars>>

\* The caller's future is dropped: its receiver, then its Cancellation guard.
CallerCancels(r) ==
    /\ "cancel" \in Faults
    /\ caller[r] = "waiting"
    /\ caller' = [caller EXCEPT ![r] = "cancelling"]
    /\ UNCHANGED <<outcome, state, reply, expired, actorVars, terminal, envVars, peerVars>>

CancellationDrops(r) ==
    /\ caller[r] = "cancelling"
    /\ caller' = [caller EXCEPT ![r] = "gone"]
    /\ state' = [state EXCEPT ![r] = IF @ = "QUEUED" THEN "ABANDONED" ELSE @]
    /\ UNCHANGED <<outcome, reply, expired, actorVars, terminal, envVars, peerVars>>

-----------------------------------------------------------------------------
(* The actor.  Its selects are biased; Undisturbed is what must be false   *)
(* of the branches that precede the socket and the lanes.                  *)

\* Only a fully flushed typed observation may expire or be cancelled alone.
Retirable(r) ==
    /\ r \in flushed
    /\ Kind[r] = "observation"
    /\ r \in expired \/ ReplyClosed(r)

Overdue == \E r \in Active : r \in expired
Deserted == \E r \in Active : ReplyClosed(r)
Undisturbed == ~stopping /\ ~consumerGone /\ ~Overdue /\ ~Deserted

\* drive ends: every active command is answered Unknown and the actor retires.
Retire(reason) ==
    /\ reply' = Answered(reply, Active, "unknown")
    /\ slot' = [l \in Lanes |-> None]
    /\ current' = None
    /\ early' = "none"
    /\ cause' = reason
    /\ actor' = "retiring"
    /\ UNCHANGED <<callerVars, state, queue, closed, flushed, terminal, envVars, peerVars>>

\* The reason the first ready biased branch gives for retiring, if any.
StopsWaiting ==
    /\ actor \in {"idle", "driving", "sending"}
    /\ \/ stopping /\ Retire("Shutdown")
       \/ ~stopping /\ Overdue /\ Retire("DeadlineAfterDispatch")
       \/ ~stopping /\ ~Overdue /\ Deserted /\ Retire("CancelledAfterDispatch")
       \/ ~stopping /\ ~Overdue /\ ~Deserted /\ consumerGone /\ Retire("EventConsumerDropped")

\* Fault seed: drive does not retire observations first.
InterruptedAtOnce == StopsWaiting

\* In drive the deadline and cancellation branches first retire observations.
Interrupted ==
    /\ actor = "driving" => stopping \/ ~\E r \in Active : Retirable(r)
    /\ StopsWaiting

\* Fault seed: a retired observation is answered but keeps its slot.
RetireWithoutRelease ==
    LET retired == {r \in Active : Retirable(r)}
    IN  /\ actor \in {"driving", "prepare"}
        /\ retired # {}
        /\ reply' = Answered(reply, retired, "unknown")
        /\ UNCHANGED <<callerVars, state, queue, closed, actor, current, slot, flushed, early,
                       cause, terminal, envVars, peerVars>>

RetireObservations ==
    LET retired == {r \in Active : Retirable(r)}
    IN  /\ actor \in {"driving", "prepare"}
        /\ retired # {}
        /\ reply' = Answered(reply, retired, "unknown")
        /\ slot' = [l \in Lanes |-> IF slot[l] \in retired THEN None ELSE slot[l]]
        /\ UNCHANGED <<callerVars, state, queue, closed, actor, current, flushed, early,
                       cause, terminal, envVars, peerVars>>

\* Fault seed: no lane is polled while a command is active.
MayAdmitOnlyWhenIdle(l) ==
    /\ queue[l] # <<>>
    /\ slot[l] = None
    /\ actor = "idle"

\* The first waiting command in the bias order of next_command / next_control:
\* while commands are active only a free control lane is polled.
MayAdmit(l) ==
    /\ queue[l] # <<>>
    /\ slot[l] = None
    /\ l = "normal" => actor = "idle" /\ queue["safetyStop"] = <<>>
    /\ l # "ownedStop" => queue["ownedStop"] = <<>> \/ slot["ownedStop"] # None

TakeCommand(l) ==
    /\ actor = "idle" \/ (actor = "driving" /\ Active # {})
    /\ Undisturbed
    /\ MayAdmit(l)
    /\ current' = Head(queue[l])
    /\ queue' = [queue EXCEPT ![l] = Tail(@)]
    /\ actor' = "prepare"
    /\ UNCHANGED <<callerVars, state, reply, closed, slot, flushed, early, cause,
                   terminal, envVars, peerVars>>

\* prepare_dispatch refused: the command is finished, the actor goes on.
Refuse ==
    /\ reply' = Answered(reply, {current}, "before")
    /\ current' = None
    /\ actor' = IF Active = {} THEN "idle" ELSE "driving"
    /\ UNCHANGED <<callerVars, queue, closed, slot, flushed, early, cause,
                   terminal, envVars, peerVars>>

\* The checks of prepare_dispatch before the compare-exchange: deadline,
\* cancellation, the caller's guard (observations pass none), companions.
PrepareDispatch ==
    /\ actor = "prepare"
    /\ \/ /\ current \in expired \/ ReplyClosed(current) \/ state[current] # "QUEUED"
             \/ Overdue \/ Deserted \/ Kind[current] # "observation"
          /\ Refuse
          /\ UNCHANGED state
       \/ /\ current \notin expired /\ ~ReplyClosed(current) /\ state[current] = "QUEUED"
          /\ ~Overdue /\ ~Deserted
          /\ actor' = "claim"
          /\ UNCHANGED <<callerVars, state, reply, queue, closed, current, slot, flushed,
                         early, cause, terminal, envVars, peerVars>>

\* Fault seed: the actor looks at the admission state but does not change it.
ClaimByLooking ==
    /\ actor = "claim"
    /\ UNCHANGED state
    /\ IF state[current] # "QUEUED" \/ ReplyClosed(current)
       THEN Refuse
       ELSE /\ slot' = [slot EXCEPT ![Lane(current)] = current]
            /\ actor' = "sending"
            /\ UNCHANGED <<callerVars, reply, queue, closed, current, flushed, early,
                           cause, terminal, envVars, peerVars>>

\* The compare-exchange and the last look at the reply channel.
ClaimDispatch ==
    /\ actor = "claim"
    /\ state' = [state EXCEPT ![current] = IF @ = "QUEUED" THEN "DISPATCHING" ELSE @]
    /\ IF state[current] # "QUEUED" \/ ReplyClosed(current)
       THEN Refuse
       ELSE /\ slot' = [slot EXCEPT ![Lane(current)] = current]
            /\ actor' = "sending"
            /\ UNCHANGED <<callerVars, reply, queue, closed, current, flushed, early,
                           cause, terminal, envVars, peerVars>>

\* send_active polls the sink: from here on the peer may see the frame.
WriteFrame ==
    /\ actor = "sending"
    /\ current \notin onWire
    /\ Undisturbed
    /\ onWire' = onWire \cup {current}
    /\ UNCHANGED <<callerVars, state, reply, actorVars, terminal, envVars, answer>>

\* Fault seed: the deferred answer is delivered whether there is one or not.
FlushDeliversAnyway ==
    /\ actor = "sending"
    /\ current \in onWire
    /\ Undisturbed
    /\ flushed' = flushed \cup {current}
    /\ actor' = "driving"
    /\ current' = None
    /\ early' = "none"
    /\ reply' = Answered(reply, {current}, early)
    /\ slot' = [slot EXCEPT ![Lane(current)] = None]
    /\ UNCHANGED <<callerVars, state, queue, closed, cause, terminal, envVars, peerVars>>

\* The whole frame is flushed; a deferred early answer is delivered now.
FlushCompletes ==
    /\ actor = "sending"
    /\ current \in onWire
    /\ Undisturbed
    /\ flushed' = flushed \cup {current}
    /\ actor' = "driving"
    /\ current' = None
    /\ early' = "none"
    /\ IF early = "none"
       THEN UNCHANGED <<reply, slot>>
       ELSE /\ reply' = Answered(reply, {current}, early)
            /\ slot' = [slot EXCEPT ![Lane(current)] = None]
    /\ UNCHANGED <<callerVars, state, queue, closed, cause, terminal, envVars, peerVars>>

WriteFails ==
    /\ "socket" \in Faults
    /\ actor = "sending"
    /\ current \in onWire
    /\ Undisturbed
    /\ Retire("SocketWriteFailed")

\* The select is polling the socket: in drive only after the control lanes.
Listening ==
    /\ actor \in {"idle", "driving", "sending"}
    /\ Undisturbed
    /\ actor = "driving" => Active # {} /\ ~\E l \in Lanes : MayAdmit(l)

\* Close frame, transport error, malformed or out-of-protocol message, or an
\* event that the bounded event channel cannot take.
StreamFails ==
    /\ "socket" \in Faults
    /\ Listening
    /\ Retire("StreamFailed")

\* Fault seed: an answer finishes whatever is active, its identity unchecked.
RouteToAnyActive(r) ==
    /\ Listening
    /\ answer[r] # "none"
    /\ r \in Active
    /\ reply' = Answered(reply, Active, answer[r])
    /\ slot' = [l \in Lanes |-> None]
    /\ UNCHANGED <<callerVars, state, queue, closed, actor, current, flushed, early, cause,
                   terminal, envVars, peerVars>>

\* route_response: the answer of an active request finishes it (deferred while
\* its own frame is still flushing); a batch answer that owns no active command
\* retires the connection, any other late answer is ignored.
RouteResponse(r) ==
    /\ Listening
    /\ answer[r] # "none"
    /\ \/ r \notin Active /\ Kind[r] = "batch" /\ Retire("ResponseIdentityMismatch")
       \/ /\ r \in Active /\ actor = "sending" /\ r = current /\ early = "none"
          /\ early' = answer[r]
          /\ UNCHANGED <<callerVars, state, reply, queue, closed, actor, current, slot,
                         flushed, cause, terminal, envVars, peerVars>>
       \/ /\ r \in Active /\ ~(actor = "sending" /\ r = current)
          /\ reply' = Answered(reply, {r}, answer[r])
          /\ slot' = [slot EXCEPT ![Lane(r)] = None]
          /\ UNCHANGED <<callerVars, state, queue, closed, actor, current, flushed,
                         early, cause, terminal, envVars, peerVars>>

DriveReturns ==
    /\ actor = "driving"
    /\ Active = {}
    /\ actor' = "idle"
    /\ UNCHANGED <<callerVars, state, reply, queue, closed, current, slot, flushed, early,
                   cause, terminal, envVars, peerVars>>

\* The actor leaves its loop: publish the reason, ...
PublishTerminal ==
    /\ actor = "retiring"
    /\ terminal' = TRUE
    /\ actor' = "draining"
    /\ UNCHANGED <<callerVars, state, reply, queue, closed, current, slot, flushed, early,
                   cause, envVars, peerVars>>

\* Fault seed: only the normal lane is drained.
DrainNormalLane ==
    /\ actor = "draining"
    /\ closed' = TRUE
    /\ reply' = Answered(reply, {r \in Requests : Queued(r) /\ Lane(r) = "normal"}, "before")
    /\ queue' = [queue EXCEPT !["normal"] = <<>>]
    /\ actor' = "stopped"
    /\ cause' = "none"
    /\ UNCHANGED <<callerVars, state, current, slot, flushed, early, terminal, envVars, peerVars>>

\* ... close the lanes and refuse what is still queued in them.
DrainQueues ==
    /\ actor = "draining"
    /\ closed' = TRUE
    /\ reply' = Answered(reply, {r \in Requests : Queued(r)}, "before")
    /\ queue' = [l \in Lanes |-> <<>>]
    /\ actor' = "stopped"
    /\ cause' = "none"
    /\ UNCHANGED <<callerVars, state, current, slot, flushed, early, terminal, envVars, peerVars>>

\* The aborted task is dropped at its next await, and every command with it;
\* ActorLifetime publishes a reason if none was.
AbortTask ==
    /\ aborted
    /\ actor \in {"idle", "driving", "sending", "draining"}
    /\ terminal' = TRUE
    /\ closed' = TRUE
    /\ reply' = [r \in Requests |-> IF InCustody(r) /\ ~ReplyClosed(r) THEN "dropped" ELSE reply[r]]
    /\ queue' = [l \in Lanes |-> <<>>]
    /\ slot' = [l \in Lanes |-> None]
    /\ current' = None
    /\ early' = "none"
    /\ actor' = "stopped"
    /\ cause' = "none"
    /\ UNCHANGED <<callerVars, state, flushed, envVars, peerVars>>

-----------------------------------------------------------------------------
(* The environment: the clock, the session owner, the event consumer and   *)
(* the peer.                                                               *)

\* The deadline of a request that nobody waits for or owns is never looked at.
DeadlinePasses(r) ==
    /\ r \notin expired
    /\ caller[r] = "waiting" \/ InCustody(r)
    /\ expired' = expired \cup {r}
    /\ UNCHANGED <<caller, outcome, state, reply, actorVars, terminal, envVars, peerVars>>

\* ObsSession::shutdown: ask, and abort when the join budget runs out.
RequestShutdown ==
    /\ "shutdown" \in Faults
    /\ ~stopping
    /\ actor # "stopped"
    /\ stopping' = TRUE
    /\ UNCHANGED <<callerVars, state, reply, actorVars, terminal, consumerGone, aborted, peerVars>>

ShutdownBudgetElapses ==
    /\ stopping
    /\ ~aborted
    /\ actor # "stopped"
    /\ aborted' = TRUE
    /\ UNCHANGED <<callerVars, state, reply, actorVars, terminal, stopping, consumerGone, peerVars>>

\* impl Drop for ObsSession.
DropOwner ==
    /\ "drop" \in Faults
    /\ ~stopping
    /\ actor # "stopped"
    /\ terminal' = TRUE
    /\ stopping' = TRUE
    /\ aborted' = TRUE
    /\ UNCHANGED <<callerVars, state, reply, actorVars, consumerGone, peerVars>>

DropConsumer ==
    /\ "consumer" \in Faults
    /\ ~consumerGone
    /\ actor # "stopped"
    /\ consumerGone' = TRUE
    /\ UNCHANGED <<callerVars, state, reply, actorVars, terminal, stopping, aborted, peerVars>>

\* OBS executes a frame it received and decides its answer (an execution after
\* the socket is gone is not observable here).
PeerExecutes(r, v) ==
    /\ r \in onWire
    /\ ~closed
    /\ answer[r] = "none"
    /\ answer' = [answer EXCEPT ![r] = v]
    /\ UNCHANGED <<callerVars, state, reply, actorVars, terminal, envVars, onWire>>

CallerNext(r) ==
    \/ SubmitRefused(r) \/ SubmitAdmitted(r) \/ CallerReceives(r) \/ CallerTimesOut(r)
    \/ CallerAbandons(r) \/ CallerCancels(r) \/ CancellationDrops(r)

ActorNext ==
    \/ Interrupted \/ RetireObservations \/ PrepareDispatch \/ ClaimDispatch \/ WriteFrame
    \/ FlushCompletes \/ WriteFails \/ StreamFails \/ DriveReturns
    \/ PublishTerminal \/ DrainQueues \/ AbortTask
    \/ \E l \in Lanes : TakeCommand(l)
    \/ \E r \in Requests : RouteResponse(r)

EnvNext ==
    \/ RequestShutdown \/ ShutdownBudgetElapses \/ DropOwner \/ DropConsumer
    \/ \E r \in Requests : DeadlinePasses(r) \/ \E v \in Answers : PeerExecutes(r, v)

Next == ActorNext \/ EnvNext \/ \E r \in Requests : CallerNext(r)

Spec == Init /\ [][Next]_vars

-----------------------------------------------------------------------------

Callers == {"new", "waiting", "timedOut", "cancelling", "done", "gone"}
Outcomes == {"none", "before", "unknown"} \cup Answers

TypeOK ==
    /\ caller \in [Requests -> Callers]
    /\ outcome \in [Requests -> Outcomes]
    /\ state \in [Requests -> {"QUEUED", "DISPATCHING", "ABANDONED"}]
    /\ reply \in [Requests -> {"empty", "dropped", "before", "unknown"} \cup Answers]
    /\ expired \subseteq Requests
    /\ queue \in [Lanes -> Seq(Requests)]
    /\ closed \in BOOLEAN
    /\ actor \in {"idle", "prepare", "claim", "sending", "driving", "retiring",
                  "draining", "stopped"}
    /\ current \in Requests \cup {None}
    /\ slot \in [Lanes -> Requests \cup {None}]
    /\ flushed \subseteq Requests
    /\ early \in {"none"} \cup Answers
    /\ cause \in {"none"} \cup Reasons
    /\ terminal \in BOOLEAN /\ stopping \in BOOLEAN /\ consumerGone \in BOOLEAN /\ aborted \in BOOLEAN
    /\ onWire \subseteq Requests
    /\ answer \in [Requests -> {"none"} \cup Answers]

(* The session keeps the contract of module Rpc: the callers' outcomes,    *)
(* the frames and the peer's answers evolve as single_until and            *)
(* batch_checked promise, in particular no frame is written after          *)
(* BeforeDispatch was reported and no outcome is reported twice.           *)
Contract == INSTANCE Rpc WITH wire <- onWire, told <- outcome
ImplementsRpc == Contract!Spec

(* A caller that is told BeforeDispatch is told the truth, then and for    *)
(* ever: no byte of its frame was or will be written, whichever of the     *)
(* timeout, the cancellation, the actor's checks and the abort won.        *)
BeforeDispatchIsHonest ==
    \A r \in Requests : outcome[r] = "before" => r \notin onWire

(* An answer reaches exactly the request the peer gave it for, even when   *)
(* answers are late or duplicated, and not before the request's own frame  *)
(* is complete: one that comes earlier is kept and delivered with the      *)
(* flush, unless the connection ends first or nobody waits for it.         *)
AnswersAreOwn ==
    \A r \in Requests :
        outcome[r] \in Answers => outcome[r] = answer[r] /\ r \in flushed
EarlyIsKept ==
    early # "none" /\ early' = "none" =>
        actor' # "driving" \/ ReplyClosed(current) \/ reply'[current] = early
AnswerIsPeersOwn == [][AnswersAreOwn' /\ EarlyIsKept]_vars

(* A deadline or a cancellation retires the connection only while some     *)
(* active command is an effect or an incomplete write: a flushed           *)
(* observation that times out is given up alone.                           *)
ObservationExpiresAlone ==
    [][(cause' # cause /\ cause' \in {"DeadlineAfterDispatch", "CancelledAfterDispatch"})
        => \E r \in Active : r \notin flushed \/ Kind[r] # "observation"]_vars

(* What the stopped actor leaves behind: no command in a lane, a slot or   *)
(* its hands, and every caller that still waits has something to read.     *)
StoppedLeavesNoOrphan ==
    actor = "stopped" =>
        \A r \in Requests :
            ~InCustody(r) /\ (caller[r] = "waiting" => reply[r] # "empty")

-----------------------------------------------------------------------------
(* Progress.  The actor task is polled whenever a branch of its select is  *)
(* ready, a caller's timer and channel wake it, and the socket accepts the *)
(* bytes of a frame.  Nothing obliges the peer to answer, the clock to     *)
(* pass any one deadline, or the owner to shut down.                       *)

ActorProgress ==
    \/ Interrupted \/ RetireObservations \/ PrepareDispatch \/ ClaimDispatch \/ WriteFrame
    \/ FlushCompletes \/ DriveReturns \/ PublishTerminal \/ DrainQueues \/ AbortTask
    \/ \E l \in Lanes : TakeCommand(l)

CallerProgress(r) ==
    CallerReceives(r) \/ CallerTimesOut(r) \/ CallerAbandons(r) \/ CancellationDrops(r)

FairSpec ==
    /\ Spec
    /\ WF_vars(ActorProgress)
    /\ \A r \in Requests : WF_vars(CallerProgress(r))

(* A queued Stop is decided (sent or refused) although the ordinary        *)
(* request ahead of it is never answered and its deadline never passes.    *)
StopLanesNeverWaitForOrdinaryWork ==
    \A r \in Requests :
        (Lane(r) # "normal" /\ Queued(r) /\ \A q \in Active : Lane(q) = "normal") ~> ~Queued(r)

(* Once every deadline has passed, every permit comes back.                *)
LeasesComeBack ==
    <>[](\A r \in Requests : LeaseHeld(r) => r \in expired)
        => <>[](\A r \in Requests : ~LeaseHeld(r))
=============================================================================
