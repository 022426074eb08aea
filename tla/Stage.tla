------------------------------- MODULE Stage -------------------------------
(***************************************************************************)
(* Staging a scene in preview and taking it to program (stage.rs,          *)
(* stage_transport.rs), on top of the observer and of the control policy.  *)
(*                                                                         *)
(* obs-stage-scene inspects, sets the preview if it differs, inspects      *)
(* again and issues a token; obs-take-scene consumes the token, inspects,  *)
(* compares and triggers the transition.  One call runs at a time.  An     *)
(* inspection is the sample of Observation with one read: the bit of the   *)
(* field "scene" is the fingerprint of subject, program and preview, and   *)
(* its changes are announced.  A mutation is dispatched by the session     *)
(* after a guard that is one step; OBS applies it and announces it.        *)
(***************************************************************************)
EXTENDS Observation, Control

CONSTANTS MaxStages, MaxTakes   \* bounds: calls of the two tools

ASSUME StageAssumption == MaxStages \in Nat /\ MaxTakes \in Nat

VARIABLES stage,     \* the running call
          token,     \* the stage token, or none
          sends      \* history: the mutations that left, with their grounds

stageVars == <<stage, token, sends>>
evidenceVars == <<observationVars, controlVars, stageVars>>

NoToken == [value |-> Missing, serial |-> 0, expired |-> FALSE]
Receipts == {"none", "prepared", "dispatching", "accepted", "observed", "unknown",
             "not_dispatched"}

\* obs-take-scene is a live tool, obs-stage-scene an edit; a binding keeps the
\* answer that the caller gave when the call was made.
RequestOf(call, caller) ==
    Request(caller, IF call = "take" THEN "live" ELSE "edit", TRUE, FALSE, "accepted", FALSE)

\* Fault seed: the token goes only with a successful take.
KeepToken == UNCHANGED token
\* Consumed before the first await, even if the take fails.
ConsumeToken == token' = NoToken

\* StageMutator::admit, then: stage waits for the events received so far and
\* forgets earlier tokens; take consumes its token before the first await.
AdmitStage(caller) ==
    /\ client = "stage" /\ stage.pc = "idle" /\ stage.stages < MaxStages /\ alive
    /\ Evaluate(RequestOf("stage", caller)) = "allow"
    /\ stage' = [stage EXCEPT !.pc = "sync", !.call = "stage", !.caller = caller,
                              !.stages = @ + 1, !.receipt = "none", !.sent = FALSE,
                              !.cancelled = FALSE, !.program = "old", !.used = NoToken]
    /\ UNCHANGED <<token, sends, observationVars, controlVars>>
AdmitTake(caller) ==
    /\ client = "stage" /\ stage.pc = "idle" /\ stage.takes < MaxTakes /\ alive
    /\ Evaluate(RequestOf("take", caller)) = "allow"
    /\ token # NoToken /\ ~token.expired
    /\ stage' = [stage EXCEPT !.pc = "begin", !.call = "take", !.caller = caller,
                              !.takes = @ + 1, !.receipt = "none", !.sent = FALSE,
                              !.cancelled = FALSE, !.program = "old", !.used = token]
    /\ ConsumeToken
    /\ UNCHANGED <<sends, observationVars, controlVars>>

Synchronize ==
    /\ stage.pc = "sync" /\ EvidenceLive /\ processed >= cursor
    /\ token' = NoToken
    /\ stage' = [stage EXCEPT !.pc = "begin"]
    /\ UNCHANGED <<sends, observationVars, controlVars>>

\* Context::inspect: synchronize, freeze the revision, read.
BeginInspection ==
    /\ stage.pc \in {"begin", "again"} /\ EvidenceLive /\ processed >= cursor
    /\ sample' = [sample EXCEPT !.pc = "read", !.profile = "full",
                                !.frozen = evidence.rev["full"], !.values = <<>>]
    /\ stage' = [stage EXCEPT !.pc = IF @ = "begin" THEN "inspect" ELSE "compare"]
    /\ UNCHANGED <<token, sends, controlVars>> /\ OnlySample

InspectionDone == sample.pc = "read" /\ Len(sample.values) = 1

\* The first inspection is complete: take compares it with its token; both
\* prepare a receipt.  Stage has nothing to send if the preview is right.
Prepare ==
    /\ stage.pc = "inspect" /\ InspectionDone /\ ~stage.cancelled
    /\ stage.call = "take" =>
           sample.values[1] = stage.used.value /\ ~stage.used.expired
    /\ \E differs \in BOOLEAN :
           /\ stage.call = "take" => differs
           /\ stage' = [stage EXCEPT !.pc = IF differs THEN "queued" ELSE "again",
                                     !.receipt = IF differs THEN "dispatching"
                                                 ELSE "prepared",
                                     !.before = sample.values[1]]
    /\ UNCHANGED <<token, sends, observationVars, controlVars>>

\* Fault seed: the policy is not asked again.
GuardTrustsAdmission ==
    /\ ~stage.cancelled
    /\ ReadyAtRevision("full", sample.frozen)
\* Fault seed: the guard checks the published revision but not whether events
\* are waiting to be published.
GuardIgnoresCursor ==
    /\ Evaluate(RequestOf(stage.call, stage.caller)) = "allow"
    /\ ~stage.cancelled
    /\ evidence.rev["full"] = sample.frozen
\* The guard of the dispatch, run by the session: the policy once more, then
\* cancellation and deadline, then the evidence.
GuardAllows ==
    /\ Evaluate(RequestOf(stage.call, stage.caller)) = "allow"
    /\ ~stage.cancelled
    /\ ReadyAtRevision("full", sample.frozen)

\* TransportMutator::mutate and the dispatch.  OBS applies what it receives and
\* announces it; a transition reaches program later.
Dispatch ==
    /\ stage.pc = "queued" /\ GuardAllows
    /\ stage' = [stage EXCEPT !.pc = "sent", !.sent = TRUE]
    /\ sends' = Append(sends, [call |-> stage.call, serial |-> stage.used.serial,
                   unseen |-> Cardinality({n \in 1..cursor : Invalidates("full", received[n].kind)})
                              - sample.frozen,
                   held |-> HeldByOther(RequestOf(stage.call, stage.caller)),
                   cancelled |-> stage.cancelled])
    /\ socket' = Append(socket, [kind |-> "scene"])
    /\ UNCHANGED <<token, controlVars, client, world, changes, received, inbox, alive, late, observer,
                   evidence, processed, feed, cell, replay, sample>>

\* Refused, or never taken by the session; or the deadline passes while the
\* request still waits there, which is reported as unknown.  The receipt stays
\* where it was when the store does not take its last updates.
Refuse ==
    /\ stage.pc = "queued"
    /\ \E r \in {"not_dispatched", "unknown", "prepared", stage.receipt} :
           stage' = [stage EXCEPT !.pc = "idle", !.receipt = r]
    /\ sample' = NoSample
    /\ UNCHANGED <<token, sends, controlVars>> /\ OnlySample

\* The reply: accepted; rejected, lost or late, which leaves the call unknown,
\* or its receipt as it is when the store does not take the update.
Reply ==
    /\ stage.pc = "sent"
    /\ \/ /\ alive
          /\ stage' = [stage EXCEPT !.pc = IF stage.call = "take" THEN "verify" ELSE "again",
                                    !.receipt = "accepted"]
          /\ UNCHANGED sample
       \/ /\ \E r \in {"unknown", stage.receipt} :
                 stage' = [stage EXCEPT !.pc = "idle", !.receipt = r]
          /\ sample' = NoSample
    /\ UNCHANGED <<token, sends, controlVars>> /\ OnlySample

\* The second inspection agrees with the first: a token with a lifetime.
IssueToken ==
    /\ stage.pc = "compare" /\ InspectionDone
    /\ sample.values[1] = stage.before
    /\ stage' = [stage EXCEPT !.pc = "idle", !.receipt = "observed"]
    /\ token' = [value |-> sample.values[1], serial |-> stage.stages, expired |-> FALSE]
    /\ sample' = NoSample
    /\ UNCHANGED <<sends, controlVars>> /\ OnlySample

\* external: the transition reaches program.
TransitionEnds ==
    /\ stage.pc = "verify" /\ stage.program = "old"
    /\ stage' = [stage EXCEPT !.program = "new"]
    /\ UNCHANGED <<token, sends, observationVars, controlVars>>

\* The verification loop has seen the scene on program.
Verify ==
    /\ stage.pc = "verify" /\ alive /\ stage.program = "new"
    /\ stage' = [stage EXCEPT !.pc = "idle", !.receipt = "observed"]
    /\ sample' = NoSample
    /\ UNCHANGED <<token, sends, controlVars>> /\ OnlySample

\* Fault seed: a failure is reported from the receipt alone, which a dispatch
\* does not change.
FailAsPrepared ==
    /\ stage.pc \in {"sync", "begin", "inspect", "again", "compare", "verify"}
    /\ stage' = [stage EXCEPT !.pc = "idle",
           !.receipt = IF @ = "none" THEN "none" ELSE "not_dispatched"]
    /\ sample' = NoSample
    /\ UNCHANGED <<token, sends, controlVars>> /\ OnlySample
\* Context::fail, from every await: cancelled, changed, out of time, lost.  It
\* goes on when the store does not take the update that closes the receipt.
Closing ==
    IF stage.receipt = "none" THEN "none"
    ELSE IF stage.sent THEN "unknown" ELSE "not_dispatched"
FailCall ==
    /\ stage.pc \in {"sync", "begin", "inspect", "again", "compare", "verify"}
    /\ \E r \in {Closing, stage.receipt} :
           stage' = [stage EXCEPT !.pc = "idle", !.receipt = r]
    /\ sample' = NoSample
    /\ UNCHANGED <<token, sends, controlVars>> /\ OnlySample

TokenExpires ==
    /\ (token # NoToken /\ ~token.expired) \/ (stage.used # NoToken /\ ~stage.used.expired
           /\ stage.pc = "inspect")
    /\ token' = IF token # NoToken THEN [token EXCEPT !.expired = TRUE] ELSE token
    /\ stage' = IF stage.used # NoToken THEN [stage EXCEPT !.used.expired = TRUE] ELSE stage
    /\ UNCHANGED <<sends, observationVars, controlVars>>

CancelCall ==
    /\ stage.pc # "idle" /\ ~stage.cancelled
    /\ stage' = [stage EXCEPT !.cancelled = TRUE]
    /\ UNCHANGED <<token, sends, observationVars, controlVars>>

StageInit ==
    /\ stage = [pc |-> "idle", call |-> "stage", caller |-> Anonymous, stages |-> 0, takes |-> 0,
                receipt |-> "none", sent |-> FALSE, cancelled |-> FALSE,
                program |-> "old", used |-> NoToken, before |-> 0]
    /\ token = NoToken
    /\ sends = <<>>

StageNext ==
    \/ \E c \in Everyone : AdmitStage(c) \/ AdmitTake(c)
    \/ Synchronize \/ BeginInspection \/ Prepare \/ Dispatch \/ Refuse \/ Reply
    \/ IssueToken \/ TransitionEnds \/ Verify \/ FailCall \/ TokenExpires \/ CancelCall

EvidenceInit == ObservationInit /\ ControlInit /\ StageInit
\* The lease matters to the stage alone; the take lock spares both of its tools.
EvidenceNext ==
    \/ ObservationNext /\ UNCHANGED <<controlVars, stageVars>>
    \/ client = "stage" /\ LeaseNext /\ UNCHANGED <<observationVars, stageVars>>
    \/ StageNext
EvidenceSpec == EvidenceInit /\ [][EvidenceNext]_evidenceVars

EvidenceTypeOK ==
    /\ ObservationTypeOK /\ ControlTypeOK
    /\ stage.receipt \in Receipts /\ stage.stages \in 0..MaxStages
    /\ stage.caller \in Everyone
    /\ token.value \in -1..1

\* A preview change or a transition leaves the server only on fresh grounds: no
\* structural event received after the inspection it rests on, no lease held by
\* another caller at that moment whatever admission said, the call not
\* cancelled, and no stage token behind two transitions.
EffectRestsOnFreshEvidence ==
    /\ \A i \in 1..Len(sends) :
           /\ sends[i].unseen = 0 /\ ~sends[i].held
           /\ ~sends[i].cancelled
    /\ \A i, j \in 1..Len(sends) :
           i # j /\ sends[i].call = "take" /\ sends[j].call = "take"
               => sends[i].serial # sends[j].serial

\* What a stored receipt says when it denies that a request was sent.
Denials == {"none", "prepared", "not_dispatched"}

\* The receipt of a finished call does not deny what was sent, even when the
\* store refused its last update, and claims an outcome for a transition only
\* if OBS showed it.
StageReceiptIsHonest ==
    stage.pc = "idle" =>
        /\ stage.sent => stage.receipt \notin Denials
        /\ stage.receipt = "observed" /\ stage.call = "take" => stage.program = "new"

=============================================================================
