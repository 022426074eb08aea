------------------------------ MODULE Outputs ------------------------------
(***************************************************************************)
(* The two workflows that do more than one request to OBS's outputs.       *)
(*                                                                         *)
(* save: a verified replay save (replay_save.rs, replay_files.rs).  An     *)
(* attempt is journalled, notes which files exist, asks OBS to save, takes *)
(* the path OBS announces, copies that file to a private snapshot, probes  *)
(* and decodes the snapshot, asks OBS for the path again and compares the  *)
(* original with the snapshot once more before it says "verified".  Files  *)
(* are as in Media: disk.names gives the file of a name, and a write makes *)
(* a new version of it.  Reading a file to its end is two steps, between   *)
(* which others may act.                                                   *)
(*                                                                         *)
(* launch: a confirmed output start (output_start_v2.rs and                *)
(* output_transport.rs).                                                   *)
(* The receipt is written before the request and again after its answer;   *)
(* an event or a look at the status decides what the client is told.  What *)
(* the store allows in general is in Receipts, the event subscriptions in  *)
(* Observation; here a write of the store works or fails.                  *)
(***************************************************************************)
EXTENDS Integers, Sequences, FiniteSets

CONSTANTS
    MaxSaves,    \* bound on the attempts to save a replay
    MaxStarts,   \* bound on the attempts to start the output
    MaxMeddling  \* bound on what others do: programs, OBS, the user

VARIABLES save, launch

saveVars == <<save>>
launchVars == <<launch>>

-----------------------------------------------------------------------------
(* A verified replay save *)

Paths == {"old", "other", "new"}   \* two replays exist at first
Copy == "copy"
Free == 0   \* the file of a name that is not taken
NoSnapshot == [path |-> "none", file |-> Free, version |-> 0, copy |-> Free, made |-> 0, hash |-> 0]

\* oldest: the first file made after the attempt began; tested: what helpers
\* read; loose: a helper of some attempt was never joined.
NewAttempt(s, id) ==
    [s EXCEPT !.id = id, !.late = FALSE, !.baseline = {}, !.previous = "none", !.armed = FALSE, !.heard = <<>>,
              !.snapshot = NoSnapshot, !.tested = {}, !.helper = "none", !.unconfirmed = FALSE,
              !.good = FALSE, !.oldest = Cardinality(DOMAIN s.version) + 1]
SaveInit ==
    save = [id |-> 0, pc |-> "idle", late |-> FALSE, meddled |-> 0, clock |-> 1,
            names |-> [n \in Paths \cup {Copy} |-> IF n = "old" THEN 1 ELSE IF n = "other" THEN 2 ELSE Free],
            version |-> [f \in {1, 2} |-> 1], last |-> "old", pending |-> {}, buffer |-> TRUE,
            active |-> FALSE, started |-> {}, ended |-> {}, sent |-> {}, claims |-> {},
            baseline |-> {}, previous |-> "none", armed |-> FALSE, heard |-> <<>>,
            snapshot |-> NoSnapshot, tested |-> {}, helper |-> "none", loose |-> FALSE,
            unconfirmed |-> FALSE, good |-> FALSE, oldest |-> 1]

Saving(pc) == save.pc = pc
SaveTo(s, pc) == [s EXCEPT !.pc = pc]
VersionOf(s, n) == IF s.names[n] = Free THEN 0 ELSE s.version[s.names[n]]
Rewritten(s, f) ==
    [s EXCEPT !.clock = @ + 1, !.version = [g \in DOMAIN @ \cup {f} |-> IF g = f THEN s.clock + 1 ELSE @[g]]]
FreshFile(s) == Cardinality(DOMAIN s.version) + 1
Named(s, n) == LET f == FreshFile(s) IN [Rewritten(s, f) EXCEPT !.names[n] = f]

\* The workflow returns an issue; a snapshot that was verified is discarded.
Unverified(s) == SaveTo(s, IF s.snapshot.copy # Free THEN "discard" ELSE "close")

\* Journal::begin: any sign of an attempt that was not completed refuses, and so
\* does a cancellation, a deadline or a full directory.  The started record may
\* fail to be written after the active mark is made.
BeginSave ==
    /\ Saving("idle") /\ save.id < MaxSaves
    /\ LET new == NewAttempt(save, save.id + 1)
           marked == [new EXCEPT !.active = TRUE]
           begun == [marked EXCEPT !.started = @ \cup {new.id}]
       IN  save' \in {new} \cup (IF save.active \/ save.started # save.ended THEN {}
                                ELSE {SaveTo(begun, "prerequisites"), begun, marked})

\* The buffer must run; the last path and then the names that exist are noted.
Prerequisites ==
    /\ Saving("prerequisites")
    /\ save' = IF save.late \/ ~save.buffer THEN Unverified(save)
               ELSE SaveTo([save EXCEPT !.previous = save.last], "baseline")
TakeBaseline ==
    /\ Saving("baseline")
    /\ save' = IF save.late THEN Unverified(save)
               ELSE SaveTo([save EXCEPT !.baseline = {n \in Paths : save.names[n] # Free}], "dispatch")

\* The generic save: its dispatch hook arms the subscription just before the
\* request is written.  Only a receipt that says "accepted" goes on.
DispatchSave ==
    /\ Saving("dispatch")
    /\ \/ save' = Unverified(save)
       \/ ~save.late /\ save' = SaveTo([save EXCEPT !.armed = TRUE, !.sent = @ \cup {save.id}], "sent")
SaveAnswered == Saving("sent") /\ save' \in {SaveTo(save, "candidate"), Unverified(save)}

\* OBS writes a replay, for this request or for another client, and announces
\* it some time later.  It may be set to overwrite a file.
SavedAs(s, n) == [s EXCEPT !.last = n, !.pending = @ \cup {n}]
Meddle(s) == save.meddled < MaxMeddling /\ save' = [s EXCEPT !.meddled = @ + 1]
ObsSaves(n) ==
    /\ save.pc # "idle"
    /\ \/ save.names[n] = Free /\ save' = SavedAs(Named(save, n), n)
       \/ save.names[n] # Free /\ Meddle(SavedAs(Rewritten(save, save.names[n]), n))
SaveAnnounced(n) ==
    /\ n \in save.pending
    /\ save' = [save EXCEPT !.pending = @ \ {n}, !.heard = IF save.armed THEN Append(@, n) ELSE @]

\* Subscription::candidate and what snapshot refuses of the path.
TakeCandidate ==
    /\ Saving("candidate") /\ (save.late \/ save.heard # <<>>)
    /\ LET n == Head(save.heard)
       IN  save' = IF save.late \/ Len(save.heard) # 1 THEN Unverified(save)
                   ELSE IF n = save.previous \/ n \in save.baseline \/ save.names[n] = Free THEN Unverified(save)
                   ELSE SaveTo([save EXCEPT !.snapshot = [NoSnapshot EXCEPT !.path = n, !.file = save.names[n],
                                                          !.version = VersionOf(save, n)]], "copy")

\* create_new, then the bytes of the descriptor.
MakeCopy ==
    /\ Saving("copy")
    /\ save' = IF save.names[Copy] # Free \/ save.late THEN Unverified(save)
               ELSE LET s == Named(save, Copy)
                    IN  SaveTo([s EXCEPT !.snapshot.copy = s.names[Copy], !.snapshot.made = VersionOf(s, Copy),
                                         !.snapshot.hash = save.version[save.snapshot.file]], "compare")

\* Verifier::recheck: the original by name and by descriptor, its bytes, and
\* the copy.
Unchanged(s) ==
    /\ s.names[s.snapshot.path] = s.snapshot.file
    /\ s.version[s.snapshot.file] = s.snapshot.version
    /\ s.version[s.snapshot.file] = s.snapshot.hash
    /\ s.names[Copy] = s.snapshot.copy /\ VersionOf(s, Copy) = s.snapshot.made

\* Snapshot::cleanup and retire_error: only our own file is removed, once, and
\* nothing after any doubt about a helper.
CopyRetired(s) ==
    LET done == SaveTo([s EXCEPT !.snapshot.copy = Free], "close")
        kept == [done EXCEPT !.unconfirmed = TRUE]
        gone == [done EXCEPT !.names[Copy] = Free]
    IN  {kept} \cup (IF s.helper # "loose" /\ s.names[Copy] = s.snapshot.copy THEN {gone} ELSE {})

CompareCopy ==
    /\ Saving("compare")
    /\ save' \in IF Unchanged(save) /\ ~save.late THEN {SaveTo(save, "probe")} ELSE CopyRetired(save)

\* verify_snapshot: one helper after the other reads the copy.  A helper that
\* could not be joined leaves its cleanup unconfirmed.
RunHelper(pc, running) ==
    /\ Saving(pc)
    /\ save' \in IF save.late THEN CopyRetired(save)
                 ELSE {[SaveTo(save, running) EXCEPT !.helper = "running", !.tested = @ \cup {VersionOf(save, Copy)}]}
HelperEnds(running, next) ==
    /\ Saving(running)
    /\ \E how \in {"ok", "failed", "loose"} :
          LET s == [save EXCEPT !.helper = IF how = "loose" THEN how ELSE "joined", !.loose = @ \/ how = "loose"]
          IN  save' \in IF how = "ok" /\ ~save.late THEN {SaveTo(s, next)} ELSE CopyRetired(s)

\* OBS is asked for the path again, and no second save may have been heard.
AskAgain ==
    /\ Saving("corroborate")
    /\ save' = IF save.last = save.snapshot.path /\ ~save.late THEN SaveTo(save, "confirm") ELSE Unverified(save)
ConfirmSave ==
    /\ Saving("confirm")
    /\ save' = IF save.heard = <<save.snapshot.path>> /\ ~save.late THEN SaveTo(save, "finish") ELSE Unverified(save)

\* Verifier::finish, after the last await on OBS.
FinishSave ==
    /\ Saving("finish")
    /\ save' \in IF ~Unchanged(save) \/ save.late THEN CopyRetired(save)
                 ELSE {[t EXCEPT !.good = ~t.unconfirmed] : t \in CopyRetired(save)}
Discard == Saving("discard") /\ save' \in CopyRetired(save)

\* Journal::complete: the result is written before the active mark goes, and
\* the mark goes before the last sync; any of the three may fail.
Completed(s) ==
    LET recorded == [s EXCEPT !.ended = @ \cup {s.id}]
        unmarked == [recorded EXCEPT !.active = FALSE]
    IN  [failed |-> {s, recorded, unmarked}, done |-> unmarked]
\* An attempt whose cleanup is unconfirmed stays open; a failure to complete
\* takes the verdict back.
CloseSave ==
    /\ Saving("close")
    /\ LET idle == SaveTo(NewAttempt(save, save.id), "idle")
           ends == Completed(idle)
       IN  save' \in IF save.unconfirmed THEN {idle}
                     ELSE ends.failed \cup
                          {[ends.done EXCEPT !.claims = IF save.good THEN @ \cup {save.id} ELSE @]}

\* The client cancels, or the deadline passes.
TooLate == ~save.late /\ save.pc \notin {"idle", "close", "discard"} /\ save' = [save EXCEPT !.late = TRUE]

\* Others: the process ends and starts again, what is on disk stays; files are
\* rewritten, replaced and removed; the buffer stops.
SaveCrash ==
    /\ save.pc # "idle"
    /\ Meddle([SaveTo(NewAttempt(save, save.id), "idle") EXCEPT !.loose = @ \/ save.helper = "running"])
ReadByHelper(s) == IF s.pc \in {"probing", "decoding"} THEN [s EXCEPT !.tested = @ \cup {VersionOf(s, Copy)}] ELSE s
SaveMeddling ==
    \/ \E n \in Paths \cup {Copy} :
          \/ save.names[n] # Free /\ Meddle(ReadByHelper(Rewritten(save, save.names[n])))
          \/ Meddle(ReadByHelper(Named(save, n)))
          \/ save.names[n] # Free /\ Meddle([save EXCEPT !.names[n] = Free])
    \/ Meddle([save EXCEPT !.buffer = ~@])

SaveSteps ==
    \/ BeginSave \/ Prerequisites \/ TakeBaseline \/ DispatchSave \/ SaveAnswered \/ TakeCandidate
    \/ MakeCopy \/ CompareCopy \/ RunHelper("probe", "probing") \/ HelperEnds("probing", "decode")
    \/ RunHelper("decode", "decoding") \/ HelperEnds("decoding", "corroborate")
    \/ AskAgain \/ ConfirmSave \/ FinishSave \/ Discard \/ CloseSave
SaveNext ==
    \/ SaveSteps \/ TooLate \/ SaveCrash \/ SaveMeddling
    \/ \E n \in Paths : ObsSaves(n) \/ SaveAnnounced(n)

(* SavesAreGrounded: when a replay is called verified, the file OBS named is *)
(* at that moment the file that was copied, made after the attempt began,    *)
(* with the bytes the helpers decoded and nothing else; OBS is asked to save *)
(* only when every earlier attempt is closed and has no helper at large; and *)
(* a private copy is removed only by the attempt that made it, never while a *)
(* helper may still read it.                                                 *)
SavesAreGrounded ==
    [][/\ save'.good /\ ~save.good =>
            LET c == save.snapshot
            IN  /\ save.names[c.path] = c.file /\ c.file >= save.oldest
                /\ save.version[c.file] = c.hash /\ save.tested = {c.made}
                /\ save.id \in save.sent
       /\ save'.sent # save.sent => save.sent \subseteq save.ended /\ ~save.loose
       /\ SaveSteps /\ save.names[Copy] # save'.names[Copy] /\ save.names[Copy] # Free =>
            save.names[Copy] = save.snapshot.copy /\ ~save.loose
       /\ save'.claims # save.claims => save.id \in save'.ended /\ save.good]_saveVars

-----------------------------------------------------------------------------
(* A confirmed output start *)

\* One output kind, one store.  records: what the store holds of each attempt;
\* sent, accepted: what truly happened; seen: the output was active at some
\* moment since the subscription.
NewLaunch(id) == [id |-> id, event |-> "none", expired |-> FALSE, reply |-> "none"]
LaunchInit ==
    launch = [pc |-> "idle", try |-> NewLaunch(0), records |-> <<>>, sent |-> {}, accepted |-> {}, told |-> <<>>,
              allowed |-> TRUE, late |-> FALSE, output |-> "off", seen |-> FALSE, meddled |-> 0]

Launching(pc) == launch.pc = pc
LaunchTo(l, pc) == [l EXCEPT !.pc = pc]
\* What the client is told: the fate of the request, and whether it started.
Tell(l, fate, started) ==
    [LaunchTo(l, "idle") EXCEPT !.told = Append(@, [fate |-> fate, started |-> started])]
\* The store writes a phase, or fails and keeps what it had.
Stores(l, phase) == [l EXCEPT !.records[l.try.id] = phase]
Barred == \E i \in DOMAIN launch.records : launch.records[i] \in {"prepared", "dispatching", "unknown"}

\* execute: policy, deadline, capability; the subscription comes first.
BeginLaunch ==
    /\ Launching("idle") /\ Len(launch.told) < MaxStarts
    /\ LET new == [launch EXCEPT !.try = NewLaunch(Len(launch.told) + 1), !.late = FALSE,
                                 !.seen = launch.output = "on", !.records = Append(@, "none")]
       IN  launch' \in {Tell(new, "not sent", FALSE)} \cup
                       (IF launch.allowed THEN {LaunchTo(new, "subscribed")} ELSE {})

\* BoundIo::check: who may control the output, the client and the deadlines.
MayStart == launch.allowed /\ ~launch.late
\* BoundIo::start up to the dispatch: the check again, no receipt of ours, no
\* receipt that bars, then the receipt, in two writes, and the store's fence,
\* which may be gone although the second write was made.
PrepareLaunch ==
    /\ Launching("subscribed")
    /\ LET prepared == Stores(launch, "prepared")
           dispatching == Stores(launch, "dispatching")
       IN  launch' \in IF ~MayStart \/ Barred THEN {Tell(launch, "not sent", FALSE)}
                       ELSE {Tell(l, "not sent", FALSE) : l \in {launch, prepared, dispatching}} \cup
                            {LaunchTo(dispatching, "dispatch")}

\* The guard runs just before the request is written: policy, cancellation,
\* deadlines and the fence of the store.
DispatchLaunch ==
    /\ Launching("dispatch")
    /\ launch' \in {LaunchTo([launch EXCEPT !.try.reply = "not sent"], "failed")} \cup
                    (IF MayStart
                     THEN {LaunchTo([launch EXCEPT !.sent = @ \cup {launch.try.id}], "sent")} ELSE {})

\* OBS accepts or rejects; the reply may not come in time.
Accept ==
    /\ Launching("sent") /\ launch.output = "off" /\ launch.try.id \notin launch.accepted
    /\ launch' = [launch EXCEPT !.accepted = @ \cup {launch.try.id}, !.output = "starting"]
LaunchReply ==
    /\ Launching("sent")
    /\ launch' \in
         {LaunchTo([launch EXCEPT !.try.reply = "unknown"], "failed")} \cup
         (IF launch.try.id \in launch.accepted THEN {LaunchTo(launch, "accepted")}
          ELSE {LaunchTo([launch EXCEPT !.try.reply = "rejected"], "failed")})

\* failed_receipt: the fate is told although its record may fail.
RecordFailure ==
    /\ Launching("failed")
    /\ launch' \in {Tell(Stores(launch, launch.try.reply), launch.try.reply, FALSE),
                     Tell(launch, launch.try.reply, FALSE)}
\* acknowledged: a start whose receipt cannot say so is reported as an error.
RecordAccepted ==
    /\ Launching("accepted")
    /\ launch' \in {LaunchTo(Stores(launch, "accepted"), "waiting"), Tell(launch, "accepted", FALSE)}

\* receive: the event, or the end of the confirmation, or of the observation.
AwaitOutput ==
    /\ Launching("waiting")
    /\ launch' \in
         (IF launch.try.event = "started" THEN {Tell(launch, "accepted", TRUE)}
          ELSE IF launch.try.event = "stopped" \/ launch.try.expired THEN {LaunchTo(launch, "status")}
          ELSE {}) \cup {Tell(launch, "accepted", FALSE)}
ConfirmationExpires ==
    /\ launch.pc \in {"sent", "accepted", "waiting"} /\ ~launch.try.expired
    /\ launch' = [launch EXCEPT !.try.expired = TRUE]
StatusActive == launch.output = "on" /\ ~launch.late
LookAtStatus ==
    /\ Launching("status")
    /\ launch' \in {Tell(launch, "accepted", FALSE)} \cup
                    (IF StatusActive THEN {Tell(launch, "accepted", TRUE)} ELSE {})

\* OBS: an output that is starting starts or fails; the first terminal event
\* after the subscription is kept.  The user may stop it, or start it too.
Turns(state, event) ==
    [launch EXCEPT !.output = state, !.seen = @ \/ state = "on",
                   !.try.event = IF @ = "none" /\ launch.pc \notin {"idle"} THEN event ELSE @]
OutputTurns ==
    \/ launch.output = "starting" /\ launch' \in {Turns("on", "started"), Turns("off", "stopped")}
    \/ /\ launch.meddled < MaxMeddling
       /\ launch' \in {[t EXCEPT !.meddled = @ + 1] : t \in
               (IF launch.output = "on" THEN {Turns("off", "stopped")}
                ELSE IF launch.output = "off" THEN {Turns("on", "started")} ELSE {})}
\* Who controls the production changes; the client cancels or time is up.
LaunchMeddling ==
    \/ launch.meddled < MaxMeddling /\ launch' = [launch EXCEPT !.allowed = ~@, !.meddled = @ + 1]
    \/ ~launch.late /\ launch.pc # "idle" /\ launch' = [launch EXCEPT !.late = TRUE]

LaunchNext ==
    \/ BeginLaunch \/ PrepareLaunch \/ DispatchLaunch \/ Accept \/ LaunchReply \/ RecordFailure \/ RecordAccepted
    \/ AwaitOutput \/ ConfirmationExpires \/ LookAtStatus \/ OutputTurns \/ LaunchMeddling

(* StartsAreHonest: what the store and the client learn of a start is what   *)
(* happened: "not sent" was never written to the socket, "accepted" was      *)
(* accepted by OBS, "rejected" was not; a success is told only if the output *)
(* was active after the attempt subscribed and the receipt says accepted;    *)
(* and no start is sent while the fate of an earlier one is open.            *)
StartsAreHonest ==
    [][/\ \A i \in DOMAIN launch'.told :
            LET t == launch'.told[i]  r == launch'.records[i]
            IN  /\ \A fate \in {t.fate, r} :
                      /\ fate = "not sent" => i \notin launch'.sent
                      /\ fate = "accepted" => i \in launch'.accepted
                      /\ fate = "rejected" => i \notin launch'.accepted
                /\ t.started => r = "accepted"
                /\ i \notin DOMAIN launch.told /\ t.started => launch.seen
       /\ launch'.sent # launch.sent => ~\E i \in DOMAIN launch.records :
            i # launch.try.id /\ launch.records[i] \in {"dispatching", "unknown"}]_launchVars

=============================================================================
