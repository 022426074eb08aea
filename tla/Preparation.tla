----------------------------- MODULE Preparation -----------------------------
(***************************************************************************)
(* Preparation of a demo and its recovery (demo.rs, demo_transport.rs,     *)
(* preparation_journal.rs): a few fields of one capture are set one by     *)
(* one, each step is journalled before and after its frame, and recovery,  *)
(* possibly in another process, puts back what preparation changed.        *)
(*                                                                         *)
(* One selection.  Slot 0 is what must not change at all (identity and     *)
(* settings), the other slots are the owned fields; the value "t" is what  *)
(* preparation wants.  Reading the state is one step per slot between two  *)
(* looks at the evidence revision.  A user changes any slot at any time    *)
(* and OBS announces a change whenever it likes.  Path and identity checks *)
(* of the journal's files are publication failures; the process may crash  *)
(* between any two steps and a rename that is not synced may be undone.    *)
(***************************************************************************)
EXTENDS Integers, Sequences, SequencesExt

CONSTANTS NumFields,            \* owned fields of the capture (10)
          MaxOps,               \* bound: preparations that get a journal
          MaxRecoveryAttempts,  \* attempts per field that a journal takes (64)
          MaxUserChanges,       \* bound: changes made by the user
          MaxRuns,              \* bound: prepare and recover calls
          MaxCrashes            \* bound: crashes

ASSUME PreparationAssumption ==
    /\ {NumFields, MaxOps, MaxRecoveryAttempts, MaxRuns} \subseteq Nat \ {0}
    /\ MaxUserChanges \in Nat /\ MaxCrashes \in Nat

Fields == 1..NumFields
Slots == 0..NumFields
OpIds == 1..MaxOps
Values == {"u", "v", "t"}

VARIABLES
    obs,       \* the value OBS has in each slot
    wire,      \* changes OBS has not announced yet
    revision,  \* evidence revision: announcements received
    heard,     \* history: slots changed by the user since they were read
    files,     \* the journals that readers see
    durable,   \* the journals that survive a crash
    poisoned,  \* journals whose publication is in doubt, known to this process
    op,        \* the running operation with its journal in memory
    frames,    \* mutations that left, with what OBS made of them
    uses       \* counters of the bounded events

prepVars == <<obs, wire, revision, heard, files, durable, poisoned, op, frames, uses>>

(***************************************************************************)
(* The journal.                                                            *)
(***************************************************************************)
Status(steps) == IF steps = <<>> THEN "none" ELSE Last(steps)
PrepStatus(j, f) == Status(j.prep[f])
RecStatus(j, f) == IF j.rec[f] = <<>> THEN "none" ELSE Status(Last(j.rec[f]))
Doubtful == {"possible", "unknown"}
OwnsRestore(j, f) == PrepStatus(j, f) = "accepted"
Restored(j, f) == RecStatus(j, f) \in {"accepted", "observed"}
\* A legacy journal has no provenance: whatever was attempted is uncertain.
Uncertain(j) ==
    IF j.version = 1 THEN j.attempted /\ ~j.completed
    ELSE \E f \in j.changes : {PrepStatus(j, f), RecStatus(j, f)} \cap Doubtful # {}
FullyPrepared(j) == j.version = 2 /\ ~j.completed /\ \A f \in j.changes : OwnsRestore(j, f)
Before(j, f) == {g \in j.changes : g < f}

NoFile == [version |-> 0]
NewJournal(before) ==
    [version |-> 2, before |-> before, changes |-> {f \in Fields : before[f] # "t"},
     prep |-> [f \in Fields |-> <<>>], rec |-> [f \in Fields |-> <<>>],
     attempted |-> FALSE, completed |-> FALSE]

Terminal == {"accepted", "notdispatched", "rejected", "unknown"}
ValidAttempt(steps, recovery) ==
    \/ steps \in {<<"intent">>, <<"intent", "possible">>, <<"intent", "notdispatched">>}
    \/ \E t \in Terminal : steps = <<"intent", "possible", t>>
    \/ recovery /\ steps = <<"observed">>
\* Provenance::validate, which every reader of a file applies.
Validate(j) ==
    /\ \A f \in j.changes :
           /\ j.prep[f] # <<>> => ValidAttempt(j.prep[f], FALSE) /\ \A g \in Before(j, f) : OwnsRestore(j, g)
           /\ j.rec[f] # <<>> =>
                  /\ \A g \in Before(j, f) : Restored(j, g)
                  /\ PrepStatus(j, f) \notin Doubtful
                  /\ Len(j.rec[f]) <= MaxRecoveryAttempts
                  /\ \A i \in 1..Len(j.rec[f]) :
                         /\ ValidAttempt(j.rec[f][i], TRUE)
                         /\ i < Len(j.rec[f]) => Status(j.rec[f][i]) \in {"notdispatched", "rejected"}
                         /\ ~OwnsRestore(j, f) => j.rec[f][i] = <<"observed">>
    /\ j.completed => (\A f \in j.changes : Restored(j, f)) /\ ~Uncertain(j)

Extends(old, new) ==
    new = old \/ (Len(new) = Len(old) + 1 /\ IsPrefix(old, new))
\* Provenance::successor: what a publication may change of what it replaces.
Successor(j, k) ==
    LET changed == {f \in j.changes : <<j.prep[f], j.rec[f]>> # <<k.prep[f], k.rec[f]>>} IN
    \/ j = k
    \/ /\ ~j.completed /\ j.before = k.before
       /\ IF k.completed THEN changed = {} /\ \A f \in k.changes : Restored(k, f)
          ELSE \E f \in changed :
                   /\ changed = {f} /\ Extends(j.prep[f], k.prep[f])
                   /\ k.prep[f] # j.prep[f] => \A g \in j.changes : j.rec[g] = <<>>
                   /\ Len(k.rec[f]) \in {Len(j.rec[f]), Len(j.rec[f]) + 1}
                   /\ \A i \in 1..Len(j.rec[f]) : Extends(j.rec[f][i], k.rec[f][i])

Retry == {"none", "notdispatched", "rejected"}
CanBeginPreparation(j, f) ==
    /\ ~j.completed /\ j.prep[f] = <<>>
    /\ \A g \in j.changes : j.rec[g] = <<>> /\ (g < f => OwnsRestore(j, g))
BeginPreparation(j, f) == [j EXCEPT !.prep[f] = <<"intent">>]
CanBeginRecovery(j, f) ==
    /\ ~Uncertain(j) /\ ~j.completed /\ \A g \in Before(j, f) : Restored(j, g)
    /\ OwnsRestore(j, f) /\ RecStatus(j, f) \in Retry /\ Len(j.rec[f]) < MaxRecoveryAttempts
BeginRecovery(j, f) == [j EXCEPT !.rec[f] = Append(@, <<"intent">>)]
CanObserveBefore(j, f) ==
    /\ ~j.completed /\ \A g \in Before(j, f) : Restored(j, g)
    /\ PrepStatus(j, f) \notin Doubtful
    /\ RecStatus(j, f) \in Retry /\ Len(j.rec[f]) < MaxRecoveryAttempts
ObservedBefore(j, f) == [j EXCEPT !.rec[f] = Append(@, <<"observed">>)]
Advance(j, f, recovery, step) ==
    IF recovery THEN [j EXCEPT !.rec[f][Len(j.rec[f])] = Append(@, step)]
    ELSE [j EXCEPT !.prep[f] = Append(@, step)]

(***************************************************************************)
(* The operation.                                                          *)
(***************************************************************************)
Idle == [pc |-> "idle", result |-> "none"]
\* The end of an operation: its report, and no journal in memory.
Over(result) == [pc |-> "idle", result |-> result]
Failed == Over(IF op.sending THEN "partial" ELSE "failed")
Start(kind, apply, id, journal) ==
    [pc |-> "read", kind |-> kind, apply |-> apply, id |-> id, journal |-> journal,
     field |-> 0, slot |-> 0, base |-> revision, sample |-> obs, fence |-> 0,
     state |-> obs, expected |-> obs, then |-> "plan", fresh |-> FALSE, again |-> FALSE,
     next |-> "none", sending |-> FALSE, result |-> "none"]
Calls == uses.calls < MaxRuns
Count(what) == uses' = [uses EXCEPT ![what] = @ + 1]

\* prepare: the journal gets its identity when it is created.
Prepare(apply) ==
    /\ op.pc = "idle" /\ Calls /\ Count("calls")
    /\ op' = Start("prepare", apply, 0, NoFile)
    /\ UNCHANGED <<obs, wire, revision, heard, files, durable, poisoned, frames>>

\* JournalFile::load: not in doubt, there, and valid.
Loads(id) == id \notin poisoned /\ files[id] # NoFile /\ Validate(files[id])
\* recover: load, then the refusal that needs no look at OBS.
Recover(id, apply) ==
    /\ op.pc = "idle" /\ Calls /\ Count("calls")
    /\ op' = IF ~Loads(id) THEN Over("failed")
             ELSE IF ~files[id].completed /\ Uncertain(files[id]) THEN Over("unknown")
             ELSE Start("recover", apply, id, files[id])
    /\ UNCHANGED <<obs, wire, revision, heard, files, durable, poisoned, frames>>

\* read_state looks at the slots one after the other.
ReadSlot ==
    /\ op.pc = "read" /\ op.slot \in Slots
    /\ op' = [op EXCEPT !.sample[op.slot] = obs[op.slot], !.slot = @ + 1]
    /\ heard' = heard \ {op.slot}
    /\ UNCHANGED <<obs, wire, revision, files, durable, poisoned, frames, uses>>

Read(o, then) ==
    [o EXCEPT !.pc = "read", !.then = then, !.slot = 0, !.base = revision,
              !.again = o.fresh, !.fresh = FALSE]
\* The fields still to be visited, in order.
NextField(o) ==
    LET left == {f \in o.journal.changes : f > o.field} IN
    IF left = {} THEN Read(o, "final")
    ELSE LET f == CHOOSE g \in left : \A h \in left : g <= h IN
         IF o.kind = "prepare" THEN Read([o EXCEPT !.field = f], "field")
         ELSE [o EXCEPT !.field = f, !.pc = "visit"]

\* The journals that still bind this selection.
Pending == {id \in OpIds : files[id] # NoFile /\ ~files[id].completed}
\* prepare_inner after its first sample.
PlanPreparation ==
    LET s == op.sample IN
    IF poisoned # {} THEN Failed
    ELSE IF \E id \in Pending : TRUE
    THEN LET old == files[CHOOSE id \in Pending : TRUE] IN
         Over(IF FullyPrepared(old) /\ s[0] = old.before[0] /\ \A f \in Fields : s[f] = "t"
              THEN "already" ELSE "conflict")
    ELSE IF \A f \in Fields : s[f] = "t" THEN Over("already")
    ELSE IF ~op.apply THEN Over("planned")
    ELSE [op EXCEPT !.pc = "snapshot", !.state = s, !.expected = s]

\* recover_inner after its first sample.
PlanRecovery ==
    LET s == op.sample
        j == op.journal
        same(f) == s[f] = j.before[f]
        conflict(f) == ~same(f) /\ (j.version = 1 \/ Restored(j, f) \/ ~OwnsRestore(j, f) \/ s[f] # "t")
    IN IF s[0] # j.before[0] THEN Over("conflict")
       ELSE IF j.completed
       THEN Over(IF \A f \in j.changes : same(f) THEN "already" ELSE "conflict")
       ELSE IF \E f \in j.changes : conflict(f) THEN Over("conflict")
       ELSE IF ~op.apply THEN Over("planned")
       ELSE LET o == [op EXCEPT !.state = s, !.expected = s, !.fence = op.base] IN
            IF j.version = 1
            THEN [o EXCEPT !.pc = "persist", !.next = "fields",
                           !.journal = [j EXCEPT !.version = 2]]
            ELSE NextField(o)

\* The fields a sample is compared in: a preparation looks at every owned field,
\* a recovery at those its journal changed.
Compared == IF op.kind = "prepare" THEN Fields ELSE op.journal.changes
\* What the loop asks of a sample before it goes on to write.
SampleFits ==
    /\ op.sample[0] = op.state[0]
    /\ \A f \in Compared : op.sample[f] = op.expected[f]
WantedAtEnd(f) == IF op.kind = "prepare" THEN "t" ELSE op.journal.before[f]

\* The end of read_state, with read_after_accepted: once after an acceptance a
\* sample that changed meanwhile is taken again.
SampleTaken ==
    /\ op.pc = "read" /\ op.slot > NumFields
    /\ op' = IF revision # op.base
             THEN IF op.again THEN Read(op, op.then) ELSE Failed
             ELSE CASE op.then = "plan" ->
                           IF op.kind = "prepare" THEN PlanPreparation ELSE PlanRecovery
                    [] op.then = "field" ->
                           IF ~SampleFits THEN Failed
                           ELSE [op EXCEPT !.pc = "begin", !.fence = revision]
                    [] op.then = "final" ->
                           IF op.sample[0] # op.state[0]
                              \/ \E f \in Compared : op.sample[f] # WantedAtEnd(f)
                           THEN Failed
                           ELSE IF op.kind = "prepare" THEN Over("prepared")
                           ELSE [op EXCEPT !.pc = "persist", !.next = "done",
                                           !.journal.completed = TRUE]
    /\ UNCHANGED <<obs, wire, revision, heard, files, durable, poisoned, frames, uses>>

\* take_snapshot reads once more and saves; then the journal is created.
Snapshot ==
    /\ op.pc = "snapshot"
    /\ LET free == {id \in OpIds : files[id] = NoFile} IN
       /\ free # {}
       /\ op' = IF obs # op.state THEN Failed
                ELSE [op EXCEPT !.pc = "persist", !.next = "fields",
                          !.id = CHOOSE id \in free : \A other \in free : id <= other,
                          !.journal = NewJournal(op.state)]
    /\ UNCHANGED <<obs, wire, revision, heard, files, durable, poisoned, frames, uses>>

\* A field of the recovery: an abandoned intent, one that is already back, or a
\* fresh sample.
Visit ==
    /\ op.pc = "visit"
    /\ LET j == op.journal
           f == op.field
       IN op' = IF Restored(j, f) THEN NextField(op)
                ELSE IF RecStatus(j, f) = "intent"
                THEN [op EXCEPT !.pc = "persist", !.next = "visit",
                                !.journal = Advance(j, f, TRUE, "notdispatched")]
                ELSE IF op.state[f] = j.before[f]
                THEN IF ~CanObserveBefore(j, f) THEN Failed
                     ELSE [op EXCEPT !.pc = "persist", !.next = "fields",
                                     !.journal = ObservedBefore(j, f)]
                ELSE Read(op, "field")
    /\ UNCHANGED <<obs, wire, revision, heard, files, durable, poisoned, frames, uses>>

Begin ==
    /\ op.pc = "begin"
    /\ LET j == op.journal
           f == op.field
           prepare == op.kind = "prepare"
       IN op' = IF ~(IF prepare THEN CanBeginPreparation(j, f) ELSE CanBeginRecovery(j, f))
                THEN Failed
                ELSE [op EXCEPT !.pc = "persist", !.next = "possible",
                         !.journal = IF prepare THEN BeginPreparation(j, f) ELSE BeginRecovery(j, f)]
    /\ UNCHANGED <<obs, wire, revision, heard, files, durable, poisoned, frames, uses>>

\* What follows a publication.
Continue(o) ==
    CASE o.next = "fields" -> NextField(o)
      [] o.next = "visit" -> [o EXCEPT !.pc = "visit"]
      [] o.next = "possible" ->
             [o EXCEPT !.pc = "persist", !.next = "send",
                       !.journal = Advance(o.journal, o.field, o.kind = "recover", "possible")]
      [] o.next = "send" -> [o EXCEPT !.pc = "send", !.sending = TRUE]
      [] o.next = "done" -> Over("recovered")
      [] o.next = "failed" -> Failed

\* JournalFile::persist: refused, unavailable before the rename, in doubt after
\* it, or published.
Persist(outcome) ==
    /\ op.pc = "persist"
    /\ LET id == op.id
           replaced == IF files[id].version = 1 THEN [files[id] EXCEPT !.version = 2] ELSE files[id]
           allowed == /\ id \notin poisoned /\ Validate(op.journal)
                      /\ files[id] # NoFile => Successor(replaced, op.journal)
       IN IF ~allowed \/ outcome = "unavailable"
          THEN op' = Failed /\ UNCHANGED <<files, durable, poisoned>>
          ELSE /\ files' = [files EXCEPT ![id] = op.journal]
               /\ IF outcome = "published"
                  THEN /\ durable' = files' /\ op' = Continue(op) /\ UNCHANGED poisoned
                  ELSE /\ poisoned' = poisoned \union {id} /\ op' = Failed /\ UNCHANGED durable
    /\ UNCHANGED <<obs, wire, revision, heard, frames, uses>>

(***************************************************************************)
(* The frame.                                                              *)
(***************************************************************************)
Settled(step) ==
    LET o == [op EXCEPT !.pc = "persist",
                  !.journal = Advance(@, op.field, op.kind = "recover", step)]
    IN IF step # "accepted" THEN [o EXCEPT !.next = "failed"]
       ELSE [o EXCEPT !.next = "fields", !.fresh = TRUE,
                 !.expected[op.field] = IF op.kind = "prepare" THEN "t"
                                        ELSE op.journal.before[op.field]]

\* Fault seed: the evidence is not compared again before the frame.
FenceIgnored == TRUE
\* ready_at_revision for the revision of the sample.
FenceReady == revision = op.fence

\* BoundDemoAdapter::mutate: refused before the frame (policy, cancellation,
\* deadline, evidence), or sent.
Send(refused) ==
    /\ op.pc = "send"
    /\ IF refused \/ ~FenceReady
       THEN op' = Settled("notdispatched") /\ UNCHANGED frames
       ELSE /\ op' = [op EXCEPT !.pc = "wait"]
            /\ frames' = Append(frames, [id |-> op.id, field |-> op.field, kind |-> op.kind,
                   attempt |-> IF op.kind = "prepare" THEN 1 ELSE Len(op.journal.rec[op.field]),
                   value |-> WantedAtEnd(op.field), fate |-> "sent"])
    /\ UNCHANGED <<obs, wire, revision, heard, files, durable, poisoned, uses>>

\* The answer, or none before the deadline, a disconnection or a cancellation.
Answer(step) ==
    /\ op.pc = "wait"
    /\ LET fate == Last(frames).fate IN
       /\ step = "accepted" => fate = "applied"
       /\ step = "rejected" => fate = "refused"
    /\ op' = Settled(step)
    /\ UNCHANGED <<obs, wire, revision, heard, files, durable, poisoned, frames, uses>>

\* Any await of a read may end with the deadline, a cancellation or the session.
OpFails ==
    /\ op.pc \in {"read", "snapshot"}
    /\ op' = Failed
    /\ UNCHANGED <<obs, wire, revision, heard, files, durable, poisoned, frames, uses>>

(***************************************************************************)
(* OBS, its user, and the process.                                         *)
(***************************************************************************)
ObsAnswers(n, fate) ==
    /\ frames[n].fate = "sent"
    /\ frames' = [frames EXCEPT ![n].fate = fate]
    /\ IF fate = "applied"
       THEN /\ obs' = [obs EXCEPT ![frames[n].field] = frames[n].value]
            /\ wire' = Append(wire, [slot |-> frames[n].field, user |-> FALSE])
       ELSE UNCHANGED <<obs, wire>>
    /\ UNCHANGED <<revision, heard, files, durable, poisoned, op, uses>>

UserChanges(slot, v) ==
    /\ uses.changes < MaxUserChanges /\ Count("changes") /\ obs[slot] # v
    /\ obs' = [obs EXCEPT ![slot] = v]
    /\ wire' = Append(wire, [slot |-> slot, user |-> TRUE])
    /\ UNCHANGED <<revision, heard, files, durable, poisoned, op, frames>>

Announce ==
    /\ wire # <<>>
    /\ wire' = Tail(wire) /\ revision' = revision + 1
    /\ heard' = IF Head(wire).user THEN heard \union {Head(wire).slot} ELSE heard
    /\ UNCHANGED <<obs, files, durable, poisoned, op, frames, uses>>

\* The process dies; a rename without its syncs may or may not survive.
PrepCrash(kept) ==
    /\ uses.crashes < MaxCrashes /\ Count("crashes")
    /\ files' = IF kept THEN files ELSE durable
    /\ durable' = files'
    /\ poisoned' = {} /\ op' = Idle /\ heard' = {}
    /\ UNCHANGED <<obs, wire, revision, frames>>

(***************************************************************************)
(* The specification.                                                      *)
(***************************************************************************)
\* At first there is no journal, or one of the earlier implementation.
PrepInit ==
    /\ obs \in [Slots -> Values] /\ obs[0] = "u" /\ \A f \in Fields : obs[f] # "v"
    /\ \/ files = [id \in OpIds |-> NoFile]
       \/ \E attempted \in BOOLEAN :
              files = [id \in OpIds |-> IF id # 1 THEN NoFile
                          ELSE [NewJournal([s \in Slots |-> "u"]) EXCEPT !.version = 1,
                                                                  !.attempted = attempted]]
    /\ durable = files /\ poisoned = {} /\ op = Idle /\ frames = <<>>
    /\ wire = <<>> /\ revision = 0 /\ heard = {}
    /\ uses = [calls |-> 0, changes |-> 0, crashes |-> 0]

PrepNext ==
    \/ \E apply \in BOOLEAN : Prepare(apply) \/ \E id \in OpIds : Recover(id, apply)
    \/ ReadSlot \/ SampleTaken \/ Snapshot \/ Visit \/ Begin \/ OpFails
    \/ \E outcome \in {"unavailable", "doubtful", "published"} : Persist(outcome)
    \/ \E refused \in BOOLEAN : Send(refused)
    \/ \E step \in {"accepted", "rejected", "unknown"} : Answer(step)
    \/ \E n \in 1..Len(frames), fate \in {"applied", "refused", "lost"} : ObsAnswers(n, fate)
    \/ \E slot \in Slots, v \in {"u", "v"} : UserChanges(slot, v)
    \/ Announce
    \/ \E kept \in BOOLEAN : PrepCrash(kept)

(***************************************************************************)
(* Properties.                                                             *)
(***************************************************************************)
\* Every journal on disk can be read back, so recovery is never locked out.
PrepTypeOK ==
    /\ obs \in [Slots -> Values] /\ revision \in Nat /\ poisoned \subseteq OpIds
    /\ \A id \in OpIds : /\ files[id] # NoFile => Validate(files[id])
                         /\ durable[id] # NoFile => Validate(durable[id])
    /\ op.pc \in {"idle", "read", "snapshot", "visit", "begin", "persist", "send", "wait"}

AttemptOf(j, x) == IF x.kind = "prepare" THEN j.prep[x.field] ELSE j.rec[x.field][x.attempt]

\* The journal that a crash leaves behind never denies a frame, and claims an
\* acceptance or a rejection only if OBS gave it.
JournalIsHonest ==
    \A n \in 1..Len(frames) :
        LET x == frames[n]
            j == durable[x.id]
        IN /\ j # NoFile /\ (x.kind = "prepare" \/ x.attempt <= Len(j.rec[x.field]))
           /\ Status(AttemptOf(j, x)) \in {"possible", "accepted", "rejected", "unknown"}
           /\ Status(AttemptOf(j, x)) = "accepted" => x.fate = "applied"
           /\ Status(AttemptOf(j, x)) = "rejected" => x.fate = "refused"

(* RecoveryTouchesOnlyItsOwn: a frame of a recovery leaves only for a field  *)
(* whose preparation is durably journalled as accepted, whose value was just *)
(* seen to be the prepared one and of which no change by the user has been   *)
(* announced since; a frame whose outcome is in doubt is followed by no      *)
(* other for its journal, across crashes, failed publications and new        *)
(* operations.  A preparation never sends the same field twice.              *)
RecoveryTouchesOnlyItsOwn ==
    [][Len(frames') > Len(frames) =>
           LET x == Last(frames')
               j == durable[x.id]
           IN /\ heard = {}
              /\ Status(AttemptOf(j, x)) = "possible"
              /\ x.kind = "recover" => OwnsRestore(j, x.field) /\ op.sample[x.field] = "t"
              /\ \A n \in 1..Len(frames) : frames[n].id = x.id =>
                     /\ Status(AttemptOf(j, frames[n])) \notin Doubtful
                     /\ x.kind = "prepare" => frames[n].field # x.field]_prepVars

=============================================================================
