---------------------------- MODULE JournalProofs ----------------------------
(***************************************************************************)
(* Machine-checked proofs about the workflows that keep a journal: demo    *)
(* preparation (module Preparation) and the scene workflows (module        *)
(* Workflows), as parts of Plans.                                          *)
(***************************************************************************)
EXTENDS FilesProofs, WellFoundedInduction

-----------------------------------------------------------------------------
(* The journal of a preparation.                                           *)

StepNames == Terminal \union {"intent", "possible", "observed"}
JournalFields == {"version", "before", "changes", "prep", "rec", "attempted", "completed"}
JournalShape(j) ==
    /\ DOMAIN j = JournalFields
    /\ j.before \in [Slots -> Values] /\ j.changes \subseteq Fields
    /\ j.prep \in [Fields -> Seq(StepNames)] /\ j.rec \in [Fields -> Seq(Seq(StepNames))]
FrameShape == [id : OpIds, field : Fields, kind : {"prepare", "recover"}, attempt : Nat \ {0},
               value : Values, fate : {"sent", "applied", "refused", "lost"}]

\* The journal j tells the truth about the frame x.
Admits(j, x) ==
    /\ x.field \in j.changes
    /\ x.kind = "recover" => x.attempt <= Len(j.rec[x.field])
    /\ Status(AttemptOf(j, x)) \in {"possible", "accepted", "rejected", "unknown"}
    /\ Status(AttemptOf(j, x)) = "accepted" => x.fate = "applied"
    /\ Status(AttemptOf(j, x)) = "rejected" => x.fate = "refused"
AdmitsAll(j, id) == \A n \in 1..Len(frames) : frames[n].id = id => Admits(j, frames[n])
Decided(j, id) ==
    \A n \in 1..Len(frames) : frames[n].id = id => Status(AttemptOf(j, frames[n])) \notin Doubtful

\* OBS, its announcements, and the journals on disk.  A journal whose
\* publication is not in doubt is the one that a crash would leave.
Outer ==
    /\ obs \in [Slots -> Values] /\ revision \in Nat /\ heard \subseteq Slots
    /\ wire \in Seq([slot : Slots, user : BOOLEAN]) /\ frames \in Seq(FrameShape)
OnDisk(d) ==
    /\ DOMAIN d = OpIds
    /\ \A id \in OpIds : d[id] # NoFile => JournalShape(d[id]) /\ Validate(d[id]) /\ AdmitsAll(d[id], id)
    /\ \A n \in 1..Len(frames) : d[frames[n].id] # NoFile
Disk ==
    /\ poisoned \subseteq OpIds /\ OnDisk(files) /\ OnDisk(durable)
    /\ \A id \in OpIds : IF id \in poisoned THEN files[id] # NoFile ELSE files[id] = durable[id]

OpFields == {"pc", "kind", "apply", "id", "journal", "field", "slot", "base", "sample", "fence",
             "state", "expected", "then", "fresh", "again", "next", "sending", "result"}
OpShape(o) ==
    /\ DOMAIN o = OpFields /\ o.kind \in {"prepare", "recover"} /\ o.then \in {"plan", "field", "final"}
    /\ o.sample \in [Slots -> Values] /\ o.state \in [Slots -> Values] /\ o.expected \in [Slots -> Values]
    /\ o.slot \in Nat /\ o.field \in Nat /\ o.base \in Nat /\ o.fence \in Nat
    /\ o.base <= revision /\ o.fence <= revision
Placed(o) ==
    /\ o.pc \in {"read", "snapshot", "visit", "begin", "persist", "send", "wait"}
    /\ o.pc = "snapshot" => o.kind = "prepare"
    /\ o.pc = "visit" => o.kind = "recover"
    /\ o.pc = "send" => o.next = "send"
    /\ o.pc = "persist" => /\ o.next \in {"fields", "visit", "possible", "send", "done", "failed"}
                           /\ o.next = "visit" => o.kind = "recover"
\* A preparation that has not created its journal yet.
Blank(o) == o.kind = "prepare" /\ (o.pc = "snapshot" \/ (o.pc = "read" /\ o.then = "plan"))
Kept(o) == ~Blank(o) => JournalShape(o.journal) /\ AdmitsAll(o.journal, o.id)
\* What was read since the last announcement is still so, as far as was announced.
Sighted(o) == o.pc = "read" /\ o.base = revision => \A s \in Slots : s < o.slot => s \notin heard
\* The attempt that runs.
Attempt(j, f, kind) == IF kind = "prepare" THEN j.prep[f] ELSE j.rec[f][Len(j.rec[f])]
Trying(o) ==
    /\ o.field \in o.journal.changes
    /\ o.kind = "recover" => o.journal.rec[o.field] # <<>> /\ OwnsRestore(o.journal, o.field)
Untouched(o) == \A n \in 1..Len(frames) : frames[n].id = o.id => frames[n].field # o.field
\* Between a sample and its frame.
Aiming(o) == o.pc \in {"begin", "send"} \/ (o.pc = "persist" /\ o.next \in {"possible", "send"})
Aimed(o) ==
    Aiming(o) =>
        /\ o.field \in o.journal.changes
        /\ o.fence = revision => heard = {}
        /\ o.kind = "recover" => o.sample[o.field] = "t"
        /\ o.pc # "begin" =>
              /\ Trying(o) /\ Decided(o.journal, o.id)
              /\ o.next \in {"possible", "send"}
              /\ Status(Attempt(o.journal, o.field, o.kind)) = IF o.next = "possible" THEN "intent" ELSE "possible"
              /\ o.kind = "prepare" => Untouched(o)
Current(o, x) ==
    /\ x.id = o.id /\ x.kind = o.kind /\ x.field = o.field
    /\ o.kind = "recover" => x.attempt = Len(o.journal.rec[o.field])
Awaiting(o) ==
    o.pc = "wait" =>
        /\ Trying(o) /\ Status(Attempt(o.journal, o.field, o.kind)) = "possible"
        /\ frames # <<>> /\ Current(o, frames[Len(frames)])
        /\ \A n \in 1..(Len(frames) - 1) : ~Current(o, frames[n])
\* What a recovery expects of the fields that it has not visited.
Expecting(o) ==
    o.kind = "recover" =>
        /\ o.journal.version # 1
        /\ \A f \in o.journal.changes : o.state[f] \in {o.journal.before[f], "t"}
        /\ \A f \in o.journal.changes : f > o.field => o.expected[f] = o.state[f]
Visiting(o) ==
    /\ o.pc = "read" /\ o.then = "field" =>
          o.field \in o.journal.changes /\ (o.kind = "recover" => o.expected[o.field] = "t")
    /\ ~(o.pc = "read" /\ o.then = "plan") => Expecting(o)
    /\ o.pc = "visit" \/ (o.kind = "recover" /\ o.pc = "persist" /\ o.next = "visit") =>
          o.field \in o.journal.changes /\ o.expected[o.field] = o.state[o.field]
OpCore(o) ==
    OpShape(o) /\ Placed(o) /\ Kept(o) /\ Sighted(o) /\ Aimed(o) /\ Awaiting(o) /\ Visiting(o)
\* The journal in memory is the one on disk, or is about to replace it.
Tied(o) ==
    ~Blank(o) => /\ o.id \in OpIds /\ o.id \notin poisoned
                 /\ o.pc # "persist" => o.journal = files[o.id]
OpInv(o) == o.pc = "idle" \/ (OpCore(o) /\ Tied(o))
PrepInv == Outer /\ Disk /\ OpInv(op)

-----------------------------------------------------------------------------
\* A set of naturals has a first element.
LEMMA FirstOf ==
  ASSUME NEW T, T \subseteq Nat, T # {}
  PROVE  (CHOOSE f \in T : \A g \in T : f <= g) \in T
  <1>1. PICK f \in T : \A g \in T : ~(<<g, f>> \in OpToRel(<, Nat))
    BY NatLessThanWellFounded, WFMin
  <1>2. \A g \in T : ~(g < f)
    BY <1>1 DEF OpToRel
  <1>3. \A g \in T : f <= g
    BY <1>2
  <1>4. QED BY <1>3

\* One more step of an attempt, or one more attempt.
LEMMA OneMore ==
  ASSUME NEW S, NEW s \in Seq(S), NEW e \in S
  PROVE  /\ Append(s, e) \in Seq(S) /\ Append(s, e) # <<>>
         /\ Len(s) \in Nat /\ Len(Append(s, e)) = Len(s) + 1
         /\ \A i \in 1..Len(s) : Append(s, e)[i] = s[i]
         /\ Append(s, e)[Len(s) + 1] = e /\ Last(Append(s, e)) = e
         /\ Status(Append(s, e)) = e
  <1>1. /\ Append(s, e) \in Seq(S) /\ Append(s, e) # <<>>
        /\ Len(s) \in Nat /\ Len(Append(s, e)) = Len(s) + 1
        /\ \A i \in 1..Len(s) : Append(s, e)[i] = s[i]
        /\ Append(s, e)[Len(s) + 1] = e
    BY AppendProperties, LenProperties
  <1>2. Last(Append(s, e)) = e
    BY <1>1 DEF Last
  <1>3. QED BY <1>1, <1>2 DEF Status

LEMMA OneStep ==
  ASSUME NEW e
  PROVE  <<e>> # <<>> /\ Len(<<e>>) = 1 /\ Status(<<e>>) = e
  BY DEF Status, Last

LEMMA StepIsName ==
  ASSUME NEW e \in {"intent", "possible", "observed", "accepted", "notdispatched", "rejected", "unknown"}
  PROVE  e \in StepNames /\ <<e>> \in Seq(StepNames)
  <1>1. e \in StepNames
    BY DEF StepNames, Terminal
  <1>2. QED BY <1>1

\* A journal in which one attempt changed.
LEMMA PrepChanged ==
  ASSUME NEW j, JournalShape(j), NEW k, Alike(j, k, {"prep"}), k.prep \in [Fields -> Seq(StepNames)]
  PROVE  /\ JournalShape(k) /\ k.changes = j.changes /\ k.before = j.before /\ k.rec = j.rec
         /\ k.version = j.version
  BY DEF JournalShape, JournalFields, Alike

LEMMA RecChanged ==
  ASSUME NEW j, JournalShape(j), NEW k, Alike(j, k, {"rec"}), k.rec \in [Fields -> Seq(Seq(StepNames))]
  PROVE  /\ JournalShape(k) /\ k.changes = j.changes /\ k.before = j.before /\ k.prep = j.prep
         /\ k.version = j.version
  BY DEF JournalShape, JournalFields, Alike

\* What a step of the operation alone leaves of the invariant.
LEMMA DiskStays ==
  ASSUME Disk, UNCHANGED <<files, durable, poisoned, frames>>
  PROVE  Disk'
  BY DEF Disk, OnDisk, AdmitsAll

LEMMA CoreStays ==
  ASSUME OpCore(op'), UNCHANGED <<revision, heard, frames>>
  PROVE  OpCore(op)'
  BY DEF OpCore, OpShape, Placed, Kept, AdmitsAll, Sighted, Aimed, Decided, Untouched, Awaiting,
         Visiting, Aiming, Blank, Trying, Attempt, Current, Expecting

LEMMA OpStays ==
  ASSUME PrepInv, OpInv(op'),
         UNCHANGED <<obs, wire, revision, heard, files, durable, poisoned, frames>>
  PROVE  PrepInv'
  <1>1. Outer'
    BY DEF PrepInv, Outer
  <1>2. Disk'
    BY DiskStays DEF PrepInv
  <1>3. OpInv(op)'
    BY CoreStays DEF OpInv, Tied, Blank
  <1>4. QED BY <1>1, <1>2, <1>3 DEF PrepInv

LEMMA OverIdle ==
  ASSUME NEW result
  PROVE  OpInv(Over(result)) /\ OpInv(Failed)
  BY DEF Over, Failed, OpInv

\* What the operation holds between two fields.
Holding(o) == OpShape(o) /\ JournalShape(o.journal) /\ AdmitsAll(o.journal, o.id) /\ Expecting(o)

LEMMA ReadKeeps ==
  ASSUME revision \in Nat, NEW o, Holding(o), NEW then \in {"field", "final"},
         then = "field" => o.field \in o.journal.changes /\ (o.kind = "recover" => o.expected[o.field] = "t")
  PROVE  /\ OpCore(Read(o, then)) /\ ~Blank(Read(o, then)) /\ Read(o, then).pc = "read"
         /\ Read(o, then).journal = o.journal /\ Read(o, then).id = o.id
  <1> DEFINE q == Read(o, then)
  <1>1. DOMAIN o = OpFields
    BY DEF Holding, OpShape
  <1>2. /\ Alike(o, q, {"pc", "then", "slot", "base", "again", "fresh"})
        /\ q.pc = "read" /\ q.then = then /\ q.slot = 0 /\ q.base = revision
    BY <1>1 DEF Read, Alike, OpFields
  <1> HIDE DEF q
  <1>3. /\ DOMAIN q = OpFields
        /\ q.kind = o.kind /\ q.id = o.id /\ q.journal = o.journal /\ q.field = o.field
        /\ q.sample = o.sample /\ q.state = o.state /\ q.expected = o.expected /\ q.fence = o.fence
    BY <1>1, <1>2 DEF Alike, OpFields
  <1>4. OpShape(q)
    BY <1>2, <1>3 DEF Holding, OpShape
  <1>5. Placed(q) /\ ~Blank(q)
    BY <1>2, <1>3 DEF Placed, Blank
  <1>6. Kept(q)
    BY <1>3 DEF Kept, Holding
  <1>7. Sighted(q)
    BY <1>2 DEF Sighted, Slots
  <1>8. Aimed(q) /\ Awaiting(q)
    BY <1>2 DEF Aimed, Aiming, Awaiting
  <1>9. Visiting(q)
    BY <1>2, <1>3 DEF Visiting, Expecting, Holding
  <1>10. QED BY <1>2, <1>3, <1>4, <1>5, <1>6, <1>7, <1>8, <1>9 DEF OpCore, q

\* The loop goes on to the next field, or to its last look.
LEMMA NextKeeps ==
  ASSUME revision \in Nat, NEW o, Holding(o)
  PROVE  /\ OpCore(NextField(o)) /\ ~Blank(NextField(o)) /\ NextField(o).pc # "persist"
         /\ NextField(o).journal = o.journal /\ NextField(o).id = o.id
  <1> DEFINE left == {f \in o.journal.changes : f > o.field}
             first == CHOOSE g \in left : \A h \in left : g <= h
  <1>1. DOMAIN o = OpFields /\ o.field \in Nat /\ o.journal.changes \subseteq Nat
    BY DEF Holding, OpShape, JournalShape, Fields
  <1>2. CASE left = {}
    <2>1. NextField(o) = Read(o, "final")
      BY <1>2 DEF NextField
    <2>2. QED BY <2>1, ReadKeeps
  <1>3. CASE left # {}
    <2>1. left \subseteq Nat
      BY <1>1
    <2>2. first \in left
      BY <1>3, <2>1, FirstOf
    <2>3. NextField(o) = IF o.kind = "prepare" THEN Read([o EXCEPT !.field = first], "field")
                         ELSE [o EXCEPT !.field = first, !.pc = "visit"]
      BY <1>3 DEF NextField
    <2> HIDE DEF left, first
    <2>4. PICK f : f = first
      OBVIOUS
    <2>5. f \in o.journal.changes /\ f > o.field /\ f \in Nat
      BY <2>2, <2>4, <1>1 DEF left
    <2>6. PICK p : p = [o EXCEPT !.field = f]
      OBVIOUS
    <2>7. Alike(o, p, {"field"}) /\ p.field = f
      BY <2>6, <1>1 DEF Alike, OpFields
    <2>8. /\ DOMAIN p = OpFields
          /\ p.kind = o.kind /\ p.id = o.id /\ p.journal = o.journal
          /\ p.sample = o.sample /\ p.state = o.state /\ p.expected = o.expected /\ p.fence = o.fence
          /\ p.slot = o.slot /\ p.base = o.base /\ p.then = o.then /\ p.next = o.next
      BY <2>7, <1>1 DEF Alike, OpFields
    <2>9. OpShape(p)
      BY <2>5, <2>7, <2>8 DEF Holding, OpShape
    <2>10. o.journal.changes \subseteq Nat /\ o.field \in Nat
      BY <1>1
    <2>11. Expecting(p)
      BY <2>5, <2>7, <2>8, <2>10 DEF Holding, Expecting
    <2>12. Holding(p)
      BY <2>8, <2>9, <2>11 DEF Holding
    <2>13. CASE o.kind = "prepare"
      <3>1. NextField(o) = Read(p, "field")
        BY <2>13, <2>3, <2>4, <2>6
      <3>2. p.kind # "recover" /\ p.field \in p.journal.changes
        BY <2>13, <2>5, <2>7, <2>8
      <3>3. QED BY <3>1, <3>2, <2>8, <2>12, ReadKeeps
    <2>14. CASE o.kind = "recover"
      <3>1. PICK q : q = [o EXCEPT !.field = f, !.pc = "visit"]
        OBVIOUS
      <3>2. NextField(o) = q
        BY <3>1, <2>14, <2>3, <2>4
      <3>3. Alike(p, q, {"pc"}) /\ q.pc = "visit"
        BY <3>1, <2>6, <1>1 DEF Alike, OpFields
      <3>4. /\ DOMAIN q = OpFields
            /\ q.kind = "recover" /\ q.id = p.id /\ q.journal = p.journal /\ q.field = p.field
            /\ q.sample = p.sample /\ q.state = p.state /\ q.expected = p.expected /\ q.fence = p.fence
            /\ q.slot = p.slot /\ q.base = p.base /\ q.then = p.then /\ q.next = p.next
        BY <3>3, <2>8, <2>14 DEF Alike, OpFields
      <3>5. OpShape(q)
        BY <3>4, <2>9 DEF OpShape
      <3>6. q.field \in q.journal.changes /\ q.expected[q.field] = q.state[q.field]
        BY <3>4, <2>5, <2>7, <2>8, <2>14 DEF Holding, Expecting
      <3>7. Visiting(q)
        BY <3>3, <3>4, <3>6, <2>11, <2>8, <2>14 DEF Visiting, Expecting
      <3>8. Kept(q) /\ ~Blank(q)
        BY <3>4, <2>12 DEF Kept, Holding, Blank
      <3>9. Sighted(q) /\ Aimed(q) /\ Awaiting(q)
        BY <3>3 DEF Sighted, Aimed, Aiming, Awaiting
      <3>10. Placed(q)
        BY <3>3, <3>4 DEF Placed
      <3>11. QED BY <3>2, <3>3, <3>4, <3>5, <3>7, <3>8, <3>9, <3>10, <2>8 DEF OpCore
    <2>15. QED BY <2>13, <2>14 DEF Holding, OpShape
  <1>4. QED BY <1>2, <1>3

\* A new operation.
LEMMA StartKeeps ==
  ASSUME Outer, NEW kind \in {"prepare", "recover"}, NEW apply, NEW id, NEW journal,
         kind = "recover" => /\ id \in OpIds /\ id \notin poisoned /\ journal = files[id]
                             /\ JournalShape(journal) /\ AdmitsAll(journal, id)
  PROVE  OpInv(Start(kind, apply, id, journal))
  <1> DEFINE q == Start(kind, apply, id, journal)
  <1>1. /\ DOMAIN q = OpFields /\ q.kind = kind /\ q.then = "plan" /\ q.pc = "read" /\ q.id = id
        /\ q.journal = journal /\ q.sample = obs /\ q.state = obs /\ q.expected = obs
        /\ q.slot = 0 /\ q.field = 0 /\ q.base = revision /\ q.fence = 0
    BY DEF Start, OpFields
  <1> HIDE DEF q
  <1>2. OpShape(q)
    BY <1>1 DEF OpShape, Outer
  <1>3. Placed(q) /\ Sighted(q) /\ Aimed(q) /\ Awaiting(q) /\ Visiting(q)
    BY <1>1 DEF Placed, Sighted, Slots, Aimed, Aiming, Awaiting, Visiting
  <1>4. Kept(q) /\ Tied(q)
    BY <1>1 DEF Kept, Tied, Blank
  <1>5. QED BY <1>2, <1>3, <1>4 DEF OpCore, OpInv, q

LEMMA CallsKeep ==
  ASSUME PrepInv, \E apply \in BOOLEAN : Prepare(apply) \/ \E id \in OpIds : Recover(id, apply)
  PROVE  PrepInv'
  <1>0. Outer /\ Disk
    BY DEF PrepInv
  <1>1. ASSUME NEW apply \in BOOLEAN, Prepare(apply)
        PROVE  PrepInv'
    <2>1. op' = Start("prepare", apply, 0, NoFile)
      BY <1>1 DEF Prepare
    <2>2. OpInv(op')
      BY <2>1, <1>0, StartKeeps
    <2>3. QED BY <1>1, <2>2, OpStays DEF Prepare
  <1>2. ASSUME NEW apply \in BOOLEAN, NEW id \in OpIds, Recover(id, apply)
        PROVE  PrepInv'
    <2>1. \/ \E result : op' = Over(result)
          \/ /\ id \notin poisoned /\ files[id] # NoFile
             /\ op' = Start("recover", apply, id, files[id])
      BY <1>2 DEF Recover, Loads
    <2>2. CASE \E result : op' = Over(result)
      BY <2>2, <1>2, OverIdle, OpStays DEF Recover, Loads
    <2>3. CASE id \notin poisoned /\ files[id] # NoFile /\ op' = Start("recover", apply, id, files[id])
      <3>1. JournalShape(files[id]) /\ AdmitsAll(files[id], id)
        BY <2>3, <1>0 DEF Disk, OnDisk
      <3>2. OpInv(op')
        BY <2>3, <3>1, <1>0, StartKeeps
      <3>3. QED BY <1>2, <3>2, OpStays DEF Recover, Loads
    <2>4. QED BY <2>1, <2>2, <2>3
  <1>3. QED BY <1>1, <1>2

\* One slot is read.
LEMMA ReadSlotKeeps ==
  ASSUME PrepInv, ReadSlot
  PROVE  PrepInv'
  <1>1. Outer /\ Disk /\ OpCore(op) /\ Tied(op) /\ op.pc = "read" /\ op.slot \in Slots
    BY DEF PrepInv, OpInv, ReadSlot
  <1>2. DOMAIN op = OpFields /\ op.slot \in Nat /\ op.sample \in [Slots -> Values] /\ obs \in [Slots -> Values]
    BY <1>1 DEF OpCore, OpShape, Outer
  <1>3. /\ Alike(op, op', {"sample", "slot"}) /\ op'.slot = op.slot + 1
        /\ op'.sample = [op.sample EXCEPT ![op.slot] = obs[op.slot]]
    BY <1>2 DEF ReadSlot, Alike, OpFields
  <1>4. /\ DOMAIN op' = OpFields /\ op'.pc = "read"
        /\ op'.kind = op.kind /\ op'.id = op.id /\ op'.journal = op.journal /\ op'.field = op.field
        /\ op'.state = op.state /\ op'.expected = op.expected /\ op'.fence = op.fence
        /\ op'.base = op.base /\ op'.then = op.then /\ op'.next = op.next
    BY <1>1, <1>2, <1>3 DEF Alike, OpFields
  <1>5. /\ heard' = heard \ {op.slot}
        /\ UNCHANGED <<obs, wire, revision, files, durable, poisoned, frames>>
    BY DEF ReadSlot
  <1>6. Outer' /\ Disk'
    BY <1>1, <1>5, DiskStays DEF Outer
  <1>7. OpShape(op)'
    <2>1. op'.sample \in [Slots -> Values]
      BY <1>1, <1>2, <1>3
    <2>2. op'.slot \in Nat
      BY <1>2, <1>3
    <2>3. QED BY <2>1, <2>2, <1>1, <1>4, <1>5 DEF OpCore, OpShape
  <1>8. Placed(op)' /\ Kept(op)' /\ Aimed(op)' /\ Awaiting(op)' /\ Visiting(op)' /\ Tied(op)'
    BY <1>1, <1>4, <1>5 DEF OpCore, Placed, Kept, AdmitsAll, Blank, Aimed, Aiming, Awaiting, Visiting,
       Expecting, Tied
  <1>9. Sighted(op)'
    <2>1. \A s \in Slots : s < op.slot + 1 => s < op.slot \/ s = op.slot
      BY <1>2 DEF Slots
    <2>2. QED BY <2>1, <1>1, <1>3, <1>4, <1>5 DEF OpCore, Sighted
  <1>10. QED BY <1>6, <1>7, <1>8, <1>9 DEF PrepInv, OpInv, OpCore

\* A complete sample of a preparation that has no journal yet.
LEMMA PlanPreparationKeeps ==
  ASSUME PrepInv, op.pc = "read", op.then = "plan", op.kind = "prepare"
  PROVE  OpInv(PlanPreparation)
  <1>1. OpCore(op) /\ DOMAIN op = OpFields
    BY DEF PrepInv, OpInv, OpCore, OpShape
  <1> DEFINE q == [op EXCEPT !.pc = "snapshot", !.state = op.sample, !.expected = op.sample]
  <1>2. PlanPreparation = q \/ PlanPreparation = Failed \/ \E result : PlanPreparation = Over(result)
    BY DEF PlanPreparation
  <1>3. OpInv(q)
    <2>1. /\ Alike(op, q, {"pc", "state", "expected"})
          /\ q.pc = "snapshot" /\ q.state = op.sample /\ q.expected = op.sample
      BY <1>1 DEF Alike, OpFields
    <2> HIDE DEF q
    <2>2. /\ DOMAIN q = OpFields /\ q.kind = "prepare" /\ q.sample = op.sample /\ q.slot = op.slot
          /\ q.field = op.field /\ q.base = op.base /\ q.fence = op.fence /\ q.then = op.then
      BY <1>1, <2>1 DEF Alike, OpFields
    <2>3. OpShape(q)
      BY <1>1, <2>1, <2>2 DEF OpCore, OpShape
    <2>4. Placed(q) /\ Kept(q) /\ Sighted(q) /\ Aimed(q) /\ Awaiting(q) /\ Visiting(q) /\ Tied(q)
      BY <2>1, <2>2 DEF Placed, Kept, Blank, Sighted, Aimed, Aiming, Awaiting, Visiting, Expecting, Tied
    <2>5. QED BY <2>3, <2>4 DEF OpInv, OpCore
  <1>4. QED BY <1>2, <1>3, OverIdle

\* A complete sample of a recovery: every field is as it was before, or as the
\* preparation left it.
LEMMA PlanRecoveryKeeps ==
  ASSUME PrepInv, op.pc = "read", op.then = "plan", op.kind = "recover"
  PROVE  OpInv(PlanRecovery)
  <1>1. /\ Outer /\ OpCore(op) /\ Tied(op) /\ DOMAIN op = OpFields /\ ~Blank(op)
        /\ OpShape(op)
    BY DEF PrepInv, OpInv, OpCore, OpShape, Blank
  <1>2. /\ op.id \in OpIds /\ op.id \notin poisoned /\ op.journal = files[op.id]
        /\ JournalShape(op.journal) /\ AdmitsAll(op.journal, op.id)
    BY <1>1 DEF Tied, OpCore, Kept
  <1> DEFINE o == [op EXCEPT !.state = op.sample, !.expected = op.sample, !.fence = op.base]
             k == [op.journal EXCEPT !.version = 2]
             v == [o EXCEPT !.pc = "persist", !.next = "fields", !.journal = k]
             fit == \A f \in op.journal.changes : op.sample[f] \in {op.journal.before[f], "t"}
  <1>3. \/ \E result : PlanRecovery = Over(result)
        \/ fit /\ PlanRecovery = v
        \/ fit /\ op.journal.version # 1 /\ PlanRecovery = NextField(o)
    BY DEF PlanRecovery
  <1>4. ASSUME fit
        PROVE  /\ op.journal.version # 1 => Holding(o)
               /\ OpShape(o) /\ o.journal = op.journal /\ o.id = op.id
               /\ \A f \in op.journal.changes : o.state[f] \in {op.journal.before[f], "t"} /\ o.expected[f] = o.state[f]
    <2>1. /\ Alike(op, o, {"state", "expected", "fence"})
          /\ o.state = op.sample /\ o.expected = op.sample /\ o.fence = op.base
      BY <1>1 DEF Alike, OpFields
    <2> HIDE DEF o
    <2>2. /\ DOMAIN o = OpFields /\ o.kind = "recover" /\ o.sample = op.sample /\ o.slot = op.slot
          /\ o.field = op.field /\ o.base = op.base /\ o.then = op.then /\ o.journal = op.journal
          /\ o.id = op.id
      BY <1>1, <2>1 DEF Alike, OpFields
    <2>3. OpShape(o)
      BY <1>1, <2>1, <2>2 DEF OpShape
    <2>4. QED BY <1>4, <2>1, <2>2, <2>3, <1>2 DEF Holding, Expecting
  <1>5. CASE fit /\ op.journal.version # 1 /\ PlanRecovery = NextField(o)
    <2>0. Holding(o) /\ o.journal = op.journal /\ o.id = op.id
      BY <1>4, <1>5
    <2>1. OpCore(NextField(o)) /\ NextField(o).journal = op.journal /\ NextField(o).id = op.id
      BY <1>1, <2>0, NextKeeps DEF Outer
    <2>2. QED BY <2>1, <1>2, <1>5 DEF OpInv, Tied
  <1>6. CASE fit /\ PlanRecovery = v
    <2>0. /\ OpShape(o) /\ o.journal = op.journal /\ o.id = op.id
          /\ \A f \in op.journal.changes : o.state[f] \in {op.journal.before[f], "t"} /\ o.expected[f] = o.state[f]
      BY <1>4, <1>6
    <2>1. DOMAIN o = OpFields
      BY <2>0 DEF OpShape
    <2>2. /\ Alike(o, v, {"pc", "next", "journal"}) /\ v.pc = "persist" /\ v.next = "fields" /\ v.journal = k
      BY <2>1 DEF Alike, OpFields
    <2>3. /\ JournalShape(k) /\ k.changes = op.journal.changes /\ k.before = op.journal.before
          /\ k.prep = op.journal.prep /\ k.rec = op.journal.rec /\ k.version = 2
      BY <1>2 DEF JournalShape, JournalFields
    <2> HIDE DEF v, k, o
    <2>4. AdmitsAll(k, op.id)
      BY <2>3, <1>2 DEF AdmitsAll, Admits, AttemptOf
    <2>5. /\ DOMAIN v = OpFields /\ v.kind = o.kind /\ v.sample = o.sample /\ v.slot = o.slot
          /\ v.field = o.field /\ v.base = o.base /\ v.then = o.then /\ v.fence = o.fence
          /\ v.id = o.id /\ v.state = o.state /\ v.expected = o.expected
      BY <2>1, <2>2 DEF Alike, OpFields
    <2>6. OpShape(v)
      BY <2>5, <2>0 DEF OpShape
    <2>7. Placed(v) /\ Sighted(v) /\ Aimed(v) /\ Awaiting(v)
      BY <2>2 DEF Placed, Sighted, Aimed, Aiming, Awaiting
    <2>8. Kept(v) /\ Tied(v)
      BY <2>2, <2>3, <2>4, <2>5, <1>2, <2>0 DEF Kept, Tied
    <2>9. Visiting(v)
      BY <2>2, <2>3, <2>5, <2>0 DEF Visiting, Expecting
    <2>10. QED BY <1>6, <2>6, <2>7, <2>8, <2>9 DEF OpInv, OpCore
  <1>7. QED BY <1>3, <1>5, <1>6, OverIdle

\* After an acceptance a sample that an announcement crossed is taken again.
LEMMA AgainKeeps ==
  ASSUME Outer, OpCore(op), Tied(op), op.pc = "read"
  PROVE  OpInv(Read(op, op.then))
  <1> DEFINE q == Read(op, op.then)
  <1>1. DOMAIN op = OpFields /\ OpShape(op) /\ revision \in Nat
    BY DEF OpCore, OpShape, Outer
  <1>2. /\ Alike(op, q, {"pc", "then", "slot", "base", "again", "fresh"})
        /\ q.pc = "read" /\ q.then = op.then /\ q.slot = 0 /\ q.base = revision
    BY <1>1 DEF Read, Alike, OpFields
  <1> HIDE DEF q
  <1>3. /\ DOMAIN q = OpFields
        /\ q.kind = op.kind /\ q.id = op.id /\ q.journal = op.journal /\ q.field = op.field
        /\ q.sample = op.sample /\ q.state = op.state /\ q.expected = op.expected /\ q.fence = op.fence
    BY <1>1, <1>2 DEF Alike, OpFields
  <1>4. OpShape(q)
    BY <1>1, <1>2, <1>3 DEF OpShape
  <1>5. Placed(q) /\ Sighted(q) /\ Aimed(q) /\ Awaiting(q)
    BY <1>2, <1>3 DEF Placed, Sighted, Slots, Aimed, Aiming, Awaiting
  <1>6. Kept(q) /\ Visiting(q) /\ Tied(q)
    BY <1>2, <1>3 DEF OpCore, Kept, Visiting, Expecting, Tied, Blank
  <1>7. QED BY <1>4, <1>5, <1>6 DEF OpInv, OpCore, q

\* A sample that fits what the loop expects of the field it visits.
LEMMA FieldSampled ==
  ASSUME Outer, OpCore(op), Tied(op), op.pc = "read", op.then = "field", heard = {}, SampleFits
  PROVE  OpInv([op EXCEPT !.pc = "begin", !.fence = revision])
  <1> DEFINE q == [op EXCEPT !.pc = "begin", !.fence = revision]
  <1>1. /\ DOMAIN op = OpFields /\ OpShape(op) /\ revision \in Nat /\ ~Blank(op)
        /\ op.field \in op.journal.changes /\ op.journal.changes \subseteq Fields
    BY DEF OpCore, OpShape, Outer, Blank, Visiting, Kept, JournalShape
  <1>2. Alike(op, q, {"pc", "fence"}) /\ q.pc = "begin" /\ q.fence = revision
    BY <1>1 DEF Alike, OpFields
  <1> HIDE DEF q
  <1>3. /\ DOMAIN q = OpFields /\ q.then = op.then
        /\ q.kind = op.kind /\ q.id = op.id /\ q.journal = op.journal /\ q.field = op.field
        /\ q.sample = op.sample /\ q.state = op.state /\ q.expected = op.expected
        /\ q.slot = op.slot /\ q.base = op.base
    BY <1>1, <1>2 DEF Alike, OpFields
  <1>4. OpShape(q)
    BY <1>1, <1>2, <1>3 DEF OpShape
  <1>5. op.kind = "recover" => op.sample[op.field] = "t"
    BY <1>1 DEF OpCore, Visiting, SampleFits, Compared
  <1>6. Placed(q) /\ Sighted(q) /\ Aimed(q) /\ Awaiting(q)
    BY <1>1, <1>2, <1>3, <1>5 DEF Placed, Sighted, Aimed, Aiming, Awaiting
  <1>7. Kept(q) /\ Visiting(q) /\ Tied(q)
    BY <1>1, <1>2, <1>3 DEF OpCore, Kept, Visiting, Expecting, Tied, Blank
  <1>8. QED BY <1>4, <1>6, <1>7 DEF OpInv, OpCore, q

\* The last look of a recovery.
LEMMA FinalSampled ==
  ASSUME Outer, OpCore(op), Tied(op), op.pc = "read", op.then = "final"
  PROVE  OpInv([op EXCEPT !.pc = "persist", !.next = "done", !.journal.completed = TRUE])
  <1> DEFINE q == [op EXCEPT !.pc = "persist", !.next = "done", !.journal.completed = TRUE]
             k == [op.journal EXCEPT !.completed = TRUE]
  <1>1. /\ DOMAIN op = OpFields /\ OpShape(op) /\ ~Blank(op)
        /\ JournalShape(op.journal) /\ AdmitsAll(op.journal, op.id)
    BY DEF OpCore, OpShape, Blank, Kept
  <1>2. /\ Alike(op, q, {"pc", "next", "journal"}) /\ q.pc = "persist" /\ q.next = "done"
        /\ q.journal = k
    BY <1>1 DEF Alike, OpFields
  <1>3. /\ JournalShape(k) /\ k.changes = op.journal.changes /\ k.before = op.journal.before
        /\ k.prep = op.journal.prep /\ k.rec = op.journal.rec /\ k.version = op.journal.version
    BY <1>1 DEF JournalShape, JournalFields
  <1> HIDE DEF q, k
  <1>4. AdmitsAll(k, op.id)
    BY <1>1, <1>3 DEF AdmitsAll, Admits, AttemptOf
  <1>5. /\ DOMAIN q = OpFields /\ q.then = op.then
        /\ q.kind = op.kind /\ q.id = op.id /\ q.field = op.field /\ q.fence = op.fence
        /\ q.sample = op.sample /\ q.state = op.state /\ q.expected = op.expected
        /\ q.slot = op.slot /\ q.base = op.base
    BY <1>1, <1>2 DEF Alike, OpFields
  <1>6. OpShape(q)
    BY <1>1, <1>5 DEF OpShape
  <1>7. Placed(q) /\ Sighted(q) /\ Aimed(q) /\ Awaiting(q)
    BY <1>2 DEF Placed, Sighted, Aimed, Aiming, Awaiting
  <1>8. Kept(q) /\ Tied(q)
    BY <1>1, <1>2, <1>3, <1>4, <1>5 DEF Kept, Tied
  <1>9. Visiting(q)
    BY <1>2, <1>3, <1>5 DEF OpCore, Visiting, Expecting
  <1>10. QED BY <1>6, <1>7, <1>8, <1>9 DEF OpInv, OpCore, q

\* The last slot is read: a sample that no announcement crossed.
LEMMA SampleKeeps ==
  ASSUME PrepInv, SampleTaken
  PROVE  PrepInv'
  <1>1. /\ Outer /\ OpCore(op) /\ Tied(op) /\ op.pc = "read" /\ op.slot \in Nat /\ op.slot > NumFields
        /\ op.then \in {"plan", "field", "final"} /\ op.kind \in {"prepare", "recover"}
    BY DEF PrepInv, OpInv, OpCore, OpShape, SampleTaken
  <1> SUFFICES OpInv(op')
    BY OpStays DEF SampleTaken
  <1>2. CASE revision # op.base
    BY <1>1, <1>2, AgainKeeps, OverIdle DEF SampleTaken
  <1>3. CASE revision = op.base
    <2>1. heard = {}
      <3>1. NumFields \in Nat
        BY PreparationAssumption
      <3>2. \A s \in Slots : s < op.slot
        BY <1>1, <3>1 DEF Slots
      <3>3. QED BY <1>1, <1>3, <3>2 DEF OpCore, Sighted, Outer
    <2>2. CASE op.then = "plan"
      BY <1>1, <1>3, <2>2, PlanPreparationKeeps, PlanRecoveryKeeps DEF SampleTaken
    <2>3. CASE op.then = "field"
      BY <1>1, <1>3, <2>1, <2>3, FieldSampled, OverIdle DEF SampleTaken
    <2>4. CASE op.then = "final"
      BY <1>1, <1>3, <2>4, FinalSampled, OverIdle DEF SampleTaken
    <2>5. QED BY <1>1, <2>2, <2>3, <2>4
  <1>4. QED BY <1>2, <1>3

\* take_snapshot and the new journal: no frame knows its identity.
LEMMA SnapshotKeeps ==
  ASSUME PrepInv, Snapshot
  PROVE  PrepInv'
  <1> DEFINE free == {id \in OpIds : files[id] = NoFile}
             least == CHOOSE id \in free : \A other \in free : id <= other
             q == [op EXCEPT !.pc = "persist", !.next = "fields", !.id = least,
                             !.journal = NewJournal(op.state)]
  <1>1. /\ Outer /\ Disk /\ OpCore(op) /\ op.pc = "snapshot" /\ OpShape(op) /\ DOMAIN op = OpFields
        /\ op.kind = "prepare"
    BY DEF PrepInv, OpInv, OpCore, OpShape, Placed, Snapshot
  <1> SUFFICES OpInv(op')
    BY OpStays DEF Snapshot
  <1>2. op' = Failed \/ op' = q
    BY DEF Snapshot
  <1>3. least \in OpIds /\ files[least] = NoFile /\ least \notin poisoned
    <2>1. free # {}
      BY DEF Snapshot
    <2>2. free \subseteq Nat
      BY DEF OpIds
    <2>3. least \in free
      BY <2>1, <2>2, FirstOf
    <2>4. QED BY <2>3, <1>1 DEF Disk
  <1>4. JournalShape(NewJournal(op.state))
    <2>1. op.state \in [Slots -> Values]
      BY <1>1 DEF OpShape
    <2>2. QED BY <2>1 DEF NewJournal, JournalShape, JournalFields
  <1>5. OpInv(q)
    <2>1. /\ Alike(op, q, {"pc", "next", "id", "journal"})
          /\ q.pc = "persist" /\ q.next = "fields" /\ q.id = least /\ q.journal = NewJournal(op.state)
      BY <1>1 DEF Alike, OpFields
    <2> HIDE DEF q, least, free
    <2>2. /\ DOMAIN q = OpFields /\ q.kind = "prepare" /\ q.sample = op.sample /\ q.slot = op.slot
          /\ q.field = op.field /\ q.base = op.base /\ q.fence = op.fence /\ q.then = op.then
          /\ q.state = op.state /\ q.expected = op.expected
      BY <1>1, <2>1 DEF Alike, OpFields
    <2>3. OpShape(q)
      BY <1>1, <2>2 DEF OpShape
    <2>4. AdmitsAll(q.journal, q.id)
      BY <1>1, <1>3, <2>1 DEF AdmitsAll, Disk, OnDisk
    <2>5. Placed(q) /\ Sighted(q) /\ Aimed(q) /\ Awaiting(q) /\ Visiting(q)
      BY <2>1, <2>2 DEF Placed, Sighted, Aimed, Aiming, Awaiting, Visiting, Expecting
    <2>6. Kept(q) /\ Tied(q)
      BY <1>3, <1>4, <2>1, <2>4 DEF Kept, Tied
    <2>7. QED BY <2>3, <2>5, <2>6 DEF OpInv, OpCore
  <1>6. QED BY <1>2, <1>5, OverIdle

\* Frames of other attempts do not mind what happens to one attempt.
Spared(j, k, id) ==
    \A n \in 1..Len(frames) : frames[n].id = id => AttemptOf(k, frames[n]) = AttemptOf(j, frames[n])
Longer(j, k) ==
    \A g \in Fields : Len(j.rec[g]) \in Nat /\ Len(k.rec[g]) \in Nat /\ Len(j.rec[g]) <= Len(k.rec[g])

LEMMA SparedAdmits ==
  ASSUME NEW j, NEW k, NEW id, AdmitsAll(j, id), Spared(j, k, id), Longer(j, k), k.changes = j.changes,
         frames \in Seq(FrameShape)
  PROVE  AdmitsAll(k, id) /\ (Decided(j, id) => Decided(k, id))
  <1>1. \A n \in 1..Len(frames) : frames[n] \in FrameShape
    BY ElementOfSeq
  <1>2. ASSUME NEW n \in 1..Len(frames), frames[n].id = id
        PROVE  Admits(k, frames[n])
    <2>1. Admits(j, frames[n]) /\ AttemptOf(k, frames[n]) = AttemptOf(j, frames[n])
      BY <1>2 DEF AdmitsAll, Spared
    <2>2. frames[n].attempt \in Nat /\ frames[n].field \in Fields
      BY <1>1, <1>2 DEF FrameShape
    <2>3. frames[n].kind = "recover" => frames[n].attempt <= Len(k.rec[frames[n].field])
      BY <2>1, <2>2 DEF Admits, Longer
    <2>4. QED BY <2>1, <2>3 DEF Admits
  <1>3. Decided(j, id) => Decided(k, id)
    BY DEF Decided, Spared
  <1>4. QED BY <1>2, <1>3 DEF AdmitsAll

LEMMA PrepSpares ==
  ASSUME NEW j, NEW k, NEW id, NEW f \in Fields, k.rec = j.rec, frames \in Seq(FrameShape),
         \A g \in Fields : g # f => k.prep[g] = j.prep[g],
         \A n \in 1..Len(frames) : frames[n].id = id /\ frames[n].kind = "prepare" => frames[n].field # f
  PROVE  Spared(j, k, id)
  <1>1. \A n \in 1..Len(frames) : frames[n] \in FrameShape
    BY ElementOfSeq
  <1>2. ASSUME NEW n \in 1..Len(frames), frames[n].id = id
        PROVE  AttemptOf(k, frames[n]) = AttemptOf(j, frames[n])
    BY <1>1, <1>2 DEF AttemptOf, FrameShape
  <1>3. QED BY <1>2 DEF Spared

LEMMA RecSpares ==
  ASSUME NEW j, NEW k, NEW id, NEW f \in Fields, k.prep = j.prep, frames \in Seq(FrameShape),
         \A g \in Fields : g # f => k.rec[g] = j.rec[g],
         \A n \in 1..Len(frames) :
            frames[n].id = id /\ frames[n].kind = "recover" /\ frames[n].field = f =>
                k.rec[f][frames[n].attempt] = j.rec[f][frames[n].attempt]
  PROVE  Spared(j, k, id)
  <1>1. \A n \in 1..Len(frames) : frames[n] \in FrameShape
    BY ElementOfSeq
  <1>2. ASSUME NEW n \in 1..Len(frames), frames[n].id = id
        PROVE  AttemptOf(k, frames[n]) = AttemptOf(j, frames[n])
    <2>1. frames[n].field \in Fields /\ frames[n].kind \in {"prepare", "recover"}
      BY <1>1 DEF FrameShape
    <2>2. CASE frames[n].kind = "recover" /\ frames[n].field = f
      BY <2>1, <2>2, <1>2 DEF AttemptOf
    <2>3. CASE frames[n].kind = "recover" /\ frames[n].field # f
      BY <2>1, <2>3, <1>2 DEF AttemptOf
    <2>4. CASE frames[n].kind = "prepare"
      BY <2>4 DEF AttemptOf
    <2>5. QED BY <2>1, <2>2, <2>3, <2>4
  <1>3. QED BY <1>2 DEF Spared

LEMMA LengthsNat ==
  ASSUME NEW j, JournalShape(j), NEW g \in Fields
  PROVE  Len(j.rec[g]) \in Nat
  <1>1. j.rec[g] \in Seq(Seq(StepNames))
    BY DEF JournalShape
  <1>2. QED BY <1>1, LenProperties

\* One more attempt at a recovery.
Adds(j, k, f, e) == Alike(j, k, {"rec"}) /\ k.rec = [j.rec EXCEPT ![f] = Append(j.rec[f], <<e>>)]
Added(j, k, f, e) ==
    /\ JournalShape(k) /\ k.changes = j.changes /\ k.before = j.before /\ k.prep = j.prep
    /\ k.version = j.version /\ k.rec[f] # <<>> /\ k.rec[f][Len(k.rec[f])] = <<e>>

LEMMA AttemptAdded ==
  ASSUME NEW j, NEW id, NEW f \in Fields, JournalShape(j), AdmitsAll(j, id), frames \in Seq(FrameShape),
         NEW e \in {"intent", "observed"}, NEW k, Adds(j, k, f, e)
  PROVE  Added(j, k, f, e) /\ AdmitsAll(k, id) /\ (Decided(j, id) => Decided(k, id))
  <1>0. PICK attempts : attempts = Append(j.rec[f], <<e>>)
    OBVIOUS
  <1>1. j.rec[f] \in Seq(Seq(StepNames)) /\ <<e>> \in Seq(StepNames)
    BY StepIsName DEF JournalShape
  <1>2. /\ attempts \in Seq(Seq(StepNames)) /\ attempts # <<>>
        /\ Len(j.rec[f]) \in Nat /\ Len(attempts) = Len(j.rec[f]) + 1
        /\ \A i \in 1..Len(j.rec[f]) : attempts[i] = j.rec[f][i]
        /\ attempts[Len(j.rec[f]) + 1] = <<e>>
    <2>1. PICK single : single = <<e>>
      OBVIOUS
    <2>2. PICK old : old = j.rec[f]
      OBVIOUS
    <2>3. old \in Seq(Seq(StepNames)) /\ single \in Seq(StepNames)
      BY <1>1, <2>1, <2>2
    <2>4. /\ Append(old, single) \in Seq(Seq(StepNames)) /\ Append(old, single) # <<>>
          /\ Len(old) \in Nat /\ Len(Append(old, single)) = Len(old) + 1
          /\ \A i \in 1..Len(old) : Append(old, single)[i] = old[i]
          /\ Append(old, single)[Len(old) + 1] = single
      BY <2>3, OneMore
    <2>5. QED BY <1>0, <2>1, <2>2, <2>4
  <1>3. /\ JournalShape(k) /\ k.changes = j.changes /\ k.before = j.before /\ k.prep = j.prep
        /\ k.version = j.version /\ k.rec[f] = attempts /\ \A g \in Fields : g # f => k.rec[g] = j.rec[g]
    <2>1. j.rec \in [Fields -> Seq(Seq(StepNames))]
      BY DEF JournalShape
    <2>2. Alike(j, k, {"rec"}) /\ k.rec = [j.rec EXCEPT ![f] = attempts]
      BY <1>0 DEF Adds
    <2>3. k.rec \in [Fields -> Seq(Seq(StepNames))] /\ k.rec[f] = attempts
      BY <1>2, <2>1, <2>2
    <2>4. \A g \in Fields : g # f => k.rec[g] = j.rec[g]
      BY <2>1, <2>2
    <2>5. QED BY <2>2, <2>3, <2>4, RecChanged
  <1>4. \A n \in 1..Len(frames) :
            frames[n].id = id /\ frames[n].kind = "recover" /\ frames[n].field = f =>
                k.rec[f][frames[n].attempt] = j.rec[f][frames[n].attempt]
    <2>1. \A n \in 1..Len(frames) : frames[n] \in FrameShape
      BY ElementOfSeq
    <2>2. ASSUME NEW n \in 1..Len(frames), frames[n].id = id, frames[n].kind = "recover", frames[n].field = f
          PROVE  k.rec[f][frames[n].attempt] = j.rec[f][frames[n].attempt]
      <3>1. frames[n].attempt \in Nat \ {0} /\ frames[n].attempt <= Len(j.rec[f])
        BY <2>1, <2>2 DEF AdmitsAll, Admits, FrameShape
      <3>2. Len(j.rec[f]) \in Nat /\ \A i \in 1..Len(j.rec[f]) : attempts[i] = j.rec[f][i]
        BY <1>2
      <3>3. frames[n].attempt \in 1..Len(j.rec[f])
        BY <3>1, <3>2
      <3>4. QED BY <3>2, <3>3, <1>3
    <2>3. QED BY <2>2
  <1>5. Longer(j, k)
    <2>1. \A g \in Fields : Len(j.rec[g]) \in Nat
      BY LengthsNat
    <2>2. Len(k.rec[f]) = Len(j.rec[f]) + 1
      BY <1>2, <1>3
    <2>3. \A g \in Fields : g # f => k.rec[g] = j.rec[g]
      BY <1>3
    <2>4. QED BY <2>1, <2>2, <2>3 DEF Longer
  <1>6. Spared(j, k, id)
    BY <1>3, <1>4, RecSpares
  <1>7. AdmitsAll(k, id) /\ (Decided(j, id) => Decided(k, id))
    BY <1>3, <1>5, <1>6, SparedAdmits
  <1>8. QED BY <1>2, <1>3, <1>7 DEF Added

\* One more step of the attempt that runs.
Advanced(j, f, kind, e) == Advance(j, f, kind = "recover", e)

Grown(j, k, f, kind, e) ==
    /\ JournalShape(k) /\ k.changes = j.changes /\ k.before = j.before /\ k.version = j.version
    /\ \A g \in Fields : g # f => k.prep[g] = j.prep[g] /\ k.rec[g] = j.rec[g]
    /\ kind = "recover" => /\ k.prep = j.prep /\ Len(k.rec[f]) = Len(j.rec[f]) /\ k.rec[f] # <<>>
                           /\ \A i \in 1..(Len(j.rec[f]) - 1) : k.rec[f][i] = j.rec[f][i]
    /\ kind = "prepare" => k.rec = j.rec
    /\ Status(Attempt(k, f, kind)) = e

LEMMA AttemptAdvanced ==
  ASSUME NEW j, NEW f \in Fields, JournalShape(j), NEW kind \in {"prepare", "recover"},
         kind = "recover" => j.rec[f] # <<>>, NEW e \in StepNames,
         NEW k, k = Advanced(j, f, kind, e)
  PROVE  Grown(j, k, f, kind, e)
  <1>1. j.rec[f] \in Seq(Seq(StepNames)) /\ j.prep[f] \in Seq(StepNames)
    BY DEF JournalShape
  <1>2. CASE kind = "recover"
    <2>1. PICK last : last = Len(j.rec[f])
      OBVIOUS
    <2>2. last \in Nat /\ last # 0 /\ last \in 1..Len(j.rec[f])
      BY <1>1, <1>2, <2>1, LenProperties, EmptySeq
    <2>3. j.rec[f][last] \in Seq(StepNames)
      BY <1>1, <2>2, ElementOfSeq
    <2>4. PICK steps : steps = Append(j.rec[f][last], e)
      OBVIOUS
    <2>5. steps \in Seq(StepNames) /\ Status(steps) = e
      BY <2>3, <2>4, OneMore
    <2>6. PICK attempts : attempts = [j.rec[f] EXCEPT ![last] = steps]
      OBVIOUS
    <2>7. /\ attempts \in Seq(Seq(StepNames)) /\ Len(attempts) = last
          /\ \A i \in 1..(last - 1) : attempts[i] = j.rec[f][i]
          /\ attempts[last] = steps
      BY <1>1, <2>1, <2>2, <2>5, <2>6, ExceptSeq
    <2>8. Alike(j, k, {"rec"}) /\ k.rec = [j.rec EXCEPT ![f] = attempts]
      BY <1>2, <2>1, <2>4, <2>6 DEF Advanced, Advance, JournalShape, JournalFields, Alike
    <2>9. /\ JournalShape(k) /\ k.changes = j.changes /\ k.before = j.before /\ k.prep = j.prep
          /\ k.version = j.version /\ k.rec[f] = attempts /\ \A g \in Fields : g # f => k.rec[g] = j.rec[g]
      <3>1. j.rec \in [Fields -> Seq(Seq(StepNames))]
        BY DEF JournalShape
      <3>2. k.rec \in [Fields -> Seq(Seq(StepNames))] /\ k.rec[f] = attempts
        BY <2>7, <2>8, <3>1
      <3>3. \A g \in Fields : g # f => k.rec[g] = j.rec[g]
        BY <2>8, <3>1
      <3>4. QED BY <2>8, <3>2, <3>3, RecChanged
    <2>10. attempts # <<>>
      BY <2>2, <2>7
    <2>11. QED BY <1>2, <2>1, <2>5, <2>7, <2>9, <2>10 DEF Attempt, Grown
  <1>3. CASE kind = "prepare"
    <2>1. PICK steps : steps = Append(j.prep[f], e)
      OBVIOUS
    <2>2. steps \in Seq(StepNames) /\ Status(steps) = e
      BY <1>1, <2>1, OneMore
    <2>3. Alike(j, k, {"prep"}) /\ k.prep = [j.prep EXCEPT ![f] = steps]
      BY <1>3, <2>1 DEF Advanced, Advance, JournalShape, JournalFields, Alike
    <2>4. j.prep \in [Fields -> Seq(StepNames)]
      BY DEF JournalShape
    <2>5. k.prep \in [Fields -> Seq(StepNames)] /\ k.prep[f] = steps
      BY <2>2, <2>3, <2>4
    <2>6. \A g \in Fields : g # f => k.prep[g] = j.prep[g]
      BY <2>3, <2>4
    <2>7. /\ JournalShape(k) /\ k.changes = j.changes /\ k.before = j.before /\ k.rec = j.rec
          /\ k.version = j.version
      BY <2>3, <2>5, PrepChanged
    <2>8. QED BY <1>3, <2>2, <2>5, <2>6, <2>7 DEF Attempt, Grown
  <1>4. QED BY <1>2, <1>3

\* Of an attempt that is not decided no frame left, unless it is in doubt.
LEMMA NoneCurrent ==
  ASSUME NEW o, AdmitsAll(o.journal, o.id), o.kind \in {"prepare", "recover"},
         \/ Status(Attempt(o.journal, o.field, o.kind)) = "intent"
         \/ Status(Attempt(o.journal, o.field, o.kind)) = "possible" /\ Decided(o.journal, o.id)
  PROVE  \A n \in 1..Len(frames) : ~Current(o, frames[n])
  <1> SUFFICES ASSUME NEW n \in 1..Len(frames), Current(o, frames[n])
               PROVE  FALSE
    OBVIOUS
  <1>1. AttemptOf(o.journal, frames[n]) = Attempt(o.journal, o.field, o.kind)
    BY DEF Current, AttemptOf, Attempt
  <1>2. Admits(o.journal, frames[n]) /\ (Decided(o.journal, o.id) => Status(AttemptOf(o.journal, frames[n])) \notin Doubtful)
    BY DEF AdmitsAll, Decided, Current
  <1>3. QED BY <1>1, <1>2 DEF Admits, Doubtful

LEMMA AdvanceOther ==
  ASSUME NEW o, JournalShape(o.journal), AdmitsAll(o.journal, o.id), frames \in Seq(FrameShape),
         o.field \in Fields, o.kind \in {"prepare", "recover"}, NEW e, NEW k,
         Grown(o.journal, k, o.field, o.kind, e),
         NEW n \in 1..Len(frames), frames[n].id = o.id, ~Current(o, frames[n])
  PROVE  AttemptOf(k, frames[n]) = AttemptOf(o.journal, frames[n]) /\ Admits(k, frames[n])
  <1> DEFINE j == o.journal
             f == o.field
  <1>1. PICK x : x = frames[n]
    OBVIOUS
  <1>2. x \in FrameShape /\ Admits(j, x) /\ ~Current(o, x) /\ x.id = o.id
    BY <1>1, ElementOfSeq DEF AdmitsAll
  <1>3. x.field \in Fields /\ x.kind \in {"prepare", "recover"} /\ x.attempt \in Nat \ {0}
    BY <1>2 DEF FrameShape
  <1>4. Len(j.rec[x.field]) \in Nat
    BY <1>3, LengthsNat
  <1>5. AttemptOf(k, x) = AttemptOf(j, x) /\ Len(k.rec[x.field]) = Len(j.rec[x.field])
    <2>1. CASE x.field # f
      BY <2>1, <1>3 DEF Grown, AttemptOf
    <2>2. CASE x.field = f /\ x.kind # o.kind
      BY <2>2, <1>3 DEF Grown, AttemptOf
    <2>3. CASE x.field = f /\ x.kind = o.kind
      <3>1. o.kind = "recover" /\ x.attempt # Len(j.rec[f])
        BY <2>3, <1>2 DEF Current
      <3>2. x.attempt <= Len(j.rec[f])
        BY <2>3, <3>1, <1>2 DEF Admits
      <3>3. x.attempt \in 1..(Len(j.rec[f]) - 1)
        BY <3>1, <3>2, <1>3, <1>4, <2>3
      <3>4. QED BY <3>1, <3>3, <2>3 DEF Grown, AttemptOf
    <2>4. QED BY <2>1, <2>2, <2>3
  <1>6. k.changes = j.changes
    BY DEF Grown
  <1>7. QED BY <1>1, <1>2, <1>5, <1>6 DEF Admits

LEMMA AdvanceSpares ==
  ASSUME NEW o, JournalShape(o.journal), AdmitsAll(o.journal, o.id), frames \in Seq(FrameShape),
         o.field \in Fields, o.kind \in {"prepare", "recover"}, NEW e, NEW k,
         Grown(o.journal, k, o.field, o.kind, e),
         \A n \in 1..Len(frames) : ~Current(o, frames[n])
  PROVE  AdmitsAll(k, o.id) /\ (Decided(o.journal, o.id) => Decided(k, o.id))
  <1>1. \A n \in 1..Len(frames) : frames[n].id = o.id =>
            AttemptOf(k, frames[n]) = AttemptOf(o.journal, frames[n]) /\ Admits(k, frames[n])
    BY AdvanceOther
  <1>2. QED BY <1>1 DEF AdmitsAll, Decided

\* What is about to be published.
LEMMA PublishReady ==
  ASSUME NEW o, OpShape(o), o.id \in OpIds, o.id \notin poisoned, Expecting(o),
         NEW q, Alike(o, q, {"pc", "next", "journal", "sending"}), q.pc = "persist",
         q.next \in {"fields", "visit", "possible", "send", "done", "failed"},
         q.next = "visit" => o.kind = "recover" /\ o.field \in o.journal.changes
                             /\ o.expected[o.field] = o.state[o.field],
         JournalShape(q.journal), AdmitsAll(q.journal, o.id), q.journal.changes = o.journal.changes,
         q.journal.before = o.journal.before, q.journal.version = o.journal.version, Aimed(q)
  PROVE  OpInv(q)
  <1>1. DOMAIN o = OpFields
    BY DEF OpShape
  <1>2. /\ DOMAIN q = OpFields /\ q.then = o.then
        /\ q.kind = o.kind /\ q.id = o.id /\ q.field = o.field /\ q.fence = o.fence
        /\ q.sample = o.sample /\ q.state = o.state /\ q.expected = o.expected
        /\ q.slot = o.slot /\ q.base = o.base
    BY <1>1 DEF Alike, OpFields
  <1>3. OpShape(q)
    BY <1>2 DEF OpShape
  <1>4. Placed(q) /\ Sighted(q) /\ Awaiting(q)
    BY <1>2 DEF Placed, Sighted, Awaiting
  <1>5. Kept(q) /\ Tied(q)
    BY <1>2 DEF Kept, Tied
  <1>6. Visiting(q)
    BY <1>2 DEF Visiting, Expecting
  <1>7. QED BY <1>3, <1>4, <1>5, <1>6 DEF OpInv, OpCore

\* What is known of an operation outside of its reads.
LEMMA InHand ==
  ASSUME PrepInv, op.pc \in {"visit", "begin", "persist", "send", "wait"}
  PROVE  /\ Outer /\ Disk /\ OpCore(op) /\ OpShape(op) /\ DOMAIN op = OpFields /\ Expecting(op)
         /\ op.id \in OpIds /\ op.id \notin poisoned /\ JournalShape(op.journal)
         /\ AdmitsAll(op.journal, op.id) /\ op.journal.changes \subseteq Fields
         /\ op.pc # "persist" => op.journal = files[op.id] /\ Validate(op.journal) /\ Holding(op)
  <1>1. /\ Outer /\ Disk /\ OpCore(op) /\ OpShape(op) /\ DOMAIN op = OpFields /\ Expecting(op) /\ Tied(op)
        /\ ~Blank(op)
    BY DEF PrepInv, OpInv, OpCore, OpShape, Visiting, Blank
  <1>2. /\ op.id \in OpIds /\ op.id \notin poisoned /\ JournalShape(op.journal)
        /\ AdmitsAll(op.journal, op.id) /\ op.journal.changes \subseteq Fields
        /\ op.pc # "persist" => op.journal = files[op.id]
    BY <1>1 DEF OpCore, Kept, Tied, JournalShape
  <1>3. op.journal # NoFile
    BY <1>2 DEF NoFile, JournalShape, JournalFields
  <1>4. op.pc # "persist" => Validate(op.journal)
    BY <1>1, <1>2, <1>3 DEF Disk, OnDisk
  <1>5. QED BY <1>1, <1>2, <1>4 DEF Holding

\* A field of a recovery.
LEMMA VisitKeeps ==
  ASSUME PrepInv, Visit
  PROVE  PrepInv'
  <1> SUFFICES OpInv(op')
    BY OpStays DEF Visit
  <1>0. op.pc = "visit"
    BY DEF Visit
  <1>1. /\ Outer /\ Disk /\ OpCore(op) /\ OpShape(op) /\ DOMAIN op = OpFields /\ Expecting(op)
        /\ op.id \in OpIds /\ op.id \notin poisoned /\ JournalShape(op.journal)
        /\ AdmitsAll(op.journal, op.id) /\ op.journal.changes \subseteq Fields
        /\ op.journal = files[op.id] /\ Holding(op)
    BY <1>0, InHand
  <1>2. /\ op.kind = "recover" /\ op.field \in op.journal.changes /\ op.expected[op.field] = op.state[op.field]
        /\ op.state[op.field] \in {op.journal.before[op.field], "t"} /\ op.field \in Fields
        /\ revision \in Nat /\ frames \in Seq(FrameShape)
    BY <1>0, <1>1 DEF OpCore, Placed, Visiting, Expecting, Outer
  <1> DEFINE j == op.journal
             f == op.field
  <1>3. CASE op' = NextField(op)
    <2>1. OpCore(op') /\ op'.pc # "persist" /\ op'.journal = op.journal /\ op'.id = op.id
      BY <1>1, <1>2, <1>3, NextKeeps
    <2>2. QED BY <1>1, <2>1 DEF OpInv, Tied
  <1>4. CASE RecStatus(j, f) = "intent"
             /\ op' = [op EXCEPT !.pc = "persist", !.next = "visit",
                                 !.journal = Advance(j, f, TRUE, "notdispatched")]
    <2>1. PICK k : k = Advanced(j, f, op.kind, "notdispatched")
      OBVIOUS
    <2>2. k = Advance(j, f, TRUE, "notdispatched")
      BY <2>1, <1>2 DEF Advanced, Advance
    <2>3. /\ Alike(op, op', {"pc", "next", "journal", "sending"}) /\ op'.pc = "persist"
          /\ op'.next = "visit" /\ op'.journal = k
      BY <1>4, <2>2, <1>1 DEF Alike, OpFields
    <2>4. j.rec[f] # <<>> /\ Status(Attempt(j, f, op.kind)) = "intent"
      BY <1>2, <1>4 DEF RecStatus, Attempt, Last
    <2>5. "notdispatched" \in StepNames
      BY StepIsName
    <2>6. Grown(j, k, f, op.kind, "notdispatched")
      BY <1>1, <1>2, <2>1, <2>4, <2>5, AttemptAdvanced
    <2>7. \A n \in 1..Len(frames) : ~Current(op, frames[n])
      BY <1>1, <1>2, <2>4, NoneCurrent
    <2>8. AdmitsAll(k, op.id)
      BY <1>1, <1>2, <2>6, <2>7, AdvanceSpares
    <2>9. Aimed(op')
      BY <2>3 DEF Aimed, Aiming
    <2>10. JournalShape(k) /\ k.changes = j.changes /\ k.before = j.before /\ k.version = j.version
      BY <2>6 DEF Grown
    <2>11. QED BY <1>1, <1>2, <2>3, <2>8, <2>9, <2>10, PublishReady
  <1>5. CASE op' = [op EXCEPT !.pc = "persist", !.next = "fields", !.journal = ObservedBefore(j, f)]
    <2>2. PICK k : k = ObservedBefore(j, f)
      OBVIOUS
    <2>3. Adds(j, k, f, "observed")
      BY <1>1, <2>2 DEF ObservedBefore, Adds, Alike, JournalShape, JournalFields
    <2>4. Added(j, k, f, "observed") /\ AdmitsAll(k, op.id)
      BY <1>1, <1>2, <2>3, AttemptAdded
    <2>5. /\ Alike(op, op', {"pc", "next", "journal", "sending"}) /\ op'.pc = "persist"
          /\ op'.next = "fields" /\ op'.journal = k
      BY <1>5, <2>2, <1>1 DEF Alike, OpFields
    <2>6. Aimed(op')
      BY <2>5 DEF Aimed, Aiming
    <2>7. QED BY <1>1, <1>2, <2>4, <2>5, <2>6, PublishReady DEF Added
  <1>6. CASE op.state[f] # j.before[f] /\ op' = Read(op, "field")
    <2>1. OpCore(op') /\ op'.pc = "read" /\ op'.journal = op.journal /\ op'.id = op.id
      BY <1>1, <1>2, <1>6, ReadKeeps
    <2>2. QED BY <1>1, <2>1 DEF OpInv, Tied
  <1>7. QED BY <1>3, <1>4, <1>5, <1>6, OverIdle DEF Visit

\* A field is prepared only when every frame of the journal is decided and none
\* was for this field.
LEMMA PreparationDecided ==
  ASSUME NEW j, NEW id, NEW f \in Fields, JournalShape(j), Validate(j), AdmitsAll(j, id),
         frames \in Seq(FrameShape), f \in j.changes, CanBeginPreparation(j, f)
  PROVE  \A n \in 1..Len(frames) : frames[n].id = id =>
             Status(AttemptOf(j, frames[n])) \notin Doubtful /\ frames[n].field # f
  <1> SUFFICES ASSUME NEW n \in 1..Len(frames), frames[n].id = id
               PROVE  Status(AttemptOf(j, frames[n])) \notin Doubtful /\ frames[n].field # f
    OBVIOUS
  <1>1. PICK x : x = frames[n]
    OBVIOUS
  <1>2. x \in FrameShape /\ Admits(j, x)
    BY <1>1, ElementOfSeq DEF AdmitsAll
  <1>3. /\ x.field \in j.changes /\ x.field \in Fields /\ x.kind \in {"prepare", "recover"}
        /\ x.attempt \in Nat \ {0}
    BY <1>2 DEF FrameShape, Admits
  <1>4. j.rec[x.field] = <<>> /\ (x.field < f => OwnsRestore(j, x.field)) /\ j.prep[f] = <<>>
    BY <1>3 DEF CanBeginPreparation
  <1>5. x.kind = "prepare"
    BY <1>2, <1>3, <1>4 DEF Admits
  <1>6. AttemptOf(j, x) = j.prep[x.field]
    BY <1>5 DEF AttemptOf
  <1>7. j.prep[x.field] # <<>>
    BY <1>2, <1>6 DEF Admits, Status
  <1>8. \A g \in Before(j, x.field) : OwnsRestore(j, g)
    BY <1>3, <1>7 DEF Validate
  <1>9. ~(f < x.field)
    <2>1. ~OwnsRestore(j, f)
      BY <1>4 DEF OwnsRestore, PrepStatus, Status
    <2>2. QED BY <2>1, <1>8 DEF Before
  <1>10. x.field # f
    BY <1>4, <1>7
  <1>11. x.field < f
    BY <1>3, <1>9, <1>10 DEF Fields
  <1>12. Status(AttemptOf(j, x)) = "accepted"
    BY <1>4, <1>6, <1>11 DEF OwnsRestore, PrepStatus
  <1>13. QED BY <1>1, <1>10, <1>12 DEF Doubtful

\* A field is restored only when every frame of the journal is decided.
LEMMA RecoveryDecided ==
  ASSUME NEW j, NEW id, NEW f \in Fields, JournalShape(j), Validate(j), AdmitsAll(j, id),
         frames \in Seq(FrameShape), j.version # 1, CanBeginRecovery(j, f)
  PROVE  Decided(j, id)
  <1> SUFFICES ASSUME NEW n \in 1..Len(frames), frames[n].id = id
               PROVE  Status(AttemptOf(j, frames[n])) \notin Doubtful
    BY DEF Decided
  <1>1. PICK x : x = frames[n]
    OBVIOUS
  <1>2. x \in FrameShape /\ Admits(j, x)
    BY <1>1, ElementOfSeq DEF AdmitsAll
  <1>3. /\ x.field \in j.changes /\ x.field \in Fields /\ x.kind \in {"prepare", "recover"}
        /\ x.attempt \in Nat \ {0}
    BY <1>2 DEF FrameShape, Admits
  <1>4. PrepStatus(j, x.field) \notin Doubtful /\ RecStatus(j, x.field) \notin Doubtful
    BY <1>3 DEF CanBeginRecovery, Uncertain
  <1>5. CASE x.kind = "prepare"
    BY <1>1, <1>4, <1>5 DEF PrepStatus, AttemptOf
  <1>6. CASE x.kind = "recover"
    <2>1. Len(j.rec[x.field]) \in Nat /\ x.attempt <= Len(j.rec[x.field])
      BY <1>2, <1>3, <1>6, LengthsNat DEF Admits
    <2>2. j.rec[x.field] # <<>>
      BY <2>1, <1>3
    <2>3. AttemptOf(j, x) = j.rec[x.field][x.attempt]
      BY <1>6 DEF AttemptOf
    <2>4. CASE x.attempt = Len(j.rec[x.field])
      BY <1>1, <1>4, <2>2, <2>3, <2>4 DEF RecStatus, Last
    <2>5. CASE x.attempt < Len(j.rec[x.field])
      <3>1. x.attempt \in 1..Len(j.rec[x.field])
        BY <1>3, <2>1
      <3>2. Status(j.rec[x.field][x.attempt]) \in {"notdispatched", "rejected"}
        BY <1>3, <2>2, <2>5, <3>1 DEF Validate
      <3>3. QED BY <1>1, <2>3, <3>2 DEF Doubtful
    <2>6. QED BY <1>3, <2>1, <2>4, <2>5
  <1>7. QED BY <1>3, <1>5, <1>6

\* The intent of a frame.
LEMMA IntentKeeps ==
  ASSUME PrepInv, Begin
  PROVE  PrepInv'
  <1> SUFFICES OpInv(op')
    BY OpStays DEF Begin
  <1>0. op.pc = "begin"
    BY DEF Begin
  <1>1. /\ Outer /\ OpCore(op) /\ OpShape(op) /\ DOMAIN op = OpFields /\ Expecting(op)
        /\ op.id \in OpIds /\ op.id \notin poisoned /\ JournalShape(op.journal)
        /\ AdmitsAll(op.journal, op.id) /\ op.journal.changes \subseteq Fields
        /\ Validate(op.journal)
    BY <1>0, InHand
  <1>2. /\ op.field \in op.journal.changes /\ op.field \in Fields /\ frames \in Seq(FrameShape)
        /\ op.fence = revision => heard = {}
        /\ op.kind = "recover" => op.sample[op.field] = "t"
        /\ op.kind \in {"prepare", "recover"}
    BY <1>0, <1>1 DEF OpCore, Aimed, Aiming, Outer, OpShape
  <1> DEFINE j == op.journal
             f == op.field
  <1>3. ASSUME NEW k, JournalShape(k), AdmitsAll(k, op.id), Decided(k, op.id),
               k.changes = j.changes, k.before = j.before, k.version = j.version,
               Status(Attempt(k, f, op.kind)) = "intent",
               op.kind = "prepare" => Untouched(op),
               op.kind = "recover" => k.rec[f] # <<>> /\ OwnsRestore(k, f),
               op' = [op EXCEPT !.pc = "persist", !.next = "possible", !.journal = k]
        PROVE  OpInv(op')
    <2>1. /\ Alike(op, op', {"pc", "next", "journal", "sending"}) /\ op'.pc = "persist"
          /\ op'.next = "possible" /\ op'.journal = k
      BY <1>3, <1>1 DEF Alike, OpFields
    <2>2. /\ op'.field = f /\ op'.kind = op.kind /\ op'.id = op.id /\ op'.fence = op.fence
          /\ op'.sample = op.sample
      BY <2>1, <1>1 DEF Alike, OpFields
    <2>3. Trying(op') /\ Decided(op'.journal, op'.id)
      BY <1>2, <1>3, <2>1, <2>2 DEF Trying
    <2>4. op'.kind = "prepare" => \A n \in 1..Len(frames) : frames[n].id = op'.id => frames[n].field # op'.field
      BY <1>3, <2>2 DEF Untouched
    <2>5. Status(Attempt(op'.journal, op'.field, op'.kind)) = "intent"
      BY <1>3, <2>1, <2>2
    <2>6. Aimed(op')
      BY <1>2, <1>3, <2>1, <2>2, <2>3, <2>4, <2>5 DEF Aimed, Untouched
    <2>7. QED BY <1>1, <1>3, <2>1, <2>6, PublishReady
  <1>4. CASE op.kind = "prepare" /\ CanBeginPreparation(j, f)
             /\ op' = [op EXCEPT !.pc = "persist", !.next = "possible", !.journal = BeginPreparation(j, f)]
    <2>1. PICK k : k = BeginPreparation(j, f)
      OBVIOUS
    <2>2. PICK steps : steps = <<"intent">>
      OBVIOUS
    <2>3. steps \in Seq(StepNames) /\ Status(steps) = "intent"
      BY <2>2, StepIsName, OneStep
    <2>4. Alike(j, k, {"prep"}) /\ k.prep = [j.prep EXCEPT ![f] = steps]
      BY <1>1, <2>1, <2>2 DEF BeginPreparation, Alike, JournalShape, JournalFields
    <2>5. j.prep \in [Fields -> Seq(StepNames)]
      BY <1>1 DEF JournalShape
    <2>6. k.prep \in [Fields -> Seq(StepNames)] /\ k.prep[f] = steps
      BY <1>2, <2>3, <2>4, <2>5
    <2>7. \A g \in Fields : g # f => k.prep[g] = j.prep[g]
      BY <2>4, <2>5
    <2>8. JournalShape(k) /\ k.changes = j.changes /\ k.before = j.before /\ k.rec = j.rec /\ k.version = j.version
      BY <1>1, <2>4, <2>6, PrepChanged
    <2>9. \A n \in 1..Len(frames) : frames[n].id = op.id =>
             Status(AttemptOf(j, frames[n])) \notin Doubtful /\ frames[n].field # f
      BY <1>1, <1>2, <1>4, PreparationDecided
    <2>10. Decided(j, op.id) /\ Untouched(op)
      BY <2>9 DEF Decided, Untouched
    <2>11. Spared(j, k, op.id)
      BY <1>2, <2>7, <2>8, <2>9, PrepSpares
    <2>12. Longer(j, k)
      <3>1. \A g \in Fields : Len(j.rec[g]) \in Nat
        BY <1>1, LengthsNat
      <3>2. QED BY <3>1, <2>8 DEF Longer
    <2>13. AdmitsAll(k, op.id) /\ Decided(k, op.id)
      BY <1>1, <1>2, <2>8, <2>10, <2>11, <2>12, SparedAdmits
    <2>14. Status(Attempt(k, f, op.kind)) = "intent"
      BY <1>4, <2>3, <2>6 DEF Attempt
    <2>15. QED BY <1>3, <1>4, <2>1, <2>8, <2>10, <2>13, <2>14
  <1>5. CASE op.kind = "recover" /\ CanBeginRecovery(j, f)
             /\ op' = [op EXCEPT !.pc = "persist", !.next = "possible", !.journal = BeginRecovery(j, f)]
    <2>1. PICK k : k = BeginRecovery(j, f)
      OBVIOUS
    <2>2. Adds(j, k, f, "intent")
      BY <1>1, <2>1 DEF BeginRecovery, Adds, Alike, JournalShape, JournalFields
    <2>3. Decided(j, op.id)
      BY <1>1, <1>2, <1>5, RecoveryDecided DEF Expecting
    <2>4. Added(j, k, f, "intent") /\ AdmitsAll(k, op.id) /\ Decided(k, op.id)
      BY <1>1, <1>2, <2>2, <2>3, AttemptAdded
    <2>5. Status(Attempt(k, f, op.kind)) = "intent"
      BY <1>5, <2>4, OneStep DEF Attempt, Added
    <2>6. k.rec[f] # <<>> /\ OwnsRestore(k, f)
      BY <1>5, <2>4 DEF Added, OwnsRestore, PrepStatus, CanBeginRecovery
    <2>7. QED BY <1>3, <1>5, <2>1, <2>4, <2>5, <2>6 DEF Added
  <1>6. QED BY <1>2, <1>4, <1>5, OverIdle DEF Begin

\* What follows a publication.
LEMMA ContinueKeeps ==
  ASSUME PrepInv, op.pc = "persist"
  PROVE  \/ Continue(op).pc = "idle"
         \/ /\ OpCore(Continue(op)) /\ Continue(op).id = op.id
            /\ Continue(op).pc # "persist" => Continue(op).journal = op.journal
  <1>1. /\ Outer /\ OpCore(op) /\ OpShape(op) /\ DOMAIN op = OpFields /\ Expecting(op)
        /\ op.id \in OpIds /\ op.id \notin poisoned /\ JournalShape(op.journal)
        /\ AdmitsAll(op.journal, op.id) /\ op.journal.changes \subseteq Fields
    BY InHand
  <1>2. /\ revision \in Nat /\ frames \in Seq(FrameShape) /\ op.kind \in {"prepare", "recover"}
        /\ op.next \in {"fields", "visit", "possible", "send", "done", "failed"}
        /\ op.next = "visit" => op.kind = "recover"
    BY <1>1 DEF OpCore, Placed, OpShape, Outer
  <1>3. CASE op.next = "fields"
    <2>1. Holding(op)
      BY <1>1 DEF Holding
    <2>2. Continue(op) = NextField(op)
      BY <1>3 DEF Continue
    <2>3. QED BY <2>1, <2>2, <1>2, NextKeeps
  <1>4. CASE op.next = "visit"
    <2>1. PICK q : q = [op EXCEPT !.pc = "visit"]
      OBVIOUS
    <2>2. Continue(op) = q
      BY <1>4, <2>1 DEF Continue
    <2>3. Alike(op, q, {"pc"}) /\ q.pc = "visit"
      BY <2>1, <1>1 DEF Alike, OpFields
    <2>4. /\ DOMAIN q = OpFields /\ q.then = op.then /\ q.journal = op.journal
          /\ q.kind = op.kind /\ q.id = op.id /\ q.field = op.field /\ q.fence = op.fence
          /\ q.sample = op.sample /\ q.state = op.state /\ q.expected = op.expected
          /\ q.slot = op.slot /\ q.base = op.base
      BY <2>3, <1>1 DEF Alike, OpFields
    <2>5. OpShape(q)
      BY <2>4, <1>1 DEF OpShape
    <2>6. Placed(q) /\ Sighted(q) /\ Aimed(q) /\ Awaiting(q) /\ Kept(q)
      BY <2>3, <2>4, <1>1, <1>2, <1>4 DEF Placed, Sighted, Aimed, Aiming, Awaiting, Kept
    <2>7. Visiting(q)
      BY <2>3, <2>4, <1>1, <1>2, <1>4 DEF Visiting, Expecting, OpCore
    <2>8. QED BY <2>2, <2>4, <2>5, <2>6, <2>7 DEF OpCore
  <1>5. CASE op.next = "send"
    <2>1. PICK q : q = [op EXCEPT !.pc = "send", !.sending = TRUE]
      OBVIOUS
    <2>2. Continue(op) = q
      BY <1>5, <2>1 DEF Continue
    <2>3. Alike(op, q, {"pc", "sending"}) /\ q.pc = "send"
      BY <2>1, <1>1 DEF Alike, OpFields
    <2>4. /\ DOMAIN q = OpFields /\ q.then = op.then /\ q.journal = op.journal /\ q.next = op.next
          /\ q.kind = op.kind /\ q.id = op.id /\ q.field = op.field /\ q.fence = op.fence
          /\ q.sample = op.sample /\ q.state = op.state /\ q.expected = op.expected
          /\ q.slot = op.slot /\ q.base = op.base
      BY <2>3, <1>1 DEF Alike, OpFields
    <2>5. OpShape(q)
      BY <2>4, <1>1 DEF OpShape
    <2>6. Placed(q) /\ Sighted(q) /\ Awaiting(q) /\ Kept(q) /\ Visiting(q)
      BY <2>3, <2>4, <1>1, <1>5 DEF Placed, Sighted, Awaiting, Kept, Visiting, Expecting
    <2>7. Aimed(q)
      BY <2>3, <2>4, <1>1, <1>5 DEF OpCore, Aimed, Aiming, Trying, Untouched
    <2>8. QED BY <2>2, <2>4, <2>5, <2>6, <2>7 DEF OpCore
  <1>6. CASE op.next = "possible"
    <2>1. PICK k : k = Advanced(op.journal, op.field, op.kind, "possible")
      OBVIOUS
    <2>2. PICK q : q = [op EXCEPT !.pc = "persist", !.next = "send", !.journal = k]
      OBVIOUS
    <2>3. Continue(op) = q
      BY <1>6, <2>1, <2>2 DEF Continue, Advanced
    <2>4. /\ Trying(op) /\ Decided(op.journal, op.id) /\ op.field \in Fields
          /\ Status(Attempt(op.journal, op.field, op.kind)) = "intent"
          /\ op.fence = revision => heard = {}
          /\ op.kind = "recover" => op.sample[op.field] = "t"
          /\ op.kind = "prepare" => Untouched(op)
      BY <1>1, <1>6 DEF OpCore, Aimed, Aiming
    <2>5. "possible" \in StepNames
      BY StepIsName
    <2>6. Grown(op.journal, k, op.field, op.kind, "possible")
      BY <1>1, <1>2, <2>1, <2>4, <2>5, AttemptAdvanced DEF Trying
    <2>7. \A n \in 1..Len(frames) : ~Current(op, frames[n])
      BY <1>1, <1>2, <2>4, NoneCurrent
    <2>8. AdmitsAll(k, op.id) /\ Decided(k, op.id)
      BY <1>1, <1>2, <2>4, <2>6, <2>7, AdvanceSpares
    <2>9. /\ Alike(op, q, {"pc", "next", "journal", "sending"}) /\ q.pc = "persist"
          /\ q.next = "send" /\ q.journal = k
      BY <2>2, <1>1 DEF Alike, OpFields
    <2>10. /\ q.field = op.field /\ q.kind = op.kind /\ q.id = op.id /\ q.fence = op.fence
           /\ q.sample = op.sample
      BY <2>9, <1>1 DEF Alike, OpFields
    <2>11. /\ JournalShape(k) /\ k.changes = op.journal.changes /\ k.before = op.journal.before
           /\ k.version = op.journal.version
           /\ Status(Attempt(k, op.field, op.kind)) = "possible"
           /\ op.kind = "recover" => k.prep = op.journal.prep /\ k.rec[op.field] # <<>>
      BY <2>6 DEF Grown
    <2>12. Trying(q)
      BY <2>4, <2>9, <2>10, <2>11 DEF Trying, OwnsRestore, PrepStatus
    <2>13. Aimed(q)
      BY <2>4, <2>8, <2>9, <2>10, <2>11, <2>12 DEF Aimed, Trying, Untouched
    <2>14. OpInv(q)
      BY <1>1, <2>8, <2>9, <2>11, <2>13, PublishReady
    <2>15. QED BY <2>3, <2>9, <2>10, <2>14 DEF OpInv
  <1>7. CASE op.next \in {"done", "failed"}
    BY <1>7 DEF Continue, Over, Failed
  <1>8. QED BY <1>2, <1>3, <1>4, <1>5, <1>6, <1>7

\* JournalFile::persist.
LEMMA PersistKeeps ==
  ASSUME PrepInv, NEW outcome \in {"unavailable", "doubtful", "published"}, Persist(outcome)
  PROVE  PrepInv'
  <1>0. op.pc = "persist"
    BY DEF Persist
  <1>1. /\ Outer /\ Disk /\ OpCore(op) /\ OpShape(op) /\ DOMAIN op = OpFields
        /\ op.id \in OpIds /\ op.id \notin poisoned /\ JournalShape(op.journal)
        /\ AdmitsAll(op.journal, op.id)
    BY <1>0, InHand
  <1>2. UNCHANGED <<obs, wire, revision, heard, frames>> /\ Outer'
    BY <1>1 DEF Persist, Outer
  <1>3. CASE op' = Failed /\ UNCHANGED <<files, durable, poisoned>>
    BY <1>2, <1>3, OverIdle, OpStays
  <1>4. CASE /\ Validate(op.journal) /\ files' = [files EXCEPT ![op.id] = op.journal]
             /\ \/ durable' = files' /\ op' = Continue(op) /\ poisoned' = poisoned
                \/ durable' = durable /\ op' = Failed /\ poisoned' = poisoned \union {op.id}
    <2>1. op.journal # NoFile
      BY <1>1 DEF NoFile, JournalShape, JournalFields
    <2>2. DOMAIN files = OpIds /\ DOMAIN files' = OpIds /\ files'[op.id] = op.journal
      BY <1>1, <1>4 DEF Disk, OnDisk
    <2>3. \A id \in OpIds : id # op.id => files'[id] = files[id]
      BY <1>4, <2>2
    <2>4. OnDisk(files')
      <3>1. ASSUME NEW id \in OpIds, files'[id] # NoFile
            PROVE  JournalShape(files'[id]) /\ Validate(files'[id]) /\ AdmitsAll(files'[id], id)
        <4>1. CASE id = op.id
          BY <4>1, <2>2, <1>1, <1>4
        <4>2. CASE id # op.id
          BY <4>2, <3>1, <2>3, <1>1 DEF Disk, OnDisk
        <4>3. QED BY <4>1, <4>2
      <3>2. ASSUME NEW n \in 1..Len(frames)
            PROVE  files'[frames[n].id] # NoFile
        <4>0. frames \in Seq(FrameShape)
          BY <1>1 DEF Outer
        <4>1. frames[n] \in FrameShape
          BY <4>0, ElementOfSeq
        <4>2. frames[n].id \in OpIds
          BY <4>1 DEF FrameShape
        <4>3. QED BY <4>2, <2>1, <2>2, <2>3, <1>1 DEF Disk, OnDisk
      <3>3. QED BY <3>1, <3>2, <2>2 DEF OnDisk
    <2>5. OnDisk(files)'
      BY <2>4, <1>2 DEF OnDisk, AdmitsAll
    <2>6. CASE durable' = files' /\ op' = Continue(op) /\ poisoned' = poisoned
      <3>1. durable' = files' /\ op' = Continue(op) /\ poisoned' = poisoned
        BY <2>6
      <3>2. OnDisk(durable)'
        BY <3>1, <2>5
      <3>3. Disk'
        BY <3>1, <3>2, <2>1, <2>2, <2>3, <2>5, <1>1 DEF Disk
      <3>4. \/ op'.pc = "idle"
            \/ OpCore(op') /\ op'.id = op.id /\ (op'.pc # "persist" => op'.journal = op.journal)
        BY <3>1, <1>0, ContinueKeeps
      <3>5. OpInv(op)'
        <4>1. CASE op'.pc = "idle"
          BY <4>1 DEF OpInv
        <4>2. CASE OpCore(op') /\ op'.id = op.id /\ (op'.pc # "persist" => op'.journal = op.journal)
          <5>1. OpCore(op)'
            BY <4>2, <1>2, CoreStays
          <5>2. Tied(op)'
            BY <4>2, <3>1, <2>2, <1>1 DEF Tied, Blank
          <5>3. QED BY <5>1, <5>2 DEF OpInv
        <4>3. QED BY <3>4, <4>1, <4>2
      <3>6. QED BY <1>2, <3>3, <3>5 DEF PrepInv
    <2>7. CASE durable' = durable /\ op' = Failed /\ poisoned' = poisoned \union {op.id}
      <3>1. durable' = durable /\ op' = Failed /\ poisoned' = poisoned \union {op.id}
        BY <2>7
      <3>2. OnDisk(durable)'
        BY <3>1, <1>1, <1>2 DEF Disk, OnDisk, AdmitsAll
      <3>3. Disk'
        BY <3>1, <3>2, <2>1, <2>2, <2>3, <2>5, <1>1 DEF Disk
      <3>4. OpInv(op)'
        BY <3>1 DEF OpInv, Failed, Over
      <3>5. QED BY <1>2, <3>3, <3>4 DEF PrepInv
    <2>8. QED BY <1>4, <2>6, <2>7
  <1>5. QED BY <1>3, <1>4 DEF Persist

\* The outcome of a frame is known, or that there was none.
LEMMA SettledKeeps ==
  ASSUME PrepInv, op.pc \in {"send", "wait"}, Trying(op),
         NEW step \in {"accepted", "notdispatched", "rejected", "unknown"},
         NEW k, k = Advanced(op.journal, op.field, op.kind, step), AdmitsAll(k, op.id)
  PROVE  OpInv(Settled(step))
  <1>1. /\ Outer /\ OpCore(op) /\ OpShape(op) /\ DOMAIN op = OpFields /\ Expecting(op)
        /\ op.id \in OpIds /\ op.id \notin poisoned /\ JournalShape(op.journal)
        /\ op.journal.changes \subseteq Fields /\ op.field \in Fields
        /\ op.kind \in {"prepare", "recover"}
    BY InHand DEF Trying, OpShape
  <1>2. Grown(op.journal, k, op.field, op.kind, step)
    <2>1. step \in StepNames
      BY StepIsName
    <2>2. QED BY <1>1, <2>1, AttemptAdvanced DEF Trying
  <1>3. JournalShape(k) /\ k.changes = op.journal.changes /\ k.before = op.journal.before /\ k.version = op.journal.version
    BY <1>2 DEF Grown
  <1>4. PICK q : q = Settled(step)
    OBVIOUS
  <1>5. CASE step # "accepted"
    <2>1. q = [[op EXCEPT !.pc = "persist", !.journal = k] EXCEPT !.next = "failed"]
      BY <1>4, <1>5, <1>1 DEF Settled, Advanced
    <2>2. /\ Alike(op, q, {"pc", "next", "journal", "sending"}) /\ q.pc = "persist"
          /\ q.next = "failed" /\ q.journal = k
      BY <2>1, <1>1 DEF Alike, OpFields
    <2>3. Aimed(q)
      BY <2>2 DEF Aimed, Aiming
    <2>4. QED BY <1>1, <1>3, <1>4, <2>2, <2>3, PublishReady
  <1>6. CASE step = "accepted"
    <2>1. PICK v : v = IF op.kind = "prepare" THEN "t" ELSE op.journal.before[op.field]
      OBVIOUS
    <2>2. PICK wanted : wanted = [op.expected EXCEPT ![op.field] = v]
      OBVIOUS
    <2>3. PICK o : o = [op EXCEPT !.expected = wanted, !.fresh = TRUE]
      OBVIOUS
    <2>4. q = [[op EXCEPT !.pc = "persist", !.journal = k] EXCEPT !.next = "fields", !.fresh = TRUE, !.expected = wanted]
      BY <1>4, <1>6, <1>1, <2>1, <2>2 DEF Settled, Advanced, OpFields
    <2>5. op.field \in Slots /\ op.field \in Nat
      BY <1>1, PreparationAssumption DEF Fields, Slots
    <2>6. v \in Values
      BY <2>1, <2>5, <1>1 DEF JournalShape, Values
    <2>7. op.expected \in [Slots -> Values]
      BY <1>1 DEF OpShape
    <2>8. wanted \in [Slots -> Values] /\ \A s \in Slots : s # op.field => wanted[s] = op.expected[s]
      BY <2>2, <2>5, <2>6, <2>7
    <2>9. Alike(op, o, {"expected", "fresh"}) /\ o.expected = wanted
      BY <2>3, <1>1 DEF Alike, OpFields
    <2>10. /\ DOMAIN o = OpFields /\ o.then = op.then /\ o.journal = op.journal
           /\ o.kind = op.kind /\ o.id = op.id /\ o.field = op.field /\ o.fence = op.fence
           /\ o.sample = op.sample /\ o.state = op.state /\ o.slot = op.slot /\ o.base = op.base
      BY <2>9, <1>1 DEF Alike, OpFields
    <2>11. OpShape(o)
      BY <2>8, <2>9, <2>10, <1>1 DEF OpShape
    <2>12. Expecting(o)
      <3>1. \A f \in op.journal.changes : f > op.field => f \in Slots /\ f # op.field
        BY <1>1, <2>5, PreparationAssumption DEF Fields, Slots
      <3>2. QED BY <3>1, <2>8, <2>9, <2>10, <1>1 DEF Expecting
    <2>13. /\ Alike(o, q, {"pc", "next", "journal", "sending"}) /\ q.pc = "persist"
           /\ q.next = "fields" /\ q.journal = k
      BY <2>3, <2>4, <1>1 DEF Alike, OpFields
    <2>14. Aimed(q)
      BY <2>13 DEF Aimed, Aiming
    <2>15. QED BY <1>1, <1>3, <1>4, <2>10, <2>11, <2>12, <2>13, <2>14, PublishReady
  <1>7. QED BY <1>5, <1>6

\* The answer of OBS, or none.
LEMMA AnswerKeeps ==
  ASSUME PrepInv, NEW step \in {"accepted", "rejected", "unknown"}, Answer(step)
  PROVE  PrepInv'
  <1> SUFFICES OpInv(op')
    BY OpStays DEF Answer
  <1>0. op.pc = "wait" /\ op' = Settled(step)
    BY DEF Answer
  <1>1. /\ Outer /\ OpCore(op) /\ OpShape(op) /\ JournalShape(op.journal) /\ AdmitsAll(op.journal, op.id)
        /\ op.journal.changes \subseteq Fields /\ op.kind \in {"prepare", "recover"}
    BY <1>0, InHand DEF OpShape
  <1>2. /\ Trying(op) /\ frames # <<>> /\ Current(op, frames[Len(frames)])
        /\ \A n \in 1..(Len(frames) - 1) : ~Current(op, frames[n])
        /\ op.field \in Fields /\ frames \in Seq(FrameShape)
    BY <1>0, <1>1 DEF OpCore, Awaiting, Trying, Outer
  <1>3. PICK k : k = Advanced(op.journal, op.field, op.kind, step)
    OBVIOUS
  <1>4. Grown(op.journal, k, op.field, op.kind, step)
    <2>1. step \in StepNames
      BY StepIsName
    <2>2. QED BY <1>1, <1>2, <1>3, <2>1, AttemptAdvanced DEF Trying
  <1>5. AdmitsAll(k, op.id)
    <2>1. Len(frames) \in Nat
      BY <1>2, LenProperties
    <2>2. ASSUME NEW n \in 1..Len(frames), frames[n].id = op.id
          PROVE  Admits(k, frames[n])
      <3>1. CASE n # Len(frames)
        <4>1. n \in 1..(Len(frames) - 1)
          BY <2>1, <3>1
        <4>2. ~Current(op, frames[n])
          BY <4>1, <1>2
        <4>3. QED BY <4>2, <2>2, <1>1, <1>2, <1>4, AdvanceOther
      <3>2. CASE n = Len(frames)
        <4>1. PICK x : x = frames[n]
          OBVIOUS
        <4>2. /\ Current(op, x) /\ (step = "accepted" => x.fate = "applied")
              /\ (step = "rejected" => x.fate = "refused")
          BY <4>1, <3>2, <1>2 DEF Answer, Last
        <4>3. Admits(op.journal, x)
          BY <4>1, <2>2, <1>1 DEF AdmitsAll
        <4>4. AttemptOf(k, x) = Attempt(k, op.field, op.kind)
          BY <4>2, <1>1, <1>4 DEF Current, AttemptOf, Attempt, Grown
        <4>5. /\ x.field \in k.changes /\ Status(AttemptOf(k, x)) = step
              /\ x.kind = "recover" => x.attempt <= Len(k.rec[x.field])
          BY <4>2, <4>3, <4>4, <1>4 DEF Admits, Grown, Current
        <4>6. QED BY <4>1, <4>2, <4>5 DEF Admits
      <3>3. QED BY <3>1, <3>2
    <2>3. QED BY <2>2 DEF AdmitsAll
  <1>6. QED BY <1>0, <1>2, <1>3, <1>5, SettledKeeps


\* One more frame.
FramesMore(x) ==
    /\ frames' \in Seq(FrameShape) /\ Len(frames) \in Nat /\ Len(frames') = Len(frames) + 1
    /\ \A n \in 1..Len(frames) : frames'[n] = frames[n]
    /\ frames'[Len(frames) + 1] = x /\ frames' # <<>>

LEMMA FrameLeaves ==
  ASSUME frames \in Seq(FrameShape), NEW x \in FrameShape, frames' = Append(frames, x)
  PROVE  FramesMore(x) /\ Last(frames') = x
  BY OneMore DEF FramesMore

LEMMA AdmitsMore ==
  ASSUME NEW x, FramesMore(x), NEW j, NEW id, AdmitsAll(j, id), x.id = id => Admits(j, x)
  PROVE  AdmitsAll(j, id)'
  <1> SUFFICES ASSUME NEW n \in 1..Len(frames'), frames'[n].id = id
               PROVE  Admits(j, frames'[n])
    BY DEF AdmitsAll, Admits, AttemptOf, Status
  <1>1. n \in 1..Len(frames) \/ n = Len(frames) + 1
    BY DEF FramesMore
  <1>2. CASE n \in 1..Len(frames)
    BY <1>2 DEF FramesMore, AdmitsAll
  <1>3. CASE n = Len(frames) + 1
    BY <1>3 DEF FramesMore
  <1>4. QED BY <1>1, <1>2, <1>3

LEMMA OnDiskMore ==
  ASSUME NEW x, FramesMore(x), NEW d, OnDisk(d), d[x.id] # NoFile, Admits(d[x.id], x)
  PROVE  OnDisk(d)'
  <1>1. ASSUME NEW id \in OpIds, d[id] # NoFile
        PROVE  AdmitsAll(d[id], id)'
    <2>1. PICK j : j = d[id]
      OBVIOUS
    <2>2. AdmitsAll(j, id) /\ (x.id = id => Admits(j, x))
      BY <1>1, <2>1 DEF OnDisk
    <2>3. AdmitsAll(j, id)'
      BY <2>2, AdmitsMore
    <2>4. QED BY <2>1, <2>3 DEF AdmitsAll
  <1>2. ASSUME NEW n \in 1..Len(frames')
        PROVE  d[frames'[n].id] # NoFile
    <2>1. n \in 1..Len(frames) \/ n = Len(frames) + 1
      BY DEF FramesMore
    <2>2. QED BY <2>1 DEF FramesMore, OnDisk
  <1>3. QED BY <1>1, <1>2 DEF OnDisk

\* What is known when a frame leaves.
LEMMA SendKnows ==
  ASSUME PrepInv, op.pc = "send"
  PROVE  /\ Trying(op) /\ Decided(op.journal, op.id) /\ op.field \in Fields
         /\ Status(Attempt(op.journal, op.field, op.kind)) = "possible"
         /\ op.fence = revision => heard = {}
         /\ op.kind = "recover" => op.sample[op.field] = "t"
         /\ op.kind = "prepare" => Untouched(op)
         /\ frames \in Seq(FrameShape) /\ op.kind \in {"prepare", "recover"}
         /\ \A n \in 1..Len(frames) : ~Current(op, frames[n])
         /\ files[op.id] = durable[op.id] /\ op.journal = files[op.id]
  <1>1. /\ Outer /\ Disk /\ OpCore(op) /\ OpShape(op) /\ JournalShape(op.journal) /\ AdmitsAll(op.journal, op.id)
        /\ op.journal.changes \subseteq Fields /\ op.id \in OpIds /\ op.id \notin poisoned
        /\ op.journal = files[op.id]
    BY InHand
  <1>2. op.next = "send"
    BY <1>1 DEF OpCore, Placed
  <1>3. /\ Trying(op) /\ Decided(op.journal, op.id) /\ op.field \in Fields
        /\ Status(Attempt(op.journal, op.field, op.kind)) = "possible"
        /\ op.fence = revision => heard = {}
        /\ op.kind = "recover" => op.sample[op.field] = "t"
        /\ op.kind = "prepare" => Untouched(op)
    BY <1>1, <1>2 DEF OpCore, Aimed, Aiming
  <1>4. frames \in Seq(FrameShape) /\ op.kind \in {"prepare", "recover"}
    BY <1>1 DEF Outer, OpShape
  <1>5. \A n \in 1..Len(frames) : ~Current(op, frames[n])
    BY <1>1, <1>3, <1>4, NoneCurrent
  <1>6. files[op.id] = durable[op.id]
    BY <1>1 DEF Disk
  <1>7. QED BY <1>1, <1>3, <1>4, <1>5, <1>6

\* The frame of an attempt.
FrameOf(o) ==
    [id |-> o.id, field |-> o.field, kind |-> o.kind,
     attempt |-> IF o.kind = "prepare" THEN 1 ELSE Len(o.journal.rec[o.field]),
     value |-> IF o.kind = "prepare" THEN "t" ELSE o.journal.before[o.field], fate |-> "sent"]

LEMMA FrameIsShaped ==
  ASSUME NEW o, JournalShape(o.journal), o.id \in OpIds, o.field \in Fields, Trying(o),
         o.kind \in {"prepare", "recover"}, Status(Attempt(o.journal, o.field, o.kind)) = "possible",
         NEW x, x = FrameOf(o)
  PROVE  /\ x \in FrameShape /\ Admits(o.journal, x) /\ x.id = o.id /\ x.field = o.field /\ x.kind = o.kind
         /\ Current(o, x) /\ AttemptOf(o.journal, x) = Attempt(o.journal, o.field, o.kind)
  <1>1. /\ x.id = o.id /\ x.field = o.field /\ x.kind = o.kind /\ x.fate = "sent"
        /\ x.attempt = (IF o.kind = "prepare" THEN 1 ELSE Len(o.journal.rec[o.field]))
        /\ x.value = (IF o.kind = "prepare" THEN "t" ELSE o.journal.before[o.field])
        /\ DOMAIN x = {"id", "field", "kind", "attempt", "value", "fate"}
    BY DEF FrameOf
  <1>2. x.attempt \in Nat \ {0}
    <2>1. CASE o.kind = "prepare"
      BY <1>1, <2>1
    <2>2. CASE o.kind = "recover"
      <3>1. o.journal.rec[o.field] \in Seq(Seq(StepNames)) /\ o.journal.rec[o.field] # <<>>
        BY <2>2 DEF JournalShape, Trying
      <3>2. Len(o.journal.rec[o.field]) \in Nat \ {0}
        BY <3>1, LenProperties, EmptySeq
      <3>3. QED BY <1>1, <2>2, <3>2
    <2>3. QED BY <2>1, <2>2
  <1>3. x.value \in Values
    <2>1. o.field \in Slots
      BY PreparationAssumption DEF Fields, Slots
    <2>2. QED BY <2>1, <1>1 DEF JournalShape, Values
  <1>4. x \in FrameShape
    BY <1>2, <1>3 DEF FrameOf, FrameShape
  <1>5. AttemptOf(o.journal, x) = Attempt(o.journal, o.field, o.kind)
    BY <1>1 DEF AttemptOf, Attempt
  <1>6. x.kind = "recover" => x.attempt <= Len(o.journal.rec[x.field])
    BY <1>1, LengthsNat
  <1>7. Admits(o.journal, x)
    BY <1>1, <1>5, <1>6 DEF Admits, Trying
  <1>8. Current(o, x)
    BY <1>1 DEF Current
  <1>9. QED BY <1>1, <1>4, <1>5, <1>7, <1>8

\* BoundDemoAdapter::mutate: what a frame is sent on, and what holds after it.
LEMMA SendKeeps ==
  ASSUME PrepInv, NEW refused \in BOOLEAN, Send(refused)
  PROVE  /\ PrepInv'
         /\ \/ frames' = frames
            \/ \E x \in FrameShape :
                  /\ Last(frames') = x /\ x.id = op.id /\ x.field = op.field /\ x.kind = op.kind
                  /\ op.fence = revision /\ Status(AttemptOf(op.journal, x)) = "possible"
  <1>0. op.pc = "send"
    BY DEF Send
  <1>1. /\ Outer /\ Disk /\ OpCore(op) /\ OpShape(op) /\ DOMAIN op = OpFields /\ Expecting(op)
        /\ op.id \in OpIds /\ op.id \notin poisoned /\ JournalShape(op.journal)
        /\ AdmitsAll(op.journal, op.id) /\ Holding(op)
    BY <1>0, InHand
  <1>2. /\ Trying(op) /\ Decided(op.journal, op.id) /\ op.field \in Fields
        /\ Status(Attempt(op.journal, op.field, op.kind)) = "possible"
        /\ frames \in Seq(FrameShape) /\ op.kind \in {"prepare", "recover"}
        /\ \A n \in 1..Len(frames) : ~Current(op, frames[n])
        /\ files[op.id] = durable[op.id] /\ op.journal = files[op.id]
    BY <1>0, SendKnows
  <1>3. UNCHANGED <<obs, wire, revision, heard, files, durable, poisoned>>
    BY DEF Send
  <1>4. CASE op' = Settled("notdispatched") /\ frames' = frames
    <2>1. PICK k : k = Advanced(op.journal, op.field, op.kind, "notdispatched")
      OBVIOUS
    <2>2. Grown(op.journal, k, op.field, op.kind, "notdispatched")
      <3>1. "notdispatched" \in StepNames
        BY StepIsName
      <3>2. QED BY <1>1, <1>2, <2>1, <3>1, AttemptAdvanced DEF Trying
    <2>3. AdmitsAll(k, op.id)
      BY <1>1, <1>2, <2>2, AdvanceSpares
    <2>4. OpInv(op')
      BY <1>0, <1>2, <1>4, <2>1, <2>3, SettledKeeps
    <2>5. QED BY <1>3, <1>4, <2>4, OpStays
  <1>5. CASE FenceReady /\ op' = [op EXCEPT !.pc = "wait"] /\ frames' = Append(frames, FrameOf(op))
    <2>1. PICK x : x = FrameOf(op)
      OBVIOUS
    <2>2. /\ x \in FrameShape /\ Admits(op.journal, x) /\ x.id = op.id /\ x.field = op.field /\ x.kind = op.kind
          /\ Current(op, x) /\ AttemptOf(op.journal, x) = Attempt(op.journal, op.field, op.kind)
      BY <1>1, <1>2, <2>1, FrameIsShaped
    <2>3. FramesMore(x) /\ Last(frames') = x
      BY <1>2, <1>5, <2>1, <2>2, FrameLeaves
    <2>4. Outer'
      BY <1>1, <1>3, <2>3 DEF Outer, FramesMore
    <2>5. op.journal # NoFile
      BY <1>1 DEF NoFile, JournalShape, JournalFields
    <2>6. ASSUME NEW d, OnDisk(d), d[x.id] = op.journal
          PROVE  OnDisk(d)'
      BY <2>2, <2>3, <2>5, <2>6, OnDiskMore
    <2>7. PICK d : d = files
      OBVIOUS
    <2>8. OnDisk(d)'
      BY <1>1, <1>2, <2>2, <2>6, <2>7 DEF Disk
    <2>9. PICK e : e = durable
      OBVIOUS
    <2>10. OnDisk(e)'
      BY <1>1, <1>2, <2>2, <2>6, <2>9 DEF Disk
    <2>11. Disk'
      BY <1>1, <1>3, <2>7, <2>8, <2>9, <2>10 DEF Disk, OnDisk, AdmitsAll
    <2>12. Alike(op, op', {"pc"}) /\ op'.pc = "wait"
      BY <1>1, <1>5 DEF Alike, OpFields
    <2>13. /\ DOMAIN op' = OpFields /\ op'.then = op.then /\ op'.journal = op.journal /\ op'.next = op.next
           /\ op'.kind = op.kind /\ op'.id = op.id /\ op'.field = op.field /\ op'.fence = op.fence
           /\ op'.sample = op.sample /\ op'.state = op.state /\ op'.expected = op.expected
           /\ op'.slot = op.slot /\ op'.base = op.base
      BY <2>12, <1>1 DEF Alike, OpFields
    <2>14. OpShape(op)'
      BY <1>1, <1>3, <2>13 DEF OpShape
    <2>15. Placed(op)' /\ Sighted(op)' /\ Aimed(op)'
      BY <2>12 DEF Placed, Sighted, Aimed, Aiming
    <2>16. Kept(op)'
      <3>1. PICK j : j = op.journal
        OBVIOUS
      <3>2. PICK id : id = op.id
        OBVIOUS
      <3>3. AdmitsAll(j, id)'
        BY <3>1, <3>2, <1>1, <2>2, <2>3, AdmitsMore
      <3>4. QED BY <3>1, <3>2, <3>3, <1>1, <2>13 DEF Kept, AdmitsAll, JournalShape
    <2>17. Awaiting(op)'
      <3>1. Len(frames') - 1 = Len(frames) /\ frames'[Len(frames')] = x /\ frames' # <<>>
        BY <2>3 DEF FramesMore
      <3>2. Trying(op)' /\ Status(Attempt(op'.journal, op'.field, op'.kind)) = "possible"
        BY <1>2, <2>13 DEF Trying, OwnsRestore, PrepStatus
      <3>3. Current(op', x) /\ \A n \in 1..Len(frames) : ~Current(op', frames'[n])
        BY <1>2, <2>2, <2>3, <2>13 DEF Current, FramesMore
      <3>4. QED BY <3>1, <3>2, <3>3 DEF Awaiting, Trying, Current, Attempt, Status
    <2>18. Visiting(op)' /\ Tied(op)'
      BY <1>1, <1>2, <1>3, <2>12, <2>13 DEF Visiting, Expecting, Tied
    <2>19. PrepInv'
      BY <2>4, <2>11, <2>14, <2>15, <2>16, <2>17, <2>18 DEF PrepInv, OpInv, OpCore
    <2>20. op.fence = revision
      BY <1>5 DEF FenceReady
    <2>21. QED BY <1>2, <2>2, <2>3, <2>19, <2>20
  <1>6. QED BY <1>4, <1>5 DEF Send, FrameOf, WantedAtEnd

LEMMA OpFailsKeeps ==
  ASSUME PrepInv, OpFails
  PROVE  PrepInv'
  BY OverIdle, OpStays DEF OpFails

\* What OBS made of a frame does not make a journal less true.
SameFrames(n) ==
    /\ frames' \in Seq(FrameShape) /\ Len(frames') = Len(frames) /\ Len(frames) \in Nat
    /\ \A m \in 1..Len(frames) : m # n => frames'[m] = frames[m]
    /\ n \in 1..Len(frames) /\ frames[n].fate = "sent" /\ frames'[n].id = frames[n].id
    /\ frames'[n].field = frames[n].field /\ frames'[n].kind = frames[n].kind
    /\ frames'[n].attempt = frames[n].attempt

LEMMA FateDecided ==
  ASSUME frames \in Seq(FrameShape), NEW n \in 1..Len(frames), frames[n].fate = "sent",
         NEW fate \in {"applied", "refused", "lost"}, frames' = [frames EXCEPT ![n].fate = fate]
  PROVE  SameFrames(n)
  <1>1. Len(frames) \in Nat /\ DOMAIN frames = 1..Len(frames)
    BY LenProperties
  <1>2. frames[n] \in FrameShape
    BY ElementOfSeq
  <1>3. PICK y : y = [frames[n] EXCEPT !.fate = fate]
    OBVIOUS
  <1>4. /\ y \in FrameShape /\ y.id = frames[n].id /\ y.field = frames[n].field /\ y.kind = frames[n].kind
        /\ y.attempt = frames[n].attempt
    BY <1>2, <1>3 DEF FrameShape
  <1>5. frames' = [frames EXCEPT ![n] = y]
    BY <1>3
  <1>6. frames' \in Seq(FrameShape) /\ Len(frames') = Len(frames)
    BY <1>4, <1>5, ExceptSeq
  <1>7. frames'[n] = y /\ \A m \in 1..Len(frames) : m # n => frames'[m] = frames[m]
    BY <1>1, <1>5
  <1>8. QED BY <1>1, <1>4, <1>6, <1>7 DEF SameFrames

LEMMA SameAttempts ==
  ASSUME NEW n, SameFrames(n), NEW m \in 1..Len(frames), NEW j
  PROVE  /\ AttemptOf(j, frames'[m]) = AttemptOf(j, frames[m]) /\ frames'[m].id = frames[m].id
         /\ frames'[m].field = frames[m].field /\ frames'[m].kind = frames[m].kind
         /\ frames'[m].attempt = frames[m].attempt
  BY DEF SameFrames, AttemptOf

LEMMA AdmitsSame ==
  ASSUME NEW n, SameFrames(n), NEW j, NEW id, AdmitsAll(j, id)
  PROVE  AdmitsAll(j, id)'
  <1> SUFFICES ASSUME NEW m \in 1..Len(frames), frames'[m].id = id
               PROVE  Admits(j, frames'[m])
    BY DEF AdmitsAll, Admits, AttemptOf, Status, SameFrames
  <1>1. /\ AttemptOf(j, frames'[m]) = AttemptOf(j, frames[m]) /\ frames'[m].id = frames[m].id
        /\ frames'[m].field = frames[m].field /\ frames'[m].kind = frames[m].kind
        /\ frames'[m].attempt = frames[m].attempt
    BY SameAttempts
  <1>2. Admits(j, frames[m])
    BY <1>1 DEF AdmitsAll
  <1>3. CASE m # n
    BY <1>2, <1>3 DEF SameFrames
  <1>4. CASE m = n
    <2>1. frames[m].fate = "sent"
      BY <1>4 DEF SameFrames
    <2>2. Status(AttemptOf(j, frames[m])) \notin {"accepted", "rejected"}
      BY <1>2, <2>1 DEF Admits
    <2>3. QED BY <1>1, <1>2, <2>2 DEF Admits
  <1>5. QED BY <1>3, <1>4

LEMMA OnDiskSame ==
  ASSUME NEW n, SameFrames(n), NEW d, OnDisk(d)
  PROVE  OnDisk(d)'
  <1>1. ASSUME NEW id \in OpIds, d[id] # NoFile
        PROVE  AdmitsAll(d[id], id)'
    <2>1. PICK j : j = d[id]
      OBVIOUS
    <2>2. AdmitsAll(j, id)
      BY <1>1, <2>1 DEF OnDisk
    <2>3. AdmitsAll(j, id)'
      BY <2>2, AdmitsSame
    <2>4. QED BY <2>1, <2>3 DEF AdmitsAll
  <1>2. ASSUME NEW m \in 1..Len(frames')
        PROVE  d[frames'[m].id] # NoFile
    <2>1. m \in 1..Len(frames) /\ frames'[m].id = frames[m].id
      BY SameAttempts DEF SameFrames
    <2>2. QED BY <2>1 DEF OnDisk
  <1>3. QED BY <1>1, <1>2 DEF OnDisk

LEMMA CoreSame ==
  ASSUME NEW n, SameFrames(n), OpCore(op), UNCHANGED <<op, revision, heard>>
  PROVE  OpCore(op)'
  <1>1. OpShape(op)' /\ Placed(op)' /\ Sighted(op)' /\ Visiting(op)'
    BY DEF OpCore, OpShape, Placed, Sighted, Visiting, Expecting
  <1>2. Kept(op)'
    <2>1. PICK j : j = op.journal
      OBVIOUS
    <2>2. PICK id : id = op.id
      OBVIOUS
    <2>3. AdmitsAll(j, id) => AdmitsAll(j, id)'
      BY AdmitsSame
    <2>4. QED BY <2>1, <2>2, <2>3 DEF OpCore, Kept, Blank, AdmitsAll, JournalShape
  <1>3. \A m \in 1..Len(frames) :
           /\ AttemptOf(op.journal, frames'[m]) = AttemptOf(op.journal, frames[m])
           /\ frames'[m].id = frames[m].id
           /\ frames'[m].field = frames[m].field /\ frames'[m].kind = frames[m].kind
           /\ frames'[m].attempt = frames[m].attempt
    BY SameAttempts
  <1>4. Len(frames') = Len(frames) /\ Len(frames) \in Nat
    BY DEF SameFrames
  <1>5. Decided(op.journal, op.id) => Decided(op.journal, op.id)'
    BY <1>3, <1>4 DEF Decided, AttemptOf
  <1>6. Untouched(op) => Untouched(op)'
    BY <1>3, <1>4 DEF Untouched
  <1>7. Trying(op)' = Trying(op) /\ Aiming(op)' = Aiming(op)
    BY DEF Trying, Aiming
  <1>8. Aimed(op)'
    <2>1. Status(Attempt(op.journal, op.field, op.kind))' = Status(Attempt(op.journal, op.field, op.kind))
      BY DEF Status, Attempt
    <2>2. QED BY <1>5, <1>6, <1>7, <2>1 DEF OpCore, Aimed
  <1>9. \A m \in 1..Len(frames) : Current(op, frames'[m]) = Current(op, frames[m])
    BY <1>3 DEF Current
  <1>10. Awaiting(op)'
    <2>1. CASE op.pc # "wait"
      BY <2>1 DEF Awaiting
    <2>2. CASE op.pc = "wait"
      <3>1. /\ Trying(op) /\ Status(Attempt(op.journal, op.field, op.kind)) = "possible"
            /\ Current(op, frames[Len(frames)])
            /\ \A m \in 1..(Len(frames) - 1) : ~Current(op, frames[m])
        BY <2>2 DEF OpCore, Awaiting
      <3>2. n \in 1..Len(frames) /\ frames' \in Seq(FrameShape)
        BY DEF SameFrames
      <3>3. frames' # <<>> /\ Len(frames) \in 1..Len(frames) /\ 1..(Len(frames) - 1) \subseteq 1..Len(frames)
        <4>1. Len(<<>>) = 0
          OBVIOUS
        <4>2. frames' # <<>>
          BY <4>1, <3>2, <1>4
        <4>3. QED BY <4>2, <3>2, <1>4
      <3>4. Current(op, frames'[Len(frames)]) /\ \A m \in 1..(Len(frames) - 1) : ~Current(op, frames'[m])
        BY <3>1, <3>3, <1>9
      <3>5. QED BY <1>4, <1>7, <3>1, <3>3, <3>4 DEF Awaiting, Current, Attempt, Status
    <2>3. QED BY <2>1, <2>2
  <1>11. QED BY <1>1, <1>2, <1>8, <1>10 DEF OpCore

LEMMA ObsAnswersKeeps ==
  ASSUME PrepInv, NEW n \in 1..Len(frames), NEW fate \in {"applied", "refused", "lost"}, ObsAnswers(n, fate)
  PROVE  PrepInv' /\ Len(frames') = Len(frames)
  <1>1. Outer /\ Disk /\ OpInv(op) /\ frames \in Seq(FrameShape)
    BY DEF PrepInv, Outer
  <1>2. SameFrames(n)
    BY <1>1, FateDecided DEF ObsAnswers
  <1>3. UNCHANGED <<revision, heard, files, durable, poisoned, op>>
    BY DEF ObsAnswers
  <1>4. Outer'
    <2>1. frames[n] \in FrameShape
      BY <1>1, ElementOfSeq
    <2>2. frames[n].field \in Slots /\ frames[n].value \in Values
      BY <2>1, PreparationAssumption DEF FrameShape, Fields, Slots
    <2>3. obs' \in [Slots -> Values] /\ wire' \in Seq([slot : Slots, user : BOOLEAN])
      <3>1. CASE UNCHANGED <<obs, wire>>
        BY <3>1, <1>1 DEF Outer
      <3>2. CASE /\ obs' = [obs EXCEPT ![frames[n].field] = frames[n].value]
                 /\ wire' = Append(wire, [slot |-> frames[n].field, user |-> FALSE])
        <4>1. PICK e : e = [slot |-> frames[n].field, user |-> FALSE]
          OBVIOUS
        <4>2. e \in [slot : Slots, user : BOOLEAN]
          BY <4>1, <2>2
        <4>3. wire' = Append(wire, e)
          BY <3>2, <4>1
        <4>4. wire' \in Seq([slot : Slots, user : BOOLEAN])
          BY <4>2, <4>3, <1>1, AppendProperties DEF Outer
        <4>5. obs' \in [Slots -> Values]
          BY <3>2, <2>2, <1>1 DEF Outer
        <4>6. QED BY <4>4, <4>5
      <3>3. QED BY <3>1, <3>2 DEF ObsAnswers
    <2>4. QED BY <1>1, <1>2, <1>3, <2>3 DEF Outer, SameFrames
  <1>5. Disk'
    <2>1. PICK d : d = files
      OBVIOUS
    <2>2. PICK e : e = durable
      OBVIOUS
    <2>3. OnDisk(d)' /\ OnDisk(e)'
      BY <1>1, <1>2, <2>1, <2>2, OnDiskSame DEF Disk
    <2>4. QED BY <1>1, <1>3, <2>1, <2>2, <2>3 DEF Disk, OnDisk, AdmitsAll
  <1>6. OpInv(op)'
    <2>1. CASE op.pc = "idle"
      BY <2>1, <1>3 DEF OpInv
    <2>2. CASE OpCore(op) /\ Tied(op)
      <3>1. OpCore(op)'
        BY <2>2, <1>2, <1>3, CoreSame
      <3>2. Tied(op)'
        BY <2>2, <1>3 DEF Tied, Blank
      <3>3. QED BY <3>1, <3>2 DEF OpInv
    <2>3. QED BY <2>1, <2>2, <1>1 DEF OpInv
  <1>7. QED BY <1>2, <1>4, <1>5, <1>6 DEF PrepInv, SameFrames

LEMMA UserChangesKeeps ==
  ASSUME PrepInv, NEW slot \in Slots, NEW v \in {"u", "v"}, UserChanges(slot, v)
  PROVE  PrepInv'
  <1>1. Outer /\ Disk /\ OpInv(op)
    BY DEF PrepInv
  <1>2. /\ UNCHANGED <<revision, heard, files, durable, poisoned, op, frames>>
        /\ obs' = [obs EXCEPT ![slot] = v] /\ wire' = Append(wire, [slot |-> slot, user |-> TRUE])
    BY DEF UserChanges
  <1>3. Outer'
    <2>1. [slot |-> slot, user |-> TRUE] \in [slot : Slots, user : BOOLEAN]
      OBVIOUS
    <2>2. wire' \in Seq([slot : Slots, user : BOOLEAN])
      BY <1>1, <1>2, <2>1, AppendProperties DEF Outer
    <2>3. obs' \in [Slots -> Values]
      BY <1>1, <1>2 DEF Outer, Values
    <2>4. QED BY <1>1, <1>2, <2>2, <2>3 DEF Outer
  <1>4. Disk'
    BY <1>1, <1>2, DiskStays
  <1>5. OpInv(op)'
    BY <1>1, <1>2, CoreStays DEF OpInv, Tied, Blank
  <1>6. QED BY <1>3, <1>4, <1>5 DEF PrepInv

\* An announcement makes every earlier sample and fence stale.
LEMMA AnnounceKeeps ==
  ASSUME PrepInv, Announce
  PROVE  PrepInv'
  <1>1. Outer /\ Disk /\ OpInv(op) /\ revision \in Nat
    BY DEF PrepInv, Outer
  <1>2. /\ UNCHANGED <<obs, files, durable, poisoned, op, frames>> /\ revision' = revision + 1
        /\ wire # <<>> /\ wire' = Tail(wire)
        /\ heard' = IF Head(wire).user THEN heard \union {Head(wire).slot} ELSE heard
    BY DEF Announce
  <1>3. Outer'
    <2>1. wire \in Seq([slot : Slots, user : BOOLEAN])
      BY <1>1 DEF Outer
    <2>2. Head(wire) \in [slot : Slots, user : BOOLEAN] /\ wire' \in Seq([slot : Slots, user : BOOLEAN])
      BY <2>1, <1>2, HeadTailProperties
    <2>3. heard' \subseteq Slots
      BY <1>1, <1>2, <2>2 DEF Outer
    <2>4. QED BY <1>1, <1>2, <2>2, <2>3 DEF Outer
  <1>4. Disk'
    BY <1>1, <1>2, DiskStays
  <1>5. ASSUME OpCore(op)
        PROVE  OpCore(op)'
    <2>1. OpShape(op)' /\ op.base < revision' /\ op.fence < revision'
      BY <1>1, <1>2, <1>5 DEF OpCore, OpShape
    <2>2. op.base \in Nat /\ op.fence \in Nat
      BY <1>5 DEF OpCore, OpShape
    <2>3. op'.base # revision' /\ op'.fence # revision'
      BY <1>1, <1>2, <2>1, <2>2
    <2>4. Sighted(op)'
      BY <2>3 DEF Sighted
    <2>5. Placed(op)' /\ Kept(op)' /\ Awaiting(op)' /\ Visiting(op)'
      BY <1>2, <1>5 DEF OpCore, Placed, Kept, AdmitsAll, Awaiting, Visiting, Blank, Trying, Attempt,
                        Current, Expecting
    <2>6. Aimed(op)'
      BY <1>2, <1>5, <2>3 DEF OpCore, Aimed, Aiming, Decided, Untouched, Trying, Attempt
    <2>7. QED BY <2>1, <2>4, <2>5, <2>6 DEF OpCore
  <1>6. OpInv(op)'
    BY <1>1, <1>2, <1>5 DEF OpInv, Tied, Blank
  <1>7. QED BY <1>3, <1>4, <1>6 DEF PrepInv

\* The process dies, and a rename that was not synced with it.
LEMMA PrepCrashKeeps ==
  ASSUME PrepInv, NEW kept \in BOOLEAN, PrepCrash(kept)
  PROVE  PrepInv'
  <1>1. Outer /\ Disk
    BY DEF PrepInv
  <1>2. /\ UNCHANGED <<obs, wire, revision, frames>> /\ op' = Idle /\ heard' = {} /\ poisoned' = {}
        /\ files' = (IF kept THEN files ELSE durable) /\ durable' = files'
    BY DEF PrepCrash
  <1>3. Outer'
    BY <1>1, <1>2 DEF Outer
  <1>4. OnDisk(files)' /\ OnDisk(durable)'
    <2>1. CASE files' = files
      BY <2>1, <1>1, <1>2 DEF Disk, OnDisk, AdmitsAll
    <2>2. CASE files' = durable
      BY <2>2, <1>1, <1>2 DEF Disk, OnDisk, AdmitsAll
    <2>3. QED BY <1>2, <2>1, <2>2
  <1>5. Disk'
    BY <1>2, <1>4 DEF Disk
  <1>6. QED BY <1>2, <1>3, <1>5 DEF PrepInv, OpInv, Idle

LEMMA PrepStarts ==
  ASSUME PrepInit
  PROVE  PrepInv
  <1>1. /\ obs \in [Slots -> Values] /\ durable = files /\ poisoned = {} /\ op = Idle /\ frames = <<>>
        /\ wire = <<>> /\ revision = 0 /\ heard = {}
    BY DEF PrepInit
  <1>2. Len(frames) = 0
    BY <1>1
  <1>3. Outer
    BY <1>1, EmptySeq DEF Outer
  <1>4. OnDisk(files)
    <2>1. CASE files = [id \in OpIds |-> NoFile]
      BY <2>1, <1>2 DEF OnDisk
    <2>2. ASSUME NEW attempted \in BOOLEAN,
                 files = [id \in OpIds |-> IF id # 1 THEN NoFile
                          ELSE [NewJournal([s \in Slots |-> "u"]) EXCEPT !.version = 1,
                                                                  !.attempted = attempted]]
          PROVE  OnDisk(files)
      <3>1. PICK j : j = [NewJournal([s \in Slots |-> "u"]) EXCEPT !.version = 1, !.attempted = attempted]
        OBVIOUS
      <3>2. /\ DOMAIN j = JournalFields /\ j.before = [s \in Slots |-> "u"]
            /\ j.changes = {f \in Fields : [s \in Slots |-> "u"][f] # "t"}
            /\ j.prep = [f \in Fields |-> <<>>] /\ j.rec = [f \in Fields |-> <<>>] /\ j.completed = FALSE
        BY <3>1 DEF NewJournal, JournalFields
      <3>3. JournalShape(j)
        <4>1. <<>> \in Seq(StepNames) /\ <<>> \in Seq(Seq(StepNames))
          BY EmptySeq
        <4>2. "u" \in Values
          BY DEF Values
        <4>3. QED BY <3>2, <4>1, <4>2 DEF JournalShape
      <3>4. Validate(j)
        <4>1. \A f \in j.changes : j.prep[f] = <<>> /\ j.rec[f] = <<>>
          BY <3>2
        <4>2. QED BY <3>2, <4>1 DEF Validate
      <3>5. \A id \in OpIds : files[id] = NoFile \/ files[id] = j
        BY <2>2, <3>1
      <3>6. DOMAIN files = OpIds
        BY <2>2
      <3>7. QED BY <3>3, <3>4, <3>5, <3>6, <1>2 DEF OnDisk, AdmitsAll
    <2>3. QED BY <2>1, <2>2 DEF PrepInit
  <1>5. Disk
    BY <1>1, <1>4 DEF Disk
  <1>6. QED BY <1>1, <1>3, <1>5 DEF PrepInv, OpInv, Idle

\* The grounds of a frame, as RecoveryTouchesOnlyItsOwn asks for them.
FrameGrounded ==
    Len(frames') > Len(frames) =>
        LET x == Last(frames')
            j == durable[x.id]
        IN /\ heard = {}
           /\ Status(AttemptOf(j, x)) = "possible"
           /\ x.kind = "recover" => OwnsRestore(j, x.field) /\ op.sample[x.field] = "t"
           /\ \A n \in 1..Len(frames) : frames[n].id = x.id =>
                  /\ Status(AttemptOf(j, frames[n])) \notin Doubtful
                  /\ x.kind = "prepare" => frames[n].field # x.field

LEMMA SendGrounded ==
  ASSUME PrepInv, NEW refused \in BOOLEAN, Send(refused)
  PROVE  FrameGrounded
  <1>0. op.pc = "send" /\ frames \in Seq(FrameShape)
    BY DEF Send, PrepInv, Outer
  <1>1. CASE frames' = frames
    <2>1. Len(frames) \in Nat
      BY <1>0, LenProperties
    <2>2. ~(Len(frames') > Len(frames))
      BY <1>1, <2>1
    <2>3. QED BY <2>2 DEF FrameGrounded
  <1>2. ASSUME NEW x \in FrameShape,
               Last(frames') = x, x.id = op.id, x.field = op.field, x.kind = op.kind,
               op.fence = revision, Status(AttemptOf(op.journal, x)) = "possible"
        PROVE  FrameGrounded
    <2>1. /\ Trying(op) /\ Decided(op.journal, op.id) /\ heard = {}
          /\ op.kind = "recover" => op.sample[op.field] = "t"
          /\ op.kind = "prepare" => Untouched(op)
          /\ durable[op.id] = op.journal
      BY <1>0, <1>2, SendKnows
    <2>2. QED BY <1>2, <2>1 DEF FrameGrounded, Trying, Decided, Untouched
  <1>3. QED BY <1>1, <1>2, SendKeeps

\* A step that leaves no frame.
LEMMA NoFrame ==
  ASSUME PrepInv, Len(frames') = Len(frames)
  PROVE  FrameGrounded
  <1>1. Len(frames) \in Nat
    BY LenProperties DEF PrepInv, Outer
  <1>2. QED BY <1>1 DEF FrameGrounded

\* Every step of the preparation, of OBS, of its user and of the process.
LEMMA PrepSteps ==
  ASSUME PrepInv, PrepNext
  PROVE  PrepInv' /\ FrameGrounded
  <1>1. CASE \E apply \in BOOLEAN : Prepare(apply) \/ \E id \in OpIds : Recover(id, apply)
    <2>1. UNCHANGED frames
      BY <1>1 DEF Prepare, Recover
    <2>2. QED BY <1>1, <2>1, CallsKeep, NoFrame
  <1>2. CASE ReadSlot
    BY <1>2, ReadSlotKeeps, NoFrame DEF ReadSlot
  <1>3. CASE SampleTaken
    BY <1>3, SampleKeeps, NoFrame DEF SampleTaken
  <1>4. CASE Snapshot
    BY <1>4, SnapshotKeeps, NoFrame DEF Snapshot
  <1>5. CASE Visit
    BY <1>5, VisitKeeps, NoFrame DEF Visit
  <1>6. CASE Begin
    BY <1>6, IntentKeeps, NoFrame DEF Begin
  <1>7. CASE OpFails
    BY <1>7, OpFailsKeeps, NoFrame DEF OpFails
  <1>8. CASE \E outcome \in {"unavailable", "doubtful", "published"} : Persist(outcome)
    BY <1>8, PersistKeeps, NoFrame DEF Persist
  <1>9. CASE \E refused \in BOOLEAN : Send(refused)
    BY <1>9, SendKeeps, SendGrounded
  <1>10. CASE \E step \in {"accepted", "rejected", "unknown"} : Answer(step)
    BY <1>10, AnswerKeeps, NoFrame DEF Answer
  <1>11. CASE \E n \in 1..Len(frames), fate \in {"applied", "refused", "lost"} : ObsAnswers(n, fate)
    BY <1>11, ObsAnswersKeeps, NoFrame
  <1>12. CASE \E slot \in Slots, v \in {"u", "v"} : UserChanges(slot, v)
    BY <1>12, UserChangesKeeps, NoFrame DEF UserChanges
  <1>13. CASE Announce
    BY <1>13, AnnounceKeeps, NoFrame DEF Announce
  <1>14. CASE \E kept \in BOOLEAN : PrepCrash(kept)
    BY <1>14, PrepCrashKeeps, NoFrame DEF PrepCrash
  <1>15. QED BY <1>1, <1>2, <1>3, <1>4, <1>5, <1>6, <1>7, <1>8, <1>9, <1>10, <1>11, <1>12, <1>13, <1>14
             DEF PrepNext

\* A step of another part.
LEMMA PrepRests ==
  ASSUME PrepInv, UNCHANGED prepVars
  PROVE  PrepInv' /\ FrameGrounded
  <1>1. UNCHANGED <<obs, wire, revision, heard, files, durable, poisoned, op, frames>>
    BY DEF prepVars
  <1>2. OpInv(op')
    BY <1>1 DEF PrepInv
  <1>3. QED BY <1>1, <1>2, OpStays, NoFrame

LEMMA PrepTyped ==
  ASSUME PrepInv
  PROVE  PrepTypeOK
  BY DEF PrepInv, Outer, Disk, OnDisk, OpInv, OpCore, Placed, PrepTypeOK

LEMMA PrepHonest ==
  ASSUME PrepInv
  PROVE  JournalIsHonest
  <1> SUFFICES ASSUME NEW n \in 1..Len(frames)
               PROVE  LET x == frames[n]
                          j == durable[x.id]
                      IN /\ j # NoFile /\ (x.kind = "prepare" \/ x.attempt <= Len(j.rec[x.field]))
                         /\ Status(AttemptOf(j, x)) \in {"possible", "accepted", "rejected", "unknown"}
                         /\ Status(AttemptOf(j, x)) = "accepted" => x.fate = "applied"
                         /\ Status(AttemptOf(j, x)) = "rejected" => x.fate = "refused"
    BY DEF JournalIsHonest
  <1>1. frames \in Seq(FrameShape) /\ OnDisk(durable)
    BY DEF PrepInv, Outer, Disk
  <1>2. PICK x : x = frames[n]
    OBVIOUS
  <1>3. x \in FrameShape
    BY <1>1, <1>2, ElementOfSeq
  <1>4. x.id \in OpIds /\ x.kind \in {"prepare", "recover"}
    BY <1>3 DEF FrameShape
  <1>5. durable[x.id] # NoFile
    BY <1>1, <1>2 DEF OnDisk
  <1>6. AdmitsAll(durable[x.id], x.id)
    BY <1>1, <1>4, <1>5 DEF OnDisk
  <1>7. Admits(durable[x.id], x)
    BY <1>2, <1>6 DEF AdmitsAll
  <1>8. QED BY <1>2, <1>4, <1>5, <1>7 DEF Admits

-----------------------------------------------------------------------------
(* The receipts of the scene workflows.                                    *)

IsSeq(s) == \E S : s \in Seq(S)
StageFields == {"n", "phase", "counts"}
ReceiptFields == {"kind", "phase", "active", "stages"}
ReceiptShape(r) ==
    /\ DOMAIN r = ReceiptFields /\ r.kind \in {"apply", "capture", "restore"}
    /\ IsSeq(r.stages) /\ Len(r.stages) >= 1
    /\ \A i \in 1..Len(r.stages) : DOMAIN r.stages[i] = StageFields
    /\ r.phase = "dispatching" => r.active \in 1..Len(r.stages)
SentFields == {"id", "stage", "effects", "halt", "fate", "rows", "uuid"}
\* The receipt r tells the truth about the frame x.
Tells(r, x) ==
    /\ r # NoReceipt /\ x.stage \in 1..Len(r.stages)
    /\ r.stages[x.stage].phase \in {"dispatching", "acknowledged", "unknown"}
    /\ r.stages[x.stage].phase = "acknowledged" =>
          x.fate = "done" /\ r.stages[x.stage].counts = CountsOf(x.rows, Len(x.effects))
    /\ x.fate = "sent" => Blocking(r)
SentShape(x) == DOMAIN x = SentFields /\ x.id \in 1..Len(receipts) /\ Tells(receipts[x.id], x)
Store ==
    /\ IsSeq(receipts) /\ IsSeq(sent)
    /\ \A i \in 1..Len(receipts) : receipts[i] # NoReceipt => ReceiptShape(receipts[i])
    /\ \A n \in 1..Len(sent) : SentShape(sent[n])
\* What is left to run.
Script ==
    /\ "runs" \in DOMAIN script /\ IsSeq(script.runs)
    /\ \A i \in 1..Len(script.runs) : script.runs[i].kind \in WorkflowKinds

FlowFields == {"pc", "req", "kind", "id", "parts", "sample", "stamp", "strict", "then", "tries",
               "original", "expected", "snap", "effects", "stage", "receipt", "update", "facts",
               "quiet", "result"}
\* The stages that a workflow has, and what it reads for.
Most(kind) == IF kind = "restore" THEN 1 ELSE IF kind = "apply" THEN 2 ELSE IF kind = "capture" THEN 3 ELSE 0
Reads(kind) ==
    IF kind = "restore" THEN {"plan"} ELSE IF kind = "snapshot" THEN {"save"}
    ELSE IF kind = "apply" THEN {"first", "second", "final", "save"}
    ELSE {"discover", "confirm", "snap", "recheck", "begin", "rebind", "audio", "fit", "captured"}
Early == {"plan", "first", "save", "discover", "confirm", "snap", "recheck", "begin"}
Shaped(o) ==
    /\ DOMAIN o = FlowFields /\ o.kind \in WorkflowKinds /\ o.stage \in 0..Most(o.kind)
    /\ o.receipt = NoReceipt \/ (ReceiptShape(o.receipt) /\ o.receipt.kind = o.kind)
\* No frame of the workflow is on its way, and none is of a later stage.
Calm(o) == \A n \in 1..Len(sent) : sent[n].id = o.id => sent[n].stage <= o.stage /\ sent[n].fate # "sent"
Ahead(o) == \A n \in 1..Len(sent) : sent[n].id = o.id => sent[n].stage < o.stage
\* The last frame is the one of the current stage.
LastMine(o) ==
    /\ sent # <<>> /\ sent[Len(sent)].id = o.id /\ sent[Len(sent)].stage = o.stage
    /\ sent[Len(sent)].effects = o.effects
    /\ \A n \in 1..(Len(sent) - 1) : sent[n].id = o.id => sent[n].stage < o.stage /\ sent[n].fate # "sent"
Reckoned(o) ==
    /\ sent[Len(sent)].fate = "done"
    /\ o.update.counts = CountsOf(sent[Len(sent)].rows, Len(sent[Len(sent)].effects))
InFlight(o) ==
    /\ o.receipt # NoReceipt /\ o.receipt.phase = "dispatching" /\ o.receipt.active = o.stage
    /\ o.receipt.stages[o.stage].phase = "dispatching"
\* Where a workflow may be with which stages behind it.
Where(o, then) ==
    /\ then \in Reads(o.kind)
    /\ then \in Early => o.stage = 0
    /\ then \in {"second", "rebind", "audio"} => o.stage <= 1
    /\ then = "fit" => o.stage <= 2
    /\ then \in {"second", "rebind", "audio", "fit"} => o.receipt # NoReceipt
Settling(o) ==
    /\ o.then = "settled" /\ InFlight(o)
    /\ \/ o.update.what = "notdispatched" /\ Calm(o) /\ Ahead(o)
       \/ o.update.what = "unknown" /\ LastMine(o)
       \/ o.update.what = "acknowledged" /\ LastMine(o) /\ Reckoned(o)
Opening(o) ==
    /\ Calm(o)
    /\ \/ o.then = "begun" /\ o.update.what = "prepare" /\ o.stage = 0
       \/ o.then = "ready" /\ o.update.what = "ready" /\ o.stage = 0 /\ o.kind = "apply"
       \/ o.then = "closed" /\ o.update.what = "close" /\ o.kind = "apply"
       \/ o.then = "end" /\ o.update.what \in {"close", "abort"}
       \/ o.then = "send" /\ o.update.what = "dispatch" /\ o.update.stage = o.stage /\ o.stage > 0 /\ Ahead(o)
FlowCore(o) ==
    /\ Shaped(o) /\ o.pc \in {"read", "stamp", "save", "publish", "send", "wait"}
    /\ o.pc \in {"read", "stamp"} => Calm(o) /\ Where(o, o.then)
    /\ o.pc = "save" => Calm(o) /\ o.stage = 0 /\ o.kind # "restore"
    /\ o.pc = "publish" => o.receipt # NoReceipt /\ (Opening(o) \/ Settling(o))
    /\ o.pc = "send" => InFlight(o) /\ Calm(o) /\ Ahead(o)
    /\ o.pc = "wait" => InFlight(o) /\ LastMine(o)
\* While a frame leaves, its receipt is the one on disk.
Own(o) == o.id \in 1..Len(receipts) /\ (o.pc \in {"send", "wait"} => receipts[o.id] = o.receipt)
FlowInv(o) == o.pc = "idle" \/ (FlowCore(o) /\ Own(o))
WorkInv == Script /\ Store /\ FlowInv(flow)

-----------------------------------------------------------------------------
\* Sequences of any kind.
LEMMA SeqBasics ==
  ASSUME NEW s, IsSeq(s)
  PROVE  Len(s) \in Nat /\ DOMAIN s = 1..Len(s) /\ (s # <<>> => Len(s) \in Nat \ {0})
  <1>1. PICK S : s \in Seq(S)
    BY DEF IsSeq
  <1>2. QED BY <1>1, LenProperties, EmptySeq

\* One place of a sequence changes.
SeqPut(s, t, i, e) ==
    IsSeq(t) /\ Len(t) = Len(s) /\ t[i] = e /\ \A j \in 1..Len(s) : j # i => t[j] = s[j]
LEMMA SeqSet ==
  ASSUME NEW s, IsSeq(s), NEW i \in 1..Len(s), NEW e, NEW t, t = [s EXCEPT ![i] = e]
  PROVE  SeqPut(s, t, i, e)
  <1>1. PICK S : s \in Seq(S)
    BY DEF IsSeq
  <1>2. s \in Seq(S \union {e})
    BY <1>1, SeqMonotonic
  <1>3. /\ t \in Seq(S \union {e}) /\ Len(t) = Len(s)
        /\ \A j \in 1..Len(s) : t[j] = IF j = i THEN e ELSE s[j]
    BY <1>2, ExceptSeq
  <1>4. QED BY <1>3 DEF SeqPut, IsSeq

\* A sequence grows.
SeqGrow(s, t, e) ==
    /\ IsSeq(t) /\ Len(s) \in Nat /\ Len(t) = Len(s) + 1 /\ t[Len(s) + 1] = e
    /\ t # <<>> /\ Last(t) = e /\ \A j \in 1..Len(s) : t[j] = s[j]
LEMMA SeqAdd ==
  ASSUME NEW s, IsSeq(s), NEW e, NEW t, t = Append(s, e)
  PROVE  SeqGrow(s, t, e)
  <1>1. PICK S : s \in Seq(S)
    BY DEF IsSeq
  <1>2. s \in Seq(S \union {e})
    BY <1>1, SeqMonotonic
  <1>3. /\ t \in Seq(S \union {e}) /\ Len(s) \in Nat /\ Len(t) = Len(s) + 1 /\ t # <<>>
        /\ t[Len(s) + 1] = e /\ \A j \in 1..Len(s) : t[j] = s[j]
    BY <1>2, AppendProperties, LenProperties
  <1>4. QED BY <1>3 DEF SeqGrow, IsSeq, Last

\* A sequence that is given place by place.
LEMMA SeqMade ==
  ASSUME NEW n \in Nat, NEW t, DOMAIN t = 1..n, t = [i \in 1..n |-> t[i]]
  PROVE  IsSeq(t) /\ Len(t) = n
  <1> DEFINE S == {t[i] : i \in 1..n}
  <1>1. t \in [1..n -> S]
    OBVIOUS
  <1>2. t \in Seq(S)
    BY <1>1, SeqDef
  <1>3. Len(t) \in Nat /\ DOMAIN t = 1..Len(t)
    BY <1>2, LenProperties
  <1>4. Len(t) = n
    <2>1. PICK m : m = Len(t)
      OBVIOUS
    <2>2. m \in Nat /\ 1..m = 1..n
      BY <1>3, <2>1
    <2>3. ~(m < n)
      <3>1. m < n => n \in 1..n /\ n \notin 1..m
        BY <2>2
      <3>2. QED BY <2>2, <3>1
    <2>4. ~(n < m)
      <3>1. n < m => m \in 1..m /\ m \notin 1..n
        BY <2>2
      <3>2. QED BY <2>2, <3>1
    <2>5. QED BY <2>1, <2>2, <2>3, <2>4
  <1>5. QED BY <1>2, <1>4 DEF IsSeq

\* A stage of a receipt with another phase.
LEMMA StageIsSet ==
  ASSUME NEW s, DOMAIN s = StageFields, NEW phase, NEW counts
  PROVE  /\ DOMAIN StageSet(s, phase, counts) = StageFields
         /\ StageSet(s, phase, counts).phase = phase /\ StageSet(s, phase, counts).counts = counts
  BY DEF StageSet, StageFields

\* What an update makes of a stage, and of a receipt.
StageMoves(r, new, u, i) ==
    \/ new.stages[i] = r.stages[i] \/ new.stages[i].phase = "dispatching" \/ r.stages[i].phase = "prepared"
    \/ /\ i = r.active /\ r.phase = "dispatching" /\ u.what \in Ended /\ new.stages[i].phase = u.what
       /\ u.what = "acknowledged" => new.stages[i].counts = u.counts
Sends(new, u) ==
    /\ new.phase = "dispatching" /\ new.active = u.stage /\ u.stage \in 1..Len(new.stages)
    /\ new.stages[u.stage].phase = "dispatching"
Moves(r, new, u) ==
    /\ ReceiptShape(new) /\ new.kind = r.kind /\ Len(new.stages) >= Len(r.stages)
    /\ \A i \in 1..Len(r.stages) : StageMoves(r, new, u, i)
    /\ u.what = "unknown" => new.phase = "unknown"
    /\ u.what = "dispatch" => Sends(new, u)

LEMMA PhaseMoves ==
  ASSUME NEW r, ReceiptShape(r), NEW u, u.what \notin {"unknown", "dispatch"}, NEW phase, phase # "dispatching",
         NEW new, new = [r EXCEPT !.phase = phase]
  PROVE  Moves(r, new, u)
  <1>1. DOMAIN r = ReceiptFields
    BY DEF ReceiptShape
  <1>2. /\ DOMAIN new = ReceiptFields /\ new.kind = r.kind /\ new.active = r.active /\ new.stages = r.stages
        /\ new.phase = phase
    BY <1>1 DEF ReceiptFields
  <1>3. ReceiptShape(new)
    BY <1>2 DEF ReceiptShape
  <1>4. Len(r.stages) \in Nat
    BY SeqBasics DEF ReceiptShape
  <1>5. QED BY <1>2, <1>3, <1>4 DEF Moves, StageMoves

LEMMA DispatchedMoves ==
  ASSUME NEW r, ReceiptShape(r), NEW u, u.what = "dispatch", NEW k \in 1..Len(r.stages), u.stage = k,
         NEW new, new = Dispatched(r, k)
  PROVE  Moves(r, new, u)
  <1>1. DOMAIN r = ReceiptFields /\ IsSeq(r.stages) /\ DOMAIN r.stages[k] = StageFields
    BY DEF ReceiptShape
  <1>2. PICK e : e = StageSet(r.stages[k], "dispatching", NoCounts)
    OBVIOUS
  <1>3. DOMAIN e = StageFields /\ e.phase = "dispatching"
    BY <1>1, <1>2, StageIsSet
  <1>4. PICK s : s = [r.stages EXCEPT ![k] = e]
    OBVIOUS
  <1>5. new = [r EXCEPT !.phase = "dispatching", !.active = k, !.stages = s]
    BY <1>1, <1>2, <1>4 DEF Dispatched, ReceiptFields
  <1>6. /\ DOMAIN new = ReceiptFields /\ new.kind = r.kind /\ new.active = k /\ new.stages = s
        /\ new.phase = "dispatching"
    BY <1>1, <1>5 DEF ReceiptFields
  <1>7. SeqPut(r.stages, s, k, e)
    BY <1>1, <1>4, SeqSet
  <1>8. IsSeq(s) /\ Len(s) = Len(r.stages) /\ s[k] = e /\ \A j \in 1..Len(r.stages) : j # k => s[j] = r.stages[j]
    BY <1>7 DEF SeqPut
  <1>9. ReceiptShape(new)
    BY <1>3, <1>6, <1>8 DEF ReceiptShape
  <1>10. \A i \in 1..Len(r.stages) : StageMoves(r, new, u, i)
    BY <1>3, <1>6, <1>8 DEF StageMoves
  <1>11. Sends(new, u)
    BY <1>3, <1>6, <1>8 DEF Sends
  <1>12. Len(r.stages) \in Nat
    BY <1>1, SeqBasics
  <1>13. QED BY <1>6, <1>8, <1>9, <1>10, <1>11, <1>12 DEF Moves

\* The stage that was dispatching is settled.
Settles(r, u, phase, counts) ==
    /\ r.phase = "dispatching" /\ u.what \in Ended /\ phase # "dispatching"
    /\ u.what = "unknown" => phase = "unknown"
    /\ u.what = "acknowledged" => counts = u.counts
LEMMA ActiveMoves ==
  ASSUME NEW r, ReceiptShape(r), NEW u, NEW phase, NEW counts, Settles(r, u, phase, counts)
  PROVE  /\ Moves(r, Active(r, phase, u.what, counts), u) /\ Active(r, phase, u.what, counts).phase = phase
         /\ Len(Active(r, phase, u.what, counts).stages) = Len(r.stages)
  <1> DEFINE k == r.active
  <1>0. /\ r.phase = "dispatching" /\ u.what \in Ended /\ phase # "dispatching"
        /\ u.what = "unknown" => phase = "unknown"
        /\ u.what = "acknowledged" => counts = u.counts
    BY DEF Settles
  <1>a. PICK new : new = Active(r, phase, u.what, counts)
    OBVIOUS
  <1>1. /\ DOMAIN r = ReceiptFields /\ IsSeq(r.stages) /\ k \in 1..Len(r.stages)
        /\ DOMAIN r.stages[k] = StageFields
    BY <1>0 DEF ReceiptShape
  <1>2. PICK e : e = StageSet(r.stages[k], u.what, counts)
    OBVIOUS
  <1>3. DOMAIN e = StageFields /\ e.phase = u.what /\ e.counts = counts
    BY <1>1, <1>2, StageIsSet
  <1>4. PICK s : s = [r.stages EXCEPT ![k] = e]
    OBVIOUS
  <1>5. new = [r EXCEPT !.phase = phase, !.active = 0, !.stages = s]
    BY <1>a, <1>1, <1>2, <1>4 DEF Active, ReceiptFields
  <1>6. /\ DOMAIN new = ReceiptFields /\ new.kind = r.kind /\ new.stages = s /\ new.phase = phase
    BY <1>1, <1>5 DEF ReceiptFields
  <1>7. SeqPut(r.stages, s, k, e)
    BY <1>1, <1>4, SeqSet
  <1>8. IsSeq(s) /\ Len(s) = Len(r.stages) /\ s[k] = e /\ \A j \in 1..Len(r.stages) : j # k => s[j] = r.stages[j]
    BY <1>7 DEF SeqPut
  <1>9. ReceiptShape(new)
    BY <1>0, <1>3, <1>6, <1>8 DEF ReceiptShape
  <1>10. \A i \in 1..Len(r.stages) : StageMoves(r, new, u, i)
    BY <1>0, <1>3, <1>6, <1>8 DEF StageMoves
  <1>11. Len(r.stages) \in Nat /\ u.what # "dispatch"
    BY <1>0, <1>1, SeqBasics DEF Ended
  <1>12. QED BY <1>0, <1>a, <1>6, <1>8, <1>9, <1>10, <1>11 DEF Moves

\* The steps that will not be tried any more.
LEMMA AbandonedMoves ==
  ASSUME NEW r, NEW m, NEW u, Moves(r, m, u), m.phase # "dispatching", u.what # "dispatch",
         Len(m.stages) = Len(r.stages), NEW new, new = Abandoned(m)
  PROVE  Moves(r, new, u)
  <1>1. DOMAIN m = ReceiptFields /\ IsSeq(m.stages) /\ Len(m.stages) \in Nat
    BY SeqBasics DEF Moves, ReceiptShape
  <1>2. PICK s : s = [i \in 1..Len(m.stages) |->
                        IF i \in Remaining(m) THEN StageSet(m.stages[i], "notdispatched", NoCounts)
                        ELSE m.stages[i]]
    OBVIOUS
  <1>3. new = [m EXCEPT !.stages = s]
    BY <1>1, <1>2 DEF Abandoned, ReceiptFields
  <1>4. /\ DOMAIN new = ReceiptFields /\ new.kind = m.kind /\ new.stages = s /\ new.phase = m.phase
    BY <1>1, <1>3 DEF ReceiptFields
  <1>5. DOMAIN s = 1..Len(m.stages) /\ s = [i \in 1..Len(m.stages) |-> s[i]]
    BY <1>2
  <1>6. IsSeq(s) /\ Len(s) = Len(m.stages)
    BY <1>1, <1>5, SeqMade
  <1>7. \A i \in 1..Len(m.stages) : DOMAIN s[i] = StageFields
    <2>1. ASSUME NEW i \in 1..Len(m.stages)
          PROVE  DOMAIN s[i] = StageFields
      <3>1. DOMAIN m.stages[i] = StageFields
        BY DEF Moves, ReceiptShape
      <3>2. DOMAIN StageSet(m.stages[i], "notdispatched", NoCounts) = StageFields
        BY <3>1, StageIsSet
      <3>3. s[i] = StageSet(m.stages[i], "notdispatched", NoCounts) \/ s[i] = m.stages[i]
        BY <1>2
      <3>4. QED BY <3>1, <3>2, <3>3
    <2>2. QED BY <2>1
  <1>8. ReceiptShape(new)
    BY <1>4, <1>6, <1>7 DEF Moves, ReceiptShape
  <1>9. ASSUME NEW i \in 1..Len(r.stages)
        PROVE  StageMoves(r, new, u, i)
    <2>1. StageMoves(r, m, u, i)
      BY DEF Moves
    <2>2. CASE i \in Remaining(m)
      <3>1. m.stages[i].phase = "prepared"
        BY <2>2 DEF Remaining
      <3>2. r.stages[i].phase = "prepared"
        BY <2>1, <3>1 DEF StageMoves, Ended
      <3>3. QED BY <3>2 DEF StageMoves
    <2>3. CASE i \notin Remaining(m)
      <3>1. new.stages[i] = m.stages[i]
        BY <2>3, <1>2, <1>4
      <3>2. QED BY <2>1, <3>1 DEF StageMoves
    <2>4. QED BY <2>2, <2>3
  <1>10. QED BY <1>1, <1>4, <1>6, <1>8, <1>9 DEF Moves

\* One more stage.
LEMMA StageAdded ==
  ASSUME NEW r, ReceiptShape(r), NEW n, NEW p, p = [r EXCEPT !.stages = Append(@, StageNew(n))],
         r.phase # "dispatching"
  PROVE  /\ ReceiptShape(p) /\ p.kind = r.kind /\ p.phase = r.phase /\ Len(p.stages) = Len(r.stages) + 1
         /\ Len(r.stages) \in Nat /\ \A i \in 1..Len(r.stages) : p.stages[i] = r.stages[i]
  <1>1. DOMAIN r = ReceiptFields /\ IsSeq(r.stages)
    BY DEF ReceiptShape
  <1>2. PICK e : e = StageNew(n)
    OBVIOUS
  <1>3. DOMAIN e = StageFields
    BY <1>2 DEF StageNew, StageFields
  <1>4. PICK s : s = Append(r.stages, e)
    OBVIOUS
  <1>5. /\ DOMAIN p = ReceiptFields /\ p.kind = r.kind /\ p.phase = r.phase /\ p.stages = s
    BY <1>1, <1>2, <1>4 DEF ReceiptFields
  <1>6. SeqGrow(r.stages, s, e)
    BY <1>1, <1>4, SeqAdd
  <1>7. /\ IsSeq(s) /\ Len(r.stages) \in Nat /\ Len(s) = Len(r.stages) + 1 /\ s[Len(r.stages) + 1] = e
        /\ \A j \in 1..Len(r.stages) : s[j] = r.stages[j]
    BY <1>6 DEF SeqGrow
  <1>8. \A i \in 1..Len(s) : i \in 1..Len(r.stages) \/ i = Len(r.stages) + 1
    BY <1>7
  <1>9. \A i \in 1..Len(s) : DOMAIN s[i] = StageFields
    BY <1>3, <1>7, <1>8 DEF ReceiptShape
  <1>10. Len(s) >= 1 /\ r.kind \in {"apply", "capture", "restore"}
    BY <1>7 DEF ReceiptShape
  <1>11. ReceiptShape(p)
    BY <1>5, <1>7, <1>9, <1>10 DEF ReceiptShape
  <1>12. QED BY <1>5, <1>7, <1>11

\* The updates of the three owners.
LEMMA RestoreMoves ==
  ASSUME NEW r, ReceiptShape(r), NEW u, u.what = "dispatch" => u.stage = 1,
         NEW new, new = RestoreUpdated(r, u), new # NoReceipt
  PROVE  Moves(r, new, u)
  <1>1. CASE u.what = "dispatch" /\ r.phase = "prepared"
    <2>1. new = Dispatched(r, 1)
      BY <1>1 DEF RestoreUpdated, Ended
    <2>2. 1 \in 1..Len(r.stages)
      BY SeqBasics DEF ReceiptShape
    <2>3. QED BY <1>1, <2>1, <2>2, DispatchedMoves
  <1>2. CASE u.what \in Ended /\ r.phase = "dispatching"
    <2>1. new = Active(r, u.what, u.what, u.counts) /\ u.what # "dispatching"
      BY <1>2 DEF RestoreUpdated, Ended
    <2>2. Settles(r, u, u.what, u.counts)
      BY <1>2, <2>1 DEF Settles
    <2>3. QED BY <2>1, <2>2, ActiveMoves
  <1>3. CASE u.what = "notdispatched" /\ r.phase = "prepared"
    <2>1. PICK m : m = [r EXCEPT !.phase = "notdispatched"]
      OBVIOUS
    <2>2. new = Abandoned(m)
      BY <1>3, <2>1 DEF RestoreUpdated
    <2>3. Moves(r, m, u)
      BY <1>3, <2>1, PhaseMoves
    <2>4. m.phase = "notdispatched" /\ m.stages = r.stages
      BY <2>1 DEF ReceiptShape, ReceiptFields
    <2>5. QED BY <1>3, <2>2, <2>3, <2>4, AbandonedMoves
  <1>4. QED BY <1>1, <1>2, <1>3 DEF RestoreUpdated

LEMMA ApplyMoves ==
  ASSUME NEW r, ReceiptShape(r), NEW u, NEW new, new = ApplyUpdated(r, u), new # NoReceipt
  PROVE  Moves(r, new, u)
  <1>0. 1 \in 1..Len(r.stages) /\ Len(r.stages) \in Nat /\ IsSeq(r.stages) /\ DOMAIN r = ReceiptFields
    BY SeqBasics DEF ReceiptShape
  <1>1. CASE u.what = "ready" /\ new = [r EXCEPT !.phase = "continuation"]
    BY <1>1, PhaseMoves
  <1>2. CASE u.what = "dispatch" /\ u.stage = 1 /\ new = Dispatched(r, 1)
    BY <1>0, <1>2, DispatchedMoves
  <1>3. CASE /\ u.what = "dispatch" /\ u.stage = 2 /\ r.phase = "continuation"
             /\ new = Dispatched([r EXCEPT !.stages = Append(@, StageNew(u.n))], 2)
    <2>1. PICK p : p = [r EXCEPT !.stages = Append(@, StageNew(u.n))]
      OBVIOUS
    <2>2. /\ ReceiptShape(p) /\ p.kind = r.kind /\ p.phase = r.phase /\ Len(p.stages) = Len(r.stages) + 1
          /\ \A i \in 1..Len(r.stages) : p.stages[i] = r.stages[i]
      BY <1>3, <2>1, StageAdded
    <2>3. 2 \in 1..Len(p.stages)
      BY <1>0, <2>2
    <2>4. Moves(p, new, u)
      BY <1>3, <2>1, <2>2, <2>3, DispatchedMoves
    <2>5. \A i \in 1..Len(r.stages) : StageMoves(r, new, u, i)
      <3>1. ASSUME NEW i \in 1..Len(r.stages)
            PROVE  StageMoves(r, new, u, i)
        <4>1. i \in 1..Len(p.stages)
          BY <1>0, <2>2
        <4>2. StageMoves(p, new, u, i)
          BY <2>4, <4>1 DEF Moves
        <4>3. p.stages[i] = r.stages[i] /\ u.what \notin Ended
          BY <1>3, <2>2 DEF Ended
        <4>4. QED BY <4>2, <4>3 DEF StageMoves
      <3>2. QED BY <3>1
    <2>6. Len(new.stages) \in Nat
      BY <2>4, SeqBasics DEF Moves, ReceiptShape
    <2>7. QED BY <1>0, <2>2, <2>4, <2>5, <2>6 DEF Moves
  <1>4. CASE /\ u.what = "acknowledged" /\ r.phase = "dispatching"
             /\ new = Active(r, IF r.active = 2 THEN "closed"
                                ELSE IF Clean(u.counts) THEN "continuation" ELSE "aborted", u.what, u.counts)
    <2>1. PICK phase : phase = IF r.active = 2 THEN "closed"
                                ELSE IF Clean(u.counts) THEN "continuation" ELSE "aborted"
      OBVIOUS
    <2>2. Settles(r, u, phase, u.counts)
      BY <1>4, <2>1 DEF Settles, Ended
    <2>3. QED BY <1>4, <2>1, <2>2, ActiveMoves
  <1>5. CASE u.what = "notdispatched" /\ r.phase = "dispatching" /\ new = Active(r, "aborted", u.what, NoCounts)
    <2>1. Settles(r, u, "aborted", NoCounts)
      BY <1>5 DEF Settles, Ended
    <2>2. QED BY <1>5, <2>1, ActiveMoves
  <1>6. CASE u.what = "unknown" /\ r.phase = "dispatching" /\ new = Active(r, "unknown", u.what, NoCounts)
    <2>1. Settles(r, u, "unknown", NoCounts)
      BY <1>6 DEF Settles, Ended
    <2>2. QED BY <1>6, <2>1, ActiveMoves
  <1>7. CASE /\ u.what = "close" /\ r.phase = "continuation"
             /\ new = [r EXCEPT !.phase = "closed", !.stages = Append(@, StageNew(0))]
    <2>1. PICK p : p = [r EXCEPT !.stages = Append(@, StageNew(0))]
      OBVIOUS
    <2>2. /\ ReceiptShape(p) /\ p.kind = r.kind /\ Len(p.stages) = Len(r.stages) + 1
          /\ \A i \in 1..Len(r.stages) : p.stages[i] = r.stages[i]
      BY <1>7, <2>1, StageAdded
    <2>3. new = [p EXCEPT !.phase = "closed"]
      BY <1>0, <1>7, <2>1 DEF ReceiptFields
    <2>4. /\ DOMAIN new = ReceiptFields /\ new.kind = r.kind /\ new.stages = p.stages /\ new.phase = "closed"
      BY <2>2, <2>3 DEF ReceiptShape, ReceiptFields
    <2>5. ReceiptShape(new)
      BY <2>2, <2>4 DEF ReceiptShape
    <2>6. \A i \in 1..Len(r.stages) : StageMoves(r, new, u, i)
      BY <2>2, <2>4 DEF StageMoves
    <2>7. Len(new.stages) >= Len(r.stages) /\ u.what = "close"
      BY <1>0, <1>7, <2>2, <2>4
    <2>8. QED BY <2>4, <2>5, <2>6, <2>7 DEF Moves
  <1>8. CASE /\ u.what = "abort"
             /\ new = [r EXCEPT !.phase = "aborted", !.stages[1] =
                          IF @.phase = "prepared" THEN StageSet(@, "notdispatched", NoCounts) ELSE @]
    <2>1. PICK e : e = IF r.stages[1].phase = "prepared" THEN StageSet(r.stages[1], "notdispatched", NoCounts)
                       ELSE r.stages[1]
      OBVIOUS
    <2>2. PICK s : s = [r.stages EXCEPT ![1] = e]
      OBVIOUS
    <2>3. new = [r EXCEPT !.phase = "aborted", !.stages = s]
      BY <1>0, <1>8, <2>1, <2>2 DEF ReceiptFields
    <2>4. /\ DOMAIN new = ReceiptFields /\ new.kind = r.kind /\ new.stages = s /\ new.phase = "aborted"
      BY <1>0, <2>3 DEF ReceiptFields
    <2>5. SeqPut(r.stages, s, 1, e)
      BY <1>0, <2>2, SeqSet
    <2>6. IsSeq(s) /\ Len(s) = Len(r.stages) /\ s[1] = e /\ \A j \in 1..Len(r.stages) : j # 1 => s[j] = r.stages[j]
      BY <2>5 DEF SeqPut
    <2>7. DOMAIN e = StageFields
      <3>1. DOMAIN r.stages[1] = StageFields
        BY <1>0 DEF ReceiptShape
      <3>2. QED BY <2>1, <3>1, StageIsSet
    <2>8. \A j \in 1..Len(s) : DOMAIN s[j] = StageFields
      BY <2>6, <2>7 DEF ReceiptShape
    <2>9. ReceiptShape(new)
      BY <2>4, <2>6, <2>8 DEF ReceiptShape
    <2>10. \A i \in 1..Len(r.stages) : StageMoves(r, new, u, i)
      BY <2>1, <2>4, <2>6 DEF StageMoves
    <2>11. u.what = "abort" /\ Len(new.stages) >= Len(r.stages)
      BY <1>0, <1>8, <2>4, <2>6
    <2>12. QED BY <2>4, <2>9, <2>10, <2>11 DEF Moves
  <1>9. QED BY <1>1, <1>2, <1>3, <1>4, <1>5, <1>6, <1>7, <1>8 DEF ApplyUpdated

LEMMA CaptureMoves ==
  ASSUME NEW r, ReceiptShape(r), NEW u, u.what = "dispatch" => u.stage > 0,
         NEW new, new = CaptureUpdated(r, u), new # NoReceipt
  PROVE  Moves(r, new, u)
  <1>1. CASE u.what = "dispatch" /\ NextStep(r) = u.stage /\ new = Dispatched(r, u.stage)
    <2>1. Remaining(r) # {}
      BY <1>1 DEF NextStep
    <2>2. Len(r.stages) \in Nat
      BY SeqBasics DEF ReceiptShape
    <2>3. Remaining(r) \subseteq Nat
      BY <2>2 DEF Remaining
    <2>4. u.stage \in Remaining(r)
      BY <1>1, <2>1, <2>3, FirstOf DEF NextStep
    <2>5. u.stage \in 1..Len(r.stages)
      BY <2>4 DEF Remaining
    <2>6. QED BY <1>1, <2>5, DispatchedMoves
  <1>2. CASE /\ u.what = "acknowledged" /\ r.phase = "dispatching"
             /\ new = Active(r, "continuation", u.what, u.counts)
    <2>1. Settles(r, u, "continuation", u.counts)
      BY <1>2 DEF Settles, Ended
    <2>2. QED BY <1>2, <2>1, ActiveMoves
  <1>3. ASSUME NEW phase, NEW counts, Settles(r, u, phase, counts), new = Abandoned(Active(r, phase, u.what, counts))
        PROVE  Moves(r, new, u)
    <2>1. PICK m : m = Active(r, phase, u.what, counts)
      OBVIOUS
    <2>2. Moves(r, m, u) /\ m.phase = phase /\ Len(m.stages) = Len(r.stages)
      BY <1>3, <2>1, ActiveMoves
    <2>3. u.what # "dispatch" /\ m.phase # "dispatching"
      BY <1>3, <2>2 DEF Settles, Ended
    <2>4. QED BY <1>3, <2>1, <2>2, <2>3, AbandonedMoves
  <1>4. CASE /\ u.what = "acknowledged" /\ r.phase = "dispatching"
             /\ new = Abandoned(Active(r, "aborted", u.what, u.counts))
    <2>1. Settles(r, u, "aborted", u.counts)
      BY <1>4 DEF Settles, Ended
    <2>2. QED BY <1>3, <1>4, <2>1
  <1>5. CASE /\ u.what = "notdispatched" /\ r.phase = "dispatching"
             /\ new = Abandoned(Active(r, "aborted", u.what, NoCounts))
    <2>1. Settles(r, u, "aborted", NoCounts)
      BY <1>5 DEF Settles, Ended
    <2>2. QED BY <1>3, <1>5, <2>1
  <1>6. CASE /\ u.what = "unknown" /\ r.phase = "dispatching"
             /\ new = Abandoned(Active(r, "unknown", u.what, NoCounts))
    <2>1. Settles(r, u, "unknown", NoCounts)
      BY <1>6 DEF Settles, Ended
    <2>2. QED BY <1>3, <1>6, <2>1
  <1>7. CASE u.what = "close" /\ new = [r EXCEPT !.phase = "closed"]
    BY <1>7, PhaseMoves
  <1>8. CASE u.what = "abort" /\ new = Abandoned([r EXCEPT !.phase = "aborted"])
    <2>1. PICK m : m = [r EXCEPT !.phase = "aborted"]
      OBVIOUS
    <2>2. DOMAIN r = ReceiptFields
      BY DEF ReceiptShape
    <2>3. m.phase = "aborted" /\ m.stages = r.stages
      BY <2>1, <2>2 DEF ReceiptFields
    <2>4. Moves(r, m, u)
      BY <1>8, <2>1, PhaseMoves
    <2>5. QED BY <1>8, <2>1, <2>3, <2>4, AbandonedMoves
  <1>9. QED BY <1>1, <1>2, <1>4, <1>5, <1>6, <1>7, <1>8 DEF CaptureUpdated

\* update_*: a legal update moves one stage, and leaves what is decided alone.
LEMMA UpdateMoves ==
  ASSUME NEW r, ReceiptShape(r), NEW u,
         u.what = "dispatch" => u.stage > 0 /\ (r.kind = "restore" => u.stage = 1),
         NEW new, new = Updated(r, u), new # NoReceipt
  PROVE  Moves(r, new, u)
  <1>1. CASE r.kind = "restore"
    BY <1>1, RestoreMoves DEF Updated
  <1>2. CASE r.kind = "apply"
    BY <1>2, ApplyMoves DEF Updated
  <1>3. CASE r.kind = "capture"
    BY <1>3, CaptureMoves DEF Updated
  <1>4. QED BY <1>1, <1>2, <1>3 DEF ReceiptShape

\* What holds of a workflow between its steps, and what it may become.
Base(o) == Shaped(o) /\ Calm(o)
Loose == FlowFields \ {"kind", "id", "stage", "receipt"}
Leads(o, q) == q.pc = "idle" \/ (FlowCore(q) /\ q.id = o.id /\ q.pc \notin {"send", "wait"})

LEMMA BaseAlike ==
  ASSUME NEW o, Base(o), NEW q, Alike(o, q, Loose)
  PROVE  Base(q) /\ q.kind = o.kind /\ q.id = o.id /\ q.stage = o.stage /\ q.receipt = o.receipt
  <1>1. DOMAIN o = FlowFields
    BY DEF Base, Shaped
  <1>2. DOMAIN q = FlowFields /\ q.kind = o.kind /\ q.id = o.id /\ q.stage = o.stage /\ q.receipt = o.receipt
    BY <1>1 DEF Alike, Loose, FlowFields
  <1>3. Shaped(q) /\ Calm(q)
    BY <1>2 DEF Base, Shaped, Calm
  <1>4. QED BY <1>2, <1>3 DEF Base

LEMMA ReadsNext ==
  ASSUME NEW o, Base(o), NEW q, Alike(o, q, Loose), q.pc \in {"read", "stamp"}, Where(o, q.then)
  PROVE  Leads(o, q)
  <1>1. Base(q) /\ q.kind = o.kind /\ q.id = o.id /\ q.stage = o.stage /\ q.receipt = o.receipt
    BY BaseAlike
  <1>2. Where(q, q.then)
    BY <1>1 DEF Where
  <1>3. QED BY <1>1, <1>2 DEF Leads, FlowCore, Base

LEMMA SavesNext ==
  ASSUME NEW o, Base(o), NEW q, Alike(o, q, Loose), q.pc = "save", o.stage = 0, o.kind # "restore"
  PROVE  Leads(o, q)
  <1>1. Base(q) /\ q.kind = o.kind /\ q.id = o.id /\ q.stage = o.stage /\ q.receipt = o.receipt
    BY BaseAlike
  <1>2. QED BY <1>1 DEF Leads, FlowCore, Base

LEMMA PublishesNext ==
  ASSUME NEW o, Base(o), NEW q, Alike(o, q, Loose), q.pc = "publish", o.receipt # NoReceipt,
         \/ q.then = "begun" /\ q.update.what = "prepare" /\ o.stage = 0
         \/ q.then = "ready" /\ q.update.what = "ready" /\ o.stage = 0 /\ o.kind = "apply"
         \/ q.then = "closed" /\ q.update.what = "close" /\ o.kind = "apply"
         \/ q.then = "end" /\ q.update.what \in {"close", "abort"}
         \/ q.then = "send" /\ q.update.what = "dispatch" /\ q.update.stage = o.stage /\ o.stage > 0 /\ Ahead(o)
  PROVE  Leads(o, q)
  <1>1. Base(q) /\ q.kind = o.kind /\ q.id = o.id /\ q.stage = o.stage /\ q.receipt = o.receipt
    BY BaseAlike
  <1>2. Ahead(o) => Ahead(q)
    BY <1>1 DEF Ahead
  <1>3. Opening(q)
    BY <1>1, <1>2 DEF Opening, Base
  <1>4. QED BY <1>1, <1>3 DEF Leads, FlowCore, Base

\* The ways to go on.
LEMMA ReadingLeads ==
  ASSUME NEW o, Base(o), NEW parts, NEW then, Where(o, then)
  PROVE  Leads(o, Reading(o, parts, then)) /\ Leads(o, Sampling(o, parts, then))
  <1>1. DOMAIN o = FlowFields
    BY DEF Base, Shaped
  <1>2. PICK q : q = Reading(o, parts, then)
    OBVIOUS
  <1>3. Alike(o, q, Loose) /\ q.pc = "read" /\ q.then = then
    BY <1>1, <1>2 DEF Reading, Alike, Loose, FlowFields
  <1>4. PICK p : p = Sampling(o, parts, then)
    OBVIOUS
  <1>5. Alike(o, p, Loose) /\ p.pc = "stamp" /\ p.then = then
    BY <1>1, <1>4 DEF Sampling, Alike, Loose, FlowFields
  <1>6. Leads(o, q) /\ Leads(o, p)
    BY <1>3, <1>5, ReadsNext
  <1>7. QED BY <1>2, <1>4, <1>6

LEMMA PublishingFacts ==
  ASSUME NEW o, DOMAIN o = FlowFields, NEW update, NEW then
  PROVE  /\ Alike(o, Publishing(o, update, then), Loose) /\ Publishing(o, update, then).pc = "publish"
         /\ Publishing(o, update, then).then = then /\ Publishing(o, update, then).update = update
  BY DEF Publishing, Alike, Loose, FlowFields

LEMMA UpdateFields ==
  ASSUME NEW what, NEW stage, NEW n, NEW counts
  PROVE  /\ Update(what, stage, n, counts).what = what /\ Update(what, stage, n, counts).stage = stage
         /\ Update(what, stage, n, counts).counts = counts
  BY DEF Update

LEMMA OverFlow ==
  ASSUME NEW o, NEW result
  PROVE  Leads(o, NoFlow(result))
  BY DEF Leads, NoFlow

LEMMA FinishLeads ==
  ASSUME NEW o, Base(o), NEW result
  PROVE  Leads(o, Finish(o, result))
  <1>1. CASE o.receipt.phase \in {"prepared", "continuation"} /\ (o.kind = "capture" \/ ~doubt)
    <2>1. PICK p : p = [o EXCEPT !.result = result]
      OBVIOUS
    <2>2. PICK what \in {"close", "abort"} :
             what = IF o.kind = "capture" /\ result = "captured" /\ NextStep(o.receipt) = 0
                    THEN "close" ELSE "abort"
      OBVIOUS
    <2>3. PICK u : u = Update(what, 0, 0, NoCounts)
      OBVIOUS
    <2>4. Finish(o, result) = Publishing(p, u, "end")
      BY <1>1, <2>1, <2>2, <2>3 DEF Finish
    <2>5. DOMAIN o = FlowFields
      BY DEF Base, Shaped
    <2>6. Alike(o, p, Loose)
      BY <2>1, <2>5 DEF Alike, Loose, FlowFields
    <2>7. Base(p) /\ p.id = o.id /\ p.receipt = o.receipt
      BY <2>6, BaseAlike
    <2>8. DOMAIN p = FlowFields /\ p.receipt # NoReceipt
      BY <1>1, <2>7 DEF Base, Shaped, NoReceipt
    <2>9. PICK q : q = Publishing(p, u, "end")
      OBVIOUS
    <2>10. Alike(p, q, Loose) /\ q.pc = "publish" /\ q.then = "end" /\ q.update.what = what
      BY <2>3, <2>8, <2>9, PublishingFacts, UpdateFields
    <2>11. Leads(p, q)
      BY <2>7, <2>8, <2>10, PublishesNext
    <2>12. QED BY <2>4, <2>7, <2>9, <2>11 DEF Leads
  <1>2. CASE ~(o.receipt.phase \in {"prepared", "continuation"} /\ (o.kind = "capture" \/ ~doubt))
    BY <1>2, OverFlow DEF Finish
  <1>3. QED BY <1>1, <1>2

\* The next stage is announced.
Staged == \A n \in 1..Len(sent) : sent[n].stage \in Nat
LEMMA DispatchLeads ==
  ASSUME NEW o, Base(o), NEW stage \in Nat, NEW effects, o.receipt # NoReceipt,
         o.stage < stage, stage <= Most(o.kind), Staged
  PROVE  Leads(o, Dispatching(o, stage, effects))
  <1>1. PICK p : p = [o EXCEPT !.stage = stage, !.effects = effects]
    OBVIOUS
  <1>2. DOMAIN o = FlowFields /\ o.stage \in Nat /\ Most(o.kind) \in Nat
    BY DEF Base, Shaped, Most
  <1>3. Alike(o, p, {"stage", "effects"}) /\ p.stage = stage
    BY <1>1, <1>2 DEF Alike, FlowFields
  <1>4. DOMAIN p = FlowFields /\ p.kind = o.kind /\ p.id = o.id /\ p.receipt = o.receipt
    BY <1>2, <1>3 DEF Alike, FlowFields
  <1>5. Shaped(p)
    BY <1>2, <1>3, <1>4 DEF Base, Shaped
  <1>6. Calm(p) /\ Ahead(p)
    BY <1>2, <1>3, <1>4 DEF Base, Calm, Ahead, Staged
  <1>7. PICK u : u = Update("dispatch", stage, Len(effects), NoCounts)
    OBVIOUS
  <1>8. PICK q : q = Publishing(p, u, "send")
    OBVIOUS
  <1>9. Dispatching(o, stage, effects) = q
    BY <1>1, <1>7, <1>8 DEF Dispatching
  <1>10. u.what = "dispatch" /\ u.stage = stage
    BY <1>7, UpdateFields
  <1>11. /\ Alike(p, q, Loose) /\ q.pc = "publish" /\ q.then = "send" /\ q.update = u
    BY <1>4, <1>8, PublishingFacts
  <1>12. p.receipt # NoReceipt /\ p.stage > 0 /\ Base(p)
    BY <1>2, <1>3, <1>4, <1>5, <1>6 DEF Base
  <1>13. q.update.what = "dispatch" /\ q.update.stage = p.stage
    BY <1>3, <1>10, <1>11
  <1>14. Leads(p, q)
    BY <1>6, <1>11, <1>12, <1>13, PublishesNext
  <1>15. QED BY <1>4, <1>9, <1>14 DEF Leads

LEMMA SentStaged ==
  ASSUME Store
  PROVE  Staged
  <1> SUFFICES ASSUME NEW n \in 1..Len(sent)
               PROVE  sent[n].stage \in Nat
    BY DEF Staged
  <1>1. SentShape(sent[n])
    BY DEF Store
  <1>2. PICK r : r = receipts[sent[n].id]
    OBVIOUS
  <1>3. r # NoReceipt /\ sent[n].stage \in 1..Len(r.stages) /\ sent[n].id \in 1..Len(receipts)
    BY <1>1, <1>2 DEF SentShape, Tells
  <1>4. ReceiptShape(r)
    BY <1>2, <1>3 DEF Store
  <1>5. Len(r.stages) \in Nat
    BY <1>4, SeqBasics DEF ReceiptShape
  <1>6. QED BY <1>3, <1>5

\* A receipt is prepared.
LEMMA PreparedShape ==
  ASSUME NEW kind \in {"apply", "capture", "restore"}, NEW plan, IsSeq(plan), plan # <<>>
  PROVE  ReceiptShape(Prepared(kind, plan)) /\ Prepared(kind, plan).kind = kind
  <1>1. Len(plan) \in Nat \ {0}
    BY SeqBasics
  <1>2. PICK s : s = [i \in 1..Len(plan) |-> StageNew(plan[i])]
    OBVIOUS
  <1>3. DOMAIN s = 1..Len(plan) /\ s = [i \in 1..Len(plan) |-> s[i]]
    BY <1>2
  <1>4. IsSeq(s) /\ Len(s) = Len(plan)
    BY <1>1, <1>3, SeqMade
  <1>5. \A i \in 1..Len(plan) : DOMAIN s[i] = StageFields
    BY <1>2 DEF StageNew, StageFields
  <1>6. PICK r : r = Prepared(kind, plan)
    OBVIOUS
  <1>7. DOMAIN r = ReceiptFields /\ r.kind = kind /\ r.phase = "prepared" /\ r.stages = s
    BY <1>2, <1>6 DEF Prepared, ReceiptFields
  <1>8. ReceiptShape(r)
    BY <1>1, <1>4, <1>5, <1>7 DEF ReceiptShape
  <1>9. QED BY <1>6, <1>7, <1>8

LEMMA ShapedIsReceipt ==
  ASSUME NEW r, ReceiptShape(r)
  PROVE  r # NoReceipt
  BY DEF ReceiptShape, NoReceipt, ReceiptFields

LEMMA BegunLeads ==
  ASSUME NEW o, Base(o), o.stage = 0, o.kind # "snapshot", NEW plan, IsSeq(plan), plan # <<>>
  PROVE  Leads(o, Begun(o, plan))
  <1>1. CASE ~Admissible
    BY <1>1, OverFlow DEF Begun
  <1>2. CASE Admissible
    <2>1. DOMAIN o = FlowFields /\ o.kind \in {"apply", "capture", "restore"}
      BY DEF Base, Shaped, WorkflowKinds
    <2>2. PICK r : r = Prepared(o.kind, plan)
      OBVIOUS
    <2>3. ReceiptShape(r) /\ r.kind = o.kind /\ r # NoReceipt
      BY <2>1, <2>2, PreparedShape, ShapedIsReceipt
    <2>4. PICK p : p = [o EXCEPT !.receipt = r]
      OBVIOUS
    <2>5. Alike(o, p, {"receipt"}) /\ p.receipt = r
      BY <2>1, <2>4 DEF Alike, FlowFields
    <2>6. DOMAIN p = FlowFields /\ p.kind = o.kind /\ p.id = o.id /\ p.stage = o.stage
      BY <2>1, <2>5 DEF Alike, FlowFields
    <2>7. Base(p)
      BY <2>3, <2>5, <2>6 DEF Base, Shaped, Calm
    <2>8. PICK u : u = Update("prepare", 0, 0, NoCounts)
      OBVIOUS
    <2>9. PICK q : q = Publishing(p, u, "begun")
      OBVIOUS
    <2>10. Begun(o, plan) = q
      BY <1>2, <2>2, <2>4, <2>8, <2>9 DEF Begun
    <2>11. Alike(p, q, Loose) /\ q.pc = "publish" /\ q.then = "begun" /\ q.update.what = "prepare"
      BY <2>6, <2>8, <2>9, PublishingFacts, UpdateFields
    <2>12. Leads(p, q)
      BY <2>3, <2>5, <2>6, <2>7, <2>11, PublishesNext
    <2>13. QED BY <2>6, <2>10, <2>12 DEF Leads
  <1>3. QED BY <1>1, <1>2

\* The same for a workflow in which a few loose fields were set first.
LEMMA LeadsAlike ==
  ASSUME NEW o, NEW p, NEW q, p.id = o.id, Leads(p, q)
  PROVE  Leads(o, q)
  BY DEF Leads

LEMMA OneIsSeq ==
  ASSUME NEW a
  PROVE  IsSeq(<<a>>) /\ <<a>> # <<>>
  <1>1. <<a>> \in Seq({a})
    OBVIOUS
  <1>2. QED BY <1>1 DEF IsSeq

\* What follows the first sample of a restore and of an apply.
LEMMA RestoreLeads ==
  ASSUME NEW o, Base(o), o.stage = 0, o.kind # "snapshot"
  PROVE  Leads(o, RestorePlanned(o))
  <1>1. PICK changes : changes = RestoreChanges(o.snap.content, o.sample)
    OBVIOUS
  <1>2. PICK p : p = [o EXCEPT !.effects = changes]
    OBVIOUS
  <1>3. \/ \E result : RestorePlanned(o) = NoFlow(result)
        \/ RestorePlanned(o) = Begun(p, <<Len(changes)>>)
    BY <1>1, <1>2 DEF RestorePlanned
  <1>4. DOMAIN o = FlowFields
    BY DEF Base, Shaped
  <1>5. Alike(o, p, Loose)
    BY <1>2, <1>4 DEF Alike, Loose, FlowFields
  <1>6. Base(p) /\ p.id = o.id /\ p.stage = 0 /\ p.kind # "snapshot"
    BY <1>5, BaseAlike
  <1>7. Leads(p, Begun(p, <<Len(changes)>>))
    BY <1>6, OneIsSeq, BegunLeads
  <1>8. QED BY <1>3, <1>6, <1>7, OverFlow, LeadsAlike

LEMMA ApplyBegunLeads ==
  ASSUME NEW o, Base(o), o.stage = 0, o.kind # "snapshot"
  PROVE  Leads(o, ApplyBegun(o))
  BY OneIsSeq, BegunLeads DEF ApplyBegun

LEMMA ApplyFirstLeads ==
  ASSUME NEW o, Base(o), o.stage = 0, o.kind = "apply"
  PROVE  Leads(o, ApplyFirst(o))
  <1>1. PICK p : p = [o EXCEPT !.original = o.sample, !.effects = Creations(o.req, o.sample)]
    OBVIOUS
  <1>2. \/ \E result : ApplyFirst(o) = NoFlow(result)
        \/ ApplyFirst(o) = Reading(p, SnapshotParts, "save")
        \/ ApplyFirst(o) = ApplyBegun(p)
    BY <1>1 DEF ApplyFirst
  <1>3. DOMAIN o = FlowFields
    BY DEF Base, Shaped
  <1>4. Alike(o, p, Loose)
    BY <1>1, <1>3 DEF Alike, Loose, FlowFields
  <1>5. Base(p) /\ p.id = o.id /\ p.stage = 0 /\ p.kind = "apply"
    BY <1>4, BaseAlike
  <1>6. Where(p, "save")
    BY <1>5 DEF Where, Reads, Early
  <1>7. Leads(p, Reading(p, SnapshotParts, "save")) /\ Leads(p, ApplyBegun(p))
    BY <1>5, <1>6, ReadingLeads, ApplyBegunLeads
  <1>8. QED BY <1>2, <1>5, <1>7, OverFlow, LeadsAlike

LEMMA ApplySecondLeads ==
  ASSUME NEW o, Base(o), o.stage <= 1, o.kind = "apply", o.receipt # NoReceipt, Staged
  PROVE  Leads(o, ApplySecond(o))
  <1>1. PICK changes : changes = Sendable(Changes(o.req, o.sample))
    OBVIOUS
  <1>2. PICK u : u = Update("close", 0, 0, NoCounts)
    OBVIOUS
  <1>3. \/ ApplySecond(o) = Finish(o, "stopped")
        \/ ApplySecond(o) = Publishing(o, u, "closed")
        \/ ApplySecond(o) = Dispatching(o, 2, changes)
    BY <1>1, <1>2 DEF ApplySecond
  <1>4. DOMAIN o = FlowFields /\ o.stage \in Nat
    BY DEF Base, Shaped, Most
  <1>5. PICK q : q = Publishing(o, u, "closed")
    OBVIOUS
  <1>6. Alike(o, q, Loose) /\ q.pc = "publish" /\ q.then = "closed" /\ q.update.what = "close"
    BY <1>2, <1>4, <1>5, PublishingFacts, UpdateFields
  <1>7. Leads(o, q)
    BY <1>6, PublishesNext
  <1>8. 2 \in Nat /\ o.stage < 2 /\ 2 <= Most(o.kind)
    BY <1>4 DEF Most
  <1>9. Leads(o, Dispatching(o, 2, changes))
    BY <1>8, DispatchLeads
  <1>10. QED BY <1>3, <1>5, <1>7, <1>9, FinishLeads

\* The stages of a capture.
InCapture(o, most) == Base(o) /\ o.kind = "capture" /\ o.stage <= most /\ o.receipt # NoReceipt

LEMMA CaptureDispatchLeads ==
  ASSUME NEW o, NEW most \in 0..2, InCapture(o, most), NEW stage \in 1..3, most < stage, NEW effects, Staged
  PROVE  Leads(o, CaptureDispatch(o, stage, effects))
  <1>1. Base(o) /\ o.receipt # NoReceipt /\ o.kind = "capture" /\ o.stage <= most /\ o.stage \in Nat
    BY DEF InCapture, Base, Shaped, Most
  <1>2. stage \in Nat /\ o.stage < stage /\ stage <= Most(o.kind)
    BY <1>1 DEF Most
  <1>3. QED BY <1>1, <1>2, DispatchLeads, FinishLeads DEF CaptureDispatch

LEMMA CaptureSampling ==
  ASSUME NEW o, NEW most \in 0..2, InCapture(o, most), NEW parts,
         NEW then, then = "captured" \/ (then = "fit") \/ (then = "audio" /\ most <= 1)
  PROVE  Leads(o, Sampling(o, parts, then))
  <1>1. Base(o) /\ o.receipt # NoReceipt /\ o.kind = "capture" /\ o.stage <= most /\ o.stage \in Nat
    BY DEF InCapture, Base, Shaped, Most
  <1>2. Where(o, then)
    BY <1>1 DEF Where, Reads, Early
  <1>3. QED BY <1>1, <1>2, ReadingLeads

LEMMA CaptureBegunLeads ==
  ASSUME NEW o, Base(o), o.stage = 0, o.kind = "capture"
  PROVE  Leads(o, CaptureBegun(o))
  <1>1. Where(o, "captured")
    BY DEF Where, Reads, Early
  <1>2. IsSeq(CaptureEffects(o)) /\ CaptureEffects(o) # <<>>
    <2>1. PICK a \in Nat, b \in Nat, c \in Nat : CaptureEffects(o) = <<a, b, c>>
      BY DEF CaptureEffects, CapturePlan
    <2>2. <<a, b, c>> \in Seq(Nat) /\ <<a, b, c>> # <<>>
      OBVIOUS
    <2>3. QED BY <2>1, <2>2 DEF IsSeq
  <1>3. Leads(o, Begun(o, CaptureEffects(o)))
    BY <1>2, BegunLeads
  <1>4. QED BY <1>1, <1>3, ReadingLeads DEF CaptureBegun

LEMMA CaptureInitialLeads ==
  ASSUME NEW o, InCapture(o, 0), Staged
  PROVE  Leads(o, CaptureInitial(o))
  BY CaptureSampling, CaptureDispatchLeads DEF CaptureInitial

LEMMA CaptureFitLeads ==
  ASSUME NEW o, InCapture(o, 2), Staged
  PROVE  Leads(o, CaptureFit(o))
  BY CaptureSampling, CaptureDispatchLeads DEF CaptureFit

LEMMA CaptureAudioLeads ==
  ASSUME NEW o, InCapture(o, 1), Staged
  PROVE  Leads(o, CaptureAudio(o))
  <1>1. InCapture(o, 2)
    <2>1. o.stage \in Nat /\ o.stage <= 1
      BY DEF InCapture, Base, Shaped, Most
    <2>2. o.stage <= 2
      BY <2>1
    <2>3. QED BY <2>2 DEF InCapture
  <1>2. QED BY <1>1, CaptureFitLeads, CaptureDispatchLeads DEF CaptureAudio

LEMMA ReboundLeads ==
  ASSUME NEW o, InCapture(o, 1)
  PROVE  Leads(o, Rebound(o))
  <1>1. Base(o)
    BY DEF InCapture
  <1>2. \/ Rebound(o) = Finish(o, "failed")
        \/ \E e : Rebound(o) = Sampling([o EXCEPT !.expected = e], CaptureParts, "audio")
    BY DEF Rebound
  <1>3. ASSUME NEW e
        PROVE  Leads(o, Sampling([o EXCEPT !.expected = e], CaptureParts, "audio"))
    <2>1. PICK p : p = [o EXCEPT !.expected = e]
      OBVIOUS
    <2>2. DOMAIN o = FlowFields
      BY <1>1 DEF Base, Shaped
    <2>3. Alike(o, p, Loose)
      BY <2>1, <2>2 DEF Alike, Loose, FlowFields
    <2>4. /\ Base(p) /\ p.kind = o.kind /\ p.id = o.id /\ p.stage = o.stage /\ p.receipt = o.receipt
      BY <1>1, <2>3, BaseAlike
    <2>5. InCapture(p, 1)
      BY <2>4 DEF InCapture
    <2>6. Leads(p, Sampling(p, CaptureParts, "audio"))
      BY <2>5, CaptureSampling
    <2>7. QED BY <2>1, <2>4, <2>6, LeadsAlike
  <1>4. QED BY <1>1, <1>2, <1>3, FinishLeads

\* A sample is complete.
LEMMA SampledLeads ==
  ASSUME NEW o, Base(o), Where(o, o.then), Staged
  PROVE  Leads(o, Sampled(o))
  <1>0. DOMAIN o = FlowFields /\ o.kind \in WorkflowKinds /\ o.then \in Reads(o.kind) /\ o.stage \in Nat
    BY DEF Base, Shaped, Where, Most
  <1>1. CASE o.then = "plan"
    <2>1. o.stage = 0 /\ o.kind # "snapshot"
      BY <1>1 DEF Where, Early, Reads
    <2>2. QED BY <1>1, <2>1, RestoreLeads DEF Sampled
  <1>2. CASE o.then = "first"
    <2>1. o.stage = 0 /\ o.kind = "apply"
      BY <1>0, <1>2 DEF Where, Early, Reads, WorkflowKinds
    <2>2. QED BY <1>2, <2>1, ApplyFirstLeads DEF Sampled
  <1>3. CASE o.then = "second"
    <2>1. o.stage <= 1 /\ o.kind = "apply" /\ o.receipt # NoReceipt
      BY <1>0, <1>3 DEF Where, Early, Reads, WorkflowKinds
    <2>2. QED BY <1>3, <2>1, ApplySecondLeads DEF Sampled
  <1>4. CASE o.then = "final"
    BY <1>4, OverFlow DEF Sampled, ApplyFinal
  <1>5. CASE o.then = "save"
    <2>1. PICK q : q = [o EXCEPT !.pc = "save", !.snap = Saved(o)]
      OBVIOUS
    <2>2. Alike(o, q, Loose) /\ q.pc = "save"
      BY <1>0, <2>1 DEF Alike, Loose, FlowFields
    <2>3. o.stage = 0 /\ o.kind # "restore"
      BY <1>5 DEF Where, Early, Reads
    <2>4. Leads(o, q)
      BY <2>2, <2>3, SavesNext
    <2>5. QED BY <1>5, <2>1, <2>4 DEF Sampled
  <1>6. CASE o.then \in {"discover", "confirm", "snap", "recheck", "begin", "rebind", "audio", "fit", "captured"}
    <2>0. o.kind = "capture"
      BY <1>0, <1>6 DEF Reads, WorkflowKinds
    <2>1. \A then \in {"confirm", "snap", "recheck", "begin"} : o.stage = 0 => Where(o, then)
      BY <2>0 DEF Where, Reads, Early
    <2>2. o.then \in {"discover", "confirm", "snap", "recheck", "begin"} => o.stage = 0
      BY DEF Where, Early
    <2>3. CASE o.then = "discover"
      <3>1. PICK p : p = [o EXCEPT !.original = o.sample, !.expected = o.sample]
        OBVIOUS
      <3>2. Alike(o, p, Loose)
        BY <1>0, <3>1 DEF Alike, Loose, FlowFields
      <3>3. Base(p) /\ p.id = o.id /\ p.kind = o.kind /\ p.stage = o.stage
        BY <3>2, BaseAlike
      <3>4. Where(p, "confirm")
        BY <2>0, <2>2, <2>3, <3>3 DEF Where, Reads, Early
      <3>5. Leads(p, Sampling(p, CaptureParts, "confirm"))
        BY <3>3, <3>4, ReadingLeads
      <3>6. Sampled(o) = NoFlow("failed") \/ Sampled(o) = Sampling(p, CaptureParts, "confirm")
        BY <2>3, <3>1 DEF Sampled
      <3>7. QED BY <3>3, <3>5, <3>6, OverFlow, LeadsAlike
    <2>4. CASE o.then = "rebind"
      <3>1. InCapture(o, 1)
        BY <2>0, <2>4 DEF InCapture, Where
      <3>2. QED BY <2>4, <3>1, ReboundLeads DEF Sampled
    <2>5. CASE o.then = "confirm"
      <3>1. Where(o, "snap") /\ Where(o, "begin")
        BY <2>1, <2>2, <2>5
      <3>2. QED BY <2>5, <3>1, OverFlow, FinishLeads, ReadingLeads DEF Sampled
    <2>6. CASE o.then = "snap"
      <3>1. PICK p : p = [o EXCEPT !.snap = Saved(o)]
        OBVIOUS
      <3>2. Alike(o, p, Loose)
        BY <1>0, <3>1 DEF Alike, Loose, FlowFields
      <3>3. Base(p) /\ p.id = o.id /\ p.kind = o.kind /\ p.stage = o.stage
        BY <3>2, BaseAlike
      <3>4. Where(p, "recheck")
        BY <2>0, <2>2, <2>6, <3>3 DEF Where, Reads, Early
      <3>5. Leads(p, Sampling(p, CaptureParts, "recheck"))
        BY <3>3, <3>4, ReadingLeads
      <3>6. Sampled(o) = NoFlow("failed") \/ Sampled(o) = Sampling(p, CaptureParts, "recheck")
        BY <2>6, <3>1 DEF Sampled
      <3>7. QED BY <3>3, <3>5, <3>6, OverFlow, LeadsAlike
    <2>7. CASE o.then = "recheck"
      <3>1. PICK q : q = [o EXCEPT !.pc = "save"]
        OBVIOUS
      <3>2. Alike(o, q, Loose) /\ q.pc = "save"
        BY <1>0, <3>1 DEF Alike, Loose, FlowFields
      <3>3. Leads(o, q)
        BY <2>0, <2>2, <2>7, <3>2, SavesNext
      <3>4. QED BY <2>7, <3>1, <3>3, FinishLeads DEF Sampled
    <2>8. CASE o.then = "begin"
      BY <2>0, <2>2, <2>8, CaptureBegunLeads, FinishLeads DEF Sampled
    <2>9. CASE o.then = "audio"
      <3>1. InCapture(o, 1)
        BY <2>0, <2>9 DEF InCapture, Where
      <3>2. QED BY <2>9, <3>1, CaptureAudioLeads, FinishLeads DEF Sampled
    <2>10. CASE o.then = "fit"
      <3>1. InCapture(o, 2)
        BY <2>0, <2>10 DEF InCapture, Where
      <3>2. QED BY <2>10, <3>1, CaptureFitLeads, FinishLeads DEF Sampled
    <2>11. CASE o.then = "captured"
      BY <2>11, FinishLeads DEF Sampled, CaptureFinal
    <2>12. QED BY <1>6, <2>3, <2>4, <2>5, <2>6, <2>7, <2>8, <2>9, <2>10, <2>11
  <1>7. QED BY <1>0, <1>1, <1>2, <1>3, <1>4, <1>5, <1>6 DEF Reads

\* What follows the publication of a prepared receipt.
LEMMA AfterPreparedLeads ==
  ASSUME NEW o, Base(o), o.stage = 0, o.receipt # NoReceipt, Staged
  PROVE  Leads(o, AfterPrepared(o))
  <1>0. DOMAIN o = FlowFields /\ o.kind \in {"apply", "capture", "restore"} /\ 1 \in Nat
    BY DEF Base, Shaped, ReceiptShape
  <1>1. CASE o.kind = "restore"
    <2>1. o.stage < 1 /\ 1 <= Most(o.kind)
      BY <1>1 DEF Most
    <2>2. QED BY <1>0, <1>1, <2>1, DispatchLeads DEF AfterPrepared
  <1>2. CASE o.kind = "capture"
    <2>1. InCapture(o, 0)
      BY <1>2 DEF InCapture
    <2>2. QED BY <1>2, <2>1, CaptureInitialLeads DEF AfterPrepared
  <1>3. CASE o.kind = "apply"
    <2>1. o.stage < 1 /\ 1 <= Most(o.kind)
      BY <1>3 DEF Most
    <2>2. Leads(o, Dispatching(o, 1, o.effects))
      BY <1>0, <2>1, DispatchLeads
    <2>3. PICK u : u = Update("ready", 0, 0, NoCounts)
      OBVIOUS
    <2>4. PICK q : q = Publishing(o, u, "ready")
      OBVIOUS
    <2>5. Alike(o, q, Loose) /\ q.pc = "publish" /\ q.then = "ready" /\ q.update.what = "ready"
      BY <1>0, <2>3, <2>4, PublishingFacts, UpdateFields
    <2>6. Leads(o, q)
      BY <1>3, <2>5, PublishesNext
    <2>7. QED BY <1>3, <2>2, <2>3, <2>4, <2>6 DEF AfterPrepared
  <1>4. QED BY <1>0, <1>1, <1>2, <1>3

\* What follows an acknowledged stage.
LEMMA AfterFrameLeads ==
  ASSUME NEW o, Base(o), o.stage > 0, o.receipt # NoReceipt, o.update.what = "acknowledged"
  PROVE  Leads(o, AfterFrame(o))
  <1>0. /\ DOMAIN o = FlowFields /\ o.kind \in {"apply", "capture", "restore"} /\ o.stage \in 1..Most(o.kind)
    BY DEF Base, Shaped, ReceiptShape, Most
  <1>1. CASE o.kind = "restore"
    BY <1>1, OverFlow DEF AfterFrame, RestoreSettled
  <1>2. CASE o.kind = "apply"
    <2>1. CASE o.stage = 2
      <3>1. PICK r \in {"none", "problems"} : AfterFrame(o) = Reading([o EXCEPT !.result = r], SceneParts, "final")
        BY <1>2, <2>1 DEF AfterFrame, ApplySettled
      <3>2. PICK p : p = [o EXCEPT !.result = r]
        OBVIOUS
      <3>3. Alike(o, p, Loose)
        BY <1>0, <3>2 DEF Alike, Loose, FlowFields
      <3>4. Base(p) /\ p.id = o.id /\ p.kind = o.kind
        BY <3>3, BaseAlike
      <3>5. Where(p, "final")
        BY <1>2, <3>4 DEF Where, Reads, Early
      <3>6. Leads(p, Reading(p, SceneParts, "final"))
        BY <3>4, <3>5, ReadingLeads
      <3>7. QED BY <3>1, <3>2, <3>4, <3>6, LeadsAlike
    <2>2. CASE o.stage = 1
      <3>1. Where(o, "second")
        BY <1>2, <2>2 DEF Where, Reads, Early
      <3>2. QED BY <1>2, <2>2, <3>1, ReadingLeads, OverFlow DEF AfterFrame, ApplySettled
    <2>3. QED BY <1>0, <1>2, <2>1, <2>2 DEF Most
  <1>3. CASE o.kind = "capture"
    <2>1. o.stage = 1 => Where(o, "rebind")
      BY <1>3 DEF Where, Reads, Early
    <2>2. o.stage = 2 => Where(o, "fit")
      BY <1>3 DEF Where, Reads, Early
    <2>3. Where(o, "captured")
      BY <1>3 DEF Where, Reads, Early
    <2>4. QED BY <1>3, <2>1, <2>2, <2>3, ReadingLeads, OverFlow DEF AfterFrame, CaptureSettled
  <1>4. QED BY <1>0, <1>1, <1>2, <1>3

\* What a step of the workflow alone leaves of the invariant.
LEMMA FlowCoreStays ==
  ASSUME FlowCore(flow'), sent' = sent
  PROVE  FlowCore(flow)'
  BY DEF FlowCore, Shaped, Calm, Ahead, LastMine, Reckoned, InFlight, Where, Settling, Opening

LEMMA StoreStays ==
  ASSUME Store, UNCHANGED <<receipts, sent>>
  PROVE  Store'
  BY DEF Store, SentShape

LEMMA LeadsKeeps ==
  ASSUME WorkInv, flow.pc # "idle", Leads(flow, flow'), UNCHANGED <<script, receipts, sent>>
  PROVE  WorkInv'
  <1>1. Script' /\ Store'
    BY StoreStays DEF WorkInv, Script
  <1>2. FlowInv(flow)'
    <2>1. CASE flow'.pc = "idle"
      BY <2>1 DEF FlowInv
    <2>2. CASE FlowCore(flow') /\ flow'.id = flow.id /\ flow'.pc \notin {"send", "wait"}
      <3>1. FlowCore(flow)'
        BY <2>2, FlowCoreStays
      <3>2. Own(flow)'
        BY <2>2 DEF WorkInv, FlowInv, Own
      <3>3. QED BY <3>1, <3>2 DEF FlowInv
    <2>3. QED BY <2>1, <2>2 DEF Leads
  <1>3. QED BY <1>1, <1>2 DEF WorkInv

LEMMA InRead ==
  ASSUME WorkInv, flow.pc \in {"read", "stamp"}
  PROVE  Base(flow) /\ Where(flow, flow.then) /\ Staged /\ DOMAIN flow = FlowFields /\ FlowCore(flow)
  <1>1. FlowCore(flow) /\ Store
    BY DEF WorkInv, FlowInv
  <1>2. QED BY <1>1, SentStaged DEF FlowCore, Base, Shaped

LEMMA StampKeeps ==
  ASSUME WorkInv, Stamp
  PROVE  WorkInv'
  <1>1. flow.pc = "stamp" /\ UNCHANGED <<script, receipts, sent>> /\ flow' = [flow EXCEPT !.pc = "read", !.stamp = rev]
    BY DEF Stamp, outside
  <1>2. Base(flow) /\ Where(flow, flow.then) /\ DOMAIN flow = FlowFields
    BY <1>1, InRead
  <1>3. Alike(flow, flow', Loose) /\ flow'.pc = "read" /\ flow'.then = flow.then
    BY <1>1, <1>2 DEF Alike, Loose, FlowFields
  <1>4. PICK q : q = flow'
    OBVIOUS
  <1>5. Leads(flow, q)
    BY <1>2, <1>3, <1>4, ReadsNext
  <1>6. QED BY <1>1, <1>4, <1>5, LeadsKeeps

LEMMA LostLeads ==
  ASSUME NEW o, Base(o), Where(o, o.then)
  PROVE  Leads(o, Lost(o))
  <1>1. PICK q : q = [o EXCEPT !.pc = "stamp", !.tries = @ + 1, !.parts = CaptureParts]
    OBVIOUS
  <1>2. DOMAIN o = FlowFields
    BY DEF Base, Shaped
  <1>3. Alike(o, q, Loose) /\ q.pc = "stamp" /\ q.then = o.then
    BY <1>1, <1>2 DEF Alike, Loose, FlowFields
  <1>4. Leads(o, q)
    BY <1>3, ReadsNext
  <1>5. QED BY <1>1, <1>4, FinishLeads DEF Lost

LEMMA ReadPartKeeps ==
  ASSUME WorkInv, ReadPart
  PROVE  WorkInv'
  <1>1. flow.pc = "read" /\ UNCHANGED <<script, receipts, sent>>
    BY DEF ReadPart, outside
  <1>2. Base(flow) /\ Where(flow, flow.then) /\ DOMAIN flow = FlowFields
    BY <1>1, InRead
  <1>3. \/ flow' = Lost(flow) \/ flow' = Finish(flow, "failed")
        \/ \E parts, sample : flow' = [flow EXCEPT !.parts = parts, !.sample = sample]
    BY DEF ReadPart
  <1>4. ASSUME NEW parts, NEW sample, flow' = [flow EXCEPT !.parts = parts, !.sample = sample]
        PROVE  Leads(flow, flow')
    <2>1. Alike(flow, flow', Loose) /\ flow'.pc = "read" /\ flow'.then = flow.then
      BY <1>1, <1>2, <1>4 DEF Alike, Loose, FlowFields
    <2>2. PICK q : q = flow'
      OBVIOUS
    <2>3. Leads(flow, q)
      BY <1>2, <2>1, <2>2, ReadsNext
    <2>4. QED BY <2>2, <2>3
  <1>5. Leads(flow, flow')
    <2>1. CASE flow' = Lost(flow)
      BY <1>2, <2>1, LostLeads
    <2>2. CASE flow' = Finish(flow, "failed")
      BY <1>2, <2>2, FinishLeads
    <2>3. CASE \E parts, sample : flow' = [flow EXCEPT !.parts = parts, !.sample = sample]
      BY <1>4, <2>3
    <2>4. QED BY <1>3, <2>1, <2>2, <2>3
  <1>6. QED BY <1>1, <1>5, LeadsKeeps

LEMMA SampleCompleteKeeps ==
  ASSUME WorkInv, SampleComplete
  PROVE  WorkInv'
  <1>1. flow.pc = "read" /\ UNCHANGED <<script, receipts, sent>>
    BY DEF SampleComplete, outside
  <1>2. Base(flow) /\ Where(flow, flow.then) /\ Staged
    BY <1>1, InRead
  <1>3. Leads(flow, flow')
    BY <1>2, LostLeads, SampledLeads DEF SampleComplete
  <1>4. QED BY <1>1, <1>3, LeadsKeeps

LEMMA FlowFailsKeeps ==
  ASSUME WorkInv, FlowFails
  PROVE  WorkInv'
  <1>1. flow.pc \in {"read", "stamp"} /\ UNCHANGED <<script, receipts, sent>> /\ flow' = Finish(flow, "failed")
    BY DEF FlowFails, outside
  <1>2. Base(flow)
    BY <1>1, InRead
  <1>3. QED BY <1>1, <1>2, FinishLeads, LeadsKeeps

LEMMA SaveKeeps ==
  ASSUME WorkInv, NEW outcome \in {"unchanged", "doubtful", "saved"}, Save(outcome)
  PROVE  WorkInv'
  <1>1. flow.pc = "save" /\ UNCHANGED <<script, receipts, sent>>
    BY DEF Save, outside
  <1>2. /\ Base(flow) /\ flow.stage = 0 /\ flow.kind # "restore" /\ flow.kind \in WorkflowKinds
    BY <1>1 DEF WorkInv, FlowInv, FlowCore, Base, Shaped
  <1>3. \/ \E result : flow' = NoFlow(result)
        \/ flow.kind = "apply" /\ flow' = ApplyBegun(flow)
        \/ flow.kind = "capture" /\ flow' = Sampling(flow, CaptureParts, "begin")
    BY <1>2 DEF Save, WorkflowKinds
  <1>4. flow.kind = "capture" => Where(flow, "begin")
    BY <1>2 DEF Where, Reads, Early
  <1>5. Leads(flow, flow')
    BY <1>2, <1>3, <1>4, OverFlow, ApplyBegunLeads, ReadingLeads
  <1>6. QED BY <1>1, <1>5, LeadsKeeps

\* A new run gets the next receipt.
LEMMA NewFlowBase ==
  ASSUME Store, NEW req, req.kind \in WorkflowKinds
  PROVE  /\ Base(NewFlow(req, Len(receipts) + 1)) /\ NewFlow(req, Len(receipts) + 1).id = Len(receipts) + 1
         /\ NewFlow(req, Len(receipts) + 1).stage = 0 /\ NewFlow(req, Len(receipts) + 1).kind = req.kind
  <1>1. PICK id : id = Len(receipts) + 1
    OBVIOUS
  <1>2. PICK o : o = NewFlow(req, id)
    OBVIOUS
  <1>3. DOMAIN o = FlowFields /\ o.kind = req.kind /\ o.id = id /\ o.stage = 0 /\ o.receipt = NoReceipt
    BY <1>2 DEF NewFlow, FlowFields
  <1>4. Shaped(o)
    BY <1>3 DEF Shaped, Most
  <1>5. Len(receipts) \in Nat
    BY SeqBasics DEF Store
  <1>6. \A n \in 1..Len(sent) : sent[n].id # id
    BY <1>1, <1>5 DEF Store, SentShape
  <1>7. Calm(o)
    BY <1>3, <1>6 DEF Calm
  <1>8. QED BY <1>1, <1>2, <1>3, <1>4, <1>7 DEF Base

LEMMA StartLeads ==
  ASSUME NEW req, req.kind \in WorkflowKinds, NEW o, o = NewFlow(req, Len(receipts) + 1), Base(o),
         o.stage = 0, o.kind = req.kind
  PROVE  Leads(o, StartFlow(req))
  <1>1. \/ \E result : StartFlow(req) = NoFlow(result)
        \/ req.kind = "apply" /\ StartFlow(req) = Reading(o, SceneParts, "first")
        \/ req.kind = "snapshot" /\ StartFlow(req) = Reading(o, SnapshotParts, "save")
        \/ req.kind = "capture" /\ StartFlow(req) = Sampling(o, CaptureParts, "discover")
        \/ req.kind = "restore" /\ \E s : StartFlow(req) = Reading([o EXCEPT !.snap = s], SnapshotParts, "plan")
    BY DEF StartFlow, WorkflowKinds
  <1>2. /\ req.kind = "apply" => Where(o, "first")
        /\ req.kind = "snapshot" => Where(o, "save")
        /\ req.kind = "capture" => Where(o, "discover")
    BY DEF Where, Reads, Early
  <1>3. ASSUME req.kind = "restore", NEW s
        PROVE  Leads(o, Reading([o EXCEPT !.snap = s], SnapshotParts, "plan"))
    <2>1. PICK p : p = [o EXCEPT !.snap = s]
      OBVIOUS
    <2>2. DOMAIN o = FlowFields
      BY DEF Base, Shaped
    <2>3. Alike(o, p, Loose)
      BY <2>1, <2>2 DEF Alike, Loose, FlowFields
    <2>4. Base(p) /\ p.id = o.id /\ p.stage = 0 /\ p.kind = "restore"
      BY <1>3, <2>3, BaseAlike
    <2>5. Where(p, "plan")
      BY <2>4 DEF Where, Reads, Early
    <2>6. Leads(p, Reading(p, SnapshotParts, "plan"))
      BY <2>4, <2>5, ReadingLeads
    <2>7. QED BY <2>1, <2>4, <2>6, LeadsAlike
  <1>4. QED BY <1>1, <1>2, <1>3, ReadingLeads, OverFlow

LEMMA RunKeeps ==
  ASSUME WorkInv, Run
  PROVE  WorkInv'
  <1>1. /\ script.runs # <<>> /\ script' = [script EXCEPT !.runs = Tail(@)]
        /\ flow' = StartFlow(Head(script.runs)) /\ receipts' = Append(receipts, NoReceipt) /\ sent' = sent
    BY DEF Run
  <1>2. Script /\ Store
    BY DEF WorkInv
  <1>3. PICK req : req = Head(script.runs)
    OBVIOUS
  <1>4. Script' /\ req.kind \in WorkflowKinds
    <2>1. PICK S : script.runs \in Seq(S)
      BY <1>2 DEF Script, IsSeq
    <2>2. DOMAIN script' = DOMAIN script /\ script'.runs = Tail(script.runs)
      BY <1>1, <1>2 DEF Script
    <2>3. PICK T : T = {e \in S : e.kind \in WorkflowKinds}
      OBVIOUS
    <2>4. script.runs \in Seq(T)
      <3>1. Len(script.runs) \in Nat /\ script.runs \in [1..Len(script.runs) -> S]
        BY <2>1, LenProperties
      <3>2. script.runs \in [1..Len(script.runs) -> T]
        BY <1>2, <2>3, <3>1 DEF Script
      <3>3. QED BY <3>1, <3>2, SeqDef
    <2>5. req \in T /\ Tail(script.runs) \in Seq(T)
      BY <1>1, <1>3, <2>4, HeadTailProperties
    <2>6. \A i \in 1..Len(Tail(script.runs)) : Tail(script.runs)[i] \in T
      BY <2>5, ElementOfSeq
    <2>7. QED BY <1>2, <2>2, <2>3, <2>5, <2>6 DEF Script, IsSeq
  <1>5. SeqGrow(receipts, receipts', NoReceipt)
    BY <1>1, <1>2, SeqAdd DEF Store
  <1>6. /\ IsSeq(receipts') /\ Len(receipts) \in Nat /\ Len(receipts') = Len(receipts) + 1
        /\ receipts'[Len(receipts) + 1] = NoReceipt
        /\ \A i \in 1..Len(receipts) : receipts'[i] = receipts[i]
    BY <1>5 DEF SeqGrow
  <1>7. Store'
    <2>1. \A i \in 1..Len(receipts') : i \in 1..Len(receipts) \/ i = Len(receipts) + 1
      BY <1>6
    <2>2. \A i \in 1..Len(receipts') : receipts'[i] # NoReceipt => ReceiptShape(receipts'[i])
      BY <1>2, <1>6, <2>1 DEF Store
    <2>3. \A n \in 1..Len(sent) : SentShape(sent[n])'
      <3>1. ASSUME NEW n \in 1..Len(sent)
            PROVE  SentShape(sent[n])'
        <4>1. SentShape(sent[n])
          BY <1>2 DEF Store
        <4>2. sent[n].id \in 1..Len(receipts) /\ sent[n].id \in 1..Len(receipts')
          BY <1>6, <4>1 DEF SentShape
        <4>3. QED BY <1>1, <1>6, <4>1, <4>2 DEF SentShape
      <3>2. QED BY <3>1
    <2>4. QED BY <1>1, <1>2, <1>6, <2>2, <2>3 DEF Store, ReceiptShape
  <1>8. FlowInv(flow)'
    <2>1. PICK o : o = NewFlow(req, Len(receipts) + 1)
      OBVIOUS
    <2>2. Base(o) /\ o.id = Len(receipts) + 1 /\ o.stage = 0 /\ o.kind = req.kind
      BY <1>2, <1>4, <2>1, NewFlowBase
    <2>3. Leads(o, flow')
      BY <1>1, <1>3, <1>4, <2>1, <2>2, StartLeads
    <2>4. CASE flow'.pc = "idle"
      BY <2>4 DEF FlowInv
    <2>5. CASE FlowCore(flow') /\ flow'.id = o.id /\ flow'.pc \notin {"send", "wait"}
      <3>1. FlowCore(flow)'
        BY <1>1, <2>5, FlowCoreStays
      <3>2. Own(flow)'
        BY <1>6, <2>2, <2>5 DEF Own
      <3>3. QED BY <3>1, <3>2 DEF FlowInv
    <2>6. QED BY <2>3, <2>4, <2>5 DEF Leads
  <1>9. QED BY <1>4, <1>7, <1>8 DEF WorkInv

-----------------------------------------------------------------------------
\* An update fits a frame: it does not deny it, and settles it with its counts.
Fits(r, x, u) ==
    /\ x.fate = "sent" => u.what = "unknown"
    /\ r.phase = "dispatching" /\ u.what \in Ended /\ x.stage = r.active =>
           /\ u.what # "notdispatched"
           /\ u.what = "acknowledged" => x.fate = "done" /\ u.counts = CountsOf(x.rows, Len(x.effects))
LEMMA TellsMoved ==
  ASSUME NEW r, ReceiptShape(r), NEW x, Tells(r, x), NEW new, NEW u, Moves(r, new, u), Fits(r, x, u)
  PROVE  Tells(new, x)
  <1>1. new # NoReceipt
    BY ShapedIsReceipt DEF Moves
  <1>2. Len(r.stages) \in Nat /\ Len(new.stages) \in Nat /\ Len(new.stages) >= Len(r.stages)
    BY SeqBasics DEF Moves, ReceiptShape
  <1>3. x.stage \in 1..Len(r.stages)
    BY DEF Tells
  <1>4. x.stage \in 1..Len(new.stages)
    BY <1>2, <1>3
  <1>5. StageMoves(r, new, u, x.stage)
    BY <1>3 DEF Moves
  <1>6. /\ new.stages[x.stage].phase \in {"dispatching", "acknowledged", "unknown"}
        /\ new.stages[x.stage].phase = "acknowledged" =>
              x.fate = "done" /\ new.stages[x.stage].counts = CountsOf(x.rows, Len(x.effects))
    <2>1. CASE new.stages[x.stage] = r.stages[x.stage]
      BY <2>1 DEF Tells
    <2>2. CASE new.stages[x.stage].phase = "dispatching"
      BY <2>2
    <2>3. CASE r.stages[x.stage].phase = "prepared"
      BY <2>3 DEF Tells
    <2>4. CASE /\ x.stage = r.active /\ r.phase = "dispatching" /\ u.what \in Ended
               /\ new.stages[x.stage].phase = u.what
               /\ u.what = "acknowledged" => new.stages[x.stage].counts = u.counts
      BY <2>4 DEF Fits, Ended
    <2>5. QED BY <1>5, <2>1, <2>2, <2>3, <2>4 DEF StageMoves
  <1>7. x.fate = "sent" => Blocking(new)
    BY DEF Fits, Moves, Blocking
  <1>8. QED BY <1>1, <1>4, <1>6, <1>7 DEF Tells

\* What a publication writes.
Told(id, new) == \A n \in 1..Len(sent) : sent[n].id = id => Tells(new, sent[n])
LEMMA UpdateTells ==
  ASSUME WorkInv, flow.pc = "publish", flow.update.what # "prepare",
         NEW new, new = Updated(flow.receipt, flow.update), new # NoReceipt, receipts[flow.id] = flow.receipt
  PROVE  Moves(flow.receipt, new, flow.update) /\ Told(flow.id, new)
  <1>1. FlowCore(flow) /\ Store
    BY DEF WorkInv, FlowInv
  <1>2. /\ Shaped(flow) /\ flow.receipt # NoReceipt /\ ReceiptShape(flow.receipt) /\ flow.receipt.kind = flow.kind
        /\ Opening(flow) \/ Settling(flow)
    BY <1>1 DEF FlowCore, Shaped
  <1>3. PICK u : u = flow.update
    OBVIOUS
  <1>4. u.what = "dispatch" => Opening(flow) /\ u.stage = flow.stage /\ flow.stage > 0
    BY <1>2, <1>3 DEF Opening, Settling
  <1>5. u.what = "dispatch" => u.stage > 0 /\ (flow.receipt.kind = "restore" => u.stage = 1)
    BY <1>2, <1>4 DEF Shaped, Most
  <1>6. Moves(flow.receipt, new, u)
    BY <1>2, <1>3, <1>5, UpdateMoves
  <1>7. ASSUME NEW n \in 1..Len(sent), sent[n].id = flow.id
        PROVE  Tells(new, sent[n])
    <2>1. Tells(flow.receipt, sent[n])
      BY <1>1, <1>7 DEF Store, SentShape
    <2>2. sent[n].stage \in Nat /\ flow.stage \in Nat /\ Len(sent) \in Nat
      BY <1>1, <1>2, SentStaged, SeqBasics DEF Staged, Shaped, Most, Store
    <2>3. CASE Opening(flow)
      <3>1. sent[n].fate # "sent" /\ u.what \notin Ended
        BY <1>3, <1>7, <2>3 DEF Opening, Calm, Ended
      <3>2. Fits(flow.receipt, sent[n], u)
        BY <3>1 DEF Fits
      <3>3. QED BY <1>2, <1>6, <2>1, <3>2, TellsMoved
    <2>4. CASE Settling(flow)
      <3>1. flow.receipt.active = flow.stage
        BY <2>4 DEF Settling, InFlight
      <3>2. CASE u.what = "notdispatched" /\ Calm(flow) /\ Ahead(flow)
        <4>1. sent[n].fate # "sent" /\ sent[n].stage # flow.receipt.active
          BY <1>7, <2>2, <3>1, <3>2 DEF Calm, Ahead
        <4>2. QED BY <1>2, <1>6, <2>1, <4>1, TellsMoved DEF Fits
      <3>3. CASE u.what = "unknown" /\ LastMine(flow)
        BY <1>2, <1>6, <2>1, <3>3, TellsMoved DEF Fits
      <3>4. CASE u.what = "acknowledged" /\ LastMine(flow) /\ Reckoned(flow)
        <4>1. CASE n = Len(sent)
          <5>1. sent[n].fate = "done" /\ u.counts = CountsOf(sent[n].rows, Len(sent[n].effects))
            BY <1>3, <3>4, <4>1 DEF Reckoned
          <5>2. QED BY <1>2, <1>6, <2>1, <3>4, <5>1, TellsMoved DEF Fits
        <4>2. CASE n # Len(sent)
          <5>1. n \in 1..(Len(sent) - 1)
            BY <2>2, <4>2
          <5>2. sent[n].fate # "sent" /\ sent[n].stage # flow.receipt.active
            BY <1>7, <2>2, <3>1, <3>4, <5>1 DEF LastMine
          <5>3. QED BY <1>2, <1>6, <2>1, <3>4, <5>2, TellsMoved DEF Fits
        <4>3. QED BY <4>1, <4>2
      <3>5. QED BY <1>3, <2>4, <3>2, <3>3, <3>4 DEF Settling
    <2>5. QED BY <1>2, <2>3, <2>4
  <1>8. QED BY <1>3, <1>6, <1>7 DEF Told

LEMMA PrepareTells ==
  ASSUME WorkInv, flow.pc = "publish", receipts[flow.id] = NoReceipt
  PROVE  ReceiptShape(flow.receipt) /\ Told(flow.id, flow.receipt)
  <1>1. FlowCore(flow) /\ Store
    BY DEF WorkInv, FlowInv
  <1>2. ReceiptShape(flow.receipt)
    BY <1>1 DEF FlowCore, Shaped
  <1>3. \A n \in 1..Len(sent) : sent[n].id # flow.id
    BY <1>1 DEF Store, SentShape, Tells
  <1>4. QED BY <1>2, <1>3 DEF Told

LEMMA ReceiptPut ==
  ASSUME Store, NEW id \in 1..Len(receipts), NEW new, ReceiptShape(new), Told(id, new),
         SeqPut(receipts, receipts', id, new), sent' = sent
  PROVE  Store' /\ Len(receipts') = Len(receipts) /\ receipts'[id] = new
  <1>1. /\ IsSeq(receipts') /\ Len(receipts') = Len(receipts) /\ receipts'[id] = new
        /\ \A i \in 1..Len(receipts) : i # id => receipts'[i] = receipts[i]
    BY DEF SeqPut
  <1>2. \A i \in 1..Len(receipts) : receipts'[i] # NoReceipt => ReceiptShape(receipts'[i])
    BY <1>1 DEF Store
  <1>3. ASSUME NEW n \in 1..Len(sent)
        PROVE  SentShape(sent[n])'
    <2>1. SentShape(sent[n])
      BY DEF Store
    <2>2. Tells(receipts'[sent[n].id], sent[n])
      BY <1>1, <2>1 DEF SentShape, Told
    <2>3. QED BY <1>1, <2>1, <2>2 DEF SentShape
  <1>4. QED BY <1>1, <1>2, <1>3 DEF Store, ReceiptShape

LEMMA LeadsOn ==
  ASSUME FlowInv(flow), flow.pc # "idle", NEW o, o.id = flow.id, Leads(o, flow'), sent' = sent, Len(receipts') = Len(receipts)
  PROVE  FlowInv(flow)'
  <1>1. CASE flow'.pc = "idle"
    BY <1>1 DEF FlowInv
  <1>2. CASE FlowCore(flow') /\ flow'.id = o.id /\ flow'.pc \notin {"send", "wait"}
    <2>1. FlowCore(flow)'
      BY <1>2, FlowCoreStays
    <2>2. Own(flow)'
      BY <1>2 DEF FlowInv, Own
    <2>3. QED BY <2>1, <2>2 DEF FlowInv
  <1>3. QED BY <1>1, <1>2 DEF Leads

\* The workflow after its receipt was published.
WithReceipt(o, new) == [o EXCEPT !.receipt = new]
LEMMA WithReceiptBase ==
  ASSUME NEW o, Shaped(o), NEW new, ReceiptShape(new), new.kind = o.kind
  PROVE  /\ Shaped(WithReceipt(o, new)) /\ Alike(o, WithReceipt(o, new), {"receipt"})
         /\ WithReceipt(o, new).receipt = new /\ WithReceipt(o, new).receipt # NoReceipt
         /\ WithReceipt(o, new).id = o.id /\ WithReceipt(o, new).kind = o.kind /\ WithReceipt(o, new).stage = o.stage
         /\ WithReceipt(o, new).then = o.then /\ WithReceipt(o, new).update = o.update
         /\ (Calm(o) => Calm(WithReceipt(o, new))) /\ (Ahead(o) => Ahead(WithReceipt(o, new)))
  <1>1. PICK q : q = WithReceipt(o, new)
    OBVIOUS
  <1>2. DOMAIN o = FlowFields
    BY DEF Shaped
  <1>3. Alike(o, q, {"receipt"}) /\ q.receipt = new
    BY <1>1, <1>2 DEF WithReceipt, Alike, FlowFields
  <1>4. DOMAIN q = FlowFields /\ q.kind = o.kind /\ q.id = o.id /\ q.stage = o.stage /\ q.then = o.then /\ q.update = o.update
    BY <1>2, <1>3 DEF Alike, FlowFields
  <1>5. Shaped(q)
    BY <1>3, <1>4 DEF Shaped
  <1>6. (Calm(o) => Calm(q)) /\ (Ahead(o) => Ahead(q))
    BY <1>4 DEF Calm, Ahead
  <1>7. new # NoReceipt
    BY ShapedIsReceipt
  <1>8. QED BY <1>1, <1>3, <1>4, <1>5, <1>6, <1>7

\* After an answer nothing of the workflow is on its way.
LEMMA AnsweredCalm ==
  ASSUME Store, NEW o, Shaped(o), LastMine(o), Reckoned(o)
  PROVE  Calm(o)
  <1>1. Len(sent) \in Nat /\ Staged /\ o.stage \in Nat
    BY SeqBasics, SentStaged DEF Store, Shaped, Most
  <1>2. ASSUME NEW n \in 1..Len(sent), sent[n].id = o.id
        PROVE  sent[n].stage <= o.stage /\ sent[n].fate # "sent"
    <2>1. CASE n = Len(sent)
      BY <1>1, <2>1 DEF LastMine, Reckoned
    <2>2. CASE n # Len(sent)
      <3>1. n \in 1..(Len(sent) - 1)
        BY <1>1, <2>2
      <3>2. sent[n].stage < o.stage /\ sent[n].fate # "sent"
        BY <1>2, <3>1 DEF LastMine
      <3>3. QED BY <1>1, <3>2 DEF Staged
    <2>3. QED BY <2>1, <2>2
  <1>3. QED BY <1>2 DEF Calm

Departs(o, new) == new.phase = "dispatching" /\ new.active = o.stage /\ new.stages[o.stage].phase = "dispatching"
LEMMA PublishedLeads ==
  ASSUME Store, NEW o, FlowCore(o), o.pc = "publish", NEW new, ReceiptShape(new), new.kind = o.kind,
         o.update.what = "dispatch" => Departs(o, new)
  PROVE  \/ Leads(o, Published(WithReceipt(o, new)))
         \/ /\ FlowCore(Published(WithReceipt(o, new))) /\ Published(WithReceipt(o, new)).id = o.id
            /\ Published(WithReceipt(o, new)).receipt = new
  <1>0. Shaped(o) /\ Staged /\ (Opening(o) \/ Settling(o)) /\ o.stage \in Nat
    BY SentStaged DEF FlowCore, Shaped, Most
  <1>1. PICK q : q = WithReceipt(o, new)
    OBVIOUS
  <1>2. /\ Shaped(q) /\ q.receipt = new /\ q.receipt # NoReceipt /\ q.id = o.id /\ q.kind = o.kind /\ q.stage = o.stage
        /\ q.then = o.then /\ q.update = o.update
        /\ (Calm(o) => Base(q)) /\ (Ahead(o) => Ahead(q)) /\ DOMAIN q = FlowFields
    BY <1>0, <1>1, WithReceiptBase DEF Base, Shaped
  <1>3. CASE Opening(o) /\ o.then = "begun" /\ o.stage = 0
    <2>1. Base(q) /\ q.stage = 0
      BY <1>2, <1>3 DEF Opening
    <2>2. Leads(q, AfterPrepared(q))
      BY <1>0, <1>2, <2>1, AfterPreparedLeads
    <2>3. Published(q) = AfterPrepared(q)
      BY <1>2, <1>3 DEF Published
    <2>4. QED BY <1>1, <1>2, <2>2, <2>3, LeadsAlike
  <1>4. CASE Opening(o) /\ o.then = "ready" /\ o.stage = 0 /\ o.kind = "apply"
    <2>1. Base(q) /\ Where(q, "second")
      BY <1>2, <1>4 DEF Opening, Where, Reads, Early
    <2>2. Leads(q, Reading(q, SceneParts, "second"))
      BY <2>1, ReadingLeads
    <2>3. Published(q) = Reading(q, SceneParts, "second")
      BY <1>2, <1>4 DEF Published
    <2>4. QED BY <1>1, <1>2, <2>2, <2>3, LeadsAlike
  <1>5. CASE Opening(o) /\ o.then = "closed" /\ o.kind = "apply"
    <2>1. Base(q) /\ Where(q, "final")
      BY <1>2, <1>5 DEF Opening, Where, Reads, Early
    <2>2. Leads(q, Reading(q, SceneParts, "final"))
      BY <2>1, ReadingLeads
    <2>3. Published(q) = Reading(q, SceneParts, "final")
      BY <1>2, <1>5 DEF Published
    <2>4. QED BY <1>1, <1>2, <2>2, <2>3, LeadsAlike
  <1>6. CASE o.then = "end"
    <2>1. Published(q) = NoFlow(q.result)
      BY <1>2, <1>6 DEF Published
    <2>2. QED BY <1>1, <2>1, OverFlow
  <1>7. CASE Opening(o) /\ o.then = "send" /\ o.update.what = "dispatch" /\ Ahead(o)
    <2>1. PICK p : p = [q EXCEPT !.pc = "send"]
      OBVIOUS
    <2>2. Published(q) = p
      BY <1>2, <1>7, <2>1 DEF Published
    <2>3. Alike(q, p, {"pc"}) /\ p.pc = "send"
      BY <1>2, <2>1 DEF Alike, FlowFields
    <2>4. DOMAIN p = FlowFields /\ p.kind = q.kind /\ p.id = q.id /\ p.stage = q.stage /\ p.receipt = q.receipt
      BY <1>2, <2>3 DEF Alike, FlowFields
    <2>5. Shaped(p)
      BY <1>2, <2>4 DEF Shaped
    <2>6. Calm(p) /\ Ahead(p)
      BY <1>2, <1>7, <2>4 DEF Opening, Base, Calm, Ahead
    <2>7. InFlight(p)
      BY <1>2, <1>7, <2>4 DEF InFlight, Departs
    <2>8. FlowCore(p)
      BY <2>3, <2>5, <2>6, <2>7 DEF FlowCore
    <2>9. QED BY <1>1, <1>2, <2>2, <2>4, <2>8
  <1>8. CASE Settling(o)
    <2>1. Published(q) = AfterFrame(q)
      BY <1>2, <1>8 DEF Published, Settling
    <2>2. CASE o.update.what # "acknowledged"
      <3>1. AfterFrame(q) = NoFlow(q.update.what)
        BY <1>2, <2>2 DEF AfterFrame
      <3>2. QED BY <1>1, <2>1, <3>1, OverFlow
    <2>3. CASE o.update.what = "acknowledged"
      <3>1. LastMine(o) /\ Reckoned(o) /\ InFlight(o)
        BY <1>8, <2>3 DEF Settling
      <3>2. Base(q)
        BY <1>0, <1>2, <3>1, AnsweredCalm
      <3>3. o.stage > 0
        BY <1>0, <3>1 DEF InFlight, Shaped, ReceiptShape
      <3>4. Leads(q, AfterFrame(q))
        BY <1>2, <2>3, <3>2, <3>3, AfterFrameLeads
      <3>5. QED BY <1>1, <1>2, <2>1, <3>4, LeadsAlike
    <2>4. QED BY <2>2, <2>3
  <1>9. QED BY <1>0, <1>3, <1>4, <1>5, <1>6, <1>7, <1>8 DEF Opening

\* prepare_* and update_*.
Legal(new) ==
    /\ new = IF flow.update.what = "prepare" THEN flow.receipt ELSE Updated(flow.receipt, flow.update)
    /\ new # NoReceipt
    /\ receipts[flow.id] = IF flow.update.what = "prepare" THEN NoReceipt ELSE flow.receipt
LEMMA LegalTells ==
  ASSUME WorkInv, flow.pc = "publish", NEW new, Legal(new)
  PROVE  /\ ReceiptShape(new) /\ new.kind = flow.kind /\ Told(flow.id, new)
         /\ flow.update.what = "dispatch" => Departs(flow, new)
  <1>1. FlowCore(flow)
    BY DEF WorkInv, FlowInv
  <1>2. flow.receipt.kind = flow.kind /\ (Opening(flow) \/ Settling(flow))
    BY <1>1 DEF FlowCore, Shaped
  <1>3. CASE flow.update.what = "prepare"
    BY <1>2, <1>3, PrepareTells DEF Legal
  <1>4. CASE flow.update.what # "prepare"
    <2>1. Moves(flow.receipt, new, flow.update) /\ Told(flow.id, new)
      BY <1>4, UpdateTells DEF Legal
    <2>2. ReceiptShape(new) /\ new.kind = flow.kind
      BY <1>2, <2>1 DEF Moves
    <2>3. flow.update.what = "dispatch" => Sends(new, flow.update) /\ flow.update.stage = flow.stage
      BY <1>2, <2>1 DEF Moves, Opening, Settling
    <2>4. QED BY <2>1, <2>2, <2>3 DEF Sends, Departs
  <1>5. QED BY <1>3, <1>4

LEMMA FailedLeads ==
  ASSUME NEW o, FlowCore(o), o.pc = "publish", NEW result
  PROVE  Leads(o, Finish(o, result))
  <1>1. CASE Opening(o)
    BY <1>1, FinishLeads DEF FlowCore, Opening, Base
  <1>2. CASE Settling(o)
    <2>1. Finish(o, result) = NoFlow(result)
      BY <1>2 DEF Settling, InFlight, Finish
    <2>2. QED BY <2>1, OverFlow
  <1>3. QED BY <1>1, <1>2 DEF FlowCore

LEMMA PublicationKeeps ==
  ASSUME WorkInv, NEW outcome \in {"unchanged", "doubtful", "published"}, Publish(outcome)
  PROVE  WorkInv'
  <1>1. flow.pc = "publish" /\ UNCHANGED <<script, sent>>
    BY DEF Publish, outside
  <1>2. FlowCore(flow) /\ Own(flow) /\ Store /\ Script /\ FlowInv(flow)
    BY <1>1 DEF WorkInv, FlowInv
  <1>3. PICK new : new = IF flow.update.what = "prepare" THEN flow.receipt ELSE Updated(flow.receipt, flow.update)
    OBVIOUS
  <1>4. \/ Legal(new) /\ receipts' = [receipts EXCEPT ![flow.id] = new] /\ flow' = Published(WithReceipt(flow, new))
        \/ /\ receipts' = receipts \/ (Legal(new) /\ receipts' = [receipts EXCEPT ![flow.id] = new])
           /\ \E result : flow' = NoFlow(result) \/ flow' = Finish(flow, result)
    BY <1>3 DEF Publish, Legal, WithReceipt
  <1>5. Script'
    BY <1>1, <1>2 DEF Script
  <1>6. flow.id \in 1..Len(receipts) /\ IsSeq(receipts)
    BY <1>2 DEF Own, Store
  <1>7. ASSUME Legal(new), receipts' = [receipts EXCEPT ![flow.id] = new]
        PROVE  Store' /\ Len(receipts') = Len(receipts) /\ receipts'[flow.id] = new
    <2>1. SeqPut(receipts, receipts', flow.id, new)
      BY <1>6, <1>7, SeqSet
    <2>2. ReceiptShape(new) /\ Told(flow.id, new)
      BY <1>1, <1>7, LegalTells
    <2>3. QED BY <1>1, <1>2, <1>6, <2>1, <2>2, ReceiptPut
  <1>8. CASE Legal(new) /\ receipts' = [receipts EXCEPT ![flow.id] = new] /\ flow' = Published(WithReceipt(flow, new))
    <2>1. Store' /\ Len(receipts') = Len(receipts) /\ receipts'[flow.id] = new
      BY <1>7, <1>8
    <2>2. ReceiptShape(new) /\ new.kind = flow.kind /\ (flow.update.what = "dispatch" => Departs(flow, new))
      BY <1>1, <1>8, LegalTells
    <2>3. Leads(flow, flow') \/ (FlowCore(flow') /\ flow'.id = flow.id /\ flow'.receipt = new)
      BY <1>1, <1>2, <1>8, <2>2, PublishedLeads
    <2>4. CASE Leads(flow, flow')
      BY <1>1, <1>2, <1>5, <2>1, <2>4, LeadsOn DEF WorkInv
    <2>5. CASE FlowCore(flow') /\ flow'.id = flow.id /\ flow'.receipt = new
      <3>1. FlowCore(flow)'
        BY <1>1, <2>5, FlowCoreStays
      <3>2. Own(flow)'
        BY <1>6, <2>1, <2>5 DEF Own
      <3>3. QED BY <1>5, <2>1, <3>1, <3>2 DEF WorkInv, FlowInv
    <2>6. QED BY <2>3, <2>4, <2>5
  <1>9. CASE /\ receipts' = receipts \/ (Legal(new) /\ receipts' = [receipts EXCEPT ![flow.id] = new])
             /\ \E result : flow' = NoFlow(result) \/ flow' = Finish(flow, result)
    <2>1. Store' /\ Len(receipts') = Len(receipts)
      BY <1>1, <1>2, <1>7, <1>9, StoreStays
    <2>2. Leads(flow, flow')
      BY <1>1, <1>2, <1>9, FailedLeads, OverFlow
    <2>3. QED BY <1>1, <1>2, <1>5, <2>1, <2>2, LeadsOn DEF WorkInv
  <1>10. QED BY <1>4, <1>8, <1>9

\* The frame leaves, or is refused at the gate.
LEMMA SendFrameKeeps ==
  ASSUME WorkInv, NEW refused \in BOOLEAN, SendFrame(refused)
  PROVE  WorkInv'
  <1>1. flow.pc = "send" /\ UNCHANGED <<script, receipts>>
    BY DEF SendFrame
  <1>2. FlowCore(flow) /\ Own(flow) /\ Store /\ Script
    BY <1>1 DEF WorkInv, FlowInv
  <1>3. /\ Shaped(flow) /\ DOMAIN flow = FlowFields /\ InFlight(flow) /\ Calm(flow) /\ Ahead(flow)
        /\ receipts[flow.id] = flow.receipt /\ flow.id \in 1..Len(receipts)
    BY <1>1, <1>2 DEF FlowCore, Own, Shaped
  <1>4. Script'
    BY <1>1, <1>2 DEF Script
  <1>5. PICK u : u = Update("notdispatched", 0, 0, NoCounts)
    OBVIOUS
  <1>6. PICK x : x = [id |-> flow.id, stage |-> flow.stage, effects |-> flow.effects,
                      halt |-> Halts(flow.kind, flow.stage), fate |-> "sent", rows |-> <<>>, uuid |-> 0]
    OBVIOUS
  <1>7. \/ flow' = Publishing(flow, u, "settled") /\ sent' = sent
        \/ flow' = [flow EXCEPT !.pc = "wait"] /\ sent' = Append(sent, x)
    BY <1>5, <1>6 DEF SendFrame
  <1>8. CASE flow' = Publishing(flow, u, "settled") /\ sent' = sent
    <2>1. PICK q : q = flow'
      OBVIOUS
    <2>2. /\ Alike(flow, q, Loose) /\ q.pc = "publish" /\ q.then = "settled" /\ q.update.what = "notdispatched"
      BY <1>3, <1>5, <1>8, <2>1, PublishingFacts, UpdateFields
    <2>3. Base(flow)
      BY <1>3 DEF Base
    <2>4. Base(q) /\ q.id = flow.id /\ q.stage = flow.stage /\ q.receipt = flow.receipt
      BY <2>2, <2>3, BaseAlike
    <2>5. InFlight(q) /\ Ahead(q)
      BY <1>3, <2>4 DEF InFlight, Ahead
    <2>6. Settling(q)
      BY <2>2, <2>4, <2>5 DEF Settling, Base
    <2>7. Leads(flow, q)
      BY <2>2, <2>4, <2>5, <2>6 DEF Leads, FlowCore, Base, InFlight
    <2>8. QED BY <1>1, <1>8, <2>1, <2>7, LeadsKeeps
  <1>9. CASE flow' = [flow EXCEPT !.pc = "wait"] /\ sent' = Append(sent, x)
    <2>1. SeqGrow(sent, sent', x)
      BY <1>2, <1>9, SeqAdd DEF Store
    <2>2. /\ IsSeq(sent') /\ Len(sent) \in Nat /\ Len(sent') = Len(sent) + 1 /\ sent'[Len(sent) + 1] = x /\ sent' # <<>>
          /\ \A j \in 1..Len(sent) : sent'[j] = sent[j]
      BY <2>1 DEF SeqGrow
    <2>3. DOMAIN x = SentFields /\ x.id = flow.id /\ x.stage = flow.stage /\ x.effects = flow.effects /\ x.fate = "sent"
      BY <1>6 DEF SentFields
    <2>4. ReceiptShape(flow.receipt)
      BY <1>3 DEF InFlight, Shaped
    <2>5. Tells(flow.receipt, x)
      <3>1. x.stage \in 1..Len(flow.receipt.stages)
        BY <1>3, <2>3, <2>4 DEF InFlight, ReceiptShape
      <3>2. Blocking(flow.receipt)
        BY <1>3 DEF InFlight, Blocking
      <3>3. QED BY <1>3, <2>3, <3>1, <3>2 DEF InFlight, Tells
    <2>6. SentShape(x)
      BY <1>3, <2>3, <2>5 DEF SentShape
    <2>7. \A j \in 1..Len(sent') : j \in 1..Len(sent) \/ j = Len(sent) + 1
      BY <2>2
    <2>8. \A j \in 1..Len(sent') : SentShape(sent'[j])
      BY <1>2, <2>2, <2>6, <2>7 DEF Store
    <2>9. Store'
      BY <1>1, <1>2, <2>2, <2>8 DEF Store, SentShape
    <2>10. Alike(flow, flow', {"pc"}) /\ flow'.pc = "wait"
      BY <1>3, <1>9 DEF Alike, FlowFields
    <2>11. /\ DOMAIN flow' = FlowFields /\ flow'.id = flow.id /\ flow'.stage = flow.stage /\ flow'.kind = flow.kind
           /\ flow'.receipt = flow.receipt /\ flow'.effects = flow.effects
      BY <1>3, <2>10 DEF Alike, FlowFields
    <2>12. Shaped(flow)' /\ InFlight(flow)'
      BY <1>3, <2>11 DEF Shaped, InFlight
    <2>13. Len(sent') - 1 = Len(sent)
      BY <2>2
    <2>14. \A n \in 1..Len(sent) : sent'[n].id = flow.id => sent'[n].stage < flow.stage /\ sent'[n].fate # "sent"
      BY <1>3, <2>2 DEF Calm, Ahead
    <2>15. LastMine(flow)'
      BY <2>2, <2>3, <2>11, <2>13, <2>14 DEF LastMine
    <2>16. FlowCore(flow)'
      BY <2>10, <2>12, <2>15 DEF FlowCore
    <2>17. Own(flow)'
      BY <1>1, <1>3, <2>11 DEF Own
    <2>18. QED BY <1>4, <2>9, <2>16, <2>17 DEF WorkInv, FlowInv
  <1>10. QED BY <1>7, <1>8, <1>9

\* What is recorded of the frame that was waited for.
LEMMA SettlesNext ==
  ASSUME NEW o, Shaped(o), InFlight(o), LastMine(o), NEW q, Alike(o, q, Loose \ {"effects"}), q.pc = "publish",
         q.then = "settled", q.update.what = "unknown" \/ (q.update.what = "acknowledged" /\ Reckoned(q))
  PROVE  Leads(o, q)
  <1>1. DOMAIN o = FlowFields
    BY DEF Shaped
  <1>2. /\ DOMAIN q = FlowFields /\ q.kind = o.kind /\ q.id = o.id /\ q.stage = o.stage /\ q.receipt = o.receipt
        /\ q.effects = o.effects
    BY <1>1 DEF Alike, Loose, FlowFields
  <1>3. Shaped(q) /\ InFlight(q) /\ LastMine(q)
    BY <1>2 DEF Shaped, InFlight, LastMine
  <1>4. Settling(q)
    BY <1>3 DEF Settling
  <1>5. QED BY <1>2, <1>3, <1>4 DEF Leads, FlowCore, InFlight

LEMMA RepliedKeeps ==
  ASSUME WorkInv, NEW answered \in BOOLEAN, Replied(answered)
  PROVE  WorkInv'
  <1>1. flow.pc = "wait" /\ UNCHANGED <<script, receipts, sent>>
    BY DEF Replied, outside
  <1>2. Shaped(flow) /\ InFlight(flow) /\ LastMine(flow) /\ DOMAIN flow = FlowFields
    BY <1>1 DEF WorkInv, FlowInv, FlowCore, Shaped
  <1>3. PICK counts : counts = CountsOf(Last(sent).rows, Len(flow.effects))
    OBVIOUS
  <1>4. \/ /\ Last(sent).fate = "done"
           /\ flow' = Publishing([flow EXCEPT !.facts = @ + 1], Update("acknowledged", 0, 0, counts), "settled")
        \/ flow' = Publishing(flow, Update("unknown", 0, 0, NoCounts), "settled")
    BY <1>3 DEF Replied, SilentOutcome
  <1>5. CASE /\ Last(sent).fate = "done"
             /\ flow' = Publishing([flow EXCEPT !.facts = @ + 1], Update("acknowledged", 0, 0, counts), "settled")
    <2>1. PICK q : q = flow'
      OBVIOUS
    <2>2. PICK u : u = Update("acknowledged", 0, 0, counts)
      OBVIOUS
    <2>3. u.what = "acknowledged" /\ u.counts = counts
      BY <2>2, UpdateFields
    <2>4. q = Publishing([flow EXCEPT !.facts = @ + 1], u, "settled")
      BY <1>5, <2>1, <2>2
    <2>5. Alike(flow, q, Loose \ {"effects"}) /\ q.pc = "publish" /\ q.then = "settled" /\ q.update = u
      BY <1>2, <2>4 DEF Publishing, Alike, Loose, FlowFields
    <2>6. Reckoned(q)
      BY <1>2, <1>3, <1>5, <2>3, <2>5 DEF LastMine, Reckoned, Last
    <2>7. Leads(flow, q)
      BY <1>2, <2>3, <2>5, <2>6, SettlesNext
    <2>8. QED BY <1>1, <2>1, <2>7, LeadsKeeps
  <1>6. CASE flow' = Publishing(flow, Update("unknown", 0, 0, NoCounts), "settled")
    <2>1. PICK q : q = flow'
      OBVIOUS
    <2>2. PICK u : u = Update("unknown", 0, 0, NoCounts)
      OBVIOUS
    <2>3. u.what = "unknown"
      BY <2>2, UpdateFields
    <2>4. q = Publishing(flow, u, "settled")
      BY <1>6, <2>1, <2>2
    <2>5. Alike(flow, q, Loose \ {"effects"}) /\ q.pc = "publish" /\ q.then = "settled" /\ q.update = u
      BY <1>2, <2>4 DEF Publishing, Alike, Loose, FlowFields
    <2>6. Leads(flow, q)
      BY <1>2, <2>3, <2>5, SettlesNext
    <2>7. QED BY <1>1, <2>1, <2>6, LeadsKeeps
  <1>7. QED BY <1>4, <1>5, <1>6

-----------------------------------------------------------------------------
\* What OBS, its user and the process do beside the workflow.
SameFrame(x, y) ==
    /\ DOMAIN y = DOMAIN x /\ y.id = x.id /\ y.stage = x.stage /\ y.effects = x.effects
    /\ y = x \/ (x.fate = "sent" /\ y.fate # "sent")
SameWay(s, t) == IsSeq(t) /\ Len(t) = Len(s) /\ \A n \in 1..Len(s) : SameFrame(s[n], t[n])
Undisturbed(o) == o' = o \/ (o.pc # "idle" /\ Alike(o, o', {"quiet"}))

LEMMA SameTold ==
  ASSUME NEW r, NEW x, NEW y, Tells(r, x), SameFrame(x, y)
  PROVE  Tells(r, y)
  BY DEF Tells, SameFrame

LEMMA BesideKeeps ==
  ASSUME WorkInv, Script', receipts' = receipts, SameWay(sent, sent'), Undisturbed(flow)
  PROVE  WorkInv'
  <1>1. Store /\ FlowInv(flow) /\ IsSeq(sent') /\ Len(sent') = Len(sent) /\ Len(sent) \in Nat
    BY SeqBasics DEF WorkInv, Store, SameWay
  <1>2. \A n \in 1..Len(sent) : SameFrame(sent[n], sent'[n])
    BY DEF SameWay
  <1>3. Store'
    <2>1. ASSUME NEW n \in 1..Len(sent)
          PROVE  SentShape(sent'[n])
      <3>1. SentShape(sent[n]) /\ SameFrame(sent[n], sent'[n])
        BY <1>1, <1>2 DEF Store
      <3>2. Tells(receipts[sent[n].id], sent'[n])
        BY <3>1, SameTold DEF SentShape
      <3>3. QED BY <3>1, <3>2 DEF SentShape, SameFrame
    <2>2. QED BY <1>1, <2>1 DEF Store, SentShape
  <1>4. CASE flow.pc = "idle"
    BY <1>3, <1>4 DEF Undisturbed, WorkInv, FlowInv
  <1>5. CASE flow.pc # "idle"
    <2>1. FlowCore(flow) /\ Own(flow) /\ DOMAIN flow = FlowFields
      BY <1>1, <1>5 DEF FlowInv, FlowCore, Shaped
    <2>2. Alike(flow, flow', {"quiet"})
      BY DEF Undisturbed, Alike
    <2>3. /\ DOMAIN flow' = FlowFields /\ flow'.pc = flow.pc /\ flow'.kind = flow.kind /\ flow'.id = flow.id
          /\ flow'.stage = flow.stage /\ flow'.receipt = flow.receipt /\ flow'.effects = flow.effects
          /\ flow'.then = flow.then /\ flow'.update = flow.update
      BY <2>1, <2>2 DEF Alike, FlowFields
    <2>4. Shaped(flow) => Shaped(flow)'
      BY <2>3 DEF Shaped
    <2>5. InFlight(flow) => InFlight(flow)'
      BY <2>3 DEF InFlight
    <2>6. Where(flow, flow.then) => Where(flow, flow.then)'
      BY <2>3 DEF Where
    <2>7. Calm(flow) => Calm(flow)'
      BY <1>1, <1>2, <2>3 DEF Calm, SameFrame
    <2>8. Ahead(flow) => Ahead(flow)'
      BY <1>1, <1>2, <2>3 DEF Ahead, SameFrame
    <2>9. LastMine(flow) => LastMine(flow)' /\ Len(sent) \in 1..Len(sent)
      <3>1. SUFFICES ASSUME LastMine(flow) PROVE LastMine(flow)' /\ Len(sent) \in 1..Len(sent)
        OBVIOUS
      <3>2. Len(sent) \in 1..Len(sent)
        BY <1>1, <3>1, SeqBasics DEF LastMine, WorkInv, Store
      <3>3. sent' # <<>>
        BY <1>1, <3>2
      <3>4. SameFrame(sent[Len(sent)], sent'[Len(sent)])
        BY <1>2, <3>2
      <3>5. \A n \in 1..(Len(sent) - 1) : n \in 1..Len(sent)
        BY <1>1
      <3>6. \A n \in 1..(Len(sent) - 1) :
               sent'[n].id = flow.id => sent'[n].stage < flow.stage /\ sent'[n].fate # "sent"
        BY <1>2, <3>1, <3>5 DEF LastMine, SameFrame
      <3>7. QED BY <1>1, <2>3, <3>1, <3>2, <3>3, <3>4, <3>6 DEF LastMine, SameFrame
    <2>10. LastMine(flow) /\ Reckoned(flow) => Reckoned(flow)'
      <3>1. SUFFICES ASSUME LastMine(flow), Reckoned(flow) PROVE Reckoned(flow)'
        OBVIOUS
      <3>2. SameFrame(sent[Len(sent)], sent'[Len(sent)])
        BY <1>2, <2>9, <3>1
      <3>3. QED BY <1>1, <2>3, <3>1, <3>2 DEF Reckoned, SameFrame
    <2>11. Opening(flow) => Opening(flow)'
      BY <2>3, <2>7, <2>8 DEF Opening
    <2>12. Settling(flow) => Settling(flow)'
      BY <2>3, <2>5, <2>7, <2>8, <2>9, <2>10 DEF Settling
    <2>13. FlowCore(flow)'
      BY <2>1, <2>3, <2>4, <2>5, <2>6, <2>7, <2>8, <2>9, <2>11, <2>12 DEF FlowCore
    <2>14. Own(flow)'
      BY <2>1, <2>3 DEF Own
    <2>15. QED BY <1>3, <2>13, <2>14 DEF WorkInv, FlowInv
  <1>6. QED BY <1>4, <1>5

LEMMA SpendKeepsScript ==
  ASSUME Script, NEW what, what # "runs", Spend(what)
  PROVE  Script'
  <1>1. DOMAIN script' = DOMAIN script /\ script'.runs = script.runs
    BY DEF Spend, Script
  <1>2. QED BY <1>1 DEF Script

LEMMA StaysSame ==
  ASSUME Store, sent' = sent
  PROVE  SameWay(sent, sent')
  BY DEF Store, SameWay, SameFrame

LEMMA DisturbedRests ==
  ASSUME FlowInv(flow), flow' = Disturbed(flow)
  PROVE  Undisturbed(flow)
  <1>1. CASE flow.pc = "idle"
    BY <1>1 DEF Disturbed, Undisturbed
  <1>2. CASE flow.pc # "idle"
    <2>1. DOMAIN flow = FlowFields
      BY <1>2 DEF FlowInv, FlowCore, Shaped
    <2>2. flow' = [flow EXCEPT !.quiet = FALSE]
      BY <1>2 DEF Disturbed
    <2>3. QED BY <1>2, <2>1, <2>2 DEF Undisturbed, Alike, FlowFields
  <1>3. QED BY <1>1, <1>2

LEMMA FrameEnds ==
  ASSUME Store, NEW n \in 1..Len(sent), NEW y, SameFrame(sent[n], y), sent' = [sent EXCEPT ![n] = y]
  PROVE  SameWay(sent, sent')
  <1>1. SeqPut(sent, sent', n, y)
    BY SeqSet DEF Store
  <1>2. /\ IsSeq(sent') /\ Len(sent') = Len(sent) /\ sent'[n] = y
        /\ \A j \in 1..Len(sent) : j # n => sent'[j] = sent[j]
    BY <1>1 DEF SeqPut
  <1>3. \A j \in 1..Len(sent) : SameFrame(sent[j], sent'[j])
    BY <1>2 DEF SameFrame
  <1>4. QED BY <1>2, <1>3 DEF SameWay

LEMMA ObsRunsKeeps ==
  ASSUME WorkInv, NEW n \in 1..Len(sent), NEW refused, ObsRuns(n, refused)
  PROVE  WorkInv'
  <1>1. Script /\ Store /\ FlowInv(flow) /\ receipts' = receipts /\ sent[n].fate = "sent"
    BY DEF WorkInv, ObsRuns
  <1>2. DOMAIN sent[n] = SentFields
    BY <1>1 DEF Store, SentShape
  <1>3. PICK rows, uuid : sent' = [sent EXCEPT ![n] = [sent[n] EXCEPT !.fate = "done", !.rows = rows, !.uuid = uuid]]
    BY DEF ObsRuns
  <1>4. PICK y : y = [sent[n] EXCEPT !.fate = "done", !.rows = rows, !.uuid = uuid]
    OBVIOUS
  <1>5. SameFrame(sent[n], y)
    BY <1>1, <1>2, <1>4 DEF SameFrame, SentFields
  <1>6. SameWay(sent, sent')
    BY <1>1, <1>3, <1>4, <1>5, FrameEnds
  <1>7. (UNCHANGED <<script, flow>>) \/ (Spend("refusals") /\ flow' = Disturbed(flow))
    BY DEF ObsRuns
  <1>8. Script'
    BY <1>1, <1>7, SpendKeepsScript DEF Script
  <1>9. Undisturbed(flow)
    BY <1>1, <1>7, DisturbedRests DEF Undisturbed
  <1>10. QED BY <1>1, <1>6, <1>8, <1>9, BesideKeeps

LEMMA FrameLostKeeps ==
  ASSUME WorkInv, NEW n \in 1..Len(sent), FrameLost(n)
  PROVE  WorkInv'
  <1>1. /\ Script /\ Store /\ FlowInv(flow) /\ receipts' = receipts /\ sent[n].fate = "sent"
        /\ Spend("refusals") /\ flow' = Disturbed(flow)
    BY DEF WorkInv, FrameLost
  <1>2. DOMAIN sent[n] = SentFields
    BY <1>1 DEF Store, SentShape
  <1>3. PICK y : y = [sent[n] EXCEPT !.fate = "lost"]
    OBVIOUS
  <1>4. SameFrame(sent[n], y)
    BY <1>1, <1>2, <1>3 DEF SameFrame, SentFields
  <1>5. sent' = [sent EXCEPT ![n] = y]
    BY <1>3 DEF FrameLost
  <1>6. SameWay(sent, sent')
    BY <1>1, <1>4, <1>5, FrameEnds
  <1>7. QED BY <1>1, <1>6, SpendKeepsScript, DisturbedRests, BesideKeeps

LEMMA UserEditsKeeps ==
  ASSUME WorkInv, NEW w, UserEdits(w)
  PROVE  WorkInv'
  <1>1. /\ Script /\ Store /\ FlowInv(flow) /\ receipts' = receipts /\ sent' = sent
        /\ Spend("edits") /\ flow' = Disturbed(flow)
    BY DEF WorkInv, UserEdits
  <1>2. QED BY <1>1, SpendKeepsScript, DisturbedRests, StaysSame, BesideKeeps

LEMMA FlowRests ==
  ASSUME WorkInv, UNCHANGED <<script, receipts, flow, sent>>
  PROVE  WorkInv'
  <1>1. Script' /\ Store
    BY DEF WorkInv, Script
  <1>2. QED BY <1>1, StaysSame, BesideKeeps DEF Undisturbed

LEMMA FlowCrashKeeps ==
  ASSUME WorkInv, FlowCrash
  PROVE  WorkInv'
  <1>1. Script /\ Store /\ UNCHANGED <<receipts, sent>> /\ Spend("crashes") /\ flow' = NoFlow("crashed")
    BY DEF WorkInv, FlowCrash
  <1>2. Script' /\ Store'
    BY <1>1, SpendKeepsScript, StoreStays
  <1>3. flow'.pc = "idle"
    BY <1>1 DEF NoFlow
  <1>4. QED BY <1>2, <1>3 DEF WorkInv, FlowInv

LEMMA FlowStarts ==
  ASSUME NEW s \in Scenarios, FlowInit(s)
  PROVE  WorkInv
  <1>1. script = s /\ receipts = <<>> /\ sent = <<>> /\ flow = NoFlow("none")
    BY DEF FlowInit
  <1>2. PICK T : T = {r \in Range(s.runs) : r.kind \in WorkflowKinds}
    OBVIOUS
  <1>3. "runs" \in DOMAIN s /\ s.runs \in Seq(T)
    BY <1>2, WorkflowsAssumption
  <1>4. \A i \in 1..Len(s.runs) : s.runs[i] \in T
    BY <1>3, ElementOfSeq
  <1>5. Script
    BY <1>1, <1>2, <1>3, <1>4 DEF Script, IsSeq
  <1>6. <<>> \in Seq({}) /\ Len(<<>>) = 0
    OBVIOUS
  <1>7. Store
    BY <1>1, <1>6 DEF Store, IsSeq
  <1>8. flow.pc = "idle"
    BY <1>1 DEF NoFlow
  <1>9. QED BY <1>5, <1>7, <1>8 DEF WorkInv, FlowInv

LEMMA FlowSteps ==
  ASSUME WorkInv, FlowNext
  PROVE  WorkInv'
  <1>1. CASE Run \/ Stamp \/ ReadPart \/ SampleComplete \/ FlowFails
    BY <1>1, RunKeeps, StampKeeps, ReadPartKeeps, SampleCompleteKeeps, FlowFailsKeeps
  <1>2. CASE \E outcome \in {"unchanged", "doubtful", "saved"} : Save(outcome)
    BY <1>2, SaveKeeps
  <1>3. CASE \E outcome \in {"unchanged", "doubtful", "published"} : Publish(outcome)
    BY <1>3, PublicationKeeps
  <1>4. CASE \E refused \in BOOLEAN : SendFrame(refused)
    BY <1>4, SendFrameKeeps
  <1>5. CASE \E answered \in BOOLEAN : Replied(answered)
    BY <1>5, RepliedKeeps
  <1>6. CASE \E n \in 1..Len(sent) :
                \/ FrameLost(n)
                \/ ObsRuns(n, {})
                \/ \E i \in 1..Len(sent[n].effects) : ObsRuns(n, {i})
    BY <1>6, FrameLostKeeps, ObsRunsKeeps
  <1>7. CASE \E w \in Edits(world) : UserEdits(w)
    BY <1>7, UserEditsKeeps
  <1>8. CASE Announced
    BY <1>8, FlowRests DEF Announced
  <1>9. CASE FlowCrash
    BY <1>9, FlowCrashKeeps
  <1>10. QED BY <1>1, <1>2, <1>3, <1>4, <1>5, <1>6, <1>7, <1>8, <1>9 DEF FlowNext

LEMMA FlowHonest ==
  ASSUME WorkInv
  PROVE  ReceiptsAreHonest
  <1>1. ASSUME NEW n \in 1..Len(sent)
        PROVE  Tells(receipts[sent[n].id], sent[n])
    BY DEF WorkInv, Store, SentShape
  <1>2. QED BY <1>1 DEF ReceiptsAreHonest, Tells

-----------------------------------------------------------------------------
(* Both journals, whatever part of Plans runs.                             *)

JournalInv == PrepInv /\ WorkInv

LEMMA JournalStarts ==
  ASSUME Init
  PROVE  JournalInv
  <1>1. PrepInv
    BY PrepStarts DEF Init
  <1>2. PICK s \in Runs("workflow", Scenarios) : FlowInit(s)
    BY DEF Init
  <1>3. Some(Scenarios) \in Scenarios
    BY WorkflowsAssumption DEF Some
  <1>4. s \in Scenarios
    BY <1>2, <1>3 DEF Runs
  <1>5. QED BY <1>1, <1>2, <1>4, FlowStarts DEF JournalInv

LEMMA JournalSteps ==
  ASSUME JournalInv, [Next]_planVars
  PROVE  JournalInv' /\ FrameGrounded
  <1>1. PrepInv /\ WorkInv
    BY DEF JournalInv
  <1>2. PrepNext \/ UNCHANGED prepVars
    BY DEF Next, planVars, InWorkflow, Trimming, InProcess, InMedia, InSave, InStart
  <1>3. FlowNext \/ UNCHANGED flowVars
    BY DEF Next, planVars, Preparing, Trimming, InProcess, InMedia, InSave, InStart
  <1>4. PrepInv' /\ FrameGrounded
    BY <1>1, <1>2, PrepSteps, PrepRests
  <1>5. UNCHANGED flowVars => UNCHANGED <<script, receipts, flow, sent>>
    BY DEF flowVars
  <1>6. WorkInv'
    BY <1>1, <1>3, <1>5, FlowSteps, FlowRests
  <1>7. QED BY <1>4, <1>6 DEF JournalInv

\* The journals on disk, the owner's copy and the frames that left stay in
\* step in every state, through failed publications, crashes and late answers.
THEOREM JournalHolds == Spec => []JournalInv
  <1>1. Init => JournalInv
    BY JournalStarts
  <1>2. JournalInv /\ [Next]_planVars => JournalInv'
    BY JournalSteps
  <1>3. QED BY <1>1, <1>2, PTL DEF Spec

\* The journal of a preparation and the receipts of the scene workflows never
\* deny a frame that left and claim an outcome only if OBS gave it; a frame
\* that OBS may still run keeps every later workflow out.
THEOREM PlanReceiptsHonest == Spec => []PlanReceiptsAreHonest
  <1>1. JournalInv => PlanReceiptsAreHonest
    BY PrepTyped, PrepHonest, FlowHonest DEF JournalInv, PlanReceiptsAreHonest
  <1>2. QED BY <1>1, JournalHolds, PTL

\* A recovery sends a frame only for a field that the preparation owns and
\* that was just seen to hold the prepared value; nothing follows a frame in
\* doubt, and a preparation sends no field twice.
THEOREM RecoveryGrounded == Spec => RecoveryTouchesOnlyItsOwn
  <1>1. JournalInv /\ [Next]_planVars => FrameGrounded
    BY JournalSteps
  <1>2. FrameGrounded =>
          [Len(frames') > Len(frames) =>
             LET x == Last(frames')
                 j == durable[x.id]
             IN /\ heard = {}
                /\ Status(AttemptOf(j, x)) = "possible"
                /\ x.kind = "recover" => OwnsRestore(j, x.field) /\ op.sample[x.field] = "t"
                /\ \A n \in 1..Len(frames) : frames[n].id = x.id =>
                       /\ Status(AttemptOf(j, frames[n])) \notin Doubtful
                       /\ x.kind = "prepare" => frames[n].field # x.field]_prepVars
    BY DEF FrameGrounded
  <1>3. QED BY <1>1, <1>2, JournalHolds, PTL DEF Spec, RecoveryTouchesOnlyItsOwn

\* No effect without its grounds: recovery frames, published names, verified
\* replays, saves and starts that are sent.
THEOREM EffectsGrounded == Spec => EffectsHaveTheirGrounds
  BY RecoveryGrounded, FilesUnreplaced, SavesGrounded, StartsHonest DEF EffectsHaveTheirGrounds
=============================================================================
