--------------------------- MODULE EvidenceProofs ---------------------------
(***************************************************************************)
(* Machine-checked proofs about the observer, its clients and the stage    *)
(* (modules Observation, Control and Stage), for any number of events,     *)
(* permits, callers, stages and takes.                                     *)
(*                                                                         *)
(* Everything rests on one bookkeeping fact: the published revision of a   *)
(* profile is the number of invalidating events among those published      *)
(* (Ordered).  The clients compare cursors and revisions, never events;    *)
(* the invariants say what such a comparison is worth: what a feed has     *)
(* applied (Feeding), what a cell without a result rules out (Waiting,     *)
(* Saving), and what a reply says of a field while the revision stands     *)
(* (Sampling).  For the stage they say what a call and a token still stand *)
(* for (Staged, Spent).                                                    *)
(***************************************************************************)
EXTENDS Stage, SequenceTheorems, FiniteSetTheorems, TLAPS

-----------------------------------------------------------------------------
(* The shape of the state.                                                 *)

Messages == [kind : Kinds] \cup [kind : {"reply"}, value : -1..1]
Arrivals == [kind : Kinds, late : BOOLEAN]
ObserverRecords ==
    [pc : {"idle", "revised", "progressed", "projected", "ended"}, event : Nat]
EvidenceRecords == [rev : [Profiles -> Nat], connected : BOOLEAN, cancelled : BOOLEAN]
Views == [cursor : Nat, seen : Seq(Nat)]
FeedRecords ==
    [active : BOOLEAN, ended : BOOLEAN, queue : Seq(Nat), applied : Nat, seen : Seq(Nat),
     from : Nat, view : Views]
CellRecords ==
    [active : BOOLEAN, pc : {"off", "look", "clock", "last", "wait", "done"},
     result : Int, after : Nat, progress : Nat, cutoff : Int,
     outcome : {"none", "got", "revoked", "expired", "unsettled"}]
ReplayRecords ==
    [active : BOOLEAN,
     pc : {"off", "subscribed", "candidate", "failed", "saved", "barrier", "confirmed"},
     armed : Int, seen : Nat, path : Nat, issue : BOOLEAN, progress : Nat, expected : Nat,
     barrier : Nat]
SampleRecords ==
    [pc : {"off", "read", "asked", "awaiting", "replied", "barrier", "loaded", "accepted",
           "failed"},
     profile : Profiles, frozen : Nat, value : -1..1, values : Seq(-1..1), target : Nat,
     loaded : Nat, mid : [Fields -> 0..1]]
TokenRecords == [value : -1..1, serial : Nat, expired : BOOLEAN]
StageRecords ==
    [pc : {"idle", "sync", "begin", "inspect", "queued", "sent", "again", "compare", "verify"},
     call : {"stage", "take"}, caller : Everyone, stages : 0..MaxStages, takes : 0..MaxTakes,
     receipt : Receipts, sent : BOOLEAN, cancelled : BOOLEAN, program : {"old", "new"},
     used : TokenRecords, before : -1..1]
SendRecords ==
    [call : {"stage", "take"}, serial : Nat, unseen : Int, held : BOOLEAN, cancelled : BOOLEAN]

Shape ==
    /\ client \in Clients /\ world \in [Fields -> 0..1] /\ changes \in Nat
    /\ socket \in Seq(Messages) /\ received \in Seq(Arrivals) /\ inbox \in Seq(Nat)
    /\ alive \in BOOLEAN /\ late \in BOOLEAN
    /\ observer \in ObserverRecords /\ evidence \in EvidenceRecords /\ processed \in Nat
    /\ feed \in FeedRecords /\ cell \in CellRecords /\ replay \in ReplayRecords
    /\ sample \in SampleRecords
    /\ stage \in StageRecords /\ token \in TokenRecords /\ sends \in Seq(SendRecords)
    /\ ControlTypeOK

-----------------------------------------------------------------------------
(* The observer and its clients.                                           *)

\* The events among the first m of s that invalidate a profile.
Count(s, p, m) == Cardinality({n \in 1..m : Invalidates(p, s[n].kind)})

Published == IF observer.pc = "revised" THEN processed + 1 ELSE processed
Projected == IF observer.pc = "progressed" THEN processed - 1 ELSE processed

Ordered ==
    /\ Published <= cursor
    /\ \A i \in 1..Len(inbox) : inbox[i] \in 1..cursor
    /\ observer.pc = "revised" => observer.event = processed + 1
    /\ observer.pc \in {"progressed", "projected"} =>
          /\ observer.event = processed /\ processed > 0
          /\ cell.progress = processed - 1 /\ replay.progress = processed - 1
    /\ observer.pc \in {"idle", "revised", "ended"} =>
          cell.progress = processed /\ replay.progress = processed
    /\ \A p \in Profiles : evidence.rev[p] = Count(received, p, Published)

Feeding ==
    /\ \A i \in 1..Len(feed.queue) : feed.queue[i] \in 1..cursor
    /\ feed.from <= feed.applied /\ feed.applied <= cursor
    /\ feed.seen = [i \in 1..(feed.applied - feed.from) |-> feed.from + i]
    /\ \/ feed.active \/ feed.ended \/ ~evidence.connected
       \/ feed.seen = <<>> /\ feed.view.cursor = 0
    /\ TakeFenceMeansApplied

Waiting ==
    /\ cell.after <= cursor /\ cell.result \in -1..cursor
    /\ cell.pc = "off" => cell.result <= 0
    /\ cell.outcome # "none" => cell.pc = "done"
    /\ ~cell.active => cell.result # 0
    /\ cell.result > 0 =>
          /\ Eligible("record", cell.after, cell.result)
          /\ \A n \in 1..(cell.result - 1) : ~Eligible("record", cell.after, n)
    /\ cell.result = 0 /\ cell.pc \notin {"off", "done"} =>
          \A n \in 1..Projected : ~Eligible("record", cell.after, n)
    /\ cell.cutoff # Missing =>
          /\ late /\ cell.cutoff \in 0..cursor
          /\ \A n \in 1..cursor : n > cell.cutoff => received[n].late
    /\ cell.pc = "last" => cell.cutoff # Missing /\ cell.progress >= cell.cutoff
    /\ cell.outcome = "got" => cell.result > 0
    /\ cell.outcome = "expired" =>
          late /\ \A n \in 1..cursor : ~Eligible("record", cell.after, n)

Saving ==
    /\ replay.armed \in -1..cursor /\ replay.path \in 0..cursor
    /\ ~replay.active => replay.issue
    /\ replay.active /\ replay.issue => replay.seen > 1
    /\ replay.armed = Missing => replay.seen = 0 /\ replay.path = 0
    /\ replay.pc \in {"off", "subscribed"} => replay.armed = Missing
    /\ replay.pc \in {"candidate", "saved", "barrier", "confirmed"} => replay.armed # Missing
    /\ replay.armed # Missing /\ ~replay.issue =>
          /\ replay.seen = 0 <=> replay.path = 0
          /\ \A n \in 1..Projected : Eligible("saved", replay.armed, n) <=> n = replay.path
          /\ replay.path <= Projected
    /\ replay.pc \in {"saved", "barrier", "confirmed"} => replay.expected \in 1..cursor
    /\ replay.pc \in {"barrier", "confirmed"} =>
          replay.expected <= replay.barrier /\ replay.barrier <= cursor
    /\ ReplayPathIsTheOnlyOne

-----------------------------------------------------------------------------
(* The sample of a reader.                                                 *)

Reading == sample.pc \in {"asked", "awaiting", "replied", "barrier", "loaded"}
Watched == {f \in {"scene", "record"} : Invalidates(sample.profile, f)}

\* An invalidating event was received since the revision was frozen.
Stirred(m) == Count(received, sample.profile, m) > sample.frozen

\* A change of the field is among the first k messages of the socket.
Announced(f, k) == \E j \in 1..k : socket[j].kind = f

Fits(f, v) == v = Missing \/ v = sample.mid[f]

\* The second pass reads a field whose changes are watched.
Second == Len(sample.values) >= 2
Checked == Second /\ Asked \in Watched

\* A read in progress is one of the plan.
InPlan == Reading => Len(sample.values) < Len(PlanOf(sample.profile))

\* There is never more than the one reply, and none before the question.
Single ==
    /\ sample.pc \in {"off", "read", "asked", "replied", "barrier", "loaded"} =>
          \A k \in 1..Len(socket) : socket[k].kind # "reply"
    /\ \A j, k \in 1..Len(socket) :
          socket[j].kind = "reply" /\ socket[k].kind = "reply" => j = k

\* The numbers the sample carries.
Counted ==
    /\ Len(sample.values) <= 4
    /\ sample.pc = "off" => sample.values = <<>>
    /\ sample.pc # "off" => sample.frozen <= Count(received, sample.profile, cursor)
    /\ sample.pc = "loaded" => sample.loaded <= processed
    /\ sample.pc \in {"barrier", "loaded"} => sample.target <= cursor

\* In the second pass a watched field is as it was between the passes, or the
\* news of its change is on the way or has been received.
Noted ==
    (sample.pc = "read" \/ Reading) /\ Second =>
        \A f \in Watched : \/ sample.mid[f] = world[f]
                           \/ Announced(f, Len(socket)) \/ Stirred(cursor)

\* What the reply under way says, on the wire and behind the barrier.
Heard ==
    /\ sample.pc = "awaiting" /\ Checked =>
          \A k \in 1..Len(socket) : socket[k].kind = "reply" =>
              \/ Fits(Asked, socket[k].value)
              \/ Announced(Asked, k - 1) \/ Stirred(cursor)
    /\ sample.pc = "replied" /\ Checked => Fits(Asked, sample.value) \/ Stirred(cursor)
    /\ sample.pc \in {"barrier", "loaded"} /\ Checked =>
          Fits(Asked, sample.value) \/ Stirred(sample.target)

\* The readings of the second pass, and the comparison of the passes.
Matched ==
    /\ \A i \in 3..Len(sample.values) :
          PlanOf(sample.profile)[i] \in Watched =>
              Fits(PlanOf(sample.profile)[i], sample.values[i])
    /\ sample.pc = "accepted" =>
          /\ Len(sample.values) = 4
          /\ sample.values[1] = sample.values[3] /\ sample.values[2] = sample.values[4]

Sampling == InPlan /\ (client = "sample" => Single /\ Counted /\ Noted /\ Heard /\ Matched)

-----------------------------------------------------------------------------
(* The stage.                                                              *)

Staged ==
    /\ stage.pc # "idle" => client = "stage"
    /\ sample.pc = "accepted" => client = "sample"
    /\ stage.pc \in {"sync", "begin", "inspect", "queued"} => ~stage.sent
    /\ stage.pc \in {"sync", "again", "compare"} => stage.call = "stage"
    /\ stage.pc = "verify" => stage.call = "take"
    /\ stage.pc \in {"sync", "begin", "inspect"} => stage.receipt = "none"
    /\ stage.pc = "sent" => stage.sent
    /\ stage.pc \in {"queued", "sent"} => stage.receipt = "dispatching"
    /\ stage.pc \in {"again", "compare", "verify"} =>
          stage.receipt = IF stage.sent THEN "accepted" ELSE "prepared"
    /\ StageReceiptIsHonest

\* The transition that used stage token s has left.
Gone(s) == \E i \in 1..Len(sends) : sends[i].call = "take" /\ sends[i].serial = s

Spent ==
    /\ \A i \in 1..Len(sends) : sends[i].call = "take" => sends[i].serial <= stage.stages
    /\ stage.pc # "idle" /\ stage.call = "stage" =>
          /\ ~Gone(stage.stages)
          /\ token # NoToken => token.serial < stage.stages
    /\ token # NoToken => token.serial <= stage.stages /\ ~Gone(token.serial)
    /\ stage.pc # "idle" /\ stage.call = "take" => token = NoToken
    /\ stage.pc \in {"begin", "inspect", "queued"} /\ stage.call = "take" =>
          stage.used.serial <= stage.stages /\ ~Gone(stage.used.serial)
    /\ EffectRestsOnFreshEvidence

IInv == /\ Shape /\ Ordered /\ Feeding /\ Waiting /\ Saving /\ Sampling /\ Staged /\ Spent

-----------------------------------------------------------------------------
(* Counting events.                                                        *)

\* The count of a prefix is a number, at most its length.
LEMMA CountType ==
  ASSUME NEW s, NEW p, NEW m \in Nat
  PROVE  Count(s, p, m) \in Nat /\ Count(s, p, m) <= m
  <1> DEFINE S == {n \in 1..m : Invalidates(p, s[n].kind)}
  <1>1. IsFiniteSet(1..m) /\ Cardinality(1..m) = m
    BY FS_Interval
  <1>2. S \in SUBSET (1..m)
    OBVIOUS
  <1>3. IsFiniteSet(S) /\ Cardinality(S) <= Cardinality(1..m)
    BY <1>1, <1>2, FS_Subset
  <1>4. Cardinality(S) \in Nat
    BY <1>3, FS_CardinalityType
  <1>5. QED BY <1>1, <1>3, <1>4 DEF Count

\* A longer prefix counts no less.
LEMMA CountGrows ==
  ASSUME NEW s, NEW p, NEW k \in Nat, NEW m \in Nat, k <= m
  PROVE  Count(s, p, k) <= Count(s, p, m)
  <1> DEFINE S(x) == {n \in 1..x : Invalidates(p, s[n].kind)}
  <1>1. IsFiniteSet(1..m)
    BY FS_Interval
  <1>2. S(m) \in SUBSET (1..m) /\ S(k) \in SUBSET S(m)
    OBVIOUS
  <1>3. IsFiniteSet(S(m))
    BY <1>1, <1>2, FS_Subset
  <1>4. Cardinality(S(k)) <= Cardinality(S(m))
    BY <1>2, <1>3, FS_Subset
  <1>5. QED BY <1>4 DEF Count

\* The next event counts if it invalidates.
LEMMA CountNext ==
  ASSUME NEW s, NEW p, NEW m \in Nat
  PROVE  Count(s, p, m + 1) = IF Invalidates(p, s[m + 1].kind) THEN Count(s, p, m) + 1
                              ELSE Count(s, p, m)
  <1> DEFINE S(x) == {n \in 1..x : Invalidates(p, s[n].kind)}
  <1>1. IsFiniteSet(1..m)
    BY FS_Interval
  <1>2. S(m) \in SUBSET (1..m) /\ m + 1 \notin S(m)
    OBVIOUS
  <1>3. IsFiniteSet(S(m))
    BY <1>1, <1>2, FS_Subset
  <1>4. S(m + 1) = IF Invalidates(p, s[m + 1].kind) THEN S(m) \cup {m + 1} ELSE S(m)
    OBVIOUS
  <1>5. Cardinality(S(m) \cup {m + 1}) = Cardinality(S(m)) + 1
    BY <1>2, <1>3, FS_AddElement
  <1> HIDE DEF S
  <1>6. Cardinality(S(m + 1)) = IF Invalidates(p, s[m + 1].kind) THEN Cardinality(S(m)) + 1
                                ELSE Cardinality(S(m))
    BY <1>4, <1>5
  <1>7. Count(s, p, m + 1) = Cardinality(S(m + 1)) /\ Count(s, p, m) = Cardinality(S(m))
    BY DEF Count, S
  <1>8. QED BY <1>6, <1>7

\* Only the events of the prefix matter.
LEMMA CountSame ==
  ASSUME NEW s, NEW t, NEW p, NEW m \in Nat, \A n \in 1..m : t[n] = s[n]
  PROVE  Count(t, p, m) = Count(s, p, m)
  <1>1. {n \in 1..m : Invalidates(p, t[n].kind)} = {n \in 1..m : Invalidates(p, s[n].kind)}
    OBVIOUS
  <1>2. QED BY <1>1 DEF Count

-----------------------------------------------------------------------------
(* What a part of the invariant depends on.                                *)

\* The observer's bookkeeping.
LEMMA OrderedFrame ==
  ASSUME Ordered, UNCHANGED <<received, inbox, observer, processed>>,
         evidence'.rev = evidence.rev, cell'.progress = cell.progress,
         replay'.progress = replay.progress
  PROVE  Ordered'
BY DEF Ordered, Published, cursor

\* The feed.
LEMMA FeedingFrame ==
  ASSUME Feeding, UNCHANGED <<feed, received>>, evidence'.connected => evidence.connected
  PROVE  Feeding'
BY DEF Feeding, TakeFenceMeansApplied, cursor

\* The output waiter.
LEMMA WaitingFrame ==
  ASSUME Waiting, UNCHANGED <<cell, received>>, Projected' = Projected, late => late'
  PROVE  Waiting'
BY DEF Waiting, Eligible, cursor

\* The replay waiter.
LEMMA SavingFrame ==
  ASSUME Saving, UNCHANGED <<replay, received>>, Projected' = Projected
  PROVE  Saving'
BY DEF Saving, ReplayPathIsTheOnlyOne, Eligible, cursor

\* The sample.
LEMMA SamplingFrame ==
  ASSUME Shape, Sampling, UNCHANGED <<client, sample, socket, received, world>>,
         processed' \in Nat, processed <= processed'
  PROVE  Sampling'
  <1> USE DEF cursor, Reading, Watched, Stirred, Announced, Fits, Second, Checked, Asked, PlanOf
  <1>1. sample.loaded \in Nat /\ processed \in Nat
    BY DEF Shape, SampleRecords
  <1>2. QED BY <1>1 DEF Sampling, InPlan, Single, Counted, Noted, Heard, Matched

\* The stage.
LEMMA StageFrame ==
  ASSUME Staged, Spent, UNCHANGED <<client, stageVars>>,
         sample'.pc = "accepted" => client = "sample"
  PROVE  Staged' /\ Spent'
BY DEF Staged, Spent, StageReceiptIsHonest, EffectRestsOnFreshEvidence, Gone, stageVars

\* Without a step of the observer its marks stay.
LEMMA MarksFrame ==
  ASSUME UNCHANGED <<observer, processed>>
  PROVE  Projected' = Projected /\ Published' = Published
BY DEF Projected, Published

-----------------------------------------------------------------------------
(* The take feed.                                                          *)

\* A step that touches the feed alone.
LEMMA FeedMoves ==
  ASSUME IInv, feed' \in FeedRecords, Feeding',
         UNCHANGED <<client, world, changes, socket, received, inbox, alive, late,
                     observer, evidence, processed, cell, replay, sample>>,
         UNCHANGED <<controlVars, stageVars>>
  PROVE  IInv'
  <1>1. Shape'
    BY DEF IInv, Shape, ControlTypeOK, controlVars, stageVars
  <1>2. Ordered' /\ Waiting' /\ Saving'
    BY OrderedFrame, WaitingFrame, SavingFrame, MarksFrame DEF IInv
  <1>3. Sampling'
    BY SamplingFrame DEF IInv, Shape
  <1>4. Staged' /\ Spent'
    BY StageFrame DEF IInv, Staged
  <1>5. QED BY <1>1, <1>2, <1>3, <1>4 DEF IInv

\* Attaching the take feed: nothing has been seen or projected before.
LEMMA AttachFeedKeeps ==
  ASSUME IInv, AttachFeed, UNCHANGED <<controlVars, stageVars>>
  PROVE  IInv'
  <1>1. feed \in FeedRecords /\ processed \in Nat /\ received \in Seq(Arrivals)
    BY DEF IInv, Shape
  <1>2. feed' = [feed EXCEPT !.active = TRUE, !.applied = processed, !.from = processed]
    BY DEF AttachFeed
  <1>3. feed' \in FeedRecords
    BY <1>1, <1>2 DEF FeedRecords
  <1>4. /\ feed'.queue = feed.queue /\ feed'.seen = feed.seen /\ feed'.view = feed.view
        /\ feed'.applied = processed /\ feed'.from = processed /\ feed'.active
    BY <1>1, <1>2 DEF FeedRecords
  <1>5. feed.seen = <<>> /\ feed.view.cursor = 0
    BY DEF AttachFeed, IInv, Feeding, EvidenceLive
  <1>6. processed <= cursor /\ cursor' = cursor /\ cursor \in Nat
    <2>1. cursor \in Nat /\ cursor' = cursor
      BY <1>1, LenProperties DEF cursor, AttachFeed
    <2>2. Published <= cursor /\ Published = processed
      BY DEF IInv, Ordered, Published, AttachFeed
    <2>3. QED BY <2>1, <2>2
  <1>7. [i \in 1..(processed - processed) |-> processed + i] = <<>>
    BY <1>1
  <1>8. Feeding'
    <2>1. \A i \in 1..Len(feed'.queue) : feed'.queue[i] \in 1..cursor'
      BY <1>4, <1>6 DEF IInv, Feeding
    <2>2. feed'.seen = [i \in 1..(feed'.applied - feed'.from) |-> feed'.from + i]
      BY <1>4, <1>5, <1>7
    <2>3. TakeFenceMeansApplied'
      BY <1>4, <1>5 DEF TakeFenceMeansApplied
    <2>4. QED BY <1>1, <1>4, <1>6, <2>1, <2>2, <2>3 DEF Feeding
  <1>9. QED BY <1>3, <1>8, FeedMoves DEF AttachFeed

\* A revoked or closed feed keeps what it had seen.
LEMMA FeedCloses ==
  ASSUME IInv, NEW e \in BOOLEAN, received' = received,
         feed' = [feed EXCEPT !.queue = <<>>, !.active = FALSE, !.ended = e],
         e \/ (~evidence'.connected /\ e = feed.ended)
  PROVE  feed' \in FeedRecords /\ Feeding'
  <1>1. feed \in FeedRecords
    BY DEF IInv, Shape
  <1>2. feed' \in FeedRecords
    <2>1. feed' = [feed EXCEPT !.queue = <<>>, !.active = FALSE, !.ended = e] /\ e \in BOOLEAN
          /\ <<>> \in Seq(Nat)
      BY EmptySeq
    <2>2. QED BY ONLY <1>1, <2>1 DEF FeedRecords
  <1>3. /\ feed'.queue = <<>> /\ feed'.seen = feed.seen /\ feed'.view = feed.view
        /\ feed'.applied = feed.applied /\ feed'.from = feed.from /\ feed'.ended = e
    BY <1>1 DEF FeedRecords
  <1>4. TakeFenceMeansApplied'
    BY <1>3 DEF IInv, Feeding, TakeFenceMeansApplied
  <1>5. cursor' = cursor
    BY DEF cursor
  <1>6. Feeding'
    BY <1>3, <1>4, <1>5 DEF IInv, Feeding
  <1>7. QED BY <1>2, <1>6

\* A dropped frame or an owner that leaves.
LEMMA DropFrameKeeps ==
  ASSUME IInv, DropFrame, UNCHANGED <<controlVars, stageVars>>
  PROVE  IInv'
  <1>1. feed' = [feed EXCEPT !.queue = <<>>, !.active = FALSE, !.ended = TRUE]
        /\ received' = received
    BY DEF DropFrame
  <1>2. feed' \in FeedRecords /\ Feeding'
    BY <1>1, FeedCloses
  <1>3. QED BY <1>2, FeedMoves DEF DropFrame

\* One more event in order.
LEMMA SeenGrows ==
  ASSUME NEW from \in Nat, NEW a \in Nat, from <= a, NEW s \in Seq(Nat),
         s = [i \in 1..(a - from) |-> from + i]
  PROVE  Append(s, a + 1) = [i \in 1..(a + 1 - from) |-> from + i]
  <1> DEFINE t == Append(s, a + 1)
  <1>1. Len(s) = a - from
    BY LenProperties
  <1>2. /\ t \in Seq(Nat) /\ Len(t) = Len(s) + 1 /\ t[Len(s) + 1] = a + 1
        /\ \A i \in 1..Len(s) : t[i] = s[i]
    BY AppendProperties
  <1>3. t = [i \in 1..Len(t) |-> t[i]]
    BY <1>2
  <1> HIDE DEF t
  <1>4. \A i \in 1..(a + 1 - from) : t[i] = from + i
    <2> SUFFICES ASSUME NEW i \in 1..(a + 1 - from) PROVE t[i] = from + i
      OBVIOUS
    <2>1. CASE i \in 1..Len(s)
      BY <1>1, <1>2, <2>1
    <2>2. CASE i = a + 1 - from
      BY <1>1, <1>2, <2>2
    <2>3. QED BY <1>1, <2>1, <2>2
  <1>5. Len(t) = a + 1 - from
    BY <1>1, <1>2
  <1>6. QED BY <1>3, <1>4, <1>5 DEF t

\* Applying the frame on top.
LEMMA ApplyFrameKeeps ==
  ASSUME IInv, ApplyFrame, UNCHANGED <<controlVars, stageVars>>
  PROVE  IInv'
  <1>1. feed \in FeedRecords /\ received' = received
    BY DEF IInv, Shape, ApplyFrame
  <1> DEFINE n == Head(feed.queue)
  <1>2. CASE ~(feed.active /\ n = feed.applied + 1)
    <2>1. feed' = [feed EXCEPT !.queue = <<>>, !.active = FALSE, !.ended = TRUE]
      BY <1>2 DEF ApplyFrame
    <2>2. feed' \in FeedRecords /\ Feeding'
      BY <1>1, <2>1, FeedCloses
    <2>3. QED BY <2>2, FeedMoves DEF ApplyFrame
  <1>3. CASE feed.active /\ n = feed.applied + 1
    <2>1. feed' = [feed EXCEPT !.queue = Tail(@), !.seen = Append(@, n), !.applied = n]
      BY <1>3 DEF ApplyFrame
    <2>2. feed.queue \in Seq(Nat) /\ feed.queue # <<>> /\ feed.seen \in Seq(Nat)
          /\ feed.applied \in Nat /\ feed.from \in Nat
      BY <1>1 DEF FeedRecords, ApplyFrame
    <2>3. /\ Tail(feed.queue) \in Seq(Nat) /\ n = feed.queue[1] /\ n \in Nat
          /\ Len(Tail(feed.queue)) = Len(feed.queue) - 1 /\ Len(feed.queue) \in Nat
          /\ Len(feed.queue) # 0
          /\ \A i \in 1..Len(Tail(feed.queue)) : Tail(feed.queue)[i] = feed.queue[i + 1]
      BY <2>2, HeadTailProperties, LenProperties, EmptySeq
    <2> HIDE DEF n
    <2>4. Append(feed.seen, n) \in Seq(Nat)
      BY <2>2, <2>3, AppendProperties
    <2>5. feed' \in FeedRecords
      BY <1>1, <2>1, <2>3, <2>4 DEF FeedRecords
    <2>6. /\ feed'.queue = Tail(feed.queue) /\ feed'.seen = Append(feed.seen, n)
          /\ feed'.applied = n /\ feed'.from = feed.from /\ feed'.view = feed.view
          /\ feed'.active
      BY <1>1, <1>3, <2>1 DEF FeedRecords
    <2>7. cursor' = cursor /\ cursor \in Nat
      BY LenProperties DEF cursor, ApplyFrame, IInv, Shape
    <2>8. \A i \in 1..Len(feed.queue) : feed.queue[i] \in 1..cursor
      BY DEF IInv, Feeding
    <2>9. \A i \in 1..Len(feed'.queue) : feed'.queue[i] \in 1..cursor'
      <3> SUFFICES ASSUME NEW i \in 1..Len(feed'.queue) PROVE feed'.queue[i] \in 1..cursor'
        OBVIOUS
      <3>1. i + 1 \in 1..Len(feed.queue)
        BY <2>3, <2>6
      <3>2. feed'.queue[i] = feed.queue[i + 1]
        BY <2>3, <2>6
      <3>3. QED BY <3>1, <3>2, <2>7, <2>8
    <2>10. n <= cursor
      BY <2>3, <2>8, <2>7
    <2>11. feed.from <= feed.applied
           /\ feed.seen = [i \in 1..(feed.applied - feed.from) |-> feed.from + i]
      BY DEF IInv, Feeding
    <2>12. feed'.seen = [i \in 1..(feed'.applied - feed'.from) |-> feed'.from + i]
      BY <1>3, <2>2, <2>6, <2>11, SeenGrows
    <2>13. TakeFenceMeansApplied'
      BY <2>6 DEF IInv, Feeding, TakeFenceMeansApplied
    <2>14. feed'.from <= feed'.applied /\ feed'.applied <= cursor'
      BY <1>3, <2>2, <2>6, <2>7, <2>10, <2>11
    <2>15. Feeding'
      BY <2>6, <2>9, <2>12, <2>13, <2>14 DEF Feeding
    <2>16. QED BY <2>5, <2>15, FeedMoves DEF ApplyFrame
  <1>4. QED BY <1>2, <1>3

\* Projecting the take's state at a settled cursor.
LEMMA ProjectAfterAppliedKeeps ==
  ASSUME IInv, ProjectAfterApplied, UNCHANGED <<controlVars, stageVars>>
  PROVE  IInv'
  <1>1. feed \in FeedRecords /\ received \in Seq(Arrivals)
    BY DEF IInv, Shape
  <1>2. feed' = [feed EXCEPT !.view = [cursor |-> cursor, seen |-> feed.seen]]
        /\ feed.active /\ feed.applied >= cursor
    BY DEF ProjectAfterApplied, FenceReady
  <1>3. cursor \in Nat /\ cursor' = cursor
    BY <1>1, LenProperties DEF cursor, ProjectAfterApplied
  <1>4. feed' \in FeedRecords
    BY <1>1, <1>2, <1>3 DEF FeedRecords, Views
  <1>5. /\ feed'.queue = feed.queue /\ feed'.seen = feed.seen /\ feed'.applied = feed.applied
        /\ feed'.from = feed.from /\ feed'.active = feed.active
        /\ feed'.view.cursor = cursor /\ feed'.view.seen = feed.seen
    BY <1>1, <1>2 DEF FeedRecords
  <1>6. /\ feed.applied \in Nat /\ feed.from <= feed.applied /\ feed.applied <= cursor
        /\ feed.seen = [i \in 1..(feed.applied - feed.from) |-> feed.from + i]
        /\ \A i \in 1..Len(feed.queue) : feed.queue[i] \in 1..cursor
    BY <1>1 DEF FeedRecords, IInv, Feeding
  <1>7. feed.applied = cursor
    BY <1>2, <1>3, <1>6
  <1>8. TakeFenceMeansApplied'
    BY <1>5, <1>6, <1>7 DEF TakeFenceMeansApplied
  <1>9. Feeding'
    BY <1>2, <1>3, <1>5, <1>6, <1>8 DEF Feeding
  <1>10. QED BY <1>4, <1>9, FeedMoves DEF ProjectAfterApplied

-----------------------------------------------------------------------------
(* The output waiter.                                                      *)

\* A step that touches the output cell alone.
LEMMA CellMoves ==
  ASSUME IInv, cell' \in CellRecords, cell'.progress = cell.progress, Waiting', OnlyCell,
         UNCHANGED <<controlVars, stageVars>>
  PROVE  IInv'
  <1> USE DEF OnlyCell
  <1>1. Shape'
    BY DEF IInv, Shape, ControlTypeOK, controlVars, stageVars
  <1>2. Ordered' /\ Feeding' /\ Saving'
    BY OrderedFrame, FeedingFrame, SavingFrame, MarksFrame DEF IInv
  <1>3. Sampling'
    BY SamplingFrame DEF IInv, Shape
  <1>4. Staged' /\ Spent'
    BY StageFrame DEF IInv, Staged
  <1>5. QED BY <1>1, <1>2, <1>3, <1>4 DEF IInv

\* Subscribing: the events received so far do not count.
LEMMA SubscribeOutputKeeps ==
  ASSUME IInv, SubscribeOutput, UNCHANGED <<controlVars, stageVars>>
  PROVE  IInv'
  <1>1. cell \in CellRecords /\ received \in Seq(Arrivals) /\ processed \in Nat
    BY DEF IInv, Shape
  <1>2. cell' = [cell EXCEPT !.pc = "look", !.after = cursor] /\ OnlyCell
        /\ cell.pc = "off" /\ cell.active /\ ~late
    BY DEF SubscribeOutput
  <1>3. cursor \in Nat /\ cursor' = cursor /\ received' = received /\ late' = late
    BY <1>1, <1>2, LenProperties DEF cursor, OnlyCell
  <1>4. cell' \in CellRecords
    BY <1>1, <1>2, <1>3 DEF CellRecords
  <1>5. /\ cell'.active = cell.active /\ cell'.pc = "look" /\ cell'.result = cell.result
        /\ cell'.after = cursor /\ cell'.progress = cell.progress
        /\ cell'.cutoff = cell.cutoff /\ cell'.outcome = cell.outcome
    BY <1>1, <1>2 DEF CellRecords
  <1>6. cell.result \in Int /\ cell.cutoff \in Int
    BY <1>1 DEF CellRecords
  <1>7. /\ cell.result <= 0 /\ cell.outcome = "none" /\ cell.result \in -1..cursor
        /\ cell.cutoff = Missing
    BY <1>2 DEF IInv, Waiting
  <1>8. (\A n \in 1..Projected : ~Eligible("record", cell.after, n))'
    <2>1. Published <= cursor
      BY DEF IInv, Ordered
    <2>2. Projected' = Projected /\ Projected \in Int /\ Projected <= cursor
      BY <1>1, <1>2, <1>3, <2>1, MarksFrame DEF Projected, Published, OnlyCell
    <2>3. QED BY <1>3, <1>5, <2>2 DEF Eligible
  <1>9. Waiting'
    BY <1>2, <1>3, <1>5, <1>6, <1>7, <1>8 DEF Waiting
  <1>10. QED BY <1>2, <1>4, <1>5, <1>9, CellMoves

\* A step that changes the position alone, not to the last look or the end.
LEMMA CellStep ==
  ASSUME IInv, NEW pc \in {"look", "clock", "wait"}, cell' = [cell EXCEPT !.pc = pc],
         cell.pc \notin {"off", "done"}, OnlyCell, UNCHANGED <<controlVars, stageVars>>
  PROVE  IInv'
  <1>1. cell \in CellRecords
    BY DEF IInv, Shape
  <1>2. cell' \in CellRecords
    BY <1>1 DEF CellRecords
  <1>3. /\ cell'.active = cell.active /\ cell'.pc = pc /\ cell'.result = cell.result
        /\ cell'.after = cell.after /\ cell'.progress = cell.progress
        /\ cell'.cutoff = cell.cutoff /\ cell'.outcome = cell.outcome
    BY <1>1 DEF CellRecords
  <1>4. cursor' = cursor /\ received' = received /\ late' = late /\ Projected' = Projected
    BY MarksFrame DEF OnlyCell, cursor
  <1>5. Waiting'
    BY <1>3, <1>4 DEF IInv, Waiting, Eligible
  <1>6. QED BY <1>2, <1>3, <1>5, CellMoves

\* The end of the wait, with an outcome that is true.
LEMMA SettleKeeps ==
  ASSUME IInv, NEW o \in {"got", "revoked", "expired", "unsettled"}, Settle(o),
         o = "got" => cell.result > 0,
         o = "expired" => late /\ \A n \in 1..cursor : ~Eligible("record", cell.after, n),
         cell.pc \notin {"off", "done"}, OnlyCell, UNCHANGED <<controlVars, stageVars>>
  PROVE  IInv'
  <1>1. cell \in CellRecords /\ cell' = [cell EXCEPT !.pc = "done", !.outcome = o]
    BY DEF IInv, Shape, Settle
  <1>2. cell' \in CellRecords
    BY <1>1 DEF CellRecords
  <1>3. /\ cell'.active = cell.active /\ cell'.pc = "done" /\ cell'.result = cell.result
        /\ cell'.after = cell.after /\ cell'.progress = cell.progress
        /\ cell'.cutoff = cell.cutoff /\ cell'.outcome = o
    BY <1>1 DEF CellRecords
  <1>4. cursor' = cursor /\ received' = received /\ late' = late /\ Projected' = Projected
    BY MarksFrame DEF OnlyCell, cursor
  <1>5. Waiting'
    BY <1>3, <1>4 DEF IInv, Waiting, Eligible
  <1>6. QED BY <1>2, <1>3, <1>5, CellMoves

\* The top of receive.
LEMMA LookAtCellKeeps ==
  ASSUME IInv, LookAtCell, UNCHANGED <<controlVars, stageVars>>
  PROVE  IInv'
  <1>1. cell.pc = "look" /\ OnlyCell
    BY DEF LookAtCell
  <1>2. CASE cell.result > 0 /\ Settle("got")
    BY <1>1, <1>2, SettleKeeps
  <1>3. CASE Settle("revoked")
    BY <1>1, <1>3, SettleKeeps
  <1>4. CASE cell' = [cell EXCEPT !.pc = "clock"]
    BY <1>1, <1>4, CellStep
  <1>5. QED BY <1>2, <1>3, <1>4 DEF LookAtCell

\* The clock: at expiry the cursor is captured, and every later event is late.
LEMMA ReadClockKeeps ==
  ASSUME IInv, ReadClock, UNCHANGED <<controlVars, stageVars>>
  PROVE  IInv'
  <1> DEFINE c == IF ~late THEN Missing ELSE IF cell.cutoff = Missing THEN cursor ELSE cell.cutoff
  <1> DEFINE q == IF late /\ cell.progress >= c THEN "last" ELSE "wait"
  <1>1. cell \in CellRecords /\ cell' = [cell EXCEPT !.cutoff = c, !.pc = q] /\ OnlyCell
        /\ cell.pc = "clock" /\ received \in Seq(Arrivals)
    BY DEF IInv, Shape, ReadClock
  <1>2. cursor \in Nat /\ cursor' = cursor /\ received' = received /\ late' = late
        /\ Projected' = Projected
    BY <1>1, LenProperties, MarksFrame DEF OnlyCell, cursor
  <1>3. cell.cutoff \in Int
    BY <1>1 DEF CellRecords
  <1>4. c \in Int /\ q \in {"last", "wait"} /\ (q = "last" => late /\ cell.progress >= c)
        /\ (late => c = IF cell.cutoff = Missing THEN cursor ELSE cell.cutoff)
        /\ (~late => c = Missing)
    BY <1>2, <1>3 DEF Missing
  <1> HIDE DEF c, q
  <1>5. cell' \in CellRecords
    BY <1>1, <1>4 DEF CellRecords
  <1>6. /\ cell'.active = cell.active /\ cell'.pc = q /\ cell'.result = cell.result
        /\ cell'.after = cell.after /\ cell'.progress = cell.progress
        /\ cell'.cutoff = c /\ cell'.outcome = cell.outcome
    BY <1>1 DEF CellRecords
  <1>7. cell.outcome = "none"
    BY <1>1 DEF IInv, Waiting
  <1>8. c # Missing =>
          /\ late /\ c \in 0..cursor
          /\ \A n \in 1..cursor : n > c => received[n].late
    BY <1>2, <1>4 DEF IInv, Waiting
  <1>9. q = "last" => c # Missing /\ cell.progress >= c
    <2>1. late => c # Missing
      BY <1>2, <1>4 DEF Missing
    <2>2. QED BY <1>4, <2>1
  <1>10. Waiting'
    BY <1>1, <1>2, <1>4, <1>6, <1>7, <1>8, <1>9 DEF IInv, Waiting, Eligible
  <1>11. QED BY <1>1, <1>5, <1>6, <1>10, CellMoves

\* The last look: a cell without a result at the captured cursor rules out
\* every event up to it, and the events behind it are late.
LEMMA LastLookKeeps ==
  ASSUME IInv, LastLook, UNCHANGED <<controlVars, stageVars>>
  PROVE  IInv'
  <1>1. cell.pc = "last" /\ OnlyCell
    BY DEF LastLook
  <1>2. CASE cell.result > 0 /\ Settle("got")
    BY <1>1, <1>2, SettleKeeps
  <1>3. CASE cell.result = Missing /\ Settle("revoked")
    BY <1>1, <1>3, SettleKeeps
  <1>4. CASE cell.result = 0 /\ Settle("expired")
    <2>1. /\ cell.cutoff # Missing /\ cell.progress >= cell.cutoff /\ late
          /\ cell.cutoff \in 0..cursor
          /\ \A n \in 1..cursor : n > cell.cutoff => received[n].late
          /\ \A n \in 1..Projected : ~Eligible("record", cell.after, n)
      BY <1>1, <1>4 DEF IInv, Waiting
    <2>2. processed \in Nat /\ cell.progress \in Nat /\ observer \in ObserverRecords
      BY DEF IInv, Shape, CellRecords
    <2>3. cell.progress <= Projected /\ Projected \in Int
      BY <2>2 DEF IInv, Ordered, Projected, ObserverRecords
    <2>4. cursor \in Nat
      BY LenProperties DEF IInv, Shape, cursor
    <2>5. \A n \in 1..cursor : ~Eligible("record", cell.after, n)
      <3> SUFFICES ASSUME NEW n \in 1..cursor PROVE ~Eligible("record", cell.after, n)
        OBVIOUS
      <3>1. CASE n > cell.cutoff
        BY <2>1, <3>1 DEF Eligible
      <3>2. CASE n <= cell.cutoff
        BY <2>1, <2>2, <2>3, <2>4, <3>2
      <3>3. QED BY <2>1, <2>4, <3>1, <3>2
    <2>6. QED BY <1>1, <1>4, <2>1, <2>5, SettleKeeps
  <1>5. QED BY <1>2, <1>3, <1>4 DEF LastLook

\* A wake, or the settlement bound.
LEMMA WakeOutputKeeps ==
  ASSUME IInv, WakeOutput, UNCHANGED <<controlVars, stageVars>>
  PROVE  IInv'
  <1>1. cell.pc = "wait" /\ OnlyCell
    BY DEF WakeOutput
  <1>2. CASE cell' = [cell EXCEPT !.pc = "look"]
    BY <1>1, <1>2, CellStep
  <1>3. CASE late /\ Settle("unsettled")
    BY <1>1, <1>3, SettleKeeps
  <1>4. QED BY <1>2, <1>3 DEF WakeOutput

-----------------------------------------------------------------------------
(* The replay waiter.                                                      *)

\* A step that touches the replay cell alone.
LEMMA ReplayMoves ==
  ASSUME IInv, replay' \in ReplayRecords, replay'.progress = replay.progress, Saving',
         OnlyReplay, UNCHANGED <<controlVars, stageVars>>
  PROVE  IInv'
  <1> USE DEF OnlyReplay
  <1>1. Shape'
    BY DEF IInv, Shape, ControlTypeOK, controlVars, stageVars
  <1>2. Ordered' /\ Feeding' /\ Waiting'
    BY OrderedFrame, FeedingFrame, WaitingFrame, MarksFrame DEF IInv
  <1>3. Sampling'
    BY SamplingFrame DEF IInv, Shape
  <1>4. Staged' /\ Spent'
    BY StageFrame DEF IInv, Staged
  <1>5. QED BY <1>1, <1>2, <1>3, <1>4 DEF IInv

\* A step of the position alone, to a position that claims nothing new.
LEMMA ReplayStep ==
  ASSUME IInv, NEW pc \in {"subscribed", "failed"}, replay' = [replay EXCEPT !.pc = pc],
         pc = "subscribed" => replay.pc = "off", OnlyReplay,
         UNCHANGED <<controlVars, stageVars>>
  PROVE  IInv'
  <1>1. replay \in ReplayRecords
    BY DEF IInv, Shape
  <1>2. replay' \in ReplayRecords
    BY <1>1 DEF ReplayRecords
  <1>3. /\ replay'.active = replay.active /\ replay'.pc = pc /\ replay'.armed = replay.armed
        /\ replay'.seen = replay.seen /\ replay'.path = replay.path
        /\ replay'.issue = replay.issue /\ replay'.progress = replay.progress
        /\ replay'.expected = replay.expected /\ replay'.barrier = replay.barrier
    BY <1>1 DEF ReplayRecords
  <1>4. cursor' = cursor /\ received' = received /\ Projected' = Projected
    BY MarksFrame DEF OnlyReplay, cursor
  <1>5. Saving'
    BY <1>3, <1>4 DEF IInv, Saving, Eligible, ReplayPathIsTheOnlyOne
  <1>6. QED BY <1>2, <1>3, <1>5, ReplayMoves

\* Subscribing.
LEMMA SubscribeReplayKeeps ==
  ASSUME IInv, SubscribeReplay, UNCHANGED <<controlVars, stageVars>>
  PROVE  IInv'
BY ReplayStep DEF SubscribeReplay

\* The marks of the observer are at most the cursor.
LEMMA MarksBounded ==
  ASSUME Shape, Ordered
  PROVE  /\ cursor \in Nat /\ Projected \in Nat /\ Published \in Nat /\ processed \in Nat
         /\ Projected <= processed /\ processed <= Published /\ Published <= cursor
         /\ cell.progress <= Projected /\ replay.progress <= Projected
         /\ cell.progress \in Nat /\ replay.progress \in Nat
  <1>1. cursor \in Nat
    BY LenProperties DEF Shape, cursor
  <1>2. processed \in Nat /\ observer \in ObserverRecords
        /\ cell.progress \in Nat /\ replay.progress \in Nat
    BY DEF Shape, CellRecords, ReplayRecords
  <1>3. QED BY <1>1, <1>2 DEF Ordered, Projected, Published, ObserverRecords

\* Arming: only events behind the cursor count from here on.
LEMMA ArmReplayKeeps ==
  ASSUME IInv, ArmReplay, UNCHANGED <<controlVars, stageVars>>
  PROVE  IInv'
  <1>1. replay \in ReplayRecords /\ OnlyReplay /\ replay.pc = "subscribed"
        /\ replay.armed = Missing
    BY DEF IInv, Shape, ArmReplay
  <1>2. CASE replay' = [replay EXCEPT !.pc = "failed"]
    BY <1>1, <1>2, ReplayStep
  <1>3. CASE replay' = [replay EXCEPT !.pc = "candidate", !.armed = cursor]
    <2>1. /\ cursor \in Nat /\ Projected \in Nat /\ Projected <= cursor
      BY MarksBounded DEF IInv
    <2> cursor \in Int
      BY <2>1
    <2>2. replay' \in ReplayRecords
      BY <1>1, <1>3 DEF ReplayRecords
    <2>3. /\ replay'.active = replay.active /\ replay'.pc = "candidate"
          /\ replay'.armed = cursor
          /\ replay'.seen = replay.seen /\ replay'.path = replay.path
          /\ replay'.issue = replay.issue /\ replay'.progress = replay.progress
          /\ replay'.expected = replay.expected /\ replay'.barrier = replay.barrier
      BY <1>1, <1>3 DEF ReplayRecords
    <2>4. cursor' = cursor /\ received' = received /\ Projected' = Projected
      BY <1>1, MarksFrame DEF OnlyReplay, cursor
    <2>5. replay.seen = 0 /\ replay.path = 0 /\ (~replay.active <=> replay.issue)
      BY <1>1 DEF IInv, Saving
    <2>6. (\A n \in 1..Projected : Eligible("saved", replay.armed, n) <=> n = replay.path)'
      BY <2>1, <2>3, <2>4, <2>5 DEF Eligible
    <2>7. Saving'
      BY <2>1, <2>3, <2>4, <2>5, <2>6 DEF Saving, ReplayPathIsTheOnlyOne, Missing
    <2>8. QED BY <1>1, <2>2, <2>3, <2>7, ReplayMoves
  <1>4. QED BY <1>2, <1>3 DEF ArmReplay

\* The candidate is the first path.
LEMMA CandidateKeeps ==
  ASSUME IInv, Candidate, UNCHANGED <<controlVars, stageVars>>
  PROVE  IInv'
  <1>1. replay \in ReplayRecords /\ OnlyReplay /\ replay.pc = "candidate"
    BY DEF IInv, Shape, Candidate
  <1>2. CASE replay' = [replay EXCEPT !.pc = "failed"]
    BY <1>1, <1>2, ReplayStep
  <1>3. CASE /\ replay.path > 0
             /\ replay' = [replay EXCEPT !.pc = "saved", !.expected = replay.path]
    <2>1. replay.path \in Nat
      BY <1>1 DEF ReplayRecords
    <2>2. replay' \in ReplayRecords
      BY <1>1, <1>3, <2>1 DEF ReplayRecords
    <2>3. /\ replay'.active = replay.active /\ replay'.pc = "saved"
          /\ replay'.armed = replay.armed
          /\ replay'.seen = replay.seen /\ replay'.path = replay.path
          /\ replay'.issue = replay.issue /\ replay'.progress = replay.progress
          /\ replay'.expected = replay.path /\ replay'.barrier = replay.barrier
      BY <1>1, <1>3 DEF ReplayRecords
    <2>4. cursor' = cursor /\ received' = received /\ Projected' = Projected
      BY <1>1, MarksFrame DEF OnlyReplay, cursor
    <2>5. cursor \in Nat
      BY MarksBounded DEF IInv
    <2>6. replay.path \in 1..cursor
      BY <1>3, <2>1, <2>5 DEF IInv, Saving
    <2>7. Saving'
      BY <1>1, <2>3, <2>4, <2>6 DEF IInv, Saving, Eligible, ReplayPathIsTheOnlyOne
    <2>8. QED BY <1>1, <2>2, <2>3, <2>7, ReplayMoves
  <1>4. QED BY <1>2, <1>3 DEF Candidate

\* The barrier is the cursor.
LEMMA BeginConfirmKeeps ==
  ASSUME IInv, BeginConfirm, UNCHANGED <<controlVars, stageVars>>
  PROVE  IInv'
  <1>1. replay \in ReplayRecords /\ OnlyReplay /\ replay.pc = "saved"
        /\ replay' = [replay EXCEPT !.pc = "barrier", !.barrier = cursor]
    BY DEF IInv, Shape, BeginConfirm
  <1>2. cursor \in Nat
    BY MarksBounded DEF IInv
  <1>3. replay' \in ReplayRecords
    BY <1>1, <1>2 DEF ReplayRecords
  <1>4. /\ replay'.active = replay.active /\ replay'.pc = "barrier"
        /\ replay'.armed = replay.armed
        /\ replay'.seen = replay.seen /\ replay'.path = replay.path
        /\ replay'.issue = replay.issue /\ replay'.progress = replay.progress
        /\ replay'.expected = replay.expected /\ replay'.barrier = cursor
    BY <1>1 DEF ReplayRecords
  <1>5. cursor' = cursor /\ received' = received /\ Projected' = Projected
    BY <1>1, MarksFrame DEF OnlyReplay, cursor
  <1>6. Saving'
    BY <1>1, <1>2, <1>4, <1>5 DEF IInv, Saving, Eligible, ReplayPathIsTheOnlyOne
  <1>7. QED BY <1>1, <1>3, <1>4, <1>6, ReplayMoves

\* The confirmation: everything up to the barrier is projected, and without an
\* issue the path of the cell is the only one among it.
LEMMA ConfirmKeeps ==
  ASSUME IInv, Confirm, UNCHANGED <<controlVars, stageVars>>
  PROVE  IInv'
  <1>1. replay \in ReplayRecords /\ OnlyReplay /\ replay.pc = "barrier"
    BY DEF IInv, Shape, Confirm
  <1>2. CASE replay' = [replay EXCEPT !.pc = "failed"]
    BY <1>1, <1>2, ReplayStep
  <1>3. CASE /\ replay.progress >= replay.barrier
             /\ ~replay.issue /\ replay.path = replay.expected
             /\ replay' = [replay EXCEPT !.pc = "confirmed"]
    <2>1. replay' \in ReplayRecords
      BY <1>1, <1>3 DEF ReplayRecords
    <2>2. /\ replay'.active = replay.active /\ replay'.pc = "confirmed"
          /\ replay'.armed = replay.armed
          /\ replay'.seen = replay.seen /\ replay'.path = replay.path
          /\ replay'.issue = replay.issue /\ replay'.progress = replay.progress
          /\ replay'.expected = replay.expected /\ replay'.barrier = replay.barrier
      BY <1>1, <1>3 DEF ReplayRecords
    <2>3. cursor' = cursor /\ received' = received /\ Projected' = Projected
      BY <1>1, MarksFrame DEF OnlyReplay, cursor
    <2>4. /\ cursor \in Nat /\ Projected \in Nat /\ replay.progress <= Projected
          /\ replay.progress \in Nat
      BY MarksBounded DEF IInv
    <2>5. replay.barrier \in Nat /\ replay.expected \in Nat
      BY <1>1 DEF ReplayRecords
    <2>6. /\ \A n \in 1..Projected : Eligible("saved", replay.armed, n) <=> n = replay.path
          /\ replay.expected <= replay.barrier /\ replay.expected \in 1..cursor
      BY <1>1, <1>3 DEF IInv, Saving
    <2>7. {n \in 1..replay.barrier : Eligible("saved", replay.armed, n)} = {replay.expected}
      <3>1. replay.barrier <= Projected /\ replay.expected \in 1..replay.barrier
        BY <1>3, <2>4, <2>5, <2>6
      <3>2. \A n \in 1..replay.barrier : Eligible("saved", replay.armed, n) <=> n = replay.expected
        BY <1>3, <2>4, <2>5, <2>6, <3>1
      <3>3. QED BY <3>1, <3>2
    <2>8. ReplayPathIsTheOnlyOne'
      BY <2>2, <2>3, <2>7 DEF ReplayPathIsTheOnlyOne, Eligible
    <2>9. Saving'
      BY <1>1, <2>2, <2>3, <2>8 DEF IInv, Saving, Eligible
    <2>10. QED BY <1>1, <2>1, <2>2, <2>9, ReplayMoves
  <1>4. QED BY <1>2, <1>3 DEF Confirm

-----------------------------------------------------------------------------
(* The observer.                                                           *)

\* The observer publishes the next revision.
LEMMA PublishRevisionKeeps ==
  ASSUME IInv, PublishRevision, UNCHANGED <<controlVars, stageVars>>
  PROVE  IInv'
  <1>1. /\ observer \in ObserverRecords /\ evidence \in EvidenceRecords /\ processed \in Nat
        /\ inbox \in Seq(Nat) /\ inbox # <<>> /\ received \in Seq(Arrivals)
    BY DEF IInv, Shape, PublishRevision
  <1>2. /\ Head(inbox) = inbox[1] /\ Head(inbox) \in Nat /\ Tail(inbox) \in Seq(Nat)
        /\ Len(inbox) \in Nat /\ Len(inbox) # 0 /\ Len(Tail(inbox)) = Len(inbox) - 1
        /\ \A i \in 1..Len(Tail(inbox)) : Tail(inbox)[i] = inbox[i + 1]
    BY <1>1, HeadTailProperties, LenProperties, EmptySeq
  <1>3. cursor \in Nat /\ cursor' = cursor
    BY MarksBounded DEF IInv, PublishRevision, cursor
  <1>4. \A i \in 1..Len(inbox) : inbox[i] \in 1..cursor
    BY DEF IInv, Ordered
  <1>5. observer.pc = "idle" /\ Head(inbox) = processed + 1
    BY DEF PublishRevision
  <1>6. processed + 1 <= cursor
    BY <1>2, <1>3, <1>4, <1>5
  <1>7. observer' = [pc |-> "revised", event |-> processed + 1] /\ inbox' = Tail(inbox)
        /\ processed' = processed /\ received' = received
    BY <1>5 DEF PublishRevision
  <1>8. observer' \in ObserverRecords /\ observer'.pc = "revised"
        /\ observer'.event = processed + 1
    BY <1>1, <1>7 DEF ObserverRecords
  <1> DEFINE r == [p \in Profiles |-> IF Invalidates(p, received[processed + 1].kind)
                                      THEN evidence.rev[p] + 1 ELSE evidence.rev[p]]
  <1>9. evidence' = [evidence EXCEPT !.rev = r]
    BY <1>5 DEF PublishRevision
  <1>10. r \in [Profiles -> Nat]
    BY <1>1 DEF EvidenceRecords
  <1>11. \A p \in Profiles : r[p] = Count(received, p, processed + 1)
    <2> SUFFICES ASSUME NEW p \in Profiles PROVE r[p] = Count(received, p, processed + 1)
      OBVIOUS
    <2>1. evidence.rev[p] = Count(received, p, processed)
      BY <1>5 DEF IInv, Ordered, Published
    <2>2. QED BY <1>1, <2>1, CountNext
  <1> HIDE DEF r
  <1>12. evidence' \in EvidenceRecords /\ evidence'.rev = r
         /\ evidence'.connected = evidence.connected
    BY <1>1, <1>9, <1>10 DEF EvidenceRecords
  <1>13. Published' = processed + 1 /\ Projected' = Projected
    BY <1>5, <1>7, <1>8 DEF Published, Projected
  <1>14. \A i \in 1..Len(inbox') : inbox'[i] \in 1..cursor'
    <2> SUFFICES ASSUME NEW i \in 1..Len(Tail(inbox)) PROVE Tail(inbox)[i] \in 1..cursor
      BY <1>3, <1>7
    <2>1. i + 1 \in 1..Len(inbox) /\ Tail(inbox)[i] = inbox[i + 1]
      BY <1>2
    <2>2. QED BY <2>1, <1>4
  <1>15. cell' = cell /\ replay' = replay /\ cell.progress = processed
         /\ replay.progress = processed
    BY <1>5 DEF PublishRevision, IInv, Ordered
  <1>16. Ordered'
    <2>1. \A p \in Profiles : evidence'.rev[p] = Count(received', p, Published')
      BY <1>7, <1>11, <1>12, <1>13
    <2>2. observer'.event = processed' + 1 /\ Published' <= cursor'
      BY <1>3, <1>6, <1>7, <1>8, <1>13
    <2>3. QED BY <1>7, <1>8, <1>14, <1>15, <2>1, <2>2 DEF Ordered
  <1>17. Shape'
    BY <1>2, <1>7, <1>8, <1>12
       DEF IInv, Shape, ControlTypeOK, controlVars, stageVars, PublishRevision
  <1>18. Feeding' /\ Waiting' /\ Saving'
    BY <1>12, <1>13, FeedingFrame, WaitingFrame, SavingFrame DEF IInv, PublishRevision
  <1>19. Sampling'
    BY <1>7, <1>1, SamplingFrame DEF IInv, PublishRevision
  <1>20. Staged' /\ Spent'
    BY StageFrame DEF IInv, Staged, PublishRevision
  <1>21. QED BY <1>16, <1>17, <1>18, <1>19, <1>20 DEF IInv

\* ... and then the cursor.
LEMMA PublishCursorKeeps ==
  ASSUME IInv, PublishCursor, UNCHANGED <<controlVars, stageVars>>
  PROVE  IInv'
  <1>1. observer \in ObserverRecords /\ processed \in Nat /\ observer.pc = "revised"
        /\ observer.event = processed + 1
    BY DEF IInv, Shape, PublishCursor, Ordered
  <1>2. observer' = [observer EXCEPT !.pc = "progressed"] /\ processed' = processed + 1
        /\ UNCHANGED <<received, inbox, evidence, cell, replay>>
    BY <1>1 DEF PublishCursor
  <1>3. observer' \in ObserverRecords /\ observer'.pc = "progressed"
        /\ observer'.event = processed + 1
    BY <1>1, <1>2 DEF ObserverRecords
  <1>4. Published' = Published /\ Projected' = Projected
    BY <1>1, <1>2, <1>3 DEF Published, Projected
  <1>5. cell.progress = processed /\ replay.progress = processed
    BY <1>1 DEF IInv, Ordered
  <1>6. Ordered'
    <2>1. cell'.progress = processed' - 1 /\ replay'.progress = processed' - 1
          /\ processed' > 0 /\ observer'.event = processed'
      BY <1>1, <1>2, <1>3, <1>5
    <2>2. QED BY <1>2, <1>3, <1>4, <2>1 DEF IInv, Ordered, cursor
  <1>7. Shape'
    BY <1>1, <1>2, <1>3
       DEF IInv, Shape, ControlTypeOK, controlVars, stageVars, PublishCursor
  <1>8. Feeding' /\ Waiting' /\ Saving'
    BY <1>2, <1>4, FeedingFrame, WaitingFrame, SavingFrame DEF IInv, PublishCursor
  <1>9. Sampling'
    <2>1. processed' \in Nat /\ processed <= processed'
      BY <1>1, <1>2
    <2>2. QED BY <2>1, SamplingFrame DEF IInv, PublishCursor
  <1>10. Staged' /\ Spent'
    BY StageFrame DEF IInv, Staged, PublishCursor
  <1>11. QED BY <1>6, <1>7, <1>8, <1>9, <1>10 DEF IInv

\* The output cell when event n is projected.
LEMMA ProjectCell ==
  ASSUME IInv, observer.pc = "progressed", ProjectEvent
  PROVE  cell' \in CellRecords /\ cell'.progress = cell.progress /\ Waiting'
  <1> DEFINE n == observer.event
  <1>1. cell \in CellRecords /\ observer \in ObserverRecords /\ processed \in Nat
        /\ n = processed /\ processed > 0 /\ received' = received /\ late' = late
    BY DEF IInv, Shape, Ordered, ProjectEvent
  <1>2. observer'.pc = "projected" /\ processed' = processed
    BY <1>1 DEF ProjectEvent, ObserverRecords
  <1>3. Projected = processed - 1 /\ Projected' = processed
    BY <1>2 DEF Projected
  <1>4. cursor \in Nat /\ processed <= cursor /\ cursor' = cursor
    BY <1>1, MarksBounded DEF IInv, cursor
  <1> DEFINE hit == /\ cell.active /\ cell.pc \notin {"off", "done"} /\ cell.result = 0
                    /\ Eligible("record", cell.after, n)
  <1>5. CASE hit
    <2>1. cell' = [cell EXCEPT !.result = n]
      BY <1>5 DEF ProjectEvent
    <2>2. /\ cell'.active = cell.active /\ cell'.pc = cell.pc /\ cell'.result = n
          /\ cell'.after = cell.after /\ cell'.progress = cell.progress
          /\ cell'.cutoff = cell.cutoff /\ cell'.outcome = cell.outcome
      BY <1>1, <2>1 DEF CellRecords
    <2>3. n \in Int
      BY <1>1
    <2> HIDE DEF n
    <2>4. cell' \in CellRecords
      BY <1>1, <2>1, <2>3 DEF CellRecords
    <2> USE DEF n
    <2>5. cell.outcome = "none" /\ cell.pc # "off"
      BY <1>5 DEF IInv, Waiting
    <2>6. \A k \in 1..(n - 1) : ~Eligible("record", cell.after, k)
      BY <1>1, <1>3, <1>5 DEF IInv, Waiting
    <2>7. n \in -1..cursor /\ n > 0
      BY <1>1, <1>4
    <2>8. Eligible("record", cell.after, n)
      BY <1>5
    <2> HIDE DEF n, hit
    <2>9. Waiting'
      BY <1>1, <1>4, <2>2, <2>5, <2>6, <2>7, <2>8 DEF IInv, Waiting, Eligible
    <2>10. QED BY <2>2, <2>4, <2>9
  <1>6. CASE ~hit
    <2>1. cell' = cell
      BY <1>6 DEF ProjectEvent
    <2>2. cell.result = 0 /\ cell.pc \notin {"off", "done"} => ~Eligible("record", cell.after, n)
      BY <1>6 DEF IInv, Waiting
    <2>3. cell.result = 0 /\ cell.pc \notin {"off", "done"} =>
             \A k \in 1..Projected : ~Eligible("record", cell.after, k)
      BY DEF IInv, Waiting
    <2>4. \A k \in 1..processed : k \in 1..Projected \/ k = n
      BY <1>1, <1>3
    <2>5. (cell.result = 0 /\ cell.pc \notin {"off", "done"} =>
             \A k \in 1..Projected : ~Eligible("record", cell.after, k))'
      BY <1>1, <1>3, <2>1, <2>2, <2>3, <2>4 DEF Eligible
    <2>6. Waiting'
      BY <1>1, <1>4, <2>1, <2>5 DEF IInv, Waiting, Eligible
    <2>7. QED BY <1>1, <2>1, <2>6
  <1>7. QED BY <1>5, <1>6

\* The replay cell when event n is projected.
LEMMA ProjectReplay ==
  ASSUME IInv, observer.pc = "progressed", ProjectEvent
  PROVE  replay' \in ReplayRecords /\ replay'.progress = replay.progress /\ Saving'
  <1> DEFINE n == observer.event
  <1>1. replay \in ReplayRecords /\ observer \in ObserverRecords /\ processed \in Nat
        /\ n = processed /\ processed > 0 /\ received' = received
    BY DEF IInv, Shape, Ordered, ProjectEvent
  <1>2. observer'.pc = "projected" /\ processed' = processed
    BY <1>1 DEF ProjectEvent, ObserverRecords
  <1>3. Projected = processed - 1 /\ Projected' = processed
    BY <1>2 DEF Projected
  <1>4. cursor \in Nat /\ processed <= cursor /\ cursor' = cursor
    BY <1>1, MarksBounded DEF IInv, cursor
  <1>5. replay.seen \in Nat /\ replay.path \in Nat /\ replay.armed \in Int
    BY <1>1 DEF ReplayRecords
  <1>6. \A k \in 1..processed : k \in 1..Projected \/ k = n
    BY <1>1, <1>3
  <1> DEFINE hit == /\ replay.active /\ replay.armed # Missing
                    /\ Eligible("saved", replay.armed, n)
  <1>7. CASE hit
    <2> DEFINE q == IF replay.seen = 0 THEN n ELSE 0
               w == replay.seen > 0
    <2>1. replay' = [replay EXCEPT !.seen = replay.seen + 1, !.path = q, !.issue = w]
      BY <1>7 DEF ProjectEvent
    <2>2. q \in Nat /\ w \in BOOLEAN /\ replay.seen + 1 \in Nat
          /\ (~w => replay.seen = 0 /\ q = n)
          /\ q \in 0..cursor
      BY <1>1, <1>4, <1>5
    <2> HIDE DEF q, w
    <2>3. replay' \in ReplayRecords
      BY <1>1, <2>1, <2>2 DEF ReplayRecords
    <2>4. /\ replay'.active = replay.active /\ replay'.pc = replay.pc
          /\ replay'.armed = replay.armed
          /\ replay'.seen = replay.seen + 1 /\ replay'.path = q
          /\ replay'.issue = w /\ replay'.progress = replay.progress
          /\ replay'.expected = replay.expected /\ replay'.barrier = replay.barrier
      BY <1>1, <2>1 DEF ReplayRecords
    <2>5. replay.active /\ replay.armed # Missing /\ Eligible("saved", replay.armed, n)
      BY <1>7
    <2>6. ~w => \A k \in 1..Projected : ~Eligible("saved", replay.armed, k)
      <3> SUFFICES ASSUME ~w, NEW k \in 1..Projected PROVE ~Eligible("saved", replay.armed, k)
        OBVIOUS
      <3>1. replay.seen = 0
        BY <2>2
      <3>2. ~replay.issue
        BY <2>5, <3>1 DEF IInv, Saving
      <3>3. replay.path = 0 /\ (Eligible("saved", replay.armed, k) <=> k = replay.path)
        BY <2>5, <3>1, <3>2 DEF IInv, Saving
      <3>4. k # 0
        BY <1>1, <1>3
      <3>5. QED BY <3>3, <3>4
    <2>7. ~w => \A k \in 1..processed : Eligible("saved", replay.armed, k) <=> k = q
      <3> SUFFICES ASSUME ~w, NEW k \in 1..processed
                   PROVE  Eligible("saved", replay.armed, k) <=> k = q
        OBVIOUS
      <3>1. CASE k = n
        BY <2>2, <2>5, <3>1
      <3>2. CASE k \in 1..Projected
        <4>1. k # n
          BY <1>1, <1>3, <3>2
        <4>2. QED BY <2>2, <2>6, <3>2, <4>1
      <3>3. QED BY <1>6, <3>1, <3>2
    <2>8. (replay.armed # Missing /\ ~replay.issue =>
             /\ replay.seen = 0 <=> replay.path = 0
             /\ \A k \in 1..Projected : Eligible("saved", replay.armed, k) <=> k = replay.path
             /\ replay.path <= Projected)'
      <3>1. ~w => q > 0 /\ q <= processed /\ replay.seen + 1 # 0
        BY <1>1, <1>5, <2>2
      <3>2. QED BY <1>1, <1>3, <2>4, <2>7, <3>1 DEF Eligible
    <2>9. w => replay.seen + 1 > 1
      BY <1>5 DEF w
    <2>10. ReplayPathIsTheOnlyOne'
      BY <1>1, <2>4 DEF IInv, Saving, ReplayPathIsTheOnlyOne, Eligible
    <2> HIDE DEF n, hit
    <2>11. Saving'
      BY <1>4, <2>2, <2>4, <2>5, <2>8, <2>9, <2>10 DEF IInv, Saving
    <2>12. QED BY <2>3, <2>4, <2>11
  <1>8. CASE ~hit
    <2>1. replay' = replay
      BY <1>8 DEF ProjectEvent
    <2>2. replay.armed # Missing /\ ~replay.issue => ~Eligible("saved", replay.armed, n)
      BY <1>8 DEF IInv, Saving
    <2>3. replay.armed # Missing /\ ~replay.issue =>
             /\ replay.path <= Projected
             /\ \A k \in 1..Projected : Eligible("saved", replay.armed, k) <=> k = replay.path
      BY DEF IInv, Saving
    <2>4. replay.path <= Projected => n # replay.path /\ replay.path <= processed
      BY <1>1, <1>3, <1>5
    <2>5. (replay.armed # Missing /\ ~replay.issue =>
             /\ \A k \in 1..Projected : Eligible("saved", replay.armed, k) <=> k = replay.path
             /\ replay.path <= Projected)'
      BY <1>1, <1>3, <1>6, <2>1, <2>2, <2>3, <2>4 DEF Eligible
    <2>6. ReplayPathIsTheOnlyOne'
      BY <1>1, <2>1 DEF IInv, Saving, ReplayPathIsTheOnlyOne, Eligible
    <2>7. Saving'
      BY <1>4, <2>1, <2>5, <2>6 DEF IInv, Saving
    <2>8. QED BY <1>1, <2>1, <2>7
  <1>9. QED BY <1>7, <1>8

\* The hub projects the event into both cells.
LEMMA ProjectEventKeeps ==
  ASSUME IInv, ProjectEvent, UNCHANGED <<controlVars, stageVars>>
  PROVE  IInv'
  <1>1. observer \in ObserverRecords /\ observer.pc = "progressed"
    BY DEF IInv, Shape, ProjectEvent
  <1>2. cell' \in CellRecords /\ cell'.progress = cell.progress /\ Waiting'
        /\ replay' \in ReplayRecords /\ replay'.progress = replay.progress /\ Saving'
    BY <1>1, ProjectCell, ProjectReplay
  <1>3. observer' = [observer EXCEPT !.pc = "projected"]
    BY DEF ProjectEvent
  <1>4. observer' \in ObserverRecords /\ observer'.pc = "projected"
        /\ observer'.event = observer.event
    BY <1>1, <1>3 DEF ObserverRecords
  <1>5. Published' = Published
    BY <1>1, <1>4 DEF Published, ProjectEvent
  <1>6. Ordered'
    BY <1>1, <1>2, <1>4, <1>5 DEF IInv, Ordered, ProjectEvent, cursor
  <1>7. Shape'
    BY <1>2, <1>4 DEF IInv, Shape, ControlTypeOK, controlVars, stageVars, ProjectEvent
  <1>8. Feeding'
    BY FeedingFrame DEF IInv, ProjectEvent
  <1>9. Sampling'
    BY SamplingFrame DEF IInv, Shape, ProjectEvent
  <1>10. Staged' /\ Spent'
    BY StageFrame DEF IInv, Staged, ProjectEvent
  <1>11. QED BY <1>2, <1>6, <1>7, <1>8, <1>9, <1>10 DEF IInv

\* Behind the projection the watermark moves and the event goes to the feed.
LEMMA DeliverEventKeeps ==
  ASSUME IInv, DeliverEvent, UNCHANGED <<controlVars, stageVars>>
  PROVE  IInv'
  <1>1. /\ observer \in ObserverRecords /\ cell \in CellRecords /\ replay \in ReplayRecords
        /\ feed \in FeedRecords /\ observer.pc = "projected" /\ observer.event = processed
        /\ processed \in Nat /\ processed > 0
    BY DEF IInv, Shape, DeliverEvent, Ordered
  <1>2. /\ observer' = [pc |-> "idle", event |-> 0]
        /\ cell' = [cell EXCEPT !.progress = processed]
        /\ replay' = [replay EXCEPT !.progress = processed]
        /\ feed' = IF feed.active THEN [feed EXCEPT !.queue = Append(feed.queue, processed)]
                   ELSE feed
        /\ UNCHANGED <<client, world, changes, socket, received, inbox, alive, late,
                       evidence, processed, sample>>
    BY <1>1 DEF DeliverEvent
  <1>3. observer' \in ObserverRecords /\ observer'.pc = "idle"
    BY <1>2 DEF ObserverRecords
  <1>4. cell' \in CellRecords /\ cell'.progress = processed
        /\ cell'.active = cell.active /\ cell'.pc = cell.pc /\ cell'.result = cell.result
        /\ cell'.after = cell.after /\ cell'.cutoff = cell.cutoff
        /\ cell'.outcome = cell.outcome
    BY <1>1, <1>2 DEF CellRecords
  <1>5. /\ replay' \in ReplayRecords /\ replay'.progress = processed
        /\ replay'.active = replay.active /\ replay'.pc = replay.pc
        /\ replay'.armed = replay.armed
        /\ replay'.seen = replay.seen /\ replay'.path = replay.path
        /\ replay'.issue = replay.issue
        /\ replay'.expected = replay.expected /\ replay'.barrier = replay.barrier
    BY <1>1, <1>2 DEF ReplayRecords
  <1>6. Published' = Published /\ Projected' = Projected
    BY <1>1, <1>2, <1>3 DEF Published, Projected
  <1>7. /\ cursor' = cursor /\ cursor \in Nat /\ processed <= cursor
        /\ cell.progress = processed - 1 /\ cell.progress \in Nat
    BY <1>1, <1>2, MarksBounded DEF IInv, Ordered, cursor
  <1>8. feed' \in FeedRecords /\ Feeding'
    <2>1. CASE ~feed.active
      BY <1>1, <1>2, <2>1, FeedingFrame DEF IInv
    <2>2. CASE feed.active
      <3>1. feed.queue \in Seq(Nat)
        BY <1>1 DEF FeedRecords
      <3> DEFINE q == Append(feed.queue, processed)
      <3>2. /\ q \in Seq(Nat) /\ Len(q) = Len(feed.queue) + 1 /\ Len(feed.queue) \in Nat
            /\ q[Len(feed.queue) + 1] = processed
            /\ \A i \in 1..Len(feed.queue) : q[i] = feed.queue[i]
        BY <1>1, <3>1, AppendProperties, LenProperties
      <3>3. feed' = [feed EXCEPT !.queue = q]
        BY <1>2, <2>2
      <3> HIDE DEF q
      <3>4. feed' \in FeedRecords
        BY <1>1, <3>2, <3>3 DEF FeedRecords
      <3>5. /\ feed'.queue = q /\ feed'.seen = feed.seen /\ feed'.view = feed.view
            /\ feed'.applied = feed.applied /\ feed'.from = feed.from
            /\ feed'.ended = feed.ended /\ feed'.active
        BY <1>1, <2>2, <3>3 DEF FeedRecords
      <3>6. \A i \in 1..Len(q) : q[i] \in 1..cursor
        <4> SUFFICES ASSUME NEW i \in 1..Len(q) PROVE q[i] \in 1..cursor
          OBVIOUS
        <4>1. CASE i \in 1..Len(feed.queue)
          BY <3>2, <4>1 DEF IInv, Feeding
        <4>2. CASE i = Len(feed.queue) + 1
          BY <1>1, <1>7, <3>2, <4>2
        <4>3. QED BY <3>2, <4>1, <4>2
      <3>7. TakeFenceMeansApplied'
        BY <3>5 DEF IInv, Feeding, TakeFenceMeansApplied
      <3>8. Feeding'
        BY <1>7, <3>5, <3>6, <3>7 DEF IInv, Feeding
      <3>9. QED BY <3>4, <3>8
    <2>3. QED BY <2>1, <2>2
  <1>9. Ordered'
    BY <1>2, <1>3, <1>4, <1>5, <1>6 DEF IInv, Ordered, cursor
  <1>10. Waiting'
    <2>1. cell.pc = "last" => cell'.progress >= cell.cutoff
      <3>1. cell.pc = "last" => cell.progress >= cell.cutoff
        BY DEF IInv, Waiting
      <3>2. cell.cutoff \in Int
        BY <1>1 DEF CellRecords
      <3>3. QED BY <1>1, <1>4, <1>7, <3>1, <3>2
    <2>2. QED BY <1>2, <1>4, <1>6, <1>7, <2>1 DEF IInv, Waiting, Eligible
  <1>11. Saving'
    BY <1>2, <1>5, <1>6, <1>7 DEF IInv, Saving, Eligible, ReplayPathIsTheOnlyOne
  <1>12. Shape'
    BY <1>2, <1>3, <1>4, <1>5, <1>8
       DEF IInv, Shape, ControlTypeOK, controlVars, stageVars
  <1>13. Sampling'
    BY <1>1, <1>2, SamplingFrame DEF IInv
  <1>14. Staged' /\ Spent'
    BY <1>2, StageFrame DEF IInv, Staged
  <1>15. QED BY <1>8, <1>9, <1>10, <1>11, <1>12, <1>13, <1>14 DEF IInv

\* Revocation: every consumer is told, none is given a result it did not have.
LEMMA RevokedKeeps ==
  ASSUME IInv, Revoked, received' = received, late' = late, Projected' = Projected,
         ~evidence'.connected
  PROVE  /\ cell' \in CellRecords /\ cell'.progress = cell.progress /\ Waiting'
         /\ replay' \in ReplayRecords /\ replay'.progress = replay.progress /\ Saving'
         /\ feed' \in FeedRecords /\ Feeding'
  <1>1. cell \in CellRecords /\ replay \in ReplayRecords /\ feed \in FeedRecords
    BY DEF IInv, Shape
  <1>2. cursor' = cursor /\ cursor \in Nat
    BY MarksBounded DEF IInv, cursor
  <1>3. cell' \in CellRecords /\ cell'.progress = cell.progress /\ Waiting'
    <2> DEFINE r == IF cell.result = 0 THEN Missing ELSE cell.result
    <2>1. cell' = [cell EXCEPT !.result = r, !.active = FALSE]
      BY DEF Revoked
    <2>2. cell.result \in -1..cursor /\ cell.result \in Int
      BY <1>1 DEF IInv, Waiting, CellRecords
    <2>3. /\ r \in Int /\ r # 0 /\ (r > 0 => r = cell.result) /\ r \in -1..cursor
          /\ (cell.result > 0 => r = cell.result) /\ (cell.result <= 0 => r <= 0)
      BY <1>2, <2>2 DEF Missing
    <2> HIDE DEF r
    <2>4. cell' \in CellRecords
      BY <1>1, <2>1, <2>3 DEF CellRecords
    <2>5. /\ ~cell'.active /\ cell'.pc = cell.pc /\ cell'.result = r
          /\ cell'.after = cell.after /\ cell'.progress = cell.progress
          /\ cell'.cutoff = cell.cutoff /\ cell'.outcome = cell.outcome
      BY <1>1, <2>1 DEF CellRecords
    <2>6. Waiting'
      BY <1>2, <2>2, <2>3, <2>5 DEF IInv, Waiting, Eligible
    <2>7. QED BY <2>4, <2>5, <2>6
  <1>4. replay' \in ReplayRecords /\ replay'.progress = replay.progress /\ Saving'
    <2>1. replay' = [replay EXCEPT !.issue = TRUE, !.active = FALSE]
      BY DEF Revoked
    <2>2. replay' \in ReplayRecords
      BY <1>1, <2>1 DEF ReplayRecords
    <2>3. /\ ~replay'.active /\ replay'.pc = replay.pc /\ replay'.armed = replay.armed
          /\ replay'.seen = replay.seen /\ replay'.path = replay.path
          /\ replay'.issue /\ replay'.progress = replay.progress
          /\ replay'.expected = replay.expected /\ replay'.barrier = replay.barrier
      BY <1>1, <2>1 DEF ReplayRecords
    <2>4. Saving'
      BY <1>2, <2>3 DEF IInv, Saving, Eligible, ReplayPathIsTheOnlyOne
    <2>5. QED BY <2>2, <2>3, <2>4
  <1>5. feed' \in FeedRecords /\ Feeding'
    <2>1. feed.ended \in BOOLEAN
      BY <1>1 DEF FeedRecords
    <2>2. feed' = [feed EXCEPT !.queue = <<>>, !.active = FALSE, !.ended = feed.ended]
      BY <1>1 DEF Revoked, FeedRecords
    <2>3. QED BY <2>1, <2>2, FeedCloses
  <1>6. QED BY <1>3, <1>4, <1>5

\* The end of the observer.
LEMMA ObserverEndsKeeps ==
  ASSUME IInv, ObserverEnds, UNCHANGED <<controlVars, stageVars>>
  PROVE  IInv'
  <1>1. evidence \in EvidenceRecords /\ observer.pc = "idle"
    BY DEF IInv, Shape, ObserverEnds
  <1>2. /\ observer' = [pc |-> "ended", event |-> 0] /\ inbox' = <<>>
        /\ evidence' = [evidence EXCEPT !.connected = FALSE] /\ Revoked
        /\ UNCHANGED <<client, world, changes, socket, received, alive, late, processed, sample>>
    BY DEF ObserverEnds
  <1>3. observer' \in ObserverRecords /\ observer'.pc = "ended"
    BY <1>2 DEF ObserverRecords
  <1>4. evidence' \in EvidenceRecords /\ evidence'.rev = evidence.rev /\ ~evidence'.connected
    BY <1>1, <1>2 DEF EvidenceRecords
  <1>5. Published' = Published /\ Projected' = Projected
    BY <1>1, <1>2, <1>3 DEF Published, Projected
  <1>6. /\ cell' \in CellRecords /\ cell'.progress = cell.progress /\ Waiting'
        /\ replay' \in ReplayRecords /\ replay'.progress = replay.progress /\ Saving'
        /\ feed' \in FeedRecords /\ Feeding'
    BY <1>2, <1>4, <1>5, RevokedKeeps
  <1>7. inbox' \in Seq(Nat) /\ Len(inbox') = 0
    BY <1>2, EmptySeq
  <1>8. Ordered'
    BY <1>1, <1>2, <1>3, <1>4, <1>5, <1>6, <1>7 DEF IInv, Ordered, cursor
  <1>9. Shape'
    BY <1>2, <1>3, <1>4, <1>6, <1>7
       DEF IInv, Shape, ControlTypeOK, controlVars, stageVars
  <1>10. Sampling'
    BY <1>2, SamplingFrame DEF IInv, Shape
  <1>11. Staged' /\ Spent'
    BY <1>2, StageFrame DEF IInv, Staged
  <1>12. QED BY <1>6, <1>8, <1>9, <1>10, <1>11 DEF IInv

\* The bridge is invalidated.
LEMMA InvalidateBridgeKeeps ==
  ASSUME IInv, InvalidateBridge, UNCHANGED <<controlVars, stageVars>>
  PROVE  IInv'
  <1>1. evidence \in EvidenceRecords
    BY DEF IInv, Shape
  <1>2. /\ evidence' = [evidence EXCEPT !.connected = FALSE] /\ Revoked
        /\ UNCHANGED <<client, world, changes, socket, received, inbox, alive, late,
                       observer, processed, sample>>
    BY DEF InvalidateBridge
  <1>3. evidence' \in EvidenceRecords /\ evidence'.rev = evidence.rev /\ ~evidence'.connected
    BY <1>1, <1>2 DEF EvidenceRecords
  <1>4. Projected' = Projected
    BY <1>2, MarksFrame
  <1>5. /\ cell' \in CellRecords /\ cell'.progress = cell.progress /\ Waiting'
        /\ replay' \in ReplayRecords /\ replay'.progress = replay.progress /\ Saving'
        /\ feed' \in FeedRecords /\ Feeding'
    BY <1>2, <1>3, <1>4, RevokedKeeps
  <1>6. Ordered'
    BY <1>2, <1>3, <1>5, OrderedFrame DEF IInv
  <1>7. Shape'
    BY <1>2, <1>3, <1>5 DEF IInv, Shape, ControlTypeOK, controlVars, stageVars
  <1>8. Sampling'
    BY <1>2, SamplingFrame DEF IInv, Shape
  <1>9. Staged' /\ Spent'
    BY <1>2, StageFrame DEF IInv, Staged
  <1>10. QED BY <1>5, <1>6, <1>7, <1>8, <1>9 DEF IInv

\* The observations are cancelled.
LEMMA CancelObservationsKeeps ==
  ASSUME IInv, CancelObservations, UNCHANGED <<controlVars, stageVars>>
  PROVE  IInv'
  <1>1. evidence \in EvidenceRecords
    BY DEF IInv, Shape
  <1>2. /\ evidence' = [evidence EXCEPT !.cancelled = TRUE]
        /\ UNCHANGED <<client, world, changes, socket, received, inbox, alive, late,
                       observer, processed, feed, cell, replay, sample>>
    BY DEF CancelObservations
  <1>3. evidence' \in EvidenceRecords /\ evidence'.rev = evidence.rev
        /\ evidence'.connected = evidence.connected
    BY <1>1, <1>2 DEF EvidenceRecords
  <1>4. Ordered' /\ Feeding' /\ Waiting' /\ Saving'
    BY <1>2, <1>3, OrderedFrame, FeedingFrame, WaitingFrame, SavingFrame, MarksFrame DEF IInv
  <1>5. Shape'
    BY <1>2, <1>3 DEF IInv, Shape, ControlTypeOK, controlVars, stageVars
  <1>6. Sampling'
    BY <1>2, SamplingFrame DEF IInv, Shape
  <1>7. Staged' /\ Spent'
    BY <1>2, StageFrame DEF IInv, Staged
  <1>8. QED BY <1>4, <1>5, <1>6, <1>7 DEF IInv

-----------------------------------------------------------------------------
(* OBS, the socket and the clock.                                          *)

\* The plans of the readers.
LEMMA PlanFacts ==
  ASSUME NEW p \in Profiles
  PROVE  /\ Len(PlanOf(p)) \in {1, 4}
         /\ \A i \in 1..Len(PlanOf(p)) : PlanOf(p)[i] \in Fields
         /\ client = "sample" => /\ Len(PlanOf(p)) = 4
                                 /\ PlanOf(p)[3] = PlanOf(p)[1] /\ PlanOf(p)[4] = PlanOf(p)[2]
  <1>1. \/ PlanOf(p) = <<"scene">> /\ client = "stage"
        \/ PlanOf(p) = <<"scene", "record", "scene", "record">>
        \/ PlanOf(p) = <<"scene", "quiet", "scene", "quiet">>
    BY DEF PlanOf
  <1>2. ASSUME NEW a, NEW b PROVE Len(<<a, b, a, b>>) = 4 /\ Len(<<a>>) = 1
    OBVIOUS
  <1>3. CASE PlanOf(p) = <<"scene">> /\ client = "stage"
    BY <1>3 DEF Fields
  <1>4. CASE PlanOf(p) = <<"scene", "record", "scene", "record">>
    BY <1>4 DEF Fields
  <1>5. CASE PlanOf(p) = <<"scene", "quiet", "scene", "quiet">>
    BY <1>5 DEF Fields
  <1>6. QED BY <1>1, <1>3, <1>4, <1>5

\* What the sample of the state depends on when only OBS moves: news may be
\* added to the socket, and a watched field changes only with its news.
LEMMA NewsKeeps ==
  ASSUME Shape, Sampling, NEW m, m.kind # "reply",
         socket' = Append(socket, m) \/ socket' = socket,
         UNCHANGED <<client, received, processed, sample>>,
         \A f \in {"scene", "record"} :
             world'[f] = world[f] \/ (socket' = Append(socket, m) /\ m.kind = f)
  PROVE  Sampling'
  <1>1. socket \in Seq(Messages)
    BY DEF Shape
  <1>2. Len(socket) \in Nat
    BY <1>1, LenProperties
  <1>3. /\ Len(socket') \in Nat /\ Len(socket) <= Len(socket')
        /\ \A k \in 1..Len(socket) : socket'[k] = socket[k]
        /\ \A k \in 1..Len(socket') : k \in 1..Len(socket) \/ socket'[k].kind # "reply"
        /\ \A f \in {"scene", "record"} :
              world'[f] = world[f] \/ \E k \in 1..Len(socket') : socket'[k].kind = f
    <2>1. CASE socket' = socket
      BY <1>2, <2>1
    <2>2. CASE socket' = Append(socket, m)
      <3>1. /\ Len(socket') = Len(socket) + 1 /\ socket'[Len(socket) + 1] = m
            /\ \A k \in 1..Len(socket) : socket'[k] = socket[k]
        BY <1>1, <2>2, AppendProperties
      <3>2. \A k \in 1..Len(socket') : k \in 1..Len(socket) \/ k = Len(socket) + 1
        BY <1>2, <3>1
      <3>3. Len(socket) + 1 \in 1..Len(socket')
        BY <1>2, <3>1
      <3>4. QED BY <1>2, <3>1, <3>2, <3>3
    <2>3. QED BY <2>1, <2>2
  <1>4. InPlan'
    BY DEF Sampling, InPlan, Reading, PlanOf
  <1> SUFFICES ASSUME client = "sample" PROVE (Single /\ Counted /\ Noted /\ Heard /\ Matched)'
    BY <1>4 DEF Sampling
  <1>5. Single /\ Counted /\ Noted /\ Heard /\ Matched
    BY DEF Sampling
  <1>6. \A f, k : k \in 0..Len(socket) /\ Announced(f, k) => Announced(f, k)'
    BY <1>2, <1>3 DEF Announced
  <1>7. \A f : Announced(f, Len(socket)) => \E j \in 1..Len(socket') : socket'[j].kind = f
    BY <1>2, <1>3 DEF Announced
  <1>8. /\ Reading' = Reading /\ Watched' = Watched /\ Second' = Second /\ Asked' = Asked
        /\ Checked' = Checked /\ cursor' = cursor
    BY DEF Reading, Watched, Second, Asked, Checked, cursor, PlanOf
  <1>9. \A k : Stirred(k)' = Stirred(k)
    BY DEF Stirred
  <1>10. Single'
    <2>1. sample.pc \in {"off", "read", "asked", "replied", "barrier", "loaded"} =>
             \A k \in 1..Len(socket') : socket'[k].kind # "reply"
      BY <1>3, <1>5 DEF Single
    <2>2. ASSUME NEW j \in 1..Len(socket'), NEW k \in 1..Len(socket'),
                 socket'[j].kind = "reply", socket'[k].kind = "reply"
          PROVE  j = k
      <3>1. j \in 1..Len(socket) /\ k \in 1..Len(socket)
        BY <1>3, <2>2
      <3>2. QED BY <1>3, <1>5, <2>2, <3>1 DEF Single
    <2>3. QED BY <2>1, <2>2 DEF Single
  <1>11. Counted' /\ Matched'
    BY <1>5, <1>8 DEF Counted, Matched, Fits, PlanOf
  <1>12. Noted'
    <2> SUFFICES ASSUME sample.pc = "read" \/ Reading, Second, NEW f \in Watched
                 PROVE  \/ sample.mid[f] = world'[f]
                        \/ \E j \in 1..Len(socket') : socket'[j].kind = f
                        \/ Stirred(cursor)
      BY <1>8, <1>9 DEF Noted, Announced
    <2>1. f \in {"scene", "record"}
      BY DEF Watched
    <2>2. sample.mid[f] = world[f] \/ Announced(f, Len(socket)) \/ Stirred(cursor)
      BY <1>5 DEF Noted
    <2>3. QED BY <1>3, <1>7, <2>1, <2>2
  <1>13. Heard'
    <2>1. sample.pc = "awaiting" /\ Checked =>
             \A k \in 1..Len(socket') : socket'[k].kind = "reply" =>
                 \/ Fits(Asked, socket'[k].value)
                 \/ Announced(Asked, k - 1)' \/ Stirred(cursor)
      <3> SUFFICES ASSUME sample.pc = "awaiting", Checked, NEW k \in 1..Len(socket'),
                          socket'[k].kind = "reply"
                   PROVE  \/ Fits(Asked, socket'[k].value)
                          \/ Announced(Asked, k - 1)' \/ Stirred(cursor)
        OBVIOUS
      <3>1. k \in 1..Len(socket) /\ socket'[k] = socket[k]
        BY <1>3
      <3>2. k - 1 \in 0..Len(socket)
        BY <1>2, <3>1
      <3>3. Fits(Asked, socket[k].value) \/ Announced(Asked, k - 1) \/ Stirred(cursor)
        BY <1>5, <3>1 DEF Heard
      <3>4. Announced(Asked, k - 1) => Announced(Asked, k - 1)'
        BY <1>3, <3>1, <3>2, <1>2, <1>8 DEF Announced
      <3>5. QED BY <3>1, <3>3, <3>4
    <2>2. QED BY <1>5, <1>8, <1>9, <2>1 DEF Heard, Fits, Announced
  <1>14. QED BY <1>10, <1>11, <1>12, <1>13

\* OBS changes.
LEMMA ObsChangesKeeps ==
  ASSUME IInv, NEW kind \in KindsFor(client), ObsChanges(kind),
         UNCHANGED <<controlVars, stageVars>>
  PROVE  IInv'
  <1>1. /\ socket \in Seq(Messages) /\ world \in [Fields -> 0..1] /\ changes \in Nat
    BY DEF IInv, Shape
  <1>2. /\ changes' = changes + 1
        /\ world' = [f \in Fields |-> IF f = kind THEN 1 - world[f] ELSE world[f]]
        /\ socket' = IF kind \in Kinds THEN Append(socket, [kind |-> kind]) ELSE socket
        /\ UNCHANGED <<client, received, inbox, alive, late, observer, evidence,
                       processed, feed, cell, replay, sample>>
    BY DEF ObsChanges
  <1>3. changes' \in Nat /\ world' \in [Fields -> 0..1]
    BY <1>1, <1>2
  <1> DEFINE m == [kind |-> kind]
  <1>4. m.kind = kind
    OBVIOUS
  <1>5. kind \in Kinds => m \in Messages
    BY DEF Messages
  <1>6. kind # "reply"
    BY DEF KindsFor
  <1>7. socket' \in Seq(Messages)
    BY <1>1, <1>2, <1>5, AppendProperties
  <1>8. Shape'
    BY <1>2, <1>3, <1>7 DEF IInv, Shape, ControlTypeOK, controlVars, stageVars
  <1>9. Sampling'
    <2>1. \A f \in {"scene", "record"} :
             world'[f] = world[f] \/ (socket' = Append(socket, m) /\ m.kind = f)
      BY <1>1, <1>2, <1>4 DEF Fields, Kinds
    <2>2. socket' = Append(socket, m) \/ socket' = socket
      BY <1>2
    <2> HIDE DEF m
    <2>3. QED BY <1>2, <1>4, <1>6, <2>1, <2>2, NewsKeeps DEF IInv
  <1>10. Ordered' /\ Feeding' /\ Waiting' /\ Saving'
    BY <1>2, OrderedFrame, FeedingFrame, WaitingFrame, SavingFrame, MarksFrame DEF IInv
  <1>11. Staged' /\ Spent'
    BY <1>2, StageFrame DEF IInv, Staged
  <1>12. QED BY <1>8, <1>9, <1>10, <1>11 DEF IInv

\* The fields of a sample whose position alone changes.
LEMMA SampleStep ==
  ASSUME sample \in SampleRecords, NEW pc,
         pc \in {"off", "read", "asked", "awaiting", "replied", "barrier", "loaded", "accepted",
                 "failed"},
         sample' = [sample EXCEPT !.pc = pc]
  PROVE  /\ sample' \in SampleRecords /\ sample'.pc = pc
         /\ sample'.profile = sample.profile /\ sample'.frozen = sample.frozen
         /\ sample'.value = sample.value /\ sample'.values = sample.values
         /\ sample'.target = sample.target /\ sample'.loaded = sample.loaded
         /\ sample'.mid = sample.mid
BY DEF SampleRecords

\* The read under way asks for a field.
LEMMA AskedField ==
  ASSUME Shape, InPlan, Reading
  PROVE  Asked \in Fields
  <1>1. sample.profile \in Profiles /\ sample.values \in Seq(-1..1)
    BY DEF Shape, SampleRecords
  <1>2. Len(sample.values) \in Nat /\ Len(sample.values) < Len(PlanOf(sample.profile))
    BY <1>1, LenProperties DEF InPlan
  <1>3. Len(PlanOf(sample.profile)) \in {1, 4}
        /\ \A i \in 1..Len(PlanOf(sample.profile)) : PlanOf(sample.profile)[i] \in Fields
    BY <1>1, PlanFacts
  <1>4. Len(sample.values) + 1 \in 1..Len(PlanOf(sample.profile))
    BY <1>2, <1>3
  <1>5. QED BY <1>3, <1>4 DEF Asked

\* OBS answers: the reply goes behind the news that OBS has sent before.
LEMMA ObsAnswersKeeps ==
  ASSUME IInv, ObsAnswers, UNCHANGED <<controlVars, stageVars>>
  PROVE  IInv'
  <1>1. /\ socket \in Seq(Messages) /\ world \in [Fields -> 0..1] /\ sample \in SampleRecords
        /\ sample.pc = "asked"
    BY DEF IInv, Shape, ObsAnswers
  <1>2. PICK v \in {world[Asked], Missing} :
            socket' = Append(socket, [kind |-> "reply", value |-> v])
    BY DEF ObsAnswers
  <1>3. /\ sample' = [sample EXCEPT !.pc = "awaiting"]
        /\ UNCHANGED <<client, world, changes, received, inbox, alive, late,
                       observer, evidence, processed, feed, cell, replay>>
    BY DEF ObsAnswers
  <1>4. /\ sample' \in SampleRecords /\ sample'.pc = "awaiting"
        /\ sample'.profile = sample.profile /\ sample'.frozen = sample.frozen
        /\ sample'.values = sample.values /\ sample'.mid = sample.mid
    BY <1>1, <1>3, SampleStep
  <1>5. Reading
    BY <1>1 DEF Reading
  <1>6. Asked \in Fields
    BY <1>5, AskedField DEF IInv, Sampling
  <1>7. v \in -1..1
    BY <1>1, <1>6, <1>2 DEF Missing
  <1> DEFINE m == [kind |-> "reply", value |-> v]
  <1>8. m \in Messages /\ m.kind = "reply" /\ m.value = v
    BY <1>7 DEF Messages
  <1> HIDE DEF m
  <1>9. /\ socket' \in Seq(Messages) /\ Len(socket') = Len(socket) + 1
        /\ socket'[Len(socket) + 1] = m /\ Len(socket) \in Nat
        /\ \A k \in 1..Len(socket) : socket'[k] = socket[k]
    BY <1>1, <1>2, <1>8, AppendProperties, LenProperties DEF m
  <1>10. Shape'
    BY <1>3, <1>4, <1>9 DEF IInv, Shape, ControlTypeOK, controlVars, stageVars
  <1>11. InPlan'
    BY <1>3, <1>4, <1>5 DEF IInv, Sampling, InPlan, PlanOf
  <1>12. ASSUME client = "sample" PROVE (Single /\ Counted /\ Noted /\ Heard /\ Matched)'
    <2>1. Single /\ Counted /\ Noted /\ Heard /\ Matched
      BY <1>12 DEF IInv, Sampling
    <2>2. \A k \in 1..Len(socket') : k \in 1..Len(socket) \/ k = Len(socket) + 1
      BY <1>9
    <2>3. \A k \in 1..Len(socket) : socket'[k].kind # "reply"
      BY <1>1, <1>9, <2>1 DEF Single
    <2>4. \A k \in 1..Len(socket') : socket'[k].kind = "reply" => k = Len(socket) + 1
      BY <2>2, <2>3
    <2>5. Single'
      BY <1>4, <2>4 DEF Single
    <2>6. /\ Reading' /\ Watched' = Watched /\ Second' = Second /\ Asked' = Asked
          /\ Checked' = Checked /\ cursor' = cursor
      BY <1>3, <1>4 DEF Reading, Watched, Second, Asked, Checked, cursor, PlanOf
    <2>7. \A k : Stirred(k)' = Stirred(k)
      BY <1>3, <1>4 DEF Stirred
    <2>8. Counted'
      BY <1>1, <1>3, <1>4, <2>1, <2>6 DEF Counted
    <2>9. Matched'
      BY <1>3, <1>4, <2>1, <2>6 DEF Matched, Fits, PlanOf
    <2>10. \A f : Announced(f, Len(socket)) => \E j \in 1..Len(socket') : socket'[j].kind = f
      BY <1>9 DEF Announced
    <2>11. \A f : Announced(f, Len(socket)) => \E j \in 1..Len(socket) : socket'[j].kind = f
      BY <1>9 DEF Announced
    <2>12. Second => \A f \in Watched : \/ sample.mid[f] = world[f]
                                        \/ Announced(f, Len(socket)) \/ Stirred(cursor)
      BY <1>5, <2>1 DEF Noted
    <2>13. Noted'
      BY <1>3, <1>4, <2>6, <2>7, <2>10, <2>12 DEF Noted, Announced
    <2>14. Checked => Fits(Asked, v) \/ Announced(Asked, Len(socket)) \/ Stirred(cursor)
      <3> SUFFICES ASSUME Checked
                   PROVE  Fits(Asked, v) \/ Announced(Asked, Len(socket)) \/ Stirred(cursor)
        OBVIOUS
      <3>1. Second /\ Asked \in Watched
        BY DEF Checked
      <3>2. CASE sample.mid[Asked] = world[Asked]
        BY <1>2, <3>2 DEF Fits
      <3>3. QED BY <2>12, <3>1, <3>2
    <2>15. Checked => \A k \in 1..Len(socket') : socket'[k].kind = "reply" =>
                         \/ Fits(Asked, socket'[k].value)
                         \/ \E j \in 1..(k - 1) : socket'[j].kind = Asked
                         \/ Stirred(cursor)
      <3> SUFFICES ASSUME Checked, NEW k \in 1..Len(socket'), socket'[k].kind = "reply"
                   PROVE  \/ Fits(Asked, socket'[k].value)
                          \/ \E j \in 1..(k - 1) : socket'[j].kind = Asked
                          \/ Stirred(cursor)
        OBVIOUS
      <3>1. k = Len(socket) + 1
        BY <2>4
      <3>2. k - 1 = Len(socket) /\ socket'[k].value = v
        BY <1>8, <1>9, <3>1
      <3>3. QED BY <2>11, <2>14, <3>2
    <2>16. Heard'
      BY <1>4, <2>6, <2>7, <2>15 DEF Heard, Fits, Announced
    <2>17. QED BY <2>5, <2>8, <2>9, <2>13, <2>16
  <1>13. Sampling'
    BY <1>3, <1>11, <1>12 DEF Sampling
  <1>14. Ordered' /\ Feeding' /\ Waiting' /\ Saving'
    BY <1>3, OrderedFrame, FeedingFrame, WaitingFrame, SavingFrame, MarksFrame DEF IInv
  <1>15. Staged' /\ Spent'
    BY <1>3, <1>4, StageFrame DEF IInv
  <1>16. QED BY <1>10, <1>13, <1>14, <1>15 DEF IInv

\* The session is lost.
LEMMA SessionEndsKeeps ==
  ASSUME IInv, SessionEnds, UNCHANGED <<controlVars, stageVars>>
  PROVE  IInv'
  <1> USE DEF SessionEnds
  <1>1. Shape'
    BY DEF IInv, Shape, ControlTypeOK, controlVars, stageVars
  <1>2. Ordered' /\ Feeding' /\ Waiting' /\ Saving'
    BY OrderedFrame, FeedingFrame, WaitingFrame, SavingFrame, MarksFrame DEF IInv
  <1>3. Sampling'
    BY SamplingFrame DEF IInv, Shape
  <1>4. Staged' /\ Spent'
    BY StageFrame DEF IInv, Staged
  <1>5. QED BY <1>1, <1>2, <1>3, <1>4 DEF IInv

\* The client's confirmation clock runs out.
LEMMA ClockPassesKeeps ==
  ASSUME IInv, ClockPasses, UNCHANGED <<controlVars, stageVars>>
  PROVE  IInv'
  <1> USE DEF ClockPasses
  <1>1. Shape'
    BY DEF IInv, Shape, ControlTypeOK, controlVars, stageVars
  <1>2. Ordered' /\ Feeding' /\ Waiting' /\ Saving'
    BY OrderedFrame, FeedingFrame, WaitingFrame, SavingFrame, MarksFrame DEF IInv
  <1>3. Sampling'
    BY SamplingFrame DEF IInv, Shape
  <1>4. Staged' /\ Spent'
    BY StageFrame DEF IInv, Staged
  <1>5. QED BY <1>1, <1>2, <1>3, <1>4 DEF IInv

-----------------------------------------------------------------------------
(* The socket.                                                             *)

\* Taking the message on top moves the others up.
LEMMA SocketShift ==
  ASSUME socket \in Seq(Messages), socket # <<>>, socket' = Tail(socket)
  PROVE  /\ socket' \in Seq(Messages) /\ Len(socket) \in Nat /\ Len(socket) # 0
         /\ Len(socket') = Len(socket) - 1 /\ Head(socket) = socket[1]
         /\ Head(socket) \in Messages
         /\ \A k \in 1..Len(socket') : k + 1 \in 1..Len(socket) /\ socket'[k] = socket[k + 1]
         /\ \A f, k : /\ k \in 1..Len(socket)
                      /\ \E j \in 1..k : socket[j].kind = f
                      /\ socket[1].kind # f
                      => \E j \in 1..(k - 1) : socket'[j].kind = f
  <1>1. /\ socket' \in Seq(Messages) /\ Len(socket) \in Nat /\ Len(socket) # 0
        /\ Len(socket') = Len(socket) - 1 /\ Head(socket) = socket[1]
        /\ Head(socket) \in Messages
        /\ \A k \in 1..Len(socket') : socket'[k] = socket[k + 1]
    BY HeadTailProperties, LenProperties, EmptySeq
  <1>2. \A k \in 1..Len(socket') : k + 1 \in 1..Len(socket)
    BY <1>1
  <1>3. ASSUME NEW f, NEW k \in 1..Len(socket), NEW j \in 1..k, socket[j].kind = f,
               socket[1].kind # f
        PROVE  \E i \in 1..(k - 1) : socket'[i].kind = f
    <2>1. j # 1 /\ j \in Nat /\ j >= 1
      BY <1>3
    <2>2. j - 1 \in 1..(k - 1) /\ j - 1 \in 1..Len(socket') /\ (j - 1) + 1 = j
      BY <1>1, <1>3, <2>1
    <2>3. socket'[j - 1] = socket[j]
      BY <1>1, <2>2
    <2>4. QED BY <1>3, <2>2, <2>3
  <1>4. QED BY <1>1, <1>2, <1>3

\* A reply is received: it resumes its reader.
LEMMA ReceiveReply ==
  ASSUME IInv, UNCHANGED <<controlVars, stageVars>>,
         alive, socket # <<>>, socket' = Tail(socket), Head(socket).kind = "reply",
         sample' = IF sample.pc = "awaiting"
                   THEN [sample EXCEPT !.pc = "replied", !.value = Head(socket).value]
                   ELSE sample,
         UNCHANGED <<received, inbox, alive, client, world, changes, late, observer, evidence,
                     processed, feed, cell, replay>>
  PROVE  IInv'
  <1>1. socket \in Seq(Messages) /\ sample \in SampleRecords
    BY DEF IInv, Shape
  <1>2. /\ socket' \in Seq(Messages) /\ Len(socket) \in Nat /\ Len(socket) # 0
        /\ Len(socket') = Len(socket) - 1 /\ Head(socket) = socket[1]
        /\ Head(socket) \in Messages
        /\ \A k \in 1..Len(socket') : k + 1 \in 1..Len(socket) /\ socket'[k] = socket[k + 1]
        /\ \A f, k : /\ k \in 1..Len(socket)
                     /\ \E j \in 1..k : socket[j].kind = f
                     /\ socket[1].kind # f
                     => \E j \in 1..(k - 1) : socket'[j].kind = f
    BY <1>1, SocketShift
  <1>3. Head(socket).value \in -1..1
    BY <1>2 DEF Messages, Kinds
  <1>4. /\ sample' \in SampleRecords /\ sample'.profile = sample.profile
        /\ sample'.frozen = sample.frozen /\ sample'.values = sample.values
        /\ sample'.target = sample.target /\ sample'.loaded = sample.loaded
        /\ sample'.mid = sample.mid
        /\ sample.pc # "awaiting" => sample'.pc = sample.pc /\ sample'.value = sample.value
        /\ sample.pc = "awaiting" => sample'.pc = "replied" /\ sample'.value = Head(socket).value
    <2>1. CASE sample.pc # "awaiting"
      BY <1>1, <2>1
    <2>2. CASE sample.pc = "awaiting"
      <3> PICK v : v = Head(socket).value
        OBVIOUS
      <3>1. sample' = [sample EXCEPT !.pc = "replied", !.value = v] /\ v \in -1..1
        BY <1>3, <2>2
      <3>2. QED BY <1>1, <2>2, <3>1 DEF SampleRecords
    <2>3. QED BY <2>1, <2>2
  <1>5. Shape'
    BY <1>2, <1>4 DEF IInv, Shape, ControlTypeOK, controlVars, stageVars
  <1>6. /\ (Reading <=> Reading') /\ Watched' = Watched /\ Second' = Second /\ Asked' = Asked
        /\ Checked' = Checked /\ cursor' = cursor
    BY <1>4 DEF Reading, Watched, Second, Asked, Checked, cursor, PlanOf
  <1>7. InPlan'
    BY <1>4, <1>6 DEF IInv, Sampling, InPlan, PlanOf
  <1>8. ASSUME client = "sample" PROVE (Single /\ Counted /\ Noted /\ Heard /\ Matched)'
    <2>1. Single /\ Counted /\ Noted /\ Heard /\ Matched
      BY <1>8 DEF IInv, Sampling
    <2>2. 1 \in 1..Len(socket) /\ socket[1].kind = "reply"
      BY <1>2
    <2>3. sample.pc \in {"awaiting", "accepted", "failed"}
      BY <1>1, <2>1, <2>2 DEF Single, SampleRecords
    <2>4. \A k \in 1..Len(socket') : socket'[k].kind # "reply"
      <3> SUFFICES ASSUME NEW k \in 1..Len(socket'), socket'[k].kind = "reply" PROVE FALSE
        OBVIOUS
      <3>1. k + 1 \in 1..Len(socket) /\ socket[k + 1].kind = "reply"
        BY <1>2
      <3>2. k + 1 = 1
        BY <2>1, <2>2, <3>1 DEF Single
      <3>3. QED BY <3>2
    <2>5. Single'
      BY <2>4 DEF Single
    <2>6. \A k : Stirred(k)' = Stirred(k)
      BY <1>4 DEF Stirred
    <2>7. Counted'
      BY <1>4, <1>6, <2>1, <2>3 DEF Counted
    <2>8. Matched'
      BY <1>4, <1>6, <2>1, <2>3 DEF Matched, Fits, PlanOf
    <2>9. \A f \in Watched :
             Announced(f, Len(socket)) => \E j \in 1..Len(socket') : socket'[j].kind = f
      <3> SUFFICES ASSUME NEW f \in Watched, Announced(f, Len(socket))
                   PROVE  \E j \in 1..Len(socket') : socket'[j].kind = f
        OBVIOUS
      <3>1. f # "reply"
        BY DEF Watched
      <3>2. Len(socket) \in 1..Len(socket) /\ Len(socket) - 1 = Len(socket')
        BY <1>2
      <3>3. \E j \in 1..Len(socket) : socket[j].kind = f
        BY DEF Announced
      <3>4. socket[1].kind # f
        BY <2>2, <3>1
      <3>5. \E j \in 1..(Len(socket) - 1) : socket'[j].kind = f
        BY <1>2, <3>2, <3>3, <3>4
      <3>6. QED BY <3>2, <3>5
    <2>10. Noted'
      BY <1>4, <1>6, <2>1, <2>6, <2>9 DEF Noted, Announced
    <2>11. sample.pc = "awaiting" /\ Checked =>
              Fits(Asked, Head(socket).value) \/ Stirred(cursor)
      <3>1. ~Announced(Asked, 1 - 1)
        BY DEF Announced
      <3>2. QED BY <1>2, <2>1, <2>2, <3>1 DEF Heard
    <2>12. Heard'
      BY <1>4, <1>6, <2>3, <2>6, <2>11 DEF Heard, Fits
    <2>13. QED BY <2>5, <2>7, <2>8, <2>10, <2>12
  <1>9. Sampling'
    BY <1>7, <1>8 DEF Sampling
  <1>10. Ordered' /\ Feeding' /\ Waiting' /\ Saving'
    BY OrderedFrame, FeedingFrame, WaitingFrame, SavingFrame, MarksFrame DEF IInv
  <1>11. Staged' /\ Spent'
    BY <1>4, StageFrame DEF IInv, Staged
  <1>12. QED BY <1>5, <1>9, <1>10, <1>11 DEF IInv

\* One more event received: the earlier ones keep their places.
LEMMA ReceivedGrows ==
  ASSUME received \in Seq(Arrivals), NEW e \in Arrivals, received' = Append(received, e)
  PROVE  /\ received' \in Seq(Arrivals) /\ cursor \in Nat /\ cursor' = cursor + 1
         /\ received'[cursor + 1] = e
         /\ \A n \in 1..cursor : received'[n] = received[n]
         /\ \A n \in 1..(cursor + 1) : n \in 1..cursor \/ n = cursor + 1
         /\ \A p : \A m \in 0..cursor : Count(received', p, m) = Count(received, p, m)
         /\ \A p : /\ Count(received, p, cursor) \in Nat
                   /\ Count(received', p, cursor + 1) =
                         IF Invalidates(p, e.kind) THEN Count(received, p, cursor) + 1
                         ELSE Count(received, p, cursor)
  <1>1. /\ received' \in Seq(Arrivals) /\ cursor \in Nat /\ cursor' = cursor + 1
        /\ received'[cursor + 1] = e
        /\ \A n \in 1..cursor : received'[n] = received[n]
    BY AppendProperties, LenProperties DEF cursor
  <1>2. \A n \in 1..(cursor + 1) : n \in 1..cursor \/ n = cursor + 1
    BY <1>1
  <1>3. ASSUME NEW p, NEW m \in 0..cursor PROVE Count(received', p, m) = Count(received, p, m)
    <2>1. m \in Nat /\ m <= cursor
      BY <1>1, <1>3
    <2>2. \A n \in 1..m : n \in 1..cursor
      BY <1>1, <2>1
    <2>3. \A n \in 1..m : received'[n] = received[n]
      BY <1>1, <2>2
    <2>4. QED BY <2>1, <2>3, CountSame
  <1>4. ASSUME NEW p
        PROVE  /\ Count(received, p, cursor) \in Nat
               /\ Count(received', p, cursor + 1) =
                     IF Invalidates(p, e.kind) THEN Count(received, p, cursor) + 1
                     ELSE Count(received, p, cursor)
    <2>1. Count(received', p, cursor) = Count(received, p, cursor)
      BY <1>1, <1>3
    <2>2. QED BY <1>1, <2>1, CountNext, CountType
  <1>5. QED BY <1>1, <1>2, <1>3, <1>4

\* An event is received: what the waiters know of earlier events stands, and an
\* event received late is not theirs.
LEMMA EventForWaiters ==
  ASSUME IInv, NEW e \in Arrivals, received' = Append(received, e), e.late = late,
         UNCHANGED <<late, observer, processed, feed, cell, replay>>,
         evidence'.connected = evidence.connected
  PROVE  Feeding' /\ Waiting' /\ Saving'
  <1>1. received \in Seq(Arrivals) /\ cell \in CellRecords /\ replay \in ReplayRecords
        /\ feed \in FeedRecords
    BY DEF IInv, Shape
  <1>2. /\ cursor \in Nat /\ cursor' = cursor + 1 /\ received'[cursor + 1] = e
        /\ \A n \in 1..cursor : received'[n] = received[n]
        /\ \A n \in 1..(cursor + 1) : n \in 1..cursor \/ n = cursor + 1
    BY <1>1, ReceivedGrows
  <1>3. /\ Projected' = Projected /\ Projected \in Nat /\ Projected <= cursor
    BY MarksFrame, MarksBounded DEF IInv
  <1>4. Feeding'
    <2>1. feed.applied \in Nat
      BY <1>1 DEF FeedRecords
    <2>2. \A i \in 1..Len(feed.queue) : feed.queue[i] \in 1..cursor'
      BY <1>2 DEF IInv, Feeding
    <2>3. feed.applied <= cursor'
      BY <1>2, <2>1 DEF IInv, Feeding
    <2>4. QED BY <2>2, <2>3 DEF IInv, Feeding, TakeFenceMeansApplied
  <1>5. Waiting'
    <2>1. /\ cell.after \in Nat /\ cell.result \in -1..cursor /\ cell.cutoff \in Int
          /\ cell.after <= cursor
      BY <1>1 DEF CellRecords, IInv, Waiting
    <2>2. cell.after <= cursor' /\ cell.result \in -1..cursor'
      BY <1>2, <2>1
    <2>3. cell.result > 0 =>
             /\ Eligible("record", cell.after, cell.result)'
             /\ \A n \in 1..(cell.result - 1) : ~Eligible("record", cell.after, n)'
      <3> SUFFICES ASSUME cell.result > 0
                   PROVE  /\ Eligible("record", cell.after, cell.result)'
                          /\ \A n \in 1..(cell.result - 1) : ~Eligible("record", cell.after, n)'
        OBVIOUS
      <3>1. cell.result \in 1..cursor /\ \A n \in 1..(cell.result - 1) : n \in 1..cursor
        BY <1>2, <2>1
      <3>2. /\ Eligible("record", cell.after, cell.result)
            /\ \A n \in 1..(cell.result - 1) : ~Eligible("record", cell.after, n)
        BY DEF IInv, Waiting
      <3>3. /\ received'[cell.result] = received[cell.result]
            /\ \A n \in 1..(cell.result - 1) : received'[n] = received[n]
        BY <1>2, <3>1
      <3>4. QED BY <3>2, <3>3 DEF Eligible
    <2>4. cell.result = 0 /\ cell.pc \notin {"off", "done"} =>
             \A n \in 1..Projected : ~Eligible("record", cell.after, n)'
      <3>1. \A n \in 1..Projected : n \in 1..cursor
        BY <1>2, <1>3
      <3>2. \A n \in 1..Projected : received'[n] = received[n]
        BY <1>2, <3>1
      <3>3. QED BY <3>2 DEF IInv, Waiting, Eligible
    <2>5. cell.cutoff # Missing =>
             /\ late /\ cell.cutoff \in 0..cursor'
             /\ \A n \in 1..cursor' : n > cell.cutoff => received'[n].late
      <3> SUFFICES ASSUME cell.cutoff # Missing
                   PROVE  /\ late /\ cell.cutoff \in 0..cursor'
                          /\ \A n \in 1..cursor' : n > cell.cutoff => received'[n].late
        OBVIOUS
      <3>1. /\ late /\ cell.cutoff \in 0..cursor
            /\ \A n \in 1..cursor : n > cell.cutoff => received[n].late
        BY DEF IInv, Waiting
      <3>2. cell.cutoff \in 0..cursor'
        BY <1>2, <3>1
      <3>3. ASSUME NEW n \in 1..cursor', n > cell.cutoff PROVE received'[n].late
        BY <1>2, <3>1, <3>3
      <3>4. QED BY <3>1, <3>2, <3>3
    <2>6. cell.outcome = "expired" =>
             late /\ \A n \in 1..cursor' : ~Eligible("record", cell.after, n)'
      <3> SUFFICES ASSUME cell.outcome = "expired"
                   PROVE  late /\ \A n \in 1..cursor' : ~Eligible("record", cell.after, n)'
        OBVIOUS
      <3>1. late /\ \A n \in 1..cursor : ~Eligible("record", cell.after, n)
        BY DEF IInv, Waiting
      <3>2. ASSUME NEW n \in 1..cursor' PROVE ~Eligible("record", cell.after, n)'
        <4>1. CASE n \in 1..cursor
          BY <1>2, <3>1, <4>1 DEF Eligible
        <4>2. CASE n = cursor + 1
          BY <1>2, <3>1, <4>2 DEF Eligible
        <4>3. QED BY <1>2, <4>1, <4>2
      <3>3. QED BY <3>1, <3>2
    <2>7. QED BY <1>3, <2>2, <2>3, <2>4, <2>5, <2>6 DEF IInv, Waiting, Eligible
  <1>6. Saving'
    <2>1. /\ replay.armed \in -1..cursor /\ replay.path \in 0..cursor
          /\ replay.expected \in Nat /\ replay.barrier \in Nat
      BY <1>1 DEF ReplayRecords, IInv, Saving
    <2>2. replay.armed \in -1..cursor' /\ replay.path \in 0..cursor'
      BY <1>2, <2>1
    <2>3. \A n \in 1..Projected : received'[n] = received[n]
      <3>1. \A n \in 1..Projected : n \in 1..cursor
        BY <1>2, <1>3
      <3>2. QED BY <1>2, <3>1
    <2>4. (replay.armed # Missing /\ ~replay.issue =>
             /\ replay.seen = 0 <=> replay.path = 0
             /\ \A n \in 1..Projected : Eligible("saved", replay.armed, n) <=> n = replay.path
             /\ replay.path <= Projected)'
      BY <1>3, <2>3 DEF IInv, Saving, Eligible
    <2>5. /\ replay.pc \in {"saved", "barrier", "confirmed"} => replay.expected \in 1..cursor'
          /\ replay.pc \in {"barrier", "confirmed"} =>
                replay.expected <= replay.barrier /\ replay.barrier <= cursor'
      BY <1>2, <2>1 DEF IInv, Saving
    <2>6. ReplayPathIsTheOnlyOne'
      <3> SUFFICES ASSUME replay.pc = "confirmed"
                   PROVE  {n \in 1..replay.barrier : Eligible("saved", replay.armed, n)'}
                             = {replay.expected}
        BY DEF ReplayPathIsTheOnlyOne, Eligible
      <3>1. {n \in 1..replay.barrier : Eligible("saved", replay.armed, n)} = {replay.expected}
        BY DEF IInv, Saving, ReplayPathIsTheOnlyOne
      <3>2. replay.barrier <= cursor
        BY DEF IInv, Saving
      <3>3. \A n \in 1..replay.barrier : n \in 1..cursor
        BY <1>2, <2>1, <3>2
      <3>4. \A n \in 1..replay.barrier : received'[n] = received[n]
        BY <1>2, <3>3
      <3>5. QED BY <3>1, <3>4 DEF Eligible
    <2>7. QED BY <2>2, <2>4, <2>5, <2>6 DEF IInv, Saving
  <1>7. QED BY <1>4, <1>5, <1>6

\* An event is received: for the sample the news of a watched field is no
\* longer on the way, but counts.
LEMMA EventForSample ==
  ASSUME IInv, NEW e \in Arrivals, received' = Append(received, e),
         socket # <<>>, socket' = Tail(socket), e.kind = Head(socket).kind,
         Head(socket).kind # "reply", UNCHANGED <<client, world, processed, sample>>
  PROVE  Sampling'
  <1>1. /\ received \in Seq(Arrivals) /\ socket \in Seq(Messages) /\ sample \in SampleRecords
    BY DEF IInv, Shape
  <1>2. /\ socket' \in Seq(Messages) /\ Len(socket) \in Nat /\ Len(socket) # 0
        /\ Len(socket') = Len(socket) - 1 /\ Head(socket) = socket[1]
        /\ \A k \in 1..Len(socket') : k + 1 \in 1..Len(socket) /\ socket'[k] = socket[k + 1]
        /\ \A f, k : /\ k \in 1..Len(socket)
                     /\ \E j \in 1..k : socket[j].kind = f
                     /\ socket[1].kind # f
                     => \E j \in 1..(k - 1) : socket'[j].kind = f
    BY <1>1, SocketShift
  <1>3. /\ cursor \in Nat /\ cursor' = cursor + 1
        /\ \A p : \A m \in 0..cursor : Count(received', p, m) = Count(received, p, m)
        /\ \A p : /\ Count(received, p, cursor) \in Nat
                  /\ Count(received', p, cursor + 1) =
                        IF Invalidates(p, e.kind) THEN Count(received, p, cursor) + 1
                        ELSE Count(received, p, cursor)
    BY <1>1, ReceivedGrows
  <1>4. sample.frozen \in Nat /\ sample.target \in Nat /\ sample.profile \in Profiles
    BY <1>1 DEF SampleRecords
  <1>5. InPlan'
    BY DEF IInv, Sampling, InPlan, Reading, PlanOf
  <1> SUFFICES ASSUME client = "sample" PROVE (Single /\ Counted /\ Noted /\ Heard /\ Matched)'
    BY <1>5 DEF Sampling
  <1>6. Single /\ Counted /\ Noted /\ Heard /\ Matched
    BY DEF IInv, Sampling
  <1>7. /\ Reading' = Reading /\ Watched' = Watched /\ Second' = Second /\ Asked' = Asked
        /\ Checked' = Checked
    BY DEF Reading, Watched, Second, Asked, Checked, PlanOf
  <1> DEFINE c == Count(received, sample.profile, cursor)
             d == Count(received', sample.profile, cursor')
  <1>8. /\ c \in Nat /\ d \in Nat /\ c <= d
        /\ Invalidates(sample.profile, e.kind) => d = c + 1
    BY <1>3
  <1> HIDE DEF c, d
  <1>9. /\ Stirred(cursor) <=> c > sample.frozen
        /\ Stirred(cursor)' <=> d > sample.frozen
    BY DEF Stirred, c, d
  <1>10. Stirred(cursor) => Stirred(cursor)'
    BY <1>4, <1>8, <1>9
  <1>11. sample.pc # "off" => sample.frozen <= c
    BY <1>6 DEF Counted, c
  <1>12. sample.pc # "off" /\ Invalidates(sample.profile, e.kind) => Stirred(cursor)'
    BY <1>4, <1>8, <1>9, <1>11
  <1>13. Single'
    <2>1. ASSUME NEW k \in 1..Len(socket')
          PROVE  k + 1 \in 1..Len(socket) /\ socket'[k] = socket[k + 1]
      BY <1>2
    <2>2. sample.pc \in {"off", "read", "asked", "replied", "barrier", "loaded"} =>
             \A k \in 1..Len(socket') : socket'[k].kind # "reply"
      BY <1>6, <2>1 DEF Single
    <2>3. ASSUME NEW j \in 1..Len(socket'), NEW k \in 1..Len(socket'),
                 socket'[j].kind = "reply", socket'[k].kind = "reply"
          PROVE  j = k
      <3>1. j + 1 = k + 1
        BY <1>6, <2>1, <2>3 DEF Single
      <3>2. QED BY <3>1
    <2>4. QED BY <2>2, <2>3 DEF Single
  <1>14. Counted'
    <2>1. sample.pc # "off" => sample.frozen <= d
      BY <1>4, <1>8, <1>11
    <2>2. sample.target <= cursor => sample.target <= cursor'
      BY <1>3, <1>4
    <2>3. QED BY <1>6, <2>1, <2>2 DEF Counted, d
  <1>15. Matched'
    BY <1>6, <1>7 DEF Matched, Fits, PlanOf
  <1>16. ASSUME NEW f \in Watched, NEW k \in 1..Len(socket), Announced(f, k),
                sample.pc # "off"
         PROVE  (\E j \in 1..(k - 1) : socket'[j].kind = f) \/ Stirred(cursor)'
    <2>1. Invalidates(sample.profile, f)
      BY DEF Watched
    <2>2. CASE socket[1].kind = f
      BY <1>2, <1>12, <1>16, <2>1, <2>2
    <2>3. CASE socket[1].kind # f
      <3>1. \E j \in 1..k : socket[j].kind = f
        BY <1>16 DEF Announced
      <3>2. QED BY <1>2, <2>3, <3>1
    <2>4. QED BY <2>2, <2>3
  <1>17. Noted'
    <2> SUFFICES ASSUME sample.pc = "read" \/ Reading, Second, NEW f \in Watched
                 PROVE  \/ sample.mid[f] = world[f]
                        \/ \E j \in 1..Len(socket') : socket'[j].kind = f
                        \/ Stirred(cursor)'
      BY <1>7 DEF Noted, Announced
    <2>1. sample.mid[f] = world[f] \/ Announced(f, Len(socket)) \/ Stirred(cursor)
      BY <1>6 DEF Noted
    <2>2. sample.pc # "off" /\ Len(socket) \in 1..Len(socket) /\ Len(socket) - 1 = Len(socket')
      BY <1>2 DEF Reading
    <2>3. QED BY <1>10, <1>16, <2>1, <2>2
  <1>18. Heard'
    <2>1. ASSUME sample.pc = "awaiting", Checked, NEW k \in 1..Len(socket'),
                 socket'[k].kind = "reply"
          PROVE  \/ Fits(Asked, socket'[k].value)
                 \/ \E j \in 1..(k - 1) : socket'[j].kind = Asked
                 \/ Stirred(cursor)'
      <3>1. /\ k + 1 \in 1..Len(socket) /\ socket'[k] = socket[k + 1] /\ (k + 1) - 1 = k
            /\ k \in 1..Len(socket) /\ Asked \in Watched
        BY <1>2, <2>1 DEF Checked
      <3>2. Fits(Asked, socket[k + 1].value) \/ Announced(Asked, k) \/ Stirred(cursor)
        BY <1>6, <2>1, <3>1 DEF Heard
      <3>3. QED BY <1>10, <1>16, <2>1, <3>1, <3>2
    <2>2. sample.pc \in {"barrier", "loaded"} => Stirred(sample.target)' = Stirred(sample.target)
      <3> SUFFICES ASSUME sample.pc \in {"barrier", "loaded"}
                   PROVE  Stirred(sample.target)' = Stirred(sample.target)
        OBVIOUS
      <3>1. sample.target <= cursor
        BY <1>6 DEF Counted
      <3>2. sample.target \in 0..cursor
        BY <1>3, <1>4, <3>1
      <3>3. QED BY <1>3, <3>2 DEF Stirred
    <2>3. QED BY <1>6, <1>7, <1>10, <2>1, <2>2 DEF Heard, Fits, Announced
  <1>19. QED BY <1>13, <1>14, <1>15, <1>17, <1>18

\* An event is received: the revision still counts what is published.
LEMMA EventForObserver ==
  ASSUME IInv, NEW e \in Arrivals, received' = Append(received, e),
         inbox' = Append(inbox, cursor + 1) \/ inbox' = inbox,
         UNCHANGED <<observer, processed, evidence, cell, replay>>
  PROVE  Ordered' /\ inbox' \in Seq(Nat)
  <1>1. received \in Seq(Arrivals) /\ inbox \in Seq(Nat)
    BY DEF IInv, Shape
  <1>2. /\ cursor \in Nat /\ cursor' = cursor + 1
        /\ \A p : \A m \in 0..cursor : Count(received', p, m) = Count(received, p, m)
    BY <1>1, ReceivedGrows
  <1>3. Published' = Published /\ Published \in Nat /\ Published <= cursor
    BY MarksFrame, MarksBounded DEF IInv
  <1>4. inbox' \in Seq(Nat) /\ \A i \in 1..Len(inbox') : inbox'[i] \in 1..cursor'
    <2>1. CASE inbox' = inbox
      BY <1>1, <1>2, <2>1 DEF IInv, Ordered
    <2>2. CASE inbox' = Append(inbox, cursor + 1)
      <3>1. cursor + 1 \in Nat /\ Len(inbox) \in Nat
        BY <1>1, <1>2, LenProperties
      <3>2. /\ inbox' \in Seq(Nat) /\ Len(inbox') = Len(inbox) + 1
            /\ inbox'[Len(inbox) + 1] = cursor + 1
            /\ \A i \in 1..Len(inbox) : inbox'[i] = inbox[i]
        BY <1>1, <2>2, <3>1, AppendProperties
      <3>3. \A i \in 1..Len(inbox) : inbox[i] \in 1..cursor'
        BY <1>2 DEF IInv, Ordered
      <3>4. \A i \in 1..Len(inbox') : i \in 1..Len(inbox) \/ i = Len(inbox) + 1
        BY <3>1, <3>2
      <3>5. cursor + 1 \in 1..cursor'
        BY <1>2
      <3>6. QED BY <3>2, <3>3, <3>4, <3>5
    <2>3. QED BY <2>1, <2>2
  <1>5. Published' <= cursor' /\ Published \in 0..cursor
    BY <1>2, <1>3
  <1>6. \A p \in Profiles : evidence'.rev[p] = Count(received', p, Published')
    BY <1>2, <1>3, <1>5 DEF IInv, Ordered
  <1>7. QED BY <1>4, <1>5, <1>6 DEF IInv, Ordered

\* The message on top of the socket.
LEMMA ReceiveKeeps ==
  ASSUME IInv, Receive, UNCHANGED <<controlVars, stageVars>>
  PROVE  IInv'
  <1>1. CASE Head(socket).kind = "reply"
    BY <1>1, ReceiveReply DEF Receive
  <1>2. CASE Head(socket).kind # "reply"
    <2> DEFINE e == [kind |-> Head(socket).kind, late |-> late]
    <2>1. /\ socket # <<>> /\ socket' = Tail(socket) /\ received' = Append(received, e)
          /\ inbox' = Append(inbox, cursor + 1) \/ inbox' = inbox
          /\ alive' \in {alive, FALSE}
          /\ UNCHANGED <<client, world, changes, late, observer, evidence, processed,
                         feed, cell, replay, sample>>
      BY <1>2 DEF Receive
    <2>2. socket \in Seq(Messages) /\ late \in BOOLEAN /\ received \in Seq(Arrivals)
          /\ alive \in BOOLEAN
      BY DEF IInv, Shape
    <2>3. socket' \in Seq(Messages) /\ Head(socket) \in Messages
      BY <2>1, <2>2, SocketShift
    <2>4. Head(socket).kind \in Kinds
      BY <1>2, <2>3 DEF Messages
    <2>5. e \in Arrivals /\ e.kind = Head(socket).kind /\ e.late = late
      BY <2>2, <2>4 DEF Arrivals
    <2> HIDE DEF e
    <2>6. Ordered' /\ inbox' \in Seq(Nat)
      BY <2>1, <2>5, EventForObserver
    <2>7. Feeding' /\ Waiting' /\ Saving'
      BY <2>1, <2>5, EventForWaiters
    <2>8. Sampling'
      BY <1>2, <2>1, <2>5, EventForSample
    <2>9. received' \in Seq(Arrivals)
      BY <2>1, <2>2, <2>5, ReceivedGrows
    <2>10. alive' \in BOOLEAN
      BY <2>1, <2>2
    <2>11. Shape'
      BY <2>1, <2>3, <2>6, <2>9, <2>10 DEF IInv, Shape, ControlTypeOK, controlVars, stageVars
    <2>12. Staged' /\ Spent'
      BY <2>1, StageFrame DEF IInv, Staged
    <2>13. QED BY <2>6, <2>7, <2>8, <2>11, <2>12 DEF IInv
  <1>3. QED BY <1>1, <1>2

-----------------------------------------------------------------------------
(* The sample.                                                             *)

\* A step that touches the sample alone.
LEMMA SampleMoves ==
  ASSUME IInv, sample' \in SampleRecords, Sampling',
         sample'.pc = "accepted" => client = "sample", OnlySample,
         UNCHANGED <<controlVars, stageVars>>
  PROVE  IInv'
  <1> USE DEF OnlySample, bridgeVars
  <1>1. Shape'
    BY DEF IInv, Shape, ControlTypeOK, controlVars, stageVars
  <1>2. Ordered' /\ Feeding' /\ Waiting' /\ Saving'
    BY OrderedFrame, FeedingFrame, WaitingFrame, SavingFrame, MarksFrame DEF IInv
  <1>3. Staged' /\ Spent'
    BY StageFrame DEF IInv
  <1>4. QED BY <1>1, <1>2, <1>3 DEF IInv

\* A sample that has begun may fail at any time.
LEMMA FailedSample ==
  ASSUME IInv, Fail, sample.pc # "off", OnlySample
  PROVE  sample' \in SampleRecords /\ sample'.pc = "failed" /\ Sampling'
  <1>1. sample \in SampleRecords /\ sample' = [sample EXCEPT !.pc = "failed"]
    BY DEF IInv, Shape, Fail
  <1>2. /\ sample' \in SampleRecords /\ sample'.pc = "failed"
        /\ sample'.profile = sample.profile /\ sample'.frozen = sample.frozen
        /\ sample'.values = sample.values /\ sample'.mid = sample.mid
    BY <1>1, SampleStep
  <1>3. /\ cursor' = cursor /\ Watched' = Watched /\ UNCHANGED <<client, socket, received>>
    BY <1>2 DEF cursor, Watched, OnlySample, bridgeVars
  <1>4. InPlan'
    BY <1>2 DEF InPlan, Reading
  <1>5. ASSUME client = "sample" PROVE (Single /\ Counted /\ Noted /\ Heard /\ Matched)'
    <2>1. Single /\ Counted /\ Noted /\ Heard /\ Matched
      BY <1>5 DEF IInv, Sampling
    <2>2. Single' /\ Counted'
      BY <1>2, <1>3, <2>1 DEF Single, Counted
    <2>3. Noted' /\ Heard'
      BY <1>2 DEF Noted, Heard, Reading
    <2>4. Matched'
      BY <1>2, <1>3, <2>1 DEF Matched, Fits, PlanOf
    <2>5. QED BY <2>2, <2>3, <2>4
  <1>6. QED BY <1>2, <1>3, <1>4, <1>5 DEF Sampling

\* The published revision is a count of received events.
LEMMA RevisionBounded ==
  ASSUME IInv, NEW p \in Profiles
  PROVE  /\ evidence.rev[p] \in Nat /\ evidence.rev[p] <= Count(received, p, cursor)
         /\ \A m \in 0..processed : Count(received, p, m) <= evidence.rev[p]
  <1>1. evidence.rev[p] \in Nat
    BY DEF IInv, Shape, EvidenceRecords
  <1>2. /\ cursor \in Nat /\ Published \in Nat /\ processed \in Nat
        /\ processed <= Published /\ Published <= cursor
    BY MarksBounded DEF IInv
  <1>3. evidence.rev[p] = Count(received, p, Published)
    BY DEF IInv, Ordered
  <1>4. \A m \in 0..processed : m \in Nat /\ m <= Published
    BY <1>2
  <1>5. QED BY <1>1, <1>2, <1>3, <1>4, CountGrows

\* The revision is frozen.
LEMMA BeginSampleKeeps ==
  ASSUME IInv, NEW p \in Profiles, BeginSample(p), UNCHANGED <<controlVars, stageVars>>
  PROVE  IInv'
  <1>1. /\ client = "sample" /\ sample.pc = "off" /\ OnlySample /\ sample \in SampleRecords
        /\ sample' = [sample EXCEPT !.pc = "read", !.profile = p, !.frozen = evidence.rev[p]]
    BY DEF IInv, Shape, BeginSample
  <1>2. evidence.rev[p] \in Nat /\ evidence.rev[p] <= Count(received, p, cursor)
    BY RevisionBounded
  <1>3. /\ sample' \in SampleRecords /\ sample'.pc = "read" /\ sample'.profile = p
        /\ sample'.frozen = evidence.rev[p] /\ sample'.values = sample.values
    BY <1>1, <1>2 DEF SampleRecords
  <1>4. Single /\ Counted /\ Matched
    BY <1>1 DEF IInv, Sampling
  <1>5. sample.values = <<>> /\ Len(sample.values) = 0
    BY <1>1, <1>4 DEF Counted
  <1>6. UNCHANGED <<client, socket, received>> /\ cursor' = cursor
    BY <1>1 DEF OnlySample, bridgeVars, cursor
  <1>7. Single'
    BY <1>1, <1>3, <1>4, <1>6 DEF Single
  <1>8. Counted'
    BY <1>2, <1>3, <1>5, <1>6 DEF Counted
  <1>9. Noted' /\ Heard' /\ Matched' /\ InPlan'
    BY <1>3, <1>5 DEF Noted, Heard, Matched, InPlan, Reading, Second
  <1>10. Sampling'
    BY <1>7, <1>8, <1>9 DEF Sampling
  <1>11. QED BY <1>1, <1>3, <1>10, SampleMoves

\* The next read of the plan, unless the state has moved.
LEMMA StartReadKeeps ==
  ASSUME IInv, StartRead, UNCHANGED <<controlVars, stageVars>>
  PROVE  IInv'
  <1>1. /\ sample.pc = "read" /\ OnlySample /\ sample \in SampleRecords
        /\ Len(sample.values) < Len(PlanOf(sample.profile))
    BY DEF IInv, Shape, StartRead
  <1>2. CASE Fail
    BY <1>1, <1>2, FailedSample, SampleMoves
  <1>3. CASE sample' = [sample EXCEPT !.pc = "asked"]
    <2>1. /\ sample' \in SampleRecords /\ sample'.pc = "asked"
          /\ sample'.profile = sample.profile /\ sample'.frozen = sample.frozen
          /\ sample'.values = sample.values /\ sample'.mid = sample.mid
      BY <1>1, <1>3, SampleStep
    <2>2. UNCHANGED <<client, world, socket, received>> /\ cursor' = cursor
          /\ Watched' = Watched /\ Second' = Second
      BY <1>1, <2>1 DEF OnlySample, bridgeVars, cursor, Watched, Second
    <2>3. InPlan'
      BY <1>1, <2>1, <2>2 DEF InPlan, PlanOf
    <2>4. ASSUME client = "sample" PROVE (Single /\ Counted /\ Noted /\ Heard /\ Matched)'
      <3>1. Single /\ Counted /\ Noted /\ Heard /\ Matched
        BY <2>4 DEF IInv, Sampling
      <3>2. Single' /\ Counted'
        BY <1>1, <2>1, <2>2, <3>1 DEF Single, Counted
      <3>3. Noted'
        BY <1>1, <2>1, <2>2, <3>1 DEF Noted, Announced, Stirred
      <3>4. Heard' /\ Matched'
        BY <2>1, <2>2, <3>1 DEF Heard, Matched, Fits, PlanOf
      <3>5. QED BY <3>2, <3>3, <3>4
    <2>5. Sampling'
      BY <2>2, <2>3, <2>4 DEF Sampling
    <2>6. QED BY <1>1, <2>1, <2>5, SampleMoves
  <1>4. QED BY <1>2, <1>3 DEF StartRead

\* A lost session, or a limit.
LEMMA ReadFails ==
  ASSUME IInv, ReadLost \/ SampleLimit, UNCHANGED <<controlVars, stageVars>>
  PROVE  IInv'
BY FailedSample, SampleMoves DEF ReadLost, SampleLimit

\* The barrier is the cursor at the reply.
LEMMA CaptureCursorKeeps ==
  ASSUME IInv, CaptureCursor, UNCHANGED <<controlVars, stageVars>>
  PROVE  IInv'
  <1>1. /\ sample.pc = "replied" /\ OnlySample /\ sample \in SampleRecords
        /\ sample' = [sample EXCEPT !.pc = "barrier", !.target = cursor]
    BY DEF IInv, Shape, CaptureCursor
  <1>2. cursor \in Nat
    BY MarksBounded DEF IInv
  <1>3. /\ sample' \in SampleRecords /\ sample'.pc = "barrier" /\ sample'.target = cursor
        /\ sample'.profile = sample.profile /\ sample'.frozen = sample.frozen
        /\ sample'.values = sample.values /\ sample'.mid = sample.mid
        /\ sample'.value = sample.value
    BY <1>1, <1>2 DEF SampleRecords
  <1>4. /\ UNCHANGED <<client, world, socket, received>> /\ cursor' = cursor
        /\ Watched' = Watched /\ Second' = Second /\ Asked' = Asked /\ Checked' = Checked
    BY <1>1, <1>3 DEF OnlySample, bridgeVars, cursor, Watched, Second, Asked, Checked, PlanOf
  <1>5. Reading /\ Reading'
    BY <1>1, <1>3 DEF Reading
  <1>6. InPlan'
    BY <1>3, <1>4, <1>5 DEF IInv, Sampling, InPlan, PlanOf
  <1>7. ASSUME client = "sample" PROVE (Single /\ Counted /\ Noted /\ Heard /\ Matched)'
    <2>1. Single /\ Counted /\ Noted /\ Heard /\ Matched
      BY <1>7 DEF IInv, Sampling
    <2>2. Single'
      BY <1>1, <1>3, <1>4, <2>1 DEF Single
    <2>3. Counted'
      BY <1>1, <1>2, <1>3, <1>4, <2>1 DEF Counted
    <2>4. Noted'
      BY <1>3, <1>4, <1>5, <2>1 DEF Noted, Announced, Stirred
    <2>5. Heard' /\ Matched'
      BY <1>1, <1>3, <1>4, <2>1 DEF Heard, Matched, Fits, PlanOf, Stirred
    <2>6. QED BY <2>2, <2>3, <2>4, <2>5
  <1>8. Sampling'
    BY <1>4, <1>6, <1>7 DEF Sampling
  <1>9. QED BY <1>1, <1>3, <1>8, SampleMoves

\* The published cursor is loaded, or waited for.
LEMMA LoadKeeps ==
  ASSUME IInv, OnlySample, UNCHANGED <<controlVars, stageVars>>,
         NEW l \in Nat, NEW pc \in {"barrier", "loaded"}, pc = "loaded" => l <= processed,
         sample.pc \in {"barrier", "loaded"},
         sample' = [sample EXCEPT !.pc = pc, !.loaded = l]
  PROVE  IInv'
  <1>1. sample \in SampleRecords
    BY DEF IInv, Shape
  <1>2. /\ sample' \in SampleRecords /\ sample'.pc = pc /\ sample'.target = sample.target
        /\ sample'.profile = sample.profile /\ sample'.frozen = sample.frozen
        /\ sample'.values = sample.values /\ sample'.mid = sample.mid
        /\ sample'.value = sample.value /\ sample'.loaded = l
    BY <1>1 DEF SampleRecords
  <1>3. /\ UNCHANGED <<client, world, socket, received, processed>> /\ cursor' = cursor
        /\ Watched' = Watched /\ Second' = Second /\ Asked' = Asked /\ Checked' = Checked
    BY <1>1, <1>2 DEF OnlySample, bridgeVars, cursor, Watched, Second, Asked, Checked, PlanOf
  <1>4. Reading /\ Reading'
    BY <1>1, <1>2 DEF Reading
  <1>5. InPlan'
    BY <1>2, <1>3, <1>4 DEF IInv, Sampling, InPlan, PlanOf
  <1>6. ASSUME client = "sample" PROVE (Single /\ Counted /\ Noted /\ Heard /\ Matched)'
    <2>1. Single /\ Counted /\ Noted /\ Heard /\ Matched
      BY <1>6 DEF IInv, Sampling
    <2>2. Single' /\ Counted'
      BY <1>2, <1>3, <2>1 DEF Single, Counted
    <2>3. Noted'
      BY <1>2, <1>3, <1>4, <2>1 DEF Noted, Announced, Stirred
    <2>4. Heard' /\ Matched'
      BY <1>2, <1>3, <2>1 DEF Heard, Matched, Fits, PlanOf, Stirred
    <2>5. QED BY <2>2, <2>3, <2>4
  <1>7. Sampling'
    BY <1>3, <1>5, <1>6 DEF Sampling
  <1>8. QED BY <1>2, <1>7, SampleMoves

\* The published cursor is loaded.
LEMMA LoadProcessedKeeps ==
  ASSUME IInv, LoadProcessed, UNCHANGED <<controlVars, stageVars>>
  PROVE  IInv'
  <1>1. processed \in Nat
    BY DEF IInv, Shape
  <1>2. processed <= processed
    BY <1>1
  <1>3. QED BY <1>1, <1>2, LoadKeeps DEF LoadProcessed

\* The reading joins the sample: the revision that stands counts every event up
\* to the barrier, so none of them told of a change of a watched field.
LEMMA ReadingJoins ==
  ASSUME IInv, OnlySample, UNCHANGED <<controlVars, stageVars>>,
         sample.pc = "loaded", sample.loaded >= sample.target, StillFrozen,
         sample' = [sample EXCEPT !.pc = "read",
                !.values = Append(sample.values, sample.value),
                !.value = 0, !.target = 0, !.loaded = 0,
                !.mid = IF 2 * Len(sample.values) + 2 = Len(PlanOf(sample.profile))
                        THEN world ELSE sample.mid]
  PROVE  IInv'
  <1>1. sample \in SampleRecords /\ world \in [Fields -> 0..1]
    BY DEF IInv, Shape
  <1>2. /\ sample.values \in Seq(-1..1) /\ sample.value \in -1..1 /\ sample.target \in Nat
        /\ sample.loaded \in Nat /\ sample.frozen \in Nat /\ sample.profile \in Profiles
        /\ sample.mid \in [Fields -> 0..1]
    BY <1>1 DEF SampleRecords
  <1> DEFINE L == Len(sample.values)
             s == Append(sample.values, sample.value)
             m == IF 2 * Len(sample.values) + 2 = Len(PlanOf(sample.profile))
                  THEN world ELSE sample.mid
  <1>3. /\ L \in Nat /\ s \in Seq(-1..1) /\ Len(s) = L + 1 /\ s[L + 1] = sample.value
        /\ \A i \in 1..L : s[i] = sample.values[i]
    BY <1>2, AppendProperties, LenProperties
  <1>4. m \in [Fields -> 0..1]
    BY <1>1, <1>2
  <1>5. sample' = [sample EXCEPT !.pc = "read", !.values = s, !.value = 0, !.target = 0,
                                 !.loaded = 0, !.mid = m]
    OBVIOUS
  <1>6. m = IF 2 * L + 2 = Len(PlanOf(sample.profile)) THEN world ELSE sample.mid
    OBVIOUS
  <1>7. Asked = PlanOf(sample.profile)[L + 1]
    BY DEF Asked
  <1> HIDE DEF s, m, L
  <1>8. /\ sample' \in SampleRecords /\ sample'.pc = "read" /\ sample'.values = s
        /\ sample'.mid = m /\ sample'.profile = sample.profile
        /\ sample'.frozen = sample.frozen
    <2>1. s \in Seq(-1..1) /\ 0 \in -1..1 /\ 0 \in Nat
      BY <1>3
    <2>2. QED BY ONLY <1>1, <1>4, <1>5, <2>1 DEF SampleRecords
  <1>9. InPlan'
    BY <1>8 DEF InPlan, Reading
  <1>10. ASSUME client = "sample" PROVE (Single /\ Counted /\ Noted /\ Heard /\ Matched)'
    <2>1. Single /\ Counted /\ Noted /\ Heard /\ Matched /\ InPlan
      BY <1>10 DEF IInv, Sampling
    <2>2. UNCHANGED <<client, world, socket, received>> /\ cursor' = cursor
          /\ Watched' = Watched
      BY <1>8 DEF OnlySample, bridgeVars, cursor, Watched
    <2>3. Len(PlanOf(sample.profile)) = 4
      BY <1>2, <1>10, PlanFacts
    <2>4. L < 4
      BY <2>1, <2>3 DEF InPlan, Reading, L
    <2>5. Single'
      BY <1>8, <2>1, <2>2 DEF Single
    <2>6. Counted'
      <3>1. Len(s) <= 4
        BY <1>3, <2>4
      <3>2. QED BY <1>8, <2>1, <2>2, <3>1 DEF Counted
    <2>7. Second <=> L >= 2
      BY DEF Second, L
    <2>8. Checked => Fits(Asked, sample.value)
      <3>1. evidence.rev[sample.profile] = sample.frozen
        BY DEF StillFrozen
      <3>2. processed \in Nat /\ sample.loaded <= processed
        BY <2>1 DEF IInv, Shape, Counted
      <3>3. sample.target \in 0..processed
        BY <1>2, <3>2
      <3>4. Count(received, sample.profile, sample.target) <= sample.frozen
            /\ Count(received, sample.profile, sample.target) \in Nat
        BY <1>2, <3>1, <3>3, RevisionBounded, CountType
      <3>5. ~Stirred(sample.target)
        BY <1>2, <3>4 DEF Stirred
      <3>6. QED BY <2>1, <3>5 DEF Heard
    <2>9. L >= 2 => m = sample.mid
      BY <1>3, <1>6, <2>3
    <2>10. Noted'
      <3>1. CASE L = 0
        BY <1>3, <1>8, <3>1 DEF Noted, Second
      <3>2. CASE L = 1
        <4>1. m = world
          BY <1>6, <2>3, <3>2
        <4>2. QED BY <1>8, <2>2, <4>1 DEF Noted
      <3>3. CASE L >= 2
        <4>1. Second /\ Reading
          BY <2>7, <3>3 DEF Reading
        <4>2. \A f \in Watched : \/ sample.mid[f] = world[f]
                                 \/ Announced(f, Len(socket)) \/ Stirred(cursor)
          BY <2>1, <4>1 DEF Noted
        <4>3. QED BY <1>8, <2>2, <2>9, <3>3, <4>2 DEF Noted, Announced, Stirred
      <3>4. QED BY <1>3, <3>1, <3>2, <3>3
    <2>11. Heard'
      BY <1>8 DEF Heard
    <2>12. ASSUME NEW i \in 3..Len(s), PlanOf(sample.profile)[i] \in Watched
           PROVE  s[i] = Missing \/ s[i] = m[PlanOf(sample.profile)[i]]
      <3>1. L >= 2 /\ m = sample.mid
        BY <1>3, <2>9
      <3>2. CASE i = L + 1
        <4>1. Checked
          BY <1>7, <2>7, <2>12, <3>1, <3>2 DEF Checked
        <4>2. QED BY <1>3, <1>7, <2>8, <3>1, <3>2, <4>1 DEF Fits
      <3>3. CASE i \in 3..L
        <4>1. i \in 1..L
          BY <1>3, <3>3
        <4>2. Fits(PlanOf(sample.profile)[i], sample.values[i])
          BY <2>1, <2>12, <3>3 DEF Matched, L
        <4>3. QED BY <1>3, <3>1, <4>1, <4>2 DEF Fits
      <3>4. QED BY <1>3, <3>2, <3>3
    <2>13. Matched'
      BY <1>8, <2>2, <2>12 DEF Matched, Fits, PlanOf
    <2>14. QED BY <2>5, <2>6, <2>10, <2>11, <2>13
  <1>11. Sampling'
    BY <1>9, <1>10 DEF Sampling, OnlySample, bridgeVars
  <1>12. QED BY <1>8, <1>11, SampleMoves

\* The check behind a read.
LEMMA CheckReadKeeps ==
  ASSUME IInv, CheckRead, UNCHANGED <<controlVars, stageVars>>
  PROVE  IInv'
  <1>1. sample.pc = "loaded" /\ OnlySample /\ sample \in SampleRecords
    BY DEF IInv, Shape, CheckRead
  <1>2. sample.loaded \in Nat /\ sample.target \in Nat
    BY <1>1 DEF SampleRecords
  <1>3. CASE Fail
    BY <1>1, <1>3, FailedSample, SampleMoves
  <1>4. CASE sample' = [sample EXCEPT !.pc = "barrier"]
    <2>1. sample' = [sample EXCEPT !.pc = "barrier", !.loaded = sample.loaded]
      BY <1>1, <1>4 DEF SampleRecords
    <2>2. QED BY <1>1, <1>2, <2>1, LoadKeeps
  <1>5. CASE /\ ~(sample.loaded < sample.target) /\ StillFrozen
             /\ sample' = [sample EXCEPT !.pc = "read",
                    !.values = Append(sample.values, sample.value),
                    !.value = 0, !.target = 0, !.loaded = 0,
                    !.mid = IF 2 * Len(sample.values) + 2 = Len(PlanOf(sample.profile))
                            THEN world ELSE sample.mid]
    <2>1. sample.loaded >= sample.target
      BY <1>2, <1>5
    <2>2. QED BY <1>1, <1>5, <2>1, ReadingJoins
  <1>6. QED BY <1>3, <1>4, <1>5 DEF CheckRead

\* The passes are compared.
LEMMA FinishSampleKeeps ==
  ASSUME IInv, FinishSample, UNCHANGED <<controlVars, stageVars>>
  PROVE  IInv'
  <1>1. client = "sample" /\ sample.pc = "read" /\ OnlySample /\ sample \in SampleRecords
    BY DEF IInv, Shape, FinishSample
  <1>2. sample.profile \in Profiles
    BY <1>1 DEF SampleRecords
  <1>3. Len(PlanOf(sample.profile)) = 4
    BY <1>1, <1>2, PlanFacts
  <1>4. 4 \div 2 = 2 /\ 1 \in 1..2 /\ 2 \in 1..2 /\ 1 + 2 = 3 /\ 2 + 2 = 4
    OBVIOUS
  <1>5. /\ Len(sample.values) = 4
        /\ \/ sample' = [sample EXCEPT !.pc = "failed"]
           \/ /\ sample' = [sample EXCEPT !.pc = "accepted"]
              /\ sample.values[1] = sample.values[3] /\ sample.values[2] = sample.values[4]
    BY <1>3, <1>4 DEF FinishSample
  <1>6. CASE sample' = [sample EXCEPT !.pc = "failed"]
    BY <1>1, <1>6, FailedSample, SampleMoves DEF Fail
  <1>7. CASE /\ sample' = [sample EXCEPT !.pc = "accepted"]
             /\ sample.values[1] = sample.values[3] /\ sample.values[2] = sample.values[4]
    <2>1. /\ sample' \in SampleRecords /\ sample'.pc = "accepted"
          /\ sample'.profile = sample.profile /\ sample'.frozen = sample.frozen
          /\ sample'.values = sample.values /\ sample'.mid = sample.mid
      BY <1>1, <1>7, SampleStep
    <2>2. UNCHANGED <<client, world, socket, received>> /\ cursor' = cursor
          /\ Watched' = Watched
      BY <1>1, <2>1 DEF OnlySample, bridgeVars, cursor, Watched
    <2>3. Single /\ Counted /\ Matched
      BY <1>1 DEF IInv, Sampling
    <2>4. Single' /\ Counted'
      BY <1>1, <2>1, <2>2, <2>3 DEF Single, Counted
    <2>5. Noted' /\ Heard' /\ InPlan'
      BY <2>1 DEF Noted, Heard, InPlan, Reading
    <2>6. Matched'
      BY <1>5, <1>7, <2>1, <2>2, <2>3 DEF Matched, Fits, PlanOf
    <2>7. Sampling'
      BY <2>4, <2>5, <2>6 DEF Sampling
    <2>8. QED BY <1>1, <2>1, <2>7, SampleMoves
  <1>8. QED BY <1>5, <1>6, <1>7

-----------------------------------------------------------------------------
(* The stage.                                                              *)

\* A step of a call: besides it at most its sample begins or is dropped.
LEMMA StageMoves ==
  ASSUME IInv, stage' \in StageRecords, token' \in TokenRecords, sends' = sends,
         UNCHANGED controlVars, OnlySample, Staged', Spent',
         \/ sample' = sample
         \/ client = "stage" /\ sample' \in SampleRecords /\ sample'.pc \in {"off", "read"}
  PROVE  IInv'
  <1> USE DEF OnlySample, bridgeVars
  <1>1. sample' \in SampleRecords
    BY DEF IInv, Shape
  <1>2. Shape'
    BY <1>1 DEF IInv, Shape, ControlTypeOK, controlVars
  <1>3. Ordered' /\ Feeding' /\ Waiting' /\ Saving'
    BY OrderedFrame, FeedingFrame, WaitingFrame, SavingFrame, MarksFrame DEF IInv
  <1>4. Sampling'
    <2>1. CASE sample' = sample
      BY <2>1, SamplingFrame DEF IInv, Shape
    <2>2. CASE client = "stage" /\ sample'.pc \in {"off", "read"}
      BY <2>2 DEF Sampling, InPlan, Reading
    <2>3. QED BY <2>1, <2>2
  <1>5. QED BY <1>2, <1>3, <1>4 DEF IInv

\* The empty sample and the empty token.
LEMMA Empties ==
  NoSample \in SampleRecords /\ NoSample.pc = "off" /\ NoToken \in TokenRecords
  /\ NoToken.serial = 0
  <1>1. [f \in Fields |-> 0] \in [Fields -> 0..1]
    OBVIOUS
  <1>2. "full" \in Profiles /\ <<>> \in Seq(-1..1) /\ 0 \in -1..1 /\ 0 \in Nat
    BY EmptySeq DEF Profiles
  <1> DEFINE z == [f \in Fields |-> 0]
  <1> HIDE DEF z
  <1>3. NoSample = [pc |-> "off", profile |-> "full", frozen |-> 0, value |-> 0, values |-> <<>>,
                    target |-> 0, loaded |-> 0, mid |-> z] /\ z \in [Fields -> 0..1]
    BY <1>1 DEF NoSample, z
  <1>4. NoSample \in SampleRecords /\ NoSample.pc = "off"
    BY <1>2, <1>3 DEF SampleRecords
  <1>5. NoToken \in TokenRecords /\ NoToken.serial = 0
    BY DEF NoToken, TokenRecords, Missing
  <1>6. QED BY <1>4, <1>5

\* A call of obs-stage-scene is admitted: its number is new.
LEMMA AdmitStageKeeps ==
  ASSUME IInv, NEW c \in Everyone, AdmitStage(c)
  PROVE  IInv'
  <1>1. stage \in StageRecords /\ token \in TokenRecords /\ sends \in Seq(SendRecords)
    BY DEF IInv, Shape
  <1>2. /\ client = "stage" /\ stage.pc = "idle" /\ stage.stages < MaxStages
        /\ stage' = [stage EXCEPT !.pc = "sync", !.call = "stage", !.caller = c,
                              !.stages = stage.stages + 1, !.receipt = "none", !.sent = FALSE,
                              !.cancelled = FALSE, !.program = "old", !.used = NoToken]
        /\ UNCHANGED <<token, sends, observationVars, controlVars>>
    BY DEF AdmitStage
  <1>3. stage.stages \in 0..MaxStages /\ MaxStages \in Nat /\ token.serial \in Nat
    BY <1>1, StageAssumption DEF StageRecords, TokenRecords
  <1>4. stage.stages + 1 \in 0..MaxStages /\ stage.stages \in Nat
    BY <1>2, <1>3
  <1>5. /\ stage' \in StageRecords /\ stage'.pc = "sync" /\ stage'.call = "stage"
        /\ stage'.stages = stage.stages + 1 /\ stage'.receipt = "none" /\ ~stage'.sent
    BY <1>1, <1>2, <1>4, Empties DEF StageRecords, Receipts
  <1>6. Staged'
    BY <1>2, <1>5 DEF IInv, Staged, StageReceiptIsHonest, observationVars, bridgeVars
  <1>7. \A i \in 1..Len(sends) : sends[i].call = "take" =>
           sends[i].serial \in Nat /\ sends[i].serial <= stage.stages
    <2>1. \A i \in 1..Len(sends) : sends[i] \in SendRecords
      BY <1>1
    <2>2. \A i \in 1..Len(sends) : sends[i].serial \in Nat
      BY <2>1 DEF SendRecords
    <2>3. \A i \in 1..Len(sends) : sends[i].call = "take" => sends[i].serial <= stage.stages
      BY DEF IInv, Spent
    <2>4. QED BY <2>2, <2>3
  <1>8. \A i \in 1..Len(sends) : sends[i].call = "take" =>
           sends[i].serial <= stage.stages + 1 /\ sends[i].serial # stage.stages + 1
    BY <1>4, <1>7
  <1>9. token # NoToken => token.serial < stage.stages + 1 /\ token.serial <= stage.stages + 1
    BY <1>3, <1>4 DEF IInv, Spent
  <1>10. Spent'
    BY <1>2, <1>5, <1>8, <1>9 DEF IInv, Spent, Gone, EffectRestsOnFreshEvidence
  <1>11. QED BY <1>1, <1>2, <1>5, <1>6, <1>10, StageMoves DEF OnlySample, observationVars

\* A call of obs-take-scene is admitted: it takes its token along.
LEMMA AdmitTakeKeeps ==
  ASSUME IInv, NEW c \in Everyone, AdmitTake(c)
  PROVE  IInv'
  <1>1. stage \in StageRecords /\ token \in TokenRecords
    BY DEF IInv, Shape
  <1>2. /\ client = "stage" /\ stage.pc = "idle" /\ stage.takes < MaxTakes /\ token # NoToken
        /\ stage' = [stage EXCEPT !.pc = "begin", !.call = "take", !.caller = c,
                              !.takes = stage.takes + 1, !.receipt = "none", !.sent = FALSE,
                              !.cancelled = FALSE, !.program = "old", !.used = token]
        /\ token' = NoToken
        /\ UNCHANGED <<sends, observationVars, controlVars>>
    BY DEF AdmitTake, ConsumeToken
  <1>3. stage.takes \in 0..MaxTakes /\ MaxTakes \in Nat
    BY <1>1, StageAssumption DEF StageRecords
  <1>4. stage.takes + 1 \in 0..MaxTakes
    BY <1>2, <1>3
  <1>5. /\ stage' \in StageRecords /\ stage'.pc = "begin" /\ stage'.call = "take"
        /\ stage'.stages = stage.stages /\ stage'.receipt = "none" /\ ~stage'.sent
        /\ stage'.used = token
    BY <1>1, <1>2, <1>4 DEF StageRecords, Receipts
  <1>6. Staged'
    BY <1>2, <1>5 DEF IInv, Staged, StageReceiptIsHonest, observationVars, bridgeVars
  <1>7. Spent'
    BY <1>2, <1>5 DEF IInv, Spent, Gone, EffectRestsOnFreshEvidence
  <1>8. QED BY <1>2, <1>5, <1>6, <1>7, Empties, StageMoves DEF OnlySample, observationVars

\* The stage waits for the events received so far and forgets earlier tokens.
LEMMA SynchronizeKeeps ==
  ASSUME IInv, Synchronize
  PROVE  IInv'
  <1>1. stage \in StageRecords
    BY DEF IInv, Shape
  <1>2. /\ stage.pc = "sync" /\ token' = NoToken /\ stage' = [stage EXCEPT !.pc = "begin"]
        /\ UNCHANGED <<sends, observationVars, controlVars>>
    BY DEF Synchronize
  <1>3. /\ stage' \in StageRecords /\ stage'.pc = "begin" /\ stage'.call = stage.call
        /\ stage'.stages = stage.stages /\ stage'.receipt = stage.receipt
        /\ stage'.sent = stage.sent /\ stage'.used = stage.used
    BY <1>1, <1>2 DEF StageRecords
  <1>4. Staged'
    BY <1>2, <1>3 DEF IInv, Staged, StageReceiptIsHonest, observationVars, bridgeVars
  <1>5. stage.call = "stage"
    BY <1>2 DEF IInv, Staged
  <1>6. Spent'
    BY <1>2, <1>3, <1>5 DEF IInv, Spent, Gone, EffectRestsOnFreshEvidence
  <1>7. QED BY <1>2, <1>3, <1>4, <1>6, Empties, StageMoves DEF OnlySample, observationVars

\* An inspection begins.
LEMMA BeginInspectionKeeps ==
  ASSUME IInv, BeginInspection
  PROVE  IInv'
  <1>1. stage \in StageRecords /\ sample \in SampleRecords /\ token \in TokenRecords
    BY DEF IInv, Shape
  <1>2. /\ stage.pc \in {"begin", "again"}
        /\ sample' = [sample EXCEPT !.pc = "read", !.profile = "full",
                                !.frozen = evidence.rev["full"], !.values = <<>>]
        /\ stage' = [stage EXCEPT !.pc = IF stage.pc = "begin" THEN "inspect" ELSE "compare"]
        /\ UNCHANGED <<token, sends, controlVars>> /\ OnlySample
    BY DEF BeginInspection
  <1>3. client = "stage"
    BY <1>2 DEF IInv, Staged
  <1>4. "full" \in Profiles /\ <<>> \in Seq(-1..1)
    BY EmptySeq DEF Profiles
  <1>5. evidence.rev["full"] \in Nat
    BY <1>4, RevisionBounded
  <1>6. sample' \in SampleRecords /\ sample'.pc = "read"
    BY <1>1, <1>2, <1>4, <1>5 DEF SampleRecords
  <1>7. /\ stage' \in StageRecords /\ stage'.call = stage.call
        /\ stage'.pc = IF stage.pc = "begin" THEN "inspect" ELSE "compare"
        /\ stage'.stages = stage.stages /\ stage'.receipt = stage.receipt
        /\ stage'.sent = stage.sent /\ stage'.used = stage.used
    BY <1>1, <1>2 DEF StageRecords
  <1>8. client' = client
    BY <1>2 DEF OnlySample, bridgeVars
  <1>9. Staged'
    BY <1>2, <1>3, <1>6, <1>7, <1>8 DEF IInv, Staged, StageReceiptIsHonest
  <1>10. Spent'
    BY <1>2, <1>7 DEF IInv, Spent, Gone, EffectRestsOnFreshEvidence
  <1>11. QED BY <1>1, <1>2, <1>3, <1>6, <1>7, <1>9, <1>10, StageMoves

\* The first inspection is complete.
LEMMA PrepareKeeps ==
  ASSUME IInv, Prepare
  PROVE  IInv'
  <1>1. stage \in StageRecords /\ sample \in SampleRecords /\ token \in TokenRecords
    BY DEF IInv, Shape
  <1>2. PICK differs \in BOOLEAN :
           /\ stage.call = "take" => differs
           /\ stage' = [stage EXCEPT !.pc = IF differs THEN "queued" ELSE "again",
                                     !.receipt = IF differs THEN "dispatching"
                                                 ELSE "prepared",
                                     !.before = sample.values[1]]
    BY DEF Prepare
  <1>3. /\ stage.pc = "inspect" /\ Len(sample.values) = 1
        /\ UNCHANGED <<token, sends, observationVars, controlVars>>
    BY DEF Prepare, InspectionDone
  <1>4. sample.values[1] \in -1..1
    <2>1. sample.values \in Seq(-1..1)
      BY <1>1 DEF SampleRecords
    <2>2. QED BY <1>3, <2>1
  <1> DEFINE q == IF differs THEN "queued" ELSE "again"
             r == IF differs THEN "dispatching" ELSE "prepared"
             v == sample.values[1]
  <1>5. /\ stage' = [stage EXCEPT !.pc = q, !.receipt = r, !.before = v]
        /\ \/ q = "queued" /\ r = "dispatching"
           \/ q = "again" /\ r = "prepared"
        /\ v \in -1..1
        /\ stage.call = "take" => q = "queued"
    BY <1>2, <1>3, <1>4
  <1> HIDE DEF q, r, v
  <1>6. /\ stage' \in StageRecords /\ stage'.call = stage.call /\ stage'.pc = q
        /\ stage'.stages = stage.stages /\ stage'.receipt = r
        /\ stage'.sent = stage.sent /\ stage'.used = stage.used /\ stage'.before = v
    BY <1>1, <1>5 DEF StageRecords, Receipts
  <1>7. client' = client /\ sample' = sample /\ OnlySample
    BY <1>3 DEF observationVars, bridgeVars, OnlySample
  <1>8. stage.call \in {"stage", "take"}
    BY <1>1 DEF StageRecords
  <1>9. Staged'
    BY <1>3, <1>5, <1>6, <1>7, <1>8 DEF IInv, Staged, StageReceiptIsHonest
  <1>10. Spent'
    BY <1>3, <1>5, <1>6 DEF IInv, Spent, Gone, EffectRestsOnFreshEvidence
  <1>11. QED BY <1>1, <1>3, <1>6, <1>7, <1>9, <1>10, StageMoves

\* A dispatch whose guard holds rests on every event received so far.
LEMMA NothingUnseen ==
  ASSUME IInv, ReadyAtRevision("full", sample.frozen)
  PROVE  Count(received, "full", cursor) - sample.frozen = 0
  <1>1. processed >= cursor /\ evidence.rev["full"] = sample.frozen
    BY DEF ReadyAtRevision
  <1>2. /\ cursor \in Nat /\ Published \in Nat /\ processed \in Nat
        /\ processed <= Published /\ Published <= cursor
    BY MarksBounded DEF IInv
  <1>3. Published = cursor
    BY <1>1, <1>2
  <1>4. "full" \in Profiles
    BY DEF Profiles
  <1>5. evidence.rev["full"] = Count(received, "full", cursor)
    BY <1>3, <1>4 DEF IInv, Ordered
  <1>6. Count(received, "full", cursor) \in Nat
    BY <1>2, CountType
  <1>7. QED BY <1>1, <1>5, <1>6

\* The policy does not allow a call past another caller's lease.
LEMMA AllowedMeansFree ==
  ASSUME NEW call \in {"stage", "take"}, NEW c, Evaluate(RequestOf(call, c)) = "allow"
  PROVE  ~HeldByOther(RequestOf(call, c))
  <1> PICK r : r = RequestOf(call, c)
    OBVIOUS
  <1>1. r.tool \in {"live", "edit"}
    BY DEF RequestOf, Request
  <1>2. Evaluate(r) = "allow"
    OBVIOUS
  <1>3. ~AlwaysAllowed(r.tool)
    BY <1>1 DEF AlwaysAllowed
  <1>4. ~HeldByOther(r)
    BY <1>2, <1>3 DEF Evaluate
  <1>5. QED BY <1>4

\* A mutation leaves.
LEMMA DispatchKeeps ==
  ASSUME IInv, Dispatch
  PROVE  IInv'
  <1>1. /\ stage \in StageRecords /\ sample \in SampleRecords /\ sends \in Seq(SendRecords)
        /\ socket \in Seq(Messages)
    BY DEF IInv, Shape
  <1>2. /\ stage.pc = "queued" /\ GuardAllows
        /\ stage' = [stage EXCEPT !.pc = "sent", !.sent = TRUE]
        /\ socket' = Append(socket, [kind |-> "scene"])
        /\ UNCHANGED <<token, controlVars, client, world, changes, received, inbox, alive, late,
                       observer, evidence, processed, feed, cell, replay, sample>>
    BY DEF Dispatch
  <1> DEFINE u == Cardinality({n \in 1..cursor : Invalidates("full", received[n].kind)})
                  - sample.frozen
             h == HeldByOther(RequestOf(stage.call, stage.caller))
             x == [call |-> stage.call, serial |-> stage.used.serial, unseen |-> u, held |-> h,
                   cancelled |-> stage.cancelled]
  <1>3. sends' = Append(sends, x)
    BY DEF Dispatch
  <1>4. u = 0
    <2>1. ReadyAtRevision("full", sample.frozen)
      BY <1>2 DEF GuardAllows
    <2>2. QED BY <2>1, NothingUnseen DEF Count
  <1>5. /\ stage.call \in {"stage", "take"} /\ stage.used \in TokenRecords
        /\ stage.stages \in 0..MaxStages /\ MaxStages \in Nat
    BY <1>1, StageAssumption DEF StageRecords
  <1>6. ~h
    BY <1>2, <1>5, AllowedMeansFree DEF GuardAllows
  <1>7. ~stage.cancelled /\ stage.cancelled \in BOOLEAN
    BY <1>1, <1>2 DEF GuardAllows, StageRecords
  <1>9. stage.used.serial \in Nat
    BY <1>5 DEF TokenRecords
  <1> PICK k, sn, g : k = stage.call /\ sn = stage.used.serial /\ g = stage.cancelled
    OBVIOUS
  <1>10. x = [call |-> k, serial |-> sn, unseen |-> 0, held |-> FALSE, cancelled |-> FALSE]
    <2>1. h = FALSE
      BY <1>6 DEF HeldByOther
    <2>2. stage.cancelled = FALSE
      BY <1>7
    <2> HIDE DEF u, h
    <2>3. QED BY <1>4, <2>1, <2>2
  <1> HIDE DEF u, h, x
  <1>11. /\ x \in SendRecords /\ x.call = stage.call /\ x.serial = stage.used.serial
         /\ x.unseen = 0 /\ ~x.held /\ ~x.cancelled
    <2>1. k \in {"stage", "take"} /\ sn \in Nat
      BY <1>5, <1>9
    <2>2. x \in SendRecords
      BY <1>10, <2>1 DEF SendRecords
    <2>3. QED BY <1>10, <2>2
  <1>12. /\ sends' \in Seq(SendRecords) /\ Len(sends') = Len(sends) + 1 /\ Len(sends) \in Nat
         /\ sends'[Len(sends) + 1] = x
         /\ \A i \in 1..Len(sends) : sends'[i] = sends[i]
    BY <1>1, <1>3, <1>11, AppendProperties, LenProperties
  <1>13. \A i \in 1..Len(sends') : i \in 1..Len(sends) \/ i = Len(sends) + 1
    BY <1>12
  <1>14. /\ stage' \in StageRecords /\ stage'.pc = "sent" /\ stage'.call = stage.call
         /\ stage'.stages = stage.stages /\ stage'.receipt = stage.receipt /\ stage'.sent
    BY <1>1, <1>2 DEF StageRecords
  <1>15. Staged'
    BY <1>2, <1>14 DEF IInv, Staged, StageReceiptIsHonest
  <1>16. stage.call = "take" =>
            /\ stage.used.serial <= stage.stages /\ ~Gone(stage.used.serial) /\ token = NoToken
    BY <1>2 DEF IInv, Spent
  <1>17. \A i \in 1..Len(sends) : sends[i].call = "take" => sends[i].serial <= stage.stages
    BY DEF IInv, Spent
  <1>18. EffectRestsOnFreshEvidence'
    <2>1. ASSUME NEW i \in 1..Len(sends')
          PROVE  /\ sends'[i].unseen = 0 /\ ~sends'[i].held
                 /\ ~sends'[i].cancelled
      <3>1. CASE i \in 1..Len(sends)
        BY <1>12, <3>1 DEF IInv, Spent, EffectRestsOnFreshEvidence
      <3>2. CASE i = Len(sends) + 1
        BY <1>11, <1>12, <3>2
      <3>3. QED BY <1>13, <3>1, <3>2
    <2>2. ASSUME NEW i \in 1..Len(sends'), NEW j \in 1..Len(sends'), i # j,
                 sends'[i].call = "take", sends'[j].call = "take"
          PROVE  sends'[i].serial # sends'[j].serial
      <3>1. CASE i \in 1..Len(sends) /\ j \in 1..Len(sends)
        BY <1>12, <2>2, <3>1 DEF IInv, Spent, EffectRestsOnFreshEvidence
      <3>2. CASE i \in 1..Len(sends) /\ j = Len(sends) + 1
        BY <1>11, <1>12, <1>16, <2>2, <3>2 DEF Gone
      <3>3. CASE j \in 1..Len(sends) /\ i = Len(sends) + 1
        BY <1>11, <1>12, <1>16, <2>2, <3>3 DEF Gone
      <3>4. QED BY <1>13, <2>2, <3>1, <3>2, <3>3
    <2>3. QED BY <2>1, <2>2 DEF EffectRestsOnFreshEvidence
  <1>19. \A i \in 1..Len(sends') : sends'[i].call = "take" => sends'[i].serial <= stage.stages
    BY <1>11, <1>12, <1>13, <1>16, <1>17
  <1>20. ASSUME stage.call = "stage", NEW s, ~Gone(s)
         PROVE  ~\E i \in 1..Len(sends') : sends'[i].call = "take" /\ sends'[i].serial = s
    BY <1>11, <1>12, <1>13, <1>20 DEF Gone
  <1>21. Spent'
    <2>1. CASE stage.call = "take"
      BY <1>2, <1>14, <1>16, <1>18, <1>19, <2>1 DEF Spent
    <2>2. CASE stage.call = "stage"
      <3>1. /\ ~Gone(stage.stages)
            /\ token # NoToken => /\ token.serial < stage.stages /\ ~Gone(token.serial)
                                  /\ token.serial <= stage.stages
        BY <1>2, <2>2 DEF IInv, Spent
      <3>2. QED BY <1>2, <1>14, <1>18, <1>19, <1>20, <2>2, <3>1 DEF Spent, Gone
    <2>3. QED BY <1>5, <2>1, <2>2
  <1> DEFINE m == [kind |-> "scene"]
  <1>22. m \in Messages /\ m.kind = "scene"
    BY DEF Messages, Kinds
  <1>23. socket' = Append(socket, m)
    BY <1>2
  <1> HIDE DEF m
  <1>24. socket' \in Seq(Messages)
    BY <1>1, <1>22, <1>23, AppendProperties
  <1>25. Sampling'
    BY <1>2, <1>22, <1>23, NewsKeeps DEF IInv
  <1>26. Shape'
    BY <1>2, <1>12, <1>14, <1>24 DEF IInv, Shape, ControlTypeOK, controlVars
  <1>27. Ordered' /\ Feeding' /\ Waiting' /\ Saving'
    BY <1>2, OrderedFrame, FeedingFrame, WaitingFrame, SavingFrame, MarksFrame DEF IInv
  <1>28. QED BY <1>15, <1>21, <1>25, <1>26, <1>27 DEF IInv

\* The end of a call that leaves the token: what holds of the receipt is all
\* that is left of it.
LEMMA CallEnds ==
  ASSUME IInv, stage.pc # "idle", NEW r \in Receipts,
         stage' = [stage EXCEPT !.pc = "idle", !.receipt = r], sample' = NoSample,
         UNCHANGED <<token, sends, controlVars>>, OnlySample,
         stage.sent => r \notin Denials,
         r = "observed" /\ stage.call = "take" => stage.program = "new"
  PROVE  IInv'
  <1>1. stage \in StageRecords /\ token \in TokenRecords
    BY DEF IInv, Shape
  <1>2. /\ stage' \in StageRecords /\ stage'.pc = "idle" /\ stage'.receipt = r
        /\ stage'.call = stage.call /\ stage'.sent = stage.sent
        /\ stage'.program = stage.program /\ stage'.stages = stage.stages
    BY <1>1 DEF StageRecords
  <1>3. client = "stage" /\ client' = client
    BY DEF IInv, Staged, OnlySample, bridgeVars
  <1>4. sample' \in SampleRecords /\ sample'.pc = "off"
    BY Empties
  <1>5. Staged'
    BY <1>2, <1>3, <1>4 DEF Staged, StageReceiptIsHonest
  <1>6. Spent'
    BY <1>2 DEF IInv, Spent, Gone, EffectRestsOnFreshEvidence
  <1>7. QED BY <1>1, <1>2, <1>3, <1>4, <1>5, <1>6, StageMoves

\* Refused before it left.
LEMMA RefuseKeeps ==
  ASSUME IInv, Refuse
  PROVE  IInv'
  <1>1. stage.pc = "queued" /\ ~stage.sent /\ stage.receipt = "dispatching"
    BY DEF Refuse, IInv, Staged
  <1>2. PICK r \in {"not_dispatched", "unknown", "prepared", "dispatching"} :
           stage' = [stage EXCEPT !.pc = "idle", !.receipt = r]
    BY <1>1 DEF Refuse
  <1>3. r \in Receipts /\ r # "observed"
    BY <1>2 DEF Receipts
  <1>4. QED BY <1>1, <1>2, <1>3, CallEnds DEF Refuse

\* Failed at an await.
LEMMA FailCallKeeps ==
  ASSUME IInv, FailCall
  PROVE  IInv'
  <1>1. PICK r \in {Closing, stage.receipt} :
           stage' = [stage EXCEPT !.pc = "idle", !.receipt = r]
    BY DEF FailCall
  <1>2. /\ stage.pc \in {"sync", "begin", "inspect", "again", "compare", "verify"}
        /\ sample' = NoSample /\ UNCHANGED <<token, sends, controlVars>> /\ OnlySample
    BY DEF FailCall
  <1>3. /\ stage.receipt \in Receipts \ {"observed"}
        /\ stage.sent => stage.receipt \in {"dispatching", "accepted"}
    BY <1>2 DEF IInv, Shape, StageRecords, Staged
  <1>4. /\ r \in Receipts /\ r # "observed"
        /\ stage.sent => r \notin Denials
    BY <1>1, <1>3 DEF Closing, Receipts, Denials
  <1>5. QED BY <1>1, <1>2, <1>4, CallEnds

\* Shown on program.
LEMMA VerifyKeeps ==
  ASSUME IInv, Verify
  PROVE  IInv'
  <1>1. "observed" \in Receipts \ Denials
    BY DEF Receipts, Denials
  <1>2. QED BY <1>1, CallEnds DEF Verify

\* The reply of the mutation.
LEMMA ReplyKeeps ==
  ASSUME IInv, Reply
  PROVE  IInv'
  <1>1. stage \in StageRecords /\ token \in TokenRecords /\ stage.pc = "sent"
        /\ UNCHANGED <<token, sends, controlVars>> /\ OnlySample
    BY DEF IInv, Shape, Reply
  <1>2. CASE /\ \E r \in {"unknown", stage.receipt} :
                   stage' = [stage EXCEPT !.pc = "idle", !.receipt = r]
             /\ sample' = NoSample
    <2>1. PICK r \in {"unknown", "dispatching"} :
             stage' = [stage EXCEPT !.pc = "idle", !.receipt = r]
      BY <1>1, <1>2 DEF IInv, Staged
    <2>2. r \in Receipts \ Denials /\ r # "observed"
      BY <2>1 DEF Receipts, Denials
    <2>3. QED BY <1>1, <1>2, <2>1, <2>2, CallEnds
  <1>3. CASE /\ stage' = [stage EXCEPT !.pc = IF stage.call = "take" THEN "verify" ELSE "again",
                                       !.receipt = "accepted"]
             /\ sample' = sample
    <2> DEFINE q == IF stage.call = "take" THEN "verify" ELSE "again"
    <2>1. stage.call \in {"stage", "take"}
      BY <1>1 DEF StageRecords
    <2>2. /\ stage' = [stage EXCEPT !.pc = q, !.receipt = "accepted"]
          /\ (q = "verify" /\ stage.call = "take") \/ (q = "again" /\ stage.call = "stage")
      <3>1. stage' = [stage EXCEPT !.pc = q, !.receipt = "accepted"]
        BY <1>3
      <3>2. (q = "verify" /\ stage.call = "take") \/ (q = "again" /\ stage.call = "stage")
        BY <2>1
      <3>3. QED BY <3>1, <3>2
    <2> HIDE DEF q
    <2>3. /\ stage' \in StageRecords /\ stage'.pc = q /\ stage'.receipt = "accepted"
          /\ stage'.call = stage.call /\ stage'.sent = stage.sent
          /\ stage'.stages = stage.stages
      BY <1>1, <2>2 DEF StageRecords, Receipts
    <2>4. client' = client /\ client = "stage"
      BY <1>1 DEF OnlySample, bridgeVars, IInv, Staged
    <2>5. Staged'
      BY <1>1, <1>3, <2>2, <2>3, <2>4 DEF IInv, Staged, StageReceiptIsHonest
    <2>6. Spent'
      BY <1>1, <2>2, <2>3 DEF IInv, Spent, Gone, EffectRestsOnFreshEvidence
    <2>7. QED BY <1>1, <1>3, <2>3, <2>5, <2>6, StageMoves
  <1>4. QED BY <1>2, <1>3 DEF Reply

\* The second inspection agrees: the token carries the number of its call.
LEMMA IssueTokenKeeps ==
  ASSUME IInv, IssueToken
  PROVE  IInv'
  <1>1. stage \in StageRecords /\ sample \in SampleRecords
    BY DEF IInv, Shape
  <1>2. /\ stage.pc = "compare" /\ Len(sample.values) = 1
        /\ stage' = [stage EXCEPT !.pc = "idle", !.receipt = "observed"]
        /\ token' = [value |-> sample.values[1], serial |-> stage.stages, expired |-> FALSE]
        /\ sample' = NoSample
        /\ UNCHANGED <<sends, controlVars>> /\ OnlySample
    BY DEF IssueToken, InspectionDone
  <1>3. sample.values[1] \in -1..1
    <2>1. sample.values \in Seq(-1..1)
      BY <1>1 DEF SampleRecords
    <2>2. QED BY <1>2, <2>1
  <1>4. stage.stages \in Nat
    <2>1. stage.stages \in 0..MaxStages /\ MaxStages \in Nat
      BY <1>1, StageAssumption DEF StageRecords
    <2>2. QED BY <2>1
  <1>5. token' \in TokenRecords /\ token'.serial = stage.stages
    <2> PICK v, n : v = sample.values[1] /\ n = stage.stages
      OBVIOUS
    <2>1. token' = [value |-> v, serial |-> n, expired |-> FALSE] /\ v \in -1..1 /\ n \in Nat
      BY <1>2, <1>3, <1>4
    <2>2. QED BY <2>1 DEF TokenRecords
  <1>6. /\ stage' \in StageRecords /\ stage'.pc = "idle" /\ stage'.receipt = "observed"
        /\ stage'.call = stage.call /\ stage'.stages = stage.stages
    BY <1>1, <1>2 DEF StageRecords, Receipts
  <1>7. client = "stage" /\ client' = client /\ stage.call = "stage"
    BY <1>2 DEF IInv, Staged, OnlySample, bridgeVars
  <1>8. sample' \in SampleRecords /\ sample'.pc = "off"
    BY <1>2, Empties
  <1>9. Staged'
    BY <1>6, <1>7, <1>8 DEF Staged, StageReceiptIsHonest, Denials
  <1>10. stage.stages <= stage.stages /\ ~Gone(stage.stages)
    BY <1>2, <1>4, <1>7 DEF IInv, Spent
  <1>11. Spent'
    BY <1>2, <1>5, <1>6, <1>10 DEF IInv, Spent, Gone, EffectRestsOnFreshEvidence
  <1>12. QED BY <1>2, <1>5, <1>6, <1>7, <1>8, <1>9, <1>11, StageMoves

\* The transition reaches program.
LEMMA TransitionEndsKeeps ==
  ASSUME IInv, TransitionEnds
  PROVE  IInv'
  <1>1. stage \in StageRecords /\ token \in TokenRecords
    BY DEF IInv, Shape
  <1>2. /\ stage.pc = "verify" /\ stage' = [stage EXCEPT !.program = "new"]
        /\ UNCHANGED <<token, sends, observationVars, controlVars>>
    BY DEF TransitionEnds
  <1>3. /\ stage' \in StageRecords /\ stage'.pc = stage.pc /\ stage'.receipt = stage.receipt
        /\ stage'.call = stage.call /\ stage'.sent = stage.sent
        /\ stage'.stages = stage.stages
    BY <1>1, <1>2 DEF StageRecords
  <1>4. sample' = sample /\ client' = client /\ OnlySample
    BY <1>2 DEF observationVars, bridgeVars, OnlySample
  <1>5. Staged'
    BY <1>2, <1>3, <1>4 DEF IInv, Staged, StageReceiptIsHonest
  <1>6. Spent'
    BY <1>2, <1>3 DEF IInv, Spent, Gone, EffectRestsOnFreshEvidence
  <1>7. QED BY <1>1, <1>2, <1>3, <1>4, <1>5, <1>6, StageMoves

\* The caller cancels.
LEMMA CancelCallKeeps ==
  ASSUME IInv, CancelCall
  PROVE  IInv'
  <1>1. stage \in StageRecords /\ token \in TokenRecords
    BY DEF IInv, Shape
  <1>2. /\ stage.pc # "idle" /\ stage' = [stage EXCEPT !.cancelled = TRUE]
        /\ UNCHANGED <<token, sends, observationVars, controlVars>>
    BY DEF CancelCall
  <1>3. /\ stage' \in StageRecords /\ stage'.pc = stage.pc /\ stage'.receipt = stage.receipt
        /\ stage'.call = stage.call /\ stage'.sent = stage.sent /\ stage'.used = stage.used
        /\ stage'.stages = stage.stages /\ stage'.before = stage.before
    BY <1>1, <1>2 DEF StageRecords
  <1>4. sample' = sample /\ client' = client /\ OnlySample
    BY <1>2 DEF observationVars, bridgeVars, OnlySample
  <1>5. Staged'
    BY <1>2, <1>3, <1>4 DEF IInv, Staged, StageReceiptIsHonest
  <1>6. Spent'
    BY <1>2, <1>3 DEF IInv, Spent, Gone, EffectRestsOnFreshEvidence
  <1>7. QED BY <1>1, <1>2, <1>3, <1>4, <1>5, <1>6, StageMoves

\* The lifetime of the token is over.
LEMMA TokenExpiresKeeps ==
  ASSUME IInv, TokenExpires
  PROVE  IInv'
  <1>1. stage \in StageRecords /\ token \in TokenRecords
    BY DEF IInv, Shape
  <1>2. stage.used \in TokenRecords
    BY <1>1 DEF StageRecords
  <1>3. /\ token' = IF token # NoToken THEN [token EXCEPT !.expired = TRUE] ELSE token
        /\ UNCHANGED <<sends, observationVars, controlVars>>
    BY DEF TokenExpires
  <1>4. /\ token' \in TokenRecords /\ (token = NoToken => token' = NoToken)
        /\ token'.serial = token.serial
    BY <1>1, <1>3 DEF TokenRecords
  <1>5. /\ stage' \in StageRecords /\ stage'.pc = stage.pc /\ stage'.receipt = stage.receipt
        /\ stage'.call = stage.call /\ stage'.sent = stage.sent
        /\ stage'.stages = stage.stages /\ stage'.before = stage.before
        /\ stage'.program = stage.program
        /\ stage'.used.serial = stage.used.serial /\ stage'.used.value = stage.used.value
    <2>1. CASE stage' = stage
      BY <1>1, <2>1
    <2>2. CASE stage' = [stage EXCEPT !.used.expired = TRUE]
      <3> DEFINE t == [stage.used EXCEPT !.expired = TRUE]
      <3>1. stage' = [stage EXCEPT !.used = t]
        BY <1>1, <2>2 DEF StageRecords
      <3>2. t \in TokenRecords /\ t.serial = stage.used.serial /\ t.value = stage.used.value
        BY <1>2 DEF TokenRecords
      <3> HIDE DEF t
      <3>3. stage' \in StageRecords /\ stage'.used = t
        BY <1>1, <3>1, <3>2 DEF StageRecords
      <3>4. /\ stage'.pc = stage.pc /\ stage'.receipt = stage.receipt
            /\ stage'.call = stage.call /\ stage'.sent = stage.sent
            /\ stage'.stages = stage.stages /\ stage'.before = stage.before
            /\ stage'.program = stage.program
        BY <1>1, <3>1 DEF StageRecords
      <3>5. QED BY <3>2, <3>3, <3>4
    <2>3. QED BY <2>1, <2>2 DEF TokenExpires
  <1>6. sample' = sample /\ client' = client /\ OnlySample
    BY <1>3 DEF observationVars, bridgeVars, OnlySample
  <1>7. Staged'
    BY <1>5, <1>6 DEF IInv, Staged, StageReceiptIsHonest
  <1>8. Spent'
    BY <1>3, <1>4, <1>5 DEF IInv, Spent, Gone, EffectRestsOnFreshEvidence
  <1>9. QED BY <1>3, <1>4, <1>5, <1>6, <1>7, <1>8, StageMoves

-----------------------------------------------------------------------------
(* The theorems.                                                           *)

\* The first state.
LEMMA InitInvariant ==
  ASSUME EvidenceInit
  PROVE  IInv
  <1> USE DEF EvidenceInit, ObservationInit, ControlInit, StageInit
  <1>1. world \in [Fields -> 0..1] /\ changes \in Nat
    BY DEF Fields
  <1>2. /\ socket \in Seq(Messages) /\ received \in Seq(Arrivals) /\ inbox \in Seq(Nat)
        /\ sends \in Seq(SendRecords) /\ Len(socket) = 0 /\ Len(received) = 0
        /\ Len(inbox) = 0 /\ Len(sends) = 0
    BY EmptySeq
  <1>3. observer \in ObserverRecords /\ processed \in Nat
    BY DEF ObserverRecords
  <1>4. [p \in Profiles |-> 0] \in [Profiles -> Nat]
    OBVIOUS
  <1>5. evidence \in EvidenceRecords /\ \A p \in Profiles : evidence.rev[p] = 0
    <2> PICK z : z = [p \in Profiles |-> 0]
      OBVIOUS
    <2>1. evidence = [rev |-> z, connected |-> TRUE, cancelled |-> FALSE]
          /\ z \in [Profiles -> Nat] /\ \A p \in Profiles : z[p] = 0
      BY <1>4
    <2>2. QED BY <2>1 DEF EvidenceRecords
  <1>6. feed \in FeedRecords
    <2> PICK w : w = [cursor |-> 0, seen |-> <<>>]
      OBVIOUS
    <2>1. w \in Views
      BY EmptySeq DEF Views
    <2>2. feed = [active |-> FALSE, ended |-> FALSE, queue |-> <<>>, applied |-> 0,
                  seen |-> <<>>, from |-> 0, view |-> w] /\ <<>> \in Seq(Nat)
      BY EmptySeq
    <2>3. QED BY <2>1, <2>2 DEF FeedRecords
  <1>7. cell \in CellRecords /\ replay \in ReplayRecords
    BY DEF CellRecords, ReplayRecords, Missing
  <1>8. sample \in SampleRecords /\ token \in TokenRecords /\ sample.pc = "off"
    BY Empties
  <1>9. stage \in StageRecords
    <2>1. 0 \in 0..MaxStages /\ 0 \in 0..MaxTakes /\ Anonymous \in Everyone
      BY StageAssumption DEF Everyone
    <2> PICK t : t = NoToken
      OBVIOUS
    <2>2. stage = [pc |-> "idle", call |-> "stage", caller |-> Anonymous, stages |-> 0,
                   takes |-> 0, receipt |-> "none", sent |-> FALSE, cancelled |-> FALSE,
                   program |-> "old", used |-> t, before |-> 0]
      OBVIOUS
    <2>3. t \in TokenRecords /\ 0 \in -1..1
      BY Empties
    <2>4. QED BY <2>1, <2>2, <2>3 DEF StageRecords, Receipts
  <1>10. Shape
    BY <1>1, <1>2, <1>3, <1>5, <1>6, <1>7, <1>8, <1>9 DEF Shape, ControlTypeOK
  <1>11. cursor = 0 /\ Published = 0 /\ Projected = 0
    BY <1>2 DEF cursor, Published, Projected
  <1>12. Ordered
    <2>1. \A p \in Profiles : Count(received, p, 0) = 0
      <3>1. \A p : Count(received, p, 0) \in Nat /\ Count(received, p, 0) <= 0
        BY CountType
      <3>2. QED BY <3>1
    <2>2. QED BY <1>2, <1>5, <1>11, <2>1 DEF Ordered
  <1>13. Feeding
    <2>1. feed.seen = <<>> /\ feed.queue = <<>> /\ feed.applied = 0 /\ feed.from = 0
          /\ feed.view.cursor = 0
      OBVIOUS
    <2>2. [i \in 1..(0 - 0) |-> 0 + i] = <<>>
      OBVIOUS
    <2>3. QED BY <1>11, <2>1, <2>2 DEF Feeding, TakeFenceMeansApplied
  <1>14. Waiting
    BY <1>11 DEF Waiting, Missing
  <1>15. Saving
    BY <1>11 DEF Saving, Missing, ReplayPathIsTheOnlyOne
  <1>16. Sampling
    <2>1. sample.pc = "off" /\ sample.values = <<>> /\ Len(sample.values) = 0
      BY DEF NoSample
    <2>2. QED BY <1>2, <2>1
             DEF Sampling, InPlan, Reading, Single, Counted, Noted, Heard, Matched
  <1>17. Staged /\ Spent
    BY <1>2, <1>8 DEF Staged, Spent, StageReceiptIsHonest, EffectRestsOnFreshEvidence
  <1>18. QED BY <1>10, <1>12, <1>13, <1>14, <1>15, <1>16, <1>17 DEF IInv

\* A step in which nothing but the lease changes.
LEMMA LeaseKeeps ==
  ASSUME IInv, ControlTypeOK', UNCHANGED <<observationVars, stageVars>>
  PROVE  IInv'
  <1> USE DEF observationVars, bridgeVars
  <1>1. Shape'
    BY DEF IInv, Shape, stageVars
  <1>2. Ordered' /\ Feeding' /\ Waiting' /\ Saving'
    BY OrderedFrame, FeedingFrame, WaitingFrame, SavingFrame, MarksFrame DEF IInv
  <1>3. Sampling'
    BY SamplingFrame DEF IInv, Shape
  <1>4. Staged' /\ Spent'
    BY StageFrame DEF IInv, Staged
  <1>5. QED BY <1>1, <1>2, <1>3, <1>4 DEF IInv

\* The invariant is inductive.
LEMMA NextInvariant ==
  ASSUME IInv, [EvidenceNext]_evidenceVars
  PROVE  IInv'
  <1>1. CASE ObservationNext /\ UNCHANGED <<controlVars, stageVars>>
    <2>1. CASE WorldNext
      BY <1>1, <2>1, ObsChangesKeeps, ObsAnswersKeeps, ReceiveKeeps, SessionEndsKeeps,
         ClockPassesKeeps DEF WorldNext
    <2>2. CASE ObserverNext
      BY <1>1, <2>2, PublishRevisionKeeps, PublishCursorKeeps, ProjectEventKeeps,
         DeliverEventKeeps, ObserverEndsKeeps, InvalidateBridgeKeeps, CancelObservationsKeeps
         DEF ObserverNext
    <2>3. CASE FeedNext
      BY <1>1, <2>3, AttachFeedKeeps, ApplyFrameKeeps, DropFrameKeeps, ProjectAfterAppliedKeeps
         DEF FeedNext
    <2>4. CASE OutputNext
      BY <1>1, <2>4, SubscribeOutputKeeps, LookAtCellKeeps, ReadClockKeeps, LastLookKeeps,
         WakeOutputKeeps DEF OutputNext
    <2>5. CASE ReplayNext
      BY <1>1, <2>5, SubscribeReplayKeeps, ArmReplayKeeps, CandidateKeeps, BeginConfirmKeeps,
         ConfirmKeeps DEF ReplayNext
    <2>6. CASE ReadNext
      BY <1>1, <2>6, StartReadKeeps, ReadFails, CaptureCursorKeeps, LoadProcessedKeeps,
         CheckReadKeeps DEF ReadNext
    <2>7. CASE SampleNext
      BY <1>1, <2>7, BeginSampleKeeps, FinishSampleKeeps DEF SampleNext
    <2>8. QED BY <1>1, <2>1, <2>2, <2>3, <2>4, <2>5, <2>6, <2>7 DEF ObservationNext
  <1>2. CASE LeaseNext /\ UNCHANGED <<observationVars, stageVars>>
    <2>1. lease \in Callers \union {"free"} /\ takeLock \in BOOLEAN
      BY DEF IInv, Shape, ControlTypeOK
    <2>2. ControlTypeOK'
      BY <1>2, <2>1 DEF LeaseNext, Claim, Release, LeaseExpires, ControlTypeOK
    <2>3. QED BY <1>2, <2>2, LeaseKeeps
  <1>3. CASE StageNext
    BY <1>3, AdmitStageKeeps, AdmitTakeKeeps, SynchronizeKeeps, BeginInspectionKeeps,
       PrepareKeeps, DispatchKeeps, RefuseKeeps, ReplyKeeps, IssueTokenKeeps,
       TransitionEndsKeeps, VerifyKeeps, FailCallKeeps, TokenExpiresKeeps, CancelCallKeeps
       DEF StageNext
  <1>4. CASE UNCHANGED evidenceVars
    <2>1. UNCHANGED <<observationVars, controlVars, stageVars>>
      BY <1>4 DEF evidenceVars
    <2>2. ControlTypeOK'
      BY <2>1 DEF IInv, Shape, ControlTypeOK, controlVars
    <2>3. QED BY <2>1, <2>2, LeaseKeeps
  <1>5. QED BY <1>1, <1>2, <1>3, <1>4 DEF EvidenceNext

\* The invariant that ties cursors, revisions, cells, samples and calls together
\* holds in every state of the observer, its clients and the stage.
THEOREM Invariance == EvidenceSpec => []IInv
  <1>1. EvidenceInit => IInv
    BY InitInvariant
  <1>2. IInv /\ [EvidenceNext]_evidenceVars => IInv'
    BY NextInvariant
  <1>3. QED BY <1>1, <1>2, PTL DEF EvidenceSpec

\* Every variable of the observer, the control policy and the stage keeps its
\* type and its bounds: published marks never pass the cursor.
THEOREM TypeCorrect == EvidenceSpec => []EvidenceTypeOK
  <1>1. IInv => EvidenceTypeOK
    <2> SUFFICES ASSUME IInv PROVE EvidenceTypeOK
      OBVIOUS
    <2>1. /\ cursor \in Nat /\ Projected \in Nat /\ Published \in Nat /\ processed \in Nat
          /\ Projected <= processed /\ processed <= Published /\ Published <= cursor
          /\ cell.progress <= Projected /\ replay.progress <= Projected
          /\ cell.progress \in Nat
      BY MarksBounded DEF IInv
    <2>2. processed \in 0..cursor /\ cell.progress \in 0..processed
      BY <2>1
    <2>3. /\ world \in [Fields -> 0..1] /\ alive \in BOOLEAN /\ late \in BOOLEAN
          /\ observer \in ObserverRecords /\ evidence \in EvidenceRecords
          /\ cell \in CellRecords /\ sample \in SampleRecords
          /\ stage \in StageRecords /\ token \in TokenRecords /\ ControlTypeOK
      BY DEF IInv, Shape
    <2>4. evidence.rev \in [Profiles -> 0..cursor]
      <3>1. evidence.rev \in [Profiles -> Nat]
        BY <2>3 DEF EvidenceRecords
      <3>2. \A p \in Profiles : evidence.rev[p] <= cursor
        <4> SUFFICES ASSUME NEW p \in Profiles PROVE evidence.rev[p] <= cursor
          OBVIOUS
        <4>1. evidence.rev[p] = Count(received, p, Published)
          BY DEF IInv, Ordered
        <4>2. Count(received, p, Published) \in Nat /\ Count(received, p, Published) <= Published
          BY <2>1, CountType
        <4>3. QED BY <2>1, <4>1, <4>2
      <3>3. QED BY <2>1, <3>1, <3>2
    <2>5. evidence.connected \in BOOLEAN /\ evidence.cancelled \in BOOLEAN
      BY <2>3 DEF EvidenceRecords
    <2>6. observer.pc \in {"idle", "revised", "progressed", "projected", "ended"}
      BY <2>3 DEF ObserverRecords
    <2>7. cell.pc \in {"off", "look", "clock", "last", "wait", "done"}
      BY <2>3 DEF CellRecords
    <2>8. /\ sample.pc \in {"off", "read", "asked", "awaiting", "replied", "barrier", "loaded",
                            "accepted", "failed"}
          /\ \A i \in 1..Len(sample.values) : sample.values[i] \in -1..1
      <3>1. sample.values \in Seq(-1..1)
        BY <2>3 DEF SampleRecords
      <3>2. QED BY <2>3, <3>1 DEF SampleRecords
    <2>9. /\ \A i \in 1..Len(inbox) : inbox[i] \in 1..cursor
          /\ cell.result \in -1..cursor
          /\ replay.armed \in -1..cursor /\ replay.path \in 0..cursor
      BY DEF IInv, Ordered, Waiting, Saving
    <2>10. ObservationTypeOK
      BY <2>2, <2>3, <2>4, <2>5, <2>6, <2>7, <2>8, <2>9 DEF ObservationTypeOK
    <2>11. stage.receipt \in Receipts /\ stage.stages \in 0..MaxStages
           /\ stage.caller \in Everyone /\ token.value \in -1..1
      BY <2>3 DEF StageRecords, TokenRecords
    <2>12. QED BY <2>3, <2>10, <2>11 DEF EvidenceTypeOK
  <1>2. QED BY <1>1, Invariance, PTL

\* Observation::finish: an accepted report or audit gives every watched field a
\* value it had at one moment between the two passes, however often OBS changed
\* while they ran.
THEOREM AcceptedIsOneMoment == EvidenceSpec => []SampleIsOneMoment
  <1>1. IInv => SampleIsOneMoment
    <2> SUFFICES ASSUME IInv, sample.pc = "accepted", NEW i \in 1..Len(sample.values),
                        PlanOf(sample.profile)[i] # "quiet"
                 PROVE  \/ sample.values[i] = Missing
                        \/ sample.values[i] = sample.mid[PlanOf(sample.profile)[i]]
      BY DEF SampleIsOneMoment
    <2> DEFINE plan == PlanOf(sample.profile)
    <2>1. client = "sample" /\ sample.profile \in Profiles
      BY DEF IInv, Staged, Shape, SampleRecords
    <2>2. /\ Len(sample.values) = 4 /\ Matched
          /\ sample.values[1] = sample.values[3] /\ sample.values[2] = sample.values[4]
      BY <2>1 DEF IInv, Sampling, Matched
    <2>3. /\ plan[3] = plan[1] /\ plan[4] = plan[2] /\ Len(plan) = 4
          /\ \A k \in 1..Len(plan) : plan[k] \in Fields
      BY <2>1, PlanFacts
    <2>4. \A k \in 1..4 : plan[k] = "record" => sample.profile = "full"
      BY <2>1 DEF PlanOf, Profiles
    <2>5. \A k \in 1..4 : plan[k] # "quiet" => plan[k] \in Watched
      <3> SUFFICES ASSUME NEW k \in 1..4, plan[k] # "quiet" PROVE plan[k] \in Watched
        OBVIOUS
      <3> HIDE DEF plan
      <3>1. plan[k] \in {"scene", "record", "quiet"}
        BY <2>3 DEF Fields
      <3>2. plan[k] = "scene" \/ (plan[k] = "record" /\ sample.profile = "full")
        BY <2>4, <3>1
      <3>3. QED BY <3>2 DEF Watched, Invalidates
    <2> HIDE DEF plan
    <2>6. ASSUME NEW k \in 3..4, plan[k] # "quiet"
          PROVE  sample.values[k] = Missing \/ sample.values[k] = sample.mid[plan[k]]
      <3>1. plan[k] \in Watched
        BY <2>5, <2>6
      <3>2. QED BY <2>2, <3>1 DEF Matched, Fits, plan
    <2>7. plan[i] # "quiet" /\ i \in 1..4
      BY <2>2 DEF plan
    <2>8. CASE i = 1
      BY <2>2, <2>3, <2>6, <2>7, <2>8 DEF plan
    <2>9. CASE i = 2
      BY <2>2, <2>3, <2>6, <2>7, <2>9 DEF plan
    <2>10. CASE i \in 3..4
      BY <2>6, <2>7, <2>10 DEF plan
    <2>11. QED BY <2>7, <2>8, <2>9, <2>10
  <1>2. QED BY <1>1, Invariance, PTL

\* project_after_applied: what the take has seen at a settled cursor is every
\* event since it attached, once and in order.
THEOREM FenceMeansApplied == EvidenceSpec => []TakeFenceMeansApplied
  <1>1. IInv => TakeFenceMeansApplied
    BY DEF IInv, Feeding
  <1>2. QED BY <1>1, Invariance, PTL

\* OutputSubscription::receive: an expired wait missed nothing that came in
\* time, and a result is the first.
THEOREM OutputIsHonest == EvidenceSpec => []OutputOutcomeIsHonest
  <1>1. IInv => OutputOutcomeIsHonest
    BY DEF IInv, Waiting, OutputOutcomeIsHonest
  <1>2. QED BY <1>1, Invariance, PTL

\* ReplaySubscription::confirm: a confirmed path is the only one between the
\* dispatch and the look at the file.
THEOREM ReplayIsUnique == EvidenceSpec => []ReplayPathIsTheOnlyOne
  <1>1. IInv => ReplayPathIsTheOnlyOne
    BY DEF IInv, Saving
  <1>2. QED BY <1>1, Invariance, PTL

\* The guarded dispatch of stage and take: every mutation that left rested on
\* all events received, a free lease and an uncancelled call, and no token is
\* behind two transitions.
THEOREM EffectsAreFresh == EvidenceSpec => []EffectRestsOnFreshEvidence
  <1>1. IInv => EffectRestsOnFreshEvidence
    BY DEF IInv, Spent
  <1>2. QED BY <1>1, Invariance, PTL

\* The receipt of a finished stage or take does not deny what was sent.
THEOREM ReceiptIsHonest == EvidenceSpec => []StageReceiptIsHonest
  <1>1. IInv => StageReceiptIsHonest
    BY DEF IInv, Staged
  <1>2. QED BY <1>1, Invariance, PTL
=============================================================================
