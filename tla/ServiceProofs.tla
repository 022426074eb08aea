---------------------------- MODULE ServiceProofs ----------------------------
(***************************************************************************)
(* Machine-checked proofs about the actor that owns OBS (module Service,   *)
(* as part of Serving), for any number of requests, jobs and failures and  *)
(* any capacity of its queues and lanes.                                   *)
(*                                                                         *)
(* That ordinary effects do not overlap rests on the counter of calls to   *)
(* the supervisor being right while no task has failed (Counted), because  *)
(* the actor compares that counter with the number of its jobs; and the    *)
(* counter is right because a request is in one place only, a queue or a   *)
(* job (Placed).  Each command either answers or adds one job for which    *)
(* there is room, and each end of a job takes that job away: two lemmas,   *)
(* JobAdded and JobDropped, carry the invariant through all of them.       *)
(***************************************************************************)
EXTENDS Serving, SequenceTheorems, FiniteSetTheorems, TLAPS

-----------------------------------------------------------------------------
(* The inductive invariant, of a state s of the actor with n requests.     *)

Fields == {"inbox", "waitG", "waitS", "jobs", "answered", "cancelled", "takeJobs",
           "initializing", "borrower", "prep", "machine", "completed", "unsure", "broken",
           "closing", "handoff", "workers", "takeJoined", "exited", "failures"}
SideKinds == {"safety", "snapshot", "media", "read"}
JobKinds == SideKinds \union {"generic", "replay", "stage", "tracked", "preparation", "plan",
                "apply", "init", "takecall", "clipinit", "clipready", "clip", "retire"}
JobRecords == [req : Nat, kind : JobKinds]
TakeKinds == {"takecall", "clip", "clipready", "clipinit"}
Binders == {"init", "clipinit"}
Exclusive == {"tracked", "preparation", "replay", "init", "clipinit"}
PrepKinds == {"snapshot", "preparation", "plan", "apply"}
MachineKinds == {"stage", "tracked"}
Of(s, kinds) == {j \in s.jobs : j.kind \in kinds}

\* The shape of the state.
Well(s) ==
    /\ DOMAIN s = Fields
    /\ s.jobs \subseteq JobRecords /\ IsFiniteSet(s.jobs)
    /\ s.takeJobs \in 0..MaxUsize /\ s.borrower \in {"none", "idle", "take"}
    /\ s.prep \in {"here", "lent", "lost"} /\ s.machine \in {"here", "lent", "lost"}
    /\ s.initializing \in BOOLEAN /\ s.broken \in BOOLEAN /\ s.closing \in BOOLEAN

\* A queue of requests, each in it once.
Queue(q, n, cap) ==
    /\ q \in Seq(1..n) /\ Len(q) <= cap
    /\ \A i, k \in 1..Len(q) : q[i] = q[k] => i = k

\* A request is in one place: a queue or a job.
Placed(s, n) ==
    /\ Queue(s.inbox, n, ChannelCap) /\ Queue(s.waitG, n, GenericCap)
    /\ Queue(s.waitS, n, SafetyCap)
    /\ Range(s.inbox) \intersect Range(s.waitG) = {}
    /\ Range(s.inbox) \intersect Range(s.waitS) = {}
    /\ Range(s.waitG) \intersect Range(s.waitS) = {}
    /\ \A j \in s.jobs : /\ j.req \in 0..n /\ (j.req = 0 <=> j.kind = "retire")
                         /\ j.req \notin Range(s.inbox) \union Range(s.waitG) \union Range(s.waitS)
    /\ \A j, k \in s.jobs : j.req = k.req => j = k

\* While no task has failed, the counter is right.
Counted(s) == ~s.broken => s.takeJobs = Cardinality(Of(s, TakeKinds))

\* One ordinary effect; one that needs the receipts has no supervisor beside it;
\* a supervisor that is being bound is announced.
Alone(s) ==
    /\ \A j, k \in s.jobs : j.kind \in Ordinaries /\ k.kind \in Ordinaries => j = k
    /\ \A j \in s.jobs : /\ j.kind \in Exclusive => s.borrower = "none"
                         /\ j.kind \in Binders => s.initializing

\* An owner is lent while one job has it.
LentToOne(jobs, kinds, owner) ==
    /\ \A j, k \in jobs : j.kind \in kinds /\ k.kind \in kinds => j = k
    /\ owner = "lent" <=> \E j \in jobs : j.kind \in kinds

SInv(s, n) ==
    /\ Well(s) /\ Placed(s, n) /\ Counted(s) /\ Alone(s)
    /\ LentToOne(s.jobs, PrepKinds, s.prep) /\ LentToOne(s.jobs, MachineKinds, s.machine)

IInv == reqs \in Seq(Kinds) /\ Len(reqs) <= MaxReqs /\ SInv(svc, Len(reqs))

-----------------------------------------------------------------------------
(* Queues and sets.                                                        *)

\* The first element of a queue is taken.
LEMMA QueueTail ==
  ASSUME NEW n \in Nat, NEW cap \in Nat, NEW q, Queue(q, n, cap), q # <<>>
  PROVE  /\ Queue(Tail(q), n, cap) /\ Head(q) \in 1..n /\ Head(q) \in Range(q)
         /\ Head(q) \notin Range(Tail(q)) /\ Range(Tail(q)) \subseteq Range(q)
  <1>1. q \in Seq(1..n) /\ Len(q) \in Nat /\ DOMAIN q = 1..Len(q) /\ Len(q) <= cap
        /\ \A i, k \in 1..Len(q) : q[i] = q[k] => i = k
    BY LenProperties DEF Queue
  <1>2. /\ Len(q) > 0 /\ Head(q) = q[1] /\ Head(q) \in 1..n
    BY <1>1, EmptySeq, HeadTailProperties
  <1>3. /\ Tail(q) \in Seq(1..n) /\ Len(Tail(q)) = Len(q) - 1
        /\ \A i \in 1..Len(Tail(q)) : Tail(q)[i] = q[i + 1]
    BY <1>1, HeadTailProperties
  <1>4. DOMAIN Tail(q) = 1..Len(Tail(q))
    BY <1>3, LenProperties
  <1>5. \A i \in 1..Len(Tail(q)) : i + 1 \in 1..Len(q) /\ i + 1 # 1
    BY <1>1, <1>3
  <1>6. Queue(Tail(q), n, cap)
    <2>1. ASSUME NEW i \in 1..Len(Tail(q)), NEW k \in 1..Len(Tail(q)), Tail(q)[i] = Tail(q)[k]
          PROVE  i = k
      <3>1. i + 1 = k + 1
        BY <1>1, <1>3, <1>5, <2>1
      <3>2. QED BY <3>1
    <2>2. Len(Tail(q)) <= cap
      BY <1>1, <1>3
    <2>3. QED BY <1>3, <2>1, <2>2 DEF Queue
  <1>7. 1 \in 1..Len(q)
    BY <1>1, <1>2
  <1>8. QED BY <1>1, <1>2, <1>3, <1>4, <1>5, <1>6, <1>7 DEF Range

\* A request joins a queue that has room.
LEMMA QueueAppend ==
  ASSUME NEW n \in Nat, NEW cap \in Nat, NEW q, Queue(q, n, cap), Len(q) < cap,
         NEW r \in 1..n, r \notin Range(q)
  PROVE  Queue(Append(q, r), n, cap) /\ Range(Append(q, r)) = Range(q) \union {r}
  <1>1. q \in Seq(1..n) /\ Len(q) \in Nat /\ DOMAIN q = 1..Len(q)
        /\ \A i, k \in 1..Len(q) : q[i] = q[k] => i = k
    BY LenProperties DEF Queue
  <1>2. PICK t : t = Append(q, r)
    OBVIOUS
  <1>3. /\ t \in Seq(1..n) /\ Len(t) = Len(q) + 1 /\ t[Len(q) + 1] = r
        /\ \A i \in 1..Len(q) : t[i] = q[i]
    BY <1>1, <1>2, AppendProperties
  <1>4. DOMAIN t = 1..Len(t)
    BY <1>3, LenProperties
  <1>5. \A i \in 1..Len(t) : i \in 1..Len(q) \/ i = Len(q) + 1
    BY <1>1, <1>3
  <1>6. \A i \in 1..Len(q) : q[i] # r /\ i \in 1..Len(t)
    BY <1>1, <1>3 DEF Range
  <1>7. Queue(t, n, cap)
    <2>1. ASSUME NEW i \in 1..Len(t), NEW k \in 1..Len(t), t[i] = t[k] PROVE i = k
      BY <1>1, <1>3, <1>5, <1>6, <2>1
    <2>2. Len(t) <= cap
      BY <1>1, <1>3
    <2>3. QED BY <1>3, <2>1, <2>2 DEF Queue
  <1>8. Len(q) + 1 \in 1..Len(t)
    BY <1>1, <1>3
  <1>9. Range(t) = Range(q) \union {r}
    BY <1>1, <1>3, <1>4, <1>5, <1>6, <1>8 DEF Range
  <1>10. QED BY <1>2, <1>7, <1>9

\* A set whose elements are all equal has at most one.
LEMMA AtMostOne ==
  ASSUME NEW S, \A x, y \in S : x = y
  PROVE  Cardinality(S) = IF S = {} THEN 0 ELSE 1
  <1>1. CASE S = {}
    BY <1>1, FS_EmptySet
  <1>2. CASE S # {}
    <2>1. PICK x : S = {x}
      BY <1>2
    <2>2. QED BY <1>2, <2>1, FS_Singleton
  <1>3. QED BY <1>1, <1>2

-----------------------------------------------------------------------------
(* What a step may do to the actor's state.                                *)

SameQueues(s, t) == t.inbox = s.inbox /\ t.waitG = s.waitG /\ t.waitS = s.waitS

\* The jobs stay; the supervisor may end its take or be returned, the service
\* may break or close.
Stands(s, t) ==
    /\ DOMAIN t = Fields /\ SameQueues(s, t) /\ t.jobs = s.jobs
    /\ t.takeJobs = s.takeJobs /\ t.initializing = s.initializing
    /\ t.prep = s.prep /\ t.machine = s.machine
    /\ t.broken \in BOOLEAN /\ (s.broken => t.broken) /\ t.closing \in BOOLEAN
    /\ t.borrower \in {"none", "idle", "take"} /\ (t.borrower = "none" \/ s.borrower # "none")

\* A job of that kind is added for request r.
Job(r, kind) == [req |-> r, kind |-> kind]
Adds(s, t, r, kind) ==
    /\ DOMAIN t = Fields /\ SameQueues(s, t) /\ t.jobs = s.jobs \union {Job(r, kind)}
    /\ \/ t.takeJobs = IF kind \in TakeKinds THEN s.takeJobs + 1 ELSE s.takeJobs
       \/ s.broken /\ t.takeJobs \in 0..MaxUsize
    /\ t.initializing = IF kind \in Binders THEN TRUE ELSE s.initializing
    /\ t.prep = IF kind \in PrepKinds THEN "lent" ELSE s.prep
    /\ t.machine = IF kind \in MachineKinds THEN "lent" ELSE s.machine
    /\ t.broken = s.broken /\ t.closing = s.closing /\ t.borrower = s.borrower

\* Request r is nowhere else, and there is room for a job of that kind.
Fresh(s, n, r) ==
    /\ r \in 1..n /\ \A j \in s.jobs : j.req # r
    /\ r \notin Range(s.inbox) \union Range(s.waitG) \union Range(s.waitS)
HasRoom(s, kind) ==
    /\ kind \in Ordinaries => \A j \in s.jobs : j.kind \notin Ordinaries
    /\ kind \in Exclusive => s.borrower = "none"
    /\ kind \in PrepKinds => s.prep # "lent"
    /\ kind \in TakeKinds => s.takeJobs < MaxUsize

\* Job k is taken away, and what it had comes back or is lost.
Drops(s, t, k) ==
    /\ DOMAIN t = Fields /\ SameQueues(s, t) /\ k \in s.jobs /\ t.jobs = s.jobs \ {k}
    /\ t.takeJobs \in 0..MaxUsize
    /\ ~t.broken => t.takeJobs = IF k.kind \in TakeKinds THEN Less(s.takeJobs) ELSE s.takeJobs
    /\ t.initializing \in BOOLEAN /\ (k.kind \in Binders \/ t.initializing = s.initializing)
    /\ t.prep \in {"here", "lent", "lost"}
    /\ IF k.kind \in PrepKinds THEN t.prep # "lent" ELSE t.prep = s.prep
    /\ t.machine \in {"here", "lent", "lost"}
    /\ IF k.kind \in MachineKinds THEN t.machine # "lent" ELSE t.machine = s.machine
    /\ t.broken \in BOOLEAN /\ (s.broken => t.broken) /\ t.closing \in BOOLEAN
    /\ t.borrower \in {"none", "idle", "take"}
    /\ t.borrower = "none" \/ s.borrower # "none" \/ k.kind \in Binders

\* The counter has a last value.
LEMMA UsizeFacts == MaxUsize \in Nat /\ 0 < MaxUsize
  BY DEF MaxUsize

\* Kinds that overlap: what binds a supervisor or is exclusive is ordinary work,
\* and so is every job that holds the machine.
LEMMA KindFacts ==
  /\ \A kind \in Exclusive : kind \in Ordinaries
  /\ \A kind \in Binders : kind \in Ordinaries /\ kind \in Exclusive
  /\ \A kind \in MachineKinds : kind \in Ordinaries
  BY DEF Exclusive, Ordinaries, Binders, MachineKinds

\* A step that leaves the jobs alone.
LEMMA JobsStood ==
  ASSUME NEW n \in Nat, NEW s, NEW t, SInv(s, n), Stands(s, t)
  PROVE  SInv(t, n)
  <1>1. Well(t)
    BY DEF SInv, Well, Stands
  <1>2. Placed(t, n)
    BY DEF SInv, Placed, Stands, SameQueues
  <1>3. Counted(t)
    BY DEF SInv, Counted, Stands, Of
  <1>4. Alone(t)
    BY DEF SInv, Alone, Stands
  <1>5. QED BY <1>1, <1>2, <1>3, <1>4 DEF SInv, Stands

\* A job that has room keeps the invariant.
LEMMA JobAdded ==
  ASSUME NEW n \in Nat, NEW s, NEW t, SInv(s, n), NEW r \in 0..n, NEW kind \in JobKinds,
         Adds(s, t, r, kind), HasRoom(s, kind), r = 0 <=> kind = "retire",
         \A j \in s.jobs : j.req # r,
         r \notin Range(s.inbox) \union Range(s.waitG) \union Range(s.waitS)
  PROVE  SInv(t, n)
  <1>1. PICK k : k = Job(r, kind)
    OBVIOUS
  <1>2. k \in JobRecords /\ k.req = r /\ k.kind = kind
    BY <1>1 DEF Job, JobRecords
  <1>3. t.jobs = s.jobs \union {k} /\ k \notin s.jobs
    BY <1>1, <1>2 DEF Adds
  <1>4. Well(t)
    <2>1. IsFiniteSet(s.jobs \union {k})
      BY FS_AddElement DEF SInv, Well
    <2>2. t.takeJobs \in 0..MaxUsize
      <3>1. s.takeJobs \in 0..MaxUsize
        BY DEF SInv, Well
      <3>2. kind \in TakeKinds => s.takeJobs + 1 <= MaxUsize
        BY <3>1, UsizeFacts DEF HasRoom
      <3>3. QED BY <3>1, <3>2, UsizeFacts DEF Adds
    <2>3. QED BY <1>2, <1>3, <2>1, <2>2 DEF SInv, Well, Adds
  <1>5. Placed(t, n)
    BY <1>2, <1>3 DEF SInv, Placed, Adds, SameQueues
  <1>6. Counted(t)
    <2>1. SUFFICES ASSUME ~t.broken PROVE t.takeJobs = Cardinality(Of(t, TakeKinds))
      BY DEF Counted
    <2>2. /\ s.takeJobs = Cardinality(Of(s, TakeKinds)) /\ IsFiniteSet(Of(s, TakeKinds))
          /\ s.takeJobs \in Nat
      <3>1. Of(s, TakeKinds) \subseteq s.jobs /\ IsFiniteSet(s.jobs)
        BY DEF Of, SInv, Well
      <3>2. s.takeJobs \in Nat
        BY UsizeFacts DEF SInv, Well
      <3>3. QED BY <2>1, <3>1, <3>2, FS_Subset DEF SInv, Counted, Adds
    <2>3. CASE kind \in TakeKinds
      <3>1. Of(t, TakeKinds) = Of(s, TakeKinds) \union {k} /\ k \notin Of(s, TakeKinds)
        BY <1>2, <1>3, <2>3 DEF Of
      <3>2. Cardinality(Of(t, TakeKinds)) = Cardinality(Of(s, TakeKinds)) + 1
        BY <2>2, <3>1, FS_AddElement
      <3>3. QED BY <2>1, <2>2, <2>3, <3>2 DEF Adds
    <2>4. CASE kind \notin TakeKinds
      <3>1. Of(t, TakeKinds) = Of(s, TakeKinds)
        BY <1>2, <1>3, <2>4 DEF Of
      <3>2. QED BY <2>1, <2>2, <2>4, <3>1 DEF Adds
    <2>5. QED BY <2>3, <2>4
  <1>7. Alone(t)
    BY <1>2, <1>3, KindFacts DEF SInv, Alone, Adds, HasRoom
  <1>8. LentToOne(t.jobs, PrepKinds, t.prep)
    BY <1>2, <1>3 DEF SInv, LentToOne, Adds, HasRoom
  <1>9. LentToOne(t.jobs, MachineKinds, t.machine)
    <2>1. kind \in MachineKinds => \A j \in s.jobs : j.kind \notin MachineKinds
      BY KindFacts DEF HasRoom
    <2>2. QED BY <1>2, <1>3, <2>1 DEF SInv, LentToOne, Adds
  <1>10. QED BY <1>4, <1>5, <1>6, <1>7, <1>8, <1>9 DEF SInv

\* Taking a job away keeps the invariant, and its request is nowhere else.
LEMMA JobDropped ==
  ASSUME NEW n \in Nat, NEW s, NEW t, SInv(s, n), NEW k, Drops(s, t, k)
  PROVE  SInv(t, n) /\ (k.kind # "retire" => Fresh(t, n, k.req))
  <1>1. /\ k \in s.jobs /\ t.jobs = s.jobs \ {k} /\ k \in JobRecords
    BY DEF Drops, SInv, Well
  <1>2. Well(t)
    <2>1. IsFiniteSet(t.jobs)
      BY <1>1, FS_RemoveElement DEF SInv, Well
    <2>2. QED BY <1>1, <2>1 DEF SInv, Well, Drops
  <1>3. Placed(t, n)
    BY <1>1 DEF SInv, Placed, Drops, SameQueues
  <1>4. Counted(t)
    <2>1. SUFFICES ASSUME ~t.broken PROVE t.takeJobs = Cardinality(Of(t, TakeKinds))
      BY DEF Counted
    <2>2. /\ s.takeJobs = Cardinality(Of(s, TakeKinds)) /\ IsFiniteSet(Of(s, TakeKinds))
          /\ s.takeJobs \in Nat
      <3>1. Of(s, TakeKinds) \subseteq s.jobs /\ IsFiniteSet(s.jobs)
        BY DEF Of, SInv, Well
      <3>2. s.takeJobs \in Nat
        BY UsizeFacts DEF SInv, Well
      <3>3. QED BY <2>1, <3>1, <3>2, FS_Subset DEF SInv, Counted, Drops
    <2>3. CASE k.kind \in TakeKinds
      <3>1. Of(t, TakeKinds) = Of(s, TakeKinds) \ {k} /\ k \in Of(s, TakeKinds)
        BY <1>1, <2>3 DEF Of
      <3>2. Cardinality(Of(t, TakeKinds)) = Cardinality(Of(s, TakeKinds)) - 1
        BY <2>2, <3>1, FS_RemoveElement
      <3>3. Cardinality(Of(s, TakeKinds)) # 0
        BY <2>2, <3>1, FS_EmptySet
      <3>4. QED BY <2>1, <2>2, <2>3, <3>2, <3>3 DEF Drops, Less
    <2>4. CASE k.kind \notin TakeKinds
      <3>1. Of(t, TakeKinds) = Of(s, TakeKinds)
        BY <1>1, <2>4 DEF Of
      <3>2. QED BY <2>1, <2>2, <2>4, <3>1 DEF Drops
    <2>5. QED BY <2>3, <2>4
  <1>5. Alone(t)
    <2>1. \A i, j \in s.jobs : i.kind \in Ordinaries /\ j.kind \in Ordinaries => i = j
      BY DEF SInv, Alone
    <2>2. k.kind \in Binders => \A j \in t.jobs : j.kind \notin Exclusive /\ j.kind \notin Binders
      BY <1>1, <2>1, KindFacts
    <2>3. \A j \in t.jobs : /\ j \in s.jobs /\ (j.kind \in Exclusive => s.borrower = "none")
                            /\ (j.kind \in Binders => s.initializing)
      BY <1>1 DEF SInv, Alone
    <2>4. QED BY <1>1, <2>1, <2>2, <2>3 DEF Alone, Drops
  <1>6. LentToOne(t.jobs, PrepKinds, t.prep)
    BY <1>1 DEF SInv, LentToOne, Drops
  <1>7. LentToOne(t.jobs, MachineKinds, t.machine)
    BY <1>1 DEF SInv, LentToOne, Drops
  <1>8. k.kind # "retire" => Fresh(t, n, k.req)
    BY <1>1 DEF SInv, Placed, Drops, SameQueues, Fresh
  <1>9. QED BY <1>2, <1>3, <1>4, <1>5, <1>6, <1>7, <1>8 DEF SInv

-----------------------------------------------------------------------------
(* The top of the loop.                                                    *)

\* A job for a request that is nowhere else.
LEMMA Spawned ==
  ASSUME NEW n \in Nat, NEW s, NEW t, SInv(s, n), NEW r, Fresh(s, n, r),
         NEW kind \in JobKinds, kind # "retire", Adds(s, t, r, kind), HasRoom(s, kind)
  PROVE  SInv(t, n)
  <1>1. /\ r \in 0..n /\ r # 0 /\ \A j \in s.jobs : j.req # r
        /\ r \notin Range(s.inbox) \union Range(s.waitG) \union Range(s.waitS)
    BY DEF Fresh
  <1>2. QED BY <1>1, JobAdded

\* The supervisor is returned by a job of its own.
LEMMA RetiredKeeps ==
  ASSUME NEW n \in Nat, NEW s, SInv(s, n)
  PROVE  SInv(Retired(s), n)
  <1>1. CASE ~Retires(s)
    BY <1>1 DEF Retired
  <1>2. CASE Retires(s)
    <2>1. PICK t, u : /\ t = [Spawn(s, 0, "retire") EXCEPT !.borrower = "none"]
                      /\ u = [s EXCEPT !.borrower = "none"]
      OBVIOUS
    <2>2. DOMAIN s = Fields /\ s.broken \in BOOLEAN /\ s.closing \in BOOLEAN
      BY DEF SInv, Well
    <2>3. Stands(s, u)
      BY <2>1, <2>2 DEF Stands, SameQueues, Fields
    <2>4. SInv(u, n)
      BY <2>3, JobsStood
    <2>5. /\ Adds(u, t, 0, "retire") /\ u.jobs = s.jobs
      BY <2>1, <2>2 DEF Adds, SameQueues, Fields, Spawn, Job, TakeKinds, Binders, PrepKinds,
                        MachineKinds
    <2>10. t.takeJobs = u.takeJobs
      BY <2>1, <2>2 DEF Fields, Spawn, TakeKinds
    <2>6. HasRoom(u, "retire") /\ "retire" \in JobKinds
      BY DEF HasRoom, Ordinaries, Exclusive, PrepKinds, TakeKinds, JobKinds
    <2>7. CASE \A j \in u.jobs : j.req # 0
      <3>1. 0 \notin Range(u.inbox) \union Range(u.waitG) \union Range(u.waitS)
        <4>1. /\ u.inbox \in Seq(1..n) /\ u.waitG \in Seq(1..n) /\ u.waitS \in Seq(1..n)
          BY <2>4 DEF SInv, Placed, Queue
        <4>2. /\ Range(u.inbox) \subseteq 1..n /\ Range(u.waitG) \subseteq 1..n
              /\ Range(u.waitS) \subseteq 1..n
          BY <4>1, LenProperties, ElementOfSeq DEF Range
        <4>3. QED BY <4>2
      <3>2. 0 \in 0..n
        OBVIOUS
      <3>3. SInv(t, n)
        BY <2>4, <2>5, <2>6, <2>7, <3>1, <3>2, JobAdded
      <3>4. QED BY <1>2, <2>1, <3>3 DEF Retired
    <2>8. CASE \E j \in u.jobs : j.req = 0
      <3>1. PICK j \in u.jobs : j.req = 0
        BY <2>8
      <3>2. j \in JobRecords /\ j.kind = "retire"
        BY <2>4, <3>1 DEF SInv, Placed, Well
      <3>3. j = Job(0, "retire")
        BY <3>1, <3>2 DEF JobRecords, Job
      <3>4. t.jobs = u.jobs
        BY <2>5, <3>1, <3>3 DEF Adds
      <3>5. u.broken \in BOOLEAN /\ u.closing \in BOOLEAN /\ u.borrower = "none"
        BY <2>1, <2>2 DEF Fields
      <3>6. Stands(u, t)
        BY <2>5, <2>10, <3>4, <3>5 DEF Adds, Stands, TakeKinds, Binders, PrepKinds, MachineKinds
      <3>7. SInv(t, n)
        BY <2>4, <3>6, JobsStood
      <3>8. QED BY <1>2, <2>1, <3>7 DEF Retired
    <2>9. QED BY <2>7, <2>8
  <1>3. QED BY <1>1, <1>2

\* Queues are emptied, nothing else changes.
Empties(s, t) ==
    /\ DOMAIN t = Fields /\ t.jobs = s.jobs
    /\ t.inbox = s.inbox \/ t.inbox = <<>>
    /\ t.waitG = s.waitG \/ t.waitG = <<>>
    /\ t.waitS = s.waitS \/ t.waitS = <<>>
    /\ t.takeJobs = s.takeJobs /\ t.initializing = s.initializing
    /\ t.prep = s.prep /\ t.machine = s.machine
    /\ t.broken = s.broken /\ t.closing = s.closing /\ t.borrower = s.borrower

\* Nothing waits in an empty queue.
LEMMA EmptyQueue ==
  ASSUME NEW n \in Nat, NEW cap \in Nat
  PROVE  Queue(<<>>, n, cap) /\ Range(<<>>) = {}
  <1>1. <<>> \in Seq(1..n) /\ Len(<<>>) = 0 /\ DOMAIN <<>> = 1..0
    OBVIOUS
  <1>2. QED BY <1>1 DEF Queue, Range

\* Emptying queues keeps the invariant.
LEMMA QueuesEmptied ==
  ASSUME NEW n \in Nat, NEW s, NEW t, SInv(s, n), Empties(s, t)
  PROVE  SInv(t, n)
  <1>1. Well(t)
    BY DEF SInv, Well, Empties
  <1>2. /\ ChannelCap \in Nat /\ GenericCap \in Nat /\ SafetyCap \in Nat
    BY ServiceAssumption
  <1>3. /\ Queue(<<>>, n, ChannelCap) /\ Queue(<<>>, n, GenericCap) /\ Queue(<<>>, n, SafetyCap)
        /\ Range(<<>>) = {}
    BY <1>2, EmptyQueue
  <1>4. /\ Queue(t.inbox, n, ChannelCap) /\ Queue(t.waitG, n, GenericCap)
        /\ Queue(t.waitS, n, SafetyCap)
        /\ Range(t.inbox) \subseteq Range(s.inbox) /\ Range(t.waitG) \subseteq Range(s.waitG)
        /\ Range(t.waitS) \subseteq Range(s.waitS)
    BY <1>3 DEF SInv, Placed, Empties
  <1>5. t.jobs = s.jobs
    BY DEF Empties
  <1>6. Placed(t, n)
    BY <1>4, <1>5 DEF SInv, Placed
  <1>7. Counted(t) /\ Alone(t)
    BY DEF SInv, Counted, Alone, Empties, Of
  <1>8. QED BY <1>1, <1>6, <1>7 DEF SInv, Empties

\* The top of the loop keeps the invariant.
LEMMA SettleKeeps ==
  ASSUME NEW n \in Nat, NEW s, SInv(s, n)
  PROVE  SInv(Settle(s), n)
  <1>1. ASSUME NEW u, SInv(u, n) PROVE SInv(Drained(u), n)
    <2>1. PICK t : t = Drained(u)
      OBVIOUS
    <2>2. DOMAIN u = Fields
      BY <1>1 DEF SInv, Well
    <2>3. Empties(u, t)
      BY <2>1, <2>2 DEF Drained, Empties, Fields
    <2>4. QED BY <1>1, <2>1, <2>3, QueuesEmptied
  <1>2. ASSUME NEW u, SInv(u, n) PROVE SInv(Exited(u), n)
    <2>1. PICK t : t = Exited(u)
      OBVIOUS
    <2>2. DOMAIN u = Fields
      BY <1>2 DEF SInv, Well
    <2>3. Empties(u, t)
      BY <2>1, <2>2 DEF Exited, Empties, Fields
    <2>4. QED BY <1>2, <2>1, <2>3, QueuesEmptied
  <1>3. SInv(Retired(s), n)
    BY RetiredKeeps
  <1>4. SInv(Drained(Retired(s)), n)
    BY <1>1, <1>3
  <1>5. QED BY <1>2, <1>4 DEF Settle

-----------------------------------------------------------------------------
(* Commands.                                                               *)

\* An answer changes nothing else.
LEMMA Answering ==
  ASSUME NEW n \in Nat, NEW s, SInv(s, n), NEW r
  PROVE  SInv(Answer(s, r), n)
  <1>1. PICK t : t = Answer(s, r)
    OBVIOUS
  <1>2. /\ DOMAIN s = Fields /\ s.broken \in BOOLEAN /\ s.closing \in BOOLEAN
        /\ s.borrower \in {"none", "idle", "take"}
    BY DEF SInv, Well
  <1>3. Stands(s, t)
    BY <1>1, <1>2 DEF Stands, SameQueues, Fields, Answer
  <1>4. QED BY <1>1, <1>3, JobsStood

\* The lane of the actor that is not one of the four others.
LEMMA MainIs ==
  ASSUME NEW s, s.jobs \subseteq JobRecords
  PROVE  In(s, "main") = {j \in s.jobs : j.kind \notin SideKinds}
  <1>1. \A kind \in JobKinds : Lane(kind) = "main" <=> kind \notin SideKinds
    BY DEF Lane, SideKinds, JobKinds
  <1>2. \A j \in s.jobs : j.kind \in JobKinds
    BY DEF JobRecords
  <1>3. QED BY <1>1, <1>2 DEF In

\* No job in the main lane: no ordinary effect, no call to the supervisor.
LEMMA MainEmpty ==
  ASSUME NEW n \in Nat, NEW s, SInv(s, n), In(s, "main") = {}
  PROVE  \A j \in s.jobs : j.kind \notin Ordinaries /\ j.kind \notin TakeKinds
  <1>1. \A j \in s.jobs : j.kind \in SideKinds
    BY MainIs DEF SInv, Well
  <1>2. QED BY <1>1 DEF SideKinds, Ordinaries, TakeKinds

\* An actor that is not busy has no ordinary effect under way: the jobs in its
\* main lane are as many as the calls to the supervisor, and so they are those.
LEMMA NotBusy ==
  ASSUME NEW n \in Nat, NEW s, SInv(s, n), ~s.broken, ~Busy(s)
  PROVE  \A j \in s.jobs : j.kind \notin Ordinaries
  <1>1. /\ IsFiniteSet(s.jobs) /\ s.jobs \subseteq JobRecords /\ s.takeJobs \in Nat
        /\ s.takeJobs = Cardinality(Of(s, TakeKinds)) /\ ~s.initializing
        /\ ~(Cardinality(In(s, "main")) > s.takeJobs)
    BY UsizeFacts DEF SInv, Well, Counted, Busy
  <1>2. In(s, "main") = {j \in s.jobs : j.kind \notin SideKinds}
    BY <1>1, MainIs
  <1>3. Of(s, TakeKinds) \subseteq In(s, "main") /\ In(s, "main") \subseteq s.jobs
    BY <1>2 DEF Of, TakeKinds, SideKinds
  <1>4. /\ IsFiniteSet(In(s, "main")) /\ Cardinality(In(s, "main")) \in Nat
        /\ Cardinality(Of(s, TakeKinds)) <= Cardinality(In(s, "main"))
    BY <1>1, <1>3, FS_Subset, FS_CardinalityType
  <1>5. Cardinality(Of(s, TakeKinds)) = Cardinality(In(s, "main"))
    BY <1>1, <1>4
  <1>6. Of(s, TakeKinds) = In(s, "main")
    BY <1>3, <1>4, <1>5, FS_Subset
  <1>7. SUFFICES ASSUME NEW j \in s.jobs, j.kind \in Ordinaries PROVE FALSE
    OBVIOUS
  <1>8. j.kind \notin SideKinds
    BY <1>7 DEF Ordinaries, SideKinds
  <1>9. j.kind \in TakeKinds
    BY <1>2, <1>6, <1>8 DEF Of
  <1>10. j.kind \in Binders
    BY <1>7, <1>9 DEF Ordinaries, TakeKinds, Binders
  <1>11. QED BY <1>1, <1>10 DEF SInv, Alone

\* One more call to the supervisor than there are, within the cap.
LEMMA MoreCalls ==
  ASSUME NEW s, s.takeJobs \in 0..MaxUsize, s.takeJobs < TakeCap
  PROVE  s.takeJobs < MaxUsize /\ More(s.takeJobs) = s.takeJobs + 1
  <1>1. TakeCap \in Nat /\ TakeCap <= MaxUsize /\ MaxUsize \in Nat
    BY ServiceAssumption, UsizeFacts
  <1>2. s.takeJobs < MaxUsize /\ s.takeJobs \in Nat
    BY <1>1
  <1>3. QED BY <1>1, <1>2 DEF More

\* The commands that lend the preparation or start an effect of their own.
LEMMA OrdinaryCommands ==
  ASSUME NEW n \in Nat, NEW s, SInv(s, n), NEW r, Fresh(s, n, r), NEW late, NEW t,
         \/ t = WorkflowCommand(s, r, late) \/ t = SnapshotCommand(s, r)
         \/ t = ReadCommand(s, r) \/ t = ReplayCommand(s, r) \/ t = MediaCommand(s, r)
         \/ t = StageCommand(s, r) \/ t = TrackedCommand(s, r) \/ t = PreparationCommand(s, r)
  PROVE  SInv(t, n)
  <1>1. DOMAIN s = Fields /\ SInv(Answer(s, r), n)
    BY Answering DEF SInv, Well
  <1>2. CASE t = Answer(s, r)
    BY <1>1, <1>2
  <1>3. ASSUME NEW kind \in JobKinds, kind # "retire", Adds(s, t, r, kind), HasRoom(s, kind)
        PROVE  SInv(t, n)
    BY <1>3, Spawned
  <1>4. CASE t = WorkflowCommand(s, r, late) /\ t # Answer(s, r)
    <2>1. /\ ~s.broken /\ ~Busy(s) /\ s.prep = "here"
          /\ t = [Spawn(s, r, "plan") EXCEPT !.prep = "lent"]
      BY <1>4 DEF WorkflowCommand
    <2>2. Adds(s, t, r, "plan")
      BY <1>1, <2>1 DEF Adds, SameQueues, Fields, Spawn, Job, TakeKinds, Binders, PrepKinds,
                        MachineKinds
    <2>3. HasRoom(s, "plan")
      BY <2>1, NotBusy DEF HasRoom, Exclusive, TakeKinds
    <2>4. QED BY <1>3, <2>2, <2>3 DEF JobKinds
  <1>5. CASE t = SnapshotCommand(s, r) /\ t # Answer(s, r)
    <2>1. s.prep = "here" /\ t = [Spawn(s, r, "snapshot") EXCEPT !.prep = "lent"]
      BY <1>5 DEF SnapshotCommand
    <2>2. Adds(s, t, r, "snapshot")
      BY <1>1, <2>1 DEF Adds, SameQueues, Fields, Spawn, Job, TakeKinds, Binders, PrepKinds,
                        MachineKinds
    <2>3. HasRoom(s, "snapshot")
      BY <2>1 DEF HasRoom, Ordinaries, Exclusive, TakeKinds
    <2>4. QED BY <1>3, <2>2, <2>3 DEF JobKinds, SideKinds
  <1>6. ASSUME NEW kind \in {"read", "media"}, t = Spawn(s, r, kind) PROVE SInv(t, n)
    <2>1. Adds(s, t, r, kind)
      BY <1>1, <1>6 DEF Adds, SameQueues, Fields, Spawn, Job, TakeKinds, Binders, PrepKinds,
                        MachineKinds
    <2>2. HasRoom(s, kind)
      BY DEF HasRoom, Ordinaries, Exclusive, TakeKinds, PrepKinds
    <2>3. QED BY <1>3, <2>1, <2>2 DEF JobKinds, SideKinds
  <1>7. CASE t = ReadCommand(s, r) /\ t # Answer(s, r)
    BY <1>6, <1>7 DEF ReadCommand
  <1>8. CASE t = MediaCommand(s, r) /\ t # Answer(s, r)
    BY <1>6, <1>8 DEF MediaCommand
  <1>9. CASE t = ReplayCommand(s, r) /\ t # Answer(s, r)
    <2>1. In(s, "main") = {} /\ s.borrower = "none" /\ t = Spawn(s, r, "replay")
      BY <1>9 DEF ReplayCommand
    <2>2. Adds(s, t, r, "replay")
      BY <1>1, <2>1 DEF Adds, SameQueues, Fields, Spawn, Job, TakeKinds, Binders, PrepKinds,
                        MachineKinds
    <2>3. HasRoom(s, "replay")
      BY <2>1, MainEmpty DEF HasRoom, TakeKinds, PrepKinds
    <2>4. QED BY <1>3, <2>2, <2>3 DEF JobKinds
  <1>10. CASE t = StageCommand(s, r) /\ t # Answer(s, r)
    <2>1. /\ ~s.broken /\ ~Busy(s) /\ t = [Spawn(s, r, "stage") EXCEPT !.machine = "lent"]
      BY <1>10 DEF StageCommand
    <2>2. Adds(s, t, r, "stage")
      BY <1>1, <2>1 DEF Adds, SameQueues, Fields, Spawn, Job, TakeKinds, Binders, PrepKinds,
                        MachineKinds
    <2>3. HasRoom(s, "stage")
      BY <2>1, NotBusy DEF HasRoom, Exclusive, TakeKinds, PrepKinds
    <2>4. QED BY <1>3, <2>2, <2>3 DEF JobKinds
  <1>11. CASE t = TrackedCommand(s, r) /\ t # Answer(s, r)
    <2>1. /\ s.borrower = "none" /\ In(s, "main") = {}
          /\ t = [Spawn(s, r, "tracked") EXCEPT !.machine = "lent"]
      BY <1>11 DEF TrackedCommand
    <2>2. Adds(s, t, r, "tracked")
      BY <1>1, <2>1 DEF Adds, SameQueues, Fields, Spawn, Job, TakeKinds, Binders, PrepKinds,
                        MachineKinds
    <2>3. HasRoom(s, "tracked")
      BY <2>1, MainEmpty DEF HasRoom, TakeKinds, PrepKinds
    <2>4. QED BY <1>3, <2>2, <2>3 DEF JobKinds
  <1>12. CASE t = PreparationCommand(s, r) /\ t # Answer(s, r)
    <2>1. /\ s.prep = "here" /\ s.borrower = "none" /\ In(s, "main") = {}
          /\ t = [Spawn(s, r, "preparation") EXCEPT !.prep = "lent"]
      BY <1>12 DEF PreparationCommand
    <2>2. Adds(s, t, r, "preparation")
      BY <1>1, <2>1 DEF Adds, SameQueues, Fields, Spawn, Job, TakeKinds, Binders, PrepKinds,
                        MachineKinds
    <2>3. HasRoom(s, "preparation")
      BY <2>1, MainEmpty DEF HasRoom, TakeKinds
    <2>4. QED BY <1>3, <2>2, <2>3 DEF JobKinds
  <1>13. QED BY <1>2, <1>4, <1>5, <1>7, <1>8, <1>9, <1>10, <1>11, <1>12

\* Take Start, Take Stop and clips: a call to the supervisor, or binding one.
LEMMA TakeCommands ==
  ASSUME NEW n \in Nat, NEW s, SInv(s, n), NEW r, Fresh(s, n, r), NEW late, NEW t,
         t = TakeCommand(s, r) \/ t = ClipCommand(s, r, late)
  PROVE  SInv(t, n)
  <1>1. /\ DOMAIN s = Fields /\ SInv(Answer(s, r), n)
        /\ s.takeJobs \in 0..MaxUsize /\ TakeCap \in Nat /\ s.takeJobs \in Nat
    BY Answering, ServiceAssumption, UsizeFacts DEF SInv, Well
  <1>2. CASE t = Answer(s, r)
    BY <1>1, <1>2
  <1>3. ASSUME NEW kind \in JobKinds, kind # "retire", Adds(s, t, r, kind), HasRoom(s, kind)
        PROVE  SInv(t, n)
    BY <1>3, Spawned
  <1>4. ASSUME NEW kind \in {"takecall", "clipready"}, s.takeJobs < TakeCap,
               t = [Spawn(s, r, kind) EXCEPT !.takeJobs = More(@)]
        PROVE  SInv(t, n)
    <2>1. s.takeJobs < MaxUsize /\ More(s.takeJobs) = s.takeJobs + 1
      BY <1>1, <1>4, MoreCalls
    <2>2. Adds(s, t, r, kind)
      BY <1>1, <1>4, <2>1 DEF Adds, SameQueues, Fields, Spawn, Job, TakeKinds, Binders,
                              PrepKinds, MachineKinds
    <2>3. HasRoom(s, kind)
      BY <2>1 DEF HasRoom, Ordinaries, Exclusive, PrepKinds
    <2>4. QED BY <1>3, <2>2, <2>3 DEF JobKinds
  <1>5. CASE t = TakeCommand(s, r) /\ t # Answer(s, r)
    <2>1. \/ /\ ~(s.takeJobs >= TakeCap)
             /\ t = [Spawn(s, r, "takecall") EXCEPT !.takeJobs = More(@)]
          \/ /\ s.borrower = "none" /\ In(s, "main") = {}
             /\ t = [Spawn(s, r, "init") EXCEPT !.initializing = TRUE]
      BY <1>5 DEF TakeCommand
    <2>2. CASE /\ ~(s.takeJobs >= TakeCap)
               /\ t = [Spawn(s, r, "takecall") EXCEPT !.takeJobs = More(@)]
      BY <1>1, <1>4, <2>2
    <2>3. CASE /\ s.borrower = "none" /\ In(s, "main") = {}
               /\ t = [Spawn(s, r, "init") EXCEPT !.initializing = TRUE]
      <3>1. Adds(s, t, r, "init")
        BY <1>1, <2>3 DEF Adds, SameQueues, Fields, Spawn, Job, TakeKinds, Binders, PrepKinds,
                          MachineKinds
      <3>2. HasRoom(s, "init")
        BY <2>3, MainEmpty DEF HasRoom, TakeKinds, PrepKinds
      <3>3. QED BY <1>3, <3>1, <3>2 DEF JobKinds
    <2>4. QED BY <2>1, <2>2, <2>3
  <1>6. CASE t = ClipCommand(s, r, late) /\ t # Answer(s, r)
    <2>1. /\ ~(s.takeJobs >= TakeCap)
          /\ \/ t = [Spawn(s, r, "clipready") EXCEPT !.takeJobs = More(@)]
             \/ /\ s.borrower = "none" /\ In(s, "main") = {}
                /\ t = [Spawn(s, r, "clipinit") EXCEPT !.takeJobs = More(@),
                                                       !.initializing = TRUE]
      BY <1>6 DEF ClipCommand
    <2>2. CASE t = [Spawn(s, r, "clipready") EXCEPT !.takeJobs = More(@)]
      BY <1>1, <1>4, <2>1, <2>2
    <2>3. CASE /\ s.borrower = "none" /\ In(s, "main") = {}
               /\ t = [Spawn(s, r, "clipinit") EXCEPT !.takeJobs = More(@),
                                                      !.initializing = TRUE]
      <3>1. s.takeJobs < MaxUsize /\ More(s.takeJobs) = s.takeJobs + 1
        BY <1>1, <2>1, MoreCalls
      <3>2. Adds(s, t, r, "clipinit")
        BY <1>1, <2>3, <3>1 DEF Adds, SameQueues, Fields, Spawn, Job, TakeKinds, Binders,
                                PrepKinds, MachineKinds
      <3>3. HasRoom(s, "clipinit")
        BY <2>3, <3>1, MainEmpty DEF HasRoom, PrepKinds
      <3>4. QED BY <1>3, <3>2, <3>3 DEF JobKinds
    <2>4. QED BY <2>1, <2>2, <2>3
  <1>7. QED BY <1>2, <1>5, <1>6

\* A request joins the safety stops or the generic calls that wait.
LEMMA Waits ==
  ASSUME NEW n \in Nat, NEW s, SInv(s, n), NEW r, Fresh(s, n, r), NEW t,
         \/ Len(s.waitS) < SafetyCap /\ t = [s EXCEPT !.waitS = Append(@, r)]
         \/ Len(s.waitG) < GenericCap /\ t = [s EXCEPT !.waitG = Append(@, r)]
  PROVE  SInv(t, n)
  <1>1. DOMAIN s = Fields
    BY DEF SInv, Well
  <1>2. /\ r \in 1..n /\ (\A j \in s.jobs : j.req # r)
        /\ r \notin Range(s.inbox) /\ r \notin Range(s.waitG) /\ r \notin Range(s.waitS)
    BY DEF Fresh
  <1>3. /\ DOMAIN t = Fields /\ t.jobs = s.jobs /\ t.inbox = s.inbox
        /\ t.takeJobs = s.takeJobs /\ t.initializing = s.initializing
        /\ t.prep = s.prep /\ t.machine = s.machine
        /\ t.broken = s.broken /\ t.closing = s.closing /\ t.borrower = s.borrower
    BY <1>1 DEF Fields
  <1>4. SafetyCap \in Nat /\ GenericCap \in Nat
    BY ServiceAssumption
  <1>5. \/ /\ t.waitG = s.waitG /\ Queue(t.waitS, n, SafetyCap)
           /\ Range(t.waitS) = Range(s.waitS) \union {r}
        \/ /\ t.waitS = s.waitS /\ Queue(t.waitG, n, GenericCap)
           /\ Range(t.waitG) = Range(s.waitG) \union {r}
    <2>1. Queue(s.waitS, n, SafetyCap) /\ Queue(s.waitG, n, GenericCap)
      BY DEF SInv, Placed
    <2>2. CASE Len(s.waitS) < SafetyCap /\ t = [s EXCEPT !.waitS = Append(@, r)]
      <3>1. t.waitS = Append(s.waitS, r) /\ t.waitG = s.waitG
        BY <1>1, <2>2 DEF Fields
      <3>2. QED BY <1>2, <1>4, <2>1, <2>2, <3>1, QueueAppend
    <2>3. CASE Len(s.waitG) < GenericCap /\ t = [s EXCEPT !.waitG = Append(@, r)]
      <3>1. t.waitG = Append(s.waitG, r) /\ t.waitS = s.waitS
        BY <1>1, <2>3 DEF Fields
      <3>2. QED BY <1>2, <1>4, <2>1, <2>3, <3>1, QueueAppend
    <2>4. QED BY <2>2, <2>3
  <1>6. Placed(t, n)
    BY <1>2, <1>3, <1>5 DEF SInv, Placed
  <1>7. Well(t) /\ Counted(t) /\ Alone(t)
    BY <1>3 DEF SInv, Well, Counted, Alone, Of
  <1>8. QED BY <1>3, <1>6, <1>7 DEF SInv

\* Stops and generic calls run, wait or are answered; a handoff closes.
LEMMA QueuedCommands ==
  ASSUME NEW n \in Nat, NEW s, SInv(s, n), NEW r, Fresh(s, n, r), NEW late, NEW t,
         \/ t = SafetyCommand(s, r, late) \/ t = GenericCommand(s, r, late)
         \/ t = HandoffCommand(s, r)
  PROVE  SInv(t, n)
  <1>1. /\ DOMAIN s = Fields /\ SInv(Answer(s, r), n) /\ s.broken \in BOOLEAN
        /\ s.borrower \in {"none", "idle", "take"}
    BY Answering DEF SInv, Well
  <1>2. CASE t = Answer(s, r)
    BY <1>1, <1>2
  <1>3. ASSUME NEW kind \in JobKinds, kind # "retire", Adds(s, t, r, kind), HasRoom(s, kind)
        PROVE  SInv(t, n)
    BY <1>3, Spawned
  <1>4. /\ SafetyCap \in Nat /\ GenericCap \in Nat /\ Len(s.waitS) \in Nat
        /\ Len(s.waitG) \in Nat
    <2>1. s.waitS \in Seq(1..n) /\ s.waitG \in Seq(1..n)
      BY DEF SInv, Placed, Queue
    <2>2. QED BY <2>1, LenProperties, ServiceAssumption
  <1>5. CASE t = SafetyCommand(s, r, late) /\ t # Answer(s, r)
    <2>1. CASE t = Spawn(s, r, "safety")
      <3>1. Adds(s, t, r, "safety")
        BY <1>1, <2>1 DEF Adds, SameQueues, Fields, Spawn, Job, TakeKinds, Binders, PrepKinds,
                          MachineKinds
      <3>2. HasRoom(s, "safety")
        BY DEF HasRoom, Ordinaries, Exclusive, TakeKinds, PrepKinds
      <3>3. QED BY <1>3, <3>1, <3>2 DEF JobKinds, SideKinds
    <2>2. CASE ~(Len(s.waitS) >= SafetyCap) /\ t = [s EXCEPT !.waitS = Append(@, r)]
      BY <1>4, <2>2, Waits
    <2>3. QED BY <1>5, <2>1, <2>2 DEF SafetyCommand
  <1>6. CASE t = GenericCommand(s, r, late) /\ t # Answer(s, r)
    <2>1. CASE ~s.broken /\ ~Busy(s) /\ t = Spawn(s, r, "generic")
      <3>1. Adds(s, t, r, "generic")
        BY <1>1, <2>1 DEF Adds, SameQueues, Fields, Spawn, Job, TakeKinds, Binders, PrepKinds,
                          MachineKinds
      <3>2. HasRoom(s, "generic")
        BY <2>1, NotBusy DEF HasRoom, Exclusive, TakeKinds, PrepKinds
      <3>3. QED BY <1>3, <3>1, <3>2 DEF JobKinds
    <2>2. CASE ~(Len(s.waitG) >= GenericCap) /\ t = [s EXCEPT !.waitG = Append(@, r)]
      BY <1>4, <2>2, Waits
    <2>3. QED BY <1>6, <2>1, <2>2 DEF GenericCommand
  <1>7. CASE t = HandoffCommand(s, r) /\ t # Answer(s, r)
    <2>1. t = [s EXCEPT !.handoff = r, !.closing = TRUE]
      BY <1>7 DEF HandoffCommand
    <2>2. Stands(s, t)
      BY <1>1, <2>1 DEF Stands, SameQueues, Fields
    <2>3. QED BY <2>2, JobsStood
  <1>8. QED BY <1>2, <1>5, <1>6, <1>7

\* Every command keeps the invariant.
LEMMA HandleKeeps ==
  ASSUME IInv, NEW s, SInv(s, Len(reqs)), NEW r, Fresh(s, Len(reqs), r), NEW late
  PROVE  SInv(Handle(s, r, late), Len(reqs))
  <1>1. Len(reqs) \in Nat /\ reqs[r] \in Kinds
    <2>1. r \in 1..Len(reqs)
      BY DEF Fresh
    <2>2. QED BY <2>1, LenProperties, ElementOfSeq DEF IInv
  <1>2. PICK t : t = Handle(s, r, late)
    OBVIOUS
  <1>3. reqs[r] \in Workflows \union Stops \union
           {"snapshot", "read", "replay", "media", "handoff", "start", "takestop", "clip",
            "stage", "tracked", "prepare", "recover", "generic"}
    BY <1>1, ServiceAssumption
  <1>4. \/ t = WorkflowCommand(s, r, late) \/ t = SnapshotCommand(s, r)
        \/ t = ReadCommand(s, r) \/ t = ReplayCommand(s, r) \/ t = MediaCommand(s, r)
        \/ t = StageCommand(s, r) \/ t = TrackedCommand(s, r) \/ t = PreparationCommand(s, r)
        \/ t = TakeCommand(s, r) \/ t = ClipCommand(s, r, late)
        \/ t = SafetyCommand(s, r, late) \/ t = GenericCommand(s, r, late)
        \/ t = HandoffCommand(s, r)
    BY <1>2, <1>3 DEF Handle, Workflows, Stops
  <1>5. SInv(t, Len(reqs))
    BY <1>1, <1>4, OrdinaryCommands, TakeCommands, QueuedCommands
  <1>6. QED BY <1>2, <1>5

\* The next command is taken from the queue that has its turn.
LEMMA TakeNextKeeps ==
  ASSUME IInv, NEW late, TakeNext(late)
  PROVE  IInv'
  <1>1. Len(reqs) \in Nat
    BY LenProperties DEF IInv
  <1>2. PICK n : n = Len(reqs) /\ n \in Nat
    BY <1>1
  <1>3. PICK q, u :
          /\ \/ q = svc.waitS /\ u = [svc EXCEPT !.waitS = Tail(@)]
             \/ q = svc.waitG /\ u = [svc EXCEPT !.waitG = Tail(@)]
             \/ q = svc.inbox /\ u = [svc EXCEPT !.inbox = Tail(@)]
          /\ q # <<>> /\ svc' = Settle(Handle(u, Head(q), late)) /\ reqs' = reqs
    BY DEF TakeNext
  <1>4. SInv(svc, n) /\ DOMAIN svc = Fields
    BY <1>2 DEF IInv, SInv, Well
  <1>5. /\ DOMAIN u = Fields /\ u.jobs = svc.jobs
        /\ u.takeJobs = svc.takeJobs /\ u.initializing = svc.initializing
        /\ u.prep = svc.prep /\ u.machine = svc.machine
        /\ u.broken = svc.broken /\ u.closing = svc.closing /\ u.borrower = svc.borrower
    BY <1>3, <1>4 DEF Fields
  <1>6. ChannelCap \in Nat /\ GenericCap \in Nat /\ SafetyCap \in Nat
    BY ServiceAssumption
  <1>7. PICK r : r = Head(q)
    OBVIOUS
  <1>8. /\ Queue(u.inbox, n, ChannelCap) /\ Queue(u.waitG, n, GenericCap)
        /\ Queue(u.waitS, n, SafetyCap) /\ r \in 1..n
        /\ Range(u.inbox) \subseteq Range(svc.inbox) /\ Range(u.waitG) \subseteq Range(svc.waitG)
        /\ Range(u.waitS) \subseteq Range(svc.waitS)
        /\ r \notin Range(u.inbox) \union Range(u.waitG) \union Range(u.waitS)
        /\ r \in Range(svc.inbox) \union Range(svc.waitG) \union Range(svc.waitS)
    <2>1. /\ Queue(svc.inbox, n, ChannelCap) /\ Queue(svc.waitG, n, GenericCap)
          /\ Queue(svc.waitS, n, SafetyCap)
          /\ Range(svc.inbox) \intersect Range(svc.waitG) = {}
          /\ Range(svc.inbox) \intersect Range(svc.waitS) = {}
          /\ Range(svc.waitG) \intersect Range(svc.waitS) = {}
      BY <1>4 DEF SInv, Placed
    <2>2. CASE q = svc.waitS /\ u = [svc EXCEPT !.waitS = Tail(@)]
      <3>1. u.waitS = Tail(q) /\ u.waitG = svc.waitG /\ u.inbox = svc.inbox
        BY <1>4, <2>2 DEF Fields
      <3>2. /\ Queue(Tail(q), n, SafetyCap) /\ r \in 1..n /\ r \in Range(q)
            /\ r \notin Range(Tail(q)) /\ Range(Tail(q)) \subseteq Range(q)
        BY <1>2, <1>3, <1>6, <1>7, <2>1, <2>2, QueueTail
      <3>3. QED BY <2>1, <2>2, <3>1, <3>2
    <2>3. CASE q = svc.waitG /\ u = [svc EXCEPT !.waitG = Tail(@)]
      <3>1. u.waitG = Tail(q) /\ u.waitS = svc.waitS /\ u.inbox = svc.inbox
        BY <1>4, <2>3 DEF Fields
      <3>2. /\ Queue(Tail(q), n, GenericCap) /\ r \in 1..n /\ r \in Range(q)
            /\ r \notin Range(Tail(q)) /\ Range(Tail(q)) \subseteq Range(q)
        BY <1>2, <1>3, <1>6, <1>7, <2>1, <2>3, QueueTail
      <3>3. QED BY <2>1, <2>3, <3>1, <3>2
    <2>4. CASE q = svc.inbox /\ u = [svc EXCEPT !.inbox = Tail(@)]
      <3>1. u.inbox = Tail(q) /\ u.waitS = svc.waitS /\ u.waitG = svc.waitG
        BY <1>4, <2>4 DEF Fields
      <3>2. /\ Queue(Tail(q), n, ChannelCap) /\ r \in 1..n /\ r \in Range(q)
            /\ r \notin Range(Tail(q)) /\ Range(Tail(q)) \subseteq Range(q)
        BY <1>2, <1>3, <1>6, <1>7, <2>1, <2>4, QueueTail
      <3>3. QED BY <2>1, <2>4, <3>1, <3>2
    <2>5. QED BY <1>3, <2>2, <2>3, <2>4
  <1>9. SInv(u, n)
    <2>1. Placed(u, n)
      BY <1>4, <1>5, <1>8 DEF SInv, Placed
    <2>2. Well(u) /\ Counted(u) /\ Alone(u)
      BY <1>4, <1>5 DEF SInv, Well, Counted, Alone, Of
    <2>3. QED BY <1>4, <1>5, <2>1, <2>2 DEF SInv
  <1>10. Fresh(u, n, r)
    BY <1>4, <1>5, <1>8 DEF SInv, Placed, Fresh
  <1>11. SInv(Handle(u, r, late), n)
    BY <1>2, <1>9, <1>10, HandleKeeps
  <1>12. SInv(svc', n)
    BY <1>2, <1>3, <1>7, <1>11, SettleKeeps
  <1>13. QED BY <1>2, <1>3, <1>12 DEF IInv

-----------------------------------------------------------------------------
(* Callers.                                                                *)

\* One more request: it is nowhere yet.
LEMMA Grown ==
  ASSUME NEW n \in Nat, NEW s, SInv(s, n)
  PROVE  SInv(s, n + 1) /\ Fresh(s, n + 1, n + 1)
  <1>1. /\ 1..n \subseteq 1..(n + 1) /\ n + 1 \notin 1..n /\ n + 1 \notin 0..n
        /\ n + 1 \in 1..(n + 1) /\ 0..n \subseteq 0..(n + 1)
    OBVIOUS
  <1>2. ASSUME NEW q, NEW cap, Queue(q, n, cap)
        PROVE  Queue(q, n + 1, cap) /\ Range(q) \subseteq 1..n
    <2>1. /\ q \in Seq(1..n) /\ Len(q) \in Nat /\ DOMAIN q = 1..Len(q)
          /\ q \in [1..Len(q) -> 1..n]
      BY <1>2, LenProperties DEF Queue
    <2>2. q \in [1..Len(q) -> 1..(n + 1)]
      BY <1>1, <2>1
    <2>3. q \in Seq(1..(n + 1))
      BY <2>1, <2>2
    <2>4. Range(q) \subseteq 1..n
      BY <2>1 DEF Range
    <2>5. QED BY <1>2, <2>3, <2>4 DEF Queue
  <1>3. /\ Queue(s.inbox, n, ChannelCap) /\ Queue(s.waitG, n, GenericCap)
        /\ Queue(s.waitS, n, SafetyCap) /\ \A j \in s.jobs : j.req \in 0..n
    BY DEF SInv, Placed
  <1>4. /\ Queue(s.inbox, n + 1, ChannelCap) /\ Queue(s.waitG, n + 1, GenericCap)
        /\ Queue(s.waitS, n + 1, SafetyCap) /\ Range(s.inbox) \subseteq 1..n
        /\ Range(s.waitG) \subseteq 1..n /\ Range(s.waitS) \subseteq 1..n
    BY <1>2, <1>3
  <1>5. \A j \in s.jobs : j.req \in 0..(n + 1) /\ j.req # n + 1
    BY <1>1, <1>3
  <1>6. Placed(s, n + 1)
    BY <1>4, <1>5 DEF SInv, Placed
  <1>7. Fresh(s, n + 1, n + 1)
    BY <1>1, <1>4, <1>5 DEF Fresh
  <1>8. QED BY <1>6, <1>7 DEF SInv

\* ServiceHandle::call.
LEMMA CallKeeps ==
  ASSUME IInv, NEW kind \in Kinds, Call(kind)
  PROVE  IInv'
  <1>1. PICK n : n = Len(reqs) /\ n \in Nat
    BY LenProperties DEF IInv
  <1>2. /\ reqs' \in Seq(Kinds) /\ Len(reqs') = n + 1 /\ Len(reqs') <= MaxReqs
    <2>1. n < MaxReqs /\ reqs' = Append(reqs, kind) /\ reqs \in Seq(Kinds) /\ MaxReqs \in Nat
      BY <1>1, ServiceAssumption DEF Call, IInv
    <2>2. QED BY <1>1, <2>1, AppendProperties
  <1>3. /\ SInv(svc, n + 1) /\ Fresh(svc, n + 1, n + 1) /\ n + 1 \in Nat /\ DOMAIN svc = Fields
    BY <1>1, Grown DEF IInv, SInv, Well
  <1>4. CASE svc' = Answer(svc, n + 1)
    BY <1>2, <1>3, <1>4, Answering DEF IInv
  <1>5. CASE ~(Len(svc.inbox) >= ChannelCap) /\ svc' = [svc EXCEPT !.inbox = Append(@, n + 1)]
    <2>1. PICK t, r : t = svc' /\ r = n + 1
      OBVIOUS
    <2>2. /\ DOMAIN t = Fields /\ t.jobs = svc.jobs /\ t.inbox = Append(svc.inbox, r)
          /\ t.waitG = svc.waitG /\ t.waitS = svc.waitS
          /\ t.takeJobs = svc.takeJobs /\ t.initializing = svc.initializing
          /\ t.prep = svc.prep /\ t.machine = svc.machine
          /\ t.broken = svc.broken /\ t.closing = svc.closing /\ t.borrower = svc.borrower
      BY <1>3, <1>5, <2>1 DEF Fields
    <2>3. /\ r \in 1..r /\ (\A j \in svc.jobs : j.req # r) /\ r \in Nat /\ SInv(svc, r)
          /\ r \notin Range(svc.inbox) /\ r \notin Range(svc.waitG) /\ r \notin Range(svc.waitS)
      BY <1>3, <2>1 DEF Fresh
    <2>4. /\ Queue(t.inbox, r, ChannelCap) /\ Range(t.inbox) = Range(svc.inbox) \union {r}
      <3>1. Queue(svc.inbox, r, ChannelCap) /\ ChannelCap \in Nat
        BY <2>3, ServiceAssumption DEF SInv, Placed
      <3>2. Len(svc.inbox) \in Nat
        BY <3>1, LenProperties DEF Queue
      <3>3. Len(svc.inbox) < ChannelCap
        BY <1>5, <3>1, <3>2
      <3>4. QED BY <2>2, <2>3, <3>1, <3>3, QueueAppend
    <2>5. Placed(t, r)
      BY <2>2, <2>3, <2>4 DEF SInv, Placed
    <2>6. Well(t) /\ Counted(t) /\ Alone(t)
      BY <2>2, <2>3 DEF SInv, Well, Counted, Alone, Of
    <2>7. SInv(t, r)
      BY <2>2, <2>3, <2>5, <2>6 DEF SInv
    <2>8. QED BY <1>2, <2>1, <2>7 DEF IInv
  <1>6. QED BY <1>1, <1>4, <1>5 DEF Call

\* A caller gives up, the take ends, the supervisor is lost, the service stops.
LEMMA OutsideKeeps ==
  ASSUME IInv, (\E r \in 1..MaxReqs : CancelCall(r)) \/ TakeEndsAlone \/ SupervisorLost
               \/ Stopping
  PROVE  IInv'
  <1>1. PICK n : n = Len(reqs) /\ n \in Nat
    BY LenProperties DEF IInv
  <1>2. /\ SInv(svc, n) /\ DOMAIN svc = Fields /\ svc.broken \in BOOLEAN
        /\ svc.closing \in BOOLEAN /\ svc.borrower \in {"none", "idle", "take"}
    BY <1>1 DEF IInv, SInv, Well
  <1>3. PICK t : /\ Stands(svc, t) /\ reqs' = reqs
                 /\ svc' = t \/ svc' = Settle(t)
    <2>1. CASE \E r \in 1..MaxReqs : CancelCall(r)
      <3>1. PICK r : svc' = [svc EXCEPT !.cancelled = @ \union {r}] /\ reqs' = reqs
        BY <2>1 DEF CancelCall
      <3>2. Stands(svc, svc')
        BY <1>2, <3>1 DEF Stands, SameQueues, Fields
      <3>3. QED BY <3>1, <3>2
    <2>2. CASE TakeEndsAlone
      <3>1. PICK t : /\ t = [svc EXCEPT !.borrower = "idle", !.completed = TRUE]
                     /\ svc' = Settle(t) /\ reqs' = reqs /\ svc.borrower = "take"
        BY <2>2 DEF TakeEndsAlone, Became
      <3>2. Stands(svc, t)
        BY <1>2, <3>1 DEF Stands, SameQueues, Fields
      <3>3. QED BY <3>1, <3>2
    <2>3. CASE SupervisorLost
      <3>1. PICK t, f : /\ f = svc.failures + 1
                        /\ t = [svc EXCEPT !.broken = TRUE, !.closing = TRUE, !.failures = f]
                        /\ svc' = Settle(t) /\ reqs' = reqs
        BY <2>3 DEF SupervisorLost, Became
      <3>2. Stands(svc, t)
        BY <1>2, <3>1 DEF Stands, SameQueues, Fields
      <3>3. QED BY <3>1, <3>2
    <2>4. CASE Stopping
      <3>1. PICK c, t : /\ t = [svc EXCEPT !.closing = TRUE, !.cancelled = c]
                        /\ svc' = Settle(t) /\ reqs' = reqs
        BY <2>4 DEF Stopping, Became
      <3>2. Stands(svc, t)
        BY <1>2, <3>1 DEF Stands, SameQueues, Fields
      <3>3. QED BY <3>1, <3>2
    <2>5. QED BY <2>1, <2>2, <2>3, <2>4
  <1>4. SInv(t, n)
    BY <1>1, <1>2, <1>3, JobsStood
  <1>5. SInv(svc', n)
    BY <1>1, <1>3, <1>4, SettleKeeps
  <1>6. QED BY <1>1, <1>3, <1>5 DEF IInv

-----------------------------------------------------------------------------
(* Jobs.                                                                   *)

\* A job ends and leaves state t, from which the loop goes on.
LEMMA JobGone ==
  ASSUME IInv, NEW j, NEW t, Drops(svc, t, j), svc' = Settle(t), UNCHANGED reqs
  PROVE  IInv'
  <1>1. PICK n : n = Len(reqs) /\ n \in Nat
    BY LenProperties DEF IInv
  <1>2. SInv(svc, n)
    BY <1>1 DEF IInv
  <1>3. SInv(t, n)
    BY <1>1, <1>2, JobDropped
  <1>4. SInv(svc', n)
    BY <1>1, <1>3, SettleKeeps
  <1>5. QED BY <1>1, <1>4 DEF IInv

\* A job is followed by another one for the same request.
LEMMA JobGoesOn ==
  ASSUME IInv, NEW j, NEW u, Drops(svc, u, j), j.kind # "retire", NEW t, NEW kind \in JobKinds,
         kind # "retire", Adds(u, t, j.req, kind), HasRoom(u, kind),
         svc' = Settle(t), UNCHANGED reqs
  PROVE  IInv'
  <1>1. PICK n : n = Len(reqs) /\ n \in Nat
    BY LenProperties DEF IInv
  <1>2. SInv(svc, n)
    BY <1>1 DEF IInv
  <1>3. SInv(u, n) /\ Fresh(u, n, j.req)
    BY <1>1, <1>2, JobDropped
  <1>4. SInv(t, n)
    BY <1>1, <1>3, Spawned
  <1>5. SInv(svc', n)
    BY <1>1, <1>4, SettleKeeps
  <1>6. QED BY <1>1, <1>5 DEF IInv

\* What is known of the actor when a job ends.
LEMMA AtEnd ==
  ASSUME IInv
  PROVE  /\ DOMAIN svc = Fields /\ svc.takeJobs \in 0..MaxUsize
         /\ svc.borrower \in {"none", "idle", "take"}
         /\ svc.prep \in {"here", "lent", "lost"} /\ svc.machine \in {"here", "lent", "lost"}
         /\ svc.initializing \in BOOLEAN /\ svc.broken \in BOOLEAN /\ svc.closing \in BOOLEAN
         /\ Less(svc.takeJobs) \in 0..MaxUsize /\ SaturatingLess(svc.takeJobs) \in 0..MaxUsize
         /\ svc.jobs \subseteq JobRecords
  <1>1. /\ DOMAIN svc = Fields /\ svc.takeJobs \in 0..MaxUsize
        /\ svc.borrower \in {"none", "idle", "take"}
        /\ svc.prep \in {"here", "lent", "lost"} /\ svc.machine \in {"here", "lent", "lost"}
        /\ svc.initializing \in BOOLEAN /\ svc.broken \in BOOLEAN /\ svc.closing \in BOOLEAN
        /\ svc.jobs \subseteq JobRecords
    BY DEF IInv, SInv, Well
  <1>2. Less(svc.takeJobs) \in 0..MaxUsize /\ SaturatingLess(svc.takeJobs) \in 0..MaxUsize
    BY <1>1, UsizeFacts DEF Less, SaturatingLess
  <1>3. QED BY <1>1, <1>2

\* Reads, snapshots, media operations and safety stops end.
LEMMA SideJobEndsKeeps ==
  ASSUME IInv, NEW j, NEW worse \in BOOLEAN, SideJobEnds(j, worse)
  PROVE  IInv'
  <1>1. PICK p, b, w : /\ p = IF j.kind = "snapshot" THEN "here" ELSE svc.prep
                       /\ b = (svc.broken \/ worse)
                       /\ w = (svc.workers /\ ~(worse /\ j.kind = "media"))
    OBVIOUS
  <1>2. PICK t : t = [Answer(Without(j), j.req) EXCEPT !.prep = p, !.broken = b, !.workers = w]
    OBVIOUS
  <1>3. svc' = Settle(t) /\ UNCHANGED reqs /\ j \in svc.jobs
    <2>1. DOMAIN svc = Fields
      BY AtEnd
    <2>2. /\ Answer(Without(j), j.req).prep = svc.prep
          /\ Answer(Without(j), j.req).broken = svc.broken
          /\ Answer(Without(j), j.req).workers = svc.workers
      BY <2>1 DEF Answer, Without, Fields
    <2>3. QED BY <1>1, <1>2, <2>2 DEF SideJobEnds, Became
  <1>4. j.kind \in SideKinds
    BY <1>3, AtEnd, MainIs DEF SideJobEnds, In
  <1>5. b \in BOOLEAN /\ (svc.broken => b)
    BY <1>1
  <1>6. /\ DOMAIN t = Fields /\ SameQueues(svc, t) /\ t.jobs = svc.jobs \ {j}
        /\ t.takeJobs = svc.takeJobs /\ t.initializing = svc.initializing
        /\ t.prep = p /\ t.machine = svc.machine /\ t.broken = b
        /\ t.closing = svc.closing /\ t.borrower = svc.borrower
    BY <1>2, AtEnd DEF Answer, Without, Fields, SameQueues
  <1>7. Drops(svc, t, j)
    BY <1>1, <1>3, <1>4, <1>5, <1>6, AtEnd
    DEF Drops, SideKinds, TakeKinds, Binders, PrepKinds, MachineKinds
  <1>8. QED BY <1>3, <1>7, JobGone

\* An ordinary effect ends and its owner comes back.
LEMMA EffectEndsKeeps ==
  ASSUME IInv, NEW j, NEW unsure \in BOOLEAN, NEW worse \in BOOLEAN, EffectEnds(j, unsure, worse)
  PROVE  IInv'
  <1>1. PICK p, m, y, b, w :
          /\ p = IF j.kind \in {"preparation", "apply"} THEN "here" ELSE svc.prep
          /\ m = IF j.kind \in {"stage", "tracked"} THEN "here" ELSE svc.machine
          /\ y = (svc.unsure \/ unsure) /\ b = (svc.broken \/ worse)
          /\ w = (svc.workers /\ ~(worse /\ j.kind = "replay"))
    OBVIOUS
  <1>2. PICK t : t = [Answer(Without(j), j.req) EXCEPT !.prep = p, !.machine = m, !.unsure = y,
                          !.broken = b, !.workers = w]
    OBVIOUS
  <1>3. /\ svc' = Settle(t) /\ UNCHANGED reqs /\ j \in svc.jobs
        /\ j.kind \in {"generic", "replay", "stage", "tracked", "preparation", "apply"}
    <2>1. DOMAIN svc = Fields
      BY AtEnd
    <2>2. PICK u : u = Answer(Without(j), j.req)
      OBVIOUS
    <2>3. /\ u.prep = svc.prep /\ u.machine = svc.machine /\ u.unsure = svc.unsure
          /\ u.broken = svc.broken /\ u.workers = svc.workers
      BY <2>1, <2>2 DEF Answer, Without, Fields
    <2>4. t = [u EXCEPT !.prep = IF j.kind \in {"preparation", "apply"} THEN "here" ELSE @,
                        !.machine = IF j.kind \in {"stage", "tracked"} THEN "here" ELSE @,
                        !.unsure = @ \/ unsure, !.broken = @ \/ worse,
                        !.workers = @ /\ ~(worse /\ j.kind = "replay")]
      BY <1>1, <1>2, <2>2, <2>3
    <2>5. QED BY <2>2, <2>4 DEF EffectEnds, Became
  <1>4. b \in BOOLEAN /\ (svc.broken => b)
    BY <1>1
  <1>5. /\ DOMAIN t = Fields /\ SameQueues(svc, t) /\ t.jobs = svc.jobs \ {j}
        /\ t.takeJobs = svc.takeJobs /\ t.initializing = svc.initializing
        /\ t.prep = p /\ t.machine = m /\ t.broken = b
        /\ t.closing = svc.closing /\ t.borrower = svc.borrower
    BY <1>2, AtEnd DEF Answer, Without, Fields, SameQueues
  <1>6. Drops(svc, t, j)
    BY <1>1, <1>3, <1>4, <1>5, AtEnd DEF Drops, TakeKinds, Binders, PrepKinds, MachineKinds
  <1>7. QED BY <1>3, <1>6, JobGone

\* A plan is finished and its owner back, or it is applied with its owner.
LEMMA PlanEndsKeeps ==
  ASSUME IInv, NEW j, NEW ready, NEW late, PlanEnds(j, ready, late)
  PROVE  IInv'
  <1>1. PICK u, a : /\ u = [Without(j) EXCEPT !.prep = "here"]
                    /\ a = [Answer(Without(j), j.req) EXCEPT !.prep = "here"]
    OBVIOUS
  <1>2. /\ j \in svc.jobs /\ j.kind = "plan" /\ UNCHANGED reqs
        /\ svc' = Settle(a) \/ svc' = Settle(Spawn(Without(j), j.req, "apply"))
    BY <1>1 DEF PlanEnds, Became
  <1>3. /\ DOMAIN u = Fields /\ SameQueues(svc, u) /\ u.jobs = svc.jobs \ {j}
        /\ u.takeJobs = svc.takeJobs /\ u.initializing = svc.initializing
        /\ u.prep = "here" /\ u.machine = svc.machine /\ u.broken = svc.broken
        /\ u.closing = svc.closing /\ u.borrower = svc.borrower
    BY <1>1, AtEnd DEF Without, Fields, SameQueues
  <1>4. /\ DOMAIN a = Fields /\ SameQueues(svc, a) /\ a.jobs = svc.jobs \ {j}
        /\ a.takeJobs = svc.takeJobs /\ a.initializing = svc.initializing
        /\ a.prep = "here" /\ a.machine = svc.machine /\ a.broken = svc.broken
        /\ a.closing = svc.closing /\ a.borrower = svc.borrower
    BY <1>1, AtEnd DEF Answer, Without, Fields, SameQueues
  <1>5. Drops(svc, u, j) /\ Drops(svc, a, j)
    BY <1>2, <1>3, <1>4, AtEnd DEF Drops, TakeKinds, Binders, PrepKinds, MachineKinds
  <1>6. CASE svc' = Settle(a)
    BY <1>2, <1>5, <1>6, JobGone
  <1>7. CASE svc' = Settle(Spawn(Without(j), j.req, "apply"))
    <2>1. PICK t : t = Spawn(Without(j), j.req, "apply")
      OBVIOUS
    <2>2. svc.prep = "lent"
      BY <1>2 DEF IInv, SInv, LentToOne, PrepKinds
    <2>3. /\ DOMAIN t = Fields /\ SameQueues(svc, t)
          /\ t.jobs = (svc.jobs \ {j}) \union {Job(j.req, "apply")}
          /\ t.takeJobs = svc.takeJobs /\ t.initializing = svc.initializing
          /\ t.prep = "lent" /\ t.machine = svc.machine /\ t.broken = svc.broken
          /\ t.closing = svc.closing /\ t.borrower = svc.borrower
      BY <2>1, <2>2, AtEnd DEF Spawn, Job, Without, Fields, SameQueues
    <2>4. Adds(u, t, j.req, "apply")
      BY <1>3, <2>3 DEF Adds, SameQueues, TakeKinds, Binders, PrepKinds, MachineKinds
    <2>5. HasRoom(u, "apply")
      <3>1. \A k \in svc.jobs : k.kind \in Ordinaries => k = j
        BY <1>2 DEF IInv, SInv, Alone, Ordinaries
      <3>2. QED BY <1>3, <3>1 DEF HasRoom, Exclusive, TakeKinds
    <2>6. QED BY <1>2, <1>5, <1>7, <2>1, <2>4, <2>5, JobGoesOn DEF JobKinds
  <1>8. QED BY <1>2, <1>6, <1>7

\* The supervisor was bound, or could not be.
LEMMA InitEndsKeeps ==
  ASSUME IInv, NEW j, NEW bound, NEW running, InitEnds(j, bound, running)
  PROVE  IInv'
  <1>1. PICK w : w = IF running THEN "take" ELSE IF bound THEN "idle" ELSE "none"
    OBVIOUS
  <1>2. PICK t : t = [Answer(Without(j), j.req) EXCEPT !.initializing = FALSE, !.borrower = w]
    OBVIOUS
  <1>3. /\ svc' = Settle(t) /\ UNCHANGED reqs /\ j \in svc.jobs /\ j.kind = "init"
        /\ w \in {"none", "idle", "take"}
    BY <1>1, <1>2 DEF InitEnds, Became
  <1>4. /\ DOMAIN t = Fields /\ SameQueues(svc, t) /\ t.jobs = svc.jobs \ {j}
        /\ t.takeJobs = svc.takeJobs /\ t.initializing = FALSE
        /\ t.prep = svc.prep /\ t.machine = svc.machine /\ t.broken = svc.broken
        /\ t.closing = svc.closing /\ t.borrower = w
    BY <1>2, AtEnd DEF Answer, Without, Fields, SameQueues
  <1>5. Drops(svc, t, j)
    BY <1>3, <1>4, AtEnd DEF Drops, TakeKinds, Binders, PrepKinds, MachineKinds
  <1>6. QED BY <1>3, <1>5, JobGone

\* A call to the supervisor or a clip ends; the counter goes down by one.
LEMMA CallEndsKeeps ==
  ASSUME IInv, NEW j, (\E running \in BOOLEAN : TakeCallEnds(j, running)) \/ ClipEnds(j)
  PROVE  IInv'
  <1>1. PICK w, c : /\ UNCHANGED reqs /\ j \in svc.jobs /\ j.kind \in {"takecall", "clip"}
                    /\ w \in {"none", "idle", "take"} /\ (svc.borrower = "none" => w = "none")
                    /\ svc' = Settle([Answer(Without(j), j.req) EXCEPT
                                 !.takeJobs = Less(svc.takeJobs), !.borrower = w,
                                 !.completed = c])
    <2>1. PICK u : u = Answer(Without(j), j.req)
      OBVIOUS
    <2>2. /\ DOMAIN u = Fields /\ u.takeJobs = svc.takeJobs /\ u.borrower = svc.borrower
          /\ u.completed = svc.completed
      BY <2>1, AtEnd DEF Answer, Without, Fields
    <2>3. CASE ClipEnds(j)
      <3>1. PICK w : w = IF svc.borrower = "none" THEN svc.borrower ELSE "idle"
        OBVIOUS
      <3>2. [u EXCEPT !.takeJobs = Less(@), !.borrower = IF @ = "none" THEN @ ELSE "idle"]
            = [u EXCEPT !.takeJobs = Less(svc.takeJobs), !.borrower = w,
                        !.completed = svc.completed]
        BY <2>2, <3>1 DEF Fields
      <3>3. /\ UNCHANGED reqs /\ j \in svc.jobs /\ j.kind = "clip"
            /\ svc' = Settle([u EXCEPT !.takeJobs = Less(@),
                                       !.borrower = IF @ = "none" THEN @ ELSE "idle"])
        BY <2>1, <2>3 DEF ClipEnds, Became
      <3>4. w \in {"none", "idle", "take"} /\ (svc.borrower = "none" => w = "none")
        BY <3>1
      <3>5. svc' = Settle([u EXCEPT !.takeJobs = Less(svc.takeJobs), !.borrower = w,
                                    !.completed = svc.completed])
        BY <3>2, <3>3
      <3>6. QED BY <2>1, <3>3, <3>4, <3>5
    <2>4. CASE \E running \in BOOLEAN : TakeCallEnds(j, running)
      <3>1. PICK running \in BOOLEAN : TakeCallEnds(j, running)
        BY <2>4
      <3>2. PICK w, c :
              /\ w = IF svc.borrower = "none" THEN svc.borrower
                     ELSE IF running THEN "take" ELSE "idle"
              /\ c = (svc.completed \/ (svc.borrower = "take" /\ ~running))
        OBVIOUS
      <3>3. [u EXCEPT !.takeJobs = Less(@),
                      !.borrower = IF @ = "none" THEN @ ELSE IF running THEN "take" ELSE "idle",
                      !.completed = @ \/ (svc.borrower = "take" /\ ~running)]
            = [u EXCEPT !.takeJobs = Less(svc.takeJobs), !.borrower = w, !.completed = c]
        BY <2>2, <3>2
      <3>4. /\ UNCHANGED reqs /\ j \in svc.jobs /\ j.kind = "takecall"
            /\ svc' = Settle([u EXCEPT !.takeJobs = Less(@),
                      !.borrower = IF @ = "none" THEN @ ELSE IF running THEN "take" ELSE "idle",
                      !.completed = @ \/ (svc.borrower = "take" /\ ~running)])
        BY <2>1, <3>1 DEF TakeCallEnds, Became
      <3>5. w \in {"none", "idle", "take"} /\ (svc.borrower = "none" => w = "none")
        BY <3>2
      <3>6. svc' = Settle([u EXCEPT !.takeJobs = Less(svc.takeJobs), !.borrower = w,
                                    !.completed = c])
        BY <3>3, <3>4
      <3>7. QED BY <2>1, <3>4, <3>5, <3>6
    <2>5. QED BY <2>3, <2>4
  <1>2. PICK t : t = [Answer(Without(j), j.req) EXCEPT
                         !.takeJobs = Less(svc.takeJobs), !.borrower = w, !.completed = c]
    OBVIOUS
  <1>3. /\ DOMAIN t = Fields /\ SameQueues(svc, t) /\ t.jobs = svc.jobs \ {j}
        /\ t.takeJobs = Less(svc.takeJobs) /\ t.initializing = svc.initializing
        /\ t.prep = svc.prep /\ t.machine = svc.machine /\ t.broken = svc.broken
        /\ t.closing = svc.closing /\ t.borrower = w
    BY <1>2, AtEnd DEF Answer, Without, Fields, SameQueues
  <1>4. Drops(svc, t, j)
    BY <1>1, <1>3, AtEnd DEF Drops, TakeKinds, Binders, PrepKinds, MachineKinds
  <1>5. QED BY <1>1, <1>2, <1>4, JobGone

\* The supervisor was joined, or its writer is lost.
LEMMA RetireEndsKeeps ==
  ASSUME IInv, NEW j, NEW joined \in BOOLEAN, RetireEnds(j, joined)
  PROVE  IInv'
  <1>1. PICK k, b : k = (svc.takeJoined /\ joined) /\ b = (svc.broken \/ ~joined)
    OBVIOUS
  <1>2. PICK t : t = [Without(j) EXCEPT !.takeJoined = k, !.broken = b]
    OBVIOUS
  <1>3. svc' = Settle(t) /\ UNCHANGED reqs /\ j \in svc.jobs /\ j.kind = "retire"
    <2>1. PICK u : u = Without(j)
      OBVIOUS
    <2>2. u.takeJoined = svc.takeJoined /\ u.broken = svc.broken
      BY <2>1, AtEnd DEF Without, Fields
    <2>3. t = [u EXCEPT !.takeJoined = @ /\ joined, !.broken = @ \/ ~joined]
      BY <1>1, <1>2, <2>1, <2>2
    <2>4. QED BY <2>1, <2>3 DEF RetireEnds, Became
  <1>4. b \in BOOLEAN /\ (svc.broken => b)
    BY <1>1
  <1>5. /\ DOMAIN t = Fields /\ SameQueues(svc, t) /\ t.jobs = svc.jobs \ {j}
        /\ t.takeJobs = svc.takeJobs /\ t.initializing = svc.initializing
        /\ t.prep = svc.prep /\ t.machine = svc.machine /\ t.broken = b
        /\ t.closing = svc.closing /\ t.borrower = svc.borrower
    BY <1>2, AtEnd DEF Without, Fields, SameQueues
  <1>6. Drops(svc, t, j)
    BY <1>3, <1>4, <1>5, AtEnd DEF Drops, TakeKinds, Binders, PrepKinds, MachineKinds
  <1>7. QED BY <1>3, <1>6, JobGone

\* A task fails: its owner is lost, the service is broken.
LEMMA WorkerFailsKeeps ==
  ASSUME IInv, NEW j, WorkerFails(j)
  PROVE  IInv'
  <1>1. PICK f, a, p, m :
          /\ f = svc.failures + 1 /\ a = svc.answered \union ({j.req} \ {0})
          /\ p = IF j.kind \in {"snapshot", "plan", "apply", "preparation"} THEN "lost" ELSE svc.prep
          /\ m = IF j.kind \in {"stage", "tracked"} THEN "lost" ELSE svc.machine
    OBVIOUS
  <1>2. PICK u : u = [Without(j) EXCEPT !.failures = f, !.broken = TRUE, !.workers = FALSE,
                          !.answered = a, !.prep = p, !.machine = m]
    OBVIOUS
  <1>3. /\ DOMAIN u = Fields /\ SameQueues(svc, u) /\ u.jobs = svc.jobs \ {j}
        /\ u.takeJobs = svc.takeJobs /\ u.initializing = svc.initializing
        /\ u.prep = p /\ u.machine = m /\ u.broken = TRUE
        /\ u.closing = svc.closing /\ u.borrower = svc.borrower
    BY <1>2, AtEnd DEF Without, Fields, SameQueues
  <1>4. PICK t : t = [u EXCEPT !.takeJoined = FALSE, !.takeJobs = SaturatingLess(svc.takeJobs)]
    OBVIOUS
  <1>5. /\ j \in svc.jobs /\ UNCHANGED reqs /\ (svc' = Settle(u) \/ svc' = Settle(t))
    <2>1. PICK v : v = Without(j)
      OBVIOUS
    <2>2. /\ v.failures = svc.failures /\ v.answered = svc.answered /\ v.prep = svc.prep
          /\ v.machine = svc.machine
      BY <2>1, AtEnd DEF Without, Fields
    <2>3. u = [v EXCEPT !.failures = @ + 1, !.broken = TRUE, !.workers = FALSE,
                    !.answered = @ \union ({j.req} \ {0}),
                    !.prep = IF j.kind \in {"snapshot", "plan", "apply", "preparation"}
                             THEN "lost" ELSE @,
                    !.machine = IF j.kind \in {"stage", "tracked"} THEN "lost" ELSE @]
      BY <1>1, <1>2, <2>1, <2>2
    <2>4. t = [u EXCEPT !.takeJoined = FALSE, !.takeJobs = SaturatingLess(@)]
      BY <1>3, <1>4
    <2>5. QED BY <2>1, <2>3, <2>4 DEF WorkerFails, Became
  <1>6. /\ DOMAIN t = Fields /\ SameQueues(svc, t) /\ t.jobs = svc.jobs \ {j}
        /\ t.takeJobs = SaturatingLess(svc.takeJobs) /\ t.initializing = svc.initializing
        /\ t.prep = p /\ t.machine = m /\ t.broken = TRUE
        /\ t.closing = svc.closing /\ t.borrower = svc.borrower
    BY <1>3, <1>4 DEF Fields, SameQueues
  <1>7. Drops(svc, u, j) /\ Drops(svc, t, j)
    BY <1>1, <1>3, <1>5, <1>6, AtEnd DEF Drops, PrepKinds, MachineKinds
  <1>8. QED BY <1>5, <1>7, JobGone

\* A clip was admitted and runs, or was refused.
LEMMA ClipReadyEndsKeeps ==
  ASSUME IInv, NEW j, NEW bound \in BOOLEAN, NEW admitted \in BOOLEAN, NEW worse \in BOOLEAN,
         ClipReadyEnds(j, bound, admitted, worse)
  PROVE  IInv'
  <1>1. PICK b, i, w :
          /\ b = (svc.broken \/ worse) /\ i = (svc.initializing /\ j.kind = "clipready")
          /\ w = IF j.kind = "clipready" /\ (svc.borrower = "none" \/ ~admitted)
                 THEN svc.borrower
                 ELSE IF admitted THEN "take" ELSE IF bound THEN "idle" ELSE "none"
    OBVIOUS
  <1>2. PICK s : s = [Without(j) EXCEPT !.broken = b, !.initializing = i, !.borrower = w]
    OBVIOUS
  <1>3. PICK a : a = [Answer(s, j.req) EXCEPT !.takeJobs = Less(svc.takeJobs)]
    OBVIOUS
  <1>4. /\ DOMAIN s = Fields /\ SameQueues(svc, s) /\ s.jobs = svc.jobs \ {j}
        /\ s.takeJobs = svc.takeJobs /\ s.initializing = i
        /\ s.prep = svc.prep /\ s.machine = svc.machine /\ s.broken = b
        /\ s.closing = svc.closing /\ s.borrower = w
    BY <1>2, AtEnd DEF Without, Fields, SameQueues
  <1>5. /\ j \in svc.jobs /\ j.kind \in {"clipinit", "clipready"} /\ UNCHANGED reqs
        /\ svc' = Settle(IF admitted THEN Spawn(s, j.req, "clip") ELSE a)
        /\ (admitted => ~worse)
    <2>1. PICK v : v = Without(j)
      OBVIOUS
    <2>2. /\ v.broken = svc.broken /\ v.initializing = svc.initializing
          /\ v.borrower = svc.borrower
      BY <2>1, AtEnd DEF Without, Fields
    <2>3. s = [v EXCEPT !.broken = @ \/ worse, !.initializing = @ /\ j.kind = "clipready",
                    !.borrower = IF j.kind = "clipready" /\ (@ = "none" \/ ~admitted) THEN @
                                 ELSE IF admitted THEN "take"
                                 ELSE IF bound THEN "idle" ELSE "none"]
      BY <1>1, <1>2, <2>1, <2>2
    <2>4. a = [Answer(s, j.req) EXCEPT !.takeJobs = Less(@)]
      <3>1. Answer(s, j.req).takeJobs = svc.takeJobs
        BY <1>4 DEF Answer, Fields
      <3>2. QED BY <1>3, <3>1
    <2>5. QED BY <2>1, <2>3, <2>4 DEF ClipReadyEnds, Became
  <1>6. /\ b \in BOOLEAN /\ (svc.broken => b) /\ i \in BOOLEAN
        /\ (j.kind = "clipready" => i = svc.initializing)
    <2>1. svc.initializing \in BOOLEAN
      BY AtEnd
    <2>2. QED BY <1>1, <2>1
  <1>7. /\ w \in {"none", "idle", "take"}
        /\ w = "none" \/ svc.borrower # "none" \/ j.kind = "clipinit"
    BY <1>1, <1>5, AtEnd
  <1>8. /\ DOMAIN a = Fields /\ SameQueues(svc, a) /\ a.jobs = svc.jobs \ {j}
        /\ a.takeJobs = Less(svc.takeJobs) /\ a.initializing = i
        /\ a.prep = svc.prep /\ a.machine = svc.machine /\ a.broken = b
        /\ a.closing = svc.closing /\ a.borrower = w
    BY <1>3, <1>4 DEF Answer, Fields, SameQueues
  <1>9. j.kind \in TakeKinds /\ (j.kind # "clipready" => j.kind \in Binders)
        /\ j.kind \notin PrepKinds /\ j.kind \notin MachineKinds /\ j.kind # "retire"
        /\ (j.kind = "clipinit" => j.kind \in Binders)
    BY <1>5 DEF TakeKinds, Binders, PrepKinds, MachineKinds
  <1>10. Drops(svc, a, j)
    BY <1>5, <1>6, <1>7, <1>8, <1>9, AtEnd DEF Drops
  <1>11. CASE ~admitted
    BY <1>5, <1>10, <1>11, JobGone
  <1>12. CASE admitted
    <2>1. PICK t, u : /\ t = Spawn(s, j.req, "clip")
                      /\ u = [s EXCEPT !.takeJobs = SaturatingLess(svc.takeJobs)]
      OBVIOUS
    <2>2. svc.takeJobs \in Nat /\ (~svc.broken => svc.takeJobs # 0)
      <3>1. svc.takeJobs \in Nat
        BY AtEnd, UsizeFacts
      <3>2. j \in Of(svc, TakeKinds) /\ IsFiniteSet(Of(svc, TakeKinds))
        <4>1. Of(svc, TakeKinds) \subseteq svc.jobs /\ IsFiniteSet(svc.jobs)
          BY DEF Of, IInv, SInv, Well
        <4>2. QED BY <1>5, <1>9, <4>1, FS_Subset DEF Of
      <3>3. Cardinality(Of(svc, TakeKinds)) # 0
        BY <3>2, FS_EmptySet
      <3>4. QED BY <3>1, <3>3 DEF IInv, SInv, Counted
    <2>3. /\ DOMAIN t = Fields /\ SameQueues(svc, t)
          /\ t.jobs = (svc.jobs \ {j}) \union {Job(j.req, "clip")}
          /\ t.takeJobs = svc.takeJobs /\ t.initializing = i
          /\ t.prep = svc.prep /\ t.machine = svc.machine /\ t.broken = b
          /\ t.closing = svc.closing /\ t.borrower = w
      BY <1>4, <2>1 DEF Spawn, Job, Fields, SameQueues
    <2>4. /\ DOMAIN u = Fields /\ SameQueues(svc, u) /\ u.jobs = svc.jobs \ {j}
          /\ u.takeJobs = SaturatingLess(svc.takeJobs) /\ u.initializing = i
          /\ u.prep = svc.prep /\ u.machine = svc.machine /\ u.broken = b
          /\ u.closing = svc.closing /\ u.borrower = w
      BY <1>4, <2>1 DEF Fields, SameQueues
    <2>5. ~b => /\ SaturatingLess(svc.takeJobs) = Less(svc.takeJobs)
                /\ svc.takeJobs = SaturatingLess(svc.takeJobs) + 1
      BY <1>6, <2>2 DEF SaturatingLess, Less
    <2>6. Drops(svc, u, j)
      BY <1>5, <1>6, <1>7, <1>9, <2>4, <2>5, AtEnd DEF Drops
    <2>7. Adds(u, t, j.req, "clip")
      <3>1. /\ "clip" \in TakeKinds /\ "clip" \notin Binders /\ "clip" \notin PrepKinds
            /\ "clip" \notin MachineKinds
        BY DEF TakeKinds, Binders, PrepKinds, MachineKinds
      <3>2. \/ t.takeJobs = u.takeJobs + 1
            \/ u.broken /\ t.takeJobs \in 0..MaxUsize
        BY <1>6, <2>3, <2>4, <2>5, AtEnd
      <3>3. QED BY <2>3, <2>4, <3>1, <3>2 DEF Adds, SameQueues
    <2>8. HasRoom(u, "clip")
      <3>1. SaturatingLess(svc.takeJobs) < MaxUsize
        BY AtEnd, UsizeFacts DEF SaturatingLess
      <3>2. QED BY <2>4, <3>1 DEF HasRoom, Ordinaries, Exclusive, PrepKinds
    <2>9. svc' = Settle(t)
      BY <1>5, <1>12, <2>1
    <2>10. QED BY <1>5, <1>9, <2>6, <2>7, <2>8, <2>9, JobGoesOn DEF JobKinds
  <1>13. QED BY <1>11, <1>12

-----------------------------------------------------------------------------
(* The specification.                                                      *)

\* Every step of the actor.
LEMMA ServiceNextKeeps ==
  ASSUME IInv, ServiceNext
  PROVE  IInv'
  <1>1. CASE \E kind \in Kinds : Call(kind)
    BY <1>1, CallKeeps
  <1>2. CASE (\E r \in 1..MaxReqs : CancelCall(r)) \/ TakeEndsAlone \/ SupervisorLost \/ Stopping
    BY <1>2, OutsideKeeps
  <1>3. CASE \E late \in BOOLEAN : TakeNext(late)
    BY <1>3, TakeNextKeeps
  <1>4. ASSUME NEW j \in svc.jobs, JobStep(j) PROVE IInv'
    <2>1. CASE \E worse \in BOOLEAN : SideJobEnds(j, worse)
      BY <2>1, SideJobEndsKeeps
    <2>2. CASE \E unsure, worse \in BOOLEAN : EffectEnds(j, unsure, worse)
      BY <2>2, EffectEndsKeeps
    <2>3. CASE \E ready, late \in BOOLEAN : PlanEnds(j, ready, late)
      BY <2>3, PlanEndsKeeps
    <2>4. CASE \E bound, running \in BOOLEAN : InitEnds(j, bound, running)
      BY <2>4, InitEndsKeeps
    <2>5. CASE (\E running \in BOOLEAN : TakeCallEnds(j, running)) \/ ClipEnds(j)
      BY <2>5, CallEndsKeeps
    <2>6. CASE \E bound, admitted, worse \in BOOLEAN : ClipReadyEnds(j, bound, admitted, worse)
      BY <2>6, ClipReadyEndsKeeps
    <2>7. CASE \E joined \in BOOLEAN : RetireEnds(j, joined)
      BY <2>7, RetireEndsKeeps
    <2>8. QED BY <1>4, <2>1, <2>2, <2>3, <2>4, <2>5, <2>6, <2>7 DEF JobStep
  <1>5. CASE \E j \in svc.jobs : WorkerFails(j)
    BY <1>5, WorkerFailsKeeps
  <1>6. QED BY <1>1, <1>2, <1>3, <1>4, <1>5 DEF ServiceNext

\* Every step of the serving side; the other parts leave the actor alone.
LEMMA StepKeeps ==
  ASSUME IInv, [Next]_allVars
  PROVE  IInv'
  <1>1. ServiceNext \/ UNCHANGED serviceVars
    BY DEF Next, HostOnly, PipeOnly, WebOnly, allVars
  <1>2. CASE UNCHANGED serviceVars
    BY <1>2 DEF serviceVars, IInv
  <1>3. QED BY <1>1, <1>2, ServiceNextKeeps

\* Nothing waits or runs at the beginning.
LEMMA InitKeeps ==
  ASSUME Init
  PROVE  IInv
  <1>1. reqs = <<>> /\ ServiceInit
    BY DEF Init, ServiceInit
  <1>2. /\ DOMAIN svc = Fields /\ svc.inbox = <<>> /\ svc.waitG = <<>> /\ svc.waitS = <<>>
        /\ svc.jobs = {} /\ svc.takeJobs = 0 /\ svc.initializing = FALSE
        /\ svc.borrower = "none" /\ svc.prep = "here" /\ svc.machine = "here"
        /\ svc.broken = FALSE /\ svc.closing = FALSE
    BY <1>1 DEF ServiceInit, Fields
  <1>3. reqs \in Seq(Kinds) /\ Len(reqs) = 0 /\ Len(reqs) <= MaxReqs
    BY <1>1, ServiceAssumption
  <1>4. Well(svc)
    <2>1. 0 \in 0..MaxUsize
      BY UsizeFacts
    <2>2. IsFiniteSet({}) /\ {} \subseteq JobRecords
      BY FS_EmptySet
    <2>3. QED BY <1>2, <2>1, <2>2 DEF Well
  <1>5. Placed(svc, 0)
    <2>1. /\ Queue(<<>>, 0, ChannelCap) /\ Queue(<<>>, 0, GenericCap) /\ Queue(<<>>, 0, SafetyCap)
          /\ Range(<<>>) = {}
      BY EmptyQueue, ServiceAssumption
    <2>2. QED BY <1>2, <2>1 DEF Placed
  <1>6. Counted(svc)
    <2>1. Of(svc, TakeKinds) = {}
      BY <1>2 DEF Of
    <2>2. QED BY <1>2, <2>1, FS_EmptySet DEF Counted
  <1>7. Alone(svc) /\ LentToOne(svc.jobs, PrepKinds, svc.prep)
        /\ LentToOne(svc.jobs, MachineKinds, svc.machine)
    BY <1>2 DEF Alone, LentToOne
  <1>8. QED BY <1>3, <1>4, <1>5, <1>6, <1>7 DEF IInv, SInv

\* What the invariant says of the types.
LEMMA TypesFollow ==
  ASSUME IInv
  PROVE  ServiceTypeOK
  <1>1. PICK n : n = Len(reqs) /\ n \in Nat
    BY LenProperties DEF IInv
  <1>2. /\ SInv(svc, n) /\ reqs \in Seq(Kinds) /\ n <= MaxReqs /\ MaxReqs \in Nat
    BY <1>1, ServiceAssumption DEF IInv
  <1>3. /\ Queue(svc.inbox, n, ChannelCap) /\ Queue(svc.waitG, n, GenericCap)
        /\ Queue(svc.waitS, n, SafetyCap) /\ \A j \in svc.jobs : j.req \in 0..n
    BY <1>2 DEF SInv, Placed
  <1>4. ASSUME NEW q, NEW cap, Queue(q, n, cap) PROVE Range(q) \subseteq 1..n
    <2>1. q \in Seq(1..n) /\ DOMAIN q = 1..Len(q)
      BY <1>4, LenProperties DEF Queue
    <2>2. QED BY <2>1, ElementOfSeq DEF Range
  <1>5. \A q \in {svc.inbox, svc.waitG, svc.waitS} : Range(q) \subseteq 1..n
    BY <1>3, <1>4
  <1>6. ASSUME NEW j \in svc.jobs
        PROVE  j \in [req : 0..MaxReqs, kind : {"safety", "snapshot", "media", "read",
                   "generic", "replay", "stage", "tracked", "preparation", "plan", "apply", "init",
                   "takecall", "clipinit", "clipready", "clip", "retire"}]
    <2>1. j \in JobRecords /\ j.req \in 0..MaxReqs
      BY <1>1, <1>2, <1>3, AtEnd
    <2>2. QED BY <2>1 DEF JobRecords, JobKinds, SideKinds
  <1>7. /\ Len(svc.inbox) <= ChannelCap /\ Len(svc.waitG) <= GenericCap
        /\ Len(svc.waitS) <= SafetyCap
    BY <1>3 DEF Queue
  <1>8. /\ svc.takeJobs \in 0..MaxUsize /\ svc.borrower \in {"none", "idle", "take"}
        /\ {svc.prep, svc.machine} \subseteq {"here", "lent", "lost"}
    BY AtEnd
  <1>9. QED BY <1>1, <1>2, <1>5, <1>6, <1>7, <1>8 DEF ServiceTypeOK

\* What the invariant says of writers and owners.
LEMMA NoOverlap ==
  ASSUME IInv
  PROVE  WritersDoNotOverlap
  <1>1. /\ Alone(svc) /\ LentToOne(svc.jobs, PrepKinds, svc.prep)
        /\ LentToOne(svc.jobs, MachineKinds, svc.machine)
    BY DEF IInv, SInv
  <1>2. Cardinality({j \in svc.jobs : j.kind \in Ordinaries}) <= 1
    <2>1. PICK S : S = {j \in svc.jobs : j.kind \in Ordinaries}
      OBVIOUS
    <2>2. \A x, y \in S : x = y
      BY <1>1, <2>1 DEF Alone
    <2>3. QED BY <2>1, <2>2, AtMostOne
  <1>3. \A j \in svc.jobs :
           j.kind \in {"tracked", "preparation", "replay", "init", "clipinit"}
               => svc.borrower = "none"
    BY <1>1 DEF Alone, Exclusive
  <1>4. Cardinality(Holders("prep")) = IF svc.prep = "lent" THEN 1 ELSE 0
    <2>1. PICK S : S = Holders("prep")
      OBVIOUS
    <2>2. S = {j \in svc.jobs : j.kind \in PrepKinds}
      BY <2>1 DEF Holders, PrepKinds
    <2>3. \A x, y \in S : x = y
      BY <1>1, <2>2 DEF LentToOne
    <2>4. svc.prep = "lent" <=> S # {}
      BY <1>1, <2>2 DEF LentToOne
    <2>5. QED BY <2>1, <2>3, <2>4, AtMostOne
  <1>5. Cardinality(Holders("machine")) = IF svc.machine = "lent" THEN 1 ELSE 0
    <2>1. PICK S : S = Holders("machine")
      OBVIOUS
    <2>2. S = {j \in svc.jobs : j.kind \in MachineKinds}
      BY <2>1 DEF Holders, MachineKinds
    <2>3. \A x, y \in S : x = y
      BY <1>1, <2>2 DEF LentToOne
    <2>4. svc.machine = "lent" <=> S # {}
      BY <1>1, <2>2 DEF LentToOne
    <2>5. QED BY <2>1, <2>3, <2>4, AtMostOne
  <1>6. QED BY <1>2, <1>3, <1>4, <1>5 DEF WritersDoNotOverlap

-----------------------------------------------------------------------------
(* The inductive invariant of the actor holds in every state of the serving  *)
(* side: a request is in one place, the counter of calls to the supervisor   *)
(* is right while no task has failed, ordinary effects are alone and owners  *)
(* are lent to one job.                                                      *)
THEOREM ServiceInvariance == Spec => []IInv
  <1>1. Init => IInv
    BY InitKeeps
  <1>2. IInv /\ [Next]_allVars => IInv'
    BY StepKeeps
  <1>3. QED BY <1>1, <1>2, PTL DEF Spec

(* The actor's state is well formed and its queues stay within their bounds  *)
(* (service.rs: the channel, the queue of generic calls, the queue of safety *)
(* stops), for every capacity and every number of requests.                  *)
THEOREM ServiceTypeCorrect == Spec => []ServiceTypeOK
  <1>1. IInv => ServiceTypeOK
    BY TypesFollow
  <1>2. QED BY <1>1, ServiceInvariance, PTL

(* Writers do not overlap (service.rs: the guards of the commands and the    *)
(* ends of the jobs), for every capacity and every number of requests and    *)
(* failed tasks: at most one ordinary effect is under way, one that takes    *)
(* the receipts for itself has no supervisor beside it, and each owner is    *)
(* held by exactly one job or is back or lost.                               *)
THEOREM WritersAlone == Spec => []WritersDoNotOverlap
  <1>1. IInv => WritersDoNotOverlap
    BY NoOverlap
  <1>2. QED BY <1>1, ServiceInvariance, PTL

=============================================================================
