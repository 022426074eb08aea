----------------------------- MODULE HostProofs -----------------------------
(***************************************************************************)
(* Machine-checked proofs about the host (modules Host and Control, as     *)
(* part of Serving), for any number of frontends, calls, request           *)
(* identities, continuations, places and connection attempts.              *)
(*                                                                         *)
(* That consent is spent once rests on what a continuation stands for      *)
(* (Asking) and on used answers being gone (Spending).  That responses are *)
(* exact and stops are refused only by stops rests on what an exchange     *)
(* owes at each of its stages (Owing), on what cannot happen while         *)
(* dispatch holds a turn (Holding) and on the session's one frontend       *)
(* (Home).                                                                 *)
(***************************************************************************)
EXTENDS Serving, SequenceTheorems, FiniteSetTheorems, WellFoundedInduction, TLAPS

-----------------------------------------------------------------------------
(* The inductive invariant.                                                *)

CallRecords ==
    [front : FrontendIds, wire : Nat, tool : STRING, args : Nat, caller : Everyone,
     elicit : BOOLEAN, confirm : BOOLEAN,
     pc : {"new", "asked", "resolving", "calling", "done", "over"}, reserved : Place,
     permit : {"none", "ordinary", "take", "safety"}, attempt : Nat, cancelled : BOOLEAN,
     replies : Nat, why : {"none", "refused", "capacity", "closed"}]
Triples == STRING \X Nat \X Everyone
AskRecords ==
    [token : Nat, call : Nat, front : FrontendIds, wire : Nat, binding : Triples]
RanRecords ==
    [call : Nat, token : Nat, tool : STRING, what : Triples, answer : Answers,
     held : BOOLEAN, flag : BOOLEAN]
RuntimeRecords ==
    [attempt : Nat, outcome : {"none", "ready", "failed", "unjoined"}, owner : BOOLEAN,
     broken : BOOLEAN, cleanup : BOOLEAN]
TurnRecords == [pc : {"idle", "dispatch"}, call : Nat]

\* The shape of the state.
Shape ==
    /\ script \in Scripts /\ era = script.era /\ phase \in {"open", "closing", "down"}
    /\ fronts \in [FrontendIds -> {"new", "open", "departed", "gone"}]
    /\ ingress \in [StopClasses -> FrontendIds \union {0}]
    /\ calls \in Seq(CallRecords) /\ turn \in TurnRecords
    /\ asks \subseteq AskRecords /\ IsFiniteSet(asks) /\ Cardinality(asks) <= AskCap
    /\ attempts \in Seq({"pending", "ready", "failed"})
    /\ runtime \in RuntimeRecords /\ runtime.attempt \in 0..Len(attempts)
    /\ ran \in Seq(RanRecords)

\* What every exchange owes: no response before its end, no cancellation
\* before it is retained, and a reserved place or permit only of its own class.
CallOK(c) ==
    /\ c.pc # "over" => c.replies = 0
    /\ c.pc \in {"new", "asked"} => ~c.cancelled
    /\ c.reserved \in StopClasses => ClassOf(c.tool) = c.reserved
    /\ c.permit \in StopClasses => ClassOf(c.tool) = c.permit
Owing == \A n \in 1..Len(calls) : CallOK(calls[n]) /\ calls[n].attempt <= Len(attempts)

\* A continuation stands for the exchange whose number is its token; on a
\* session that exchange still waits for it.
Asking ==
    \A a \in asks :
        /\ a.token = a.call /\ a.call \in 1..Len(calls)
        /\ a.front = calls[a.call].front /\ a.wire = calls[a.call].wire
        /\ a.binding = Binding(calls[a.call])
        /\ era = "legacy" => calls[a.call].pc = "asked"

\* An answer that was used is gone: no continuation has its token.
Spending ==
    \A i \in 1..Len(ran) :
        /\ ran[i].token \in 0..Len(calls)
        /\ \A a \in asks : a.token # ran[i].token

\* The invocation that dispatch holds has not begun, nobody can answer for it
\* again, and no retained exchange has its identity.
Holding ==
    IF turn.pc = "idle" THEN turn = Idle
    ELSE /\ turn.call \in 1..Len(calls) /\ phase = "open"
         /\ calls[turn.call].pc \in {"new", "asked"}
         /\ \A a \in asks : a.call # turn.call
         /\ \A n \in Entries : calls[n].front = calls[turn.call].front
                               => calls[n].wire # calls[turn.call].wire

\* The one frontend of a session stays until the server stops.
Home == era = "legacy" /\ phase = "open" =>
            \A n \in 1..Len(calls) : fronts[calls[n].front] = "open"

IInv == Shape /\ Owing /\ Asking /\ Spending /\ ConsentIsSpentOnce /\ Holding /\ Home

-----------------------------------------------------------------------------
(* Sequences and records.                                                  *)

\* A function on 1..n is a sequence of length n.
LEMMA FunctionIsSeq ==
  ASSUME NEW S, NEW n \in Nat, NEW f \in [1..n -> S]
  PROVE  f \in Seq(S) /\ Len(f) = n
  OBVIOUS

\* One element of a sequence is replaced.
LEMMA Replaced ==
  ASSUME NEW S, NEW s \in Seq(S), NEW i \in 1..Len(s), NEW e \in S, NEW t,
         t = [s EXCEPT ![i] = e]
  PROVE  /\ t \in Seq(S) /\ Len(t) = Len(s) /\ t[i] = e
         /\ \A j \in 1..Len(s) : j # i => t[j] = s[j]
  BY ExceptSeq

\* One element is appended.
LEMMA Appended ==
  ASSUME NEW S, NEW s \in Seq(S), NEW e \in S, NEW t, t = Append(s, e)
  PROVE  /\ t \in Seq(S) /\ Len(t) = Len(s) + 1 /\ t[Len(s) + 1] = e
         /\ Len(s) \in Nat /\ \A j \in 1..Len(s) : t[j] = s[j]
  BY AppendProperties, LenProperties

\* The exchange is the same: who asked for what, and under which identity.
Alike(c, d) ==
    /\ d.front = c.front /\ d.wire = c.wire
    /\ d.tool = c.tool /\ d.args = c.args /\ d.caller = c.caller
RetainedPcs == {"resolving", "calling", "done"}

\* A response (Replied) ends an exchange that owes one.
LEMMA RepliedIs ==
  ASSUME NEW c \in CallRecords, NEW d, d = Replied(c)
  PROVE  /\ d \in CallRecords /\ Alike(c, d) /\ (CallOK(c) => CallOK(d))
         /\ d.pc = "over" /\ d.replies = c.replies + 1 /\ d.why = c.why
         /\ d.attempt = c.attempt
  <1>1. PICK k : k = c.replies + 1
    OBVIOUS
  <1>2. c.replies \in Nat /\ k \in Nat
    BY <1>1 DEF CallRecords
  <1>3. d = [c EXCEPT !.pc = "over", !.replies = k]
    BY <1>1 DEF Replied
  <1>4. /\ d \in CallRecords /\ Alike(c, d) /\ (CallOK(c) => CallOK(d))
        /\ d.pc = "over" /\ d.replies = k /\ d.why = c.why /\ d.attempt = c.attempt
    BY <1>2, <1>3 DEF CallRecords, Alike, CallOK
  <1>5. QED BY <1>1, <1>4

Refusal(c, why) == [Replied(c) EXCEPT !.why = why]

\* A response that refuses says why.
LEMMA RefusedIs ==
  ASSUME NEW c \in CallRecords, NEW why \in {"none", "refused", "capacity", "closed"},
         NEW d, d = Refusal(c, why)
  PROVE  /\ d \in CallRecords /\ Alike(c, d) /\ (CallOK(c) => CallOK(d))
         /\ d.pc = "over" /\ d.replies = c.replies + 1 /\ d.why = why
         /\ d.attempt = c.attempt
  <1>1. PICK e : e = Replied(c)
    OBVIOUS
  <1>2. d = [e EXCEPT !.why = why]
    BY <1>1 DEF Refusal
  <1>3. /\ e \in CallRecords /\ Alike(c, e) /\ (CallOK(c) => CallOK(e))
        /\ e.pc = "over" /\ e.replies = c.replies + 1 /\ e.attempt = c.attempt
    BY <1>1, RepliedIs
  <1>4. QED BY <1>2, <1>3 DEF CallRecords, Alike, CallOK

-----------------------------------------------------------------------------
(* What an action has to respect.                                          *)

\* RepliesAreExact and StopRefusedOnlyByStop, of one step.
ExactStep ==
    \A n \in 1..Len(calls) :
        LET c == calls[n] IN
        calls'[n].replies # c.replies =>
            /\ calls'[n].replies = 1 /\ ~c.cancelled
            /\ fronts[c.front] = "open" /\ phase = "open"
RefusalStep ==
    \A n \in 1..Len(calls') :
        LET class == ClassOf(calls'[n].tool) IN
        /\ class \in StopClasses
        /\ calls'[n].why = "capacity"
        /\ n > Len(calls) \/ calls[n].why # "capacity"
        => \E m \in Entries : /\ ClassOf(calls[m].tool) = class
                              /\ class \in {calls[m].reserved, calls[m].permit}
Good == IInv' /\ ExactStep /\ RefusalStep

\* The surroundings of the exchanges move as they may: nothing reopens, dispatch
\* is not overtaken by a shutdown, a session keeps its frontend.
Around ==
    /\ UNCHANGED <<script, era>>
    /\ phase' \in {"open", "closing", "down"}
    /\ phase' = "open" => phase = "open"
    /\ turn.pc = "dispatch" /\ turn' = turn => phase' = phase
    /\ fronts' \in [FrontendIds -> {"new", "open", "departed", "gone"}]
    /\ era = "legacy" /\ phase' = "open" =>
           \A f \in FrontendIds : fronts[f] = "open" => fronts'[f] = "open"
    /\ ingress' \in [StopClasses -> FrontendIds \union {0}]
    /\ attempts' \in Seq({"pending", "ready", "failed"}) /\ Len(attempts) <= Len(attempts')
    /\ runtime' \in RuntimeRecords /\ runtime'.attempt \in 0..Len(attempts')

\* Exchanges go on: each stays what it is and owes what it should.
Onward ==
    /\ calls' \in Seq(CallRecords) /\ Len(calls') = Len(calls)
    /\ \A n \in 1..Len(calls) : /\ Alike(calls[n], calls'[n]) /\ CallOK(calls'[n])
                                /\ calls'[n].attempt <= Len(attempts')
    /\ asks' \subseteq asks
    /\ era = "legacy" => \A a \in asks' : calls'[a.call].pc = calls[a.call].pc
    /\ ran' = ran
    /\ \/ turn' = Idle
       \/ /\ turn' = turn
          /\ turn.pc = "dispatch" => calls'[turn.call].pc = calls[turn.call].pc
          /\ \A n \in 1..Len(calls) : calls'[n].pc \in RetainedPcs => calls[n].pc \in RetainedPcs
Quiet ==
    \A n \in 1..Len(calls) : calls'[n].replies = calls[n].replies /\ calls'[n].why = calls[n].why

\* Nobody is answered or refused in a quiet step.
LEMMA QuietSteps ==
  ASSUME IInv, Onward, Quiet
  PROVE  ExactStep /\ RefusalStep
  <1>1. Len(calls) \in Nat
    BY LenProperties DEF IInv, Shape
  <1>2. QED BY <1>1 DEF Onward, Quiet, ExactStep, RefusalStep

\* The invariant is kept by a step in which exchanges only go on.
LEMMA Moves ==
  ASSUME IInv, Around, Onward
  PROVE  IInv'
  <1>1. /\ calls \in Seq(CallRecords) /\ Len(calls) \in Nat
        /\ \A n \in 1..Len(calls) : calls[n] \in CallRecords /\ calls'[n] \in CallRecords
    BY ElementOfSeq, LenProperties DEF IInv, Shape, Onward
  <1>2. Shape'
    <2>1. asks' \subseteq AskRecords /\ IsFiniteSet(asks') /\ Cardinality(asks') <= AskCap
      <3>1. IsFiniteSet(asks') /\ Cardinality(asks') <= Cardinality(asks)
        BY FS_Subset DEF IInv, Shape, Onward
      <3>2. Cardinality(asks) \in Nat /\ Cardinality(asks') \in Nat /\ AskCap \in Nat
        BY <3>1, FS_CardinalityType, HostAssumption DEF IInv, Shape
      <3>3. QED BY <3>1, <3>2 DEF IInv, Shape, Onward
    <2>2. turn' \in TurnRecords
      BY DEF IInv, Shape, Onward, TurnRecords, Idle
    <2>3. QED BY <2>1, <2>2 DEF IInv, Shape, Onward, Around
  <1>3. Owing'
    BY <1>1 DEF Owing, Onward
  <1>4. Asking'
    BY <1>1 DEF IInv, Asking, Onward, Around, Alike, Binding
  <1>5. Spending'
    BY <1>1 DEF IInv, Spending, Onward
  <1>6. ConsentIsSpentOnce'
    <2>1. \A i \in 1..Len(ran) : ran[i].token # 0 => ran[i].token \in 1..Len(calls)
      BY <1>1 DEF IInv, Spending
    <2>2. ASSUME NEW i \in 1..Len(ran), ran[i].token # 0
          PROVE  LET asked == calls[ran[i].token]
                     later == calls'[ran[i].token]
                 IN <<asked.tool, asked.args, asked.caller>>
                    = <<later.tool, later.args, later.caller>>
      BY <2>1, <2>2 DEF Onward, Alike
    <2>3. QED BY <2>2 DEF IInv, ConsentIsSpentOnce, Onward
  <1>7. Holding'
    <2>1. CASE turn' = Idle
      BY <2>1 DEF Holding, Idle
    <2>2. CASE turn' # Idle
      <3>1. turn' = turn /\ turn.pc = "dispatch"
        BY <2>2 DEF Onward, IInv, Holding, Shape, TurnRecords
      <3>2. \A n \in 1..Len(calls) : n \in Entries' => n \in Entries
        BY <2>2 DEF Onward, Entries, Retained, RetainedPcs
      <3>3. Entries' \subseteq 1..Len(calls)
        BY DEF Entries, Onward
      <3>4. /\ turn.call \in 1..Len(calls) /\ phase = "open" /\ phase' = "open"
            /\ calls[turn.call].pc \in {"new", "asked"}
            /\ calls'[turn.call].pc = calls[turn.call].pc
            /\ \A a \in asks' : a.call # turn.call
            /\ \A n \in Entries : calls[n].front = calls[turn.call].front
                                  => calls[n].wire # calls[turn.call].wire
        BY <2>2, <3>1, Zenon DEF IInv, Holding, Onward, Around
      <3>5. \A n \in 1..Len(calls) : /\ calls'[n].front = calls[n].front
                                    /\ calls'[n].wire = calls[n].wire
        BY DEF Onward, Alike
      <3>6. Len(calls') = Len(calls)
        BY DEF Onward
      <3>7. QED BY ONLY <3>1, <3>2, <3>3, <3>4, <3>5, <3>6 DEF Holding
    <2>3. QED BY <2>1, <2>2
  <1>8. Home'
    <2>1. \A n \in 1..Len(calls) : /\ calls'[n].front = calls[n].front
                                  /\ calls[n].front \in FrontendIds
      BY <1>1 DEF Onward, Alike, CallRecords
    <2>2. /\ Len(calls') = Len(calls) /\ era' = era /\ (phase' = "open" => phase = "open")
          /\ era = "legacy" /\ phase' = "open" =>
                 \A f \in FrontendIds : fronts[f] = "open" => fronts'[f] = "open"
      BY DEF Onward, Around
    <2>3. Home
      BY DEF IInv
    <2>4. QED BY ONLY <2>1, <2>2, <2>3 DEF Home
  <1>9. QED BY <1>2, <1>3, <1>4, <1>5, <1>6, <1>7, <1>8 DEF IInv

\* The surroundings stand still.
LEMMA AroundStands ==
  ASSUME IInv, UNCHANGED <<script, era, fronts, ingress, attempts, runtime, phase>>
  PROVE  Around
  <1>1. Len(attempts) \in Nat
    BY LenProperties DEF IInv, Shape
  <1>2. QED BY <1>1 DEF IInv, Shape, Around

\* The exchanges stand still, or one that is not an exchange in dispatch.
LEMMA CallsStand ==
  ASSUME IInv, Around, UNCHANGED <<calls, turn, asks, ran>>
  PROVE  Good
  <1>1. /\ calls \in Seq(CallRecords) /\ Len(calls) \in Nat
        /\ Len(attempts) \in Nat /\ Len(attempts') \in Nat
        /\ \A n \in 1..Len(calls) : calls[n] \in CallRecords
    BY ElementOfSeq, LenProperties DEF IInv, Shape, Around
  <1>2. \A n \in 1..Len(calls) : calls[n].attempt \in Nat
    BY <1>1 DEF CallRecords
  <1>3. Onward /\ Quiet
    BY <1>1, <1>2 DEF Onward, Quiet, Around, IInv, Owing, Alike
  <1>4. QED BY <1>3, Moves, QuietSteps DEF Good

\* The move of one exchange that is not in dispatch.
LEMMA OneMoves ==
  ASSUME IInv, NEW n \in 1..Len(calls), NEW d \in CallRecords,
         UNCHANGED <<script, era, fronts, ingress, turn, asks, attempts, runtime, phase, ran>>,
         calls' = [calls EXCEPT ![n] = d],
         Alike(calls[n], d), CallOK(d), d.attempt = calls[n].attempt,
         calls[n].pc \in RetainedPcs
  PROVE  /\ IInv' /\ calls'[n] = d /\ Len(calls') = Len(calls)
         /\ \A m \in 1..Len(calls) : m # n => calls'[m] = calls[m]
  <1>1. /\ calls \in Seq(CallRecords) /\ Len(calls) \in Nat
        /\ Len(attempts) \in Nat
        /\ \A m \in 1..Len(calls) : calls[m] \in CallRecords
    BY ElementOfSeq, LenProperties DEF IInv, Shape
  <1>2. /\ calls' \in Seq(CallRecords) /\ Len(calls') = Len(calls) /\ calls'[n] = d
        /\ \A m \in 1..Len(calls) : m # n => calls'[m] = calls[m]
    BY <1>1, Replaced
  <1>3. Around
    BY AroundStands
  <1>4. \A m \in 1..Len(calls) : CallOK(calls[m]) /\ calls[m].attempt <= Len(attempts)
    BY DEF IInv, Owing
  <1>5. \A m \in 1..Len(calls) : /\ Alike(calls[m], calls'[m]) /\ CallOK(calls'[m])
                                 /\ calls'[m].attempt <= Len(attempts')
    <2> TAKE m \in 1..Len(calls)
    <2>1. CASE m = n
      BY <2>1, <1>2, <1>4
    <2>2. CASE m # n
      BY <2>2, <1>2, <1>4 DEF Alike
    <2>3. QED BY <2>1, <2>2
  <1>6. era = "legacy" => \A a \in asks : a.call \in 1..Len(calls) /\ a.call # n
    BY DEF IInv, Asking, RetainedPcs
  <1>7. turn.pc = "dispatch" => turn.call \in 1..Len(calls) /\ turn.call # n
    BY DEF IInv, Holding, RetainedPcs
  <1>8. \A m \in 1..Len(calls) : calls'[m].pc \in RetainedPcs => calls[m].pc \in RetainedPcs
    BY <1>2
  <1>9. Onward
    BY <1>2, <1>5, <1>6, <1>7, <1>8 DEF Onward
  <1>10. QED BY <1>2, <1>3, <1>9, Moves

\* The step of one exchange that gives no response and no refusal.
LEMMA OneMovesQuietly ==
  ASSUME IInv, NEW n \in 1..Len(calls), NEW d \in CallRecords,
         UNCHANGED <<script, era, fronts, ingress, turn, asks, attempts, runtime, phase, ran>>,
         calls' = [calls EXCEPT ![n] = d],
         Alike(calls[n], d), CallOK(d), d.attempt = calls[n].attempt,
         calls[n].pc \in RetainedPcs, d.replies = calls[n].replies, d.why = calls[n].why
  PROVE  Good
  <1>1. /\ IInv' /\ calls'[n] = d /\ Len(calls') = Len(calls)
        /\ \A m \in 1..Len(calls) : m # n => calls'[m] = calls[m]
    BY OneMoves
  <1>2. Len(calls) \in Nat
    BY LenProperties DEF IInv, Shape
  <1>3. \A m \in 1..Len(calls) : calls'[m].replies = calls[m].replies /\ calls'[m].why = calls[m].why
    BY <1>1
  <1>4. QED BY <1>1, <1>2, <1>3 DEF Good, ExactStep, RefusalStep

-----------------------------------------------------------------------------
(* Frontends.                                                              *)

\* Among the identities of frontends that are new there is a first one.
LEMMA FirstFresh ==
  ASSUME NEW T, T \subseteq FrontendIds, T # {}
  PROVE  (CHOOSE f \in T : \A g \in T : f <= g) \in T
  <1>1. FrontendIds \subseteq Nat
    BY HostAssumption
  <1>2. PICK f \in T : \A g \in T : ~(<<g, f>> \in OpToRel(<, Nat))
    BY <1>1, NatLessThanWellFounded, WFMin
  <1>3. \A g \in T : ~(g < f)
    BY <1>1, <1>2 DEF OpToRel
  <1>4. \A g \in T : f <= g
    BY <1>1, <1>3
  <1>5. QED BY <1>4

\* frontend_for lets a frontend in, or only reaps.
LEMMA ConnectKeeps ==
  ASSUME IInv, NEW class \in {"ordinary", "take", "safety"}, Connect(class)
  PROVE  Good
  <1> DEFINE swept == [f \in FrontendIds |-> IF Reaped(f) THEN "gone" ELSE fronts[f]]
             held == [c \in StopClasses |->
                        IF ingress[c] # 0 /\ swept[ingress[c]] = "gone" THEN 0 ELSE ingress[c]]
             fresh == {f \in FrontendIds : fronts[f] = "new"}
             id == CHOOSE f \in fresh : \A g \in fresh : f <= g
  <1>1. /\ UNCHANGED <<script, era, calls, turn, asks, attempts, runtime, phase, ran>>
        /\ phase = "open" /\ turn = Idle
        /\ fresh # {} /\ (era = "legacy" => \A f \in FrontendIds : fronts[f] = "new")
    BY DEF Connect
  <1>2. \/ fronts' = swept /\ ingress' = held
        \/ /\ fronts' = [swept EXCEPT ![id] = "open"]
           /\ \/ ingress' = held
              \/ ingress' = [held EXCEPT ![class] = id] /\ class \in StopClasses
    <2>1. class \notin StopClasses => class = "ordinary"
      BY DEF StopClasses
    <2>2. QED BY <2>1 DEF Connect
  <1>3. id \in FrontendIds
    BY <1>1, FirstFresh
  <1>4. swept \in [FrontendIds -> {"new", "open", "departed", "gone"}]
        /\ held \in [StopClasses -> FrontendIds \union {0}]
    BY DEF IInv, Shape
  <1>5. \A f \in FrontendIds : era = "legacy" => fronts[f] # "open"
    BY <1>1
  <1> HIDE DEF swept, held, id, fresh
  <1>6. /\ fronts' \in [FrontendIds -> {"new", "open", "departed", "gone"}]
        /\ ingress' \in [StopClasses -> FrontendIds \union {0}]
    BY <1>2, <1>3, <1>4
  <1>7. Len(attempts) \in Nat
    BY LenProperties DEF IInv, Shape
  <1>8. Around
    BY <1>1, <1>5, <1>6, <1>7 DEF Around, IInv, Shape
  <1>9. QED BY <1>1, <1>8, CallsStand

\* A frontend leaves or is retired; its exchanges are untouched.
LEMMA FrontLeaves ==
  ASSUME IInv, NEW f \in FrontendIds, Depart(f) \/ RetireFrontend(f)
  PROVE  Good
  <1>1. /\ UNCHANGED <<script, era, ingress, calls, turn, asks, attempts, runtime, phase, ran>>
        /\ era = "modern"
        /\ \E s \in {"departed", "gone"} : fronts' = [fronts EXCEPT ![f] = s]
    BY DEF Depart, RetireFrontend
  <1>2. Len(attempts) \in Nat
    BY LenProperties DEF IInv, Shape
  <1>3. Around
    BY <1>1, <1>2 DEF Around, IInv, Shape
  <1>4. QED BY <1>1, <1>3, CallsStand

\* Cancelling retained exchanges changes nothing else about them.
LEMMA CancelFacts ==
  ASSUME NEW c \in CallRecords, CallOK(c), c.pc \in RetainedPcs, NEW d,
         d = [c EXCEPT !.cancelled = TRUE]
  PROVE  /\ d \in CallRecords /\ Alike(c, d) /\ CallOK(d) /\ d.pc = c.pc
         /\ d.replies = c.replies /\ d.why = c.why /\ d.attempt = c.attempt
  BY DEF CallRecords, Alike, CallOK, RetainedPcs

\* A step that takes some exchanges to another record, each within its rights.
LEMMA ManyMove ==
  ASSUME IInv, Around, UNCHANGED <<ran>>, turn = Idle, turn' = Idle,
         asks' \subseteq asks, NEW F,
         calls' = [n \in 1..Len(calls) |-> F[n]],
         \A n \in 1..Len(calls) :
             /\ F[n] \in CallRecords /\ Alike(calls[n], F[n]) /\ CallOK(F[n])
             /\ F[n].attempt = calls[n].attempt
             /\ F[n].replies = calls[n].replies /\ F[n].why = calls[n].why,
         era = "legacy" => \A a \in asks' : F[a.call].pc = calls[a.call].pc
  PROVE  Good
  <1>1. /\ Len(calls) \in Nat /\ Len(attempts) \in Nat /\ Len(attempts') \in Nat
        /\ Len(attempts) <= Len(attempts')
        /\ \A n \in 1..Len(calls) : calls[n] \in CallRecords
    BY ElementOfSeq, LenProperties DEF IInv, Shape, Around
  <1>2. calls' \in [1..Len(calls) -> CallRecords]
    OBVIOUS
  <1>3. calls' \in Seq(CallRecords) /\ Len(calls') = Len(calls)
    BY <1>1, <1>2, FunctionIsSeq
  <1>4. \A n \in 1..Len(calls) : calls'[n] = F[n]
    OBVIOUS
  <1>5. \A n \in 1..Len(calls) : calls[n].attempt \in Nat /\ calls[n].attempt <= Len(attempts)
    BY <1>1 DEF IInv, Owing, CallRecords
  <1>6. \A a \in asks' : a.call \in 1..Len(calls)
    BY DEF IInv, Asking
  <1>7. \A n \in 1..Len(calls) : calls'[n].attempt <= Len(attempts')
    BY <1>1, <1>4, <1>5
  <1>8. Onward /\ Quiet
    BY <1>3, <1>4, <1>6, <1>7 DEF Onward, Quiet
  <1>9. QED BY <1>8, Moves, QuietSteps DEF Good

\* Host::disconnect.
LEMMA DisconnectKeeps ==
  ASSUME IInv, NEW f \in FrontendIds, Disconnect(f)
  PROVE  Good
  <1> DEFINE ns == {n \in Entries : calls[n].front = f}
             F == [n \in 1..Len(calls) |->
                     IF n \in ns THEN [calls[n] EXCEPT !.cancelled = TRUE] ELSE calls[n]]
  <1>1. /\ UNCHANGED <<script, era, ingress, turn, asks, attempts, runtime, phase, ran>>
        /\ era = "modern" /\ turn = Idle /\ fronts' = [fronts EXCEPT ![f] = "gone"]
        /\ calls' = F
    BY DEF Disconnect, Cancelled
  <1>2. Len(attempts) \in Nat /\ Len(calls) \in Nat
        /\ \A n \in 1..Len(calls) : calls[n] \in CallRecords
    BY LenProperties, ElementOfSeq DEF IInv, Shape
  <1>3. Around
    BY <1>1, <1>2 DEF Around, IInv, Shape
  <1>4. ASSUME NEW n \in 1..Len(calls)
        PROVE  /\ F[n] \in CallRecords /\ Alike(calls[n], F[n]) /\ CallOK(F[n])
               /\ F[n].attempt = calls[n].attempt
               /\ F[n].replies = calls[n].replies /\ F[n].why = calls[n].why
    <2>1. CallOK(calls[n])
      BY DEF IInv, Owing
    <2>2. CASE n \in ns
      <3>1. F[n] = [calls[n] EXCEPT !.cancelled = TRUE] /\ calls[n].pc \in RetainedPcs
        BY <2>2 DEF Entries, Retained, RetainedPcs
      <3>2. QED BY <1>2, <2>1, <3>1, CancelFacts
    <2>3. CASE n \notin ns
      BY <1>2, <2>1, <2>3 DEF Alike
    <2>4. QED BY <2>2, <2>3
  <1>5. era # "legacy"
    BY <1>1
  <1>6. calls' = [n \in 1..Len(calls) |-> F[n]]
    BY <1>1
  <1> HIDE DEF F
  <1>7. QED BY <1>1, <1>3, <1>4, <1>5, <1>6, ManyMove DEF Idle

\* notifications/cancelled: what runs is cancelled; on a session, what is asked
\* about ends with its question.
LEMMA CancelRequestKeeps ==
  ASSUME IInv, NEW f \in FrontendIds, NEW w, CancelRequest(f, w)
  PROVE  Good
  <1> DEFINE asked == {a \in asks : a.front = f /\ a.wire = w}
             running == {n \in Entries : calls[n].front = f /\ calls[n].wire = w}
             ending(n) == era = "legacy" /\ \E a \in asked : a.call = n
             F == [n \in 1..Len(calls) |->
                     IF n \in running THEN [calls[n] EXCEPT !.cancelled = TRUE]
                     ELSE IF ending(n) THEN [calls[n] EXCEPT !.pc = "over", !.cancelled = TRUE]
                     ELSE calls[n]]
  <1>1. /\ UNCHANGED <<script, era, fronts, ingress, turn, attempts, runtime, phase, ran>>
        /\ turn = Idle /\ asks' = asks \ asked /\ calls' = F
    BY DEF CancelRequest
  <1>2. Len(attempts) \in Nat /\ Len(calls) \in Nat
        /\ \A n \in 1..Len(calls) : calls[n] \in CallRecords
    BY LenProperties, ElementOfSeq DEF IInv, Shape
  <1>3. Around
    BY <1>1, AroundStands
  <1>4. ASSUME NEW n \in 1..Len(calls)
        PROVE  /\ F[n] \in CallRecords /\ Alike(calls[n], F[n]) /\ CallOK(F[n])
               /\ F[n].attempt = calls[n].attempt
               /\ F[n].replies = calls[n].replies /\ F[n].why = calls[n].why
    <2>1. CallOK(calls[n])
      BY DEF IInv, Owing
    <2>2. CASE n \in running
      <3>1. F[n] = [calls[n] EXCEPT !.cancelled = TRUE] /\ calls[n].pc \in RetainedPcs
        BY <2>2 DEF Entries, Retained, RetainedPcs
      <3>2. QED BY <1>2, <2>1, <3>1, CancelFacts
    <2>3. CASE n \notin running /\ ending(n)
      <3>1. PICK c : c = calls[n]
        OBVIOUS
      <3>2. F[n] = [c EXCEPT !.pc = "over", !.cancelled = TRUE] /\ c \in CallRecords /\ CallOK(c)
        BY <1>2, <2>1, <2>3, <3>1
      <3> HIDE DEF F
      <3>3. QED BY <3>1, <3>2 DEF CallRecords, Alike, CallOK
    <2>4. CASE n \notin running /\ ~ending(n)
      BY <1>2, <2>1, <2>4 DEF Alike
    <2>5. QED BY <2>2, <2>3, <2>4
  <1>5. ASSUME era = "legacy", NEW a \in asks'
        PROVE  F[a.call].pc = calls[a.call].pc
    <2>1. a \in asks /\ a \notin asked
      BY <1>1
    <2>2. /\ a.call \in 1..Len(calls) /\ calls[a.call].pc = "asked"
          /\ a.front = calls[a.call].front /\ a.wire = calls[a.call].wire
          /\ a.front # f \/ a.wire # w
      BY <1>5, <2>1 DEF IInv, Asking
    <2>3. a.call \notin running
      BY <2>2 DEF Entries, Retained
    <2>4. ~ending(a.call)
      <3>1. SUFFICES ASSUME NEW b \in asked, b.call = a.call PROVE FALSE
        OBVIOUS
      <3>2. b.front = calls[b.call].front /\ b.wire = calls[b.call].wire
        BY DEF IInv, Asking
      <3>3. QED BY <2>2, <3>1, <3>2
    <2>5. F[a.call] = calls[a.call]
      BY <2>2, <2>3, <2>4
    <2>6. QED BY <2>5
  <1>6. calls' = [n \in 1..Len(calls) |-> F[n]] /\ asks' \subseteq asks
    BY <1>1
  <1> HIDE DEF F
  <1>7. QED BY <1>1, <1>3, <1>4, <1>5, <1>6, ManyMove DEF Idle

\* The stop signal: everything retained is cancelled, nothing is asked any more.
LEMMA HostStopsKeeps ==
  ASSUME IInv, HostStops
  PROVE  Good
  <1> DEFINE F == [n \in 1..Len(calls) |->
                     IF Retained(n) THEN [calls[n] EXCEPT !.cancelled = TRUE]
                     ELSE IF calls[n].pc = "asked" THEN [calls[n] EXCEPT !.pc = "over"]
                     ELSE calls[n]]
  <1>1. /\ UNCHANGED <<script, era, ingress, turn, attempts, runtime, ran>>
        /\ turn = Idle /\ asks' = {} /\ calls' = F /\ phase' = "closing"
        /\ fronts' = [f \in FrontendIds |-> IF fronts[f] = "new" THEN "new" ELSE "gone"]
    BY DEF HostStops
  <1>2. Len(attempts) \in Nat /\ Len(calls) \in Nat
        /\ \A n \in 1..Len(calls) : calls[n] \in CallRecords
    BY LenProperties, ElementOfSeq DEF IInv, Shape
  <1>3. Around
    BY <1>1, <1>2 DEF Around, IInv, Shape, Idle
  <1>4. ASSUME NEW n \in 1..Len(calls)
        PROVE  /\ F[n] \in CallRecords /\ Alike(calls[n], F[n]) /\ CallOK(F[n])
               /\ F[n].attempt = calls[n].attempt
               /\ F[n].replies = calls[n].replies /\ F[n].why = calls[n].why
    <2>1. CallOK(calls[n])
      BY DEF IInv, Owing
    <2>2. CASE Retained(n)
      <3>1. F[n] = [calls[n] EXCEPT !.cancelled = TRUE] /\ calls[n].pc \in RetainedPcs
        BY <2>2 DEF Retained, RetainedPcs
      <3>2. QED BY <1>2, <2>1, <3>1, CancelFacts
    <2>3. CASE ~Retained(n) /\ calls[n].pc = "asked"
      <3>1. PICK c : c = calls[n]
        OBVIOUS
      <3>2. F[n] = [c EXCEPT !.pc = "over"] /\ c \in CallRecords /\ CallOK(c)
        BY <1>2, <2>1, <2>3, <3>1
      <3> HIDE DEF F
      <3>3. QED BY <3>1, <3>2 DEF CallRecords, Alike, CallOK
    <2>4. CASE ~Retained(n) /\ calls[n].pc # "asked"
      BY <1>2, <2>1, <2>4 DEF Alike
    <2>5. QED BY <2>2, <2>3, <2>4
  <1>5. calls' = [n \in 1..Len(calls) |-> F[n]] /\ asks' \subseteq asks
        /\ \A a \in asks' : FALSE
    BY <1>1
  <1> HIDE DEF F
  <1>6. QED BY <1>1, <1>3, <1>4, <1>5, ManyMove DEF Idle

-----------------------------------------------------------------------------
(* Jobs and the connection.                                                *)

\* A job goes on: it resolves its service, is served, or is joined.
LEMMA JobKeeps ==
  ASSUME IInv, NEW n \in 1..Len(calls), Resolve(n) \/ Served(n) \/ JoinJob(n)
  PROVE  Good
  <1>1. UNCHANGED <<script, era, fronts, ingress, turn, asks, attempts, runtime, phase, ran>>
    BY DEF Resolve, Served, JoinJob
  <1>2. PICK p \in {"calling", "done", "over"} :
          calls' = [calls EXCEPT ![n].pc = p] /\ calls[n].pc \in RetainedPcs
    BY DEF Resolve, Served, JoinJob, RetainedPcs
  <1>3. PICK c, d : c = calls[n] /\ d = [c EXCEPT !.pc = p]
    OBVIOUS
  <1>4. c \in CallRecords /\ CallOK(c)
    BY <1>3, ElementOfSeq DEF IInv, Shape, Owing
  <1>5. /\ d \in CallRecords /\ Alike(c, d) /\ CallOK(d) /\ d.attempt = c.attempt
        /\ d.replies = c.replies /\ d.why = c.why
    <2>1. c.pc \in RetainedPcs
      BY <1>2, <1>3
    <2>2. QED BY <1>3, <1>4, <2>1 DEF CallRecords, Alike, CallOK, RetainedPcs
  <1>6. calls' = [calls EXCEPT ![n] = d]
    BY <1>2, <1>3
  <1>7. QED BY <1>1, <1>2, <1>3, <1>5, <1>6, OneMovesQuietly

\* Host::complete answers once, and only who is still there.
LEMMA CompleteKeeps ==
  ASSUME IInv, NEW n \in 1..Len(calls), Complete(n)
  PROVE  Good
  <1>1. /\ UNCHANGED <<script, era, fronts, ingress, turn, asks, attempts, runtime, phase, ran>>
        /\ calls[n].pc = "done" /\ phase = "open"
    BY DEF Complete
  <1>2. PICK c : c = calls[n]
    OBVIOUS
  <1>3. c \in CallRecords /\ CallOK(c) /\ c.pc = "done" /\ c.pc \in RetainedPcs
    BY <1>1, <1>2, ElementOfSeq DEF IInv, Shape, Owing, RetainedPcs
  <1>4. CASE ~Responds(n)
    <2>1. PICK d : d = [c EXCEPT !.pc = "over"]
      OBVIOUS
    <2>2. calls' = [calls EXCEPT ![n] = d]
      BY <1>2, <1>4, <2>1 DEF Complete
    <2>3. /\ d \in CallRecords /\ Alike(c, d) /\ CallOK(d) /\ d.attempt = c.attempt
          /\ d.replies = c.replies /\ d.why = c.why
      BY <1>3, <2>1 DEF CallRecords, Alike, CallOK
    <2>4. QED BY <1>1, <1>2, <1>3, <2>2, <2>3, OneMovesQuietly
  <1>5. CASE Responds(n)
    <2>1. PICK d : d = Replied(c)
      OBVIOUS
    <2>2. calls' = [calls EXCEPT ![n] = d]
      BY <1>2, <1>5, <2>1 DEF Complete
    <2>3. /\ d \in CallRecords /\ Alike(c, d) /\ CallOK(d) /\ d.attempt = c.attempt
          /\ d.replies = c.replies + 1 /\ d.why = c.why /\ c.replies = 0
      <3>1. c.replies = 0
        BY <1>3 DEF CallOK
      <3>2. QED BY <1>3, <2>1, <3>1, RepliedIs
    <2>4. /\ IInv' /\ calls'[n] = d /\ Len(calls') = Len(calls)
          /\ \A m \in 1..Len(calls) : m # n => calls'[m] = calls[m]
      BY <1>1, <1>2, <1>3, <2>2, <2>3, OneMoves
    <2>5. Len(calls) \in Nat
      BY LenProperties DEF IInv, Shape
    <2>6. ExactStep
      <3>1. fronts[c.front] = "open" /\ ~c.cancelled
        BY <1>2, <1>5 DEF Responds
      <3>2. d.replies = 1
        BY <2>3
      <3>3. QED BY <1>1, <1>2, <2>4, <3>1, <3>2 DEF ExactStep
    <2>7. RefusalStep
      <3>1. \A m \in 1..Len(calls) : calls'[m].why = calls[m].why
        BY <1>2, <2>3, <2>4
      <3>2. QED BY <2>4, <2>5, <3>1 DEF RefusalStep
    <2>8. QED BY <2>4, <2>6, <2>7 DEF Good
  <1>6. QED BY <1>4, <1>5

\* The attempt's task ends, its result is taken over, the runtime is stopped,
\* the server is down, the lease moves.
LEMMA RuntimeKeeps ==
  ASSUME IInv,
         \/ \E o \in {"ready", "failed", "unjoined"} : AttemptEnds(o)
         \/ AcceptAttempt \/ StopOwner \/ HostDown \/ UNCHANGED hostVars
  PROVE  Good
  <1>1. UNCHANGED <<script, era, fronts, ingress, calls, turn, asks, ran>>
    BY DEF AttemptEnds, AcceptAttempt, StopOwner, HostDown, hostVars
  <1>2. /\ Len(attempts) \in Nat /\ attempts \in Seq({"pending", "ready", "failed"})
        /\ runtime \in RuntimeRecords /\ runtime.attempt \in 0..Len(attempts)
    BY LenProperties DEF IInv, Shape
  <1>3. /\ attempts' \in Seq({"pending", "ready", "failed"}) /\ Len(attempts') = Len(attempts)
        /\ runtime' \in RuntimeRecords /\ runtime'.attempt \in 0..Len(attempts')
    <2>1. CASE UNCHANGED <<attempts, runtime>>
      BY <1>2, <2>1
    <2>2. CASE \E o \in {"ready", "failed", "unjoined"} : AttemptEnds(o)
      <3>1. PICK o \in {"ready", "failed", "unjoined"} :
              runtime' = [runtime EXCEPT !.outcome = o] /\ attempts' = attempts
        BY <2>2 DEF AttemptEnds
      <3>2. QED BY <1>2, <3>1 DEF RuntimeRecords
    <2>3. CASE AcceptAttempt
      <3>1. runtime.attempt \in 1..Len(attempts)
        BY <1>2, <2>3 DEF AcceptAttempt
      <3>2. /\ attempts' \in Seq({"pending", "ready", "failed"})
            /\ Len(attempts') = Len(attempts)
        <4>1. \/ attempts' = attempts
              \/ \E e \in {"ready", "failed"} : attempts' = [attempts EXCEPT ![runtime.attempt] = e]
          BY <2>3 DEF AcceptAttempt
        <4>2. QED BY <1>2, <3>1, <4>1, Replaced
      <3>3. runtime' \in RuntimeRecords /\ runtime'.attempt \in {0, runtime.attempt}
        <4>1. \/ runtime' = [runtime EXCEPT !.attempt = 0, !.outcome = "none", !.owner = TRUE]
              \/ runtime' = [runtime EXCEPT !.outcome = "none", !.cleanup = TRUE]
              \/ \E b \in BOOLEAN :
                   runtime' = [runtime EXCEPT !.attempt = 0, !.outcome = "none", !.cleanup = FALSE,
                                              !.broken = b]
          <5>1. (runtime.broken \/ runtime.outcome = "unjoined") \in BOOLEAN
            OBVIOUS
          <5>2. QED BY <2>3, <5>1 DEF AcceptAttempt
        <4>2. PICK r : r = runtime
          OBVIOUS
        <4>3. r \in RuntimeRecords
          BY <1>2, <4>2
        <4>4. \A b \in BOOLEAN :
                /\ [r EXCEPT !.attempt = 0, !.outcome = "none", !.cleanup = FALSE, !.broken = b]
                      \in RuntimeRecords
                /\ [r EXCEPT !.attempt = 0, !.outcome = "none", !.cleanup = FALSE,
                             !.broken = b].attempt = 0
          BY <4>3 DEF RuntimeRecords
        <4>5. [r EXCEPT !.attempt = 0, !.outcome = "none", !.owner = TRUE] \in RuntimeRecords
              /\ [r EXCEPT !.attempt = 0, !.outcome = "none", !.owner = TRUE].attempt = 0
          BY <4>3 DEF RuntimeRecords
        <4>6. [r EXCEPT !.outcome = "none", !.cleanup = TRUE] \in RuntimeRecords
              /\ [r EXCEPT !.outcome = "none", !.cleanup = TRUE].attempt = r.attempt
          BY <4>3 DEF RuntimeRecords
        <4>7. QED BY <4>1, <4>2, <4>4, <4>5, <4>6
      <3>4. QED BY <1>2, <3>2, <3>3
    <2>4. CASE StopOwner
      <3>1. runtime' = [runtime EXCEPT !.owner = FALSE] /\ attempts' = attempts
        BY <2>4 DEF StopOwner
      <3>2. QED BY <1>2, <3>1 DEF RuntimeRecords
    <2>5. QED BY <2>1, <2>2, <2>3, <2>4 DEF HostDown, hostVars
  <1>4. \/ phase' = phase
        \/ phase = "closing" /\ phase' = "down"
    BY DEF AttemptEnds, AcceptAttempt, StopOwner, HostDown, hostVars
  <1>5. turn.pc = "dispatch" => phase = "open"
    BY DEF IInv, Holding
  <1>6. Around
    BY <1>1, <1>2, <1>3, <1>4, <1>5 DEF Around, IInv, Shape
  <1>7. QED BY <1>1, <1>6, CallsStand

-----------------------------------------------------------------------------
(* A turn.                                                                 *)

\* A stop finds no place only behind a stop of its own class.
LEMMA NoPlaceForStop ==
  ASSUME IInv, NEW f, NEW w, NEW tool,
         Check(f, w, ClassOf(tool)) = "capacity", ClassOf(tool) \in StopClasses
  PROVE  \E m \in Entries : /\ ClassOf(calls[m].tool) = ClassOf(tool)
                            /\ ClassOf(tool) \in {calls[m].reserved, calls[m].permit}
  <1>1. PICK m \in Entries : calls[m].reserved = ClassOf(tool)
    <2>1. PICK class : class = ClassOf(tool) /\ class \in StopClasses
      OBVIOUS
    <2>2. Check(f, w, class) = "capacity" /\ class # "capacity"
      BY <2>1 DEF StopClasses
    <2>3. \E m \in Entries : calls[m].reserved = class
      BY <2>1, <2>2, Zenon DEF Check
    <2>4. QED BY <2>1, <2>3
  <1>2. m \in 1..Len(calls)
    BY DEF Entries
  <1>3. CallOK(calls[m])
    BY <1>2 DEF IInv, Owing
  <1>4. ClassOf(calls[m].tool) = ClassOf(tool)
    BY <1>1, <1>3 DEF CallOK
  <1>5. QED BY <1>1, <1>4

\* A stop may not wait for the connection only behind a stop of its own class.
LEMMA NoPermitForStop ==
  ASSUME IInv, NEW tool, Permit(ClassOf(tool)) = "refused", ClassOf(tool) \in StopClasses
  PROVE  \E m \in Entries : /\ ClassOf(calls[m].tool) = ClassOf(tool)
                            /\ ClassOf(tool) \in {calls[m].reserved, calls[m].permit}
  <1>1. PICK m \in Entries : calls[m].permit = ClassOf(tool)
    <2>1. PICK class : class = ClassOf(tool) /\ class \in StopClasses
      OBVIOUS
    <2>2. Permit(class) = "refused" /\ class # "refused" /\ "ordinary" # "refused"
      BY <2>1 DEF StopClasses
    <2>3. \E m \in Entries : calls[m].permit = class
      BY <2>1, <2>2, Zenon DEF Permit
    <2>4. QED BY <2>1, <2>3
  <1>2. m \in 1..Len(calls)
    BY DEF Entries
  <1>3. CallOK(calls[m])
    BY <1>2 DEF IInv, Owing
  <1>4. ClassOf(calls[m].tool) = ClassOf(tool)
    BY <1>1, <1>3 DEF CallOK
  <1>5. QED BY <1>1, <1>4

\* The kinds of place, and what each says.
LEMMA CheckIs ==
  ASSUME NEW f, NEW w, NEW tool
  PROVE  /\ Check(f, w, ClassOf(tool)) \in Place \union {"closed", "duplicate", "capacity"}
         /\ Check(f, w, ClassOf(tool)) # "closed" => phase = "open" /\ fronts[f] = "open"
         /\ Check(f, w, ClassOf(tool)) = "duplicate" =>
                \E n \in Entries : calls[n].front = f /\ calls[n].wire = w
         /\ Check(f, w, ClassOf(tool)) \notin {"closed", "duplicate"} =>
                ~\E n \in Entries : calls[n].front = f /\ calls[n].wire = w
         /\ Check(f, w, ClassOf(tool)) \in StopClasses => ClassOf(tool) = Check(f, w, ClassOf(tool))
  <1>1. ClassOf(tool) \in {"take", "safety", "ordinary"}
    BY DEF ClassOf
  <1>2. QED BY <1>1 DEF Check, Place, StopClasses

\* A permit is the ordinary one, that of the class, none, or refused.
LEMMA PermitIs ==
  ASSUME NEW tool
  PROVE  /\ Permit(ClassOf(tool)) \in {"ordinary", "take", "safety", "refused"}
         /\ Permit(ClassOf(tool)) \in StopClasses => ClassOf(tool) = Permit(ClassOf(tool))
  <1>1. ClassOf(tool) \in {"take", "safety", "ordinary"}
    BY DEF ClassOf
  <1>2. QED BY <1>1 DEF Permit, StopClasses

\* Host::dispatch ends the turn: it refuses, drops or retains the exchange.
LEMMA DispatchKeeps ==
  ASSUME IInv, Dispatch
  PROVE  Good
  <1> DEFINE n == turn.call
             c == calls[n]
             place == Check(c.front, c.wire, ClassOf(c.tool))
             remote == ~Local(c.tool)
             permit == IF remote /\ (~runtime.owner \/ runtime.attempt # 0)
                       THEN Permit(ClassOf(c.tool)) ELSE "none"
             source == IF remote THEN Source ELSE "ready"
             att == IF source = "waiting" THEN runtime.attempt
                    ELSE IF source = "start" THEN Len(attempts) + 1 ELSE 0
             stage == CASE source = "ready" -> "calling"
                        [] source = "refused" -> "done"
                        [] OTHER -> "resolving"
             retained == [c EXCEPT !.reserved = place, !.permit = permit, !.attempt = att,
                                   !.pc = stage]
  <1>1. /\ UNCHANGED <<script, era, fronts, ingress, asks, phase, ran>>
        /\ turn.pc = "dispatch" /\ phase = "open" /\ turn' = Idle
    BY DEF Dispatch
  <1>2. /\ n \in 1..Len(calls) /\ c.pc \in {"new", "asked"}
        /\ \A a \in asks : a.call # n
        /\ \A m \in Entries : calls[m].front = c.front => calls[m].wire # c.wire
    BY <1>1 DEF IInv, Holding
  <1>3. /\ calls \in Seq(CallRecords) /\ Len(calls) \in Nat
        /\ \A m \in 1..Len(calls) : calls[m] \in CallRecords
        /\ Len(attempts) \in Nat /\ attempts \in Seq({"pending", "ready", "failed"})
        /\ runtime \in RuntimeRecords /\ runtime.attempt \in 0..Len(attempts)
    BY ElementOfSeq, LenProperties DEF IInv, Shape
  <1>4. /\ c \in CallRecords /\ CallOK(c) /\ c.replies = 0 /\ ~c.cancelled
        /\ c.attempt \in Nat /\ c.attempt <= Len(attempts)
    <2>1. c \in CallRecords /\ CallOK(c) /\ c.attempt <= Len(attempts)
      BY <1>2, <1>3 DEF IInv, Owing
    <2>2. QED BY <1>2, <2>1 DEF CallOK, CallRecords
  <1>5. \/ /\ place = "closed"
           /\ calls' = [calls EXCEPT ![n] = [c EXCEPT !.pc = "over", !.why = "closed"]]
           /\ UNCHANGED <<attempts, runtime>>
        \/ /\ place # "closed" /\ (place \notin Place \/ permit = "refused")
           /\ calls' = [calls EXCEPT ![n] = [Replied(c) EXCEPT !.why = "capacity"]]
           /\ UNCHANGED <<attempts, runtime>>
        \/ /\ place \in Place /\ permit # "refused"
           /\ calls' = [calls EXCEPT ![n] = retained]
           /\ IF source = "start"
              THEN /\ attempts' = Append(attempts, "pending")
                   /\ runtime' = [runtime EXCEPT !.attempt = Len(attempts) + 1]
              ELSE UNCHANGED <<attempts, runtime>>
    BY DEF Dispatch
  <1>6. /\ place \in Place \union {"closed", "duplicate", "capacity"} /\ place # "duplicate"
        /\ place # "closed" => fronts[c.front] = "open"
        /\ place \in StopClasses => ClassOf(c.tool) = place
    BY <1>2, CheckIs
  <1>7. /\ permit \in {"none", "ordinary", "take", "safety", "refused"}
        /\ permit \in StopClasses => ClassOf(c.tool) = permit
    <2>1. CASE permit = "none"
      BY <2>1 DEF StopClasses
    <2>2. CASE permit = Permit(ClassOf(c.tool))
      BY <2>2, PermitIs
    <2>3. QED BY <2>1, <2>2
  <1>8. /\ ClassOf(c.tool) \in StopClasses /\ place # "closed"
           /\ (place \notin Place \/ permit = "refused")
        => \E m \in Entries : /\ ClassOf(calls[m].tool) = ClassOf(c.tool)
                              /\ ClassOf(c.tool) \in {calls[m].reserved, calls[m].permit}
    <2>1. CASE place = "capacity"
      BY <2>1, NoPlaceForStop
    <2>2. CASE permit = "refused"
      <3>1. Permit(ClassOf(c.tool)) = "refused"
        BY <2>2
      <3>2. QED BY <3>1, NoPermitForStop
    <2>3. QED BY <1>6, <2>1, <2>2
  <1>9. /\ att \in Nat /\ stage \in RetainedPcs
        /\ source = "start" => att = Len(attempts) + 1
        /\ source # "start" => att <= Len(attempts)
    BY <1>3 DEF RetainedPcs
  <1>10. Local(c.tool) \in BOOLEAN
    BY DEF Local
  \* The new record and what becomes of the attempts.
  <1> DEFINE Fate(d) ==
           /\ calls' = [calls EXCEPT ![n] = d] /\ Alike(c, d) /\ CallOK(d)
           /\ attempts' \in Seq({"pending", "ready", "failed"})
           /\ Len(attempts') \in Nat /\ Len(attempts) <= Len(attempts')
           /\ runtime' \in RuntimeRecords /\ runtime'.attempt \in 0..Len(attempts')
           /\ d.attempt \in Nat /\ d.attempt <= Len(attempts')
           /\ d.replies # c.replies => d.replies = 1 /\ fronts[c.front] = "open"
           /\ d.why = "capacity" /\ ClassOf(c.tool) \in StopClasses =>
                 \/ c.why = "capacity"
                 \/ \E m \in Entries : /\ ClassOf(calls[m].tool) = ClassOf(c.tool)
                                       /\ ClassOf(c.tool) \in {calls[m].reserved, calls[m].permit}
  <1>11. PICK d \in CallRecords : Fate(d)
    <2> HIDE DEF n, c, place, permit, source, att, stage
    <2>1. CASE /\ calls' = [calls EXCEPT ![n] = [c EXCEPT !.pc = "over", !.why = "closed"]]
               /\ UNCHANGED <<attempts, runtime>>
      <3>1. PICK d : d = [c EXCEPT !.pc = "over", !.why = "closed"]
        OBVIOUS
      <3>2. d \in CallRecords /\ Alike(c, d) /\ CallOK(d) /\ d.attempt = c.attempt
            /\ d.replies = c.replies /\ d.why = "closed"
        BY <1>4, <3>1 DEF CallRecords, Alike, CallOK
      <3>3. Fate(d)
        BY <1>3, <1>4, <2>1, <3>1, <3>2
      <3> HIDE DEF Fate
      <3>4. QED BY <3>2, <3>3
    <2>2. CASE /\ place # "closed" /\ (place \notin Place \/ permit = "refused")
               /\ calls' = [calls EXCEPT ![n] = [Replied(c) EXCEPT !.why = "capacity"]]
               /\ UNCHANGED <<attempts, runtime>>
      <3>1. PICK d : d = [Replied(c) EXCEPT !.why = "capacity"]
        OBVIOUS
      <3>2. d \in CallRecords /\ Alike(c, d) /\ CallOK(d) /\ d.attempt = c.attempt
            /\ d.replies = c.replies + 1 /\ d.why = "capacity"
        <4>1. d = Refusal(c, "capacity")
          BY <3>1 DEF Refusal
        <4>2. QED BY <1>4, <4>1, RefusedIs
      <3>3. d.replies = 1
        BY <1>4, <3>2
      <3>4. Fate(d)
        BY <1>3, <1>4, <1>6, <1>8, <2>2, <3>1, <3>2, <3>3
      <3> HIDE DEF Fate
      <3>5. QED BY <3>2, <3>4
    <2>3. CASE /\ place \in Place /\ permit # "refused"
               /\ calls' = [calls EXCEPT ![n] = retained]
               /\ IF source = "start"
                  THEN /\ attempts' = Append(attempts, "pending")
                       /\ runtime' = [runtime EXCEPT !.attempt = Len(attempts) + 1]
                  ELSE UNCHANGED <<attempts, runtime>>
      <3>1. PICK d : d = retained
        OBVIOUS
      <3>2. /\ d \in CallRecords /\ Alike(c, d) /\ d.attempt = att /\ d.replies = c.replies
            /\ d.why = c.why /\ d.pc = stage /\ d.reserved = place /\ d.permit = permit
            /\ d.cancelled = c.cancelled
        BY <1>4, <1>7, <1>9, <2>3, <3>1 DEF CallRecords, Alike, RetainedPcs
      <3>3. CallOK(d)
        BY <1>4, <1>6, <1>7, <1>9, <3>2 DEF CallOK, RetainedPcs, Alike
      <3>4. /\ attempts' \in Seq({"pending", "ready", "failed"})
            /\ Len(attempts') \in Nat /\ Len(attempts) <= Len(attempts')
            /\ runtime' \in RuntimeRecords /\ runtime'.attempt \in 0..Len(attempts')
            /\ att <= Len(attempts')
        <4>1. CASE source = "start"
          <5>1. PICK k : k = Len(attempts) + 1 /\ k \in Nat
            BY <1>3
          <5>2. runtime' = [runtime EXCEPT !.attempt = k]
            BY <2>3, <4>1, <5>1
          <5>3. runtime' \in RuntimeRecords /\ runtime'.attempt = k
            BY <1>3, <5>1, <5>2 DEF RuntimeRecords
          <5>4. attempts' \in Seq({"pending", "ready", "failed"}) /\ Len(attempts') = k
            BY <1>3, <2>3, <4>1, <5>1, Appended
          <5>5. QED BY <1>3, <1>9, <4>1, <5>1, <5>3, <5>4
        <4>2. CASE source # "start"
          BY <1>3, <1>9, <2>3, <4>2
        <4>3. QED BY <4>1, <4>2
      <3>5. Fate(d)
        BY <1>9, <2>3, <3>1, <3>2, <3>3, <3>4
      <3> HIDE DEF Fate
      <3>6. QED BY <3>2, <3>5
    <2>4. QED BY <1>5, <2>1, <2>2, <2>3
  <1> HIDE DEF c, n
  <1>12. /\ calls' \in Seq(CallRecords) /\ Len(calls') = Len(calls) /\ calls'[n] = d
         /\ \A m \in 1..Len(calls) : m # n => calls'[m] = calls[m]
    BY <1>2, <1>3, <1>11, Replaced
  <1>13. Around
    BY <1>1, <1>11 DEF Around, IInv, Shape, Idle
  <1>14. \A m \in 1..Len(calls) : /\ Alike(calls[m], calls'[m]) /\ CallOK(calls'[m])
                                  /\ calls'[m].attempt <= Len(attempts')
    <2> TAKE m \in 1..Len(calls)
    <2>1. CASE m = n
      BY <2>1, <1>11, <1>12 DEF c
    <2>2. CASE m # n
      <3>1. CallOK(calls[m]) /\ calls[m].attempt <= Len(attempts)
        BY DEF IInv, Owing
      <3>2. calls[m].attempt \in Nat
        BY <1>3 DEF CallRecords
      <3>3. QED BY <1>3, <1>11, <1>12, <2>2, <3>1, <3>2 DEF Alike
    <2>3. QED BY <2>1, <2>2
  <1>15. \A a \in asks : calls'[a.call].pc = calls[a.call].pc
    BY <1>2, <1>12 DEF IInv, Asking
  <1>16. Onward
    BY <1>1, <1>12, <1>14, <1>15 DEF Onward
  <1>17. ExactStep
    BY <1>1, <1>2, <1>4, <1>11, <1>12 DEF ExactStep, c
  <1>18. RefusalStep
    <2>1. ClassOf(calls'[n].tool) = ClassOf(c.tool)
      BY <1>11, <1>12 DEF Alike
    <2>2. QED BY <1>3, <1>11, <1>12, <2>1 DEF RefusalStep, c
  <1>19. QED BY <1>13, <1>16, <1>17, <1>18, Moves DEF Good

\* ControlDomain::evaluate: it asks only who has not answered, and allows a live
\* action only on an accepted answer or the confirm argument, and an ordinary one
\* only while nobody else holds the lease.
LEMMA EvaluateIs ==
  ASSUME NEW r, r.enabled = TRUE, r.answer \in Answers
  PROVE  /\ Evaluate(r) \in {"allow", "refused", "cancelled", "input"}
         /\ Evaluate(r) = "input" => r.answer = "missing"
         /\ Evaluate(r) = "allow" =>
               /\ LiveQuestion(r.tool) =>
                     r.answer = "accepted" \/ (r.answer = "missing" /\ r.confirm /\ ~r.elicit)
               /\ ~AlwaysAllowed(r.tool) => ~HeldByOther(r)
  <1>1. /\ Confirmed(r) \in {"allow", "refused", "cancelled", "input"}
        /\ Confirmed(r) = "input" => r.answer = "missing"
        /\ Confirmed(r) = "allow" =>
              r.answer = "accepted" \/ (r.answer = "missing" /\ r.confirm /\ ~r.elicit)
    BY DEF Confirmed, Answers
  <1>2. QED BY <1>1 DEF Evaluate

\* What an authorized exchange leaves in the history.
LEMMA RanIs ==
  ASSUME NEW c \in CallRecords, NEW n \in Nat, NEW grounds \in Nat, NEW answer \in Answers,
         NEW held \in BOOLEAN, NEW flag \in BOOLEAN, NEW x,
         x = [call |-> n, token |-> grounds, tool |-> c.tool,
              what |-> <<c.tool, c.args, c.caller>>, answer |-> answer, held |-> held, flag |-> flag]
  PROVE  /\ x \in RanRecords /\ x.token = grounds /\ x.tool = c.tool
         /\ x.what = <<c.tool, c.args, c.caller>>
         /\ x.answer = answer /\ x.held = held /\ x.flag = flag
  <1>1. c.tool \in STRING /\ c.args \in Nat /\ c.caller \in Everyone
    BY DEF CallRecords
  <1>2. <<c.tool, c.args, c.caller>> \in Triples
    BY <1>1 DEF Triples
  <1>3. PICK t, w : t = c.tool /\ w = <<c.tool, c.args, c.caller>>
    OBVIOUS
  <1>4. t \in STRING /\ w \in Triples
    BY <1>1, <1>2, <1>3
  <1>5. x = [call |-> n, token |-> grounds, tool |-> t, what |-> w, answer |-> answer,
             held |-> held, flag |-> flag]
    BY <1>3
  <1>6. x \in RanRecords /\ x.token = grounds /\ x.tool = t /\ x.what = w
        /\ x.answer = answer /\ x.held = held /\ x.flag = flag
    BY <1>4, <1>5 DEF RanRecords
  <1>7. QED BY <1>3, <1>6

\* How the exchanges look when Host::authorize begins: n is the last, and new,
\* or one of a session whose question was answered.
Presented(cs, n, answer, grounds, rest) ==
    /\ phase = "open" /\ turn = Idle
    /\ cs \in Seq(CallRecords) /\ n \in 1..Len(cs)
    /\ \A m \in 1..Len(calls) : cs[m] = calls[m]
    /\ Len(cs) = Len(calls) \/ (Len(cs) = Len(calls) + 1 /\ n = Len(cs))
    /\ CallOK(cs[n]) /\ cs[n].pc \in {"new", "asked"} /\ cs[n].attempt <= Len(attempts)
    /\ n \in 1..Len(calls) \/ cs[n].why = "none"
    /\ fronts[cs[n].front] = "open"
    /\ rest \subseteq asks /\ \A a \in rest : a.call # n
    /\ \/ answer = "missing" /\ grounds = 0 /\ n = Len(calls) + 1
       \/ /\ answer \in Answered /\ grounds \in 1..Len(calls)
          /\ \A a \in rest : a.token # grounds
          /\ \A i \in 1..Len(ran) : ran[i].token # grounds
          /\ Binding(cs[n]) = Binding(calls[grounds])

\* What becomes of the exchange, whatever the policy says of it.
Settled(cs, n, d) ==
    /\ d \in CallRecords /\ Alike(cs[n], d) /\ CallOK(d) /\ d.attempt = cs[n].attempt
    /\ d.pc \in {"new", "asked", "over"}
    /\ d.replies # cs[n].replies => d.replies = 1
    /\ d.why = "capacity" => cs[n].why = "capacity" \/
           Check(cs[n].front, cs[n].wire, ClassOf(cs[n].tool)) = "capacity"
    /\ calls' \in Seq(CallRecords) /\ Len(calls') = Len(cs) /\ calls'[n] = d
    /\ \A m \in 1..Len(cs) : m # n => calls'[m] = cs[m]

\* The three ways authorize ends.
Refuses(cs, n, rest, d) == Settled(cs, n, d) /\ asks' = rest /\ UNCHANGED <<turn, ran>>
Poses(cs, n, answer, rest, d) ==
    /\ Settled(cs, n, d) /\ answer = "missing"
    /\ era = "legacy" => d.pc = "asked"
    /\ Cardinality(rest) < AskCap
    /\ asks' = rest \union {[token |-> n, call |-> n, front |-> cs[n].front,
                             wire |-> cs[n].wire, binding |-> Binding(cs[n])]}
    /\ UNCHANGED <<turn, ran>>
Allows(cs, n, answer, grounds, rest, x) ==
    /\ Settled(cs, n, cs[n]) /\ asks' = rest
    /\ turn' = [pc |-> "dispatch", call |-> n]
    /\ Check(cs[n].front, cs[n].wire, ClassOf(cs[n].tool)) \in Place
    /\ x \in RanRecords /\ x.token = grounds /\ x.tool = cs[n].tool /\ x.answer = answer
    /\ x.what = <<cs[n].tool, cs[n].args, cs[n].caller>>
    /\ LiveQuestion(PolicyOf(x.tool)) => answer = "accepted" \/ (answer = "missing" /\ x.flag)
    /\ ~AlwaysAllowed(PolicyOf(x.tool)) => ~x.held
    /\ ran' = Append(ran, x)

\* Host::authorize refuses, asks or allows.
LEMMA AuthorizeIs ==
  ASSUME IInv, NEW cs, NEW n, NEW answer, NEW grounds, NEW rest,
         Presented(cs, n, answer, grounds, rest), Authorize(cs, n, answer, grounds, rest)
  PROVE  \/ \E d \in CallRecords : Refuses(cs, n, rest, d)
         \/ \E d \in CallRecords : Poses(cs, n, answer, rest, d)
         \/ \E x \in RanRecords : Allows(cs, n, answer, grounds, rest, x)
  <1>1. PICK c : c = cs[n]
    OBVIOUS
  <1>2. PICK place : place = Check(c.front, c.wire, ClassOf(c.tool))
    OBVIOUS
  <1>3. PICK decision :
          decision = Evaluate(Request(c.caller, PolicyOf(c.tool), TRUE, c.elicit, answer, c.confirm))
    OBVIOUS
  <1>4. /\ cs \in Seq(CallRecords) /\ Len(cs) \in Nat /\ n \in 1..Len(cs)
        /\ c \in CallRecords /\ CallOK(c) /\ c.pc \in {"new", "asked"} /\ c.replies = 0
        /\ answer \in Answers /\ grounds \in Nat /\ n \in Nat /\ turn = Idle
    <2>1. cs \in Seq(CallRecords) /\ n \in 1..Len(cs) /\ CallOK(c) /\ c.pc \in {"new", "asked"}
          /\ turn = Idle
      BY <1>1 DEF Presented
    <2>2. Len(cs) \in Nat /\ c \in CallRecords
      BY <1>1, <2>1, ElementOfSeq, LenProperties
    <2>3. answer \in Answers /\ grounds \in Nat
      BY DEF Presented, Answers, Answered
    <2>4. c.replies = 0
      BY <2>1 DEF CallOK
    <2>5. QED BY <2>1, <2>2, <2>3, <2>4
  <1>5. c.elicit \in BOOLEAN /\ c.confirm \in BOOLEAN
    BY <1>4 DEF CallRecords
  <1>6. /\ decision \in {"allow", "refused", "cancelled", "input"}
        /\ decision = "input" => answer = "missing"
        /\ decision = "allow" =>
              /\ LiveQuestion(PolicyOf(c.tool)) =>
                    answer = "accepted" \/ (answer = "missing" /\ c.confirm /\ ~c.elicit)
              /\ ~AlwaysAllowed(PolicyOf(c.tool)) =>
                    ~HeldByOther(Request(c.caller, PolicyOf(c.tool), TRUE, FALSE, "missing", FALSE))
    <2>1. PICK r : r = Request(c.caller, PolicyOf(c.tool), TRUE, c.elicit, answer, c.confirm)
      OBVIOUS
    <2>2. /\ r.caller = c.caller /\ r.tool = PolicyOf(c.tool) /\ r.enabled = TRUE
          /\ r.elicit = c.elicit /\ r.answer = answer /\ r.confirm = c.confirm
      BY <2>1 DEF Request
    <2>3. HeldByOther(r) =
            HeldByOther(Request(c.caller, PolicyOf(c.tool), TRUE, FALSE, "missing", FALSE))
      BY <2>2 DEF HeldByOther, Request
    <2>4. /\ Evaluate(r) \in {"allow", "refused", "cancelled", "input"}
          /\ Evaluate(r) = "input" => r.answer = "missing"
          /\ Evaluate(r) = "allow" =>
                /\ LiveQuestion(r.tool) =>
                      r.answer = "accepted" \/ (r.answer = "missing" /\ r.confirm /\ ~r.elicit)
                /\ ~AlwaysAllowed(r.tool) => ~HeldByOther(r)
      BY <1>4, <2>2, EvaluateIs
    <2>5. decision = Evaluate(r)
      BY <1>3, <2>1
    <2>6. QED BY <2>2, <2>3, <2>4, <2>5
  <1>7. \/ /\ calls' = [cs EXCEPT ![n] = [Replied(c) EXCEPT !.why =
                                   IF place = "capacity" THEN "capacity" ELSE "refused"]]
           /\ asks' = rest /\ UNCHANGED <<turn, ran>>
        \/ /\ decision = "input" /\ Cardinality(rest) < AskCap
           /\ calls' = [cs EXCEPT ![n] = IF era = "legacy" THEN [c EXCEPT !.pc = "asked"]
                                         ELSE Replied(c)]
           /\ asks' = rest \union {[token |-> n, call |-> n, front |-> c.front,
                                    wire |-> c.wire, binding |-> Binding(c)]}
           /\ UNCHANGED <<turn, ran>>
        \/ /\ decision = "allow" /\ place \in Place
           /\ calls' = cs /\ asks' = rest
           /\ turn' = [pc |-> "dispatch", call |-> n]
           /\ ran' = Append(ran, [call |-> n, token |-> grounds, tool |-> c.tool,
                          what |-> <<c.tool, c.args, c.caller>>, answer |-> answer,
                          held |-> HeldByOther(Request(c.caller, PolicyOf(c.tool), TRUE, FALSE,
                                                       "missing", FALSE)),
                          flag |-> c.confirm /\ ~c.elicit])
    BY <1>1, <1>2, <1>3, <1>6, Zenon DEF Authorize
  <1>8. CASE /\ calls' = [cs EXCEPT ![n] = [Replied(c) EXCEPT !.why =
                                   IF place = "capacity" THEN "capacity" ELSE "refused"]]
             /\ asks' = rest /\ UNCHANGED <<turn, ran>>
    <2>1. PICK why \in {"none", "refused", "capacity", "closed"} :
            why = IF place = "capacity" THEN "capacity" ELSE "refused"
      OBVIOUS
    <2>2. PICK d : d = Refusal(c, why)
      OBVIOUS
    <2>3. calls' = [cs EXCEPT ![n] = d]
      BY <1>8, <2>1, <2>2 DEF Refusal
    <2>4. d \in CallRecords /\ Alike(c, d) /\ CallOK(d) /\ d.attempt = c.attempt
          /\ d.replies = c.replies + 1 /\ d.why = why /\ d.pc = "over"
      BY <1>4, <2>1, <2>2, RefusedIs
    <2>5. d.replies = 1 /\ (d.why = "capacity" => place = "capacity")
      BY <1>4, <2>1, <2>4
    <2>6. /\ calls' \in Seq(CallRecords) /\ Len(calls') = Len(cs) /\ calls'[n] = d
          /\ \A m \in 1..Len(cs) : m # n => calls'[m] = cs[m]
      BY <1>4, <2>3, <2>4, Replaced
    <2>7. Refuses(cs, n, rest, d)
      BY <1>1, <1>2, <1>8, <2>4, <2>5, <2>6 DEF Refuses, Settled
    <2>8. QED BY <2>4, <2>7
  <1>9. CASE /\ decision = "input" /\ Cardinality(rest) < AskCap
             /\ calls' = [cs EXCEPT ![n] = IF era = "legacy" THEN [c EXCEPT !.pc = "asked"]
                                           ELSE Replied(c)]
             /\ asks' = rest \union {[token |-> n, call |-> n, front |-> c.front,
                                      wire |-> c.wire, binding |-> Binding(c)]}
             /\ UNCHANGED <<turn, ran>>
    <2>1. PICK d : d = IF era = "legacy" THEN [c EXCEPT !.pc = "asked"] ELSE Replied(c)
      OBVIOUS
    <2>2. calls' = [cs EXCEPT ![n] = d]
      BY <1>9, <2>1
    <2>3. /\ d \in CallRecords /\ Alike(c, d) /\ CallOK(d) /\ d.attempt = c.attempt
          /\ d.pc \in {"asked", "over"} /\ d.why = c.why
          /\ d.replies # c.replies => d.replies = 1
          /\ era = "legacy" => d.pc = "asked"
      <3>1. CASE era = "legacy"
        <4>1. d = [c EXCEPT !.pc = "asked"]
          BY <2>1, <3>1
        <4>2. ~c.cancelled
          BY <1>4 DEF CallOK
        <4>3. QED BY <1>4, <4>1, <4>2 DEF CallRecords, Alike, CallOK
      <3>2. CASE era # "legacy"
        <4>1. d = Replied(c)
          BY <2>1, <3>2
        <4>2. QED BY <1>4, <3>2, <4>1, RepliedIs
      <3>3. QED BY <3>1, <3>2
    <2>4. /\ calls' \in Seq(CallRecords) /\ Len(calls') = Len(cs) /\ calls'[n] = d
          /\ \A m \in 1..Len(cs) : m # n => calls'[m] = cs[m]
      BY <1>4, <2>2, <2>3, Replaced
    <2>5. Poses(cs, n, answer, rest, d)
      BY <1>1, <1>6, <1>9, <2>3, <2>4 DEF Poses, Settled
    <2>6. QED BY <2>3, <2>5
  <1>10. CASE /\ decision = "allow" /\ place \in Place
              /\ calls' = cs /\ asks' = rest
              /\ turn' = [pc |-> "dispatch", call |-> n]
              /\ ran' = Append(ran, [call |-> n, token |-> grounds, tool |-> c.tool,
                          what |-> <<c.tool, c.args, c.caller>>, answer |-> answer,
                          held |-> HeldByOther(Request(c.caller, PolicyOf(c.tool), TRUE, FALSE,
                                                       "missing", FALSE)),
                          flag |-> c.confirm /\ ~c.elicit])
    <2>1. PICK held \in BOOLEAN :
            held = HeldByOther(Request(c.caller, PolicyOf(c.tool), TRUE, FALSE, "missing", FALSE))
      BY DEF HeldByOther
    <2>2. PICK flag \in BOOLEAN : flag = (c.confirm /\ ~c.elicit)
      OBVIOUS
    <2>3. PICK x : x = [call |-> n, token |-> grounds, tool |-> c.tool,
                        what |-> <<c.tool, c.args, c.caller>>, answer |-> answer,
                        held |-> held, flag |-> flag]
      OBVIOUS
    <2>4. ran' = Append(ran, x)
      BY <1>10, <2>1, <2>2, <2>3
    <2>5. /\ x \in RanRecords /\ x.token = grounds /\ x.tool = c.tool
          /\ x.what = <<c.tool, c.args, c.caller>>
          /\ x.answer = answer /\ x.held = held /\ x.flag = flag
      BY <1>4, <2>3, RanIs
    <2>6. Settled(cs, n, c)
      BY <1>1, <1>4, <1>10 DEF Settled, Alike
    <2>7. /\ LiveQuestion(PolicyOf(x.tool)) => answer = "accepted" \/ (answer = "missing" /\ x.flag)
          /\ ~AlwaysAllowed(PolicyOf(x.tool)) => ~x.held
      BY <1>6, <1>10, <2>1, <2>2, <2>5
    <2>8. Allows(cs, n, answer, grounds, rest, x)
      BY <1>1, <1>2, <1>10, <2>4, <2>5, <2>6, <2>7 DEF Allows
    <2>9. QED BY <2>5, <2>8
  <1>11. QED BY <1>7, <1>8, <1>9, <1>10

\* What authorize leaves alone, and where the exchanges are after it.
LEMMA AfterAuthorize ==
  ASSUME IInv, UNCHANGED <<script, era, fronts, ingress, attempts, runtime, phase>>,
         NEW cs, NEW n, NEW answer, NEW grounds, NEW rest, NEW d,
         Presented(cs, n, answer, grounds, rest), Settled(cs, n, d)
  PROVE  /\ Owing' /\ Home' /\ ExactStep /\ RefusalStep
         /\ calls' \in Seq(CallRecords) /\ Len(calls') \in Nat /\ Len(calls) \in Nat
         /\ n \in 1..Len(calls') /\ calls'[n] = d
         /\ Len(calls') \in {Len(calls), Len(calls) + 1}
         /\ \A m \in 1..Len(calls) : /\ m \in 1..Len(calls') /\ Alike(calls[m], calls'[m])
                                     /\ m # n => calls'[m] = calls[m]
         /\ \A m \in 1..Len(calls') : m # n => m \in 1..Len(calls)
         /\ Entries' \subseteq Entries
  <1>1. /\ cs \in Seq(CallRecords) /\ n \in 1..Len(cs)
        /\ \A m \in 1..Len(calls) : cs[m] = calls[m]
        /\ Len(cs) = Len(calls) \/ (Len(cs) = Len(calls) + 1 /\ n = Len(cs))
        /\ CallOK(cs[n]) /\ cs[n].pc \in {"new", "asked"} /\ cs[n].attempt <= Len(attempts)
        /\ fronts[cs[n].front] = "open" /\ phase = "open"
    BY DEF Presented
  <1>2. /\ d \in CallRecords /\ Alike(cs[n], d) /\ CallOK(d) /\ d.attempt = cs[n].attempt
        /\ d.pc \in {"new", "asked", "over"}
        /\ d.replies # cs[n].replies => d.replies = 1
        /\ d.why = "capacity" => cs[n].why = "capacity" \/
               Check(cs[n].front, cs[n].wire, ClassOf(cs[n].tool)) = "capacity"
        /\ calls' \in Seq(CallRecords) /\ Len(calls') = Len(cs) /\ calls'[n] = d
        /\ \A m \in 1..Len(cs) : m # n => calls'[m] = cs[m]
    BY DEF Settled
  <1>3. /\ Len(calls) \in Nat /\ Len(cs) \in Nat /\ calls \in Seq(CallRecords)
        /\ \A m \in 1..Len(calls) : calls[m] \in CallRecords
    BY <1>1, LenProperties, ElementOfSeq DEF IInv, Shape
  <1>4. /\ \A m \in 1..Len(calls) : m \in 1..Len(cs)
        /\ \A m \in 1..Len(cs) : m # n => m \in 1..Len(calls)
        /\ n \notin 1..Len(calls) => n > Len(calls)
    BY <1>1, <1>3
  <1>5. \A m \in 1..Len(cs) : m # n => m \in 1..Len(calls) /\ calls'[m] = calls[m]
    BY <1>1, <1>2, <1>4
  <1>6. \A m \in 1..Len(calls) : Alike(calls[m], calls'[m])
    <2> TAKE m \in 1..Len(calls)
    <2>1. CASE m = n
      BY <1>1, <1>2, <2>1
    <2>2. CASE m # n
      BY <1>4, <1>5, <2>2 DEF Alike
    <2>3. QED BY <2>1, <2>2
  <1>7. Owing'
    <2>1. \A m \in 1..Len(calls) : CallOK(calls[m]) /\ calls[m].attempt <= Len(attempts)
      BY DEF IInv, Owing
    <2>2. SUFFICES ASSUME NEW m \in 1..Len(cs)
                   PROVE  CallOK(calls'[m]) /\ calls'[m].attempt <= Len(attempts)
      BY <1>2 DEF Owing
    <2>3. CASE m = n
      BY <1>1, <1>2, <2>3
    <2>4. CASE m # n
      BY <1>5, <2>1, <2>4
    <2>5. QED BY <2>3, <2>4
  <1>8. Home'
    <2>1. SUFFICES ASSUME era = "legacy", phase = "open", NEW m \in 1..Len(cs)
                   PROVE  fronts[calls'[m].front] = "open"
      BY <1>2 DEF Home
    <2>2. CASE m = n
      BY <1>1, <1>2, <2>2 DEF Alike
    <2>3. CASE m # n
      BY <1>5, <2>1, <2>3 DEF IInv, Home
    <2>4. QED BY <2>2, <2>3
  <1>9. ExactStep
    <2>1. SUFFICES ASSUME NEW m \in 1..Len(calls), calls'[m].replies # calls[m].replies
                   PROVE  /\ calls'[m].replies = 1 /\ ~calls[m].cancelled
                          /\ fronts[calls[m].front] = "open" /\ phase = "open"
      BY DEF ExactStep
    <2>2. m = n /\ calls[m] = cs[n]
      BY <1>1, <1>4, <1>5, <2>1
    <2>3. ~cs[n].cancelled
      BY <1>1 DEF CallOK
    <2>4. QED BY <1>1, <1>2, <2>1, <2>2, <2>3
  <1>10. RefusalStep
    <2>1. SUFFICES ASSUME NEW m \in 1..Len(cs), ClassOf(calls'[m].tool) \in StopClasses,
                          calls'[m].why = "capacity",
                          m > Len(calls) \/ calls[m].why # "capacity"
                   PROVE  \E k \in Entries :
                              /\ ClassOf(calls[k].tool) = ClassOf(calls'[m].tool)
                              /\ ClassOf(calls'[m].tool) \in {calls[k].reserved, calls[k].permit}
      BY <1>2 DEF RefusalStep
    <2>2. m = n
      <3>1. m # n => m \in 1..Len(calls) /\ calls'[m] = calls[m] /\ ~(m > Len(calls))
        BY <1>3, <1>5
      <3>2. QED BY <2>1, <3>1
    <2>3. CASE Check(cs[n].front, cs[n].wire, ClassOf(cs[n].tool)) = "capacity"
      <3>1. calls'[m].tool = cs[n].tool
        BY <1>2, <2>2 DEF Alike
      <3>2. ClassOf(cs[n].tool) \in StopClasses
        BY <2>1, <3>1
      <3>3. \E k \in Entries :
              /\ ClassOf(calls[k].tool) = ClassOf(cs[n].tool)
              /\ ClassOf(cs[n].tool) \in {calls[k].reserved, calls[k].permit}
        BY <2>3, <3>2, NoPlaceForStop
      <3>4. QED BY <3>1, <3>3
    <2>4. CASE cs[n].why = "capacity"
      <3>1. n \in 1..Len(calls) => calls[n].why = "capacity"
        BY <1>1, <2>4
      <3>2. CASE n \in 1..Len(calls)
        BY <1>3, <2>1, <2>2, <3>1, <3>2
      <3>3. CASE n \notin 1..Len(calls)
        BY <2>4, <3>3 DEF Presented
      <3>4. QED BY <3>2, <3>3
    <2>5. QED BY <1>2, <2>1, <2>2, <2>3, <2>4
  <1>11. Entries' \subseteq Entries
    <2>1. SUFFICES ASSUME NEW m \in 1..Len(cs), calls'[m].pc \in RetainedPcs
                   PROVE  m \in 1..Len(calls) /\ calls[m].pc \in RetainedPcs
      BY <1>2 DEF Entries, Retained, RetainedPcs
    <2>2. m # n
      BY <1>2, <2>1 DEF RetainedPcs
    <2>3. QED BY <1>5, <2>1, <2>2
  <1>12. Len(calls') \in {Len(calls), Len(calls) + 1} /\ Len(calls') \in Nat
    BY <1>1, <1>2, <1>3
  <1>13. QED BY <1>2, <1>1, <1>3, <1>4, <1>5, <1>6, <1>7, <1>8, <1>9, <1>10, <1>11, <1>12

\* Host::authorize keeps the invariant, whatever it decides.
LEMMA AuthorizeKeeps ==
  ASSUME IInv, UNCHANGED <<script, era, fronts, ingress, attempts, runtime, phase>>,
         NEW cs, NEW n, NEW answer, NEW grounds, NEW rest,
         Presented(cs, n, answer, grounds, rest), Authorize(cs, n, answer, grounds, rest)
  PROVE  Good
  <1> DEFINE Moved(d) ==
        /\ Owing' /\ Home' /\ ExactStep /\ RefusalStep
        /\ calls' \in Seq(CallRecords) /\ Len(calls') \in Nat /\ Len(calls) \in Nat
        /\ n \in 1..Len(calls') /\ calls'[n] = d
        /\ Len(calls') \in {Len(calls), Len(calls) + 1}
        /\ \A m \in 1..Len(calls) : /\ m \in 1..Len(calls') /\ Alike(calls[m], calls'[m])
                                    /\ m # n => calls'[m] = calls[m]
        /\ \A m \in 1..Len(calls') : m # n => m \in 1..Len(calls)
        /\ Entries' \subseteq Entries
  <1>1. ASSUME NEW d, Settled(cs, n, d) PROVE Moved(d)
    BY <1>1, AfterAuthorize
  <1>2. /\ phase = "open" /\ turn = Idle
        /\ rest \subseteq asks /\ \A a \in rest : a.call # n
        /\ \A m \in 1..Len(calls) : cs[m] = calls[m]
        /\ \/ answer = "missing" /\ grounds = 0 /\ n = Len(calls) + 1
           \/ /\ answer \in Answered /\ grounds \in 1..Len(calls)
              /\ \A a \in rest : a.token # grounds
              /\ \A i \in 1..Len(ran) : ran[i].token # grounds
              /\ Binding(cs[n]) = Binding(calls[grounds])
    BY DEF Presented
  <1>3. /\ rest \subseteq AskRecords /\ IsFiniteSet(rest) /\ Cardinality(rest) \in Nat
        /\ Cardinality(rest) <= AskCap /\ AskCap \in Nat
    <2>1. IsFiniteSet(asks) /\ Cardinality(asks) <= AskCap /\ asks \subseteq AskRecords
      BY DEF IInv, Shape
    <2>2. IsFiniteSet(rest) /\ Cardinality(rest) <= Cardinality(asks)
      BY <1>2, <2>1, FS_Subset
    <2>3. Cardinality(asks) \in Nat /\ Cardinality(rest) \in Nat /\ AskCap \in Nat
      BY <2>1, <2>2, FS_CardinalityType, HostAssumption
    <2>4. QED BY <1>2, <2>1, <2>2, <2>3
  <1>4. \A a \in rest : /\ a.token = a.call /\ a.call \in 1..Len(calls) /\ a.call # n
                        /\ a.front = calls[a.call].front /\ a.wire = calls[a.call].wire
                        /\ a.binding = Binding(calls[a.call])
                        /\ era = "legacy" => calls[a.call].pc = "asked"
    BY <1>2 DEF IInv, Asking
  <1>5. \A i \in 1..Len(ran) : /\ ran[i].token \in 0..Len(calls)
                               /\ \A a \in rest : a.token # ran[i].token
    BY <1>2 DEF IInv, Spending
  <1>6. ran \in Seq(RanRecords) /\ Len(ran) \in Nat
    BY LenProperties DEF IInv, Shape
  \* The old continuations still stand for their exchanges.
  <1>7. ASSUME NEW d, Moved(d), NEW a \in rest
        PROVE  /\ a.token = a.call /\ a.call \in 1..Len(calls')
               /\ a.front = calls'[a.call].front /\ a.wire = calls'[a.call].wire
               /\ a.binding = Binding(calls'[a.call])
               /\ era = "legacy" => calls'[a.call].pc = "asked"
    BY <1>4, <1>7
  \* The old invocations still have their grounds.
  <1>8. ASSUME NEW d, Moved(d), NEW i \in 1..Len(ran)
        PROVE  /\ ran[i].token \in 0..Len(calls')
               /\ LiveQuestion(PolicyOf(ran[i].tool)) =>
                    \/ ran[i].flag /\ ran[i].token = 0
                    \/ /\ ran[i].answer = "accepted" /\ ran[i].token # 0
                       /\ LET asked == calls'[ran[i].token]
                          IN ran[i].what = <<asked.tool, asked.args, asked.caller>>
               /\ ~AlwaysAllowed(PolicyOf(ran[i].tool)) => ~ran[i].held
    <2>1. ran[i].token \in 0..Len(calls')
      BY <1>5, <1>8
    <2>2. ran[i].token # 0 =>
            LET asked == calls[ran[i].token]
                later == calls'[ran[i].token]
            IN <<asked.tool, asked.args, asked.caller>> = <<later.tool, later.args, later.caller>>
      <3>1. SUFFICES ASSUME ran[i].token # 0
                     PROVE  Alike(calls[ran[i].token], calls'[ran[i].token])
        BY DEF Alike
      <3>2. ran[i].token \in 1..Len(calls)
        BY <1>5, <1>8, <3>1
      <3>3. QED BY <1>8, <3>2
    <2>3. QED BY <2>1, <2>2 DEF IInv, ConsentIsSpentOnce
  <1>9. \A i, j \in 1..Len(ran) : i # j /\ ran[i].token # 0 => ran[i].token # ran[j].token
    BY DEF IInv, ConsentIsSpentOnce
  <1>10. /\ script' \in Scripts /\ era' = script'.era /\ phase' \in {"open", "closing", "down"}
         /\ fronts' \in [FrontendIds -> {"new", "open", "departed", "gone"}]
         /\ ingress' \in [StopClasses -> FrontendIds \union {0}]
         /\ attempts' \in Seq({"pending", "ready", "failed"})
         /\ runtime' \in RuntimeRecords /\ runtime'.attempt \in 0..Len(attempts')
    BY DEF IInv, Shape
  <1> HIDE DEF Moved
  <1>11. ASSUME NEW d \in CallRecords, Refuses(cs, n, rest, d) PROVE Good
    <2>1. Moved(d) /\ asks' = rest /\ turn' = Idle /\ ran' = ran
      BY <1>1, <1>2, <1>11 DEF Refuses
    <2>2. Shape'
      BY <1>3, <1>6, <1>10, <2>1 DEF Shape, Moved, Idle, TurnRecords
    <2>3. Asking'
      BY <1>7, <2>1 DEF Asking
    <2>4. Spending' /\ ConsentIsSpentOnce'
      BY <1>5, <1>8, <1>9, <2>1 DEF Spending, ConsentIsSpentOnce
    <2>5. Holding'
      BY <2>1 DEF Holding, Idle
    <2>6. QED BY <2>1, <2>2, <2>3, <2>4, <2>5 DEF Moved, Good, IInv
  <1>12. ASSUME NEW d \in CallRecords, Poses(cs, n, answer, rest, d) PROVE Good
    <2>1. PICK b, q : b = Binding(cs[n])
                      /\ q = [token |-> n, call |-> n, front |-> cs[n].front,
                              wire |-> cs[n].wire, binding |-> b]
      OBVIOUS
    <2>2. /\ Moved(d) /\ asks' = rest \union {q} /\ turn' = Idle /\ ran' = ran
          /\ n = Len(calls) + 1 /\ Cardinality(rest) < AskCap
          /\ (era = "legacy" => d.pc = "asked")
      <3>1. answer \notin Answered
        BY <1>12 DEF Poses, Answered
      <3>2. QED BY <1>1, <1>2, <1>12, <2>1, <3>1 DEF Poses
    <2>3. /\ q.token = n /\ q.call = n /\ q.front = cs[n].front /\ q.wire = cs[n].wire
          /\ q.binding = b
      BY <2>1
    <2>4. /\ d.front = cs[n].front /\ d.wire = cs[n].wire /\ Binding(d) = b
      BY <1>12, <2>1 DEF Poses, Settled, Alike, Binding
    <2>5. q \in AskRecords
      <3>1. n \in Nat /\ d.front \in FrontendIds /\ d.wire \in Nat /\ d.tool \in STRING
            /\ d.args \in Nat /\ d.caller \in Everyone
        BY <2>2 DEF Moved, CallRecords
      <3>2. b \in Triples
        BY <2>4, <3>1 DEF Binding, Triples
      <3>3. PICK f, w : f = cs[n].front /\ w = cs[n].wire
        OBVIOUS
      <3>4. f \in FrontendIds /\ w \in Nat
        BY <2>4, <3>1, <3>3
      <3>5. q = [token |-> n, call |-> n, front |-> f, wire |-> w, binding |-> b]
        BY <2>1, <3>3
      <3>6. QED BY <3>1, <3>2, <3>4, <3>5 DEF AskRecords
    <2>6. IsFiniteSet(asks') /\ Cardinality(asks') <= AskCap /\ asks' \subseteq AskRecords
      <3>1. /\ IsFiniteSet(rest \union {q})
            /\ Cardinality(rest \union {q}) \in {Cardinality(rest), Cardinality(rest) + 1}
        BY <1>3, FS_AddElement
      <3>2. QED BY <1>3, <2>2, <2>5, <3>1
    <2>7. Shape'
      BY <1>6, <1>10, <2>2, <2>6 DEF Shape, Moved, Idle, TurnRecords
    <2>8. Asking'
      <3>1. /\ q.token = q.call /\ q.call \in 1..Len(calls')
            /\ q.front = calls'[q.call].front /\ q.wire = calls'[q.call].wire
            /\ q.binding = Binding(calls'[q.call])
            /\ era = "legacy" => calls'[q.call].pc = "asked"
        BY <2>2, <2>3, <2>4 DEF Moved
      <3>2. QED BY <1>7, <2>2, <3>1 DEF Asking
    <2>9. Spending' /\ ConsentIsSpentOnce'
      <3>1. \A i \in 1..Len(ran) : q.token # ran[i].token
        BY <1>5, <2>2, <2>3 DEF Moved
      <3>2. QED BY <1>5, <1>8, <1>9, <2>2, <3>1 DEF Spending, ConsentIsSpentOnce
    <2>10. Holding'
      BY <2>2 DEF Holding, Idle
    <2>11. QED BY <2>2, <2>7, <2>8, <2>9, <2>10 DEF Moved, Good, IInv
  <1>13. ASSUME NEW x \in RanRecords, Allows(cs, n, answer, grounds, rest, x) PROVE Good
    <2>1. /\ Moved(cs[n]) /\ asks' = rest /\ turn' = [pc |-> "dispatch", call |-> n]
          /\ Check(cs[n].front, cs[n].wire, ClassOf(cs[n].tool)) \in Place
          /\ x.token = grounds /\ x.tool = cs[n].tool /\ x.answer = answer
          /\ x.what = <<cs[n].tool, cs[n].args, cs[n].caller>>
          /\ (LiveQuestion(PolicyOf(x.tool)) =>
                 answer = "accepted" \/ (answer = "missing" /\ x.flag))
          /\ (~AlwaysAllowed(PolicyOf(x.tool)) => ~x.held)
          /\ ran' = Append(ran, x)
      BY <1>1, <1>13 DEF Allows
    <2>2. /\ ran' \in Seq(RanRecords) /\ Len(ran') = Len(ran) + 1 /\ ran'[Len(ran) + 1] = x
          /\ \A i \in 1..Len(ran) : ran'[i] = ran[i]
      BY <1>6, <2>1, Appended
    <2>3. \A i \in 1..Len(ran') : i \in 1..Len(ran) \/ i = Len(ran) + 1
      BY <1>6, <2>2
    <2>4. turn' \in TurnRecords /\ turn'.pc = "dispatch" /\ turn'.call = n
      <3>1. n \in Nat
        BY <2>1 DEF Moved
      <3>2. QED BY <2>1, <3>1 DEF TurnRecords
    <2>5. Shape'
      BY <1>3, <1>10, <2>1, <2>2, <2>4 DEF Shape, Moved
    <2>6. Asking'
      BY <1>7, <2>1 DEF Asking
    <2>7. /\ grounds \in 0..Len(calls') /\ \A a \in rest : a.token # grounds
          /\ \A i \in 1..Len(ran) : grounds # 0 => ran[i].token # grounds
      <3>1. CASE answer = "missing" /\ grounds = 0 /\ n = Len(calls) + 1
        BY <1>4, <2>1, <3>1 DEF Moved
      <3>2. CASE grounds \in 1..Len(calls) /\ (\A a \in rest : a.token # grounds)
                 /\ (\A i \in 1..Len(ran) : ran[i].token # grounds)
        BY <2>1, <3>2 DEF Moved
      <3>3. QED BY <1>2, <3>1, <3>2
    <2>8. Spending'
      <3>1. SUFFICES ASSUME NEW i \in 1..Len(ran')
                     PROVE  /\ ran'[i].token \in 0..Len(calls')
                            /\ \A a \in rest : a.token # ran'[i].token
        BY <2>1 DEF Spending
      <3>2. CASE i \in 1..Len(ran)
        BY <1>5, <1>8, <2>1, <2>2, <3>2
      <3>3. CASE i = Len(ran) + 1
        BY <2>1, <2>2, <2>7, <3>3
      <3>4. QED BY <2>3, <3>2, <3>3
    <2>9. LiveQuestion(PolicyOf(x.tool)) =>
            \/ x.flag /\ x.token = 0
            \/ /\ x.answer = "accepted" /\ x.token # 0
               /\ LET asked == calls'[x.token]
                  IN x.what = <<asked.tool, asked.args, asked.caller>>
      <3>1. CASE answer = "missing" /\ grounds = 0
        BY <2>1, <3>1
      <3>2. CASE /\ answer \in Answered /\ grounds \in 1..Len(calls)
                 /\ Binding(cs[n]) = Binding(calls[grounds])
        <4>1. Alike(calls[grounds], calls'[grounds])
          BY <2>1, <3>2 DEF Moved
        <4>2. Binding(calls'[grounds]) = Binding(calls[grounds])
          BY <4>1 DEF Alike, Binding
        <4>3. x.what = Binding(calls'[grounds])
          BY <2>1, <3>2, <4>2 DEF Binding
        <4>4. grounds # 0 /\ answer # "missing"
          BY <2>1, <3>2 DEF Answered, Moved
        <4>5. QED BY <2>1, <4>3, <4>4 DEF Binding
      <3>3. QED BY <1>2, <3>1, <3>2
    <2>10. ConsentIsSpentOnce'
      <3>1. ASSUME NEW i \in 1..Len(ran')
            PROVE  /\ LiveQuestion(PolicyOf(ran'[i].tool)) =>
                         \/ ran'[i].flag /\ ran'[i].token = 0
                         \/ /\ ran'[i].answer = "accepted" /\ ran'[i].token # 0
                            /\ LET asked == calls'[ran'[i].token]
                               IN ran'[i].what = <<asked.tool, asked.args, asked.caller>>
                   /\ ~AlwaysAllowed(PolicyOf(ran'[i].tool)) => ~ran'[i].held
        <4>1. CASE i \in 1..Len(ran)
          <5>1. ran'[i] = ran[i]
            BY <2>2, <4>1
          <5>2. QED BY <1>8, <2>1, <4>1, <5>1
        <4>2. CASE i = Len(ran) + 1
          <5>1. ran'[i] = x
            BY <2>2, <4>2
          <5>2. QED BY <2>1, <2>9, <5>1
        <4>3. QED BY <2>3, <4>1, <4>2
      <3>2. ASSUME NEW i \in 1..Len(ran'), NEW j \in 1..Len(ran'), i # j, ran'[i].token # 0
            PROVE  ran'[i].token # ran'[j].token
        <4>1. CASE i \in 1..Len(ran) /\ j \in 1..Len(ran)
          BY <1>9, <2>2, <3>2, <4>1
        <4>2. CASE i = Len(ran) + 1 /\ j \in 1..Len(ran)
          BY <2>1, <2>2, <2>7, <3>2, <4>2
        <4>3. CASE i \in 1..Len(ran) /\ j = Len(ran) + 1
          BY <2>1, <2>2, <2>7, <3>2, <4>3
        <4>4. QED BY <2>3, <3>2, <4>1, <4>2, <4>3
      <3>3. QED BY <3>1, <3>2 DEF ConsentIsSpentOnce
    <2>11. Holding'
      <3>1. /\ n \in 1..Len(calls') /\ calls'[n] = cs[n] /\ Entries' \subseteq Entries
            /\ calls'[n].pc \in {"new", "asked"} /\ phase' = "open"
        BY <1>2, <2>1 DEF Moved, Presented
      <3>2. ~\E m \in Entries : calls[m].front = cs[n].front /\ calls[m].wire = cs[n].wire
        <4>1. "closed" \notin Place /\ "duplicate" \notin Place
          BY DEF Place
        <4>2. QED BY <2>1, <4>1, CheckIs
      <3>3. \A m \in Entries : /\ m \in 1..Len(calls)
                               /\ calls'[m].front = calls[m].front /\ calls'[m].wire = calls[m].wire
        BY <2>1 DEF Moved, Entries, Alike
      <3>4. \A a \in asks' : a.call # n
        BY <1>4, <2>1
      <3>5. turn'.pc # "idle"
        BY <2>4
      <3>6. QED BY <2>4, <3>1, <3>2, <3>3, <3>4, <3>5 DEF Holding
    <2>12. QED BY <2>1, <2>5, <2>6, <2>8, <2>10, <2>11 DEF Moved, Good, IInv
  <1>14. QED BY <1>11, <1>12, <1>13, AuthorizeIs

-----------------------------------------------------------------------------
(* Calls, answers and expiry.                                              *)

\* A new exchange, at the end of the exchanges there are.
LEMMA AddedExchange ==
  ASSUME IInv, NEW c \in CallRecords, CallOK(c), c.pc = "new", c.attempt = 0,
         c.why = "none", fronts[c.front] = "open", NEW cs, cs = Append(calls, c)
  PROVE  /\ cs \in Seq(CallRecords) /\ Len(cs) = Len(calls) + 1 /\ Len(cs) \in 1..Len(cs)
         /\ cs[Len(cs)] = c /\ Len(calls) \in Nat
         /\ \A m \in 1..Len(calls) : cs[m] = calls[m]
         /\ c.attempt <= Len(attempts)
  <1>2. calls \in Seq(CallRecords) /\ Len(calls) \in Nat /\ Len(attempts) \in Nat
    BY LenProperties DEF IInv, Shape
  <1>3. /\ cs \in Seq(CallRecords) /\ Len(cs) = Len(calls) + 1 /\ cs[Len(calls) + 1] = c
        /\ \A m \in 1..Len(calls) : cs[m] = calls[m]
    BY <1>2, Appended
  <1>4. Len(cs) \in 1..Len(cs) /\ 0 <= Len(attempts)
    BY ONLY <1>2, <1>3
  <1>5. cs[Len(cs)] = c
    BY ONLY <1>3
  <1>6. QED BY <1>2, <1>3, <1>4, <1>5

\* A continuation stands for an exchange before any new one.
LEMMA AskFacts ==
  ASSUME IInv, NEW a \in asks
  PROVE  /\ a.token = a.call /\ a.call \in 1..Len(calls) /\ a.token \in 1..Len(calls)
         /\ a.binding = Binding(calls[a.token])
         /\ \A i \in 1..Len(ran) : ran[i].token # a.token
         /\ \A b \in Taken(a.token) : b \in asks /\ b.token # a.token /\ b.call # a.call
  BY DEF IInv, Asking, Spending, Taken

\* Host::prepare and authorize for a frame with a call.
LEMMA SubmitKeeps ==
  ASSUME IInv, NEW f \in FrontendIds, NEW w \in Nat, NEW t \in Intents,
         Submit(f, w, t.tool, t.args, t.caller, t.elicit, t.confirm)
  PROVE  Good
  <1>1. PICK c, cs, n : /\ c = NewCall(f, w, t.tool, t.args, t.caller, t.elicit, t.confirm)
                        /\ cs = Append(calls, c) /\ n = Len(cs)
    OBVIOUS
  <1>2. /\ UNCHANGED <<script, era, fronts, ingress, attempts, runtime, phase>>
        /\ phase = "open" /\ turn = Idle /\ fronts[f] = "open"
        /\ Authorize(cs, n, "missing", 0, asks)
    BY <1>1 DEF Submit
  <1>3. /\ t.tool \in STRING /\ t.args \in Nat /\ t.caller \in Everyone
        /\ t.elicit \in BOOLEAN /\ t.confirm \in BOOLEAN
    BY DEF Intents
  <1>4. /\ cs \in Seq(CallRecords) /\ n = Len(calls) + 1 /\ n \in 1..Len(cs)
        /\ cs[n] = c /\ Len(calls) \in Nat
        /\ \A m \in 1..Len(calls) : cs[m] = calls[m]
        /\ CallOK(c) /\ c.pc = "new" /\ c.attempt <= Len(attempts)
        /\ c.why = "none" /\ fronts[c.front] = "open"
    <2>1. PICK tool, args, caller, elicit, confirm :
            /\ tool = t.tool /\ args = t.args /\ caller = t.caller
            /\ elicit = t.elicit /\ confirm = t.confirm
      OBVIOUS
    <2>2. /\ c \in CallRecords /\ CallOK(c) /\ c.pc = "new" /\ c.attempt = 0
          /\ c.front = f /\ c.why = "none"
      BY ONLY <1>1, <1>3, <2>1, f \in FrontendIds, w \in Nat
      DEF NewCall, CallRecords, CallOK, StopClasses, Place
    <2>3. fronts[c.front] = "open"
      BY <1>2, <2>2
    <2>4. /\ cs \in Seq(CallRecords) /\ Len(cs) = Len(calls) + 1 /\ Len(cs) \in 1..Len(cs)
          /\ cs[Len(cs)] = c /\ Len(calls) \in Nat
          /\ \A m \in 1..Len(calls) : cs[m] = calls[m]
          /\ c.attempt <= Len(attempts)
      <3>1. cs = Append(calls, c)
        BY <1>1
      <3>2. QED BY ONLY IInv, <2>2, <2>3, <3>1, AddedExchange
    <2>5. QED BY ONLY <1>1, <2>2, <2>3, <2>4
  <1>5. \A a \in asks : a.call # n
    <2>1. \A a \in asks : a.call \in 1..Len(calls)
      BY AskFacts
    <2>2. QED BY <1>4, <2>1
  <1>6. Presented(cs, n, "missing", 0, asks)
    BY <1>1, <1>2, <1>4, <1>5 DEF Presented
  <1>7. QED BY <1>2, <1>6, AuthorizeKeeps

\* An answer that does not fit its question is refused, and the question stays.
LEMMA MisfitKeeps ==
  ASSUME IInv, UNCHANGED <<script, era, fronts, ingress, asks, turn, ran, attempts, runtime, phase>>,
         turn = Idle, era = "modern", NEW c \in CallRecords, CallOK(c), c.attempt <= Len(attempts),
         NEW d, d = Refusal(c, "refused"), calls' = Append(calls, d)
  PROVE  Good
  <1>1. /\ d \in CallRecords /\ CallOK(d) /\ d.pc = "over" /\ d.why = "refused"
        /\ d.attempt = c.attempt
    BY RefusedIs
  <1>2. calls \in Seq(CallRecords) /\ Len(calls) \in Nat
    BY LenProperties DEF IInv, Shape
  <1>3. /\ calls' \in Seq(CallRecords) /\ Len(calls') = Len(calls) + 1
        /\ calls'[Len(calls) + 1] = d /\ \A m \in 1..Len(calls) : calls'[m] = calls[m]
    BY <1>1, <1>2, Appended
  <1>4. \A m \in 1..Len(calls') : m \in 1..Len(calls) \/ m = Len(calls) + 1
    BY <1>2, <1>3
  <1>5. \A m \in 1..Len(calls) : m \in 1..Len(calls')
    BY <1>2, <1>3
  <1>6. Shape'
    BY <1>3 DEF IInv, Shape
  <1>7. Owing'
    <2>1. SUFFICES ASSUME NEW m \in 1..Len(calls')
                   PROVE  CallOK(calls'[m]) /\ calls'[m].attempt <= Len(attempts)
      BY DEF Owing
    <2>2. CASE m \in 1..Len(calls)
      BY <1>3, <2>2 DEF IInv, Owing
    <2>3. CASE m = Len(calls) + 1
      BY <1>1, <1>3, <2>3
    <2>4. QED BY <1>4, <2>2, <2>3
  <1>8. Asking'
    BY <1>3, <1>5 DEF IInv, Asking
  <1>9. \A i \in 1..Len(ran) : ran[i].token \in 0..Len(calls)
    BY DEF IInv, Spending
  <1>10. Spending'
    <2>1. \A i \in 1..Len(ran) : ran[i].token \in 0..Len(calls')
      BY <1>2, <1>3, <1>9
    <2>2. QED BY <2>1 DEF IInv, Spending
  <1>11. ConsentIsSpentOnce'
    <2>1. \A i \in 1..Len(ran) : ran[i].token # 0 => calls'[ran[i].token] = calls[ran[i].token]
      BY <1>2, <1>3, <1>9
    <2>2. QED BY <2>1 DEF IInv, ConsentIsSpentOnce
  <1>12. Holding' /\ Home'
    BY DEF Holding, Home, Idle
  <1>13. ExactStep
    BY <1>3 DEF ExactStep
  <1>14. RefusalStep
    <2>1. SUFFICES ASSUME NEW m \in 1..Len(calls'), calls'[m].why = "capacity",
                          m > Len(calls) \/ calls[m].why # "capacity"
                   PROVE  FALSE
      BY DEF RefusalStep
    <2>2. CASE m \in 1..Len(calls)
      BY <1>2, <1>3, <2>1, <2>2
    <2>3. CASE m = Len(calls) + 1
      BY <1>1, <1>3, <2>1, <2>3
    <2>4. QED BY <1>4, <2>2, <2>3
  <1>15. QED BY <1>6, <1>7, <1>8, <1>10, <1>11, <1>12, <1>13, <1>14 DEF Good, IInv

\* Host::resume: the answer of an exchange of its own.
LEMMA ResumeKeeps ==
  ASSUME IInv, NEW f \in FrontendIds, NEW w \in Nat, NEW token, NEW t \in Intents,
         NEW answer \in Answered, Resume(f, w, token, t.args, t.caller, answer)
  PROVE  Good
  <1>1. /\ UNCHANGED <<script, era, fronts, ingress, attempts, runtime, phase>>
        /\ phase = "open" /\ turn = Idle /\ fronts[f] = "open" /\ era = "modern"
    BY DEF Resume
  <1>2. PICK a \in asks :
           /\ a.token = token
           /\ LET original == calls[a.call]
                  c == NewCall(f, w, original.tool, t.args, t.caller, TRUE, FALSE)
                  cs == Append(calls, c)
              IN IF Binding(c) # a.binding
                 THEN /\ calls' = Append(calls, Refusal(c, "refused"))
                      /\ UNCHANGED <<asks, turn, ran>>
                 ELSE Authorize(cs, Len(cs), answer, token, Taken(token))
    BY Zenon DEF Resume, Refusal
  <1>3. PICK tool, c, cs, n : /\ tool = calls[a.call].tool
                              /\ c = NewCall(f, w, tool, t.args, t.caller, TRUE, FALSE)
                              /\ cs = Append(calls, c) /\ n = Len(cs)
    OBVIOUS
  <1>4. \/ /\ Binding(c) # a.binding /\ calls' = Append(calls, Refusal(c, "refused"))
           /\ UNCHANGED <<asks, turn, ran>>
        \/ Binding(c) = a.binding /\ Authorize(cs, n, answer, token, Taken(token))
    BY <1>2, <1>3
  <1>5. /\ a.token = a.call /\ a.call \in 1..Len(calls) /\ token \in 1..Len(calls)
        /\ a.binding = Binding(calls[token])
        /\ \A i \in 1..Len(ran) : ran[i].token # token
        /\ \A b \in Taken(token) : b \in asks /\ b.token # token
        /\ \A b \in asks : b.call \in 1..Len(calls)
    BY <1>2, AskFacts
  <1>6. tool \in STRING
    <2>1. calls[a.call] \in CallRecords
      BY <1>5, ElementOfSeq DEF IInv, Shape
    <2>2. QED BY <1>3, <2>1 DEF CallRecords
  <1>7. t.args \in Nat /\ t.caller \in Everyone
    BY DEF Intents
  <1>8. /\ cs \in Seq(CallRecords) /\ n = Len(calls) + 1 /\ Len(cs) = n /\ n \in 1..Len(cs)
        /\ cs[n] = c /\ Len(calls) \in Nat
        /\ \A m \in 1..Len(calls) : cs[m] = calls[m]
        /\ CallOK(c) /\ c.pc = "new" /\ c.attempt <= Len(attempts)
        /\ c.why = "none" /\ fronts[c.front] = "open" /\ c \in CallRecords
    <2>1. PICK args, caller : args = t.args /\ caller = t.caller
      OBVIOUS
    <2>2. /\ c \in CallRecords /\ CallOK(c) /\ c.pc = "new" /\ c.attempt = 0
          /\ c.front = f /\ c.why = "none"
      BY ONLY <1>3, <1>6, <1>7, <2>1, f \in FrontendIds, w \in Nat
      DEF NewCall, CallRecords, CallOK, StopClasses, Place
    <2>3. fronts[c.front] = "open"
      BY <1>1, <2>2
    <2>4. /\ cs \in Seq(CallRecords) /\ Len(cs) = Len(calls) + 1 /\ Len(cs) \in 1..Len(cs)
          /\ cs[Len(cs)] = c /\ Len(calls) \in Nat
          /\ \A m \in 1..Len(calls) : cs[m] = calls[m]
          /\ c.attempt <= Len(attempts)
      <3>1. cs = Append(calls, c)
        BY <1>3
      <3>2. QED BY ONLY IInv, <2>2, <2>3, <3>1, AddedExchange
    <2>5. QED BY ONLY <1>3, <2>2, <2>3, <2>4
  <1>9. CASE calls' = Append(calls, Refusal(c, "refused")) /\ UNCHANGED <<asks, turn, ran>>
    BY <1>1, <1>8, <1>9, MisfitKeeps
  <1>10. CASE Binding(c) = a.binding /\ Authorize(cs, n, answer, token, Taken(token))
    <2>1. \A b \in Taken(token) : b.call # n
      BY <1>5, <1>8
    <2>2. Presented(cs, n, answer, token, Taken(token))
      BY <1>1, <1>5, <1>8, <1>10, <2>1 DEF Presented
    <2>3. QED BY <1>1, <1>10, <2>2, AuthorizeKeeps
  <1>11. QED BY <1>4, <1>9, <1>10

\* take_legacy_for: the answer on the session that was asked.
LEMMA LegacyAnswerKeeps ==
  ASSUME IInv, NEW token, NEW answer \in Answered, LegacyAnswer(token, answer)
  PROVE  Good
  <1>1. /\ UNCHANGED <<script, era, fronts, ingress, attempts, runtime, phase>>
        /\ phase = "open" /\ turn = Idle /\ era = "legacy"
    BY DEF LegacyAnswer
  <1>2. PICK a \in asks : /\ a.token = token /\ fronts[a.front] = "open"
                          /\ Authorize(calls, a.call, answer, token, Taken(token))
    BY DEF LegacyAnswer
  <1>3. /\ a.call = token /\ token \in 1..Len(calls)
        /\ \A i \in 1..Len(ran) : ran[i].token # token
        /\ \A b \in Taken(token) : b \in asks /\ b.token # token /\ b.call # token
    BY <1>2, AskFacts
  <1>4. calls[token].pc = "asked" /\ a.front = calls[token].front
    BY <1>1, <1>2, <1>3 DEF IInv, Asking
  <1>5. CallOK(calls[token]) /\ calls[token].attempt <= Len(attempts)
    BY <1>3 DEF IInv, Owing
  <1>6. Presented(calls, token, answer, token, Taken(token))
    <2>1. calls \in Seq(CallRecords)
      BY DEF IInv, Shape
    <2>2. QED BY <1>1, <1>2, <1>3, <1>4, <1>5, <2>1 DEF Presented
  <1>7. Authorize(calls, token, answer, token, Taken(token))
    BY <1>2, <1>3
  <1>8. QED BY <1>1, <1>6, <1>7, AuthorizeKeeps

\* The lifetime of a continuation ends; on a session its exchange is answered.
LEMMA AskExpiresKeeps ==
  ASSUME IInv, NEW token, AskExpires(token)
  PROVE  Good
  <1>1. /\ UNCHANGED <<script, era, fronts, ingress, turn, attempts, runtime, phase, ran>>
        /\ phase = "open" /\ turn = Idle
    BY DEF AskExpires
  <1>2. PICK a \in asks :
          /\ asks' = asks \ {a}
          /\ calls' = IF era = "legacy" THEN [calls EXCEPT ![a.call] = Replied(calls[a.call])]
                      ELSE calls
    BY DEF AskExpires
  <1>3. Around
    BY <1>1, AroundStands
  <1>4. /\ calls \in Seq(CallRecords) /\ Len(calls) \in Nat /\ Len(attempts) \in Nat
        /\ \A n \in 1..Len(calls) : calls[n] \in CallRecords
        /\ \A n \in 1..Len(calls) : CallOK(calls[n]) /\ calls[n].attempt <= Len(attempts)
    BY ElementOfSeq, LenProperties DEF IInv, Shape, Owing
  <1>5. CASE era # "legacy"
    <2>1. calls' = calls
      BY <1>2, <1>5
    <2>2. Onward /\ Quiet
      BY <1>1, <1>2, <1>4, <1>5, <2>1 DEF Onward, Quiet, Alike
    <2>3. QED BY <1>3, <2>2, Moves, QuietSteps DEF Good
  <1>6. CASE era = "legacy"
    <2>1. PICK k, d : k = a.call /\ d = Replied(calls[k])
      OBVIOUS
    <2>2. k \in 1..Len(calls) /\ calls[k].pc = "asked"
      BY <1>6, <2>1 DEF IInv, Asking
    <2>3. /\ d \in CallRecords /\ Alike(calls[k], d) /\ CallOK(d) /\ d.attempt = calls[k].attempt
          /\ d.pc = "over" /\ d.replies = calls[k].replies + 1 /\ d.why = calls[k].why
      BY <1>4, <2>1, <2>2, RepliedIs
    <2>4. /\ calls' \in Seq(CallRecords) /\ Len(calls') = Len(calls) /\ calls'[k] = d
          /\ \A n \in 1..Len(calls) : n # k => calls'[n] = calls[n]
      <3>1. calls' = [calls EXCEPT ![k] = d]
        BY <1>2, <1>6, <2>1
      <3>2. QED BY <1>4, <2>2, <2>3, <3>1, Replaced
    <2>5. \A b \in asks' : b \in asks /\ b.call \in 1..Len(calls) /\ b.call # k
      <3>1. SUFFICES ASSUME NEW b \in asks, b # a PROVE b.call # k /\ b.call \in 1..Len(calls)
        BY <1>2
      <3>2. /\ a \in AskRecords /\ b \in AskRecords
            /\ a.token = a.call /\ b.token = b.call /\ b.call \in 1..Len(calls)
            /\ a.front = calls[a.call].front /\ a.wire = calls[a.call].wire
            /\ b.front = calls[b.call].front /\ b.wire = calls[b.call].wire
            /\ a.binding = Binding(calls[a.call]) /\ b.binding = Binding(calls[b.call])
        BY DEF IInv, Shape, Asking
      <3>3. SUFFICES ASSUME b.call = k PROVE a = b
        BY <3>1, <3>2
      <3>4. /\ a.token = b.token /\ a.call = b.call /\ a.front = b.front /\ a.wire = b.wire
            /\ a.binding = b.binding
        BY <2>1, <3>2, <3>3
      <3>5. QED BY <3>2, <3>4 DEF AskRecords
    <2>6. \A n \in 1..Len(calls) : /\ Alike(calls[n], calls'[n]) /\ CallOK(calls'[n])
                                   /\ calls'[n].attempt <= Len(attempts')
      <3> TAKE n \in 1..Len(calls)
      <3>1. CASE n = k
        BY <1>1, <1>4, <2>3, <2>4, <3>1
      <3>2. CASE n # k
        BY <1>1, <1>4, <2>4, <3>2 DEF Alike
      <3>3. QED BY <3>1, <3>2
    <2>7. Onward
      <3>1. \A b \in asks' : calls'[b.call].pc = calls[b.call].pc
        BY <2>4, <2>5
      <3>2. asks' \subseteq asks /\ turn' = Idle
        BY <1>1, <1>2
      <3>3. QED BY <1>1, <2>4, <2>6, <3>1, <3>2 DEF Onward
    <2>8. IInv'
      BY <1>3, <2>7, Moves
    <2>9. ExactStep
      <3>1. /\ calls[k].replies = 0 /\ ~calls[k].cancelled
        BY <1>4, <2>2 DEF CallOK
      <3>2. fronts[calls[k].front] = "open"
        BY <1>1, <1>6, <2>2 DEF IInv, Home
      <3>3. d.replies = 1
        BY <2>3, <3>1
      <3>4. QED BY <1>1, <2>4, <3>1, <3>2, <3>3 DEF ExactStep
    <2>10. RefusalStep
      <3>1. \A n \in 1..Len(calls) : calls'[n].why = calls[n].why
        BY <2>3, <2>4
      <3>2. QED BY <1>4, <2>4, <3>1 DEF RefusalStep
    <2>11. QED BY <2>8, <2>9, <2>10 DEF Good
  <1>7. QED BY <1>5, <1>6

-----------------------------------------------------------------------------
(* The specification.                                                      *)

\* Every step of the host.
LEMMA HostNextKeeps ==
  ASSUME IInv, HostNext
  PROVE  Good
  <1>1. /\ script \in Scripts /\ script.wires \subseteq Nat /\ script.calls \subseteq Intents
    BY HostAssumption DEF IInv, Shape
  <1>2. ASSUME FrontendNext PROVE Good
    <2>1. CASE \E class \in {ClassOf(t.tool) : t \in script.calls} : Connect(class)
      <3>1. PICK class \in {ClassOf(t.tool) : t \in script.calls} : Connect(class)
        BY <2>1
      <3>2. class \in {"ordinary", "take", "safety"}
        BY <3>1 DEF ClassOf
      <3>3. QED BY <3>1, <3>2, ConnectKeeps
    <2>2. CASE \E f \in FrontendIds :
                  \/ Depart(f) \/ Disconnect(f) \/ RetireFrontend(f)
                  \/ \E w \in script.wires : CancelRequest(f, w)
      BY <2>2, FrontLeaves, DisconnectKeeps, CancelRequestKeeps
    <2>3. QED BY <1>2, <2>1, <2>2 DEF FrontendNext
  <1>3. ASSUME CallNext PROVE Good
    <2>1. CASE \E f \in FrontendIds, w \in NextWires, t \in script.calls :
                  Submit(f, w, t.tool, t.args, t.caller, t.elicit, t.confirm)
      <3>1. PICK f \in FrontendIds, w \in NextWires, t \in script.calls :
                  Submit(f, w, t.tool, t.args, t.caller, t.elicit, t.confirm)
        BY <2>1
      <3>2. w \in Nat /\ t \in Intents
        BY <1>1 DEF NextWires
      <3>3. QED BY <3>1, <3>2, SubmitKeeps
    <2>2. CASE \E f \in FrontendIds, w \in script.wires, token \in 1..script.most,
                  t \in script.calls, answer \in Answered :
                  Resume(f, w, token, t.args, t.caller, answer)
      <3>1. PICK f \in FrontendIds, w \in script.wires, token \in 1..script.most,
                 t \in script.calls, answer \in Answered :
                  Resume(f, w, token, t.args, t.caller, answer)
        BY <2>2
      <3>2. w \in Nat /\ t \in Intents
        BY <1>1
      <3>3. QED BY <3>1, <3>2, ResumeKeeps
    <2>3. CASE \E token \in 1..script.most :
                  AskExpires(token) \/ \E answer \in Answered : LegacyAnswer(token, answer)
      BY <2>3, AskExpiresKeeps, LegacyAnswerKeeps
    <2>4. CASE Dispatch
      BY <2>4, DispatchKeeps
    <2>5. QED BY <1>3, <2>1, <2>2, <2>3, <2>4 DEF CallNext
  <1>4. ASSUME JobNext PROVE Good
    <2>1. CASE \E n \in 1..Len(calls) : Resolve(n) \/ Served(n) \/ Complete(n) \/ JoinJob(n)
      BY <2>1, JobKeeps, CompleteKeeps
    <2>2. CASE AttemptStep \/ AcceptAttempt \/ StopOwner \/ HostDown
      BY <2>2, RuntimeKeeps DEF AttemptStep
    <2>3. QED BY <1>4, <2>1, <2>2 DEF JobNext
  <1>5. ASSUME HostStops PROVE Good
    BY <1>5, HostStopsKeeps
  <1>6. ASSUME LeaseMoves PROVE Good
    BY <1>6, RuntimeKeeps DEF LeaseMoves
  <1>7. QED BY <1>2, <1>3, <1>4, <1>5, <1>6 DEF HostNext

\* Every step of the serving side; the other parts leave the host alone.
LEMMA StepKeeps ==
  ASSUME IInv, [Next]_allVars
  PROVE  Good
  <1>1. CASE HostNext
    BY <1>1, HostNextKeeps
  <1>2. CASE UNCHANGED hostVars
    BY <1>2, RuntimeKeeps
  <1>3. HostNext \/ UNCHANGED hostVars
    BY DEF Next, ServiceOnly, PipeOnly, WebOnly, allVars
  <1>4. QED BY <1>1, <1>2, <1>3

\* Nothing is registered, asked or run at the beginning.
LEMMA InitKeeps ==
  ASSUME Init
  PROVE  IInv
  <1>1. PICK s \in Scripts : HostInit(s)
    BY DEF Init
  <1>2. /\ script = s /\ era = s.era /\ script \in Scripts /\ s.connected \in BOOLEAN
        /\ fronts = [f \in FrontendIds |-> "new"] /\ ingress = [c \in StopClasses |-> 0]
        /\ calls = <<>> /\ turn = Idle /\ asks = {} /\ attempts = <<>> /\ ran = <<>>
        /\ runtime = [attempt |-> 0, outcome |-> "none", owner |-> s.connected,
                      broken |-> FALSE, cleanup |-> FALSE]
        /\ phase = "open"
    BY <1>1, HostAssumption DEF HostInit
  <1>3. /\ Len(calls) = 0 /\ Len(attempts) = 0 /\ Len(ran) = 0
        /\ calls \in Seq(CallRecords) /\ ran \in Seq(RanRecords)
        /\ attempts \in Seq({"pending", "ready", "failed"})
    BY <1>2
  <1>4. Shape
    <2>1. IsFiniteSet(asks) /\ Cardinality(asks) = 0 /\ AskCap \in Nat
      BY <1>2, FS_EmptySet, HostAssumption
    <2>2. runtime \in RuntimeRecords /\ runtime.attempt = 0
      <3>1. PICK o \in BOOLEAN : o = s.connected
        BY <1>2
      <3>2. runtime = [attempt |-> 0, outcome |-> "none", owner |-> o,
                       broken |-> FALSE, cleanup |-> FALSE]
        BY <1>2, <3>1
      <3>3. QED BY <3>2 DEF RuntimeRecords
    <2>3. turn \in TurnRecords
      BY <1>2 DEF TurnRecords, Idle
    <2>4. QED BY <1>2, <1>3, <2>1, <2>2, <2>3 DEF Shape
  <1>5. Owing /\ Asking /\ Spending /\ ConsentIsSpentOnce /\ Home
    BY <1>2, <1>3 DEF Owing, Asking, Spending, ConsentIsSpentOnce, Home
  <1>6. Holding
    BY <1>2 DEF Holding, Idle
  <1>7. QED BY <1>4, <1>5, <1>6 DEF IInv

\* What the invariant says of the types.
LEMMA TypesFollow ==
  ASSUME IInv
  PROVE  HostTypeOK
  <1>1. /\ calls \in Seq(CallRecords) /\ Len(calls) \in Nat /\ Len(attempts) \in Nat
        /\ \A n \in 1..Len(calls) : calls[n] \in CallRecords
    BY ElementOfSeq, LenProperties DEF IInv, Shape
  <1>2. /\ phase \in {"open", "closing", "down"}
        /\ fronts \in [FrontendIds -> {"new", "open", "departed", "gone"}]
        /\ ingress \in [StopClasses -> FrontendIds \union {0}]
        /\ Cardinality(asks) <= AskCap /\ attempts \in Seq({"pending", "ready", "failed"})
        /\ runtime \in RuntimeRecords /\ runtime.attempt \in 0..Len(attempts)
        /\ turn \in TurnRecords
    BY DEF IInv, Shape
  <1>3. era \in {"legacy", "modern"}
    BY HostAssumption DEF IInv, Shape
  <1>4. ASSUME NEW n \in 1..Len(calls)
        PROVE  /\ calls[n].pc \in {"new", "asked", "resolving", "calling", "done", "over"}
               /\ calls[n].reserved \in Place /\ calls[n].attempt \in 0..Len(attempts)
               /\ calls[n].permit \in {"none", "ordinary"} \union StopClasses
    <2>1. /\ calls[n].pc \in {"new", "asked", "resolving", "calling", "done", "over"}
          /\ calls[n].reserved \in Place /\ calls[n].attempt \in Nat
          /\ calls[n].permit \in {"none", "ordinary", "take", "safety"}
      BY <1>1 DEF CallRecords
    <2>2. calls[n].attempt <= Len(attempts)
      BY DEF IInv, Owing
    <2>3. QED BY <1>1, <2>1, <2>2 DEF StopClasses
  <1>5. turn.pc \in {"idle", "dispatch"} /\ turn.call \in 0..Len(calls)
    BY <1>1, <1>2 DEF IInv, Holding, TurnRecords, Idle
  <1>6. {a.call : a \in asks} \subseteq 1..Len(calls)
    BY DEF IInv, Asking
  <1>7. runtime.outcome \in {"none", "ready", "failed", "unjoined"}
    BY <1>2 DEF RuntimeRecords
  <1>8. QED BY <1>2, <1>3, <1>4, <1>5, <1>6, <1>7 DEF HostTypeOK

-----------------------------------------------------------------------------
(* The inductive invariant of the host holds in every state of the serving   *)
(* side: exchanges owe what their stage says, continuations stand for the    *)
(* exchange they were asked for, used answers are gone.                      *)
THEOREM HostInvariance == Spec => []IInv
  <1>1. Init => IInv
    BY InitKeeps
  <1>2. IInv /\ [Next]_allVars => IInv'
    BY StepKeeps DEF Good
  <1>3. QED BY <1>1, <1>2, PTL DEF Spec

(* The state of the host is well formed, whatever clients do: every          *)
(* exchange, continuation and attempt the code looks up is there, and the    *)
(* table of continuations stays within its cap.                              *)
THEOREM HostTypeCorrect == Spec => []HostTypeOK
  <1>1. IInv => HostTypeOK
    BY TypesFollow
  <1>2. QED BY <1>1, HostInvariance, PTL

(* Consent is spent once (confirmation.rs, native_host.rs: authorize,        *)
(* resume, take_legacy_for): for every number of frontends, calls and        *)
(* continuations, an invocation that needs a question ran on its own answer  *)
(* about exactly that call, or on the confirm argument of a client that      *)
(* cannot be asked, and no answer authorized two.                            *)
THEOREM ConsentSpentOnce == Spec => []ConsentIsSpentOnce
  <1>1. IInv => ConsentIsSpentOnce
    BY DEF IInv
  <1>2. QED BY <1>1, HostInvariance, PTL

(* Responses are exact (native_host.rs: complete, authorize, dispatch, the   *)
(* expiry of a question): an exchange gets at most one response, and none    *)
(* once its frontend has departed, its request was cancelled or the server   *)
(* stops.                                                                    *)
THEOREM RepliesExact == Spec => RepliesAreExact
  <1> DEFINE A == \A n \in 1..Len(calls) :
                      LET c == calls[n] IN
                      calls'[n].replies # c.replies =>
                          /\ calls'[n].replies = 1 /\ ~c.cancelled
                          /\ fronts[c.front] = "open" /\ phase = "open"
  <1>1. IInv /\ [Next]_allVars => [A]_hostVars
    BY StepKeeps DEF Good, ExactStep
  <1>2. RepliesAreExact <=> [][A]_hostVars
    BY DEF RepliesAreExact
  <1> HIDE DEF A
  <1>3. QED BY <1>1, <1>2, HostInvariance, PTL DEF Spec

(* Room for stops (native_host.rs: Admissions::check; native_connect.rs:     *)
(* InitializationBudget::reserve): for every capacity, a stop is refused a   *)
(* place or a permit only while another stop of its class holds the          *)
(* reserved one.                                                             *)
THEOREM StopRefused == Spec => StopRefusedOnlyByStop
  <1> DEFINE A == \A n \in 1..Len(calls') :
                     LET class == ClassOf(calls'[n].tool) IN
                     /\ class \in StopClasses
                     /\ calls'[n].why = "capacity"
                     /\ n > Len(calls) \/ calls[n].why # "capacity"
                     => \E m \in Entries : /\ ClassOf(calls[m].tool) = class
                                           /\ class \in {calls[m].reserved, calls[m].permit}
  <1>1. IInv /\ [Next]_allVars => [A]_hostVars
    BY StepKeeps DEF Good, RefusalStep
  <1>2. StopRefusedOnlyByStop <=> [][A]_hostVars
    BY DEF StopRefusedOnlyByStop
  <1> HIDE DEF A
  <1>3. QED BY <1>1, <1>2, HostInvariance, PTL DEF Spec

=============================================================================
