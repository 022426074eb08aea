-------------------------------- MODULE Host --------------------------------
(***************************************************************************)
(* The host that serves frontends (native_host.rs, native_service.rs,      *)
(* native_connect.rs, confirmation.rs): registration of frontends and      *)
(* admission of exchanges, the policy and its one-shot continuations, the  *)
(* one retained connection attempt, the jobs, and shutdown.                *)
(*                                                                         *)
(* The host is one owner: preparing, authorizing and dispatching a call    *)
(* happens in one turn, which an await of dispatch may hold while          *)
(* frontends depart and jobs run.  A call stands for its tool, one of two  *)
(* argument values and its caller; the digest of a continuation is that    *)
(* triple.  Bytes, schemas, names of resources and wording are left out; a *)
(* lifetime ends in a step of the clock.  What the service does with a     *)
(* call is the business of Service; here it answers sooner or later.       *)
(***************************************************************************)
EXTENDS Control, Sequences

CONSTANTS FrontendIds,    \* bound: identities of frontends, 1..n
          Scripts,        \* bound: era, calls, how many and under which request
                          \* identities clients make in one behaviour
          FrontendCap,    \* registered frontends (128)
          OrdinaryJobs,   \* ordinary exchanges retained at once
          AskCap,         \* continuations retained at once (16)
          OrdinaryBytes,  \* calls that may wait for a connection at once
          MaxAttempts     \* bound: connection attempts

\* What a client may be asked to do in one behaviour.
Intents == [tool : STRING, args : Nat, caller : Everyone, elicit : BOOLEAN, confirm : BOOLEAN]

ASSUME HostAssumption ==
    /\ FrontendIds = 1..Cardinality(FrontendIds) /\ Cardinality(FrontendIds) \in Nat
    /\ \A s \in Scripts :
           /\ s.era \in {"legacy", "modern"} /\ s.connected \in BOOLEAN /\ s.most \in Nat
           /\ s.wires \subseteq Nat /\ s.calls \subseteq Intents
    /\ FrontendCap \in Nat \ {0} /\ OrdinaryJobs \in Nat \ {0} /\ AskCap \in Nat
    /\ OrdinaryBytes \in Nat /\ MaxAttempts \in Nat

VARIABLES
    script,   \* the calls considered, and whether a service is there at first
    era,      \* "legacy": one retained session; "modern": HTTP exchanges
    fronts,   \* registration of each frontend
    ingress,  \* the frontend that a full table let in, per stop class
    calls,    \* the exchanges, in the order of their submission
    turn,     \* the invocation that dispatch holds
    asks,     \* the continuations
    attempts, \* the result of each connection attempt
    runtime,  \* the attempt that is retained, the service, failed cleanup
    phase,    \* of the server
    ran       \* history: invocations that were authorized, with their grounds

hostVars == <<script, era, fronts, ingress, calls, turn, asks, attempts, runtime, phase, ran>>

ClassOf(tool) ==
    CASE tool = "takestop" -> "take" [] tool = "safetystop" -> "safety"
      [] OTHER -> "ordinary"
StopClasses == {"take", "safety"}
\* The class of the policy that a tool belongs to.
PolicyOf(tool) == IF tool \in {"takestop", "safetystop"} THEN "stop" ELSE tool
\* Answered without OBS: control of the lease and the status.
Local(tool) == tool = "read"

Idle == [pc |-> "idle", call |-> 0]
Retained(n) == calls[n].pc \in {"resolving", "calling", "done"}
Entries == {n \in 1..Len(calls) : Retained(n)}
HasEntries(f) == \E n \in Entries : calls[n].front = f
Registered(f) == fronts[f] \in {"open", "departed"}

(***************************************************************************)
(* Admissions.                                                             *)
(***************************************************************************)
\* Departed registrations without a retained exchange.
Reaped(f) == fronts[f] = "departed" /\ ~HasEntries(f)

\* frontend_for: reap, then the cap; beyond it one frontend per stop class.
Connect(class) ==
    LET swept == [f \in FrontendIds |-> IF Reaped(f) THEN "gone" ELSE fronts[f]]
        held == [c \in StopClasses |->
                    IF ingress[c] # 0 /\ swept[ingress[c]] = "gone" THEN 0 ELSE ingress[c]]
        full == Cardinality({f \in FrontendIds : swept[f] \in {"open", "departed"}})
                    >= FrontendCap
        fresh == {f \in FrontendIds : fronts[f] = "new"}
    IN /\ phase = "open" /\ turn = Idle /\ fresh # {}
       /\ era = "legacy" => \A f \in FrontendIds : fronts[f] = "new"
       /\ IF full /\ (class = "ordinary" \/ held[class] # 0)
          THEN /\ fronts' = swept /\ ingress' = held
               /\ swept # fronts
          ELSE LET id == CHOOSE f \in fresh : \A g \in fresh : f <= g IN
               /\ fronts' = [swept EXCEPT ![id] = "open"]
               /\ ingress' = IF full THEN [held EXCEPT ![class] = id] ELSE held
       /\ UNCHANGED <<script, era, calls, turn, asks, attempts, runtime, phase, ran, controlVars>>

\* The frontend's handle is dropped: its token is cancelled, at any time.  The
\* session of stdio keeps its frontend until the server stops.
Depart(f) ==
    /\ era = "modern" /\ fronts[f] = "open"
    /\ fronts' = [fronts EXCEPT ![f] = "departed"]
    /\ UNCHANGED <<script, era, ingress, calls, turn, asks, attempts, runtime, phase, ran, controlVars>>

\* cancel_pending for a set of exchanges.
Cancelled(ns) ==
    [n \in 1..Len(calls) |-> IF n \in ns THEN [calls[n] EXCEPT !.cancelled = TRUE] ELSE calls[n]]

\* Host::disconnect: the registration goes, its work is cancelled, not dropped.
Disconnect(f) ==
    /\ era = "modern" /\ Registered(f) /\ turn = Idle /\ phase = "open"
    /\ fronts' = [fronts EXCEPT ![f] = "gone"]
    /\ calls' = Cancelled({n \in Entries : calls[n].front = f})
    /\ UNCHANGED <<script, era, ingress, turn, asks, attempts, runtime, phase, ran, controlVars>>

\* retire_frontend, refused while the frontend has retained work.
RetireFrontend(f) ==
    /\ era = "modern" /\ Registered(f) /\ ~HasEntries(f) /\ turn = Idle /\ phase = "open"
    /\ fronts' = [fronts EXCEPT ![f] = "gone"]
    /\ UNCHANGED <<script, era, ingress, calls, turn, asks, attempts, runtime, phase, ran, controlVars>>

Ordinary == Cardinality({n \in Entries : calls[n].reserved = "no"})

\* Fault seed: any class may use the reserved places.
CheckAnyClass(front, wire, class) ==
    IF phase # "open" \/ fronts[front] # "open" THEN "closed"
    ELSE IF \E n \in Entries : calls[n].front = front /\ calls[n].wire = wire THEN "duplicate"
    ELSE IF Ordinary < OrdinaryJobs THEN "no"
    ELSE LET c == IF class \in StopClasses THEN class ELSE "take"
         IN IF \A n \in Entries : calls[n].reserved # c THEN c ELSE "capacity"
\* Admissions::check: the kind of place an exchange gets, or why it gets none.
Check(front, wire, class) ==
    IF phase # "open" \/ fronts[front] # "open" THEN "closed"
    ELSE IF \E n \in Entries : calls[n].front = front /\ calls[n].wire = wire THEN "duplicate"
    ELSE IF Ordinary < OrdinaryJobs THEN "no"
    ELSE IF class \in StopClasses /\ \A n \in Entries : calls[n].reserved # class THEN class
    ELSE "capacity"
Place == {"no", "take", "safety"}

\* notifications/cancelled: a pending question, or else the running exchange.
CancelRequest(f, w) ==
    /\ phase = "open" /\ turn = Idle /\ fronts[f] = "open"
    /\ LET asked == {a \in asks : a.front = f /\ a.wire = w}
           running == {n \in Entries : calls[n].front = f /\ calls[n].wire = w}
       IN /\ asked # {} \/ \E n \in running : ~calls[n].cancelled
          /\ asks' = asks \ asked
          /\ calls' = [n \in 1..Len(calls) |->
                 IF n \in running THEN [calls[n] EXCEPT !.cancelled = TRUE]
                 ELSE IF era = "legacy" /\ \E a \in asked : a.call = n
                 THEN [calls[n] EXCEPT !.pc = "over", !.cancelled = TRUE]
                 ELSE calls[n]]
    /\ UNCHANGED <<script, era, fronts, ingress, turn, attempts, runtime, phase, ran, controlVars>>

(***************************************************************************)
(* A turn: prepare or resume, authorize, dispatch.                         *)
(***************************************************************************)
\* Fault seed: the digest leaves out who asked.
BindingOfCall(c) == <<c.tool, c.args>>
\* The digest that ties an answer to its question.
Binding(c) == <<c.tool, c.args, c.caller>>

\* One more exchange after authorization: refused, asked, or taken to dispatch.
Replied(c) == [c EXCEPT !.pc = "over", !.replies = @ + 1]

\* Host::authorize for exchange n: admission, policy, then question or refusal.
Authorize(cs, n, answer, grounds, rest) ==
    LET c == cs[n]
        place == Check(c.front, c.wire, ClassOf(c.tool))
        decision == Evaluate(Request(c.caller, PolicyOf(c.tool), TRUE, c.elicit, answer, c.confirm))
        issued == Cardinality(rest) < AskCap
                  /\ ~\E a \in rest : a.front = c.front /\ a.wire = c.wire
    IN IF place \notin Place \/ decision \in {"refused", "cancelled"}
          \/ (decision = "input" /\ ~issued)
       THEN /\ calls' = [cs EXCEPT ![n] = [Replied(c) EXCEPT !.why =
                                   IF place = "capacity" THEN "capacity" ELSE "refused"]]
            /\ asks' = rest /\ UNCHANGED <<turn, ran>>
       ELSE IF decision = "input"
       THEN /\ calls' = [cs EXCEPT ![n] = IF era = "legacy" THEN [c EXCEPT !.pc = "asked"]
                                          ELSE Replied(c)]
            /\ asks' = rest \union {[token |-> n, call |-> n, front |-> c.front,
                                     wire |-> c.wire, binding |-> Binding(c)]}
            /\ UNCHANGED <<turn, ran>>
       ELSE /\ calls' = cs /\ asks' = rest
            /\ turn' = [pc |-> "dispatch", call |-> n]
            /\ ran' = Append(ran, [call |-> n, token |-> grounds, tool |-> c.tool,
                          what |-> <<c.tool, c.args, c.caller>>, answer |-> answer,
                          held |-> HeldByOther(Request(c.caller, PolicyOf(c.tool), TRUE, FALSE,
                                                       "missing", FALSE)),
                          flag |-> c.confirm /\ ~c.elicit])

NewCall(f, w, tool, args, caller, elicit, confirm) ==
    [front |-> f, wire |-> w, tool |-> tool, args |-> args, caller |-> caller,
     elicit |-> elicit, confirm |-> confirm, pc |-> "new", reserved |-> "no",
     permit |-> "none", attempt |-> 0, cancelled |-> FALSE, replies |-> 0, why |-> "none"]

\* A frame with a call, Host::prepare and authorize.
Submit(f, w, tool, args, caller, elicit, confirm) ==
    /\ phase = "open" /\ turn = Idle /\ Len(calls) < script.most /\ fronts[f] = "open"
    /\ LET cs == Append(calls, NewCall(f, w, tool, args, caller, elicit, confirm))
       IN Authorize(cs, Len(cs), "missing", 0, asks)
    /\ UNCHANGED <<script, era, fronts, ingress, attempts, runtime, phase, controlVars>>

\* remove: a continuation is consumed by its first valid answer.
Taken(token) == {a \in asks : a.token # token}

\* Host::resume (modern): a new exchange presents the token with the same
\* arguments; the retained call takes over its frontend and its identity.
Resume(f, w, token, args, caller, answer) ==
    /\ phase = "open" /\ turn = Idle /\ Len(calls) < script.most /\ fronts[f] = "open"
    /\ era = "modern"
    /\ \E a \in asks :
           /\ a.token = token
           /\ LET original == calls[a.call]
                  c == NewCall(f, w, original.tool, args, caller, TRUE, FALSE)
                  cs == Append(calls, c)
              IN IF Binding(c) # a.binding
                 THEN /\ calls' = Append(calls, [Replied(c) EXCEPT !.why = "refused"])
                      /\ UNCHANGED <<asks, turn, ran>>
                 ELSE Authorize(cs, Len(cs), answer, token, Taken(token))
    /\ UNCHANGED <<script, era, fronts, ingress, attempts, runtime, phase, controlVars>>

\* take_legacy_for: the client answers the server's question on its session.
\* A malformed or error answer counts as declined.
LegacyAnswer(token, answer) ==
    /\ phase = "open" /\ turn = Idle /\ era = "legacy"
    /\ \E a \in asks :
           /\ a.token = token /\ fronts[a.front] = "open"
           /\ Authorize(calls, a.call, answer, token, Taken(token))
    /\ UNCHANGED <<script, era, fronts, ingress, attempts, runtime, phase, controlVars>>

\* The lifetime of a continuation ends; a legacy call is answered then.
AskExpires(token) ==
    /\ phase = "open" /\ turn = Idle
    /\ \E a \in asks :
           /\ a.token = token
           /\ asks' = asks \ {a}
           /\ calls' = IF era = "legacy" THEN [calls EXCEPT ![a.call] = Replied(@)] ELSE calls
    /\ UNCHANGED <<script, era, fronts, ingress, turn, attempts, runtime, phase, ran, controlVars>>

(***************************************************************************)
(* The retained connection.                                                *)
(***************************************************************************)
\* InitializationBudget::reserve: the ordinary pool, then the stop's own slot.
Permit(class) ==
    IF Cardinality({n \in Entries : calls[n].permit = "ordinary"}) < OrdinaryBytes
    THEN "ordinary"
    ELSE IF class \in StopClasses /\ \A n \in Entries : calls[n].permit # class THEN class
    ELSE "refused"

\* service_source: the pending attempt, the service, or a new attempt once the
\* receipts allow one; after a cleanup that is not confirmed there is none.
Source ==
    IF runtime.attempt # 0 THEN "waiting"
    ELSE IF runtime.owner THEN "ready"
    ELSE IF runtime.broken \/ Len(attempts) >= MaxAttempts THEN "refused"
    ELSE "start"

\* Host::dispatch: refusals without OBS; a departed frontend gets nothing; a
\* permit to wait for the connection; then the exchange is retained and its job
\* spawned.
Dispatch ==
    /\ turn.pc = "dispatch" /\ phase = "open"
    /\ turn' = Idle
    /\ LET n == turn.call
           c == calls[n]
           place == Check(c.front, c.wire, ClassOf(c.tool))
           remote == ~Local(c.tool)
           permit == IF remote /\ (~runtime.owner \/ runtime.attempt # 0)
                     THEN Permit(ClassOf(c.tool)) ELSE "none"
           source == IF remote THEN Source ELSE "ready"
           retained == [c EXCEPT !.reserved = place, !.permit = permit,
                            !.attempt = IF source = "waiting" THEN runtime.attempt
                                        ELSE IF source = "start" THEN Len(attempts) + 1 ELSE 0,
                            !.pc = CASE source = "ready" -> "calling"
                                     [] source = "refused" -> "done"
                                     [] OTHER -> "resolving"]
       IN IF place = "closed"
          THEN /\ calls' = [calls EXCEPT ![n] = [c EXCEPT !.pc = "over", !.why = "closed"]]
               /\ UNCHANGED <<attempts, runtime>>
          ELSE IF place \notin Place \/ permit = "refused"
          THEN /\ calls' = [calls EXCEPT ![n] = [Replied(c) EXCEPT !.why = "capacity"]]
               /\ UNCHANGED <<attempts, runtime>>
          ELSE /\ calls' = [calls EXCEPT ![n] = retained]
               /\ IF source = "start"
                  THEN /\ attempts' = Append(attempts, "pending")
                       /\ runtime' = [runtime EXCEPT !.attempt = Len(attempts) + 1]
                  ELSE UNCHANGED <<attempts, runtime>>
    /\ UNCHANGED <<script, era, fronts, ingress, asks, phase, ran, controlVars>>

\* initialize and cleanup: the attempt's task ends with a service, or with a
\* failure whose cleanup joined or not.
AttemptEnds(outcome) ==
    /\ runtime.attempt # 0 /\ runtime.outcome = "none"
    /\ runtime' = [runtime EXCEPT !.outcome = outcome]
    /\ UNCHANGED <<script, era, fronts, ingress, calls, turn, asks, attempts, phase, ran, controlVars>>

\* accept_initialization: adopt the service, or hand the resources to a cleanup
\* task of the same attempt, or publish the failure.
AcceptAttempt ==
    /\ runtime.attempt # 0 /\ runtime.outcome # "none" /\ turn = Idle
    /\ \/ /\ runtime.outcome = "ready"
          /\ runtime' = [runtime EXCEPT !.attempt = 0, !.outcome = "none", !.owner = TRUE]
          /\ attempts' = [attempts EXCEPT ![runtime.attempt] = "ready"]
       \/ /\ runtime.outcome = "ready"
          /\ runtime' = [runtime EXCEPT !.outcome = "none", !.cleanup = TRUE]
          /\ UNCHANGED attempts
       \/ /\ runtime.outcome \in {"failed", "unjoined"}
          /\ runtime' = [runtime EXCEPT !.attempt = 0, !.outcome = "none", !.cleanup = FALSE,
                                        !.broken = @ \/ runtime.outcome = "unjoined"]
          /\ attempts' = [attempts EXCEPT ![runtime.attempt] = "failed"]
    /\ UNCHANGED <<script, era, fronts, ingress, calls, turn, asks, phase, ran, controlVars>>

(***************************************************************************)
(* Jobs.                                                                   *)
(***************************************************************************)
\* The job sees its frontend's departure and cancels its own work.
Noticed(n) == calls[n].cancelled \/ fronts[calls[n].front] \in {"departed", "gone"}

\* ServiceSource::resolve: cancellation first, then the attempt's result.
Resolve(n) ==
    /\ calls[n].pc = "resolving"
    /\ LET result == attempts[calls[n].attempt] IN
       \/ Noticed(n) /\ calls' = [calls EXCEPT ![n].pc = "done"]
       \/ ~calls[n].cancelled /\ result = "ready" /\ calls' = [calls EXCEPT ![n].pc = "calling"]
       \/ ~calls[n].cancelled /\ result = "failed" /\ calls' = [calls EXCEPT ![n].pc = "done"]
    /\ UNCHANGED <<script, era, fronts, ingress, turn, asks, attempts, runtime, phase, ran, controlVars>>

\* The service answers, or the local tool runs.
Served(n) ==
    /\ calls[n].pc = "calling"
    /\ calls' = [calls EXCEPT ![n].pc = "done"]
    /\ UNCHANGED <<script, era, fronts, ingress, turn, asks, attempts, runtime, phase, ran, controlVars>>

\* Fault seed: the response goes out whatever became of the frontend.
RespondsAlways(n) == TRUE
\* A departed frontend or a cancelled request gets no response.
Responds(n) == fronts[calls[n].front] = "open" /\ ~calls[n].cancelled

\* Host::complete: the exchange is retired, then answered.
Complete(n) ==
    /\ calls[n].pc = "done" /\ phase = "open" /\ turn = Idle
    /\ calls' = [calls EXCEPT ![n] = IF Responds(n) THEN Replied(calls[n])
                                     ELSE [calls[n] EXCEPT !.pc = "over"]]
    /\ UNCHANGED <<script, era, fronts, ingress, turn, asks, attempts, runtime, phase, ran, controlVars>>

(***************************************************************************)
(* Shutdown.                                                               *)
(***************************************************************************)
\* The stop signal or the end of input: close admissions, cancel everything,
\* disable continuations.
HostStops ==
    /\ phase = "open" /\ turn = Idle
    /\ phase' = "closing"
    /\ fronts' = [f \in FrontendIds |-> IF fronts[f] = "new" THEN "new" ELSE "gone"]
    /\ asks' = {}
    /\ calls' = [n \in 1..Len(calls) |->
           IF Retained(n) THEN [calls[n] EXCEPT !.cancelled = TRUE]
           ELSE IF calls[n].pc = "asked" THEN [calls[n] EXCEPT !.pc = "over"]
           ELSE calls[n]]
    /\ UNCHANGED <<script, era, ingress, turn, attempts, runtime, ran, controlVars>>

\* The jobs are joined without a response ...
JoinJob(n) ==
    /\ phase = "closing" /\ calls[n].pc = "done"
    /\ calls' = [calls EXCEPT ![n].pc = "over"]
    /\ UNCHANGED <<script, era, fronts, ingress, turn, asks, attempts, runtime, phase, ran, controlVars>>

\* ... while the runtime drains its attempt and then stops the service.
StopOwner ==
    /\ phase = "closing" /\ runtime.attempt = 0 /\ runtime.owner
    /\ runtime' = [runtime EXCEPT !.owner = FALSE]
    /\ UNCHANGED <<script, era, fronts, ingress, calls, turn, asks, attempts, phase, ran, controlVars>>

HostDown ==
    /\ phase = "closing" /\ Entries = {} /\ runtime.attempt = 0 /\ ~runtime.owner
    /\ phase' = "down"
    /\ UNCHANGED <<script, era, fronts, ingress, calls, turn, asks, attempts, runtime, ran, controlVars>>

(***************************************************************************)
(* The specification.                                                      *)
(***************************************************************************)
HostInit(s) ==
    /\ script = s /\ era = s.era
    /\ fronts = [f \in FrontendIds |-> "new"]
    /\ ingress = [c \in StopClasses |-> 0]
    /\ calls = <<>> /\ turn = Idle /\ asks = {} /\ attempts = <<>> /\ ran = <<>>
    /\ runtime = [attempt |-> 0, outcome |-> "none", owner |-> script.connected, broken |-> FALSE,
                  cleanup |-> FALSE]
    /\ phase = "open" /\ ControlInit

Answered == {"accepted", "declined"}
FrontendNext ==
    \/ \E class \in {ClassOf(t.tool) : t \in script.calls} : Connect(class)
    \/ \E f \in FrontendIds :
           \/ Depart(f) \/ Disconnect(f) \/ RetireFrontend(f)
           \/ \E w \in script.wires : CancelRequest(f, w)
\* Request identities are interchangeable: new ones come in order.
NextWires == {w \in script.wires : w <= Len(calls) + 1}
CallNext ==
    \/ \E f \in FrontendIds, w \in NextWires, t \in script.calls :
           Submit(f, w, t.tool, t.args, t.caller, t.elicit, t.confirm)
    \/ \E f \in FrontendIds, w \in script.wires, token \in 1..script.most, t \in script.calls,
          answer \in Answered :
           Resume(f, w, token, t.args, t.caller, answer)
    \/ \E token \in 1..script.most :
           AskExpires(token) \/ \E answer \in Answered : LegacyAnswer(token, answer)
    \/ Dispatch
AttemptStep == \E o \in {"ready", "failed", "unjoined"} :
                   (runtime.cleanup => o # "ready") /\ AttemptEnds(o)
JobNext ==
    \/ \E n \in 1..Len(calls) : Resolve(n) \/ Served(n) \/ Complete(n) \/ JoinJob(n)
    \/ AttemptStep \/ AcceptAttempt \/ StopOwner \/ HostDown
\* The lease changes hands between any two turns.
LeaseMoves ==
    /\ \E t \in script.calls : t.caller \in Callers
    /\ LeaseNext /\ UNCHANGED hostVars
HostNext == FrontendNext \/ CallNext \/ JobNext \/ HostStops \/ LeaseMoves

(***************************************************************************)
(* Properties.                                                             *)
(***************************************************************************)
HostTypeOK ==
    /\ era \in {"legacy", "modern"} /\ phase \in {"open", "closing", "down"}
    /\ fronts \in [FrontendIds -> {"new", "open", "departed", "gone"}]
    /\ ingress \in [StopClasses -> FrontendIds \union {0}]
    /\ \A n \in 1..Len(calls) :
           /\ calls[n].pc \in {"new", "asked", "resolving", "calling", "done", "over"}
           /\ calls[n].reserved \in Place /\ calls[n].attempt \in 0..Len(attempts)
           /\ calls[n].permit \in {"none", "ordinary"} \union StopClasses
    /\ turn.pc \in {"idle", "dispatch"} /\ turn.call \in 0..Len(calls)
    /\ {a.call : a \in asks} \subseteq 1..Len(calls) /\ Cardinality(asks) <= AskCap
    /\ attempts \in Seq({"pending", "ready", "failed"})
    /\ runtime.attempt \in 0..Len(attempts)
    /\ runtime.outcome \in {"none", "ready", "failed", "unjoined"}

(* ConsentIsSpentOnce: a live action or a stop goes to OBS only on an        *)
(* accepted answer to a question about exactly that tool, those arguments    *)
(* and that caller, or, for a client that cannot be asked, on its confirm    *)
(* argument; and one answer authorizes one invocation, whatever frontends,   *)
(* answers, cancellations and expiries come between question and answer.     *)
(* An ordinary action never runs while somebody else holds the lease.        *)
ConsentIsSpentOnce ==
    /\ \A i \in 1..Len(ran) :
           /\ LiveQuestion(PolicyOf(ran[i].tool)) =>
                  \/ ran[i].flag /\ ran[i].token = 0
                  \/ /\ ran[i].answer = "accepted" /\ ran[i].token # 0
                     /\ LET asked == calls[ran[i].token]
                        IN ran[i].what = <<asked.tool, asked.args, asked.caller>>
           /\ ~AlwaysAllowed(PolicyOf(ran[i].tool)) => ~ran[i].held
    /\ \A i, j \in 1..Len(ran) :
           i # j /\ ran[i].token # 0 => ran[i].token # ran[j].token

(* RepliesAreExact: an exchange gets at most one response, and none after    *)
(* its frontend has departed or the request was cancelled, whichever of the  *)
(* job, the departure, the cancellation and the shutdown comes first.        *)
RepliesAreExact ==
    [][\A n \in 1..Len(calls) :
           LET c == calls[n] IN
           calls'[n].replies # c.replies =>
               /\ calls'[n].replies = 1 /\ ~c.cancelled
               /\ fronts[c.front] = "open" /\ phase = "open"]_hostVars

(* StopRefusedOnlyByStop: a stop is refused a place, or a place to wait for  *)
(* the connection, only while another stop of its own class holds the        *)
(* reserved one; ordinary work, however much of it, never does that.  (The   *)
(* table of continuations has no reserved place: a stop that must be asked   *)
(* about can be refused there.  Prepared calls are small here; the reserved  *)
(* permit is refused to one of more than 64 KiB.)                            *)
StopRefusedOnlyByStop ==
    [][\A n \in 1..Len(calls') :
           LET class == ClassOf(calls'[n].tool) IN
           /\ class \in StopClasses
           /\ calls'[n].why = "capacity"
           /\ n > Len(calls) \/ calls[n].why # "capacity"
           => \E m \in Entries : /\ ClassOf(calls[m].tool) = class
                                 /\ class \in {calls[m].reserved, calls[m].permit}]_hostVars

=============================================================================
