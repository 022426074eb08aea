------------------------------ MODULE Serving ------------------------------
(***************************************************************************)
(* The serving side: the host with its frontends, the service that the     *)
(* host's jobs call, and the two transports with the router of             *)
(* notifications.  One behaviour exercises one part.  The parts meet in    *)
(* two assumptions: the host takes for granted that a call to the service  *)
(* is answered sooner or later (Served is fair), which is what the service *)
(* shows of itself (EveryRequestAnswered); HTTP takes for granted that a   *)
(* job of the host ends (JobEnds is fair), which the host assumes of its   *)
(* spawned tasks.                                                          *)
(***************************************************************************)
EXTENDS Host, Service, Pipe, Web

VARIABLE part   \* the part that runs

streamVars == <<noticeVars, pipe, web, handed, registry, server>>
allVars == <<part, hostVars, controlVars, serviceVars, streamVars>>

Init ==
    /\ part \in {"host", "service", "pipe", "web"}
    /\ \E s \in Scripts :
           HostInit(s) /\ (part # "host" => s = CHOOSE first \in Scripts : TRUE)
    /\ \E legacy \in BOOLEAN : NoticesInit(legacy) /\ (part # "pipe" => ~legacy)
    /\ \E mix \in WebMixes :
           WebInit(mix) /\ (part # "web" => mix = CHOOSE first \in WebMixes : TRUE)
    /\ ServiceInit /\ PipeInit

HostOnly == part = "host" /\ UNCHANGED <<part, serviceVars, streamVars>>
ServiceOnly == part = "service" /\ UNCHANGED <<part, hostVars, controlVars, streamVars>>
PipeOnly == part = "pipe" /\ UNCHANGED <<part, hostVars, controlVars, serviceVars,
                                         web, handed, registry, server>>
WebOnly == part = "web" /\ UNCHANGED <<part, hostVars, controlVars, serviceVars, pipe>>
Next ==
    \/ HostNext /\ HostOnly
    \/ ServiceNext /\ ServiceOnly
    \/ PipeNext /\ PipeOnly
    \/ WebNext /\ WebOnly

\* Every spawned task ends, because each of its awaits has a deadline or its
\* cancellation; the owners' loops poll what they join, take the next command,
\* tick, and go on with a shutdown they have begun.  Nothing is assumed of
\* clients, nor of the peer that reads the pipe.
HostWork ==
    \/ \E n \in 1..Len(calls) : Resolve(n) \/ Served(n) \/ JoinJob(n)
    \/ AttemptStep \/ AcceptAttempt \/ StopOwner \/ HostDown
ServiceWork ==
    \/ \E j \in svc.jobs : JobStep(j)
    \/ \E late \in BOOLEAN : TakeNext(late)
Work == (HostOnly /\ HostWork) \/ (ServiceOnly /\ ServiceWork) \/ (WebOnly /\ WebWork)
Fairness == WF_allVars(Work) /\ WF_allVars(WebOnly /\ Tick)

Spec == Init /\ [][Next]_allVars /\ Fairness

(* The state of every part of the serving side is well formed.               *)
ServingTypeOK ==
    /\ part \in {"host", "service", "pipe", "web"}
    /\ HostTypeOK /\ ServiceTypeOK /\ PipeTypeOK /\ WebTypeOK

(* PipeIsExact: on the pipe a listener hears what was published while it was *)
(* registered, in order and after its own acknowledgement, and a change of   *)
(* the catalogue is announced, whatever replies, switches and overflows      *)
(* compete for the one writer.  Nothing follows a gap, except that a batch   *)
(* without room ends the frontend and the closing flush writes what fits of  *)
(* the batches that waited behind it.                                        *)
PipeIsExact == part = "pipe" => NotesAreExact /\ CatalogueIsAnnounced

(* WebIsExact: over HTTP a stream brings the same or is broken off, however  *)
(* slow its reader is; and the reply of a stop that was let in finds room,   *)
(* however full sinks and connections are and whoever left before it.        *)
WebIsExact == part = "web" => StreamsAreExact /\ StopsAreKept

\* A close has begun and has not ended; it is left only for its end, so "again
\* and again not closing" says that each close ends.
Closing == \/ phase = "closing" \/ server = "closing"
           \/ svc.closing /\ ~svc.exited /\ svc.failures = 0

(* ServingCompletes: a host that stops comes down although its jobs wait for *)
(* a connection attempt and the attempt for OBS, and so does an HTTP server  *)
(* with its connections and jobs; the service answers every request and,     *)
(* once it stops, ends, although jobs hold its owners and a take is still    *)
(* running; over HTTP the place of a departed exchange is given back.        *)
ServingCompletes ==
    /\ []<>(~Closing)
    /\ EveryRequestAnswered
    /\ DepartedGiveBack

=============================================================================
