-------------------------------- MODULE Web --------------------------------
(***************************************************************************)
(* Serving over HTTP: connections and bodies (http_ingress.rs, http_tcp.rs)*)
(* the bridge with its routes (http_bridge.rs), bounded sinks for replies  *)
(* and events (http_sink.rs) and the streams of listeners                  *)
(* (http_resources.rs).                                                    *)
(*                                                                         *)
(* A client makes one exchange on one connection.  The bridge is one actor *)
(* on the one thread: opening and submitting an exchange, a completion and *)
(* a tick are steps.  A packet is charged from its reservation until its   *)
(* last byte is written; packets and bodies are counted, and those of a    *)
(* stop fit the pools that are reserved for its class.  Heads, policy and  *)
(* bytes are left out, and the host behind the bridge is the business of   *)
(* Host: here a job ends, and its answer is or is not suppressed.          *)
(***************************************************************************)
EXTENDS Notices

CONSTANTS Clients,         \* bound: connections in one behaviour, 1..n, in the
                           \* order in which they come
          WebMixes,        \* bound: what the clients want
          WebMenu,         \* bound: the events considered
          WebEvents,       \* bound: events and heartbeats in one behaviour
          OrdinaryConns,   \* connections at once (32)
          EmergencyConns,  \* connections beyond those (2)
          BodyCap,         \* bodies that ordinary connections read at once
          WebPackets,      \* packets of ordinary sinks at once
          StreamItems      \* packets of one stream (16)

ASSUME WebAssumption ==
    /\ Clients \subseteq 1..6
    /\ WebEvents \in 0..MaxEvents
    /\ {OrdinaryConns, EmergencyConns, BodyCap, WebPackets, StreamItems} \subseteq Nat

VARIABLES web,       \* the exchange of each client
          handed,    \* commands that wait for the actor, in order
          registry,  \* the streams that events are delivered to
          server     \* "open", "closing", "down"
webVars == <<web, handed, registry, server, noticeVars>>

NewExchange(want) ==
    [at |-> "away", kind |-> "none", want |-> want, gone |-> FALSE, sink |-> <<>>,
     cut |-> FALSE, route |-> FALSE, left |-> 0, jobs |-> 0, lost |-> FALSE, seen |-> <<>>]
WebInit(mix) ==
    /\ web = [c \in Clients |-> NewExchange(mix[c])]
    /\ handed = <<>> /\ registry = {} /\ server = "open"

StopWants == {"takestop", "safetystop"}
IsStop(c) == web[c].want \in StopWants
Changed(c, x) == web' = [web EXCEPT ![c] = x]
Still == UNCHANGED <<router, due, events>>

\* A connection is held until its driver has ended and its body is handed on.
Held(kind) == {c \in Clients : web[c].kind = kind
                               /\ web[c].at \in {"body", "queued", "served"}}
Bodies == {c \in Held("ordinary") : web[c].at \in {"body", "queued"}}
\* The place of a stop class: taken by the route of an exchange, whose job
\* may still run, and by a packet that is not yet written.
Custody(x) == x.route \/ x.sink # <<>>
LeaseFree(c) == \A d \in Clients \ {c} : ~(web[d].want = web[c].want /\ Custody(web[d]))

\* Sender::available, Sender::credits.  Ordinary sinks share one pool and a
\* stream has its own limit; the pool of a stop class is for one packet.
Available(x) == ~x.cut /\ ~x.gone
Charged(w) ==
    FoldFunctionOnSet(+, 0, [c \in Clients |-> Len(w[c].sink)],
                      {c \in Clients : w[c].want \notin StopWants})
Room(w, c) ==
    IF w[c].want \in StopWants
    THEN \A d \in Clients : w[d].want = w[c].want => w[d].sink = <<>>
    ELSE /\ Charged(w) < WebPackets
         /\ w[c].want = "listen" => Len(w[c].sink) < StreamItems

Ack(c) == Line("ack", Recipient(c, c), 0, {})
AnswerLine(c) == Line("reply", Recipient(c, c), 0, {})
Beat(c) == Line("beat", Recipient(c, c), 0, {})
Put(w, c, line) == [w EXCEPT ![c].sink = Append(@, line)]

\* Bridge::emit: a reply that cannot be reserved fails the sink.  A route goes
\* with its last reply, or with its sink.
Emit(w, c) ==
    LET fits == Available(w[c]) /\ Room(w, c)
        sent == IF fits THEN Put(w, c, AnswerLine(c))
                ELSE [w EXCEPT ![c].lost = Available(w[c]), ![c].cut = TRUE]
        left == IF w[c].left = 0 THEN 0 ELSE w[c].left - 1
    IN [sent EXCEPT ![c].left = left, ![c].route = fits /\ left # 0]
\* Bridge::silent: the answer of a departed frontend is suppressed.
Silent(w, c) ==
    LET left == IF w[c].left = 0 THEN 0 ELSE w[c].left - 1
    IN [w EXCEPT ![c].left = left, ![c].route = @ /\ left # 0]

\* Fault seed: a departed stop gives its place back while its job runs.
ReapAll(w) ==
    [c \in Clients |-> [w[c] EXCEPT !.route = @ /\ Available(w[c])]]
\* Bridge::reap_departed: a stop keeps its place while its job runs.
Reap(w) ==
    [c \in Clients |->
        [w[c] EXCEPT !.route = @ /\ (Available(w[c]) \/ (w[c].want \in StopWants
                                                         /\ w[c].jobs > 0))]]

\* Ingress::admit, Connection::reader: the emergency connections begin where
\* the ordinary end, and a connection needs a place for the body it reads.
Accept(c) ==
    /\ server = "open" /\ web[c].at = "away"
    /\ \A d \in Clients : d < c => web[d].at # "away"
    /\ \E kind \in {"ordinary", "emergency"} :
           LET full == Cardinality(Held("ordinary")) >= OrdinaryConns
               refused == \/ full /\ Cardinality(Held("emergency")) >= EmergencyConns
                          \/ ~full /\ Cardinality(Bodies) >= BodyCap
           IN /\ (kind = "emergency") = full
              /\ Changed(c, [web[c] EXCEPT !.at = IF refused THEN "closed" ELSE "body",
                                           !.kind = kind])
    /\ UNCHANGED <<handed, registry, server>> /\ Still
\* The body is read to its end before a deadline, a departure or the close;
\* the actor's channel has a place per connection.
BodyRead(c) == server = "open" /\ web[c].at = "body"
EndBody(c) ==
    /\ BodyRead(c)
    /\ Changed(c, [web[c] EXCEPT !.at = "queued"])
    /\ handed' = Append(handed, c)
    /\ UNCHANGED <<registry, server>> /\ Still

\* How many items of an exchange are answered, each by a job; one that the
\* host refuses at once is a job that ends at once.
Jobs(want) == IF want = "batch" THEN 2 ELSE 1
Submitted(w, c) ==
    [w EXCEPT ![c].route = TRUE, ![c].jobs = Jobs(w[c].want), ![c].left = Jobs(w[c].want)]
\* Bridge::open_mode and submit.  A connection that ended takes its body with
\* it; an emergency connection is for a stop; a stop needs its class's place.
HandedOver(c) == ~web[c].gone
Refused(c) == \/ ~HandedOver(c)
              \/ web[c].kind = "emergency" /\ ~IsStop(c)
              \/ IsStop(c) /\ ~LeaseFree(c)
Install(w, c) ==
    IF PlanRefused \/ ~Room(w, c)
    THEN web' = Emit([w EXCEPT ![c].left = 1], c) /\ UNCHANGED <<registry, router>>
    ELSE /\ web' = Put(w, c, Ack(c))
         /\ registry' = registry \cup {c}
         /\ router' = CommitListen(router, Registration(c, c, {"status", "list"}))
Open(c) ==
    /\ server = "open" /\ handed # <<>> /\ c = Head(handed)
    /\ handed' = Tail(handed)
    /\ LET w == [Reap(web) EXCEPT ![c].at = "served"]
       IN IF Refused(c)
          THEN web' = [Reap(web) EXCEPT ![c].at = "closed"] /\ UNCHANGED <<registry, router>>
          ELSE IF web[c].want = "listen" THEN Install(w, c)
          ELSE web' = Submitted(w, c) /\ UNCHANGED <<registry, router>>
    /\ UNCHANGED <<server, due, events>>
\* Bridge::complete_next; after the close no route is left.
JobEnds(c) ==
    /\ web[c].jobs > 0
    /\ LET w == [web EXCEPT ![c].jobs = @ - 1]
       IN web' = IF ~w[c].route THEN w
                 ELSE IF Available(w[c]) THEN Emit(w, c) ELSE Silent(w, c)
    /\ UNCHANGED <<handed, registry, server>> /\ Still

\* The transport has written a packet, whose charge ends with it; the response
\* ends when no more can come.
Sent(x) ==
    [x EXCEPT !.sink = Tail(@),
              !.seen = IF Head(x.sink).kind = "beat" THEN @ ELSE Append(@, Head(x.sink))]
NoMore(c) == web[c].sink = <<>> /\ (web[c].cut \/ (~web[c].route /\ c \notin registry))
Written(c) ==
    /\ web[c].at = "served" /\ web[c].sink # <<>>
    /\ Changed(c, Sent(web[c]))
    /\ UNCHANGED <<handed, registry, server>> /\ Still
Over(x) == [x EXCEPT !.at = "closed", !.gone = TRUE, !.sink = <<>>]
ResponseEnds(c) ==
    /\ web[c].at = "served" /\ NoMore(c)
    /\ Changed(c, Over(web[c]))
    /\ UNCHANGED <<handed, registry, server>> /\ Still
\* The client leaves, or a deadline of its connection passes.  Its response,
\* once there is one, takes its stream along.
Leave(c) ==
    /\ \/ /\ web[c].at = "body"
          /\ Changed(c, [web[c] EXCEPT !.at = "closed", !.gone = TRUE])
          /\ UNCHANGED <<registry, router>>
       \/ /\ web[c].at = "queued" /\ ~web[c].gone
          /\ Changed(c, [web[c] EXCEPT !.gone = TRUE])
          /\ UNCHANGED <<registry, router>>
       \/ /\ web[c].at = "served"
          /\ Changed(c, Over(web[c]))
          /\ registry' = registry \ {c}
          /\ router' = CancelListener(router, c)
    /\ UNCHANGED <<handed, server, due, events>>

\* A stream that fails is forgotten by the registry and by the router.
Dropped(r, failed) == [r EXCEPT !.regs = SelectSeq(@, LAMBDA reg : reg.id \notin failed)]
Offer(state, packet) ==
    LET c == packet.id IN
    IF c \notin state.registry THEN state
    ELSE IF Available(state.web[c]) /\ Room(state.web, c)
    THEN [state EXCEPT !.web = Put(@, c, packet)]
    ELSE [state EXCEPT !.registry = @ \ {c}, !.web = [@ EXCEPT ![c].cut = TRUE]]
\* Packets are offered to the streams one after the other, without waiting.
Offered(packets) ==
    LET state == FoldLeft(Offer, [web |-> Reap(web), registry |-> registry], packets)
    IN /\ web' = state.web
       /\ registry' = state.registry
       /\ router' = Dropped(router, registry \ state.registry)
\* Publisher::publish with a direct sink, Resources::deliver.  An event that is
\* not published changes nothing.
EventDelivered(e) ==
    LET batch == Frozen(e)
        packets == FlattenSeq([i \in 1..Len(batch) |-> LinesOf(batch[i])])
        state == FoldLeft(Offer, [web |-> web, registry |-> registry], packets)
    IN /\ Publishable(e) /\ events < WebEvents
       /\ events' = events + 1
       /\ web' = state.web
       /\ registry' = state.registry
       /\ router' = Dropped(router, registry \ state.registry)
       /\ due' = Recorded(batch)
       /\ UNCHANGED <<handed, server>>
\* Bridge::tick, with or without a heartbeat for the streams.
Tick ==
    /\ server = "open"
    /\ \/ /\ web' = Reap(web) /\ UNCHANGED <<registry, router>>
          /\ UNCHANGED events
       \/ /\ registry # {} /\ events < WebEvents /\ events' = events + 1
          /\ \E order \in SetToSeqs(registry) :
                 Offered([i \in 1..Len(order) |-> Beat(order[i])])
    /\ UNCHANGED <<handed, server, due>>

\* The actor ends: commands that wait are dropped, streams and routes fail.
CloseServer ==
    /\ server = "open" /\ server' = "closing"
    /\ handed' = <<>> /\ registry' = {}
    /\ router' = [router EXCEPT !.regs = <<>>, !.active = FALSE]
    /\ web' = [c \in Clients |->
                  [web[c] EXCEPT !.route = FALSE,
                                 !.cut = @ \/ web[c].route \/ c \in registry,
                                 !.at = IF @ = "queued" THEN "closed" ELSE @]]
    /\ UNCHANGED <<due, events>>
\* The jobs are joined, and the drivers within their time for a shutdown.
DriversJoined == \A c \in Clients : web[c].at \in {"away", "closed"}
WebDown ==
    /\ server = "closing" /\ server' = "down"
    /\ DriversJoined /\ \A c \in Clients : web[c].jobs = 0
    /\ UNCHANGED <<web, handed, registry>> /\ Still

WebNext ==
    \/ \E c \in Clients : \/ Accept(c) \/ EndBody(c) \/ Open(c)
                          \/ JobEnds(c) \/ Written(c) \/ ResponseEnds(c) \/ Leave(c)
    \/ \E e \in WebMenu : EventDelivered(e)
    \/ Tick \/ CloseServer \/ WebDown

\* Jobs end, the bridge ticks, and drivers end once the server closes.
WebWork ==
    \/ \E c \in Clients : JobEnds(c) \/ (server = "closing" /\ Leave(c))
    \/ WebDown

WebTypeOK ==
    /\ NoticesTypeOK
    /\ \A c \in Clients :
           /\ web[c].at \in {"away", "body", "queued", "served", "closed"}
           /\ web[c].kind \in {"none", "ordinary", "emergency"}
           /\ web[c].jobs \in 0..2 /\ web[c].left \in 0..2
    /\ registry \subseteq Clients /\ server \in {"open", "closing", "down"}

-----------------------------------------------------------------------------
(* A stream brings its acknowledgement and then what was published while it  *)
(* stood, in order and without a gap, all of it as long as it is registered; *)
(* a reader that is too slow finds its stream broken off.  The registry of   *)
(* streams and the router know the same listeners.                           *)
StreamsAreExact ==
    /\ \A c \in Clients : web[c].want = "listen" =>
           LET lines == SelectSeq(web[c].seen \o web[c].sink, LAMBDA l : l.kind # "beat")
               owed == <<Ack(c)>> \o [i \in 1..Len(due[c]) |->
                           Line("note", Recipient(c, c), due[c][i][1], {due[c][i][2]})]
           IN /\ IsPrefix(lines, owed) \/ lines = <<AnswerLine(c)>>
              /\ c \in registry => lines = owed
              /\ web[c].at = "served" /\ lines # <<AnswerLine(c)>> => c \in registry \/ web[c].cut
    /\ registry = {router.regs[i].id : i \in 1..Len(router.regs)}

(* The reply of a stop that was let in always finds room, one stop of a      *)
(* class runs at a time, and only stops run on the emergency connections.    *)
StopsAreKept ==
    \A c \in Clients :
        /\ IsStop(c) =>
               /\ ~web[c].lost
               /\ \A d \in Clients \ {c} : web[d].want = web[c].want => web[c].jobs * web[d].jobs = 0
        /\ web[c].kind = "emergency" /\ ~IsStop(c) => web[c].jobs = 0 /\ c \notin registry

(* The place of a departed exchange is given back: its reply is written or   *)
(* dropped and its job, which may outlive it, ends.                          *)
DepartedGiveBack == []<>(\A c \in Clients : web[c].gone => ~Custody(web[c]))

=============================================================================
