-------------------------------- MODULE Pipe --------------------------------
(***************************************************************************)
(* The frontend on standard input and output: the loop of native_service   *)
(* with resource_notifications, the groups of tools that a client switches *)
(* (dynamic_tools.rs, dynamic_visibility.rs) and the one writer            *)
(* (stdio_output.rs).                                                      *)
(*                                                                         *)
(* A turn of the loop is one step: it reads, reserves room on the pipe,    *)
(* changes state and commits without yielding.  Whatever ends the loop,    *)
(* the end closes the router and flushes what is queued in the same step.  *)
(* A group stands for its tools.  Room is counted in publications; the     *)
(* other limits of the writer refuse in the same way.                      *)
(***************************************************************************)
EXTENDS Notices

CONSTANTS ListenIds,    \* identities a modern client listens under
          Filters,      \* the interests it asks for
          Uris,         \* bound: resources a legacy client subscribes to
          Groups,       \* groups of tools
          Switches,     \* bound: the sets of groups it switches together
          FirstGroups,  \* the groups that are on at first
          OutItems,     \* publications the writer owns at once (128)
          MaxTurns      \* bound: requests of the client

ASSUME PipeAssumption ==
    /\ 0 \notin ListenIds /\ FirstGroups \subseteq Groups /\ Switches \subseteq SUBSET Groups
    /\ OutItems \in Nat \ {0} /\ MaxTurns \in 0..6

VARIABLE pipe
pipeVars == <<pipe, noticeVars>>

\* overrides: the last switch of each group; a preview starts from the first
\* setting and applies them.  seen, refused: history, the lines written (replies
\* left out) and whether the loop ended on a batch without room.
Settings == [Groups -> {"unset", "on", "off"}]
Visible(overrides) ==
    {g \in Groups : overrides[g] = "on" \/ (overrides[g] = "unset" /\ g \in FirstGroups)}
PipeInit ==
    pipe = [loop |-> "running", entries |-> <<>>, locals |-> <<>>, writer |-> "ok",
            overrides |-> [g \in Groups |-> "unset"], seen |-> <<>>, turns |-> 0,
            refused |-> FALSE]

\* Output::reserve_publication: an entry keeps its place until its last line
\* is flushed, and a reply that waits its turn has one too.
Free(p) == IF p.writer = "ok" THEN OutItems - Len(p.entries) - Len(p.locals) ELSE 0
Commit(p, lines) == [p EXCEPT !.entries = Append(@, lines)]

\* resource_notifications::publish, for the deliveries of one or more batches:
\* each takes a place of its own, and the first that finds none is fatal.
Poured(p, deliveries) ==
    LET k == IF Free(p) < Len(deliveries) THEN Free(p) ELSE Len(deliveries)
    IN [p EXCEPT !.entries = @ \o [i \in 1..k |-> LinesOf(deliveries[i])]]
Fits(p, deliveries) == Free(p) >= Len(deliveries)
Queued(r) == FlattenSeq(r.queue)
Flushed(p) == Poured(p, Queued(router))
Emptied(r) == [r EXCEPT !.queue = <<>>]
FlushOK == Fits(pipe, Queued(router)) /\ ~router.failure

Go(r, p) == router' = r /\ pipe' = p /\ UNCHANGED <<due, events>>
\* The loop ends: replies that wait give their places back, the router is
\* closed and what is queued is flushed as far as there is room, which after
\* a batch that found none can be the room those replies left.
Break(r, p) ==
    LET q == [p EXCEPT !.locals = <<>>]
    IN Go([Emptied(r) EXCEPT !.active = FALSE],
          [Poured(q, Queued(r)) EXCEPT !.loop = "ended"])
\* A turn that needs the queue flushed first, and k places after that.
Turn(k, r, p) ==
    IF FlushOK /\ Free(Flushed(pipe)) >= k THEN Go(r, p)
    ELSE Break(Emptied(router), Flushed(pipe))

\* The end of the writer is looked at before anything else but a signal.
Running == pipe.loop = "running" /\ pipe.writer = "ok"
Asks == Running /\ pipe.turns < MaxTurns
Asked(p) == [p EXCEPT !.turns = @ + 1]
Reply == Line("reply", Session, 0, {})

\* Fault seed: the acknowledgement does not wait for what is queued.
ListenUnflushed(id, wants) ==
    LET reg == Registration(id, pipe.turns + 1, wants)
    IN Asks /\ ~router.legacy /\ ~PlanRefused /\ Free(pipe) > 0
       /\ Go(CommitListen(router, reg),
             Commit(Asked(pipe), <<Line("ack", Recipient(id, reg.gen), 0, {})>>))

Listen(id, wants) ==
    LET reg == Registration(id, pipe.turns + 1, wants)
        p == Asked(Flushed(pipe))
    IN /\ Asks /\ ~router.legacy
       /\ IF PlanRefused THEN Turn(1, Emptied(router), Commit(p, <<Reply>>))
          ELSE Turn(1, CommitListen(Emptied(router), reg),
                    Commit(p, <<Line("ack", Recipient(id, reg.gen), 0, {})>>))

\* The notice that a request is cancelled ends the listener of that identity,
\* or suppresses the reply of a switch that still waits.
StopListening(id) ==
    /\ Asks
    /\ \E i \in 1..Len(router.regs) : router.regs[i].id = id
    /\ Go(CancelListener(router, id), Asked(pipe))
CancelSwitch(i) ==
    /\ Asks /\ i \in 1..Len(pipe.locals) /\ ~pipe.locals[i]
    /\ Go(router, Asked([pipe EXCEPT !.locals[i] = TRUE]))

\* A legacy client subscribes; the reply keeps its place and waits.
Subscribe(uri, add) ==
    /\ Asks /\ router.legacy
    /\ Turn(1, CommitUri(Emptied(router), uri, add),
            Asked([Flushed(pipe) EXCEPT !.locals = Append(@, FALSE)]))

\* Whom tool_changes tells.
Targets ==
    IF router.legacy THEN <<Session>>
    ELSE LET heard == SelectSeq(router.regs, LAMBDA r : "tools" \in r.wants)
         IN [i \in 1..Len(heard) |-> Recipient(heard[i].id, heard[i].gen)]
\* Every changed tool is one round of notices; all rounds are one publication,
\* reserved with the reply before anything becomes visible.
ToolNotices(effects) ==
    LET round == [i \in 1..Len(Targets) |-> Line("tools", Targets[i], 0, {})]
    IN FlattenSeq([k \in 1..effects |-> round])
Switched(overrides, groups, on) ==
    [g \in Groups |-> IF g \in groups THEN IF on THEN "on" ELSE "off" ELSE overrides[g]]
Switch(groups, on) ==
    LET set == Switched(pipe.overrides, groups, on)
        before == Visible(pipe.overrides)
        effects == Cardinality((Visible(set) \ before) \cup (before \ Visible(set)))
        notices == ToolNotices(effects)
        p == Asked([Flushed(pipe) EXCEPT !.overrides = set])
        told == IF notices = <<>> THEN p ELSE Commit(p, notices)
    IN /\ Asks
       /\ Turn(IF notices = <<>> THEN 1 ELSE 2, Emptied(router),
               [told EXCEPT !.locals = Append(@, FALSE)])

\* tools/list, answered at once with what is visible.
ListTools ==
    /\ Asks
    /\ Turn(1, Emptied(router),
            Commit(Asked(Flushed(pipe)),
                   <<Line("list", Session, 0, Visible(pipe.overrides))>>))

\* The next batch of the router, or its failure once the queue is empty.
TakeBatch ==
    /\ Running
    /\ \/ /\ router.queue # <<>>
          /\ LET r == [router EXCEPT !.queue = Tail(@)]
                 p == Poured(pipe, Head(router.queue))
             IN IF Fits(pipe, Head(router.queue)) THEN Go(r, p)
                ELSE Break(r, [p EXCEPT !.refused = TRUE])
       \/ router.queue = <<>> /\ router.failure /\ Break(router, pipe)
\* A job of the host ends; its reply does not wait for the queue.
JobReply ==
    /\ Asks
    /\ IF Free(pipe) > 0 THEN Go(router, Commit(Asked(pipe), <<Reply>>))
       ELSE Break(router, Asked(pipe))
\* The reply of a switch or subscription comes to its turn.
LocalReply ==
    /\ Running /\ pipe.locals # <<>>
    /\ LET p == [pipe EXCEPT !.locals = Tail(@)]
       IN Go(router, IF Head(pipe.locals) THEN p ELSE Commit(p, <<Reply>>))

\* The writer: one line of the first entry, whose place is free after the
\* last; or the peer is gone, and everything it owned is dropped.
WriteLine ==
    /\ pipe.writer = "ok" /\ pipe.entries # <<>>
    /\ LET first == Head(pipe.entries)
       IN Go(router, [pipe EXCEPT !.seen = IF Head(first) = Reply THEN @ ELSE Append(@, Head(first)),
                 !.entries = IF Len(first) = 1 THEN Tail(@)
                             ELSE [@ EXCEPT ![1] = Tail(first)]])
WriterFails ==
    /\ pipe.writer = "ok"
    /\ Go(router, [pipe EXCEPT !.writer = "failed", !.entries = <<>>])
\* The input ends, a signal comes, or the writer has ended.
EndOfInput == pipe.loop = "running" /\ Break(router, pipe)

\* An event reaches the router, from a task of its own.  Without interest, and
\* in a closed router, it changes nothing; after a failure it is lost.
EventQueued(e) ==
    LET batch == Frozen(e)
    IN /\ router.active /\ (batch # <<>> \/ TooLong(e))
       /\ events < MaxEvents
       /\ events' = events + 1
       /\ due' = Recorded(batch)
       /\ router' = IF ~Publishable(e) THEN router
                    ELSE IF TooLong(e) \/ Len(router.queue) >= QueueItems THEN Broken(router)
                    ELSE [router EXCEPT !.queue = Append(@, batch)]
       /\ UNCHANGED pipe

PipeNext ==
    \/ \E id \in ListenIds : StopListening(id) \/ \E f \in Filters : Listen(id, f)
    \/ \E uri \in Uris, add \in BOOLEAN : Subscribe(uri, add)
    \/ \E groups \in Switches, on \in BOOLEAN : Switch(groups, on)
    \/ \E i \in 1..Len(pipe.locals) : CancelSwitch(i)
    \/ ListTools \/ TakeBatch \/ JobReply \/ LocalReply
    \/ WriteLine \/ WriterFails \/ EndOfInput
    \/ \E e \in EventMenu : EventQueued(e)

PipeTypeOK ==
    /\ NoticesTypeOK
    /\ pipe.overrides \in Settings
    /\ Len(pipe.entries) + Len(pipe.locals) <= OutItems
    /\ pipe.turns \in 0..MaxTurns

-----------------------------------------------------------------------------
Lines == pipe.seen \o FlattenSeq(pipe.entries)
Heard(g) ==
    LET notes == SelectSeq(Lines, LAMBDA l : l.kind = "note" /\ l.gen = g)
    IN [i \in 1..Len(notes) |-> <<notes[i].n, CHOOSE c \in notes[i].what : TRUE>>]
Waiting(g) == Owed(g, Queued(router))
Acks(id) == {i \in 1..Len(Lines) : Lines[i].kind = "ack" /\ Lines[i].id = id}

(* A registration hears what was published while it stood, in order and,     *)
(* while the frontend runs, all of it up to the overflow of its queue.  What *)
(* it has heard has no gap, after the end of the loop and of the writer too, *)
(* with one exception: when a batch finds no room on the pipe, the closing   *)
(* flush still writes what fits of the batches behind it, and that one gap   *)
(* is the last.  Its lines come after its own acknowledgement and before     *)
(* that of a later one of the same identity.                                 *)
OneGap(heard, all) ==
    \E k, m \in 0..Len(all) :
        k <= m /\ \E n \in m..Len(all) :
            heard = SubSeq(all, 1, k) \o SubSeq(all, m + 1, n)
NotesAreExact ==
    /\ \A g \in Registrations :
           /\ IF pipe.refused THEN OneGap(Heard(g), due[g]) ELSE IsPrefix(Heard(g), due[g])
           /\ Running => /\ IsPrefix(Heard(g) \o Waiting(g), due[g])
                         /\ ~router.failure => Heard(g) \o Waiting(g) = due[g]
    /\ \A i \in 1..Len(Lines) :
           LET l == Lines[i] IN
           l.kind = "note" /\ l.gen # 0 =>
               \E j \in Acks(l.id) : /\ j < i /\ Lines[j].gen = l.gen
                                     /\ \A k \in Acks(l.id) : k < i => k <= j

(* A client that listens to the catalogue, and whose last answer to          *)
(* tools/list is no longer what is visible, has been told, or is about to.   *)
CatalogueIsAnnounced ==
    LET lists == {i \in 1..Len(Lines) : Lines[i].kind = "list"}
        last == CHOOSE i \in lists : \A j \in lists : j <= i
        listens == \/ router.legacy
                   \/ \E i \in 1..Len(router.regs) :
                          /\ "tools" \in router.regs[i].wants
                          /\ \E j \in 1..Len(Lines) : /\ Lines[j].kind = "ack"
                                                      /\ Lines[j].gen = router.regs[i].gen
                                                      /\ j < last
    IN /\ Running /\ lists # {}
       /\ Lines[last].what # Visible(pipe.overrides) /\ listens
       => \E j \in last + 1..Len(Lines) : Lines[j].kind = "tools"

=============================================================================
