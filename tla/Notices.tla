------------------------------ MODULE Notices ------------------------------
(***************************************************************************)
(* The router of notifications (resource_events.rs): registrations,        *)
(* projection of OBS events, and publications whose recipients are frozen  *)
(* when the event is applied.                                              *)
(*                                                                         *)
(* The program runs on one thread, so planning a registration, reserving   *)
(* its acknowledgement and committing it is one step, and so is a          *)
(* publication: the revision a plan carries cannot change underneath it.   *)
(* A resource is one of four names, one of them the items of a scene; the  *)
(* limits in bytes and in items are one limit in items.                    *)
(***************************************************************************)
EXTENDS Integers, Sequences, SequencesExt, FiniteSets

CONSTANTS EventMenu,     \* bound: the events considered
          MaxEvents,     \* bound: events in one behaviour
          MaxListeners,  \* registrations at once (1024)
          QueueItems     \* frozen publications that wait for the pipe (64)

ASSUME NoticesAssumption ==
    MaxEvents \in Nat /\ MaxListeners \in Nat \ {0} /\ QueueItems \in Nat \ {0}

VARIABLES
    router,  \* registrations, the queue, the first failure
    due,     \* history: what each registration should hear, in order
    events   \* history: the events so far

noticeVars == <<router, due, events>>

\* Registration 0 is the retained session of a legacy client.
Registrations == 0..6
NewRouter(legacy) ==
    [active |-> TRUE, legacy |-> legacy, regs |-> <<>>, uris |-> {},
     queue |-> <<>>, failure |-> FALSE]
NoticesInit(legacy) ==
    /\ router = NewRouter(legacy)
    /\ due = [g \in Registrations |-> <<>>]
    /\ events = 0

\* What an event changes, in the order of the callbacks.  "list" is the list
\* of resources; a scene whose name is too long has no name for its items.
Projection(e) ==
    CASE e = "record"    -> <<"status">>
      [] e = "program"   -> <<"status", "scenes">>
      [] e = "listed"    -> <<"scenes">>
      [] e = "created"   -> <<"scenes", "list">>
      [] e = "renamed"   -> <<"status", "scenes", "list", "items">>
      [] e = "item"      -> <<"items">>
      [] e = "oversized" -> <<"toolong">>
      [] e = "take"      -> <<"take">>

Wants(interest) ==
    IF router.legacy THEN interest \in router.uris
    ELSE \E i \in 1..Len(router.regs) : interest \in router.regs[i].wants
Interested == router.legacy \/ \E i \in 1..Len(router.regs) :
                                   router.regs[i].wants \ {"tools"} # {}
\* Items of scenes are projected only for somebody who asked for some.
Changes(e) ==
    SelectSeq(Projection(e), LAMBDA c : c \in {"items", "toolong"} => Wants("items"))

\* A recipient is the identity on the wire and, for the history, which
\* registration of that identity was meant.
Recipient(id, gen) == [id |-> id, gen |-> gen]
Session == Recipient(0, 0)
Audience(change) ==
    IF router.legacy
    THEN IF change = "list" \/ change \in router.uris THEN <<Session>> ELSE <<>>
    ELSE LET heard == SelectSeq(router.regs, LAMBDA r : change \in r.wants)
         IN [i \in 1..Len(heard) |-> Recipient(heard[i].id, heard[i].gen)]
Delivery(change) == [change |-> change, to |-> Audience(change), n |-> events + 1]
Frozen(e) ==
    LET changes == Changes(e)
        all == [i \in 1..Len(changes) |-> Delivery(changes[i])]
    IN SelectSeq(all, LAMBDA d : d.to # <<>>)

\* A line: an acknowledgement, a notification, a changed catalogue, a
\* catalogue, a reply.
Line(kind, to, n, what) ==
    [kind |-> kind, id |-> to.id, gen |-> to.gen, n |-> n, what |-> what]
NoteLine(d, to) == Line("note", to, d.n, {d.change})
LinesOf(d) == [i \in 1..Len(d.to) |-> NoteLine(d, d.to[i])]

\* What a registration is owed by a publication.
Owed(g, batch) ==
    LET mine == SelectSeq(batch, LAMBDA d : \E i \in 1..Len(d.to) : d.to[i].gen = g)
    IN [i \in 1..Len(mine) |-> <<mine[i].n, mine[i].change>>]
Recorded(batch) == [g \in Registrations |-> due[g] \o Owed(g, batch)]

Broken(r) == [r EXCEPT !.failure = TRUE]
\* Publisher::publish up to the hand-over of the batch: nothing is published
\* for a closed router or after its failure, nor for nobody.
Publishable(e) == router.active /\ ~router.failure /\ Interested /\ Changes(e) # <<>>
TooLong(e) == "toolong" \in ToSet(Changes(e))

\* plan_listen, commit_listen: the limit is looked at before a registration
\* of the same identity is replaced, in its place.
PlanRefused == ~router.active \/ Len(router.regs) >= MaxListeners
Registration(id, gen, wants) == [id |-> id, gen |-> gen, wants |-> wants]
CommitListen(r, reg) ==
    LET same == {i \in 1..Len(r.regs) : r.regs[i].id = reg.id}
    IN [r EXCEPT !.regs = IF same = {} THEN Append(@, reg)
                          ELSE [i \in 1..Len(@) |-> IF i \in same THEN reg ELSE @[i]]]
CancelListener(r, id) == [r EXCEPT !.regs = SelectSeq(@, LAMBDA reg : reg.id # id)]
CommitUri(r, uri, add) ==
    [r EXCEPT !.uris = IF add THEN @ \cup {uri} ELSE @ \ {uri}]

NoticesTypeOK ==
    /\ router \in [active : BOOLEAN, legacy : BOOLEAN, failure : BOOLEAN,
                   regs : Seq([id : Nat, gen : Nat, wants : SUBSET STRING]),
                   uris : SUBSET STRING, queue : Seq(Seq([change : STRING, n : Nat,
                       to : Seq([id : Nat, gen : Nat])]))]
    /\ Len(router.regs) <= MaxListeners
    /\ Len(router.queue) <= QueueItems
    /\ events \in 0..MaxEvents

=============================================================================
