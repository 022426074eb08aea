------------------------------- MODULE Scenes -------------------------------
(***************************************************************************)
(* The pure planners of the three scene workflows: apply_scene.rs (make a  *)
(* scene match a request), snapshots.rs (what a snapshot holds, and what   *)
(* restoring it would change) and capture_window.rs (select a window and   *)
(* the effects that follow), and what OBS does with their effects.         *)
(*                                                                         *)
(* One scene.  A source has a kind, an identity and three input fields     *)
(* ("settings" stands for the settings object; volume behaves as muted     *)
(* does); an item has an identity, a source, its visibility and its        *)
(* geometry (lock and transform behave alike).  Items are listed back to   *)
(* front.  Every value is 0 or 1; texts and numeric tolerance are left out.*)
(***************************************************************************)
EXTENDS Integers, Sequences, SequencesExt, FiniteSets

CONSTANTS Sources   \* names of inputs, as small numbers

InputFields == {"settings", "muted", "tracks"}
NoInput == [f \in {} |-> 0]
\* A name is free, an input of the capture kind "k" or of the portal kind "p",
\* or taken by another scene.
Kinds == {"none", "k", "p", "scene"}
IsInput(w, s) == w.kind[s] \in {"k", "p"}

ItemIds(items) == {items[i].id : i \in 1..Len(items)}
ItemsOf(items, s) == SelectSeq(items, LAMBDA x : x.src = s)
HasItem(w, s) == ItemsOf(w.items, s) # <<>>
ItemOf(w, s) == ItemsOf(w.items, s)[1]
\* A position as an ordered list of the names, for the loops over sources.
InOrder(f(_), names) == FlattenSeq([i \in 1..Len(names) |-> f(names[i])])
When(cond, e) == IF cond THEN <<e>> ELSE <<>>

Effect(op, src, id, field, value) ==
    [op |-> op, src |-> src, id |-> id, field |-> field, value |-> value, uuid |-> 0]

(***************************************************************************)
(* apply_scene::plan.  A request lists sources: want[s] gives the kind to  *)
(* create it with ("" if none was given), and for each aspect the wanted   *)
(* value or -1.                                                            *)
(***************************************************************************)
Listed(r) == Range(r.sources)
PlanErrors(r, w) ==
    \/ Cardinality(Listed(r)) # Len(r.sources)
    \/ \E s \in Listed(r) :
           \/ w.kind[s] = "scene"
           \/ IsInput(w, s) /\ r.want[s].kind \notin {"", w.kind[s]}
           \/ w.kind[s] = "none" /\ r.want[s].kind = ""

\* A source that is shown unless the request hides it.
Shown(r, s) == IF r.want[s].visible = 0 THEN 0 ELSE 1
Creations(r, w) ==
    LET create(s) ==
            IF IsInput(w, s) THEN When(~HasItem(w, s), Effect("item", s, 0, "visible", Shown(r, s)))
            ELSE When(w.kind[s] = "none",
                      Effect("input", s, 0, r.want[s].settings, Shown(r, s)))
    IN When(~w.scene, Effect("scene", 0, 0, "", 0)) \o InOrder(create, r.sources)

\* An input that could not be read differs in every field but its settings.
FieldDiffers(r, w, s, f) ==
    /\ r.want[s][f] # -1
    /\ IF w.input[s] = NoInput THEN f # "settings" ELSE w.input[s][f] # r.want[s][f]
InputChanges(r, w, s) ==
    LET change(f) == When(FieldDiffers(r, w, s, f), Effect("set", s, 0, f, r.want[s][f]))
    IN change("settings") \o change("muted") \o change("tracks")
\* Changes of an item that does not exist yet have no effect to send: id 0.
ItemChanges(r, w, s) ==
    LET item == IF HasItem(w, s) THEN ItemOf(w, s) ELSE [id |-> 0, visible |-> -1, geometry |-> -1]
        want == r.want[s]
    IN When(item.id # 0 /\ want.visible \notin {-1, item.visible},
            Effect("place", s, item.id, "visible", want.visible))
       \o When(want.geometry \notin {-1, item.geometry},
               Effect("place", s, item.id, "geometry", want.geometry))
Removals(r, w) ==
    LET others == SelectSeq(w.items, LAMBDA x : x.src \notin Listed(r))
    IN IF ~r.removeOthers THEN <<>>
       ELSE [i \in 1..Len(others) |-> Effect("remove", others[i].src, others[i].id, "", 0)]
\* Fault seed: the position is counted from the items there are before removal.
OrderingBeforeRemoval(r, w) ==
    LET n == Len(r.sources)
        m == Len(w.items)
        inPlace == m >= n /\ \A i \in 1..n : w.items[m - n + i].src = r.sources[i]
    IN IF ~r.order \/ inPlace THEN <<>>
       ELSE IF \E s \in Listed(r) : ~HasItem(w, s) THEN <<Effect("index", 0, 0, "", 0)>>
       ELSE [i \in 1..n |-> Effect("index", r.sources[i], ItemOf(w, r.sources[i]).id, "", m)]
\* The listed sources go to the front, one after the other.
Ordering(r, w) ==
    LET n == Len(r.sources)
        m == Len(w.items)
        front == IF r.removeOthers THEN n ELSE m
        inPlace == /\ m >= n
                   /\ \A i \in 1..n : w.items[m - n + i].src = r.sources[i]
    IN IF ~r.order \/ inPlace THEN <<>>
       ELSE IF \E s \in Listed(r) : ~HasItem(w, s) THEN <<Effect("index", 0, 0, "", 0)>>
       ELSE [i \in 1..n |->
                 Effect("index", r.sources[i], ItemOf(w, r.sources[i]).id, "", front)]
Planned(r, w, s) == IF IsInput(w, s) THEN r.want[s].kind \in {"", w.kind[s]}
                    ELSE r.want[s].kind # ""
Changes(r, w) ==
    LET change(s) == IF Planned(r, w, s) THEN InputChanges(r, w, s) \o ItemChanges(r, w, s)
                     ELSE <<>>
    IN InOrder(change, r.sources) \o Removals(r, w) \o Ordering(r, w)
\* An item that is missing cannot be addressed: the effects of a continuation.
Sendable(changes) == SelectSeq(changes, LAMBDA e : e.op \in {"place", "index"} => e.id # 0)
Matches(r, w) == ~PlanErrors(r, w) /\ Creations(r, w) = <<>> /\ Changes(r, w) = <<>>

(***************************************************************************)
(* Snapshots.                                                              *)
(***************************************************************************)
\* capture_snapshot: the items of the scenes and the inputs asked for.
SnapshotOf(w, scene, inputs) ==
    [scene |-> scene, items |-> IF scene THEN w.items ELSE <<>>,
     input |-> [s \in Sources |-> IF s \in inputs THEN w.input[s] ELSE NoInput]]
\* apply_scene::snapshot_selection.
SelectedInputs(r, w) ==
    {s \in Sources : IsInput(w, s) /\ (HasItem(w, s) \/ s \in Listed(r))}
\* Nothing to save for a request whose scene and sources are all new.
NeedsSnapshot(r, w) == w.scene \/ SelectedInputs(r, w) # {}

\* prune: the newest of each class stay, in their order.
Prune(history, maxAuto, maxUser) ==
    LET younger(i) == {j \in i..Len(history) : history[j].auto = history[i].auto}
        kept(i) == Cardinality(younger(i)) <= IF history[i].auto THEN maxAuto ELSE maxUser
    IN FlattenSeq([i \in 1..Len(history) |-> When(kept(i), history[i])])

\* The saved items that are still there take the places they share in their
\* saved order; every other item keeps its place.
Survivors(snap, now) == SelectSeq(snap.items, LAMBDA x : x.id \in ItemIds(now))
RestoreOrder(snap, now) ==
    LET ids == ItemIds(Survivors(snap, now))
        rank(i) == Cardinality({j \in 1..i : now[j].id \in ids})
        target == [i \in 1..Len(now) |->
                       IF now[i].id \in ids THEN Survivors(snap, now)[rank(i)].id ELSE now[i].id]
    IN IF \A i \in 1..Len(now) : target[i] = now[i].id THEN <<>>
       ELSE [i \in 1..Len(now) |-> Effect("index", 0, target[i], "", i)]
\* plan_restore: inputs by name, items by their number, then their order; what
\* is missing or was added since is only reported.
RestoreChanges(snap, w) ==
    LET saved(s) == snap.input[s] # NoInput /\ w.input[s] # NoInput
        inputs(s) ==
            IF ~saved(s) THEN <<>>
            ELSE LET change(f) == When(snap.input[s][f] # w.input[s][f],
                                       Effect("set", s, 0, f, snap.input[s][f]))
                 IN change("settings") \o change("muted") \o change("tracks")
        now == IF snap.scene /\ w.scene THEN w.items ELSE <<>>
        current(x) == CHOOSE y \in Range(now) : y.id = x.id
        place(x) == When(current(x).geometry # x.geometry, Effect("place", x.src, x.id, "geometry", x.geometry))
                    \o When(current(x).visible # x.visible, Effect("place", x.src, x.id, "visible", x.visible))
    IN InOrder(inputs, SetToSortSeq(Sources, <)) \o InOrder(place, Survivors(snap, now))
       \o RestoreOrder(snap, now)

(***************************************************************************)
(* Capture of a window: discovery and the effects it may ask for.          *)
(***************************************************************************)
\* The input whose property list is read: the target, or one of its kind.
HasInventory(r, w) == IsInput(w, r.target) \/ \E s \in Sources : w.kind[s] = "k"
Inventory(r, w) ==
    IF IsInput(w, r.target) THEN r.target ELSE CHOOSE s \in Sources : w.kind[s] = "k"
\* discover: scene, kind and membership resolve, and one window matches.
Discoverable(r, w) ==
    /\ w.scene /\ HasInventory(r, w)
    /\ w.kind[r.target] = "p" => r.portal
    /\ w.kind[r.target] # "scene"
    /\ r.portal => w.kind[r.target] = "p"
    /\ IsInput(w, r.target) => HasItem(w, r.target)
    /\ ~r.portal => w.window # 0 /\ w.input[Inventory(r, w)] # NoInput
SettingsOf(w, s) == w.input[s]["settings"]
Members(w, s) == ItemIds(ItemsOf(w.items, s))
Identity(w, s) == <<w.kind[s], w.uuid[s]>>
\* compare_identity: the target and the inventory are still the same inputs.
SameIdentity(r, inventory, a, b) ==
    \A s \in {r.target, inventory} : Identity(a, s) = Identity(b, s)
\* compare: what a later sample must agree on.
SameCapture(r, inventory, a, b) ==
    /\ SameIdentity(r, inventory, a, b) /\ a.scene = b.scene
    /\ \A s \in {inventory, r.target} : IsInput(a, s) => SettingsOf(a, s) = SettingsOf(b, s)
    /\ ~r.portal => a.window = b.window
    /\ IsInput(a, r.target) => Members(a, r.target) = Members(b, r.target)
\* Ready::effect_plan: requests of the initial, audio and fit steps.
CapturePlan(r, w) ==
    <<IF ~IsInput(w, r.target) THEN 1 ELSE IF r.portal THEN 0 ELSE 1,
      IF r.silent /\ ~r.portal THEN 2 ELSE 0,
      IF r.fit THEN 1 ELSE 0>>
Bound(e, uuid) == [e EXCEPT !.uuid = uuid]
InitialIntent(r, w) ==
    IF IsInput(w, r.target) THEN Bound(Effect("set", r.target, 0, "settings", w.window), w.uuid[r.target])
    ELSE Effect("input", r.target, 0, w.window, 1)
AudioIntents(r, uuid) ==
    <<Bound(Effect("set", r.target, 0, "muted", 1), uuid), Bound(Effect("set", r.target, 0, "tracks", 1), uuid)>>
FitIntent(r, w) == Effect("place", r.target, ItemOf(w, r.target).id, "geometry", 1)
Captured(r, w) ==
    /\ ~r.portal => w.input[r.target]["settings"] = w.window
    /\ r.silent /\ ~r.portal => w.input[r.target]["muted"] = 1 /\ w.input[r.target]["tracks"] = 1
    /\ r.fit => ItemOf(w, r.target).geometry = 1

(***************************************************************************)
(* OBS: whether an effect is accepted and what it does.                    *)
(***************************************************************************)
Defaults == [f \in InputFields |-> 0]
Accepts(w, e) ==
    CASE e.op = "scene" -> ~w.scene
      [] e.op = "input" -> w.scene /\ w.kind[e.src] = "none"
      [] e.op = "item"  -> w.scene /\ IsInput(w, e.src)
      [] e.op = "set"   -> IsInput(w, e.src) /\ e.uuid \in {0, w.uuid[e.src]}
      [] e.op = "index" -> e.id \in ItemIds(w.items) /\ e.value <= Len(w.items)
      [] OTHER          -> e.id \in ItemIds(w.items)
NewItem(w, e) == [id |-> w.next, src |-> e.src, visible |-> e.value, geometry |-> 0]
Perform(w, e) ==
    CASE e.op = "scene" -> [w EXCEPT !.scene = TRUE]
      [] e.op = "input" ->
             [w EXCEPT !.kind[e.src] = "k", !.uuid[e.src] = @ + 1, !.next = @ + 1,
                 !.input[e.src] = [Defaults EXCEPT !["settings"] = IF e.field = -1 THEN 0 ELSE e.field],
                 !.items = Append(@, NewItem(w, e))]
      [] e.op = "item"  -> [w EXCEPT !.next = @ + 1, !.items = Append(@, NewItem(w, e))]
      [] e.op = "set"   -> [w EXCEPT !.input[e.src][e.field] = e.value]
      [] e.op = "place" ->
             [w EXCEPT !.items = [i \in 1..Len(@) |->
                 IF @[i].id = e.id THEN [@[i] EXCEPT ![e.field] = e.value] ELSE @[i]]]
      [] e.op = "remove" -> [w EXCEPT !.items = SelectSeq(@, LAMBDA x : x.id # e.id)]
      [] e.op = "index" ->
             LET item == CHOOSE x \in Range(w.items) : x.id = e.id
             IN [w EXCEPT !.items = InsertAt(SelectSeq(@, LAMBDA x : x.id # e.id), e.value, item)]
\* A serial batch: every request has its row, unless it halts at a failure.
RunBatch(w, effects, halt, refused) ==
    LET step(acc, i) ==
            IF halt /\ acc.rows # <<>> /\ ~Last(acc.rows) THEN acc
            ELSE IF i \notin refused /\ Accepts(acc.world, effects[i])
            THEN [world |-> Perform(acc.world, effects[i]), rows |-> Append(acc.rows, TRUE)]
            ELSE [acc EXCEPT !.rows = Append(@, FALSE)]
    IN FoldLeft(step, [world |-> w, rows |-> <<>>], [i \in 1..Len(effects) |-> i])
=============================================================================
