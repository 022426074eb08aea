------------------------------- MODULE MCPlans -------------------------------
(* Worlds, requests and recordings for the run on Plans.                      *)
EXTENDS Plans

\* Scenes: two inputs, settings and properties as small numbers, -1: not asked.
Input(a, b, c) == [settings |-> a, muted |-> b, tracks |-> c]
Item(id, s, v, g) == [id |-> id, src |-> s, visible |-> v, geometry |-> g]
World(scene, kinds, items) ==
    [scene |-> scene, kind |-> kinds, uuid |-> [s \in Sources |-> IF kinds[s] \in {"k", "p"} THEN 1 ELSE 0],
     input |-> [s \in Sources |-> IF kinds[s] \in {"k", "p"} THEN Input(0, 0, 0) ELSE NoInput],
     items |-> items, window |-> 1, next |-> 5]
Ask(k, settings, muted, visible, geometry) ==
    [kind |-> k, settings |-> settings, muted |-> muted, tracks |-> -1, visible |-> visible, geometry |-> geometry]
Apply(sources, ask, remove, order, apply) ==
    [kind |-> "apply", sources |-> sources, want |-> [s \in Sources |-> ask], removeOthers |-> remove,
     order |-> order, apply |-> apply, snapshot |-> 0]
Restore(apply) == [kind |-> "restore", snapshot |-> 0, apply |-> apply]
TakeSnapshot == [kind |-> "snapshot", snapshot |-> 0]
Capture(target, portal, silent, fit, apply) ==
    [kind |-> "capture", target |-> target, portal |-> portal, silent |-> silent, fit |-> fit, apply |-> apply, snapshot |-> 0]
Scenario(w, runs, edits, refusals, crashes) ==
    [world |-> w, history |-> <<>>, runs |-> runs, edits |-> edits, refusals |-> refusals, crashes |-> crashes]

Both == World(TRUE, <<"k", "k">>, <<Item(1, 1, 1, 0), Item(2, 2, 1, 0)>>)
One == World(TRUE, <<"k", "none">>, <<Item(1, 1, 1, 0)>>)
Empty == World(FALSE, <<"none", "none">>, <<>>)
Portal == World(TRUE, <<"p", "k">>, <<Item(1, 1, 1, 0)>>)

AsIs == Ask("", -1, -1, -1, -1)
Swap == Apply(<<2, 1>>, AsIs, FALSE, TRUE, TRUE)
Fill == Apply(<<1, 2>>, Ask("k", 1, 1, 0, 1), TRUE, TRUE, TRUE)
OnlySecond == Apply(<<2>>, Ask("k", 1, -1, 1, -1), TRUE, TRUE, TRUE)
OnlyFirst == Apply(<<1>>, AsIs, TRUE, TRUE, TRUE)
SceneScenarios == {
    Scenario(Both, <<Swap, Restore(TRUE)>>, 0, 0, 1),
    Scenario(Empty, <<Fill, Restore(TRUE)>>, 0, 1, 0),
    Scenario(One, <<OnlySecond, Restore(TRUE)>>, 0, 0, 0),
    Scenario(Both, <<OnlyFirst>>, 0, 0, 0),
    Scenario(One, <<Fill>>, 1, 0, 0),
    Scenario(One, <<Capture(2, FALSE, TRUE, TRUE, TRUE)>>, 1, 0, 0),
    Scenario(Both, <<Capture(1, FALSE, TRUE, FALSE, TRUE), Restore(TRUE)>>, 0, 1, 0),
    Scenario(Portal, <<Capture(1, TRUE, TRUE, TRUE, TRUE)>>, 0, 0, 1),
    Scenario(Both, <<TakeSnapshot, Swap, Restore(FALSE)>>, 0, 0, 0),
    Scenario(Both, <<Capture(1, FALSE, FALSE, FALSE, TRUE)>>, 1, 0, 0),
    Scenario(Both, <<Capture(1, FALSE, FALSE, FALSE, FALSE), Apply(<<2, 2>>, AsIs, FALSE, FALSE, FALSE)>>, 0, 0, 0)}

\* Trims: ticks of five milliseconds; the picture levels, what is kept, chapters, and one
\* sequence of silence reports per audio track.
Trim(levels, min, keep, before, after, excess, chapters, audio) ==
    [levels |-> levels, minIdle |-> min, keep |-> keep, before |-> before, after |-> after,
     excess |-> excess, chapters |-> chapters, audio |-> audio]
Silent(start, end) == [start |-> start, end |-> end]
Recordings == {
    Trim({0, 2}, 200, 0, 0, 0, 0, <<>>, <<>>),
    Trim({0, 2}, 200, 51, 60, 33, 3, <<201, 455>>, <<>>),
    Trim({0, 2}, 200, 0, 31, 77, -7, <<300>>,
         <<<<Silent(-3, 405), Silent(505, Absent)>>, <<Silent(0, Absent)>>>>),
    Trim({0, 2}, 200, 0, 0, 0, 0, <<>>, <<<<Silent(-5, Absent), Silent(100, Absent)>>>>),
    Trim({0, 2, 12}, 200, 15, 15, 15, 3, <<5>>, <<<<Silent(77, Absent), Silent(Absent, 633)>>>>),
    Trim({0, 1, 2}, 300, 0, 10, 10, 0, <<0, 400, 401>>, <<>>)}

Tools == {
    [tool |-> "sheet", apply |-> FALSE, preview |-> FALSE],
    [tool |-> "trim", apply |-> TRUE, preview |-> TRUE],
    [tool |-> "trim", apply |-> TRUE, preview |-> FALSE]}

=============================================================================
