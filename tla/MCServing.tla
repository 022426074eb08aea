------------------------------ MODULE MCServing ------------------------------
(* What clients do in one behaviour of the run on Serving.                    *)
EXTENDS Serving

C(tool, args, caller, elicit, confirm) ==
    [tool |-> tool, args |-> args, caller |-> caller, elicit |-> elicit, confirm |-> confirm]
Script(e, connected, most, wires, cs) ==
    [era |-> e, connected |-> connected, most |-> most, wires |-> wires, calls |-> cs]

Edit == C("edit", 1, "anonymous", FALSE, FALSE)
\* Questions and answers over HTTP and on a session, the lease, a lazy
\* connection, and more stops than places.
ClientScripts == {
    Script("modern", TRUE, 3, {1}, {C("live", 1, "anonymous", TRUE, FALSE),
        C("live", 2, "anonymous", TRUE, FALSE), C("live", 1, "a", TRUE, FALSE)}),
    Script("legacy", TRUE, 2, {1, 2}, {C("live", 1, "anonymous", TRUE, FALSE),
        C("live", 2, "a", TRUE, FALSE)}),
    Script("modern", TRUE, 2, {1}, {Edit, C("live", 1, "a", FALSE, TRUE),
        C("settings", 1, "a", FALSE, FALSE)}),
    Script("modern", FALSE, 2, {1}, {C("read", 1, "anonymous", FALSE, FALSE),
        C("takestop", 1, "anonymous", FALSE, TRUE)}),
    Script("legacy", TRUE, 3, {1, 2, 3}, {Edit, C("takestop", 1, "anonymous", FALSE, TRUE)}),
    Script("legacy", FALSE, 2, {1, 2}, {C("read", 1, "anonymous", FALSE, FALSE),
        C("safetystop", 1, "anonymous", FALSE, TRUE)})}

RequestMenus == {
    {"start", "takestop", "generic", "safetystop"},
    {"apply", "snapshot", "generic"},
    {"clip", "media", "tracked"},
    {"safetystop", "manualstop", "handoff"}}

\* Two stops of one class and a listener; two listeners and a stop; more
\* ordinary work than ordinary connections.
ClientMixes == {
    <<"takestop", "takestop", "listen">>,
    <<"listen", "listen", "safetystop">>,
    <<"batch", "read", "safetystop">>}

=============================================================================
