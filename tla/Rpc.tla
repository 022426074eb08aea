-------------------------------- MODULE Rpc --------------------------------
(***************************************************************************)
(* What the callers of an OBS session rely on, whatever happens inside it: *)
(* the contract that RequestError (native/src/session.rs) states with its  *)
(* three outcomes.  A request is told BeforeDispatch only if no byte of it *)
(* was, or ever will be, put on the wire; an answer is the one the peer    *)
(* gave for that very request; everything else is Unknown.  Module Session *)
(* implements it and module Receipts builds on it.                         *)
(***************************************************************************)
CONSTANTS Requests, Answers

VARIABLES wire,    \* requests the peer may have seen
          told,    \* what the caller of each request was told, or none
          answer   \* the peer's verdict on what it executed, or none

vars == <<wire, told, answer>>

Init ==
    /\ wire = {}
    /\ told = [r \in Requests |-> "none"]
    /\ answer = [r \in Requests |-> "none"]

Write(r) ==
    /\ told[r] # "before"
    /\ wire' = wire \cup {r}
    /\ UNCHANGED <<told, answer>>

Execute(r, v) ==
    /\ r \in wire
    /\ answer[r] = "none"
    /\ answer' = [answer EXCEPT ![r] = v]
    /\ UNCHANGED <<wire, told>>

Tell(r, v) ==
    /\ told[r] = "none"
    /\ v = "before" => r \notin wire
    /\ v \in Answers => v = answer[r]
    /\ told' = [told EXCEPT ![r] = v]
    /\ UNCHANGED <<wire, answer>>

Next ==
    \E r \in Requests :
        \/ Write(r)
        \/ \E v \in Answers : Execute(r, v)
        \/ \E v \in Answers \cup {"before", "unknown"} : Tell(r, v)

Spec == Init /\ [][Next]_vars
=============================================================================
