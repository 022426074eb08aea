----------------------------- MODULE MCSession -----------------------------
(* Instances of Session: the kinds of the requests of a run.               *)
EXTENDS Session, TLC

CONSTANTS obs, eff, bat, own, pub

MCKind == (obs :> "observation") @@ (eff :> "single") @@ (bat :> "batch")
          @@ (own :> "ownedStop") @@ (pub :> "safetyStop")
KindOf == [r \in Requests |-> MCKind[r]]
=============================================================================
