----------------------------- MODULE MCReceipts -----------------------------
(* Instances of Receipts: one scope per ordinary operation, one scope for  *)
(* the operations of a take.                                               *)
EXTENDS Receipts, TLC

CONSTANTS gen, crit, pub, start, stop, restart,
          lgen, lcrit, lpub, ltake

KindTable == (gen :> "generic") @@ (crit :> "critical") @@ (pub :> "publicStop")
             @@ (start :> "takeStart") @@ (stop :> "takeStop") @@ (restart :> "takeStart")
LoanTable == (gen :> lgen) @@ (crit :> lcrit) @@ (pub :> lpub)
             @@ (start :> ltake) @@ (stop :> ltake) @@ (restart :> ltake)

MCOpKind == [o \in Ops |-> KindTable[o]]
MCLoanOf == [o \in Ops |-> LoanTable[o]]
=============================================================================
