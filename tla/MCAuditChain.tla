---------------------------- MODULE MCAuditChain ----------------------------
(***************************************************************************)
(* Instances of AuditChain for TLC.                                        *)
(***************************************************************************)
EXTENDS AuditChain, TLC

CONSTANTS w1, w2, b1, b2, b3, x, y

(* b1 and b2 are different columns with the same canonical bytes.          *)
SameBytes == (b1 :> x) @@ (b2 :> x) @@ (b3 :> y)

(* A hash that was computed over some other history.                       *)
OtherHash == {<< <<0, x>> >>}

(* Events are appended with b1 and b3; b2 is what a damaged row may have.  *)
AppendedBodies == \A w \in Writers : wr'[w].body # b2
AuditSpec == Init /\ [][Next /\ AppendedBodies]_vars

Symmetry == Permutations(Writers)
=============================================================================
