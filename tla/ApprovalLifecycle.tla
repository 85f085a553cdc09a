------------------------- MODULE ApprovalLifecycle -------------------------
(***************************************************************************)
(* What the approval broker promises about one database of approvals,      *)
(* whatever number of threads and processes work on it: the state diagram  *)
(* of an approval and the number of execution grants it ever gives.  Time, *)
(* locks, the audit chain and tokens are left out; ApprovalBroker has them *)
(* and is shown to implement this module.                                  *)
(***************************************************************************)
EXTENDS Naturals

CONSTANT Ids            \* approval identifiers

VARIABLES life,         \* life[i]: the state of approval i
          grants        \* grants[i]: how often i was exchanged for a permit

lifeVars == <<life, grants>>

Active == {"pending", "approved"}
Final == {"denied", "cancelled", "expired", "consumed"}
LifeStates == {"absent"} \cup Active \cup Final

LifeInit == /\ life = [i \in Ids |-> "absent"]
            /\ grants = [i \in Ids |-> 0]

(* A require_approval decision creates a pending approval.                 *)
Open(i) == /\ life[i] = "absent"
           /\ life' = [life EXCEPT ![i] = "pending"]
           /\ UNCHANGED grants

(* An operator decides a pending approval, or its owner cancels it.        *)
Decide(i, verdict) == /\ life[i] = "pending"
                      /\ life' = [life EXCEPT ![i] = verdict]
                      /\ UNCHANGED grants

(* The approval's one exchange for an execution grant.                     *)
Exchange(i) == /\ life[i] = "approved"
               /\ life' = [life EXCEPT ![i] = "consumed"]
               /\ grants' = [grants EXCEPT ![i] = @ + 1]

(* A batch of active approvals passes its expiry.                          *)
Lapse(S) == /\ \A i \in S : life[i] \in Active
            /\ life' = [i \in Ids |-> IF i \in S THEN "expired" ELSE life[i]]
            /\ UNCHANGED grants

LifeNext == \/ \E i \in Ids : \/ Open(i)
                              \/ Exchange(i)
                              \/ \E v \in {"approved", "denied", "cancelled"} :
                                    Decide(i, v)
            \/ \E S \in SUBSET Ids : Lapse(S)

LifeSpec == LifeInit /\ [][LifeNext]_lifeVars
=============================================================================
