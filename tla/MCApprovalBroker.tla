-------------------------- MODULE MCApprovalBroker --------------------------
(* Instances of ApprovalBroker for TLC.                                    *)
EXTENDS ApprovalBroker, TLC

CONSTANTS g1, g2, c1,      \* two gateway threads and one command-line thread
          gateway, cli

MCProcessOf == [t \in Threads |-> IF t = c1 THEN cli ELSE gateway]

(* What the deployed programs call: the gateway's handlers request,        *)
(* approve, deny and consume; `kavach approval deny` denies.               *)
Deployed == [t \in Threads |-> IF t = c1 THEN {"deny"}
                               ELSE {"request", "approve", "deny", "consume"}]

(* One gateway thread serves agents, the other one operators.              *)
Roles == [t \in Threads |-> IF t = c1 THEN {"deny"}
                            ELSE IF t = g1 THEN {"request", "consume"}
                            ELSE {"approve", "consume"}]

(* The whole library interface, cancel and expiry sweep included, used by  *)
(* two threads of one process.                                             *)
Library == [t \in Threads |-> IF t = g1 THEN {"request", "approve", "consume"}
                              ELSE {"deny", "cancel", "consume", "sweep"}]

(* Threads that only open approvals.                                       *)
Requesters == [t \in Threads |-> {"request"}]

IdSymmetry == Permutations(Ids)
=============================================================================
