-------------------------- MODULE MCPaperExecution --------------------------
(***************************************************************************)
(* Instances of PaperExecution: at most two attempts, one recoverer, one   *)
(* operator, two orders; approvals g1 and g3 resume, g2 cancels.           *)
(***************************************************************************)
EXTENDS PaperExecution
CONSTANTS a1, a2, v1, o1, c1, c2, p1, d1, d2, g1, g2, g3

MCOneOrder == [a \in Attempts |-> c1]
MCTwoOrders == [a \in Attempts |-> IF a = a1 THEN c1 ELSE c2]
MCPayload == [a \in Attempts |-> p1]
MCDigest == [a \in Attempts |-> IF a = a1 THEN d1 ELSE d2]
MCAction == [g \in Approvals |-> IF g = g2 THEN "cancel_owned_orders" ELSE "resume"]
MCIssued == [g \in Approvals |-> 0]
MCExpires == [g \in Approvals |-> 2]
=============================================================================
