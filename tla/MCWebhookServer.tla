--------------------------- MODULE MCWebhookServer ---------------------------
(* Instances of WebhookServer for TLC: three requests for two deliveries     *)
(* about one pull request and one of another kind, or two for two.           *)
EXTENDS WebhookServer

CONSTANTS p1, q1, q2, q3, d1, d2, d3

MCRequests == {q1, q2, q3}
MCTwoRequests == {q1, q2}
MCDeliveries == {d1, d2, d3}
MCTwoDeliveries == {d1, d2}
MCPRs == {p1}
MCSubject == [d \in MCDeliveries |-> IF d = d3 THEN NoPR ELSE p1]
MCTwoSubject == [d \in MCTwoDeliveries |-> p1]
==============================================================================
