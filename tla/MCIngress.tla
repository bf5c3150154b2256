----------------------------- MODULE MCIngress -----------------------------
EXTENDS Ingress

CONSTANTS m1, m2, s1, s2, k1, k2

OneSender == [m \in {m1, m2} |-> s1]
TwoSenders == [m \in {m1, m2} |-> IF m = m1 THEN s1 ELSE s2]

Good(m) == [id |-> m, wellFormed |-> TRUE]
Bad(m) == [id |-> m, wellFormed |-> FALSE]
Repeated == <<{<<Good(m1), Good(m1), Good(m2)>>}, {<<Bad(m2), Good(m1)>>}>>

Once == <<{<<Good(m1), Bad(m1), Good(m2)>>}>>

Capacities ==
  [b \in Buckets |-> IF b[1] = "ingress-global" THEN 3 ELSE IF b[1] = "ingress-sender" THEN 2 ELSE 1]

AllBuckets ==
  ({"ingress-global", "security-audit", "lockout-audit"} \X {"global"} \X Keys) \cup
  ({"ingress-sender", "abuse-sender", "lockout-notify"} \X Senders \X Keys)
=============================================================================
