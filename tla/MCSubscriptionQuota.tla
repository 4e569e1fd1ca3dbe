-------------------------- MODULE MCSubscriptionQuota --------------------------
(* Instances of SubscriptionQuota for TLC.                                  *)
EXTENDS SubscriptionQuota, TLC

(* One subscription with a reset in every period and no end in sight; two,  *)
(* of which the first ends after the first period.                          *)
OneSub == {1}
OneTotal == [s \in Subs |-> 3]
NoEnd == [s \in Subs |-> MaxPeriod + 1]

TwoSubs == {1, 2}
TwoTotals == [s \in Subs |-> IF s = 1 THEN 2 ELSE 3]
FirstEnds == [s \in Subs |-> IF s = 1 THEN 1 ELSE 2]

Symmetric == Permutations(Requests)
=============================================================================
