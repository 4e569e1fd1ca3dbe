--------------------------- MODULE MCBillingSession ---------------------------
(* Instances of BillingSession for TLC: the profiles each run asks for.     *)
EXTENDS BillingSession

Ask(kind, pref, est, free, playground) ==
    [kind |-> kind, pref |-> pref, est |-> est, free |-> free,
     playground |-> playground]

(* Every preference, with an estimate of nothing, of two and of six units.  *)
EveryAsk == {Ask("relay", p, e, FALSE, g) :
                p \in Preferences, e \in {0, 2, 6}, g \in BOOLEAN}
            \cup {Ask("task", p, e, FALSE, FALSE) : p \in Preferences, e \in {0, 2, 6}}
            \cup {Ask(k, "wallet_only", 0, TRUE, FALSE) : k \in {"relay", "task"}}

(* Requests that race for the wallet, which covers one and a half of them,  *)
(* or the subscription, from which even one estimated at nothing takes 1.   *)
RacingAsks == {Ask("relay", "wallet_first", 2, FALSE, FALSE),
               Ask("relay", "subscription_first", 2, FALSE, FALSE),
               Ask("relay", "subscription_first", 0, FALSE, FALSE),
               Ask("task", "wallet_only", 2, FALSE, FALSE)}

(* One plain request of the subscription.                                   *)
SubscriptionAsk == {Ask("relay", "subscription_only", 2, FALSE, FALSE)}
=============================================================================
