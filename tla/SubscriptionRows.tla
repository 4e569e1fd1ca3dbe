--------------------------- MODULE SubscriptionRows ---------------------------
(***************************************************************************)
(* What the users of model/subscription.go may take for granted: the use   *)
(* of each subscription changes by whole amounts, one at a time, each on   *)
(* behalf of one request, never below zero nor above the total; a new      *)
(* period forgets what was used before.  Rows are not locked, so a change  *)
(* may be overwritten: from then on only the two limits are promised of    *)
(* that row.                                                               *)
(***************************************************************************)
EXTENDS Integers

CONSTANTS Requests, Subs, Total

VARIABLES used,         \* used[s]: amount_used of subscription s
          posted,       \* posted[r]: sum of the amounts posted for request r
          overwritten   \* subscriptions of which a change was overwritten

vars == <<used, posted, overwritten>>

Forget(R) == [s \in Subs |-> IF s \in R THEN 0 ELSE used[s]]

(* What is promised of every row, overwritten or not.                       *)
Limits == /\ overwritten \subseteq overwritten' /\ overwritten' \subseteq Subs
          /\ used' \in [Subs -> Nat]
          /\ \A s \in Subs : Total[s] > 0 => used'[s] <= Total[s]

Post(r, s, n, R) ==
    LET sum == Forget(R)[s] + n
    IN  /\ Limits
        /\ \A t \in Subs \ overwritten' :
              used'[t] = IF t # s THEN Forget(R)[t] ELSE IF sum < 0 THEN 0 ELSE sum
        /\ posted' = [posted EXCEPT ![r] = @ + n]

StartPeriod(s) == /\ Limits
                  /\ \A t \in Subs \ overwritten' : used'[t] = Forget({s})[t]
                  /\ UNCHANGED posted

Init == /\ used = [s \in Subs |-> 0]
        /\ posted = [r \in Requests |-> 0]
        /\ overwritten = {}

(* The change of posted tells the amount.                                   *)
Next == \/ \E r \in Requests :
              /\ posted'[r] # posted[r]
              /\ \E s \in Subs, R \in SUBSET Subs :
                    Post(r, s, posted'[r] - posted[r], R)
        \/ \E s \in Subs : StartPeriod(s)

Spec == Init /\ [][Next]_vars
=============================================================================
