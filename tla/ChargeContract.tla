---------------------------- MODULE ChargeContract ----------------------------
(***************************************************************************)
(* What billing promises the user of the gateway, with nothing of how it   *)
(* is done: a request is open, and costs nothing, until one step decides   *)
(* it.  It is served and costs the price of its response, or it is served  *)
(* short and costs the hold a subscription could not be pushed beyond, or  *)
(* it is void and costs nothing, but may be penalised once.                *)
(***************************************************************************)
EXTENDS Integers

CONSTANTS Requests, Costs, Holds, Fee

VARIABLES phase, paid

vars == <<phase, paid>>

TypeOK ==
    /\ phase \in [Requests -> {"open", "served", "short", "void", "penalised"}]
    /\ paid \in [Requests -> Costs \cup Holds \cup {0, Fee}]

Decide(r, from, to, amounts) ==
    /\ phase[r] \in from
    /\ phase' = [phase EXCEPT ![r] = to]
    /\ \E n \in amounts : paid' = [paid EXCEPT ![r] = n]

Serve(r) == Decide(r, {"open"}, "served", Costs)
ServeShort(r) == Decide(r, {"open"}, "short", Holds)
Void(r) == Decide(r, {"open"}, "void", {0})
Penalise(r) == Decide(r, {"void"}, "penalised", {Fee})

Init == /\ phase = [r \in Requests |-> "open"]
        /\ paid = [r \in Requests |-> 0]

Next == \E r \in Requests : Serve(r) \/ ServeShort(r) \/ Void(r) \/ Penalise(r)

Spec == Init /\ [][Next]_vars
=============================================================================
