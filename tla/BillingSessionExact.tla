-------------------------- MODULE BillingSessionExact --------------------------
(***************************************************************************)
(* What a request is charged, for every value of the constants.            *)
(*                                                                         *)
(* First ServedPaysExactly, FailedPaysNothing and HoldsAgree.  Their       *)
(* invariant says of every stage of a request that has met no database     *)
(* error and did not panic what each row has given it, to the last unit:   *)
(* nothing, what the session notes, what the response came to, or what the *)
(* refund goroutine has yet to return and the fee.  Other requests may     *)
(* take from the same rows in between, may be refused, fail, panic or be   *)
(* killed.                                                                 *)
(*                                                                         *)
(* Then NeverOvercharged, whatever fails; that BillingSession implements   *)
(* ChargeContract as long as no database call fails, no handler panics and *)
(* the process lives; and OverdraftBounded, which sums over all requests:  *)
(* what one may take from the wallet is bounded by an invariant of its     *)
(* own, and SumTheorems adds the bounds up.                                *)
(***************************************************************************)
EXTENDS BillingSessionProofs, SumTheorems

(* How the upstream exchange ended, by the stage of the handler; the token  *)
(* of a playground request is never debited.                                *)
OutcomeInv(r) ==
    /\ pc[r] = "tokenDebit" => ~Playground(r)
    /\ pc[r] \in Before \cup Asking \cup {"upstream", "reserveRollback"} =>
          outcome[r] = "open"
    /\ pc[r] \in {"settleFund", "settleToken", "log"} => outcome[r] = "served"
    /\ pc[r] \in {"refund", "fee", "feeToken"} \/ bg[r] # "idle" =>
          outcome[r] \in {"failed", "panicked"}

(* The sources have given r the amount n, all of it from its own source.    *)
Pays(r, n) ==
    /\ ledger[r]["wallet"] = IF funding[r] = "subscription" THEN 0 ELSE n
    /\ ledger[r]["subscription"] = IF funding[r] = "subscription" THEN n ELSE 0

PaysToken(r, n) ==
    ledger[r]["token"] = IF Playground(r) THEN 0 ELSE n

(* The amounts the session keeps agree with each other.                     *)
Agree(r) ==
    /\ held[r]["tokenConsumed"] = held[r]["preConsumed"]
    /\ funding[r] = "wallet" =>
          held[r]["fundConsumed"] = held[r]["preConsumed"] + reserving[r]
    /\ funding[r] = "subscription" =>
          held[r]["fundConsumed"] + held[r]["extraReserved"]
             = held[r]["preConsumed"]

(* While the session asks, the token is all that can have been charged.     *)
AskedInv(r) ==
    pc[r] \in Before \cup Asking /\ reserving[r] = 0 =>
        /\ Pays(r, 0)
        /\ PaysToken(r, IF pc[r] \in {"fund", "rollback"}
                        THEN held[r]["tokenConsumed"] ELSE 0)

(* Then both have given what is noted; a Reserve starts at the source.      *)
HeldInv(r) ==
    pc[r] \in Unsettled \/ (reserving[r] > 0 /\ pc[r] # "crashed") =>
        /\ Agree(r)
        /\ Pays(r, held[r]["preConsumed"] + reserving[r])
        /\ PaysToken(r, held[r]["preConsumed"])

(* Settlement starts at the source as well.                                 *)
HalfInv(r) ==
    pc[r] = "settleToken" =>
        Pays(r, due[r]) /\ PaysToken(r, held[r]["preConsumed"])

(* What a served request pays: a subscription that cannot take the surplus  *)
(* leaves the session unsettled.                                            *)
Price(r) ==
    IF funding[r] = "none" \/ Settled(r) THEN due[r] ELSE held[r]["preConsumed"]

ServedInv(r) ==
    pc[r] \in {"log", "done"} /\ outcome[r] = "served" =>
        /\ Pays(r, Price(r))
        /\ PaysToken(r, Price(r))
        /\ funding[r] = "wallet" => Settled(r)

(* What the refund goroutine has yet to return to the source and the token. *)
Left(r) == IF bg[r] \in {"idle"} \cup Attempts THEN held[r]["preConsumed"]
           ELSE IF bg[r] = "extra" THEN Extra(r)
           ELSE 0
LeftToken(r) == IF bg[r] = "finished" THEN 0 ELSE held[r]["preConsumed"]

FeeToken(r) == IF pc[r] = "feeToken" THEN 0 ELSE fee[r]

FailedInv(r) ==
    outcome[r] = "failed" /\ pc[r] # "crashed" /\ bg[r] # "crashed" =>
        /\ Agree(r) /\ reserving[r] = 0
        /\ Pays(r, Left(r) + fee[r])
        /\ PaysToken(r, LeftToken(r) + FeeToken(r))
        /\ bg[r] = "idle" /\ pc[r] # "refund" => held[r]["preConsumed"] = 0
        /\ ~Settled(r) /\ ~FundingSettled(r)

RejectedInv(r) ==
    outcome[r] = "rejected" =>
        /\ pc[r] = "done" /\ funding[r] = "none"
        /\ Pays(r, 0) /\ PaysToken(r, 0)

FeeInv(r) ==
    /\ outcome[r] # "failed" \/ pc[r] \in {"refund", "fee"} => fee[r] = 0
    /\ pc[r] = "feeToken" => fee[r] = Fee

AmountsInv(r) ==
    /\ AskedInv(r) /\ HeldInv(r) /\ HalfInv(r) /\ ServedInv(r)
    /\ FailedInv(r) /\ RejectedInv(r) /\ FeeInv(r)

ExactInv(r) ==
    /\ OutcomeInv(r)
    /\ faults[r] = 0 /\ outcome[r] # "panicked" => AmountsInv(r)
Exact == \A r \in Requests : ExactInv(r)

Alone(r) == \A q \in Requests \ {r} : State(q)' = State(q) /\ Tally(q)' = Tally(q)

USE DEF Before, Asking, Unsettled, Reserving, Over, Settled, FundingSettled,
        Playground, Promised, Extra, Attempts

LEMMA ExactLocality ==
    ASSUME Exact, NEW r \in Requests, ExactInv(r)', Alone(r)
    PROVE  Exact'
<1> SUFFICES ASSUME NEW q \in Requests, q # r
             PROVE  ExactInv(q)'
  BY DEF Exact
<1>1. /\ ExactInv(q)
      /\ UNCHANGED <<req[q], pc[q], bg[q], funding[q], flags[q], held[q],
                     reserving[q], ledger[q]>>
      /\ UNCHANGED <<outcome[q], due[q], fee[q], faults[q]>>
  BY DEF Exact, Alone, State, Tally
<1> QED
  BY <1>1 DEF ExactInv, OutcomeInv, AmountsInv, AskedInv, HeldInv, HalfInv,
     ServedInv, FailedInv, RejectedInv, FeeInv, Pays, PaysToken, Agree, Price,
     Left, LeftToken, FeeToken

-----------------------------------------------------------------------------
(* A step of one request is no step of another.                             *)

LEMMA FaultEffect ==
    ASSUME TypeOK, NEW r \in Requests, Fault(r)
    PROVE  /\ faults'[r] > 0
           /\ \A q \in Requests \ {r} : faults'[q] = faults[q]
           /\ UNCHANGED ledger
BY BoundsAssumption DEF TypeOK, RowType, Fault

LEMMA FeeType ==
    ASSUME TypeOK, NEW r \in Requests
    PROVE  fee[r] \in Nat /\ Fee \in Nat
BY AmountsAssumption DEF TypeOK, RowType

-----------------------------------------------------------------------------
(* One lemma per operation: the step keeps the invariant of its request.    *)

(* The request moves on, nothing is taken and no session is touched.        *)
LEMMA MoveExact ==
    ASSUME TypeOK, SafeInv, Exact, NEW r \in Requests,
           UNCHANGED <<req, bg, funding, flags, held, reserving, ledger>>,
           UNCHANGED <<due, outcome, fee>>, faults[r] = 0 \/ faults'[r] > 0,
           \/ pc[r] \in Before /\ pc'[r] \in Before \cup {"upstream"}
           \/ pc[r] = "tokenRead" /\ pc'[r] = "tokenDebit" /\ ~Playground(r)
           \/ pc[r] = "fund" /\ pc'[r] = "rollback"
           \/ pc[r] = "log" /\ pc'[r] = "done"
           \/ pc'[r] = pc[r]
    PROVE  ExactInv(r)'
<1>1. RequestInv(r) /\ ExactInv(r)
  BY DEF SafeInv, Exact
<1>2. OutcomeInv(r)'
  BY <1>1 DEF ExactInv, OutcomeInv
<1>3. ASSUME faults'[r] = 0, outcome'[r] # "panicked"
      PROVE  AmountsInv(r)'
  <2>1. AmountsInv(r)
    BY <1>1, <1>3 DEF ExactInv
  <2> QED
    BY <1>1, <2>1, EntryTypes
    DEF RequestInv, StageInv, NoteInv, AmountsInv, AskedInv, HeldInv, HalfInv,
        ServedInv, FailedInv, RejectedInv, FeeInv, Pays, PaysToken, Agree,
        Price, Left, LeftToken, FeeToken
<1> QED
  BY <1>2, <1>3 DEF ExactInv

LEMMA ArriveExact ==
    ASSUME TypeOK, SafeInv, Exact, NEW r \in Requests, Arrive(r)
    PROVE  ExactInv(r)'
<1>1. pc'[r] = "arrived"
  BY GotoEffect DEF TypeOK, Arrive
<1>2. /\ pc[r] = "waiting"
      /\ UNCHANGED <<req, bg, funding, flags, held, reserving, ledger>>
      /\ UNCHANGED <<due, outcome, fee, faults>>
  BY DEF Arrive, sessionVars, rowVars
<1> QED
  BY <1>1, <1>2, MoveExact DEF TypeOK, RowType

LEMMA ChooseFundingExact ==
    ASSUME TypeOK, SafeInv, Exact, NEW r \in Requests, ChooseFunding(r)
    PROVE  ExactInv(r)'
<1>1. pc'[r] \in {"upstream", "wallet", "subscription", "rejected"}
  BY GotoEffect DEF TypeOK, ChooseFunding, FirstSource
<1>2. /\ pc[r] = "arrived"
      /\ UNCHANGED <<req, bg, funding, flags, held, reserving, ledger>>
      /\ UNCHANGED <<due, outcome, fee>>
      /\ faults[r] = 0 \/ faults'[r] > 0
  BY FaultEffect DEF ChooseFunding, requestVars, sessionVars, TypeOK, RowType
<1> QED
  BY <1>1, <1>2, MoveExact

LEMMA RejectedExact ==
    ASSUME TypeOK, SafeInv, Exact, NEW r \in Requests, Rejected(r)
    PROVE  ExactInv(r)'
<1>1. /\ pc[r] = "rejected"
      /\ UNCHANGED <<req, bg, funding, flags, held, reserving, ledger>>
      /\ UNCHANGED <<due, fee, faults>>
  BY DEF Rejected, sessionVars, rowVars
<1>2. CASE Goto(r, "arrived") /\ UNCHANGED outcome
  <2>1. pc'[r] = "arrived"
    BY <1>2, GotoEffect DEF TypeOK
  <2> QED
    BY <1>1, <1>2, <2>1, MoveExact DEF TypeOK, RowType
<1>3. CASE /\ Goto(r, "done")
           /\ outcome' = [outcome EXCEPT ![r] = "rejected"]
  <2>1. pc'[r] = "done" /\ outcome'[r] = "rejected"
    BY <1>3, GotoEffect DEF TypeOK, RequestType
  <2>2. RequestInv(r) /\ ExactInv(r)
    BY DEF SafeInv, Exact
  <2>3. OutcomeInv(r)'
    BY <1>1, <2>1, <2>2 DEF OutcomeInv, RequestInv, StageInv
  <2>4. ASSUME faults'[r] = 0
        PROVE  AmountsInv(r)'
    <3>1. AmountsInv(r) /\ reserving[r] = 0 /\ funding[r] = "none"
      BY <1>1, <2>2, <2>4, EntryTypes
      DEF ExactInv, OutcomeInv, RequestInv, StageInv
    <3> QED
      BY <1>1, <2>1, <2>2, <3>1
      DEF OutcomeInv, ExactInv, AmountsInv, AskedInv, HeldInv, HalfInv,
          ServedInv, FailedInv, RejectedInv, FeeInv, Pays, PaysToken
  <2> QED
    BY <2>3, <2>4 DEF ExactInv
<1> QED
  BY <1>2, <1>3 DEF Rejected

LEMMA TryWalletExact ==
    ASSUME TypeOK, SafeInv, Exact, NEW r \in Requests, TryWallet(r)
    PROVE  ExactInv(r)'
<1>1. /\ pc[r] = "wallet"
      /\ UNCHANGED <<req, bg, reserving, ledger, due, outcome, fee>>
      /\ faults[r] = 0 \/ faults'[r] > 0
  BY FaultEffect DEF TryWallet, requestVars, TypeOK, RowType
<1>2. CASE Start(r, "wallet", IF Trusts(r) THEN {"trusted"} ELSE {})
           /\ Goto(r, IF Trusts(r) \/ Estimate(r) = 0 THEN "fund" ELSE "tokenRead")
  <2>1. pc'[r] \in {"fund", "tokenRead"}
    BY <1>2, GotoEffect DEF TypeOK
  <2>2. funding'[r] = "wallet" /\ held'[r]["tokenConsumed"] = 0
    BY <1>2, StartEffect DEF TypeOK
  <2>3. RequestInv(r) /\ ExactInv(r)
    BY DEF SafeInv, Exact
  <2>4. OutcomeInv(r)'
    BY <1>1, <2>1, <2>3 DEF OutcomeInv, ExactInv
  <2>5. ASSUME faults'[r] = 0, outcome'[r] # "panicked"
        PROVE  AmountsInv(r)'
    <3>1. AmountsInv(r) /\ reserving[r] = 0 /\ outcome[r] = "open"
      BY <1>1, <2>3, <2>5, EntryTypes
      DEF ExactInv, OutcomeInv, RequestInv, StageInv
    <3> QED
      BY <1>1, <2>1, <2>2, <3>1
      DEF AmountsInv, AskedInv, HeldInv, HalfInv, ServedInv, FailedInv,
          RejectedInv, FeeInv, Pays, PaysToken
  <2> QED
    BY <2>4, <2>5 DEF ExactInv
<1>3. CASE /\ Goto(r, FallsBackTo(r, "wallet")) \/ Goto(r, "rejected")
           /\ UNCHANGED <<funding, flags, held>>
  <2>1. pc'[r] \in {"subscription", "wallet", "rejected"}
    BY <1>3, GotoEffect DEF TypeOK, FallsBackTo
  <2> QED
    BY <1>1, <1>3, <2>1, MoveExact
<1> QED
  BY <1>2, <1>3 DEF TryWallet

LEMMA TrySubscriptionExact ==
    ASSUME TypeOK, SafeInv, Exact, NEW r \in Requests, TrySubscription(r)
    PROVE  ExactInv(r)'
<1>1. /\ pc[r] = "subscription"
      /\ UNCHANGED <<req, bg, reserving, ledger, due, outcome, fee, faults>>
  BY DEF TrySubscription, requestVars, rowVars
<1>2. pc'[r] = "tokenRead"
  BY GotoEffect DEF TypeOK, TrySubscription
<1>3. funding'[r] = "subscription"
  BY StartEffect DEF TypeOK, TrySubscription
<1>4. RequestInv(r) /\ ExactInv(r)
  BY DEF SafeInv, Exact
<1>5. OutcomeInv(r)'
  BY <1>1, <1>2, <1>4 DEF OutcomeInv, ExactInv
<1>6. ASSUME faults'[r] = 0, outcome'[r] # "panicked"
      PROVE  AmountsInv(r)'
  <2>1. AmountsInv(r) /\ reserving[r] = 0 /\ outcome[r] = "open"
    BY <1>1, <1>4, <1>6, EntryTypes
    DEF ExactInv, OutcomeInv, RequestInv, StageInv
  <2> QED
    BY <1>1, <1>2, <1>3, <2>1
    DEF AmountsInv, AskedInv, HeldInv, HalfInv, ServedInv, FailedInv,
        RejectedInv, FeeInv, Pays, PaysToken
<1> QED
  BY <1>5, <1>6 DEF ExactInv

(* The token covers the call: what it has given is noted.                   *)
LEMMA TokenCoveredExact ==
    ASSUME TypeOK, SafeInv, Exact, NEW r \in Requests, TokenCovered(r),
           pc[r] \in {"tokenRead", "tokenDebit"},
           UNCHANGED <<req, bg, due, outcome, fee, faults>>,
           \/ Playground(r) /\ UNCHANGED ledger
           \/ Take(r, "token", TokenAsk(r)) /\ ~Playground(r)
    PROVE  ExactInv(r)'
<1>1. RequestInv(r) /\ ExactInv(r)
  BY DEF SafeInv, Exact
<1>2. /\ TokenAsk(r) = IF reserving[r] > 0 THEN reserving[r] ELSE Effective(r)
      /\ TokenAsk(r) \in Int /\ "token" \in Account
  BY AmountTypes DEF TokenAsk, Account
<1>3. /\ ledger'[r]["wallet"] = ledger[r]["wallet"]
      /\ ledger'[r]["subscription"] = ledger[r]["subscription"]
      /\ ledger'[r]["token"] = ledger[r]["token"]
         + IF Playground(r) THEN 0 ELSE TokenAsk(r)
  BY <1>2, TakeEffect, EntryTypes
<1>4. pc'[r] = IF reserving[r] > 0 THEN "upstream" ELSE "fund"
  BY GotoEffect DEF TypeOK, TokenCovered
<1>5. UNCHANGED funding /\ UNCHANGED flags /\ reserving'[r] = 0
  BY DEF TokenCovered, TypeOK, SessionType
<1>6. OutcomeInv(r)'
  BY <1>1, <1>4 DEF OutcomeInv, ExactInv
<1>7. ASSUME faults'[r] = 0, outcome'[r] # "panicked"
      PROVE  AmountsInv(r)'
  <2>1. AmountsInv(r) /\ outcome[r] = "open"
    BY <1>1, <1>7 DEF ExactInv, OutcomeInv
  <2>2. CASE reserving[r] > 0
    <3>1. /\ held'[r]["preConsumed"] = held[r]["preConsumed"] + reserving[r]
          /\ held'[r]["tokenConsumed"] = held[r]["tokenConsumed"] + reserving[r]
          /\ held'[r]["extraReserved"] = held[r]["extraReserved"] + reserving[r]
          /\ held'[r]["fundConsumed"] = held[r]["fundConsumed"]
      BY <2>2 DEF TokenCovered, TypeOK, SessionType, Amount
    <3> QED
      BY <1>2, <1>3, <1>4, <1>5, <2>1, <2>2, <3>1, EntryTypes
      DEF AmountsInv, AskedInv, HeldInv, HalfInv, ServedInv, FailedInv,
          RejectedInv, FeeInv, Pays, PaysToken, Agree
  <2>3. CASE ~(reserving[r] > 0)
    <3>1. held'[r]["tokenConsumed"] = Effective(r) /\ reserving[r] = 0
      BY <2>3, EntryTypes DEF TokenCovered, TypeOK, SessionType, Amount
    <3> QED
      BY <1>2, <1>3, <1>4, <1>5, <2>1, <2>3, <3>1, EntryTypes
      DEF AmountsInv, AskedInv, HeldInv, HalfInv, ServedInv, FailedInv,
          RejectedInv, FeeInv, Pays, PaysToken
  <2> QED
    BY <2>2, <2>3
<1> QED
  BY <1>6, <1>7 DEF ExactInv

(* The token refuses: the session goes, or its Reserve is rolled back.      *)
LEMMA TokenRefusedExact ==
    ASSUME TypeOK, SafeInv, Exact, NEW r \in Requests, TokenRefused(r),
           pc[r] \in {"tokenRead", "tokenDebit"},
           UNCHANGED <<req, bg, ledger, due, outcome, fee>>,
           faults[r] = 0 \/ faults'[r] > 0
    PROVE  ExactInv(r)'
<1>1. RequestInv(r) /\ ExactInv(r)
  BY DEF SafeInv, Exact
<1>2. CASE reserving[r] > 0 /\ Goto(r, "reserveRollback")
           /\ UNCHANGED <<funding, flags, held>>
  <2>1. UNCHANGED reserving /\ pc'[r] = "reserveRollback"
    BY <1>2, GotoEffect DEF TokenRefused, TypeOK
  <2>2. OutcomeInv(r)'
    BY <1>1, <2>1 DEF OutcomeInv, ExactInv
  <2>3. ASSUME faults'[r] = 0, outcome'[r] # "panicked"
        PROVE  AmountsInv(r)'
    <3>1. AmountsInv(r) /\ outcome[r] = "open"
      BY <1>1, <2>3 DEF ExactInv, OutcomeInv
    <3> QED
      BY <1>2, <2>1, <3>1
      DEF AmountsInv, AskedInv, HeldInv, HalfInv, ServedInv, FailedInv,
          RejectedInv, FeeInv, Pays, PaysToken, Agree
  <2> QED
    BY <2>2, <2>3 DEF ExactInv
<1>3. CASE reserving[r] = 0 /\ Goto(r, "rejected") /\ Drop(r)
  <2>1. UNCHANGED reserving /\ pc'[r] = "rejected"
    BY <1>3, GotoEffect DEF TokenRefused, TypeOK
  <2>2. funding'[r] = "none"
    BY <1>3, StartEffect DEF TypeOK, Drop
  <2>3. OutcomeInv(r)'
    BY <1>1, <2>1 DEF OutcomeInv, ExactInv
  <2>4. ASSUME faults'[r] = 0, outcome'[r] # "panicked"
        PROVE  AmountsInv(r)'
    <3>1. AmountsInv(r) /\ outcome[r] = "open"
      BY <1>1, <2>4 DEF ExactInv, OutcomeInv
    <3> QED
      BY <1>3, <2>1, <2>2, <3>1
      DEF AmountsInv, AskedInv, HeldInv, HalfInv, ServedInv, FailedInv,
          RejectedInv, FeeInv, Pays, PaysToken
  <2> QED
    BY <2>3, <2>4 DEF ExactInv
<1> QED
  BY <1>2, <1>3 DEF TokenRefused

LEMMA ReadTokenExact ==
    ASSUME TypeOK, SafeInv, Exact, NEW r \in Requests, ReadToken(r)
    PROVE  ExactInv(r)'
<1>1. pc[r] = "tokenRead" /\ UNCHANGED <<req, bg, due, outcome, fee>>
  BY DEF ReadToken, requestVars
<1>2. CASE Playground(r) /\ TokenCovered(r) /\ UNCHANGED <<faults, ledger>>
  BY <1>1, <1>2, TokenCoveredExact
<1>3. CASE TokenRefused(r) /\ (UNCHANGED <<faults, ledger>> \/ Fault(r))
  BY <1>1, <1>3, TokenRefusedExact, FaultEffect DEF TypeOK, RowType
<1>4. CASE /\ Goto(r, "tokenDebit") /\ ~Playground(r)
           /\ UNCHANGED <<funding, flags, held, reserving, faults, ledger>>
  <2>1. pc'[r] = "tokenDebit"
    BY <1>4, GotoEffect DEF TypeOK
  <2> QED
    BY <1>1, <1>4, <2>1, MoveExact DEF TypeOK, RowType
<1> QED
  BY <1>2, <1>3, <1>4 DEF ReadToken

(* A session that debits the token has one: it is no playground's.          *)
LEMMA DebitTokenExact ==
    ASSUME TypeOK, SafeInv, Exact, NEW r \in Requests, DebitToken(r)
    PROVE  ExactInv(r)'
<1>1. pc[r] = "tokenDebit" /\ UNCHANGED <<req, bg, due, outcome, fee>>
  BY DEF DebitToken, requestVars
<1>2. ~Playground(r)
  BY <1>1 DEF Exact, ExactInv, OutcomeInv
<1> QED
  BY <1>1, <1>2, TokenCoveredExact, TokenRefusedExact, FaultEffect
  DEF DebitToken, TypeOK, RowType

LEMMA PreConsumeFundingExact ==
    ASSUME TypeOK, SafeInv, Exact, NEW r \in Requests, PreConsumeFunding(r)
    PROVE  ExactInv(r)'
<1>1. /\ pc[r] = "fund"
      /\ UNCHANGED <<req, bg, funding, flags, reserving, due, outcome, fee>>
  BY DEF PreConsumeFunding, requestVars
<1>2. RequestInv(r) /\ ExactInv(r)
  BY DEF SafeInv, Exact
<1>3. funding[r] \in Source /\ reserving[r] = 0
  BY <1>1, <1>2, EntryTypes DEF RequestInv, StageInv, Source
<1>4. CASE /\ Take(r, funding[r], Effective(r)) /\ Goto(r, "upstream")
           /\ held' = [held EXCEPT ![r]["fundConsumed"] = Effective(r),
                                   ![r]["preConsumed"]  = Effective(r)]
           /\ UNCHANGED faults
  <2>1. pc'[r] = "upstream"
    BY <1>4, GotoEffect DEF TypeOK
  <2>2. /\ ledger'[r]["wallet"] = ledger[r]["wallet"]
           + IF funding[r] = "wallet" THEN Effective(r) ELSE 0
        /\ ledger'[r]["subscription"] = ledger[r]["subscription"]
           + IF funding[r] = "subscription" THEN Effective(r) ELSE 0
        /\ ledger'[r]["token"] = ledger[r]["token"]
    BY <1>3, <1>4, TakeEffect, EntryTypes DEF Account, Source
  <2>3. /\ held'[r]["fundConsumed"] = Effective(r)
        /\ held'[r]["preConsumed"] = Effective(r)
        /\ held'[r]["tokenConsumed"] = held[r]["tokenConsumed"]
        /\ held'[r]["extraReserved"] = held[r]["extraReserved"]
    BY <1>4 DEF TypeOK, SessionType, Amount
  <2>4. OutcomeInv(r)'
    BY <1>1, <1>2, <2>1 DEF OutcomeInv, ExactInv
  <2>5. ASSUME faults'[r] = 0, outcome'[r] # "panicked"
        PROVE  AmountsInv(r)'
    <3>1. AmountsInv(r) /\ outcome[r] = "open"
      BY <1>1, <1>2, <1>4, <2>5 DEF ExactInv, OutcomeInv
    <3>2. /\ held[r]["tokenConsumed"] = Effective(r)
          /\ held[r]["extraReserved"] = 0
      BY <1>1, <1>2, <1>3 DEF RequestInv, NoteInv
    <3> QED
      BY <1>1, <1>3, <2>1, <2>2, <2>3, <3>1, <3>2, EntryTypes
      DEF AmountsInv, AskedInv, HeldInv, HalfInv, ServedInv, FailedInv,
      RejectedInv, FeeInv, Pays, PaysToken, Agree, Source
  <2> QED
    BY <2>4, <2>5 DEF ExactInv
<1>5. CASE Goto(r, "rollback") /\ UNCHANGED <<held, ledger>>
           /\ (UNCHANGED faults \/ Fault(r))
  <2>1. pc'[r] = "rollback" /\ (faults[r] = 0 \/ faults'[r] > 0)
    BY <1>5, GotoEffect, FaultEffect DEF TypeOK, RowType
  <2> QED
    BY <1>1, <1>5, <2>1, MoveExact
<1> QED
  BY <1>4, <1>5 DEF PreConsumeFunding, Fault

LEMMA RollbackTokenExact ==
    ASSUME TypeOK, SafeInv, Exact, NEW r \in Requests, RollbackToken(r)
    PROVE  ExactInv(r)'
<1> DEFINE n == TokenPart(r, held[r]["tokenConsumed"])
<1>1. pc[r] = "rollback" /\ UNCHANGED <<req, bg, reserving, due, outcome, fee>>
  BY DEF RollbackToken, requestVars
<1>2. RequestInv(r) /\ ExactInv(r)
  BY DEF SafeInv, Exact
<1>3. pc'[r] \in {"subscription", "wallet", "rejected"}
  BY GotoEffect DEF TypeOK, RollbackToken, FallsBackTo
<1>4. funding'[r] = "none"
  BY StartEffect DEF TypeOK, RollbackToken, Drop
<1>5. OutcomeInv(r)'
  BY <1>1, <1>2, <1>3 DEF OutcomeInv, ExactInv
<1>6. ASSUME faults'[r] = 0, outcome'[r] # "panicked"
      PROVE  AmountsInv(r)'
  <2>1. Take(r, "token", -n) /\ UNCHANGED faults
    BY <1>6, FaultEffect DEF RollbackToken
  <2>2. /\ n = (IF Playground(r) THEN 0 ELSE held[r]["tokenConsumed"])
        /\ -n \in Int /\ n \in Int /\ "token" \in Account
    BY EntryTypes DEF TokenPart, Account
  <2> HIDE DEF n
  <2>3. /\ ledger'[r]["wallet"] = ledger[r]["wallet"]
        /\ ledger'[r]["subscription"] = ledger[r]["subscription"]
        /\ ledger'[r]["token"] = ledger[r]["token"] - n
    BY <2>1, <2>2, TakeEffect, EntryTypes
  <2>4. AmountsInv(r) /\ outcome[r] = "open" /\ reserving[r] = 0
    BY <1>1, <1>2, <1>6, <2>1, EntryTypes
    DEF ExactInv, OutcomeInv, RequestInv, StageInv
  <2> QED
    BY <1>1, <1>3, <1>4, <2>2, <2>3, <2>4, EntryTypes
    DEF AmountsInv, AskedInv, HeldInv, HalfInv, ServedInv, FailedInv,
        RejectedInv, FeeInv, Pays, PaysToken
<1> QED
  BY <1>5, <1>6 DEF ExactInv

(* An attempt ends, the exchange ends, or the handler panics.               *)
LEMMA AttemptExact ==
    ASSUME TypeOK, SafeInv, Exact, NEW r \in Requests,
           AttemptFails(r) \/ AttemptSucceeds(r) \/ Log(r) \/ Panic(r)
    PROVE  ExactInv(r)'
<1>1. UNCHANGED <<req, bg, funding, flags, held, reserving, ledger, fee, faults>>
  BY DEF AttemptFails, AttemptSucceeds, Log, Panic, requestVars, sessionVars,
         rowVars
<1>2. RequestInv(r) /\ ExactInv(r)
  BY DEF SafeInv, Exact
<1>3. CASE AttemptFails(r) /\ UNCHANGED <<pc, outcome>>
  <2>1. UNCHANGED <<due, outcome>> /\ pc'[r] = pc[r]
    BY <1>3 DEF AttemptFails
  <2>2. faults[r] = 0 \/ faults'[r] > 0
    BY <1>1 DEF TypeOK, RowType
  <2> QED
    BY <1>1, <2>1, <2>2, MoveExact
<1>4. CASE Log(r)
  <2>1. pc[r] = "log" /\ pc'[r] = "done" /\ UNCHANGED <<due, outcome>>
    BY <1>4, GotoEffect DEF Log, TypeOK, requestVars
  <2> QED
    BY <1>1, <2>1, MoveExact DEF TypeOK, RowType
<1>5. CASE Panic(r)
  <2>1. /\ pc[r] \in {"upstream", "settleFund", "settleToken", "log"}
        /\ pc'[r] \in {"refund", "done"} /\ outcome'[r] = "panicked"
    BY <1>5, GotoEffect DEF Panic, TypeOK, RequestType
  <2> QED
    BY <1>1, <1>2, <2>1 DEF ExactInv, OutcomeInv
<1>6. CASE AttemptFails(r) /\ outcome' = [outcome EXCEPT ![r] = "failed"]
           /\ Goto(r, "refund")
  <2>1. /\ pc[r] = "upstream" /\ pc'[r] = "refund" /\ outcome'[r] = "failed"
        /\ UNCHANGED due
    BY <1>6, GotoEffect DEF AttemptFails, TypeOK, RequestType
  <2>2. bg[r] = "idle" /\ reserving[r] = 0 /\ ~Settled(r) /\ ~FundingSettled(r)
    BY <1>2, <2>1, EntryTypes DEF RequestInv, StageInv
  <2>3. OutcomeInv(r)'
    BY <1>1, <1>2, <2>1 DEF OutcomeInv, ExactInv
  <2>4. ASSUME faults'[r] = 0
        PROVE  AmountsInv(r)'
    <3>1. AmountsInv(r) /\ outcome[r] = "open"
      BY <1>1, <1>2, <2>1, <2>4 DEF ExactInv, OutcomeInv
    <3> QED
      BY <1>1, <2>1, <2>2, <3>1, EntryTypes
      DEF AmountsInv, AskedInv, HeldInv, HalfInv, ServedInv, FailedInv,
          RejectedInv, FeeInv, Pays, PaysToken, Agree, Left, LeftToken, FeeToken
  <2> QED
    BY <2>3, <2>4 DEF ExactInv
<1>7. CASE AttemptSucceeds(r)
  <2>1. /\ pc[r] = "upstream" /\ pc'[r] = "settleFund" /\ outcome'[r] = "served"
    BY <1>7, GotoEffect DEF AttemptSucceeds, TypeOK, RequestType
  <2>2. bg[r] = "idle" /\ reserving[r] = 0
    BY <1>2, <2>1, EntryTypes DEF RequestInv, StageInv
  <2>3. OutcomeInv(r)'
    BY <1>1, <1>2, <2>1, <2>2 DEF OutcomeInv, ExactInv
  <2>4. ASSUME faults'[r] = 0
        PROVE  AmountsInv(r)'
    <3>1. AmountsInv(r) /\ outcome[r] = "open"
      BY <1>1, <1>2, <2>1, <2>4 DEF ExactInv, OutcomeInv
    <3> QED
      BY <1>1, <2>1, <2>2, <3>1, EntryTypes
      DEF AmountsInv, AskedInv, HeldInv, HalfInv, ServedInv, FailedInv,
          RejectedInv, FeeInv, Pays, PaysToken, Agree
  <2> QED
    BY <2>3, <2>4 DEF ExactInv
<1> QED
  BY <1>3, <1>4, <1>5, <1>6, <1>7 DEF AttemptFails

LEMMA ReserveExact ==
    ASSUME TypeOK, SafeInv, Exact, NEW r \in Requests,
           NEW t \in ReserveTargets, Reserve(r, t)
    PROVE  ExactInv(r)'
<1> DEFINE delta == t - held[r]["preConsumed"]
<1>1. /\ pc[r] = "upstream" /\ funding[r] \in Source
      /\ delta \in Int /\ delta > 0
      /\ UNCHANGED <<req, bg, funding, flags, due, outcome, fee, faults>>
  BY EntryTypes, AmountsAssumption DEF Reserve, requestVars, Source
<1>2. RequestInv(r) /\ ExactInv(r)
  BY DEF SafeInv, Exact
<1>3. pc'[r] = "tokenRead"
  BY GotoEffect DEF TypeOK, Reserve
<1>4. /\ ledger'[r]["wallet"] = ledger[r]["wallet"]
         + IF funding[r] = "wallet" THEN delta ELSE 0
      /\ ledger'[r]["subscription"] = ledger[r]["subscription"]
         + IF funding[r] = "subscription" THEN delta ELSE 0
      /\ ledger'[r]["token"] = ledger[r]["token"]
  <2>1. Take(r, funding[r], delta) /\ funding[r] \in Account
    BY <1>1 DEF Reserve, Account
  <2> HIDE DEF delta
  <2> QED
    BY <1>1, <2>1, TakeEffect, EntryTypes DEF Source
<1>5. reserving'[r] = delta
  BY DEF Reserve, TypeOK, SessionType
<1>6. /\ held'[r]["fundConsumed"] = held[r]["fundConsumed"]
         + IF funding[r] = "wallet" THEN delta ELSE 0
      /\ held'[r]["preConsumed"] = held[r]["preConsumed"]
      /\ held'[r]["tokenConsumed"] = held[r]["tokenConsumed"]
      /\ held'[r]["extraReserved"] = held[r]["extraReserved"]
  BY <1>1, EntryTypes DEF Reserve, NoteReserve, TypeOK, SessionType, Amount
<1>7. reserving[r] = 0 /\ bg[r] = "idle"
  BY <1>1, <1>2, EntryTypes DEF RequestInv, StageInv
<1> HIDE DEF delta
<1>8. OutcomeInv(r)'
  BY <1>1, <1>2, <1>3 DEF OutcomeInv, ExactInv
<1>9. ASSUME faults'[r] = 0, outcome'[r] # "panicked"
      PROVE  AmountsInv(r)'
  <2>1. AmountsInv(r) /\ outcome[r] = "open"
    BY <1>1, <1>2, <1>9 DEF ExactInv, OutcomeInv
  <2> QED
    BY <1>1, <1>3, <1>4, <1>5, <1>6, <1>7, <2>1, EntryTypes
    DEF AmountsInv, AskedInv, HeldInv, HalfInv, ServedInv, FailedInv,
        RejectedInv, FeeInv, Pays, PaysToken, Agree, Source
<1> QED
  BY <1>8, <1>9 DEF ExactInv

LEMMA RollbackReserveExact ==
    ASSUME TypeOK, SafeInv, Exact, NEW r \in Requests, RollbackReserve(r)
    PROVE  ExactInv(r)'
<1>1. /\ pc[r] = "reserveRollback"
      /\ UNCHANGED <<req, bg, funding, flags, due, outcome, fee>>
  BY DEF RollbackReserve, requestVars
<1>2. RequestInv(r) /\ ExactInv(r)
  BY DEF SafeInv, Exact
<1>3. pc'[r] = "upstream" /\ reserving'[r] = 0
  BY GotoEffect DEF RollbackReserve, TypeOK, SessionType
<1>4. funding[r] \in Source /\ bg[r] = "idle"
  BY <1>1, <1>2, EntryTypes DEF RequestInv, StageInv, Source
<1>5. OutcomeInv(r)'
  BY <1>1, <1>2, <1>3 DEF OutcomeInv, ExactInv
<1>6. ASSUME faults'[r] = 0, outcome'[r] # "panicked"
      PROVE  AmountsInv(r)'
  <2>1. /\ Take(r, funding[r], -reserving[r])
        /\ NoteReserve(r, -reserving[r])
        /\ UNCHANGED faults
    BY <1>6, FaultEffect DEF RollbackReserve
  <2>2. -reserving[r] \in Int /\ funding[r] \in Account
    BY <1>4, EntryTypes DEF Account
  <2>3. /\ ledger'[r]["wallet"] = ledger[r]["wallet"]
           - IF funding[r] = "wallet" THEN reserving[r] ELSE 0
        /\ ledger'[r]["subscription"] = ledger[r]["subscription"]
           - IF funding[r] = "subscription" THEN reserving[r] ELSE 0
        /\ ledger'[r]["token"] = ledger[r]["token"]
    BY <1>4, <2>1, <2>2, TakeEffect, EntryTypes DEF Source
  <2>4. /\ held'[r]["fundConsumed"] = held[r]["fundConsumed"]
           - IF funding[r] = "wallet" THEN reserving[r] ELSE 0
        /\ held'[r]["preConsumed"] = held[r]["preConsumed"]
        /\ held'[r]["tokenConsumed"] = held[r]["tokenConsumed"]
        /\ held'[r]["extraReserved"] = held[r]["extraReserved"]
    BY <2>1, EntryTypes DEF NoteReserve, TypeOK, SessionType, Amount
  <2>5. AmountsInv(r) /\ outcome[r] = "open"
    BY <1>1, <1>2, <1>6, <2>1 DEF ExactInv, OutcomeInv
  <2> QED
    BY <1>1, <1>3, <1>4, <2>3, <2>4, <2>5, EntryTypes
    DEF AmountsInv, AskedInv, HeldInv, HalfInv, ServedInv, FailedInv,
        RejectedInv, FeeInv, Pays, PaysToken, Agree, Source
<1> QED
  BY <1>5, <1>6 DEF ExactInv

(* Only a subscription can be refused the surplus.                          *)
LEMMA SettleFundingExact ==
    ASSUME TypeOK, SafeInv, Exact, NEW r \in Requests, SettleFunding(r)
    PROVE  ExactInv(r)'
<1>1. /\ pc[r] = "settleFund"
      /\ UNCHANGED <<req, bg, funding, held, reserving, due, outcome, fee>>
  BY DEF SettleFunding, requestVars
<1>2. RequestInv(r) /\ ExactInv(r)
  BY DEF SafeInv, Exact
<1>3. bg[r] = "idle" /\ reserving[r] = 0 /\ outcome[r] = "served" /\ ~Settled(r)
  BY <1>1, <1>2, EntryTypes DEF RequestInv, StageInv, ExactInv, OutcomeInv
<1>4. /\ Delta(r) = due[r] - held[r]["preConsumed"] /\ Delta(r) \in Int
      /\ Payer(r) = (IF funding[r] = "none" THEN "wallet" ELSE funding[r])
      /\ Payer(r) \in Account
  BY EntryTypes DEF Delta, Payer, Direct, Account, Source
<1>5. pc'[r] \in {"settleToken", "log"}
  BY GotoEffect DEF SettleFunding, TypeOK
<1>6. OutcomeInv(r)'
  BY <1>1, <1>3, <1>5 DEF OutcomeInv
<1>7. ASSUME faults'[r] = 0, outcome'[r] # "panicked"
      PROVE  AmountsInv(r)'
  <2>1. ~Fault(r)
    BY <1>7, FaultEffect
  <2>2. AmountsInv(r)
    BY <1>1, <1>2, <1>7, <2>1 DEF ExactInv, SettleFunding
  <2>3. CASE /\ Delta(r) = 0 /\ Goto(r, "log") /\ UNCHANGED ledger
             /\ IF Direct(r) THEN UNCHANGED flags ELSE Set(r, {"settled"})
    <3>1. pc'[r] = "log"
      BY <2>3, GotoEffect DEF TypeOK
    <3>2. Settled(r)' \/ funding[r] = "none"
      BY <2>3, SetEffect DEF TypeOK, Direct
    <3>3. held[r]["preConsumed"] = due[r]
      BY <1>4, <2>3, EntryTypes
    <3> QED
      BY <1>1, <1>3, <2>2, <2>3, <3>1, <3>2, <3>3, EntryTypes
      DEF AmountsInv, AskedInv, HeldInv, HalfInv, ServedInv, FailedInv,
          RejectedInv, FeeInv, Pays, PaysToken, Price
  <2>4. CASE Take(r, Payer(r), Delta(r)) /\ Goto(r, "settleToken")
    <3>1. pc'[r] = "settleToken"
      BY <2>4, GotoEffect DEF TypeOK
    <3>2. /\ ledger'[r]["wallet"] = ledger[r]["wallet"]
             + IF Payer(r) = "wallet" THEN Delta(r) ELSE 0
          /\ ledger'[r]["subscription"] = ledger[r]["subscription"]
             + IF Payer(r) = "subscription" THEN Delta(r) ELSE 0
          /\ ledger'[r]["token"] = ledger[r]["token"]
      BY <1>4, <2>4, TakeEffect, EntryTypes
    <3> QED
      BY <1>1, <1>3, <1>4, <2>2, <3>1, <3>2, EntryTypes
      DEF AmountsInv, AskedInv, HeldInv, HalfInv, ServedInv, FailedInv,
          RejectedInv, FeeInv, Pays, PaysToken
  <2>5. CASE /\ MayRefuse(Payer(r), Delta(r)) /\ Goto(r, "log")
             /\ UNCHANGED <<flags, ledger>>
    <3>1. pc'[r] = "log" /\ funding[r] = "subscription"
      BY <1>4, <2>5, GotoEffect, EntryTypes DEF TypeOK, MayRefuse,
         Payer, Direct
    <3> QED
      BY <1>1, <1>3, <2>2, <2>5, <3>1, EntryTypes
      DEF AmountsInv, AskedInv, HeldInv, HalfInv, ServedInv, FailedInv,
          RejectedInv, FeeInv, Pays, PaysToken, Price
  <2> QED
    BY <2>1, <2>3, <2>4, <2>5 DEF SettleFunding
<1> QED
  BY <1>6, <1>7 DEF ExactInv

LEMMA SettleTokenExact ==
    ASSUME TypeOK, SafeInv, Exact, NEW r \in Requests, SettleToken(r)
    PROVE  ExactInv(r)'
<1>1. /\ pc[r] = "settleToken"
      /\ UNCHANGED <<req, bg, funding, held, reserving, due, outcome, fee>>
  BY DEF SettleToken, requestVars
<1>2. RequestInv(r) /\ ExactInv(r)
  BY DEF SafeInv, Exact
<1>3. bg[r] = "idle" /\ reserving[r] = 0 /\ outcome[r] = "served"
  BY <1>1, <1>2, EntryTypes DEF RequestInv, StageInv, ExactInv, OutcomeInv
<1>4. pc'[r] = "log"
  BY GotoEffect DEF SettleToken, TypeOK
<1>5. Settled(r)' \/ funding[r] = "none"
  BY SetEffect DEF TypeOK, SettleToken, Direct
<1>6. OutcomeInv(r)'
  BY <1>1, <1>3, <1>4 DEF OutcomeInv
<1>7. ASSUME faults'[r] = 0, outcome'[r] # "panicked"
      PROVE  AmountsInv(r)'
  <2> DEFINE m == TokenPart(r, Delta(r))
             n == IF Direct(r) THEN Delta(r) ELSE 0
  <2>1. /\ Delta(r) = due[r] - held[r]["preConsumed"] /\ Delta(r) \in Int
        /\ m = IF Playground(r) THEN 0 ELSE Delta(r)
        /\ m \in Int /\ n \in Int /\ RowType
    BY EntryTypes DEF Delta, TokenPart, TypeOK
  <2>2. /\ ledger' = [ledger EXCEPT ![r]["token"] = @ + m,
                                    ![r]["limit"] = @ + n]
        /\ UNCHANGED faults
    BY <1>7, FaultEffect DEF SettleToken
  <2> HIDE DEF m, n
  <2>3. /\ ledger'[r]["wallet"] = ledger[r]["wallet"]
        /\ ledger'[r]["subscription"] = ledger[r]["subscription"]
        /\ ledger'[r]["token"] = ledger[r]["token"] + m
    BY <2>1, <2>2, ChargeEffect
  <2>4. AmountsInv(r)
    BY <1>1, <1>2, <1>7, <2>2 DEF ExactInv
  <2> QED
    BY <1>1, <1>3, <1>4, <1>5, <2>1, <2>3, <2>4, EntryTypes
    DEF AmountsInv, AskedInv, HeldInv, HalfInv, ServedInv, FailedInv,
        RejectedInv, FeeInv, Pays, PaysToken, Price
<1> QED
  BY <1>6, <1>7 DEF ExactInv

(* Without a refund a failed session held nothing in the first place.       *)
LEMMA RefundExact ==
    ASSUME TypeOK, SafeInv, Exact, NEW r \in Requests, Refund(r)
    PROVE  ExactInv(r)'
<1>1. /\ pc[r] = "refund"
      /\ UNCHANGED <<req, funding, held, reserving, ledger>>
      /\ UNCHANGED <<due, outcome, fee, faults>>
  BY DEF Refund, requestVars, rowVars
<1>2. RequestInv(r) /\ ExactInv(r)
  BY DEF SafeInv, Exact
<1>3. /\ bg[r] = "idle" /\ reserving[r] = 0
      /\ "refunded" \notin flags[r] /\ outcome[r] \in {"failed", "panicked"}
  BY <1>1, <1>2, EntryTypes DEF RequestInv, StageInv, ExactInv, OutcomeInv
<1>4. pc'[r] \in {"fee", "done"}
  BY GotoEffect DEF TypeOK, Refund
<1>5. CASE NeedsRefund(r)
  <2>1. bg'[r] = "funding" /\ flags'[r] = flags[r] \cup {"refunded"}
    BY <1>5, SetEffect DEF Refund, TypeOK, ControlType
  <2>2. OutcomeInv(r)'
    BY <1>1, <1>3, <1>4 DEF OutcomeInv
  <2>3. ASSUME faults'[r] = 0, outcome'[r] # "panicked"
        PROVE  AmountsInv(r)'
    <3>1. AmountsInv(r) /\ outcome[r] = "failed"
      BY <1>1, <1>2, <1>3, <2>3 DEF ExactInv
    <3> QED
      BY <1>1, <1>3, <1>4, <2>1, <3>1, EntryTypes
      DEF AmountsInv, AskedInv, HeldInv, HalfInv, ServedInv, FailedInv,
          RejectedInv, FeeInv, Pays, PaysToken, Agree, Left, LeftToken, FeeToken
  <2> QED
    BY <2>2, <2>3 DEF ExactInv
<1>6. CASE ~NeedsRefund(r)
  <2>1. UNCHANGED <<flags, bg>>
    BY <1>6 DEF Refund
  <2>2. OutcomeInv(r)'
    BY <1>1, <1>3, <1>4, <2>1 DEF OutcomeInv
  <2>3. ASSUME faults'[r] = 0, outcome'[r] # "panicked"
        PROVE  AmountsInv(r)'
    <3>1. AmountsInv(r) /\ outcome[r] = "failed"
      BY <1>1, <1>2, <1>3, <2>3 DEF ExactInv
    <3>2. /\ ~Settled(r) /\ ~FundingSettled(r)
          /\ held[r]["tokenConsumed"] = held[r]["preConsumed"]
      BY <1>1, <1>3, <3>1 DEF AmountsInv, FailedInv, Agree
    <3>3. held[r]["preConsumed"] = 0
      BY <1>2, <1>3, <1>6, <3>2, EntryTypes
      DEF NeedsRefund, RequestInv, NoteInv
    <3> QED
      BY <1>1, <1>3, <1>4, <2>1, <3>1, <3>3, EntryTypes
      DEF AmountsInv, AskedInv, HeldInv, HalfInv, ServedInv, FailedInv,
          RejectedInv, FeeInv, Pays, PaysToken, Agree, Left, LeftToken, FeeToken
  <2> QED
    BY <2>2, <2>3 DEF ExactInv
<1> QED
  BY <1>5, <1>6

(* The calls of the refund goroutine, each with the fee charged before or   *)
(* after it.                                                                *)
LEMMA GoroutineExact ==
    ASSUME TypeOK, SafeInv, Exact, NEW r \in Requests, Goroutine(r)
    PROVE  ExactInv(r)'
<1>1. /\ bg[r] \in {"funding", "again", "last", "extra", "token"}
      /\ UNCHANGED <<req, pc, funding, flags, held, reserving, due, outcome, fee>>
  BY DEF Goroutine, RefundFunding, RefundWallet, RefundSubscription,
     LateFault, Fault, RefundExtra, RefundToken, GiveBack, requestVars,
     sessionVars
<1>2. RequestInv(r) /\ ExactInv(r)
  BY DEF SafeInv, Exact
<1>3. /\ funding[r] \in Source /\ outcome[r] \in {"failed", "panicked"}
      /\ pc[r] \in Over /\ (pc[r] # "crashed" => reserving[r] = 0)
  BY <1>1, <1>2, EntryTypes
  DEF RequestInv, StageInv, Source, ExactInv, OutcomeInv
<1>4. OutcomeInv(r)'
  BY <1>1, <1>2, <1>3 DEF ExactInv, OutcomeInv
<1>5. ASSUME faults'[r] = 0, outcome'[r] # "panicked"
      PROVE  AmountsInv(r)'
  <2>1. ~Fault(r) /\ ~(faults' = [faults EXCEPT ![r] = @ + 1])
    BY <1>5, BoundsAssumption DEF TypeOK, RowType, Fault
  <2>2. UNCHANGED faults
    BY <2>1 DEF Goroutine, RefundFunding, RefundWallet, RefundSubscription,
       LateFault, RefundExtra, RefundToken, GiveBack
  <2>3. AmountsInv(r) /\ outcome[r] = "failed"
    BY <1>1, <1>2, <1>3, <1>5, <2>2 DEF ExactInv
  <2>4. /\ AskedInv(r)' /\ HeldInv(r)' /\ HalfInv(r)' /\ ServedInv(r)'
        /\ RejectedInv(r)' /\ FeeInv(r)'
    BY <1>1, <1>3, <2>3
    DEF AmountsInv, AskedInv, HeldInv, HalfInv, ServedInv, RejectedInv, FeeInv
  <2>5. SUFFICES ASSUME pc[r] # "crashed"
                 PROVE  FailedInv(r)'
    BY <1>1, <2>4 DEF AmountsInv, FailedInv
  <2>6. /\ Agree(r) /\ reserving[r] = 0 /\ ~Settled(r) /\ ~FundingSettled(r)
        /\ Pays(r, Left(r) + fee[r])
        /\ PaysToken(r, LeftToken(r) + FeeToken(r))
        /\ FeeToken(r) \in Int /\ fee[r] \in Int
    BY <1>1, <2>3, <2>5, FeeType DEF AmountsInv, FailedInv, FeeToken
  <2>7. CASE RefundFunding(r)
    <3> DEFINE n == held[r]["fundConsumed"]
    <3>1. /\ bg[r] \in Attempts /\ bg'[r] = "extra"
          /\ Take(r, funding[r], -n)
      BY <2>1, <2>7
      DEF RefundFunding, RefundWallet, RefundSubscription, LateFault, GiveBack,
          RefundAmount, TypeOK, ControlType
    <3>2. -n \in Int /\ n \in Int /\ funding[r] \in Account
      BY <1>3, EntryTypes DEF Account
    <3> HIDE DEF n
    <3>3. /\ ledger'[r]["wallet"] = ledger[r]["wallet"]
             - IF funding[r] = "wallet" THEN n ELSE 0
          /\ ledger'[r]["subscription"] = ledger[r]["subscription"]
             - IF funding[r] = "subscription" THEN n ELSE 0
          /\ ledger'[r]["token"] = ledger[r]["token"]
      BY <1>3, <3>1, <3>2, TakeEffect, EntryTypes DEF Source
    <3> QED
      BY <1>1, <1>3, <2>6, <3>1, <3>3, EntryTypes
      DEF FailedInv, Pays, PaysToken, Agree, Left, LeftToken, FeeToken, Source, n
  <2>8. CASE RefundExtra(r)
    <3>1. /\ bg[r] = "extra" /\ bg'[r] = "token"
          /\ Take(r, funding[r], -Extra(r))
      BY <2>1, <2>8 DEF RefundExtra, GiveBack, TypeOK, ControlType
    <3>2. -Extra(r) \in Int /\ Extra(r) \in Int /\ funding[r] \in Account
      BY <1>3, EntryTypes DEF Account
    <3>3. /\ ledger'[r]["wallet"] = ledger[r]["wallet"]
             - IF funding[r] = "wallet" THEN Extra(r) ELSE 0
          /\ ledger'[r]["subscription"] = ledger[r]["subscription"]
             - IF funding[r] = "subscription" THEN Extra(r) ELSE 0
          /\ ledger'[r]["token"] = ledger[r]["token"]
      <4> HIDE DEF Extra
      <4> QED
        BY <1>3, <3>1, <3>2, TakeEffect, EntryTypes DEF Source
    <3> QED
      BY <1>1, <1>3, <2>6, <3>1, <3>3, EntryTypes
      DEF FailedInv, Pays, PaysToken, Agree, Left, LeftToken, FeeToken, Source
  <2>9. CASE RefundToken(r)
    <3> DEFINE n == TokenPart(r, held[r]["tokenConsumed"])
    <3>1. bg[r] = "token" /\ bg'[r] = "finished" /\ Take(r, "token", -n)
      BY <2>1, <2>9 DEF RefundToken, GiveBack, TypeOK, ControlType
    <3>2. /\ n = (IF Playground(r) THEN 0 ELSE held[r]["tokenConsumed"])
          /\ -n \in Int /\ n \in Int /\ "token" \in Account
      BY EntryTypes DEF TokenPart, Account
    <3> HIDE DEF n
    <3>3. /\ ledger'[r]["wallet"] = ledger[r]["wallet"]
          /\ ledger'[r]["subscription"] = ledger[r]["subscription"]
          /\ ledger'[r]["token"] = ledger[r]["token"] - n
      BY <3>1, <3>2, TakeEffect, EntryTypes
    <3> QED
      BY <1>1, <1>3, <2>6, <3>1, <3>2, <3>3, EntryTypes
      DEF FailedInv, Pays, PaysToken, Agree, Left, LeftToken, FeeToken
  <2> QED
    BY <2>7, <2>8, <2>9 DEF Goroutine
<1> QED
  BY <1>4, <1>5 DEF ExactInv

LEMMA ChargeFeeExact ==
    ASSUME TypeOK, SafeInv, Exact, NEW r \in Requests, ChargeFee(r)
    PROVE  ExactInv(r)'
<1>1. /\ pc[r] = "fee"
      /\ UNCHANGED <<req, bg, funding, flags, held, reserving, due, outcome>>
  BY DEF ChargeFee, requestVars, sessionVars
<1>2. RequestInv(r) /\ ExactInv(r)
  BY DEF SafeInv, Exact
<1>3. outcome[r] \in {"failed", "panicked"} /\ reserving[r] = 0
  BY <1>1, <1>2, EntryTypes DEF ExactInv, OutcomeInv, RequestInv, StageInv
<1>4. pc'[r] \in {"feeToken", "done"}
  BY GotoEffect DEF TypeOK, ChargeFee
<1>5. OutcomeInv(r)'
  BY <1>1, <1>3, <1>4 DEF OutcomeInv
<1>6. ASSUME faults'[r] = 0, outcome'[r] # "panicked"
      PROVE  AmountsInv(r)'
  <2>1. ~Fault(r)
    BY <1>6, FaultEffect
  <2>2. UNCHANGED faults
    BY <2>1 DEF ChargeFee
  <2>3. AmountsInv(r) /\ outcome[r] = "failed" /\ fee[r] = 0
    BY <1>1, <1>2, <1>3, <1>6, <2>2 DEF ExactInv, AmountsInv, FeeInv
  <2>4. CASE /\ Take(r, Payer(r), Fee) /\ fee' = [fee EXCEPT ![r] = Fee]
             /\ Goto(r, "feeToken")
    <3>1. pc'[r] = "feeToken" /\ fee'[r] = Fee
      BY <2>4, GotoEffect DEF TypeOK, RowType
    <3>2. /\ Payer(r) = IF funding[r] = "none" THEN "wallet" ELSE funding[r]
          /\ Payer(r) \in Account /\ Fee \in Nat
      BY AmountsAssumption, EntryTypes DEF Payer, Direct, Account, Source
    <3>3. /\ ledger'[r]["wallet"] = ledger[r]["wallet"]
             + IF Payer(r) = "wallet" THEN Fee ELSE 0
          /\ ledger'[r]["subscription"] = ledger[r]["subscription"]
             + IF Payer(r) = "subscription" THEN Fee ELSE 0
          /\ ledger'[r]["token"] = ledger[r]["token"]
      BY <2>4, <3>2, TakeEffect, EntryTypes
    <3> QED
      BY <1>1, <1>3, <2>3, <3>1, <3>2, <3>3, EntryTypes, FeeType
      DEF AmountsInv, AskedInv, HeldInv, HalfInv, ServedInv, FailedInv,
          RejectedInv, FeeInv, Pays, PaysToken, Agree, Left, LeftToken,
          FeeToken
  <2>5. CASE Goto(r, "done") /\ UNCHANGED <<fee, ledger>>
    <3>1. pc'[r] = "done"
      BY <2>5, GotoEffect DEF TypeOK
    <3> QED
      BY <1>1, <1>3, <2>3, <2>5, <3>1, EntryTypes, FeeType
      DEF AmountsInv, AskedInv, HeldInv, HalfInv, ServedInv, FailedInv,
          RejectedInv, FeeInv, Pays, PaysToken, Agree, Left, LeftToken,
          FeeToken
  <2> QED
    BY <2>1, <2>4, <2>5 DEF ChargeFee
<1> QED
  BY <1>5, <1>6 DEF ExactInv

LEMMA ChargeFeeTokenExact ==
    ASSUME TypeOK, SafeInv, Exact, NEW r \in Requests, ChargeFeeToken(r)
    PROVE  ExactInv(r)'
<1>1. /\ pc[r] = "feeToken"
      /\ UNCHANGED <<req, bg, funding, flags, held, reserving>>
      /\ UNCHANGED <<due, outcome, fee>>
  BY DEF ChargeFeeToken, requestVars, sessionVars
<1>2. RequestInv(r) /\ ExactInv(r)
  BY DEF SafeInv, Exact
<1>3. outcome[r] \in {"failed", "panicked"} /\ reserving[r] = 0
  BY <1>1, <1>2, EntryTypes DEF ExactInv, OutcomeInv, RequestInv, StageInv
<1>4. pc'[r] = "done"
  BY GotoEffect DEF TypeOK, ChargeFeeToken
<1>5. OutcomeInv(r)'
  BY <1>1, <1>3, <1>4 DEF OutcomeInv
<1>6. ASSUME faults'[r] = 0, outcome'[r] # "panicked"
      PROVE  AmountsInv(r)'
  <2> DEFINE m == TokenPart(r, Fee)
  <2>1. /\ m = (IF Playground(r) THEN 0 ELSE Fee)
        /\ m \in Int /\ Fee \in Int /\ RowType
    BY AmountsAssumption DEF TokenPart, TypeOK
  <2>2. /\ ledger' = [ledger EXCEPT ![r]["token"] = @ + m,
                                    ![r]["limit"] = @ + Fee]
        /\ UNCHANGED faults
    BY <1>6, FaultEffect DEF ChargeFeeToken
  <2> HIDE DEF m
  <2>3. /\ ledger'[r]["wallet"] = ledger[r]["wallet"]
        /\ ledger'[r]["subscription"] = ledger[r]["subscription"]
        /\ ledger'[r]["token"] = ledger[r]["token"] + m
    BY <2>1, <2>2, ChargeEffect
  <2>4. AmountsInv(r) /\ outcome[r] = "failed" /\ fee[r] = Fee
    BY <1>1, <1>2, <1>3, <1>6, <2>2 DEF ExactInv, AmountsInv, FeeInv
  <2> QED
    BY <1>1, <1>3, <1>4, <2>1, <2>3, <2>4, EntryTypes, FeeType
    DEF AmountsInv, AskedInv, HeldInv, HalfInv, ServedInv, FailedInv,
        RejectedInv, FeeInv, Pays, PaysToken, Agree, Left, LeftToken, FeeToken
<1> QED
  BY <1>5, <1>6 DEF ExactInv

(* Of a handler or a goroutine that is killed nothing is claimed any more.  *)
LEMMA CrashExact ==
    ASSUME TypeOK, Exact, Crash
    PROVE  Exact'
<1> SUFFICES ASSUME NEW r \in Requests
             PROVE  ExactInv(r)'
  BY DEF Exact
<1>1. /\ UNCHANGED <<req, funding, flags, held, reserving, ledger>>
      /\ UNCHANGED <<due, outcome, fee, faults>>
  BY DEF Crash, requestVars, sessionVars, rowVars
<1>2. /\ \/ pc'[r] = pc[r]
         \/ pc'[r] = "crashed" /\ pc[r] # "done"
      /\ \/ bg'[r] = bg[r]
         \/ bg'[r] = "crashed" /\ bg[r] # "idle"
  BY DEF Crash, Working, Refunding
<1>3. ExactInv(r)
  BY DEF Exact
<1>4. OutcomeInv(r)'
  BY <1>1, <1>2, <1>3 DEF ExactInv, OutcomeInv
<1>5. ASSUME faults'[r] = 0, outcome'[r] # "panicked"
      PROVE  AmountsInv(r)'
  <2>1. AmountsInv(r)
    BY <1>1, <1>3, <1>5 DEF ExactInv
  <2> QED
    BY <1>1, <1>2, <2>1
    DEF AmountsInv, AskedInv, HeldInv, HalfInv, ServedInv, FailedInv,
        RejectedInv, FeeInv, Pays, PaysToken, Agree, Price, Left, LeftToken,
        FeeToken
<1> QED
  BY <1>4, <1>5 DEF ExactInv

-----------------------------------------------------------------------------
LEMMA ExactInit ==
    ASSUME Init
    PROVE  Exact
<1> SUFFICES ASSUME NEW r \in Requests
             PROVE  ExactInv(r)
  BY DEF Exact
<1>1. /\ pc[r] = "waiting" /\ bg[r] = "idle" /\ outcome[r] = "open"
      /\ reserving[r] = 0 /\ fee[r] = 0
      /\ ledger[r]["wallet"] = 0 /\ ledger[r]["subscription"] = 0
      /\ ledger[r]["token"] = 0
  BY DEF Init, Account, Source
<1> QED
  BY <1>1 DEF ExactInv, OutcomeInv, AmountsInv, AskedInv, HeldInv, HalfInv,
     ServedInv, FailedInv, RejectedInv, FeeInv, Pays, PaysToken

LEMMA ExactStep ==
    ASSUME TypeOK, SafeInv, Exact, [Next]_vars
    PROVE  Exact'
<1>1. CASE Crash
  BY <1>1, CrashExact
<1>2. ASSUME NEW r \in Requests,
             Arrive(r) \/ Handler(r) \/ Panic(r) \/ Goroutine(r)
      PROVE  Exact'
  <2>1. Alone(r)
    BY <1>2, OneRequest DEF Alone
  <2>2. CASE Arrive(r) \/ Panic(r) \/ Goroutine(r)
    BY <2>1, <2>2, ArriveExact, AttemptExact, GoroutineExact, ExactLocality
  <2>3. CASE Handler(r)
    <3>1. ExactInv(r)'
      BY <2>3, ChooseFundingExact, TryWalletExact, TrySubscriptionExact,
         ReadTokenExact, DebitTokenExact, PreConsumeFundingExact,
         RollbackTokenExact, RejectedExact, AttemptExact, ReserveExact,
         RollbackReserveExact, SettleFundingExact, SettleTokenExact,
         RefundExact, ChargeFeeExact, ChargeFeeTokenExact
      DEF Handler
    <3> QED
      BY <2>1, <3>1, ExactLocality
  <2> QED
    BY <1>2, <2>2, <2>3
<1>3. CASE UNCHANGED vars
  <2>1. UNCHANGED <<req, pc, bg, funding, flags, held, reserving, ledger,
                    outcome, due, fee, faults>>
    BY <1>3 DEF vars, requestVars, sessionVars, rowVars
  <2> QED
    BY <2>1 DEF Exact, ExactInv, OutcomeInv, AmountsInv, AskedInv, HeldInv,
       HalfInv, ServedInv, FailedInv, RejectedInv, FeeInv, Pays, PaysToken,
       Agree, Price, Left, LeftToken, FeeToken
<1> QED
  BY <1>1, <1>2, <1>3 DEF Next

LEMMA Exactness == Spec => [](TypeOK /\ SafeInv /\ Exact)
<1>1. Init => Exact
  BY ExactInit
<1>2. TypeOK /\ SafeInv /\ Exact /\ [Next]_vars => Exact'
  BY ExactStep
<1> QED
  BY <1>1, <1>2, Safety, PTL DEF Spec

(* A request that was served without a database error has cost its user and *)
(* its token exactly what the response came to, or what was held when the   *)
(* subscription could not take the surplus (Settle, SettleBilling).         *)
THEOREM ServedExactly == Spec => []ServedPaysExactly
<1>1. ASSUME TypeOK, Exact
      PROVE  ServedPaysExactly
  <2> SUFFICES ASSUME NEW r \in Requests,
                      Ended(r), outcome[r] = "served", faults[r] = 0
               PROVE  /\ ledger[r][IF Direct(r) THEN "wallet" ELSE funding[r]]
                            = Price(r)
                      /\ ledger[r]["token"] = TokenPart(r, Price(r))
                      /\ funding[r] = "wallet" => Settled(r)
    BY DEF ServedPaysExactly, Price, Direct
  <2>1. /\ Pays(r, Price(r)) /\ PaysToken(r, Price(r))
        /\ funding[r] = "wallet" => Settled(r)
    BY <1>1 DEF Exact, ExactInv, AmountsInv, ServedInv, Ended
  <2> QED
    BY <1>1, <2>1, EntryTypes DEF Pays, PaysToken, TokenPart, Direct
<1> QED
  BY <1>1, Exactness, PTL

(* A request that was refused or that failed without a database error has   *)
(* cost nothing but its fee once the refund goroutine is through (Refund).  *)
THEOREM FailedNothing == Spec => []FailedPaysNothing
<1>1. ASSUME TypeOK, SafeInv, Exact
      PROVE  FailedPaysNothing
  <2> SUFFICES ASSUME NEW r \in Requests,
                      Ended(r), outcome[r] \in {"failed", "rejected"},
                      faults[r] = 0
               PROVE  /\ Spent(r) = fee[r]
                      /\ ledger[r]["token"] = TokenPart(r, fee[r])
    BY DEF FailedPaysNothing
  <2>1. AmountsInv(r) /\ RequestInv(r) /\ fee[r] \in Int
    BY <1>1, FeeType DEF Exact, ExactInv, SafeInv
  <2>2. CASE outcome[r] = "failed"
    <3>1. /\ Pays(r, Left(r) + fee[r])
          /\ PaysToken(r, LeftToken(r) + FeeToken(r))
          /\ bg[r] = "idle" => held[r]["preConsumed"] = 0
      BY <2>1, <2>2 DEF AmountsInv, FailedInv, Ended
    <3>2. /\ Left(r) = 0 /\ LeftToken(r) = 0 /\ FeeToken(r) = fee[r]
      BY <3>1 DEF Left, LeftToken, FeeToken, Ended
    <3> QED
      BY <2>1, <3>1, <3>2 DEF Pays, PaysToken, Spent, TokenPart
  <2>3. CASE outcome[r] = "rejected"
    <3>1. Pays(r, 0) /\ PaysToken(r, 0) /\ fee[r] = 0
      BY <2>1, <2>3 DEF AmountsInv, RejectedInv, FeeInv
    <3> QED
      BY <3>1 DEF Pays, PaysToken, Spent, TokenPart
  <2> QED
    BY <2>2, <2>3
<1> QED
  BY <1>1, Exactness, PTL

(* While the upstream is at work, what the source has given, what the token *)
(* has given and preConsumedQuota agree (NewBillingSession, Reserve).       *)
THEOREM HoldsAlwaysAgree == Spec => []HoldsAgree
<1>1. ASSUME TypeOK, SafeInv, Exact
      PROVE  HoldsAgree
  <2> SUFFICES ASSUME NEW r \in Requests, pc[r] = "upstream", faults[r] = 0
               PROVE  /\ Spent(r) = held[r]["preConsumed"]
                      /\ ledger[r]["token"] = TokenPart(r, held[r]["preConsumed"])
    BY DEF HoldsAgree
  <2>1. /\ Pays(r, held[r]["preConsumed"] + reserving[r])
        /\ PaysToken(r, held[r]["preConsumed"])
    BY <1>1 DEF Exact, ExactInv, OutcomeInv, AmountsInv, HeldInv
  <2>2. reserving[r] = 0
    BY <1>1, EntryTypes DEF SafeInv, RequestInv, StageInv
  <2> QED
    BY <1>1, <2>1, <2>2, EntryTypes DEF Pays, PaysToken, Spent, TokenPart
<1> QED
  BY <1>1, Exactness, PTL

-----------------------------------------------------------------------------
USE DEF Before, Asking, Unsettled, Reserving, Over, Settled, FundingSettled,
        Playground, Promised, Extra

-----------------------------------------------------------------------------
(* What a request can cost at most, whatever fails or is killed: the second *)
(* invariant holds of every request, one that met database errors too.      *)

(* The amounts r may ask to be held.                                        *)
Asks(r) == {0, 1, Estimate(r)} \cup ReserveTargets

(* A database error may have kept what a Reserve took on a subscription.    *)
Strayed(r) == ReserveTargets # {} /\ faults[r] > 0

(* Only the source of the session is charged, and not while it is sought.   *)
SourceInv(r) ==
    /\ funding[r] = "subscription" => ledger[r]["wallet"] = 0
    /\ funding[r] # "subscription" => ledger[r]["subscription"] = 0
    /\ pc[r] \in Before \cup Asking /\ reserving[r] = 0 => Spent(r) = 0

(* What is held is what was asked for, and what the source has given.       *)
HoldInv(r) ==
    /\ held[r]["preConsumed"] \in Asks(r)
    /\ held[r]["preConsumed"] + reserving[r] \in Asks(r)
    /\ reserving[r] > 0 => ReserveTargets # {}
    /\ ~Strayed(r) /\ (\/ pc[r] \in Unsettled
                       \/ reserving[r] > 0 /\ pc[r] # "crashed") =>
          Spent(r) = held[r]["preConsumed"] + reserving[r]

BoundInv(r) ==
    /\ Strayed(r) \/ \E n \in Asks(r) \cup {due[r]} : Spent(r) <= n + fee[r]
    /\ pc[r] \notin {"feeToken", "done", "crashed"} => fee[r] = 0

ChargeInv(r) == SourceInv(r) /\ HoldInv(r) /\ BoundInv(r)
Bounded == \A r \in Requests : ChargeInv(r)

LEMMA BoundedLocality ==
    ASSUME Bounded, NEW r \in Requests, ChargeInv(r)', Alone(r)
    PROVE  Bounded'
<1> SUFFICES ASSUME NEW q \in Requests, q # r
             PROVE  ChargeInv(q)'
  BY DEF Bounded
<1>1. /\ ChargeInv(q)
      /\ UNCHANGED <<req[q], pc[q], funding[q], held[q], reserving[q], ledger[q]>>
      /\ UNCHANGED <<due[q], fee[q], faults[q]>>
  BY DEF Bounded, Alone, State, Tally
<1> QED
  BY <1>1 DEF ChargeInv, SourceInv, HoldInv, BoundInv, Strayed, Asks, Spent,
     Estimate

LEMMA AsksType ==
    ASSUME TypeOK, NEW r \in Requests
    PROVE  /\ Asks(r) \subseteq Nat /\ 0 \in Asks(r)
           /\ Effective(r) \in Asks(r)
           /\ faults[r] \in Nat
<1>1. Estimate(r) \in Nat /\ ReserveTargets \subseteq Nat
  BY AmountTypes, AmountsAssumption
<1>2. Effective(r) \in {0, 1, Estimate(r)}
  BY DEF Effective
<1>3. faults[r] \in Nat
  BY BoundsAssumption DEF TypeOK, RowType
<1>4. \A n \in Asks(r) : n \in Nat
  BY <1>1 DEF Asks
<1>5. 0 \in Asks(r) /\ Effective(r) \in Asks(r)
  BY <1>2 DEF Asks
<1> QED
  BY <1>3, <1>4, <1>5

(* Database errors only add up.                                             *)
LEMMA FaultsGrow ==
    ASSUME TypeOK, NEW r \in Requests,
           \/ UNCHANGED faults \/ Fault(r)
           \/ faults' = [faults EXCEPT ![r] = @ + 1]
    PROVE  faults'[r] \in Nat /\ faults'[r] >= faults[r]
BY BoundsAssumption DEF TypeOK, RowType, Fault

(* The sources are left alone, and what a Reserve took is noted or not yet. *)
LEMMA SameSpent ==
    ASSUME TypeOK, SafeInv, Bounded, NEW r \in Requests,
           req'[r] = req[r], fee'[r] = fee[r],
           due'[r] = due[r] \/ pc[r] = "upstream",
           faults'[r] \in Nat, faults'[r] >= faults[r],
           ledger'[r]["wallet"] = ledger[r]["wallet"],
           ledger'[r]["subscription"] = ledger[r]["subscription"],
           funding'[r] = funding[r]
             \/ (pc[r] \in Before \cup Asking /\ reserving[r] = 0),
           \/ /\ held'[r]["preConsumed"] = held[r]["preConsumed"]
              /\ reserving'[r] = reserving[r]
           \/ /\ held'[r]["preConsumed"] = held[r]["preConsumed"] + reserving[r]
              /\ reserving'[r] = 0,
           pc'[r] \in Before \cup Asking =>
              pc[r] \in Before \cup Asking /\ reserving'[r] = reserving[r],
           pc'[r] \in Unsettled => pc[r] \in Before \cup Asking \cup Unsettled,
           pc[r] \in {"feeToken", "done", "crashed"} =>
              pc'[r] \in {"feeToken", "done", "crashed"},
           pc[r] = "crashed" => pc'[r] = "crashed"
    PROVE  ChargeInv(r)'
<1>1. RequestInv(r) /\ ChargeInv(r)
  BY DEF SafeInv, Bounded
<1>2. Spent(r)' = Spent(r) /\ Asks(r)' = Asks(r) /\ Spent(r) \in Int
  BY EntryTypes DEF Spent, Asks, Estimate
<1>3. Strayed(r) => Strayed(r)'
  BY AsksType DEF Strayed
<1>4. SourceInv(r)'
  <2>1. CASE pc[r] \in Before \cup Asking /\ reserving[r] = 0
    <3>1. Spent(r) = 0 /\ ledger[r]["wallet"] >= 0 /\ ledger[r]["subscription"] >= 0
      BY <1>1, <2>1 DEF ChargeInv, SourceInv, RequestInv, StageInv, CoverInv
    <3>2. ledger[r]["wallet"] = 0 /\ ledger[r]["subscription"] = 0
      BY <3>1, EntryTypes DEF Spent
    <3> QED
      BY <1>2, <3>1, <3>2 DEF SourceInv
  <2>2. CASE ~(pc[r] \in Before \cup Asking /\ reserving[r] = 0)
    BY <1>1, <1>2, <2>2, EntryTypes DEF ChargeInv, SourceInv
  <2> QED
    BY <2>1, <2>2
<1>5. HoldInv(r)'
  <2>1. /\ held'[r]["preConsumed"] \in Asks(r)
        /\ held'[r]["preConsumed"] + reserving'[r] \in Asks(r)
        /\ reserving'[r] > 0 => reserving'[r] = reserving[r]
        /\ held'[r]["preConsumed"] + reserving'[r]
              = held[r]["preConsumed"] + reserving[r]
    BY <1>1, EntryTypes DEF ChargeInv, HoldInv
  <2>2. ASSUME ~Strayed(r)', pc'[r] \in Unsettled
        PROVE  Spent(r) = held[r]["preConsumed"] + reserving[r]
    <3>1. CASE pc[r] \in Unsettled \/ reserving[r] > 0
      BY <1>1, <1>3, <2>2, <3>1 DEF ChargeInv, HoldInv
    <3>2. CASE pc[r] \in Before \cup Asking /\ ~(reserving[r] > 0)
      <4>1. reserving[r] = 0
        BY <3>2, EntryTypes
      <4>2. held[r]["preConsumed"] = 0
        BY <1>1, <3>2, <4>1 DEF RequestInv, StageInv, NoteInv
      <4>3. Spent(r) = 0
        BY <1>1, <3>2, <4>1 DEF ChargeInv, SourceInv
      <4> QED
        BY <4>1, <4>2, <4>3
    <3> QED
      BY <2>2, <3>1, <3>2
  <2>3. ASSUME ~Strayed(r)', reserving'[r] > 0, pc'[r] # "crashed"
        PROVE  Spent(r) = held[r]["preConsumed"] + reserving[r]
    BY <1>1, <1>3, <2>1, <2>3 DEF ChargeInv, HoldInv
  <2> QED
    BY <1>1, <1>2, <2>1, <2>2, <2>3 DEF ChargeInv, HoldInv
<1>6. BoundInv(r)'
  <2>1. pc'[r] \notin {"feeToken", "done", "crashed"} => fee'[r] = 0
    BY <1>1 DEF ChargeInv, BoundInv
  <2>2. Strayed(r) \/ \E n \in Asks(r) \cup {due'[r]} : Spent(r) <= n + fee[r]
    <3>1. CASE due'[r] = due[r]
      BY <1>1, <3>1 DEF ChargeInv, BoundInv
    <3>2. CASE pc[r] = "upstream"
      <4>1. reserving[r] = 0 /\ fee[r] = 0
        BY <1>1, <3>2, EntryTypes
        DEF RequestInv, StageInv, ChargeInv, BoundInv
      <4>2. /\ held[r]["preConsumed"] \in Asks(r)
            /\ Strayed(r) \/ Spent(r) <= held[r]["preConsumed"] + fee[r]
        BY <1>1, <3>2, <4>1, EntryTypes DEF ChargeInv, HoldInv
      <4> QED
        BY <4>2
    <3> QED
      BY <3>1, <3>2
  <2> QED
    BY <1>2, <1>3, <2>1, <2>2 DEF BoundInv
<1> QED
  BY <1>4, <1>5, <1>6 DEF ChargeInv

(* The token covers the call.                                               *)
LEMMA TokenCoveredBounded ==
    ASSUME TypeOK, SafeInv, Bounded, NEW r \in Requests, TokenCovered(r),
           pc[r] \in {"tokenRead", "tokenDebit"},
           UNCHANGED <<req, due, fee, faults>>,
           UNCHANGED ledger \/ Take(r, "token", TokenAsk(r))
    PROVE  ChargeInv(r)'
<1>1. /\ ledger'[r]["wallet"] = ledger[r]["wallet"]
      /\ ledger'[r]["subscription"] = ledger[r]["subscription"]
  <2>1. TokenAsk(r) \in Int /\ "token" \in Account
    BY AmountTypes DEF Account
  <2> QED
    BY <2>1, TakeEffect, EntryTypes
<1>2. pc'[r] = IF reserving[r] > 0 THEN "upstream" ELSE "fund"
  BY GotoEffect DEF TypeOK, TokenCovered
<1>3. UNCHANGED funding /\ reserving'[r] = 0
  BY DEF TokenCovered, TypeOK, SessionType
<1>4. held'[r]["preConsumed"] = held[r]["preConsumed"] + reserving[r]
  BY EntryTypes DEF TokenCovered, TypeOK, SessionType, Amount
<1>5. faults'[r] \in Nat /\ faults'[r] >= faults[r]
  BY FaultsGrow
<1> QED
  BY <1>1, <1>2, <1>3, <1>4, <1>5, SameSpent, EntryTypes

(* The token refuses: the session goes, or its Reserve is rolled back.      *)
LEMMA TokenRefusedBounded ==
    ASSUME TypeOK, SafeInv, Bounded, NEW r \in Requests, TokenRefused(r),
           pc[r] \in {"tokenRead", "tokenDebit"},
           UNCHANGED <<req, ledger, due, fee>>, UNCHANGED faults \/ Fault(r)
    PROVE  ChargeInv(r)'
<1>1. UNCHANGED reserving /\ faults'[r] \in Nat /\ faults'[r] >= faults[r]
  BY FaultsGrow DEF TokenRefused
<1>2. RequestInv(r)
  BY DEF SafeInv
<1>3. CASE reserving[r] > 0 /\ Goto(r, "reserveRollback")
           /\ UNCHANGED <<funding, flags, held>>
  <2>1. pc'[r] = "reserveRollback"
    BY <1>3, GotoEffect DEF TypeOK
  <2> QED
    BY <1>1, <1>3, <2>1, SameSpent
<1>4. CASE reserving[r] = 0 /\ Goto(r, "rejected") /\ Drop(r)
  <2>1. pc'[r] = "rejected"
    BY <1>4, GotoEffect DEF TypeOK
  <2>2. held'[r]["preConsumed"] = 0
    BY <1>4, StartEffect DEF TypeOK, Drop
  <2>3. held[r]["preConsumed"] = 0
    BY <1>2, <1>4 DEF RequestInv, NoteInv
  <2> QED
    BY <1>1, <1>4, <2>1, <2>2, <2>3, SameSpent
<1> QED
  BY <1>3, <1>4 DEF TokenRefused

(* Everything the handler does up to the funding source.                    *)
LEMMA AskBounded ==
    ASSUME TypeOK, SafeInv, Bounded, NEW r \in Requests,
           \/ Arrive(r) \/ ChooseFunding(r) \/ TryWallet(r) \/ TrySubscription(r)
           \/ ReadToken(r) \/ DebitToken(r) \/ RollbackToken(r) \/ Rejected(r)
    PROVE  ChargeInv(r)'
<1>1. RequestInv(r)
  BY DEF SafeInv
<1>2. CASE Arrive(r) \/ ChooseFunding(r) \/ Rejected(r)
  <2>1. /\ pc[r] \in {"waiting", "arrived", "rejected"}
        /\ UNCHANGED <<req, funding, held, reserving, ledger, due, fee>>
        /\ UNCHANGED faults \/ Fault(r)
    BY <1>2
    DEF Arrive, ChooseFunding, Rejected, Fault, requestVars, sessionVars, rowVars
  <2>2. pc'[r] \in Before \cup {"upstream", "done"}
    BY <1>2, GotoEffect DEF TypeOK, Arrive, ChooseFunding, Rejected, FirstSource
  <2>3. faults'[r] \in Nat /\ faults'[r] >= faults[r]
    BY <2>1, FaultsGrow
  <2> QED
    BY <2>1, <2>2, <2>3, SameSpent
<1>3. CASE TryWallet(r) \/ TrySubscription(r)
  <2>1. /\ pc[r] \in {"wallet", "subscription"}
        /\ UNCHANGED <<req, reserving, ledger, due, fee>>
        /\ UNCHANGED faults \/ Fault(r)
    BY <1>3 DEF TryWallet, TrySubscription, Fault, requestVars, rowVars
  <2>2. pc'[r] \in Before \cup Asking
    BY <1>3, GotoEffect DEF TypeOK, TryWallet, TrySubscription, FallsBackTo
  <2>3. reserving[r] = 0 /\ held[r]["preConsumed"] = 0
    BY <1>1, <2>1, EntryTypes DEF RequestInv, StageInv, NoteInv
  <2>4. held'[r]["preConsumed"] = 0
    BY <1>3, <2>3, StartEffect DEF TypeOK, TryWallet, TrySubscription
  <2>5. faults'[r] \in Nat /\ faults'[r] >= faults[r]
    BY <2>1, FaultsGrow
  <2> QED
    BY <2>1, <2>2, <2>3, <2>4, <2>5, SameSpent
<1>4. CASE ReadToken(r)
  <2>1. pc[r] = "tokenRead" /\ UNCHANGED <<req, due, fee>>
    BY <1>4 DEF ReadToken, requestVars
  <2>2. CASE TokenCovered(r) /\ UNCHANGED <<faults, ledger>>
    BY <2>1, <2>2, TokenCoveredBounded
  <2>3. CASE TokenRefused(r) /\ (UNCHANGED <<faults, ledger>> \/ Fault(r))
    BY <2>1, <2>3, TokenRefusedBounded DEF Fault
  <2>4. CASE /\ Goto(r, "tokenDebit")
             /\ UNCHANGED <<funding, flags, held, reserving, faults, ledger>>
    <3>1. pc'[r] = "tokenDebit"
      BY <2>4, GotoEffect DEF TypeOK
    <3>2. faults'[r] \in Nat /\ faults'[r] >= faults[r]
      BY <2>4, FaultsGrow
    <3> QED
      BY <2>1, <2>4, <3>1, <3>2, SameSpent
  <2> QED
    BY <1>4, <2>2, <2>3, <2>4 DEF ReadToken
<1>5. CASE DebitToken(r)
  <2>1. pc[r] = "tokenDebit" /\ UNCHANGED <<req, due, fee>>
    BY <1>5 DEF DebitToken, requestVars
  <2> QED
    BY <1>5, <2>1, TokenCoveredBounded, TokenRefusedBounded DEF DebitToken, Fault
<1>6. CASE RollbackToken(r)
  <2> DEFINE n == TokenPart(r, held[r]["tokenConsumed"])
  <2>1. /\ pc[r] = "rollback" /\ UNCHANGED <<req, reserving, due, fee>>
        /\ (Take(r, "token", -n) /\ UNCHANGED faults) \/ Fault(r)
    BY <1>6 DEF RollbackToken, requestVars
  <2>2. -n \in Int /\ "token" \in Account
    BY EntryTypes DEF TokenPart, Account
  <2> HIDE DEF n
  <2>3. /\ ledger'[r]["wallet"] = ledger[r]["wallet"]
        /\ ledger'[r]["subscription"] = ledger[r]["subscription"]
    BY <2>1, <2>2, TakeEffect, EntryTypes DEF Fault
  <2>4. pc'[r] \in {"subscription", "wallet", "rejected"}
    BY <1>6, GotoEffect DEF TypeOK, RollbackToken, FallsBackTo
  <2>5. held'[r]["preConsumed"] = 0
    BY <1>6, StartEffect DEF TypeOK, RollbackToken, Drop
  <2>6. reserving[r] = 0 /\ held[r]["preConsumed"] = 0
    BY <1>1, <2>1, EntryTypes DEF RequestInv, StageInv, NoteInv
  <2>7. faults'[r] \in Nat /\ faults'[r] >= faults[r]
    BY <2>1, FaultsGrow
  <2> QED
    BY <2>1, <2>3, <2>4, <2>5, <2>6, <2>7, SameSpent
<1> QED
  BY <1>2, <1>3, <1>4, <1>5, <1>6

(* What the funding source gives is what the session notes as held.         *)
LEMMA PreConsumeFundingBounded ==
    ASSUME TypeOK, SafeInv, Bounded, NEW r \in Requests, PreConsumeFunding(r)
    PROVE  ChargeInv(r)'
<1>1. /\ pc[r] = "fund"
      /\ UNCHANGED <<req, funding, flags, reserving, due, fee>>
  BY DEF PreConsumeFunding, requestVars
<1>2. RequestInv(r) /\ ChargeInv(r)
  BY DEF SafeInv, Bounded
<1>3. funding[r] \in Source /\ reserving[r] = 0
  BY <1>1, <1>2, EntryTypes DEF RequestInv, StageInv, Source
<1>4. CASE /\ Take(r, funding[r], Effective(r)) /\ Goto(r, "upstream")
           /\ held' = [held EXCEPT ![r]["fundConsumed"] = Effective(r),
                                   ![r]["preConsumed"]  = Effective(r)]
           /\ UNCHANGED faults
  <2>1. pc'[r] = "upstream" /\ held'[r]["preConsumed"] = Effective(r)
    BY <1>4, GotoEffect DEF TypeOK, SessionType, Amount
  <2>2. /\ ledger'[r]["wallet"] = ledger[r]["wallet"]
           + IF funding[r] = "wallet" THEN Effective(r) ELSE 0
        /\ ledger'[r]["subscription"] = ledger[r]["subscription"]
           + IF funding[r] = "subscription" THEN Effective(r) ELSE 0
    BY <1>3, <1>4, TakeEffect, EntryTypes DEF Account, Source
  <2>3. Spent(r) = 0 /\ fee[r] = 0
    BY <1>1, <1>2, <1>3 DEF ChargeInv, SourceInv, BoundInv
  <2>4. Spent(r)' = Effective(r)
    BY <1>3, <2>2, <2>3, EntryTypes DEF Spent, Source
  <2>5. Asks(r)' = Asks(r) /\ Effective(r) \in Asks(r)
    BY <1>1, AsksType DEF Asks, Estimate
  <2>6. SourceInv(r)'
    BY <1>1, <1>2, <2>1, <2>2, EntryTypes DEF ChargeInv, SourceInv
  <2>7. HoldInv(r)'
    BY <1>1, <1>3, <2>1, <2>4, <2>5, EntryTypes DEF HoldInv
  <2>8. BoundInv(r)'
    BY <1>1, <2>3, <2>4, <2>5, EntryTypes DEF BoundInv
  <2> QED
    BY <2>6, <2>7, <2>8 DEF ChargeInv
<1>5. CASE Goto(r, "rollback") /\ UNCHANGED <<held, ledger>>
           /\ (UNCHANGED faults \/ Fault(r))
  <2>1. pc'[r] = "rollback" /\ faults'[r] \in Nat /\ faults'[r] >= faults[r]
    BY <1>5, GotoEffect, FaultsGrow DEF TypeOK
  <2> QED
    BY <1>1, <1>5, <2>1, SameSpent
<1> QED
  BY <1>4, <1>5 DEF PreConsumeFunding, Fault

(* While an attempt runs, the exchange ends or the handler goes on to log.  *)
LEMMA AttemptBounded ==
    ASSUME TypeOK, SafeInv, Bounded, NEW r \in Requests,
           \/ AttemptFails(r) \/ AttemptSucceeds(r) \/ Log(r) \/ Panic(r)
           \/ Refund(r)
    PROVE  ChargeInv(r)'
<1>1. /\ UNCHANGED <<req, funding, held, reserving, ledger, fee, faults>>
      /\ due'[r] = due[r] \/ pc[r] = "upstream"
  BY DEF AttemptFails, AttemptSucceeds, Log, Panic, Refund, requestVars,
     sessionVars, rowVars
<1>2. faults'[r] \in Nat /\ faults'[r] >= faults[r]
  BY <1>1, FaultsGrow
<1>3. \/ pc[r] = "upstream"
         /\ pc'[r] \in {"upstream", "refund", "settleFund", "done"}
      \/ /\ pc[r] \in {"settleFund", "settleToken", "log", "refund"}
         /\ pc'[r] \in {"refund", "fee", "done"}
  BY GotoEffect DEF AttemptFails, AttemptSucceeds, Log, Panic, Refund, TypeOK
<1> QED
  BY <1>1, <1>2, <1>3, SameSpent

LEMMA ReserveBounded ==
    ASSUME TypeOK, SafeInv, Bounded, NEW r \in Requests,
           NEW t \in ReserveTargets, Reserve(r, t)
    PROVE  ChargeInv(r)'
<1> DEFINE delta == t - held[r]["preConsumed"]
<1>1. /\ pc[r] = "upstream" /\ funding[r] \in Source
      /\ delta \in Int /\ delta > 0
      /\ UNCHANGED <<req, funding, due, fee, faults>>
  BY EntryTypes, AmountsAssumption DEF Reserve, requestVars, Source
<1>2. RequestInv(r) /\ ChargeInv(r)
  BY DEF SafeInv, Bounded
<1>3. pc'[r] = "tokenRead" /\ reserving'[r] = delta
  BY GotoEffect DEF TypeOK, SessionType, Reserve
<1>4. /\ ledger'[r]["wallet"] = ledger[r]["wallet"]
         + IF funding[r] = "wallet" THEN delta ELSE 0
      /\ ledger'[r]["subscription"] = ledger[r]["subscription"]
         + IF funding[r] = "subscription" THEN delta ELSE 0
  <2>1. Take(r, funding[r], delta) /\ funding[r] \in Account
    BY <1>1 DEF Reserve, Account
  <2> HIDE DEF delta
  <2> QED
    BY <1>1, <2>1, TakeEffect, EntryTypes DEF Source
<1>5. held'[r]["preConsumed"] = held[r]["preConsumed"]
  BY DEF Reserve, NoteReserve, TypeOK, SessionType, Amount
<1>6. held[r]["preConsumed"] + delta = t /\ t \in Nat
  BY EntryTypes, AmountsAssumption
<1>7. reserving[r] = 0 /\ fee[r] = 0
  BY <1>1, <1>2, EntryTypes DEF RequestInv, StageInv, ChargeInv, BoundInv
<1> HIDE DEF delta
<1>8. Spent(r)' = Spent(r) + delta
  BY <1>1, <1>4, EntryTypes DEF Spent, Source
<1>9. /\ Asks(r)' = Asks(r) /\ t \in Asks(r) /\ ReserveTargets # {}
      /\ Strayed(r)' = Strayed(r)
  BY <1>1 DEF Asks, Estimate, Strayed
<1>10. ~Strayed(r) => Spent(r) = held[r]["preConsumed"]
  BY <1>1, <1>2, <1>7, EntryTypes DEF ChargeInv, HoldInv
<1>11. SourceInv(r)'
  BY <1>1, <1>2, <1>3, <1>4, EntryTypes DEF ChargeInv, SourceInv
<1>12. HoldInv(r)'
  BY <1>2, <1>3, <1>5, <1>6, <1>8, <1>9, <1>10, EntryTypes
  DEF ChargeInv, HoldInv
<1>13. BoundInv(r)'
  BY <1>1, <1>6, <1>7, <1>8, <1>9, <1>10, EntryTypes DEF BoundInv
<1> QED
  BY <1>11, <1>12, <1>13 DEF ChargeInv

(* A rollback that fails leaves the request strayed.                        *)
LEMMA RollbackReserveBounded ==
    ASSUME TypeOK, SafeInv, Bounded, NEW r \in Requests, RollbackReserve(r)
    PROVE  ChargeInv(r)'
<1>1. /\ pc[r] = "reserveRollback"
      /\ UNCHANGED <<req, funding, due, fee>>
  BY DEF RollbackReserve, requestVars
<1>2. RequestInv(r) /\ ChargeInv(r)
  BY DEF SafeInv, Bounded
<1>3. pc'[r] = "upstream" /\ reserving'[r] = 0
  BY GotoEffect DEF RollbackReserve, TypeOK, SessionType
<1>4. /\ funding[r] \in Source /\ reserving[r] > 0 /\ fee[r] = 0
      /\ ReserveTargets # {} /\ held[r]["preConsumed"] \in Asks(r)
  BY <1>1, <1>2, EntryTypes
  DEF RequestInv, StageInv, Source, ChargeInv, HoldInv, BoundInv
<1>5. Asks(r)' = Asks(r)
  BY <1>1 DEF Asks, Estimate
<1>6. held'[r]["preConsumed"] = held[r]["preConsumed"]
  BY DEF RollbackReserve, NoteReserve, TypeOK, SessionType, Amount
<1>7. CASE Take(r, funding[r], -reserving[r]) /\ UNCHANGED faults
  <2>1. -reserving[r] \in Int /\ funding[r] \in Account
    BY <1>4, EntryTypes DEF Account
  <2>2. /\ ledger'[r]["wallet"] = ledger[r]["wallet"]
           - IF funding[r] = "wallet" THEN reserving[r] ELSE 0
        /\ ledger'[r]["subscription"] = ledger[r]["subscription"]
           - IF funding[r] = "subscription" THEN reserving[r] ELSE 0
    BY <1>4, <1>7, <2>1, TakeEffect, EntryTypes DEF Source
  <2>3. Spent(r)' = Spent(r) - reserving[r] /\ Strayed(r)' = Strayed(r)
    BY <1>4, <1>7, <2>2, EntryTypes DEF Spent, Source, Strayed
  <2>4. ~Strayed(r) => Spent(r) - reserving[r] = held[r]["preConsumed"]
    BY <1>1, <1>2, EntryTypes DEF ChargeInv, HoldInv, Spent
  <2>5. SourceInv(r)'
    BY <1>1, <1>2, <1>3, <1>4, <2>2, EntryTypes DEF ChargeInv, SourceInv
  <2>6. HoldInv(r)'
    BY <1>3, <1>4, <1>5, <1>6, <2>3, <2>4, EntryTypes DEF HoldInv
  <2>7. BoundInv(r)'
    BY <1>1, <1>4, <1>5, <2>3, <2>4, EntryTypes DEF BoundInv
  <2> QED
    BY <2>5, <2>6, <2>7 DEF ChargeInv
<1>8. CASE Fault(r)
  <2>1. Strayed(r)' /\ UNCHANGED ledger
    BY <1>4, <1>8, FaultEffect DEF Strayed
  <2> QED
    BY <1>1, <1>2, <1>3, <1>4, <1>5, <1>6, <2>1, EntryTypes
    DEF ChargeInv, SourceInv, HoldInv, BoundInv
<1> QED
  BY <1>7, <1>8 DEF RollbackReserve

(* The difference takes what the request has paid to what it came to.       *)
LEMMA SettleFundingBounded ==
    ASSUME TypeOK, SafeInv, Bounded, NEW r \in Requests, SettleFunding(r)
    PROVE  ChargeInv(r)'
<1>1. /\ pc[r] = "settleFund"
      /\ UNCHANGED <<req, funding, held, reserving, due, fee>>
  BY DEF SettleFunding, requestVars
<1>2. RequestInv(r) /\ ChargeInv(r)
  BY DEF SafeInv, Bounded
<1>3. reserving[r] = 0 /\ fee[r] = 0
  BY <1>1, <1>2, EntryTypes DEF RequestInv, StageInv, ChargeInv, BoundInv
<1>4. pc'[r] \in {"settleToken", "log"}
  BY GotoEffect DEF SettleFunding, TypeOK
<1>5. CASE Take(r, Payer(r), Delta(r)) /\ UNCHANGED faults
  <2>1. /\ Delta(r) = due[r] - held[r]["preConsumed"] /\ Delta(r) \in Int
        /\ Payer(r) = (IF funding[r] = "none" THEN "wallet" ELSE funding[r])
        /\ Payer(r) \in Account
    BY EntryTypes DEF Delta, Payer, Direct, Account, Source
  <2>2. /\ ledger'[r]["wallet"] = ledger[r]["wallet"]
           + IF Payer(r) = "wallet" THEN Delta(r) ELSE 0
        /\ ledger'[r]["subscription"] = ledger[r]["subscription"]
           + IF Payer(r) = "subscription" THEN Delta(r) ELSE 0
    BY <1>5, <2>1, TakeEffect, EntryTypes
  <2>3. Spent(r)' = Spent(r) + Delta(r) /\ Strayed(r)' = Strayed(r)
    BY <1>5, <2>1, <2>2, EntryTypes DEF Spent, Strayed
  <2>4. ~Strayed(r) => Spent(r) + Delta(r) = due[r]
    BY <1>1, <1>2, <1>3, <2>1, EntryTypes DEF ChargeInv, HoldInv, Spent
  <2>5. Asks(r)' = Asks(r)
    BY <1>1 DEF Asks, Estimate
  <2>6. SourceInv(r)'
    BY <1>1, <1>2, <1>4, <2>1, <2>2, EntryTypes DEF ChargeInv, SourceInv
  <2>7. HoldInv(r)'
    BY <1>1, <1>2, <1>3, <1>4, <2>5 DEF ChargeInv, HoldInv
  <2>8. BoundInv(r)'
    <3>1. Strayed(r)' \/ Spent(r)' <= due'[r] + fee'[r]
      BY <1>1, <1>3, <2>3, <2>4, EntryTypes
    <3> QED
      BY <1>1, <1>3, <3>1 DEF BoundInv
  <2> QED
    BY <2>6, <2>7, <2>8 DEF ChargeInv
<1>6. CASE UNCHANGED ledger /\ (UNCHANGED faults \/ Fault(r))
  <2>1. faults'[r] \in Nat /\ faults'[r] >= faults[r]
    BY <1>6, FaultsGrow
  <2> QED
    BY <1>1, <1>4, <1>6, <2>1, SameSpent
<1> QED
  BY <1>5, <1>6 DEF SettleFunding, Fault

(* The token and the limits are no source.                                  *)
LEMMA TokenStepBounded ==
    ASSUME TypeOK, SafeInv, Bounded, NEW r \in Requests,
           SettleToken(r) \/ ChargeFeeToken(r)
    PROVE  ChargeInv(r)'
<1>1. /\ UNCHANGED <<req, funding, held, reserving, due, fee>>
      /\ \/ pc[r] = "settleToken" /\ pc'[r] = "log"
         \/ pc[r] = "feeToken" /\ pc'[r] = "done"
  BY GotoEffect DEF SettleToken, ChargeFeeToken, requestVars, sessionVars, TypeOK
<1>2. faults'[r] \in Nat /\ faults'[r] >= faults[r]
  BY FaultsGrow DEF SettleToken, ChargeFeeToken
<1>3. /\ ledger'[r]["wallet"] = ledger[r]["wallet"]
      /\ ledger'[r]["subscription"] = ledger[r]["subscription"]
  <2>1. CASE UNCHANGED ledger
    BY <2>1
  <2>2. ASSUME NEW m \in Int, NEW n \in Int,
               ledger' = [ledger EXCEPT ![r]["token"] = @ + m,
                                        ![r]["limit"] = @ + n]
        PROVE  /\ ledger'[r]["wallet"] = ledger[r]["wallet"]
               /\ ledger'[r]["subscription"] = ledger[r]["subscription"]
    BY <2>2, ChargeEffect DEF TypeOK
  <2>3. /\ Delta(r) \in Int /\ TokenPart(r, Delta(r)) \in Int
        /\ (IF Direct(r) THEN Delta(r) ELSE 0) \in Int
        /\ Fee \in Int /\ TokenPart(r, Fee) \in Int
    BY AmountTypes, AmountsAssumption
  <2> QED
    BY <2>1, <2>2, <2>3 DEF SettleToken, ChargeFeeToken, Fault
<1> QED
  BY <1>1, <1>2, <1>3, SameSpent

(* What the goroutine gives back only lowers what the request has paid.     *)
LEMMA GoroutineBounded ==
    ASSUME TypeOK, SafeInv, Bounded, NEW r \in Requests, Goroutine(r)
    PROVE  ChargeInv(r)'
<1> DEFINE
      Lowers(n) ==
          /\ ledger'[r]["wallet"] = ledger[r]["wallet"]
               - IF funding[r] = "wallet" THEN n ELSE 0
          /\ ledger'[r]["subscription"] = ledger[r]["subscription"]
               - IF funding[r] = "subscription" THEN n ELSE 0
<1>1. /\ bg[r] \in {"funding", "again", "last", "extra", "token"}
      /\ UNCHANGED <<req, pc, funding, held, reserving, due, fee>>
      /\ UNCHANGED faults \/ faults' = [faults EXCEPT ![r] = @ + 1]
  BY DEF Goroutine, RefundFunding, RefundWallet, RefundSubscription,
     LateFault, Fault, RefundExtra, RefundToken, GiveBack, requestVars,
     sessionVars
<1>2. RequestInv(r) /\ ChargeInv(r)
  BY DEF SafeInv, Bounded
<1>3. /\ funding[r] \in Source /\ pc[r] \in Over
      /\ reserving[r] > 0 => pc[r] = "crashed"
  BY <1>1, <1>2, EntryTypes DEF RequestInv, StageInv, Source
<1>4. faults'[r] \in Nat /\ faults'[r] >= faults[r]
  BY <1>1, FaultsGrow
<1>5. \E n \in Nat : Lowers(n)
  <2>1. CASE UNCHANGED ledger
    <3>1. Lowers(0)
      BY <2>1, EntryTypes
    <3> QED
      BY <3>1
  <2>2. ASSUME NEW a \in {funding[r], "token"}, NEW n \in Int, Take(r, a, -n),
               a = "token" \/ n >= 0
        PROVE  \E m \in Nat : Lowers(m)
    <3>1. -n \in Int /\ a \in Account
      BY <1>3 DEF Account
    <3>2. /\ ledger'[r]["wallet"] = ledger[r]["wallet"]
              + IF a = "wallet" THEN -n ELSE 0
          /\ ledger'[r]["subscription"] = ledger[r]["subscription"]
              + IF a = "subscription" THEN -n ELSE 0
      BY <2>2, <3>1, TakeEffect
    <3>3. CASE a = "token"
      <4>1. Lowers(0)
        BY <3>2, <3>3, EntryTypes
      <4> QED
        BY <4>1
    <3>4. CASE a = funding[r] /\ n >= 0
      <4>1. Lowers(n)
        BY <1>3, <3>2, <3>4, EntryTypes DEF Source
      <4> QED
        BY <3>4, <4>1
    <3> QED
      BY <2>2, <3>3, <3>4
  <2>3. /\ RefundAmount(r) \in Int /\ RefundAmount(r) >= 0
        /\ Extra(r) \in Int /\ Extra(r) >= 0
        /\ TokenPart(r, held[r]["tokenConsumed"]) \in Int
    BY <1>2, EntryTypes DEF RefundAmount, TokenPart, RequestInv, NoteInv
  <2> QED
    BY <2>1, <2>2, <2>3
    DEF Goroutine, RefundFunding, RefundWallet, RefundSubscription, LateFault,
     RefundExtra, RefundToken, GiveBack, Fault
<1>6. ASSUME NEW n \in Nat, Lowers(n)
      PROVE  ChargeInv(r)'
  <2>1. Spent(r)' <= Spent(r) /\ Spent(r)' \in Int /\ Spent(r) \in Int
    BY <1>3, <1>6, EntryTypes DEF Spent, Source
  <2>2. /\ Asks(r)' = Asks(r) /\ (Strayed(r) => Strayed(r)')
        /\ Asks(r) \cup {due[r]} \subseteq Nat /\ fee[r] \in Nat
    BY <1>1, <1>4, AsksType, EntryTypes, FeeType DEF Asks, Estimate, Strayed
  <2>3. SourceInv(r)'
    BY <1>1, <1>2, <1>3, <1>6, EntryTypes DEF ChargeInv, SourceInv
  <2>4. HoldInv(r)'
    BY <1>1, <1>2, <1>3, <2>2 DEF ChargeInv, HoldInv
  <2>5. BoundInv(r)'
    <3>1. ASSUME NEW m \in Asks(r) \cup {due[r]}, Spent(r) <= m + fee[r]
          PROVE  Spent(r)' <= m + fee[r]
      BY <2>1, <2>2, <3>1
    <3> QED
      BY <1>1, <1>2, <2>2, <3>1 DEF ChargeInv, BoundInv
  <2> QED
    BY <2>3, <2>4, <2>5 DEF ChargeInv
<1> QED
  BY <1>5, <1>6

LEMMA ChargeFeeBounded ==
    ASSUME TypeOK, SafeInv, Bounded, NEW r \in Requests, ChargeFee(r)
    PROVE  ChargeInv(r)'
<1>1. /\ pc[r] = "fee"
      /\ UNCHANGED <<req, funding, held, reserving, due>>
  BY DEF ChargeFee, requestVars, sessionVars
<1>2. RequestInv(r) /\ ChargeInv(r)
  BY DEF SafeInv, Bounded
<1>3. pc'[r] \in {"feeToken", "done"} /\ reserving[r] = 0 /\ fee[r] = 0
  BY <1>1, <1>2, GotoEffect, EntryTypes
  DEF ChargeFee, TypeOK, RequestInv, StageInv, ChargeInv, BoundInv
<1>4. CASE /\ Take(r, Payer(r), Fee) /\ fee' = [fee EXCEPT ![r] = Fee]
           /\ UNCHANGED faults
  <2>1. /\ Payer(r) = (IF funding[r] = "none" THEN "wallet" ELSE funding[r])
        /\ Payer(r) \in Account /\ Fee \in Nat /\ fee'[r] = Fee
    BY <1>4, EntryTypes, AmountsAssumption
    DEF Payer, Direct, Account, Source, TypeOK, RowType
  <2>2. /\ ledger'[r]["wallet"] = ledger[r]["wallet"]
           + IF Payer(r) = "wallet" THEN Fee ELSE 0
        /\ ledger'[r]["subscription"] = ledger[r]["subscription"]
           + IF Payer(r) = "subscription" THEN Fee ELSE 0
    BY <1>4, <2>1, TakeEffect, EntryTypes
  <2>3. Spent(r)' = Spent(r) + Fee /\ Spent(r) \in Int
    BY <2>1, <2>2, EntryTypes DEF Spent
  <2>4. /\ Asks(r)' = Asks(r) /\ Strayed(r)' = Strayed(r)
        /\ Asks(r) \cup {due[r]} \subseteq Nat
    BY <1>1, <1>4, AsksType, EntryTypes DEF Asks, Estimate, Strayed
  <2>5. SourceInv(r)'
    BY <1>1, <1>2, <1>3, <2>1, <2>2, EntryTypes DEF ChargeInv, SourceInv
  <2>6. HoldInv(r)'
    BY <1>1, <1>2, <1>3, <2>4 DEF ChargeInv, HoldInv
  <2>7. BoundInv(r)'
    <3>1. ASSUME NEW n \in Asks(r) \cup {due[r]}, Spent(r) <= n + fee[r]
          PROVE  Spent(r)' <= n + fee'[r]
      BY <1>3, <2>1, <2>3, <2>4, <3>1
    <3> QED
      BY <1>1, <1>2, <1>3, <2>4, <3>1 DEF ChargeInv, BoundInv
  <2> QED
    BY <2>5, <2>6, <2>7 DEF ChargeInv
<1>5. CASE UNCHANGED <<fee, ledger>> /\ (UNCHANGED faults \/ Fault(r))
  <2>1. faults'[r] \in Nat /\ faults'[r] >= faults[r]
    BY <1>5, FaultsGrow
  <2> QED
    BY <1>1, <1>3, <1>5, <2>1, SameSpent
<1> QED
  BY <1>4, <1>5 DEF ChargeFee, Fault

(* A killed handler leaves the rows as they are.                            *)
LEMMA CrashBounded ==
    ASSUME TypeOK, SafeInv, Bounded, Crash
    PROVE  Bounded'
<1> SUFFICES ASSUME NEW r \in Requests
             PROVE  ChargeInv(r)'
  BY DEF Bounded
<1>1. UNCHANGED <<req, funding, held, reserving, ledger, due, fee, faults>>
  BY DEF Crash, requestVars, sessionVars, rowVars
<1>2. pc'[r] = pc[r] \/ pc'[r] = "crashed"
  BY DEF Crash
<1>3. faults'[r] \in Nat /\ faults'[r] >= faults[r]
  BY <1>1, FaultsGrow
<1> QED
  BY <1>1, <1>2, <1>3, SameSpent

-----------------------------------------------------------------------------
LEMMA BoundedInit ==
    ASSUME Init
    PROVE  Bounded
<1> SUFFICES ASSUME NEW r \in Requests
             PROVE  ChargeInv(r)
  BY DEF Bounded
<1>1. /\ pc[r] = "waiting" /\ funding[r] = "none" /\ due[r] = 0
      /\ reserving[r] = 0 /\ fee[r] = 0
      /\ ledger[r]["wallet"] = 0 /\ ledger[r]["subscription"] = 0
      /\ held[r]["preConsumed"] = 0
  BY DEF Init, Account, Source, Amount
<1> QED
  BY <1>1 DEF ChargeInv, SourceInv, HoldInv, BoundInv, Asks, Spent

LEMMA BoundedStep ==
    ASSUME TypeOK, SafeInv, Bounded, [Next]_vars
    PROVE  Bounded'
<1>1. CASE Crash
  BY <1>1, CrashBounded
<1>2. ASSUME NEW r \in Requests,
             Arrive(r) \/ Handler(r) \/ Panic(r) \/ Goroutine(r)
      PROVE  Bounded'
  <2>1. Alone(r)
    BY <1>2, OneRequest DEF Alone
  <2>2. ChargeInv(r)'
    BY <1>2, AskBounded, PreConsumeFundingBounded, AttemptBounded,
       ReserveBounded, RollbackReserveBounded, SettleFundingBounded,
       TokenStepBounded, ChargeFeeBounded, GoroutineBounded
    DEF Handler
  <2> QED
    BY <2>1, <2>2, BoundedLocality
<1>3. CASE UNCHANGED vars
  <2>1. UNCHANGED <<req, pc, funding, held, reserving, ledger, due, fee, faults>>
    BY <1>3 DEF vars, requestVars, sessionVars, rowVars
  <2> QED
    BY <2>1 DEF Bounded, ChargeInv, SourceInv, HoldInv, BoundInv, Strayed, Asks,
       Spent, Estimate
<1> QED
  BY <1>1, <1>2, <1>3 DEF Next

(* Whatever fails and whenever the process dies, one request never costs    *)
(* both sources, nor more than the largest of what was asked to be held and *)
(* what the response came to, plus the fee (NewBillingSession, preConsume,  *)
(* Settle).                                                                 *)
THEOREM ChargeBounded == Spec => []NeverOvercharged
<1>1. Init => Bounded
  BY BoundedInit
<1>2. TypeOK /\ SafeInv /\ Bounded /\ [Next]_vars => Bounded'
  BY BoundedStep
<1>3. ASSUME TypeOK, Bounded
      PROVE  NeverOvercharged
  <2> SUFFICES ASSUME NEW r \in Requests
               PROVE  /\ \E a \in Source : ledger[r][a] = 0
                      /\ \/ \E n \in {1, due[r], Estimate(r)} \cup ReserveTargets :
                               Spent(r) <= n + fee[r]
                         \/ ReserveTargets # {} /\ faults[r] > 0
    BY DEF NeverOvercharged
  <2>1. ChargeInv(r)
    BY <1>3 DEF Bounded
  <2>2. \E a \in Source : ledger[r][a] = 0
    BY <1>3, <2>1, EntryTypes DEF ChargeInv, SourceInv, Source
  <2>3. CASE ~Strayed(r)
    <3>1. PICK n \in Asks(r) \cup {due[r]} : Spent(r) <= n + fee[r]
      BY <2>1, <2>3 DEF ChargeInv, BoundInv
    <3>2. Spent(r) \in Int /\ fee[r] \in Nat
      BY <1>3, EntryTypes, FeeType DEF Spent
    <3>3. n = 0 => Spent(r) <= 1 + fee[r]
      BY <3>1, <3>2
    <3> QED
      BY <2>2, <3>1, <3>3 DEF Asks
  <2> QED
    BY <2>2, <2>3 DEF Strayed
<1> QED
  BY <1>1, <1>2, <1>3, Safety, PTL DEF Spec

-----------------------------------------------------------------------------
(* BillingSession implements ChargeContract when nothing is disturbed: what *)
(* a request costs net of what is held is then a function of the decision   *)
(* taken on it, and no step but the deciding ones changes that decision.    *)

Undisturbed == MaxFaults = 0 /\ MayPanic = FALSE /\ MayCrash = FALSE

(* What ExactInv does not say because it is about disturbed requests too.   *)
CalmInv(r) ==
    /\ outcome[r] # "panicked" /\ pc[r] # "crashed" /\ bg[r] # "crashed"
    /\ pc[r] = "done" => outcome[r] # "open"
    /\ outcome[r] = "served" => due[r] \in Costs
    /\ "trusted" \in flags[r] => funding[r] = "wallet"
    /\ funding[r] = "subscription" /\ (pc[r] \in Unsettled \/ reserving[r] > 0) =>
          held[r]["preConsumed"] > 0
    /\ funding[r] = "none" => held[r]["fundConsumed"] = 0
    /\ FundingSettled(r) => /\ funding[r] # "none"
                            /\ pc[r] = "settleToken" \/ Settled(r)
    /\ pc[r] = "settleToken" /\ funding[r] # "none" => FundingSettled(r)
Calm == \A r \in Requests : CalmInv(r)

LEMMA NoFault ==
    ASSUME TypeOK, Undisturbed, NEW r \in Requests
    PROVE  faults[r] = 0 /\ ~Fault(r)
BY DEF TypeOK, RowType, Undisturbed, Fault

LEMMA CalmLocality ==
    ASSUME Calm, NEW r \in Requests, CalmInv(r)', Alone(r)
    PROVE  Calm'
<1> SUFFICES ASSUME NEW q \in Requests, q # r
             PROVE  CalmInv(q)'
  BY DEF Calm
<1>1. /\ CalmInv(q)
      /\ UNCHANGED <<pc[q], bg[q], funding[q], flags[q], held[q], reserving[q]>>
      /\ UNCHANGED <<outcome[q], due[q]>>
  BY DEF Calm, Alone, State, Tally
<1> QED
  BY <1>1 DEF CalmInv

LEMMA BeforeCalm ==
    ASSUME TypeOK, SafeInv, Calm, Undisturbed, NEW r \in Requests,
           \/ Arrive(r) \/ ChooseFunding(r) \/ Rejected(r) \/ TryWallet(r)
           \/ TrySubscription(r)
    PROVE  CalmInv(r)'
<1>1. RequestInv(r) /\ CalmInv(r) /\ ~Fault(r)
  BY NoFault DEF SafeInv, Calm
<1>2. /\ pc[r] \in Before /\ UNCHANGED <<bg, reserving, due>>
      /\ funding[r] = "none" /\ ~(reserving[r] > 0) /\ ~FundingSettled(r)
  BY <1>1 DEF Arrive, ChooseFunding, Rejected, TryWallet, TrySubscription,
     requestVars, sessionVars, rowVars, RequestInv, StageInv
<1>3. CASE /\ UNCHANGED <<funding, flags, held>>
           /\ \/ pc'[r] \in Before \cup {"upstream"} /\ UNCHANGED outcome
              \/ pc'[r] = "done" /\ outcome'[r] = "rejected"
  BY <1>1, <1>2, <1>3 DEF CalmInv
<1>4. ASSUME NEW s \in Source, NEW f \in SUBSET {"trusted"}, Start(r, s, f),
             s = "wallet" \/ f = {},
             pc'[r] \in {"fund", "tokenRead"}, UNCHANGED outcome
      PROVE  CalmInv(r)'
  <2>1. /\ funding'[r] = s /\ flags'[r] = f
        /\ held'[r]["fundConsumed"] = 0
    BY <1>4, StartEffect DEF TypeOK
  <2> QED
    BY <1>1, <1>2, <1>4, <2>1 DEF CalmInv, Source
<1>5. CASE Arrive(r) \/ ChooseFunding(r) \/ Rejected(r)
  <2>1. UNCHANGED <<funding, flags, held>>
    BY <1>5 DEF Arrive, ChooseFunding, Rejected, sessionVars
  <2>2. \/ pc'[r] \in Before \cup {"upstream"} /\ UNCHANGED outcome
        \/ pc'[r] = "done" /\ outcome'[r] = "rejected"
    BY <1>5, GotoEffect DEF Arrive, ChooseFunding, Rejected, FirstSource, TypeOK,
       RequestType, requestVars
  <2> QED
    BY <1>3, <2>1, <2>2
<1>6. CASE TryWallet(r)
  <2>1. UNCHANGED outcome
    BY <1>6 DEF TryWallet, requestVars
  <2>2. CASE Start(r, "wallet", IF Trusts(r) THEN {"trusted"} ELSE {})
             /\ Goto(r, IF Trusts(r) \/ Estimate(r) = 0 THEN "fund" ELSE "tokenRead")
    <3>1. pc'[r] \in {"fund", "tokenRead"}
      BY <2>2, GotoEffect DEF TypeOK
    <3>2. /\ (IF Trusts(r) THEN {"trusted"} ELSE {}) \in SUBSET {"trusted"}
          /\ "wallet" \in Source
      BY DEF Source
    <3> QED
      BY <1>4, <2>1, <2>2, <3>1, <3>2
  <2>3. CASE Goto(r, FallsBackTo(r, "wallet")) /\ UNCHANGED <<funding, flags, held>>
    <3>1. pc'[r] \in {"subscription", "wallet", "rejected"}
      BY <2>3, GotoEffect DEF TypeOK, FallsBackTo
    <3> QED
      BY <1>3, <2>1, <2>3, <3>1
  <2> QED
    BY <1>1, <1>6, <2>2, <2>3 DEF TryWallet
<1>7. CASE TrySubscription(r)
  <2>1. /\ Start(r, "subscription", {}) /\ UNCHANGED outcome
        /\ pc'[r] = "tokenRead" /\ "subscription" \in Source
    BY <1>7, GotoEffect DEF TrySubscription, requestVars, TypeOK, Source
  <2> QED
    BY <1>4, <2>1
<1> QED
  BY <1>5, <1>6, <1>7

LEMMA AskingCalm ==
    ASSUME TypeOK, SafeInv, Calm, Undisturbed, NEW r \in Requests,
           ReadToken(r) \/ DebitToken(r) \/ PreConsumeFunding(r) \/ RollbackToken(r)
    PROVE  CalmInv(r)'
<1>1. RequestInv(r) /\ CalmInv(r) /\ ~Fault(r)
  BY NoFault DEF SafeInv, Calm
<1>2. /\ pc[r] \in Asking /\ UNCHANGED <<bg, due, outcome>>
      /\ funding[r] # "none" /\ ~FundingSettled(r)
  BY <1>1 DEF ReadToken, DebitToken, PreConsumeFunding, RollbackToken,
     requestVars, RequestInv, StageInv
<1>3. ASSUME Drop(r), UNCHANGED reserving, reserving[r] = 0, pc'[r] \in Before
      PROVE  CalmInv(r)'
  <2>1. funding'[r] = "none" /\ flags'[r] = {} /\ held'[r]["fundConsumed"] = 0
    BY <1>3, StartEffect DEF TypeOK, Drop
  <2> QED
    BY <1>1, <1>2, <1>3, <2>1 DEF CalmInv
<1>4. ASSUME TokenCovered(r)
      PROVE  CalmInv(r)'
  <2>1. /\ UNCHANGED <<funding, flags>> /\ reserving'[r] = 0
        /\ pc'[r] = IF reserving[r] > 0 THEN "upstream" ELSE "fund"
    BY <1>4, GotoEffect DEF TokenCovered, TypeOK, SessionType
  <2>2. held'[r]["preConsumed"] = held[r]["preConsumed"] + reserving[r]
    BY <1>4, EntryTypes DEF TokenCovered, TypeOK, SessionType, Amount
  <2> QED
    BY <1>1, <1>2, <2>1, <2>2, EntryTypes DEF CalmInv
<1>5. ASSUME TokenRefused(r)
      PROVE  CalmInv(r)'
  <2>1. CASE reserving[r] > 0 /\ Goto(r, "reserveRollback")
             /\ UNCHANGED <<funding, flags, held>>
    <3>1. pc'[r] = "reserveRollback" /\ UNCHANGED reserving
      BY <1>5, <2>1, GotoEffect DEF TokenRefused, TypeOK
    <3> QED
      BY <1>1, <1>2, <2>1, <3>1 DEF CalmInv
  <2>2. CASE reserving[r] = 0 /\ Goto(r, "rejected") /\ Drop(r)
    <3>1. pc'[r] = "rejected" /\ UNCHANGED reserving
      BY <1>5, <2>2, GotoEffect DEF TokenRefused, TypeOK
    <3> QED
      BY <1>3, <2>2, <3>1
  <2> QED
    BY <1>5, <2>1, <2>2 DEF TokenRefused
<1>6. CASE ReadToken(r)
  <2>1. CASE Goto(r, "tokenDebit") /\ UNCHANGED <<funding, flags, held, reserving>>
    <3>1. pc'[r] = "tokenDebit"
      BY <2>1, GotoEffect DEF TypeOK
    <3> QED
      BY <1>1, <1>2, <2>1, <3>1 DEF CalmInv
  <2> QED
    BY <1>1, <1>4, <1>5, <1>6, <2>1 DEF ReadToken
<1>7. CASE DebitToken(r)
  BY <1>1, <1>4, <1>5, <1>7 DEF DebitToken
<1>8. CASE PreConsumeFunding(r)
  <2>1. UNCHANGED <<funding, flags, reserving>> /\ ~(reserving[r] > 0)
    BY <1>1, <1>8 DEF PreConsumeFunding, RequestInv, StageInv
  <2>2. CASE /\ Goto(r, "upstream")
             /\ held' = [held EXCEPT ![r]["fundConsumed"] = Effective(r),
                                     ![r]["preConsumed"]  = Effective(r)]
    <3>1. pc'[r] = "upstream" /\ held'[r]["preConsumed"] = Effective(r)
      BY <2>2, GotoEffect DEF TypeOK, SessionType, Amount
    <3>2. funding[r] = "subscription" => Effective(r) > 0
      BY <1>1, AmountTypes DEF CalmInv, Effective
    <3> QED
      BY <1>1, <1>2, <2>1, <3>1, <3>2 DEF CalmInv
  <2>3. CASE Goto(r, "rollback") /\ UNCHANGED held
    <3>1. pc'[r] = "rollback"
      BY <2>3, GotoEffect DEF TypeOK
    <3> QED
      BY <1>1, <1>2, <2>1, <2>3, <3>1 DEF CalmInv
  <2> QED
    BY <1>1, <1>8, <2>2, <2>3 DEF PreConsumeFunding
<1>9. CASE RollbackToken(r)
  <2>1. pc'[r] \in Before /\ Drop(r) /\ UNCHANGED reserving
    BY <1>9, GotoEffect DEF TypeOK, RollbackToken, FallsBackTo
  <2>2. reserving[r] = 0
    BY <1>1, <1>9, EntryTypes DEF RollbackToken, RequestInv, StageInv
  <2> QED
    BY <1>3, <2>1, <2>2
<1> QED
  BY <1>6, <1>7, <1>8, <1>9

LEMMA UpstreamCalm ==
    ASSUME TypeOK, SafeInv, Exact, Calm, Undisturbed, NEW r \in Requests,
           \/ AttemptFails(r) \/ AttemptSucceeds(r) \/ RollbackReserve(r)
           \/ \E t \in ReserveTargets : Reserve(r, t)
    PROVE  CalmInv(r)'
<1>1. RequestInv(r) /\ CalmInv(r) /\ ~Fault(r) /\ OutcomeInv(r)
  BY NoFault DEF SafeInv, Calm, Exact, ExactInv
<1>2. /\ pc[r] \in {"upstream", "reserveRollback"} /\ outcome[r] = "open"
      /\ UNCHANGED <<bg, funding, flags>> /\ ~FundingSettled(r)
  BY <1>1 DEF AttemptFails, AttemptSucceeds, RollbackReserve, Reserve,
     requestVars, sessionVars, OutcomeInv, RequestInv, StageInv
<1>3. CASE AttemptFails(r)
  <2>1. /\ UNCHANGED <<held, reserving, due>>
        /\ \/ pc'[r] = pc[r] /\ UNCHANGED outcome
           \/ pc'[r] = "refund" /\ outcome'[r] = "failed"
    BY <1>3, GotoEffect DEF AttemptFails, sessionVars, TypeOK, RequestType
  <2> QED
    BY <1>1, <1>2, <2>1 DEF CalmInv
<1>4. CASE AttemptSucceeds(r)
  <2>1. /\ pc[r] = "upstream" /\ UNCHANGED <<held, reserving>>
        /\ pc'[r] = "settleFund" /\ outcome'[r] = "served" /\ due'[r] \in Costs
    BY <1>4, GotoEffect DEF AttemptSucceeds, sessionVars, TypeOK, RequestType
  <2> QED
    BY <1>1, <1>2, <2>1 DEF CalmInv
<1>5. CASE RollbackReserve(r)
  <2>1. /\ pc'[r] = "upstream" /\ reserving'[r] = 0 /\ UNCHANGED <<due, outcome>>
        /\ held'[r]["preConsumed"] = held[r]["preConsumed"]
    BY <1>5, GotoEffect
    DEF RollbackReserve, NoteReserve, requestVars, TypeOK, SessionType, Amount
  <2>2. funding[r] # "none" /\ pc[r] = "reserveRollback"
    BY <1>1, <1>5 DEF RollbackReserve, RequestInv, StageInv
  <2> QED
    BY <1>1, <1>2, <2>1, <2>2 DEF CalmInv
<1>6. ASSUME NEW t \in ReserveTargets, Reserve(r, t)
      PROVE  CalmInv(r)'
  <2>1. /\ pc'[r] = "tokenRead" /\ UNCHANGED <<due, outcome>>
        /\ held'[r]["preConsumed"] = held[r]["preConsumed"]
        /\ funding[r] # "none" /\ pc[r] = "upstream"
    BY <1>6, GotoEffect
    DEF Reserve, NoteReserve, requestVars, TypeOK, SessionType, Amount
  <2> QED
    BY <1>1, <1>2, <2>1 DEF CalmInv
<1> QED
  BY <1>3, <1>4, <1>5, <1>6

LEMMA SettledCalm ==
    ASSUME TypeOK, SafeInv, Exact, Calm, Undisturbed, NEW r \in Requests,
           SettleFunding(r) \/ SettleToken(r) \/ Log(r)
    PROVE  CalmInv(r)'
<1>1. RequestInv(r) /\ CalmInv(r) /\ ~Fault(r) /\ OutcomeInv(r)
  BY NoFault DEF SafeInv, Calm, Exact, ExactInv
<1>2. /\ pc[r] \in {"settleFund", "settleToken", "log"} /\ outcome[r] = "served"
      /\ UNCHANGED <<bg, funding, held, reserving, due, outcome>>
      /\ ~(reserving[r] > 0)
  BY <1>1 DEF SettleFunding, SettleToken, Log, requestVars, sessionVars,
     OutcomeInv, RequestInv, StageInv
<1>3. CASE SettleFunding(r)
  <2>1. ~FundingSettled(r)
    BY <1>1, <1>3 DEF SettleFunding, RequestInv, StageInv
  <2>2. \/ /\ pc'[r] = "settleToken"
           /\ flags'[r] = flags[r] \cup
                IF funding[r] = "none" THEN {} ELSE {"fundingSettled"}
        \/ pc'[r] = "log" /\ flags'[r] \in {flags[r], flags[r] \cup {"settled"}}
    BY <1>1, <1>3, GotoEffect, SetEffect DEF SettleFunding, TypeOK, Direct
  <2> QED
    BY <1>1, <1>2, <2>1, <2>2 DEF CalmInv
<1>4. CASE SettleToken(r)
  <2>1. /\ pc'[r] = "log"
        /\ \/ funding[r] = "none" /\ UNCHANGED flags
           \/ flags'[r] = flags[r] \cup {"settled"}
    BY <1>4, GotoEffect, SetEffect DEF SettleToken, TypeOK, Direct
  <2> QED
    BY <1>1, <1>2, <2>1 DEF CalmInv
<1>5. CASE Log(r)
  <2>1. pc'[r] = "done" /\ pc[r] = "log" /\ UNCHANGED flags
    BY <1>5, GotoEffect DEF Log, sessionVars, TypeOK
  <2> QED
    BY <1>1, <1>2, <2>1 DEF CalmInv
<1> QED
  BY <1>3, <1>4, <1>5

LEMMA FailedCalm ==
    ASSUME TypeOK, SafeInv, Exact, Calm, Undisturbed, NEW r \in Requests,
           Refund(r) \/ ChargeFee(r) \/ ChargeFeeToken(r) \/ Goroutine(r)
    PROVE  CalmInv(r)'
<1>1. RequestInv(r) /\ CalmInv(r) /\ OutcomeInv(r)
  BY DEF SafeInv, Calm, Exact, ExactInv
<1>2. outcome[r] = "failed"
  BY <1>1 DEF Refund, ChargeFee, ChargeFeeToken, Goroutine, RefundFunding,
     RefundWallet, RefundSubscription, LateFault,
     RefundExtra, RefundToken, GiveBack, OutcomeInv, CalmInv
<1>3. UNCHANGED <<funding, held, reserving, due, outcome>>
  BY DEF Refund, ChargeFee, ChargeFeeToken, Goroutine, RefundFunding,
     RefundWallet, RefundSubscription, LateFault,
     RefundExtra, RefundToken, GiveBack, requestVars, sessionVars
<1>4. CASE Refund(r)
  <2>1. /\ pc[r] = "refund" /\ pc'[r] \in {"fee", "done"}
        /\ bg'[r] \in {bg[r], "funding"}
        /\ flags'[r] \in {flags[r], flags[r] \cup {"refunded"}}
    BY <1>4, GotoEffect, SetEffect DEF Refund, TypeOK, ControlType
  <2> QED
    BY <1>1, <1>2, <1>3, <2>1 DEF CalmInv
<1>5. CASE ChargeFee(r) \/ ChargeFeeToken(r)
  <2>1. /\ pc[r] \in {"fee", "feeToken"} /\ pc'[r] \in {"feeToken", "done"}
        /\ UNCHANGED <<bg, flags>>
    BY <1>5, GotoEffect DEF ChargeFee, ChargeFeeToken, sessionVars, TypeOK
  <2> QED
    BY <1>1, <1>2, <1>3, <2>1 DEF CalmInv
<1>6. CASE Goroutine(r)
  <2>1. /\ UNCHANGED <<pc, flags>>
        /\ bg'[r] \in {"again", "last", "extra", "token", "finished"}
    BY <1>6 DEF Goroutine, RefundFunding, RefundWallet, RefundSubscription,
       AfterFailed, RefundExtra, RefundToken, GiveBack, sessionVars, TypeOK,
       ControlType
  <2> QED
    BY <1>1, <1>2, <1>3, <2>1 DEF CalmInv
<1> QED
  BY <1>4, <1>5, <1>6

LEMMA CalmStep ==
    ASSUME TypeOK, SafeInv, Exact, Calm, Undisturbed, [Next]_vars
    PROVE  Calm'
<1>1. ASSUME NEW r \in Requests, Arrive(r) \/ Handler(r) \/ Goroutine(r)
      PROVE  Calm'
  <2>1. Alone(r)
    BY <1>1, OneRequest DEF Alone
  <2>2. CalmInv(r)'
    BY <1>1, BeforeCalm, AskingCalm, UpstreamCalm, SettledCalm, FailedCalm
    DEF Handler
  <2> QED
    BY <2>1, <2>2, CalmLocality
<1>2. CASE UNCHANGED vars
  BY <1>2
  DEF vars, requestVars, sessionVars, rowVars, Calm, CalmInv
<1>3. ~Crash /\ \A r \in Requests : ~Panic(r)
  BY DEF Crash, Panic, Undisturbed
<1> QED
  BY <1>1, <1>2, <1>3 DEF Next

LEMMA CalmInit ==
    ASSUME Init
    PROVE  Calm
BY DEF Init, Calm, CalmInv, Amount

-----------------------------------------------------------------------------
Paid(r) == Spent(r) - Outstanding(r)

(* What a request costs net of what is held, by the decision taken on it.   *)
CostOf(r) ==
    IF Phase(r) = "served" THEN due[r]
    ELSE IF Phase(r) = "short" THEN held[r]["preConsumed"]
    ELSE IF Phase(r) = "penalised" THEN Fee
    ELSE 0

LEMMA PaidIsCost ==
    ASSUME TypeOK, SafeInv, Exact, Calm, Undisturbed, NEW r \in Requests
    PROVE  Paid(r) = CostOf(r)
<1>1. /\ RequestInv(r) /\ CalmInv(r) /\ OutcomeInv(r) /\ AmountsInv(r)
      /\ pc[r] \in PC /\ bg[r] \in BG
      /\ outcome[r] \in {"open", "rejected", "failed", "served", "panicked"}
  BY NoFault
  DEF SafeInv, Calm, CalmInv, Exact, ExactInv, TypeOK, ControlType, RequestType
<1>2. \A n \in Int : Pays(r, n) => Spent(r) = n
  BY DEF Pays, Spent
<1>3. CASE outcome[r] = "open"
  <2>1. /\ pc[r] \in Before \cup Asking \cup {"upstream", "reserveRollback"}
        /\ bg[r] = "idle" /\ Phase(r) = "open"
        /\ ~Settled(r) /\ ~FundingSettled(r)
    BY <1>1, <1>3 DEF OutcomeInv, CalmInv, PC, Phase, RequestInv, StageInv
  <2>2. Outstanding(r) = held[r]["fundConsumed"]
                         + IF funding[r] = "subscription"
                           THEN held[r]["extraReserved"] + reserving[r] ELSE 0
    BY <1>3, <2>1 DEF Outstanding
  <2>3. CASE pc[r] \in Before \cup Asking /\ reserving[r] = 0
    <3>1. Spent(r) = 0
      BY <1>1, <1>2, <2>3 DEF AmountsInv, AskedInv
    <3>2. /\ held[r]["fundConsumed"] = 0
          /\ funding[r] = "subscription" => held[r]["extraReserved"] = 0
      BY <1>1, <2>3 DEF RequestInv, StageInv, NoteInv, CalmInv
    <3> QED
      BY <2>1, <2>2, <2>3, <3>1, <3>2 DEF Paid, CostOf
  <2>4. CASE pc[r] \in Unsettled \/ reserving[r] > 0
    <3>1. /\ Agree(r)
          /\ Spent(r) = held[r]["preConsumed"] + reserving[r]
      BY <1>1, <1>2, <2>1, <2>4, EntryTypes DEF AmountsInv, HeldInv
    <3>2. funding[r] = "none" =>
             /\ held[r]["fundConsumed"] = 0 /\ held[r]["preConsumed"] = 0
             /\ reserving[r] = 0
      BY <1>1, EntryTypes DEF RequestInv, StageInv, NoteInv, CalmInv
    <3> QED
      BY <2>1, <2>2, <3>1, <3>2, EntryTypes DEF Paid, CostOf, Agree
  <2> QED
    BY <2>1, <2>3, <2>4, EntryTypes
<1>4. CASE outcome[r] = "rejected"
  <2>1. /\ pc[r] = "done" /\ funding[r] = "none" /\ Spent(r) = 0 /\ fee[r] = 0
        /\ bg[r] = "idle"
    BY <1>1, <1>2, <1>4 DEF AmountsInv, RejectedInv, FeeInv, OutcomeInv
  <2>2. Outstanding(r) = 0
    BY <1>1, <1>4, <2>1 DEF Outstanding, CalmInv
  <2> QED
    BY <1>4, <2>1, <2>2 DEF Paid, CostOf, Phase
<1>5. CASE outcome[r] = "failed"
  <2>1. /\ Agree(r) /\ reserving[r] = 0 /\ ~Settled(r) /\ ~FundingSettled(r)
        /\ Pays(r, Left(r) + fee[r])
    BY <1>1, <1>5 DEF AmountsInv, FailedInv, CalmInv
  <2>2. Left(r) \in Int /\ fee[r] \in Nat /\ fee[r] \in {0, Fee}
    BY EntryTypes, FeeType DEF Left, TypeOK, RowType
  <2>3. Spent(r) = Left(r) + fee[r]
    BY <1>2, <2>1, <2>2
  <2>4. funding[r] = "none" =>
             held[r]["fundConsumed"] = 0 /\ held[r]["preConsumed"] = 0
    BY <1>1 DEF RequestInv, NoteInv, CalmInv
  <2>5. Outstanding(r) = Left(r)
    BY <1>1, <1>5, <2>1, <2>4, EntryTypes
    DEF Outstanding, Left, Agree, BG, CalmInv
  <2> QED
    BY <1>5, <2>2, <2>3, <2>5 DEF Paid, CostOf, Phase
<1>6. CASE outcome[r] = "served"
  <2>1. /\ pc[r] \in {"settleFund", "settleToken", "log", "done"}
        /\ bg[r] = "idle" /\ reserving[r] = 0
    BY <1>1, <1>6, EntryTypes
    DEF OutcomeInv, CalmInv, PC, RequestInv, StageInv
  <2>2. funding[r] = "none" =>
             held[r]["fundConsumed"] = 0 /\ held[r]["preConsumed"] = 0
    BY <1>1 DEF RequestInv, NoteInv, CalmInv
  <2>3. CASE pc[r] = "settleFund"
    <3>1. /\ Agree(r) /\ Spent(r) = held[r]["preConsumed"]
          /\ ~Settled(r) /\ ~FundingSettled(r)
      BY <1>1, <1>2, <2>1, <2>3, EntryTypes
      DEF AmountsInv, HeldInv, RequestInv, StageInv
    <3>2. Outstanding(r) = Spent(r)
      BY <2>1, <2>2, <2>3, <3>1, EntryTypes DEF Outstanding, Agree
    <3> QED
      BY <1>6, <2>3, <3>1, <3>2, EntryTypes DEF Paid, CostOf, Phase
  <2>4. CASE pc[r] = "settleToken"
    <3>1. Spent(r) = due[r]
      BY <1>1, <1>2, <2>4, EntryTypes DEF AmountsInv, HalfInv
    <3>2. Outstanding(r) = 0 /\ Phase(r) = "served"
      BY <1>1, <1>6, <2>1, <2>2, <2>4 DEF Outstanding, Phase, Direct, CalmInv
    <3> QED
      BY <3>1, <3>2, EntryTypes DEF Paid, CostOf
  <2>5. CASE pc[r] \in {"log", "done"}
    <3>1. Spent(r) = Price(r) /\ Outstanding(r) = 0
      BY <1>1, <1>2, <1>6, <2>5, EntryTypes
      DEF AmountsInv, ServedInv, Price, Outstanding
    <3>2. CostOf(r) = Price(r)
      BY <1>1, <1>6, <2>5 DEF CostOf, Phase, Price, Direct, CalmInv
    <3> QED
      BY <3>1, <3>2, EntryTypes DEF Paid, Price
  <2> QED
    BY <2>1, <2>3, <2>4, <2>5
<1> QED
  BY <1>1, <1>3, <1>4, <1>5, <1>6 DEF CalmInv

(* The steps ChargeContract allows, of one request.                         *)
Decides(r, from, to, amounts) ==
    Phase(r) = from /\ Phase(r)' = to /\ CostOf(r)' \in amounts
Holding == {p.est : p \in Profiles} \cup {1} \cup ReserveTargets
Decision(r) ==
    \/ Phase(r)' = Phase(r) /\ CostOf(r)' = CostOf(r)
    \/ Decides(r, "open", "served", Costs)
    \/ Decides(r, "open", "short", Holding)
    \/ Decides(r, "open", "void", {0})
    \/ Decides(r, "void", "penalised", {Fee})

LEMMA OpenDecision ==
    ASSUME TypeOK, SafeInv, Exact, Calm, Undisturbed, NEW r \in Requests,
           \/ Arrive(r) \/ ChooseFunding(r) \/ Rejected(r) \/ TryWallet(r)
           \/ TrySubscription(r) \/ ReadToken(r) \/ DebitToken(r)
           \/ PreConsumeFunding(r) \/ RollbackToken(r) \/ AttemptFails(r)
           \/ AttemptSucceeds(r) \/ RollbackReserve(r)
           \/ \E t \in ReserveTargets : Reserve(r, t)
    PROVE  Decision(r)
<1>1. outcome[r] = "open"
  BY DEF Arrive, ChooseFunding, Rejected, TryWallet, TrySubscription, ReadToken,
     DebitToken, PreConsumeFunding, RollbackToken, AttemptFails,
     AttemptSucceeds, RollbackReserve, Reserve, Exact, ExactInv, OutcomeInv
<1>2. fee[r] = 0 /\ UNCHANGED fee
  BY <1>1, NoFault DEF Exact, ExactInv, AmountsInv, FeeInv, Arrive, ChooseFunding,
     Rejected, TryWallet, TrySubscription, ReadToken, DebitToken,
     PreConsumeFunding, RollbackToken, AttemptFails, AttemptSucceeds,
     RollbackReserve, Reserve, rowVars
<1>3. \/ UNCHANGED outcome
      \/ outcome'[r] \in {"rejected", "failed"}
      \/ outcome'[r] = "served" /\ pc'[r] = "settleFund"
  <2>1. CASE Rejected(r) \/ AttemptFails(r) \/ AttemptSucceeds(r)
    BY <2>1, GotoEffect
    DEF Rejected, AttemptFails, AttemptSucceeds, TypeOK, RequestType
  <2>2. CASE ~(Rejected(r) \/ AttemptFails(r) \/ AttemptSucceeds(r))
    BY <2>2 DEF Arrive, ChooseFunding, TryWallet, TrySubscription, ReadToken,
       DebitToken, PreConsumeFunding, RollbackToken, RollbackReserve, Reserve,
       requestVars
  <2> QED
    BY <2>1, <2>2
<1>4. Phase(r) = "open" /\ Phase(r)' \in {"open", "void"}
  BY <1>1, <1>2, <1>3 DEF Phase
<1> QED
  BY <1>4 DEF Decision, Decides, CostOf

(* Only a subscription is charged short: what it holds is one of the holds. *)
LEMMA SettleDecision ==
    ASSUME TypeOK, SafeInv, Exact, Calm, Bounded, Undisturbed,
           NEW r \in Requests, SettleFunding(r)
    PROVE  Decision(r)
<1>1. /\ RequestInv(r) /\ CalmInv(r) /\ ~Fault(r) /\ OutcomeInv(r)
      /\ ChargeInv(r)
  BY NoFault DEF SafeInv, Calm, Exact, ExactInv, Bounded
<1>2. /\ pc[r] = "settleFund" /\ outcome[r] = "served"
      /\ UNCHANGED <<funding, held, due, outcome>>
      /\ ~Settled(r) /\ ~FundingSettled(r)
  BY <1>1 DEF SettleFunding, requestVars, OutcomeInv, RequestInv, StageInv
<1>3. Phase(r) = "open" /\ due[r] \in Costs
  BY <1>1, <1>2 DEF Phase, CalmInv
<1>4. CASE funding[r] = "none" \/ Settled(r)' \/ FundingSettled(r)'
  <2>1. pc'[r] \in {"settleToken", "log"}
    BY GotoEffect DEF SettleFunding, TypeOK
  <2>2. Phase(r)' = "served" /\ CostOf(r)' = due[r]
    BY <1>2, <1>4, <2>1 DEF Phase, Direct, CostOf
  <2> QED
    BY <1>3, <2>2 DEF Decision, Decides
<1>5. CASE ~(funding[r] = "none" \/ Settled(r)' \/ FundingSettled(r)')
  <2>1. MayRefuse(Payer(r), Delta(r)) /\ pc'[r] = "log"
    BY <1>1, <1>5, GotoEffect, SetEffect DEF SettleFunding, TypeOK, Direct
  <2>2. funding[r] = "subscription"
    BY <1>5, <2>1, EntryTypes DEF MayRefuse, Payer, Direct
  <2>3. /\ held[r]["preConsumed"] > 0
        /\ held[r]["preConsumed"] \in {0, 1, req[r].est} \cup ReserveTargets
    BY <1>1, <1>2, <2>2 DEF CalmInv, ChargeInv, HoldInv, Asks, Estimate
  <2>4. req[r] \in Profiles
    BY DEF TypeOK, RequestType
  <2>5. held[r]["preConsumed"] \in Holding
    BY <2>3, <2>4 DEF Holding
  <2>6. Phase(r)' = "short" /\ CostOf(r)' = held[r]["preConsumed"]
    BY <1>2, <1>5, <2>1 DEF Phase, Direct, CostOf
  <2> QED
    BY <1>3, <2>5, <2>6 DEF Decision, Decides
<1> QED
  BY <1>4, <1>5

(* What follows a decision does not change it, but for the fee.             *)
LEMMA DecidedDecision ==
    ASSUME TypeOK, SafeInv, Exact, Calm, Undisturbed, NEW r \in Requests,
           \/ SettleToken(r) \/ Log(r) \/ Refund(r) \/ ChargeFee(r)
           \/ ChargeFeeToken(r) \/ Goroutine(r)
    PROVE  Decision(r)
<1>1. /\ CalmInv(r) /\ ~Fault(r) /\ OutcomeInv(r) /\ FeeInv(r)
  BY NoFault DEF Calm, CalmInv, Exact, ExactInv, AmountsInv
<1>2. UNCHANGED <<funding, held, due, outcome>>
  BY DEF SettleToken, Log, Refund, ChargeFee, ChargeFeeToken, Goroutine,
     RefundFunding, RefundWallet, RefundSubscription, LateFault,
     RefundExtra, RefundToken, GiveBack, requestVars, sessionVars
<1>3. CASE SettleToken(r) \/ Log(r)
  <2>1. /\ pc[r] \in {"settleToken", "log"} /\ outcome[r] = "served"
        /\ pc'[r] \in {"log", "done"}
    BY <1>1, <1>3, GotoEffect DEF SettleToken, Log, OutcomeInv, TypeOK
  <2>2. Phase(r)' = Phase(r)
    <3>1. CASE SettleToken(r)
      <4>1. pc[r] = "settleToken" /\ (funding[r] = "none" \/ Settled(r)')
        BY <3>1, SetEffect DEF SettleToken, Direct, TypeOK
      <4> QED
        BY <1>1, <1>2, <2>1, <4>1 DEF Phase, Direct, CalmInv
    <3>2. CASE Log(r)
      <4>1. UNCHANGED flags
        BY <3>2 DEF Log, sessionVars
      <4> QED
        BY <1>2, <2>1, <4>1 DEF Phase, Direct
    <3> QED
      BY <1>3, <3>1, <3>2
  <2> QED
    BY <1>2, <2>2 DEF Decision, CostOf
<1>4. CASE ~(SettleToken(r) \/ Log(r))
  <2>1. outcome[r] = "failed"
    BY <1>1, <1>4 DEF Refund, ChargeFee, ChargeFeeToken, Goroutine,
       RefundFunding, RefundWallet, RefundSubscription, LateFault,
     RefundExtra, RefundToken, GiveBack, OutcomeInv, CalmInv
  <2>2. CASE UNCHANGED fee
    BY <1>2, <2>1, <2>2 DEF Decision, Phase, CostOf
  <2>3. CASE ChargeFee(r) /\ fee' = [fee EXCEPT ![r] = Fee] /\ Fee > 0
    <3>1. fee[r] = 0 /\ fee'[r] = Fee
      BY <1>1, <2>3 DEF ChargeFee, FeeInv, TypeOK, RowType
    <3> QED
      BY <1>2, <2>1, <2>3, <3>1 DEF Decision, Decides, Phase, CostOf
  <2> QED
    BY <1>1, <1>4, <2>2, <2>3
    DEF Refund, ChargeFee, ChargeFeeToken, Goroutine, RefundFunding,
        RefundWallet, RefundSubscription, LateFault,
     RefundExtra, RefundToken, GiveBack, rowVars
<1> QED
  BY <1>3, <1>4

AllPaid == \A r \in Requests : Paid(r) = CostOf(r)

LEMMA ContractStep ==
    ASSUME TypeOK, SafeInv, Exact, Calm, Bounded, Undisturbed, [Next]_vars,
           AllPaid, AllPaid'
    PROVE  [Contract!Next]_(Contract!vars)
<1> DEFINE phase == [q \in Requests |-> Phase(q)]
           paid  == [q \in Requests |-> Spent(q) - Outstanding(q)]
<1>1. /\ \A q \in Requests : paid[q] = CostOf(q)
      /\ \A q \in Requests : paid'[q] = CostOf(q)'
  BY DEF AllPaid, Paid
<1>2. ASSUME NEW r \in Requests, Arrive(r) \/ Handler(r) \/ Goroutine(r)
      PROVE  [Contract!Next]_(Contract!vars)
  <2>1. Decision(r)
    BY <1>2, OpenDecision, SettleDecision, DecidedDecision DEF Handler
  <2>2. \A q \in Requests \ {r} : Phase(q)' = Phase(q) /\ CostOf(q)' = CostOf(q)
    <3> SUFFICES ASSUME NEW q \in Requests \ {r}
                 PROVE  Phase(q)' = Phase(q) /\ CostOf(q)' = CostOf(q)
      OBVIOUS
    <3>1. /\ UNCHANGED <<pc[q], funding[q], flags[q], held[q]>>
          /\ UNCHANGED <<outcome[q], due[q], fee[q]>>
      BY <1>2, OneRequest DEF State, Tally
    <3>2. Phase(q)' = Phase(q)
      BY <3>1 DEF Phase, Direct
    <3> QED
      BY <3>1, <3>2 DEF CostOf
  <2>3. /\ phase' = [phase EXCEPT ![r] = Phase(r)']
        /\ paid' = [paid EXCEPT ![r] = CostOf(r)']
    BY <1>1, <2>2
  <2>4. CASE Phase(r)' = Phase(r) /\ CostOf(r)' = CostOf(r)
    <3>1. phase' = phase /\ paid' = paid
      BY <1>1, <2>2, <2>4
    <3> QED
      BY <3>1 DEF Contract!vars
  <2>5. ASSUME NEW from, NEW to, NEW amounts, Decides(r, from, to, amounts)
        PROVE  Contract!Decide(r, {from}, to, amounts)
    BY <2>3, <2>5 DEF Decides, Contract!Decide
  <2> QED
    BY <2>1, <2>4, <2>5
    DEF Decision, Holding, Contract!Next, Contract!Serve, Contract!ServeShort,
        Contract!Void, Contract!Penalise
<1>3. CASE UNCHANGED vars
  <2>1. phase' = phase /\ paid' = paid
    BY <1>3 DEF vars, requestVars, sessionVars, rowVars, Phase, Direct, Spent,
       Outstanding
  <2> QED
    BY <2>1 DEF Contract!vars
<1>4. ~Crash /\ \A r \in Requests : ~Panic(r)
  BY DEF Crash, Panic, Undisturbed
<1> QED
  BY <1>2, <1>3, <1>4 DEF Next

(* Each request is decided once, in one step, and every other step of a     *)
(* handler or of a refund goroutine leaves what it costs, net of what is    *)
(* held, alone: with no database error, panic or kill, the code of the      *)
(* billing session implements the contract.                                 *)
THEOREM Implements == Undisturbed => (Spec => ImplementsContract)
<1> SUFFICES ASSUME Undisturbed
             PROVE  Spec => ImplementsContract
  OBVIOUS
<1>1. Init => Calm /\ Bounded
  BY CalmInit, BoundedInit
<1>2. TypeOK /\ SafeInv /\ Exact /\ Calm /\ Bounded /\ [Next]_vars
      => Calm' /\ Bounded'
  BY CalmStep, BoundedStep
<1>3. Init => Contract!Init
  <2> SUFFICES ASSUME Init
               PROVE  \A r \in Requests : Phase(r) = "open"
                                          /\ Spent(r) - Outstanding(r) = 0
    BY DEF Contract!Init
  <2> SUFFICES ASSUME NEW r \in Requests
               PROVE  Phase(r) = "open" /\ Spent(r) - Outstanding(r) = 0
    OBVIOUS
  <2>1. /\ outcome[r] = "open" /\ funding[r] = "none" /\ bg[r] = "idle"
        /\ pc[r] = "waiting" /\ flags[r] = {}
        /\ held[r]["fundConsumed"] = 0
        /\ ledger[r]["wallet"] = 0 /\ ledger[r]["subscription"] = 0
    BY DEF Init, Account, Source, Amount
  <2> QED
    BY <2>1 DEF Phase, Spent, Outstanding
<1>4. TypeOK /\ SafeInv /\ Exact /\ Calm => AllPaid
  BY PaidIsCost DEF AllPaid
<1>5. /\ TypeOK /\ SafeInv /\ Exact /\ Calm /\ Bounded /\ [Next]_vars
      /\ AllPaid /\ AllPaid'
      => [Contract!Next]_(Contract!vars)
  BY ContractStep
<1> QED
  BY <1>1, <1>2, <1>3, <1>4, <1>5, Exactness, PTL
  DEF Spec, ImplementsContract, Contract!Spec

-----------------------------------------------------------------------------
(* What requests can take from the wallet together.  The check of the       *)
(* balance and the debit are separate, but the balance a check reads is     *)
(* never more than the wallet began with.                                   *)

Unfunded == Before \cup {"done", "crashed"}

(* What the response came to is not known before it.                        *)
DueInv(r) == outcome[r] = "open" => due[r] = 0

(* The wallet has given r what it was estimated at, or came to, the fee,    *)
(* and what Reserve added.                                                  *)
CapInv(r) ==
    ~Strayed(r) =>
        \E n \in {Estimate(r), due[r]} :
            ledger[r]["wallet"] <= n + fee[r] + held[r]["extraReserved"] + reserving[r]

(* Who pays from the wallet found it large enough, or has a free model.     *)
CheckedInv(r) ==
    /\ funding[r] = "wallet" => Estimate(r) <= InitWallet
    /\ funding[r] = "none" /\ ~req[r].free =>
          ledger[r]["wallet"] = 0 /\ pc[r] \in Unfunded

WalletInv(r) == DueInv(r) /\ CapInv(r) /\ CheckedInv(r)
Capped == \A r \in Requests : WalletInv(r)

Ready == TypeOK /\ SafeInv /\ Exact /\ Bounded /\ Capped

LEMMA CappedLocality ==
    ASSUME Capped, NEW r \in Requests, WalletInv(r)', Alone(r)
    PROVE  Capped'
<1> SUFFICES ASSUME NEW q \in Requests, q # r
             PROVE  WalletInv(q)'
  BY DEF Capped
<1>1. /\ WalletInv(q)
      /\ UNCHANGED <<req[q], pc[q], funding[q], held[q], reserving[q], ledger[q]>>
      /\ UNCHANGED <<outcome[q], due[q], fee[q], faults[q]>>
  BY DEF Capped, Alone, State, Tally
<1> QED
  BY <1>1 DEF WalletInv, DueInv, CapInv, CheckedInv, Strayed, Estimate

(* Balances only lose.                                                      *)
LEMMA WalletAtMost ==
    ASSUME TypeOK, SafeInv
    PROVE  WalletQuota \in Int /\ WalletQuota <= InitWallet
<1> DEFINE f == [r \in Requests |-> ledger[r]["wallet"]]
           z == [r \in Requests |-> 0]
<1>1. f \in [Requests -> Int] /\ \A r \in Requests : z[r] <= f[r]
  <2>1. \A r \in Requests : ledger[r]["wallet"] \in Int /\ ledger[r]["wallet"] >= 0
    BY EntryTypes DEF SafeInv, RequestInv, CoverInv
  <2> QED
    BY <2>1
<1>2. z \in [Requests -> Int] /\ \A r \in Requests : z[r] = 0
  OBVIOUS
<1> HIDE DEF f, z
<1>3. SumFunction(f) \in Int /\ SumFunction(z) <= SumFunction(f) /\ SumFunction(z) = 0
  BY <1>1, <1>2, SumType, SumUpTo, SumOfNothing, RequestsAssumption
<1>4. WalletQuota = InitWallet - SumFunction(f)
  BY DEF WalletQuota, Taken, f
<1> QED
  BY <1>3, <1>4, AmountsAssumption

(* The wallet gives nothing, or is given back; what Reserve added stays.    *)
LEMMA NothingTaken ==
    ASSUME Ready, NEW r \in Requests,
           req'[r] = req[r], fee'[r] = fee[r],
           \/ UNCHANGED faults \/ Fault(r)
           \/ faults' = [faults EXCEPT ![r] = @ + 1],
           \/ ledger'[r]["wallet"] = ledger[r]["wallet"]
           \/ funding[r] # "none" /\ ledger'[r]["wallet"] \in Int
              /\ ledger'[r]["wallet"] <= ledger[r]["wallet"],
           held'[r]["extraReserved"] \in Int, reserving'[r] \in Int,
           held'[r]["extraReserved"] >= 0, reserving'[r] >= 0,
           \/ held'[r]["extraReserved"] + reserving'[r]
                 >= held[r]["extraReserved"] + reserving[r]
           \/ ledger[r]["wallet"] = 0 /\ due'[r] = due[r],
           \/ due'[r] = due[r]
           \/ outcome[r] = "open" /\ due'[r] \in Nat /\ outcome'[r] # "open",
           outcome'[r] = "open" => outcome[r] = "open",
           \/ funding'[r] = funding[r]
           \/ /\ ledger[r]["wallet"] = 0
              /\ ledger'[r]["wallet"] = 0
              /\ funding'[r] = "wallet" => Estimate(r) <= InitWallet,
           funding'[r] = "none" /\ ~req[r].free => pc'[r] \in Unfunded
    PROVE  WalletInv(r)'
<1>1. WalletInv(r) /\ Estimate(r) \in Nat /\ due[r] \in Nat
  BY EntryTypes, AmountTypes DEF Ready, Capped
<1>2. /\ ledger[r]["wallet"] \in Int /\ fee[r] \in Nat /\ held[r]["extraReserved"] \in Int
      /\ reserving[r] \in Nat
  BY EntryTypes, FeeType DEF Ready
<1>3. DueInv(r)'
  BY <1>1 DEF WalletInv, DueInv
<1>4. CheckedInv(r)'
  BY <1>1, <1>2 DEF WalletInv, CheckedInv, Estimate
<1>5. CapInv(r)'
  <2> SUFFICES ASSUME ~Strayed(r)'
               PROVE  \E n \in {Estimate(r), due'[r]} :
                         ledger'[r]["wallet"]
                            <= n + fee[r] + held'[r]["extraReserved"] + reserving'[r]
    BY DEF CapInv, Estimate
  <2>1. ~Strayed(r)
    <3>1. faults'[r] \in Nat /\ faults'[r] >= faults[r] /\ faults[r] \in Nat
      BY FaultsGrow, AsksType DEF Ready
    <3> QED
      BY <3>1 DEF Strayed
  <2>2. PICK n \in {Estimate(r), due[r]} :
           ledger[r]["wallet"] <= n + fee[r] + held[r]["extraReserved"] + reserving[r]
    BY <1>1, <2>1 DEF WalletInv, CapInv
  <2>3. PICK m \in {Estimate(r), due'[r]} : m >= n /\ m \in Nat
    <3>1. CASE due'[r] = due[r]
      BY <1>1, <3>1
    <3>2. CASE outcome[r] = "open"
      BY <1>1, <3>2 DEF WalletInv, DueInv
    <3> QED
      BY <3>1, <3>2
  <2>4. ledger'[r]["wallet"] \in Int /\ ledger'[r]["wallet"] <= ledger[r]["wallet"]
    BY <1>2
  <2>5. CASE held'[r]["extraReserved"] + reserving'[r] >= held[r]["extraReserved"] + reserving[r]
    BY <1>1, <1>2, <2>2, <2>3, <2>4, <2>5
  <2>6. CASE ledger[r]["wallet"] = 0
    BY <1>1, <1>2, <2>3, <2>4, <2>6
  <2> QED
    BY <2>5, <2>6
<1> QED
  BY <1>3, <1>4, <1>5 DEF WalletInv

(* While a source is sought or asked, nothing has been taken.               *)
LEMMA AskingTookNothing ==
    ASSUME Ready, NEW r \in Requests, pc[r] \in Before \cup Asking, reserving[r] = 0
    PROVE  ledger[r]["wallet"] = 0
<1>1. Spent(r) = 0 /\ ledger[r]["wallet"] >= 0 /\ ledger[r]["subscription"] >= 0
  BY DEF Ready, Bounded, ChargeInv, SourceInv, SafeInv, RequestInv, StageInv,
     CoverInv
<1> QED
  BY <1>1, EntryTypes DEF Ready, Spent

(* What the steps below share.                                              *)
LEMMA Numbers ==
    ASSUME Ready, NEW r \in Requests
    PROVE  /\ ledger[r]["wallet"] \in Int /\ fee[r] \in Nat /\ Fee \in Nat
           /\ held[r]["extraReserved"] \in Int /\ held[r]["extraReserved"] >= 0
           /\ held[r]["preConsumed"] \in Int /\ held[r]["preConsumed"] >= 0
           /\ reserving[r] \in Nat /\ due[r] \in Nat /\ Estimate(r) \in Nat
           /\ Effective(r) \in Nat /\ InitWallet \in Int
           /\ StageInv(r) /\ NoteInv(r) /\ WalletInv(r)
           /\ ledger[r]["wallet"] >= 0 /\ ledger[r]["subscription"] \in Int
           /\ bg[r] = "idle" => ledger[r]["subscription"] >= 0
<1>1. StageInv(r) /\ NoteInv(r) /\ CoverInv(r) /\ WalletInv(r)
  BY DEF Ready, SafeInv, RequestInv, Capped
<1>2. /\ ledger[r]["wallet"] >= 0
      /\ bg[r] = "idle" => ledger[r]["subscription"] >= 0
  BY <1>1 DEF CoverInv
<1>3. held[r]["extraReserved"] >= 0 /\ held[r]["preConsumed"] >= 0
  BY <1>1 DEF NoteInv
<1> QED
  BY <1>1, <1>2, <1>3, EntryTypes, AmountTypes, FeeType, AmountsAssumption DEF Ready

(* Steps that leave the wallet and what Reserve added alone.                *)
LEMMA StillCapped ==
    ASSUME Ready, NEW r \in Requests,
           UNCHANGED <<req, due, fee, funding>>, UNCHANGED faults \/ Fault(r),
           ledger'[r]["wallet"] = ledger[r]["wallet"],
           held'[r]["extraReserved"] + reserving'[r]
              = held[r]["extraReserved"] + reserving[r],
           held'[r]["extraReserved"] \in Int, reserving'[r] \in Int,
           held'[r]["extraReserved"] >= 0, reserving'[r] >= 0,
           outcome'[r] = "open" => outcome[r] = "open",
           funding[r] = "none" /\ ~req[r].free => pc'[r] \in Unfunded
    PROVE  WalletInv(r)'
BY NothingTaken, Numbers

(* The request comes, goes to a source or leaves without one.               *)
LEMMA EnterCapped ==
    ASSUME Ready, NEW r \in Requests,
           Arrive(r) \/ ChooseFunding(r) \/ Rejected(r)
    PROVE  WalletInv(r)'
<1>1. /\ UNCHANGED <<req, due, fee, funding, ledger, held, reserving>>
      /\ UNCHANGED faults \/ Fault(r)
  BY DEF Arrive, ChooseFunding, Rejected, Fault, requestVars, sessionVars, rowVars
<1>2. outcome'[r] = "open" => outcome[r] = "open"
  <2>1. UNCHANGED outcome \/ outcome' = [outcome EXCEPT ![r] = "rejected"]
    BY DEF Arrive, ChooseFunding, Rejected, requestVars
  <2> QED
    BY <2>1 DEF Ready, TypeOK, RequestType
<1>3. ~req[r].free => pc'[r] \in Unfunded
  <2>1. FirstSource(r) \in Unfunded
    BY DEF FirstSource, Unfunded
  <2>2. ASSUME ~req[r].free
        PROVE  \E l \in Unfunded : Goto(r, l)
    BY <2>1, <2>2 DEF Arrive, ChooseFunding, Rejected, Unfunded
  <2> QED
    BY <2>2, GotoEffect DEF Ready, TypeOK
<1> QED
  BY <1>1, <1>2, <1>3, Numbers, StillCapped

(* Attempts, the log, and the end of the exchange.                          *)
LEMMA MoveCapped ==
    ASSUME Ready, NEW r \in Requests,
           AttemptFails(r) \/ AttemptSucceeds(r) \/ Log(r) \/ Panic(r) \/ Refund(r)
    PROVE  WalletInv(r)'
<1>1. /\ UNCHANGED <<req, fee, funding, ledger, held, reserving, faults>>
      /\ pc[r] \notin Unfunded
  BY DEF AttemptFails, AttemptSucceeds, Log, Panic, Refund, Unfunded,
     requestVars, sessionVars, rowVars
<1>2. \/ UNCHANGED due /\ (outcome'[r] = "open" => outcome[r] = "open")
      \/ outcome[r] = "open" /\ due'[r] \in Nat /\ outcome'[r] # "open"
  <2>1. CASE AttemptSucceeds(r)
    <3>1. outcome[r] = "open"
      BY <2>1 DEF AttemptSucceeds, Ready, Exact, ExactInv, OutcomeInv
    <3>2. outcome'[r] = "served"
      BY <2>1 DEF AttemptSucceeds, Ready, TypeOK, RequestType
    <3>3. due'[r] \in Nat
      BY <2>1, AmountsAssumption DEF AttemptSucceeds, Ready, TypeOK, RequestType
    <3> QED
      BY <3>1, <3>2, <3>3
  <2>2. CASE AttemptFails(r) \/ Log(r) \/ Panic(r) \/ Refund(r)
    <3>1. UNCHANGED due
      BY <2>2 DEF AttemptFails, Log, Panic, Refund, requestVars
    <3>2. \/ UNCHANGED outcome
          \/ \E o \in {"failed", "panicked"} : outcome' = [outcome EXCEPT ![r] = o]
      BY <2>2 DEF AttemptFails, Log, Panic, Refund, requestVars
    <3> QED
      BY <3>1, <3>2 DEF Ready, TypeOK, RequestType
  <2> QED
    BY <2>1, <2>2
<1>3. funding[r] = "none" => req[r].free
  BY <1>1, Numbers DEF WalletInv, CheckedInv
<1>4. /\ ledger'[r]["wallet"] = ledger[r]["wallet"]
      /\ held'[r]["extraReserved"] = held[r]["extraReserved"]
      /\ reserving'[r] = reserving[r] /\ funding'[r] = funding[r]
      /\ req'[r] = req[r] /\ fee'[r] = fee[r]
  BY <1>1
<1> QED
  BY <1>1, <1>2, <1>3, <1>4, Numbers, NothingTaken

(* The balance tryWallet reads covers the estimate.                         *)
LEMMA TryCapped ==
    ASSUME Ready, NEW r \in Requests, TryWallet(r) \/ TrySubscription(r)
    PROVE  WalletInv(r)'
<1>1. /\ UNCHANGED <<req, due, outcome, reserving, fee, ledger>>
      /\ UNCHANGED faults \/ Fault(r)
  BY DEF TryWallet, TrySubscription, requestVars, rowVars, Fault
<1>2. reserving[r] = 0 /\ funding[r] = "none" /\ ledger[r]["wallet"] = 0
  <2>1. pc[r] \in {"wallet", "subscription"}
    BY DEF TryWallet, TrySubscription
  <2>2. reserving[r] = 0 /\ funding[r] = "none"
    BY <2>1, Numbers DEF StageInv
  <2>3. pc[r] \in Before \cup Asking
    BY <2>1
  <2> QED
    BY <2>2, <2>3, AskingTookNothing
<1>3. \/ funding'[r] = "none" /\ pc'[r] \in Unfunded /\ held'[r] = held[r]
      \/ /\ held'[r]["extraReserved"] = 0
         /\ \/ funding'[r] = "subscription"
            \/ funding'[r] = "wallet" /\ Affords(r)
  <2>1. CASE Start(r, "wallet", IF Trusts(r) THEN {"trusted"} ELSE {}) /\ Affords(r)
    BY <2>1, StartEffect DEF Ready, TypeOK
  <2>2. CASE UNCHANGED <<funding, held>>
             /\ (Goto(r, FallsBackTo(r, "wallet")) \/ Goto(r, "rejected"))
    <3>1. FallsBackTo(r, "wallet") \in Unfunded /\ "rejected" \in Unfunded
      BY DEF FallsBackTo, Unfunded
    <3>2. pc'[r] \in Unfunded
      BY <2>2, <3>1, GotoEffect DEF Ready, TypeOK
    <3> QED
      BY <1>2, <2>2, <3>2
  <2>3. CASE Start(r, "subscription", {})
    BY <2>3, StartEffect DEF Ready, TypeOK
  <2> QED
    BY <2>1, <2>2, <2>3 DEF TryWallet, TrySubscription
<1>4. Affords(r) => Estimate(r) <= InitWallet
  BY WalletAtMost, Numbers DEF Affords, Ready
<1>5. held'[r]["extraReserved"] \in Int /\ held'[r]["extraReserved"] >= 0
  BY <1>3, Numbers
<1>6. /\ funding'[r] = "wallet" => Estimate(r) <= InitWallet
      /\ funding'[r] = "none" => pc'[r] \in Unfunded
  BY <1>3, <1>4
<1>7. /\ reserving'[r] = 0 /\ ledger'[r]["wallet"] = 0 /\ due'[r] = due[r]
      /\ outcome'[r] = outcome[r] /\ req'[r] = req[r] /\ fee'[r] = fee[r]
  BY <1>1, <1>2
<1> QED
  BY <1>1, <1>2, <1>5, <1>6, <1>7, Numbers, NothingTaken

LEMMA TokenCoveredCapped ==
    ASSUME Ready, NEW r \in Requests, TokenCovered(r),
           pc[r] \in {"tokenRead", "tokenDebit"},
           UNCHANGED <<req, due, outcome, fee, faults>>,
           UNCHANGED ledger \/ Take(r, "token", TokenAsk(r))
    PROVE  WalletInv(r)'
<1>1. ledger'[r]["wallet"] = ledger[r]["wallet"]
  <2>1. TokenAsk(r) \in Int /\ "token" \in Account
    BY AmountTypes DEF Account, Ready
  <2> QED
    BY <2>1, TakeEffect, EntryTypes DEF Ready
<1>2. UNCHANGED funding /\ reserving'[r] = 0 /\ funding[r] # "none"
  <2>1. UNCHANGED funding /\ reserving'[r] = 0
    BY DEF TokenCovered, Ready, TypeOK, SessionType
  <2> QED
    BY <2>1, Numbers DEF StageInv
<1>3. held'[r]["extraReserved"] = held[r]["extraReserved"] + reserving[r]
  BY Numbers DEF TokenCovered, Ready, TypeOK, SessionType, Amount
<1> QED
  BY <1>1, <1>2, <1>3, Numbers, StillCapped

LEMMA TokenRefusedCapped ==
    ASSUME Ready, NEW r \in Requests, TokenRefused(r),
           pc[r] \in {"tokenRead", "tokenDebit"},
           UNCHANGED <<req, ledger, due, outcome, fee>>, UNCHANGED faults \/ Fault(r)
    PROVE  WalletInv(r)'
<1>1. UNCHANGED reserving /\ funding[r] # "none"
  BY Numbers DEF TokenRefused, StageInv
<1>2. CASE UNCHANGED <<funding, flags, held>>
  BY <1>1, <1>2, Numbers, StillCapped
<1>3. CASE reserving[r] = 0 /\ Goto(r, "rejected") /\ Drop(r)
  <2>1. pc'[r] \in Unfunded
    BY <1>3, GotoEffect DEF Ready, TypeOK, Unfunded
  <2>2. held'[r]["extraReserved"] = 0 /\ funding'[r] = "none"
    BY <1>3, StartEffect DEF Ready, TypeOK, Drop
  <2>3. pc[r] \in Before \cup Asking
    OBVIOUS
  <2>4. ledger[r]["wallet"] = 0
    BY <1>3, <2>3, AskingTookNothing
  <2> QED
    BY <1>1, <1>3, <2>1, <2>2, <2>4, Numbers, NothingTaken
<1> QED
  BY <1>2, <1>3 DEF TokenRefused

LEMMA TokenCapped ==
    ASSUME Ready, NEW r \in Requests, ReadToken(r) \/ DebitToken(r) \/ RollbackToken(r)
    PROVE  WalletInv(r)'
<1>1. CASE ReadToken(r)
  <2>1. pc[r] = "tokenRead" /\ UNCHANGED <<req, due, outcome, fee>>
    BY <1>1 DEF ReadToken, requestVars
  <2>2. CASE TokenCovered(r) /\ UNCHANGED <<faults, ledger>>
    BY <2>1, <2>2, TokenCoveredCapped
  <2>3. CASE TokenRefused(r) /\ (UNCHANGED <<faults, ledger>> \/ Fault(r))
    BY <2>1, <2>3, TokenRefusedCapped DEF Fault
  <2>4. CASE UNCHANGED <<funding, flags, held, reserving, faults, ledger>>
    <3>1. funding[r] # "none"
      BY <2>1, Numbers DEF StageInv
    <3> QED
      BY <2>1, <2>4, <3>1, Numbers, StillCapped
  <2> QED
    BY <1>1, <2>2, <2>3, <2>4 DEF ReadToken
<1>2. CASE DebitToken(r)
  <2>1. pc[r] = "tokenDebit" /\ UNCHANGED <<req, due, outcome, fee>>
    BY <1>2 DEF DebitToken, requestVars
  <2> QED
    BY <1>2, <2>1, TokenCoveredCapped, TokenRefusedCapped DEF DebitToken, Fault
<1>3. CASE RollbackToken(r)
  <2> DEFINE n == TokenPart(r, held[r]["tokenConsumed"])
  <2>1. /\ pc[r] = "rollback" /\ UNCHANGED <<req, reserving, due, outcome, fee>>
        /\ (Take(r, "token", -n) /\ UNCHANGED faults) \/ Fault(r)
    BY <1>3 DEF RollbackToken, requestVars
  <2>2. -n \in Int /\ "token" \in Account
    BY EntryTypes DEF TokenPart, Account, Ready
  <2> HIDE DEF n
  <2>3. ledger'[r]["wallet"] = ledger[r]["wallet"]
    BY <2>1, <2>2, TakeEffect, EntryTypes DEF Fault, Ready
  <2>4. pc'[r] \in Unfunded
    <3>1. /\ FallsBackTo(r, funding[r]) \in Unfunded
          /\ "rejected" \in Unfunded
      BY DEF FallsBackTo, Unfunded
    <3> QED
      BY <1>3, <3>1, GotoEffect DEF Ready, TypeOK, RollbackToken
  <2>5. held'[r]["extraReserved"] = 0 /\ funding'[r] = "none"
    BY <1>3, StartEffect DEF Ready, TypeOK, RollbackToken, Drop
  <2>6. reserving[r] = 0
    BY <2>1, Numbers DEF StageInv
  <2>7. pc[r] \in Before \cup Asking
    BY <2>1
  <2>8. ledger[r]["wallet"] = 0
    BY <2>6, <2>7, AskingTookNothing
  <2> QED
    BY <2>1, <2>3, <2>4, <2>5, <2>6, <2>8, Numbers, NothingTaken
<1> QED
  BY <1>1, <1>2, <1>3

-----------------------------------------------------------------------------
(* Of the wallet a request is given what it was estimated at.               *)
LEMMA PreConsumeFundingCapped ==
    ASSUME Ready, NEW r \in Requests, PreConsumeFunding(r)
    PROVE  WalletInv(r)'
<1>1. /\ pc[r] = "fund"
      /\ UNCHANGED <<req, funding, flags, reserving, due, outcome, fee>>
  BY DEF PreConsumeFunding, requestVars
<1>2. funding[r] \in Source /\ funding[r] # "none" /\ reserving[r] = 0
  BY <1>1, Numbers, EntryTypes DEF Ready, StageInv, Source
<1>3. CASE /\ Take(r, funding[r], Effective(r))
           /\ held' = [held EXCEPT ![r]["fundConsumed"] = Effective(r),
                                   ![r]["preConsumed"]  = Effective(r)]
           /\ UNCHANGED faults
  <2>1. held'[r]["extraReserved"] = held[r]["extraReserved"]
    BY <1>3 DEF Ready, TypeOK, SessionType, Amount
  <2>2. ledger'[r]["wallet"] = ledger[r]["wallet"]
           + IF funding[r] = "wallet" THEN Effective(r) ELSE 0
    BY <1>2, <1>3, TakeEffect, EntryTypes DEF Ready, Account, Source
  <2>3. pc[r] \in Before \cup Asking
    BY <1>1
  <2>4. ledger[r]["wallet"] = 0
    BY <1>2, <2>3, AskingTookNothing
  <2>5. funding[r] = "wallet" => Effective(r) <= Estimate(r)
    BY Numbers DEF Effective
  <2>6. ledger'[r]["wallet"] <= Estimate(r)
    BY <2>2, <2>4, <2>5, Numbers
  <2>7. CapInv(r)'
    <3>1. ledger'[r]["wallet"]
             <= Estimate(r) + fee'[r] + held'[r]["extraReserved"] + reserving'[r]
      BY <1>1, <1>2, <2>1, <2>2, <2>4, <2>6, Numbers
    <3>2. Estimate(r)' = Estimate(r)
      BY <1>1 DEF Estimate
    <3> QED
      BY <3>1, <3>2 DEF CapInv
  <2>8. DueInv(r)' /\ CheckedInv(r)'
    BY <1>1, <1>2, Numbers DEF WalletInv, DueInv, CheckedInv, Estimate
  <2> QED
    BY <2>7, <2>8 DEF WalletInv
<1>4. CASE UNCHANGED <<held, ledger>> /\ (UNCHANGED faults \/ Fault(r))
  BY <1>1, <1>2, <1>4, Numbers, StillCapped
<1> QED
  BY <1>3, <1>4 DEF PreConsumeFunding, Fault

LEMMA ReserveCapped ==
    ASSUME Ready, NEW r \in Requests, NEW t \in ReserveTargets, Reserve(r, t)
    PROVE  WalletInv(r)'
<1> DEFINE delta == t - held[r]["preConsumed"]
<1>1. /\ pc[r] = "upstream" /\ funding[r] \in Source
      /\ delta \in Int /\ delta > 0
      /\ UNCHANGED <<req, funding, due, outcome, fee, faults>>
  BY Numbers, EntryTypes, AmountsAssumption DEF Ready, Reserve, requestVars, Source
<1>2. reserving[r] = 0 /\ reserving'[r] = delta
  BY <1>1, Numbers DEF Ready, TypeOK, SessionType, Reserve, StageInv
<1>3. held'[r]["extraReserved"] = held[r]["extraReserved"]
  BY DEF Reserve, NoteReserve, Ready, TypeOK, SessionType, Amount
<1>4. ledger'[r]["wallet"] = ledger[r]["wallet"]
         + IF funding[r] = "wallet" THEN delta ELSE 0
  <2>1. Take(r, funding[r], delta) /\ funding[r] \in Account
    BY <1>1 DEF Reserve, Account
  <2> HIDE DEF delta
  <2> QED
    BY <1>1, <2>1, TakeEffect, EntryTypes DEF Ready, Source
<1> HIDE DEF delta
<1>5. CapInv(r)'
  BY <1>1, <1>2, <1>3, <1>4, Numbers DEF WalletInv, CapInv, Strayed, Estimate
<1>6. DueInv(r)' /\ CheckedInv(r)'
  BY <1>1, Numbers DEF WalletInv, DueInv, CheckedInv, Estimate, Source
<1> QED
  BY <1>5, <1>6 DEF WalletInv

(* A rollback that fails leaves the request strayed.                        *)
LEMMA RollbackReserveCapped ==
    ASSUME Ready, NEW r \in Requests, RollbackReserve(r)
    PROVE  WalletInv(r)'
<1>1. /\ pc[r] = "reserveRollback"
      /\ UNCHANGED <<req, funding, due, outcome, fee>>
  BY DEF RollbackReserve, requestVars
<1>2. /\ reserving'[r] = 0 /\ reserving[r] > 0 /\ funding[r] \in Source
      /\ ReserveTargets # {}
  BY <1>1, Numbers, EntryTypes
  DEF RollbackReserve, Ready, TypeOK, SessionType, StageInv, Source, Bounded,
      ChargeInv, HoldInv
<1>3. held'[r]["extraReserved"] = held[r]["extraReserved"]
  BY DEF RollbackReserve, NoteReserve, Ready, TypeOK, SessionType, Amount
<1>4. DueInv(r)' /\ CheckedInv(r)'
  BY <1>1, <1>2, Numbers DEF WalletInv, DueInv, CheckedInv, Estimate, Source
<1>5. CASE Take(r, funding[r], -reserving[r]) /\ UNCHANGED faults
  <2>1. -reserving[r] \in Int /\ funding[r] \in Account
    BY <1>2, Numbers DEF Account
  <2>2. ledger'[r]["wallet"] = ledger[r]["wallet"]
           - IF funding[r] = "wallet" THEN reserving[r] ELSE 0
    BY <1>2, <1>5, <2>1, TakeEffect, Numbers DEF Ready, Source
  <2>3. funding[r] = "subscription" => ledger[r]["wallet"] = 0
    BY DEF Ready, Bounded, ChargeInv, SourceInv
  <2>4. CapInv(r)'
    BY <1>1, <1>2, <1>3, <1>5, <2>2, <2>3, Numbers
    DEF WalletInv, CapInv, Strayed, Estimate, Source
  <2> QED
    BY <1>4, <2>4 DEF WalletInv
<1>6. CASE Fault(r)
  <2>1. Strayed(r)'
    BY <1>2, <1>6, FaultEffect DEF Strayed, Ready
  <2> QED
    BY <1>4, <2>1 DEF WalletInv, CapInv
<1> QED
  BY <1>5, <1>6 DEF RollbackReserve

(* The settlement takes what the wallet has given to what the request came  *)
(* to.                                                                      *)
LEMMA SettleFundingCapped ==
    ASSUME Ready, NEW r \in Requests, SettleFunding(r)
    PROVE  WalletInv(r)'
<1>1. /\ pc[r] = "settleFund"
      /\ UNCHANGED <<req, funding, held, reserving, due, outcome, fee>>
  BY DEF SettleFunding, requestVars
<1>2. funding[r] = "none" => req[r].free
  BY <1>1, Numbers DEF WalletInv, CheckedInv, Unfunded
<1>3. CASE Take(r, Payer(r), Delta(r)) /\ UNCHANGED faults
  <2>1. /\ Payer(r) = (IF funding[r] = "none" THEN "wallet" ELSE funding[r])
        /\ Payer(r) \in Account /\ Delta(r) \in Int
        /\ Delta(r) = due[r] - held[r]["preConsumed"]
    BY EntryTypes, Numbers DEF Ready, Payer, Direct, Account, Source, Delta
  <2>2. ledger'[r]["wallet"] = ledger[r]["wallet"]
           + IF Payer(r) = "wallet" THEN Delta(r) ELSE 0
    BY <1>3, <2>1, TakeEffect, EntryTypes DEF Ready
  <2>3. ChargeInv(r) /\ reserving[r] = 0
    BY <1>1, Numbers DEF Ready, Bounded, StageInv
  <2>4. funding[r] = "subscription" => ledger[r]["wallet"] = 0
    BY <2>3 DEF ChargeInv, SourceInv
  <2>5. ~Strayed(r) => ledger[r]["wallet"] <= held[r]["preConsumed"]
    <3>1. ~Strayed(r) => Spent(r) = held[r]["preConsumed"]
      BY <1>1, <2>3, Numbers DEF ChargeInv, HoldInv
    <3>2. bg[r] = "idle"
      BY <1>1, Numbers DEF StageInv
    <3> QED
      BY <3>1, <3>2, Numbers DEF Spent
  <2>6. ~Strayed(r) => ledger'[r]["wallet"] <= due[r]
    BY <2>1, <2>2, <2>4, <2>5, EntryTypes, Numbers DEF Ready
  <2>7. CapInv(r)'
    <3>1. ~Strayed(r) =>
             ledger'[r]["wallet"]
                <= due'[r] + fee'[r] + held'[r]["extraReserved"] + reserving'[r]
      BY <1>1, <2>1, <2>2, <2>6, Numbers
    <3>2. Strayed(r)' <=> Strayed(r)
      BY <1>3 DEF Strayed
    <3> QED
      BY <3>1, <3>2 DEF CapInv
  <2>8. DueInv(r)' /\ CheckedInv(r)'
    BY <1>1, <1>2, Numbers DEF WalletInv, DueInv, CheckedInv, Estimate
  <2> QED
    BY <2>7, <2>8 DEF WalletInv
<1>4. CASE UNCHANGED ledger /\ (UNCHANGED faults \/ Fault(r))
  BY <1>1, <1>2, <1>4, Numbers, StillCapped
<1> QED
  BY <1>3, <1>4 DEF SettleFunding, Fault

(* Steps on the token alone.                                                *)
LEMMA TokenStepCapped ==
    ASSUME Ready, NEW r \in Requests, SettleToken(r) \/ ChargeFeeToken(r)
    PROVE  WalletInv(r)'
<1>1. /\ UNCHANGED <<req, funding, held, reserving, due, outcome, fee>>
      /\ UNCHANGED faults \/ Fault(r)
      /\ pc[r] \in {"settleToken", "feeToken"}
  BY DEF SettleToken, ChargeFeeToken, requestVars, sessionVars
<1>2. funding[r] = "none" => req[r].free
  BY <1>1, Numbers DEF WalletInv, CheckedInv, Unfunded
<1>3. ledger'[r]["wallet"] = ledger[r]["wallet"]
  <2>1. CASE UNCHANGED ledger
    BY <2>1
  <2>2. ASSUME NEW m \in Int, NEW n \in Int,
               ledger' = [ledger EXCEPT ![r]["token"] = @ + m,
                                        ![r]["limit"] = @ + n]
        PROVE  ledger'[r]["wallet"] = ledger[r]["wallet"]
    BY <2>2, ChargeEffect DEF Ready, TypeOK
  <2>3. /\ Delta(r) \in Int /\ TokenPart(r, Delta(r)) \in Int
        /\ (IF Direct(r) THEN Delta(r) ELSE 0) \in Int
        /\ Fee \in Int /\ TokenPart(r, Fee) \in Int
    BY AmountTypes, AmountsAssumption DEF Ready
  <2> QED
    BY <2>1, <2>2, <2>3 DEF SettleToken, ChargeFeeToken, Fault
<1> QED
  BY <1>1, <1>2, <1>3, Numbers, StillCapped

(* The fee is noted where it is taken.                                      *)
LEMMA ChargeFeeCapped ==
    ASSUME Ready, NEW r \in Requests, ChargeFee(r)
    PROVE  WalletInv(r)'
<1>1. /\ pc[r] = "fee"
      /\ UNCHANGED <<req, funding, held, reserving, due, outcome>>
  BY DEF ChargeFee, requestVars, sessionVars
<1>2. funding[r] = "none" => req[r].free
  BY <1>1, Numbers DEF WalletInv, CheckedInv, Unfunded
<1>3. CASE /\ Take(r, Payer(r), Fee) /\ fee' = [fee EXCEPT ![r] = Fee]
           /\ UNCHANGED faults
  <2>1. fee[r] = 0 /\ fee'[r] = Fee /\ Payer(r) \in Account
    BY <1>1, <1>3, EntryTypes
    DEF Ready, TypeOK, RowType, Bounded, ChargeInv, BoundInv, Payer, Direct,
        Account, Source
  <2>2. /\ ledger'[r]["wallet"] <= ledger[r]["wallet"] + Fee
        /\ ledger'[r]["wallet"] \in Int
    BY <1>3, <2>1, TakeEffect, Numbers DEF Ready
  <2>3. CapInv(r)'
    BY <1>1, <1>3, <2>1, <2>2, Numbers DEF WalletInv, CapInv, Strayed, Estimate
  <2>4. DueInv(r)' /\ CheckedInv(r)'
    BY <1>1, <1>2, Numbers DEF WalletInv, DueInv, CheckedInv, Estimate
  <2> QED
    BY <2>3, <2>4 DEF WalletInv
<1>4. CASE UNCHANGED <<fee, ledger>> /\ (UNCHANGED faults \/ Fault(r))
  BY <1>1, <1>2, <1>4, Numbers, StillCapped
<1> QED
  BY <1>3, <1>4 DEF ChargeFee, Fault

(* What is given back leaves less.                                          *)
LEMMA GoroutineCapped ==
    ASSUME Ready, NEW r \in Requests, Goroutine(r)
    PROVE  WalletInv(r)'
<1>1. /\ bg[r] \in {"funding", "again", "last", "extra", "token"}
      /\ UNCHANGED <<req, pc, funding, held, reserving, due, outcome, fee>>
      /\ UNCHANGED faults \/ faults' = [faults EXCEPT ![r] = @ + 1]
  BY DEF Goroutine, RefundFunding, RefundWallet, RefundSubscription,
     LateFault, Fault, RefundExtra, RefundToken, GiveBack, requestVars,
     sessionVars
<1>2. funding[r] \in Source /\ funding[r] # "none"
  BY <1>1, Numbers, EntryTypes DEF Ready, StageInv, Source
<1>3. /\ ledger'[r]["wallet"] \in Int
      /\ ledger'[r]["wallet"] <= ledger[r]["wallet"]
  <2>1. CASE UNCHANGED ledger
    BY <2>1, Numbers
  <2>2. ASSUME NEW a \in {funding[r], "token"}, NEW n \in Int, Take(r, a, -n),
               a = "token" \/ n >= 0
        PROVE  /\ ledger'[r]["wallet"] \in Int
               /\ ledger'[r]["wallet"] <= ledger[r]["wallet"]
    <3>1. -n \in Int /\ a \in Account
      BY <1>2 DEF Account
    <3>2. ledger'[r]["wallet"] = ledger[r]["wallet"]
              + IF a = "wallet" THEN -n ELSE 0
      BY <2>2, <3>1, TakeEffect DEF Ready
    <3> QED
      BY <2>2, <3>2, Numbers
  <2>3. /\ RefundAmount(r) \in Int /\ RefundAmount(r) >= 0
        /\ Extra(r) \in Int /\ Extra(r) >= 0
        /\ TokenPart(r, held[r]["tokenConsumed"]) \in Int
    BY Numbers, EntryTypes DEF Ready, RefundAmount, TokenPart, NoteInv
  <2> QED
    BY <2>1, <2>2, <2>3
    DEF Goroutine, RefundFunding, RefundWallet, RefundSubscription, LateFault,
     RefundExtra, RefundToken, GiveBack, Fault
<1> QED
  BY <1>1, <1>2, <1>3, Numbers, NothingTaken

LEMMA CrashCapped ==
    ASSUME Ready, Crash
    PROVE  Capped'
<1> SUFFICES ASSUME NEW r \in Requests
             PROVE  WalletInv(r)'
  BY DEF Capped
<1>1. UNCHANGED <<req, funding, held, reserving, ledger, due, outcome, fee, faults>>
  BY DEF Crash, requestVars, sessionVars, rowVars
<1>2. pc'[r] = pc[r] \/ pc'[r] = "crashed"
  BY DEF Crash
<1>3. funding[r] = "none" /\ ~req[r].free => pc'[r] \in Unfunded
  BY <1>2, Numbers DEF WalletInv, CheckedInv, Unfunded
<1> QED
  BY <1>1, <1>3, Numbers, StillCapped

LEMMA CappedInit ==
    ASSUME Init
    PROVE  Capped
<1> SUFFICES ASSUME NEW r \in Requests
             PROVE  WalletInv(r)
  BY DEF Capped
<1>1. /\ pc[r] = "waiting" /\ funding[r] = "none" /\ due[r] = 0
      /\ reserving[r] = 0 /\ fee[r] = 0 /\ outcome[r] = "open"
      /\ ledger[r]["wallet"] = 0 /\ held[r]["extraReserved"] = 0
  BY DEF Init, Account, Source, Amount
<1> QED
  BY <1>1 DEF WalletInv, DueInv, CapInv, CheckedInv, Unfunded

LEMMA CappedStep ==
    ASSUME Ready, [Next]_vars
    PROVE  Capped'
<1>1. CASE Crash
  BY <1>1, CrashCapped
<1>2. ASSUME NEW r \in Requests,
             Arrive(r) \/ Handler(r) \/ Panic(r) \/ Goroutine(r)
      PROVE  Capped'
  <2>1. Alone(r)
    BY <1>2, OneRequest DEF Alone, Ready
  <2>2. WalletInv(r)'
    BY <1>2, EnterCapped, TryCapped, TokenCapped, PreConsumeFundingCapped,
       MoveCapped, ReserveCapped, RollbackReserveCapped, SettleFundingCapped,
       TokenStepCapped, ChargeFeeCapped, GoroutineCapped
    DEF Handler
  <2> QED
    BY <2>1, <2>2, CappedLocality DEF Ready
<1>3. CASE UNCHANGED vars
  <2>1. UNCHANGED <<req, pc, funding, held, reserving, ledger, due, outcome, fee,
                    faults>>
    BY <1>3 DEF vars, requestVars, sessionVars, rowVars
  <2> QED
    BY <2>1 DEF Ready, Capped, WalletInv, DueInv, CapInv, CheckedInv, Strayed, Estimate
<1> QED
  BY <1>1, <1>2, <1>3 DEF Next

(* A wallet that is not in debt, a user with requests, and either no caller *)
(* of Reserve, as today, or no database error that strands what it took.    *)
Sober == InitWallet >= 0 /\ Requests # {} /\ (MaxFaults = 0 \/ ReserveTargets = {})

LEMMA CappedBounds ==
    ASSUME Sober, Ready
    PROVE  OverdraftBounded
<1> DEFINE W == [q \in Requests |-> ledger[q]["wallet"]]
           E == [q \in Requests |-> Estimate(q)]
<1> SUFFICES ASSUME \A r \in Requests :
                       /\ fee[r] = 0 /\ due[r] <= Estimate(r)
                       /\ reserving[r] + held[r]["extraReserved"] = 0
             PROVE  \E r \in Requests :
                       WalletQuota + SumFunction([q \in Requests \ {r} |-> Estimate(q)]) >= 0
  BY DEF OverdraftBounded
<1>1. \A q \in Requests : W[q] \in Int /\ E[q] \in Int /\ W[q] <= E[q]
  <2> SUFFICES ASSUME NEW q \in Requests
               PROVE  /\ ledger[q]["wallet"] \in Int /\ Estimate(q) \in Int
                      /\ ledger[q]["wallet"] <= Estimate(q)
    OBVIOUS
  <2>1. ~Strayed(q)
    BY BoundsAssumption DEF Ready, Strayed, Sober, TypeOK, RowType
  <2> QED
    BY <2>1, Numbers DEF WalletInv, CapInv
<1>2. \E r \in Requests : W[r] <= InitWallet
  <2>1. PICK r \in Requests : TRUE
    BY DEF Sober
  <2>2. CASE ledger[r]["wallet"] = 0
    BY <2>2 DEF Sober
  <2>3. CASE ledger[r]["wallet"] # 0
    <3>1. ledger[r]["wallet"] > 0 /\ ledger[r]["wallet"] <= Estimate(r)
      BY <1>1, <2>3, Numbers
    <3>2. funding[r] \in {"wallet", "subscription", "none"}
      BY EntryTypes DEF Ready
    <3>3. funding[r] # "subscription"
      BY <2>3 DEF Ready, Bounded, ChargeInv, SourceInv
    <3>4. funding[r] # "none"
      <4>1. funding[r] = "none" => req[r].free
        BY <2>3, Numbers DEF WalletInv, CheckedInv
      <4>2. req[r] \in Profiles
        BY DEF Ready, TypeOK, RequestType
      <4>3. req[r].free => Estimate(r) = 0
        BY <4>2, FreeAssumption DEF Estimate
      <4> QED
        BY <3>1, <4>1, <4>3, Numbers
    <3>5. Estimate(r) <= InitWallet
      BY <3>2, <3>3, <3>4, Numbers DEF WalletInv, CheckedInv
    <3> QED
      BY <3>1, <3>5, Numbers
  <2> QED
    BY <2>2, <2>3
<1>3. PICK r \in Requests : W[r] <= InitWallet
  BY <1>2
<1>4. WalletQuota = InitWallet - SumFunctionOnSet(W, Requests)
  <2>1. DOMAIN W = Requests
    OBVIOUS
  <2> QED
    BY <2>1 DEF WalletQuota, Taken, SumFunction
<1> DEFINE O == Requests \ {r}
           WO == [q \in O |-> ledger[q]["wallet"]]
           EO == [q \in O |-> Estimate(q)]
<1>5. /\ IsFiniteSet(O) /\ WO \in [O -> Int] /\ EO \in [O -> Int]
      /\ \A q \in O : WO[q] <= EO[q] /\ W[q] \in Int /\ W[q] = WO[q]
  BY <1>1, FS_Subset, RequestsAssumption
<1> HIDE DEF W, E, O, WO
<1>6. /\ SumFunction(WO) <= SumFunction(EO)
      /\ SumFunction(WO) \in Int /\ SumFunction(EO) \in Int
  BY <1>5, SumUpTo, SumType
<1>7. SumFunctionOnSet(W, O) = SumFunction(WO)
  <2>1. DOMAIN WO = O
    BY <1>5
  <2> QED
    BY <1>5, <2>1, SameSum DEF SumFunction
<1>8. SumFunctionOnSet(W, Requests) = W[r] + SumFunctionOnSet(W, O)
  BY <1>1, SumOver, RequestsAssumption DEF O
<1>9. WalletQuota + SumFunction(EO) >= 0
  BY <1>1, <1>3, <1>4, <1>6, <1>7, <1>8, AmountsAssumption
<1> QED
  BY <1>9 DEF O

(* Racing requests may overdraw the wallet, but as long as none is trusted, *)
(* reserves or costs more than its estimate and no fee is due, by no more   *)
(* than the estimates of all requests but one (the balance check of         *)
(* tryWallet is not atomic with WalletFunding.PreConsume).                  *)
THEOREM OverdraftIsBounded == Sober => (Spec => []OverdraftBounded)
<1> SUFFICES ASSUME Sober
             PROVE  Spec => []OverdraftBounded
  OBVIOUS
<1>1. Init => Bounded /\ Capped
  BY BoundedInit, CappedInit
<1>2. TypeOK /\ SafeInv /\ Exact /\ Bounded /\ Capped /\ [Next]_vars
        => (Bounded /\ Capped)'
  BY BoundedStep, CappedStep DEF Ready
<1>3. TypeOK /\ SafeInv /\ Exact /\ Bounded /\ Capped => OverdraftBounded
  BY CappedBounds DEF Ready
<1> QED
  BY <1>1, <1>2, <1>3, Exactness, PTL DEF Spec
=============================================================================
