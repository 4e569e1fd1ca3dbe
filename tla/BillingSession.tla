---------------------------- MODULE BillingSession ----------------------------
(***************************************************************************)
(* The life of relay requests through the unified billing session          *)
(* (service/billing_session.go, service/funding_source.go) as the relay    *)
(* handlers drive it (controller/relay.go): pre-consumption from the API   *)
(* token and one funding source, fallback between the sources, upstream    *)
(* attempts, settlement, asynchronous refund, violation fee.               *)
(*                                                                         *)
(* All requests belong to one user and carry one API token, the case in    *)
(* which they interfere.  A balance is the initial value of its row minus  *)
(* what each request has taken from it, so `ledger' records per request    *)
(* what the SQL increments of model/user.go, model/token.go and            *)
(* model/subscription.go have done to each row.                            *)
(***************************************************************************)
EXTENDS Integers, FiniteSets, Functions

CONSTANTS
    Requests,         \* requests of the user
    Profiles,         \* what a request may ask for
    Costs,            \* what an attempt may turn out to cost
    ReserveTargets,   \* arguments of Reserve (no caller passes one today)
    Fee,              \* violation fee; 0 when the deduction is disabled
    RetryTimes,       \* common.RetryTimes
    TrustQuota,       \* common.GetTrustQuota()
    InitWallet, InitToken, TokenUnlimited,
    HasSubscription,  \* the user holds an active subscription
    SubLimited,       \* its AmountTotal is not 0
    MaxFaults,        \* database errors a request may meet
    MayPanic,         \* a relay handler may panic
    MayCrash          \* the process may be killed

Preferences == {"subscription_only", "wallet_only",
                "wallet_first", "subscription_first"}

Profile == [kind : {"relay", "task"}, pref : Preferences,
            est : Nat, free : BOOLEAN, playground : BOOLEAN]

ASSUME RequestsAssumption == IsFiniteSet(Requests)
ASSUME ProfilesAssumption == Profiles \subseteq Profile
(* A model priced at nothing is estimated at nothing.                       *)
ASSUME FreeAssumption == \A p \in Profiles : p.free => p.est = 0
ASSUME AmountsAssumption ==
    /\ Costs \subseteq Nat
    /\ ReserveTargets \subseteq Nat
    /\ Fee \in Nat /\ TrustQuota \in Nat
    /\ InitWallet \in Int /\ InitToken \in Int
ASSUME BoundsAssumption == RetryTimes \in Nat /\ MaxFaults \in Nat
ASSUME SwitchesAssumption ==
    {TokenUnlimited, HasSubscription, SubLimited, MayPanic, MayCrash}
        \subseteq BOOLEAN

VARIABLES
    req,        \* req[r]: the profile of r, fixed when it arrives
    tokenRich,  \* tokenRich[r]: "token_quota" in the context was above trust
    retry,      \* retry[r]: RetryParam.Retry
    due,        \* due[r]: the quota the response turned out to cost
    outcome,    \* outcome[r]: how the upstream exchange ended
    pc,         \* pc[r]: where the handler of r is
    bg,         \* bg[r]: where the refund goroutine of r is
    funding,    \* funding[r]: the source of the session of r
    flags,      \* flags[r]: the boolean fields of the session that are set
    held,       \* held[r]: the amounts the session keeps
    reserving,  \* reserving[r]: the delta of a Reserve call under way
    why,        \* why[r]: the error class that ended the last pre-consume
    fee,        \* fee[r]: violation fee taken from the funding source
    faults,     \* faults[r]: database errors r has met
    ledger      \* ledger[r][a]: net amount r has taken from row a

requestVars == <<req, tokenRich, retry, due, outcome>>
sessionVars == <<funding, flags, held, reserving, why>>
rowVars     == <<fee, faults, ledger>>
vars == <<requestVars, pc, bg, sessionVars, rowVars>>

Source == {"wallet", "subscription"}
Account == Source \cup {"token", "limit"}
Flag == {"trusted", "fundingSettled", "settled", "refunded"}
Amount == {"preConsumed", "tokenConsumed", "fundConsumed", "extraReserved"}

PC == {"waiting", "arrived", "wallet", "subscription", "tokenRead",
       "tokenDebit", "fund", "rollback", "rejected", "upstream",
       "reserveRollback", "settleFund", "settleToken", "log", "refund",
       "fee", "feeToken", "done", "crashed"}
BG == {"idle", "funding", "again", "last", "extra", "token", "finished",
       "crashed"}

Working(r) == pc[r] \notin {"waiting", "done", "crashed"}
Refunding(r) == bg[r] \in {"funding", "again", "last", "extra", "token"}
Playground(r) == req[r].playground
Estimate(r) == req[r].est
TokenPart(r, n) == IF Playground(r) THEN 0 ELSE n

Goto(r, l) == pc' = [pc EXCEPT ![r] = l]
Note(r, n) == held' = [held EXCEPT ![r] = n]
Set(r, f) == flags' = [flags EXCEPT ![r] = @ \cup f]

(* A BillingSession as NewBillingSession makes it, and none at all.         *)
Start(r, source, f) ==
    /\ funding' = [funding EXCEPT ![r] = source]
    /\ flags' = [flags EXCEPT ![r] = f]
    /\ Note(r, [a \in Amount |-> 0])
Drop(r) == Start(r, "none", {})

-----------------------------------------------------------------------------
(* The database rows.                                                       *)

Taken(a) == SumFunction([r \in Requests |-> ledger[r][a]])
WalletQuota == InitWallet - Taken("wallet")
TokenRemain == InitToken - Taken("token")

(* One UPDATE of row a by n, a negative n giving back.                      *)
Take(r, a, n) == ledger' = [ledger EXCEPT ![r][a] = @ + n]

(* A database call of r fails and changes nothing.                          *)
Fault(r) == /\ faults[r] < MaxFaults
            /\ faults' = [faults EXCEPT ![r] = @ + 1]
            /\ UNCHANGED ledger

(* It fails although a transaction inside it has been committed.            *)
LateFault(r, a, n) == /\ faults[r] < MaxFaults
                      /\ faults' = [faults EXCEPT ![r] = @ + 1]
                      /\ Take(r, a, n)

(* PostConsumeUserSubscriptionDelta does not pass AmountTotal.  Whether a   *)
(* row has room is up to its other requests, its resets and the rows saved  *)
(* over it (SubscriptionQuota): a limited one may refuse or take any more.  *)
MayRefuse(a, n) == a = "subscription" /\ SubLimited /\ n > 0

-----------------------------------------------------------------------------
(* Arrival and the choice of a funding source.                              *)

(* TokenAuth puts the token's quota in the context before any handler runs. *)
Arrive(r) ==
    /\ pc[r] = "waiting"
    /\ tokenRich' = [tokenRich EXCEPT ![r] = TokenRemain > TrustQuota]
    /\ Goto(r, "arrived")
    /\ UNCHANGED <<req, retry, due, outcome, bg, sessionVars, rowVars>>

FirstSource(r) ==
    IF \/ req[r].pref = "subscription_only"
       \/ req[r].pref = "subscription_first" /\ HasSubscription
    THEN "subscription" ELSE "wallet"

\* Mutant: either source falls back to the other, whatever the preference.
FallsBackForEver(r, source) ==
    IF source = "wallet" THEN "subscription" ELSE "wallet"

(* The source that is tried when `source' could not cover the request.      *)
FallsBackTo(r, source) ==
    IF req[r].pref = "wallet_first" /\ source = "wallet" THEN "subscription"
    ELSE IF req[r].pref = "subscription_first" /\ source = "subscription"
         THEN "wallet"
    ELSE "rejected"

(* Relay or RelayTaskSubmit reaches PreConsumeBilling, or skips it.         *)
ChooseFunding(r) ==
    /\ pc[r] = "arrived"
    /\ \/ /\ Goto(r, IF req[r].free THEN "upstream" ELSE FirstSource(r))
          /\ UNCHANGED <<faults, ledger>>
       \/ /\ ~req[r].free /\ req[r].pref = "subscription_first"
          /\ Fault(r)             \* HasActiveUserSubscription fails
          /\ Goto(r, "rejected")
    /\ UNCHANGED <<requestVars, bg, sessionVars, fee>>

(* shouldTrust with the wallet as source.                                   *)
Trusts(r) == /\ req[r].kind # "task"           \* ForcePreConsume
             /\ TrustQuota > 0
             /\ TokenUnlimited \/ tokenRich[r]
             /\ WalletQuota > TrustQuota

(* The balance check of tryWallet.                                          *)
Affords(r) == WalletQuota > 0 /\ Estimate(r) <= WalletQuota

(* tryWallet reads the balance; the debit comes in later steps.             *)
TryWallet(r) ==
    /\ pc[r] = "wallet"
    /\ \/ /\ Affords(r)
          /\ Start(r, "wallet", IF Trusts(r) THEN {"trusted"} ELSE {})
          /\ Goto(r, IF Trusts(r) \/ Estimate(r) = 0 THEN "fund"
                                                      ELSE "tokenRead")
          /\ UNCHANGED <<faults, ledger>>
       \/ /\ ~Affords(r)
          /\ Goto(r, FallsBackTo(r, "wallet"))
          /\ UNCHANGED <<funding, flags, held, faults, ledger>>
       \/ /\ Fault(r)             \* GetUserQuota fails
          /\ Goto(r, "rejected")
          /\ UNCHANGED <<funding, flags, held>>
    /\ UNCHANGED <<requestVars, bg, reserving, why, fee>>

TrySubscription(r) ==
    /\ pc[r] = "subscription"
    /\ Start(r, "subscription", {})
    /\ Goto(r, "tokenRead")
    /\ UNCHANGED <<requestVars, bg, reserving, why, rowVars>>

-----------------------------------------------------------------------------
(* preConsume: token first, then the funding source.                        *)

\* Mutant: the trust bypass sets the flag but not the effective quota.
EffectiveUntrusting(r) ==
    IF funding[r] = "subscription" /\ Estimate(r) = 0 THEN 1 ELSE Estimate(r)

(* subConsume is at least 1; a trusted session holds nothing.               *)
Effective(r) ==
    IF "trusted" \in flags[r] THEN 0
    ELSE IF funding[r] = "subscription" /\ Estimate(r) = 0 THEN 1
    ELSE Estimate(r)

(* The argument of the PreConsumeTokenQuota call under way.                 *)
TokenAsk(r) == IF reserving[r] > 0 THEN reserving[r] ELSE Effective(r)

\* Mutant: the session does not note that the token has been charged.
TokenCoveredUnnoted(r) ==
    /\ reserving' = [reserving EXCEPT ![r] = 0]
    /\ Goto(r, IF reserving[r] > 0 THEN "upstream" ELSE "fund")
    /\ UNCHANGED <<funding, flags, held>>

(* What follows once the token covers the call ...                          *)
TokenCovered(r) ==
    /\ held' = IF reserving[r] > 0
               THEN [held EXCEPT ![r]["preConsumed"]   = @ + reserving[r],
                                 ![r]["tokenConsumed"] = @ + reserving[r],
                                 ![r]["extraReserved"] = @ + reserving[r]]
               ELSE [held EXCEPT ![r]["tokenConsumed"] = Effective(r)]
    /\ reserving' = [reserving EXCEPT ![r] = 0]
    /\ Goto(r, IF reserving[r] > 0 THEN "upstream" ELSE "fund")
    /\ UNCHANGED <<funding, flags>>

(* ... and once it does not: PreConsumeTokenQuotaFailed has no fallback.    *)
TokenRefused(r) ==
    /\ \/ /\ reserving[r] > 0
          /\ Goto(r, "reserveRollback")
          /\ UNCHANGED <<funding, flags, held>>
       \/ /\ reserving[r] = 0
          /\ Goto(r, "rejected")
          /\ Drop(r)
    /\ UNCHANGED reserving

(* PreConsumeTokenQuota reads the row and compares ...                      *)
ReadToken(r) ==
    /\ pc[r] = "tokenRead"
    /\ \/ /\ Playground(r)
          /\ TokenCovered(r)
          /\ UNCHANGED <<faults, ledger>>
       \/ /\ ~Playground(r) /\ (TokenUnlimited \/ TokenRemain >= TokenAsk(r))
          /\ Goto(r, "tokenDebit")
          /\ UNCHANGED <<funding, flags, held, reserving, faults, ledger>>
       \/ /\ ~Playground(r) /\ ~TokenUnlimited /\ TokenRemain < TokenAsk(r)
          /\ TokenRefused(r)
          /\ UNCHANGED <<faults, ledger>>
       \/ ~Playground(r) /\ Fault(r) /\ TokenRefused(r)
    /\ UNCHANGED <<requestVars, bg, why, fee>>

(* ... and decrements in a statement of its own.                            *)
DebitToken(r) ==
    /\ pc[r] = "tokenDebit"
    /\ \/ Take(r, "token", TokenAsk(r)) /\ TokenCovered(r) /\ UNCHANGED faults
       \/ Fault(r) /\ TokenRefused(r)
    /\ UNCHANGED <<requestVars, bg, why, fee>>

(* WalletFunding.PreConsume, SubscriptionFunding.PreConsume: the latter     *)
(* looks for an active subscription that has room.                          *)
MayCover(r) == funding[r] = "wallet" \/ HasSubscription
MayLack(r) == funding[r] = "subscription" /\ (HasSubscription => SubLimited)

(* A failed query for active subscriptions reads as "no active              *)
(* subscription", which the fallback takes for an insufficient quota.       *)
PreConsumeFunding(r) ==
    /\ pc[r] = "fund"
    /\ \/ /\ MayCover(r)
          /\ Take(r, funding[r], Effective(r))
          /\ held' = [held EXCEPT ![r]["fundConsumed"] = Effective(r),
                                  ![r]["preConsumed"]  = Effective(r)]
          /\ Goto(r, "upstream")
          /\ UNCHANGED <<why, faults>>
       \/ /\ MayLack(r)
          /\ why' = [why EXCEPT ![r] = "insufficient"]
          /\ Goto(r, "rollback")
          /\ UNCHANGED <<held, faults, ledger>>
       \/ /\ Effective(r) > 0 /\ Fault(r)
          /\ \E w \in {"error"} \cup IF funding[r] = "wallet" THEN {}
                                                             ELSE {"insufficient"} :
                why' = [why EXCEPT ![r] = w]
          /\ Goto(r, "rollback")
          /\ UNCHANGED held
    /\ UNCHANGED <<requestVars, bg, funding, flags, reserving, fee>>

(* The token is given back; a failure to do so is only logged.              *)
RollbackToken(r) ==
    LET n == TokenPart(r, held[r]["tokenConsumed"])
    IN  /\ pc[r] = "rollback"
        /\ \/ Take(r, "token", -n) /\ UNCHANGED faults
           \/ n > 0 /\ Fault(r)
        /\ Goto(r, IF why[r] = "insufficient" THEN FallsBackTo(r, funding[r])
                                              ELSE "rejected")
        /\ Drop(r)
        /\ why' = [why EXCEPT ![r] = "none"]
        /\ UNCHANGED <<requestVars, bg, reserving, fee>>

\* Mutant: one retry too many.
MayRetryOnceMore(r) == retry[r] <= RetryTimes

(* The loop condition of the retry loops and of shouldRetryTaskRelay.       *)
MayRetry(r) == retry[r] < RetryTimes

(* A rejected relay request ends before the refund is deferred; a rejected  *)
(* task submission is an attempt that failed and may be tried again.        *)
Rejected(r) ==
    /\ pc[r] = "rejected"
    /\ \/ /\ outcome' = [outcome EXCEPT ![r] = "rejected"]
          /\ Goto(r, "done")
          /\ UNCHANGED retry
       \/ /\ req[r].kind = "task" /\ MayRetry(r)
          /\ retry' = [retry EXCEPT ![r] = @ + 1]
          /\ Goto(r, "arrived")
          /\ UNCHANGED outcome
    /\ UNCHANGED <<req, tokenRich, due, bg, sessionVars, rowVars>>

-----------------------------------------------------------------------------
(* Upstream attempts.                                                       *)

(* An attempt fails: another one, or the error is final.                    *)
AttemptFails(r) ==
    /\ pc[r] = "upstream"
    /\ \/ /\ MayRetry(r)
          /\ retry' = [retry EXCEPT ![r] = @ + 1]
          /\ UNCHANGED <<pc, outcome>>
       \/ /\ Goto(r, "refund")
          /\ outcome' = [outcome EXCEPT ![r] = "failed"]
          /\ UNCHANGED retry
    /\ UNCHANGED <<req, tokenRich, due, bg, sessionVars, rowVars>>

(* An attempt succeeds and its usage has a price.                           *)
AttemptSucceeds(r) ==
    /\ pc[r] = "upstream"
    /\ \E q \in Costs : due' = [due EXCEPT ![r] = q]
    /\ outcome' = [outcome EXCEPT ![r] = "served"]
    /\ Goto(r, "settleFund")
    /\ UNCHANGED <<req, tokenRich, retry, bg, sessionVars, rowVars>>

(* Of a Reserve that is under way the wallet's share counts as consumed.    *)
NoteReserve(r, n) ==
    held' = IF funding[r] = "wallet"
            THEN [held EXCEPT ![r]["fundConsumed"] = @ + n] ELSE held

(* Reserve raises what is held to `target': funding source first ...        *)
Reserve(r, target) ==
    LET delta == target - held[r]["preConsumed"]
    IN  /\ pc[r] = "upstream"
        /\ funding[r] # "none" /\ "trusted" \notin flags[r] /\ delta > 0
        /\ Take(r, funding[r], delta)
        /\ reserving' = [reserving EXCEPT ![r] = delta]
        /\ NoteReserve(r, delta)
        /\ Goto(r, "tokenRead")
        /\ UNCHANGED <<requestVars, bg, funding, flags, why, fee, faults>>

(* ... which is rolled back when the token refuses.                         *)
RollbackReserve(r) ==
    /\ pc[r] = "reserveRollback"
    /\ \/ /\ Take(r, funding[r], -reserving[r])
          /\ NoteReserve(r, -reserving[r])
          /\ UNCHANGED faults
       \/ Fault(r) /\ UNCHANGED held
    /\ reserving' = [reserving EXCEPT ![r] = 0]
    /\ Goto(r, "upstream")
    /\ UNCHANGED <<requestVars, bg, funding, flags, why, fee>>

-----------------------------------------------------------------------------
(* SettleBilling: through the session, or PostConsumeQuota without one.     *)

Direct(r) == funding[r] = "none"

\* Mutant: the difference is taken to the estimate, not to what was held.
DeltaToEstimate(r) == due[r] - Estimate(r)

\* Mutant: what is held is charged again.
DeltaInFull(r) == due[r]

Delta(r) == due[r] - held[r]["preConsumed"]

\* Mutant: PostConsumeQuota forgets that the session is a subscription's.
PayerWallet(r) == "wallet"

(* The source PostConsumeQuota and Settle charge.                           *)
Payer(r) == IF Direct(r) THEN "wallet" ELSE funding[r]

SettleFunding(r) ==
    /\ pc[r] = "settleFund"
    /\ \/ /\ Delta(r) = 0
          /\ IF Direct(r) THEN UNCHANGED flags ELSE Set(r, {"settled"})
          /\ Goto(r, "log")
          /\ UNCHANGED <<faults, ledger>>
       \/ /\ Delta(r) # 0
          /\ Take(r, Payer(r), Delta(r))
          /\ IF Direct(r) THEN UNCHANGED flags ELSE Set(r, {"fundingSettled"})
          /\ Goto(r, "settleToken")
          /\ UNCHANGED faults
       \/ /\ MayRefuse(Payer(r), Delta(r))
          /\ Goto(r, "log")       \* the error is only logged
          /\ UNCHANGED <<flags, faults, ledger>>
       \/ /\ Delta(r) # 0 /\ Fault(r)
          /\ Goto(r, "log")
          /\ UNCHANGED flags
    /\ UNCHANGED <<requestVars, bg, funding, held, reserving, why, fee>>

(* The token follows, and the session is settled whether or not it could.   *)
(* PostConsumeQuota then counts the amount towards the enterprise limits.   *)
SettleToken(r) ==
    /\ pc[r] = "settleToken"
    /\ \/ /\ ledger' = [ledger EXCEPT
                ![r]["token"] = @ + TokenPart(r, Delta(r)),
                ![r]["limit"] = @ + IF Direct(r) THEN Delta(r) ELSE 0]
          /\ UNCHANGED faults
       \/ ~Playground(r) /\ Fault(r)
    /\ IF Direct(r) THEN UNCHANGED flags ELSE Set(r, {"settled"})
    /\ Goto(r, "log")
    /\ UNCHANGED <<requestVars, bg, funding, held, reserving, why, fee>>

(* The consume log, the used-quota counters and, for a task, its row.       *)
Log(r) ==
    /\ pc[r] = "log"
    /\ Goto(r, "done")
    /\ UNCHANGED <<requestVars, bg, sessionVars, rowVars>>

(* A panic runs the deferred refund with the error of the attempt before:   *)
(* none on the first attempt, nor once a task has been submitted.           *)
(* RelayPanicRecover answers 500.                                           *)
Panic(r) ==
    /\ MayPanic
    /\ pc[r] \in {"upstream", "settleFund", "settleToken", "log"}
    /\ Goto(r, IF retry[r] > 0 /\ (req[r].kind = "relay" \/ pc[r] = "upstream")
               THEN "refund" ELSE "done")
    /\ outcome' = [outcome EXCEPT ![r] = "panicked"]
    /\ UNCHANGED <<req, tokenRich, retry, due, bg, sessionVars, rowVars>>

-----------------------------------------------------------------------------
(* Refund, its goroutine and the violation fee.                             *)

\* Mutant: the guards on an earlier settlement are missing.
NeedsRefundUnguarded(r) ==
    /\ funding[r] # "none" /\ "refunded" \notin flags[r]
    /\ held[r]["tokenConsumed"] > 0

\* Mutant: only what a subscription holds is thought to need a refund.
NeedsRefundOfSubscription(r) ==
    /\ funding[r] = "subscription" /\ held[r]["fundConsumed"] > 0
    /\ flags[r] \cap {"settled", "refunded", "fundingSettled"} = {}

(* needsRefundLocked.                                                       *)
NeedsRefund(r) ==
    /\ funding[r] # "none"
    /\ flags[r] \cap {"settled", "refunded", "fundingSettled"} = {}
    /\ \/ held[r]["tokenConsumed"] > 0
       \/ funding[r] = "subscription" /\ held[r]["fundConsumed"] > 0

(* The deferred Refund marks the session and leaves the work to gopool.     *)
Refund(r) ==
    /\ pc[r] = "refund"
    /\ IF NeedsRefund(r)
       THEN Set(r, {"refunded"}) /\ bg' = [bg EXCEPT ![r] = "funding"]
       ELSE UNCHANGED <<flags, bg>>
    /\ Goto(r, IF req[r].kind = "relay" THEN "fee" ELSE "done")
    /\ UNCHANGED <<requestVars, funding, held, reserving, why, rowVars>>

(* WalletFunding.consumed, the PreConsumed of the subscription's record.    *)
RefundAmount(r) == held[r]["fundConsumed"]

(* What Reserve added is not part of the subscription's own record.         *)
Extra(r) == IF funding[r] = "subscription" THEN held[r]["extraReserved"] ELSE 0

(* One call of the goroutine, whose error is only logged.                   *)
GiveBack(r, from, a, n, to) ==
    /\ bg[r] = from
    /\ \/ Take(r, a, -n) /\ UNCHANGED faults
       \/ n > 0 /\ Fault(r)
    /\ bg' = [bg EXCEPT ![r] = to]
    /\ UNCHANGED <<requestVars, pc, sessionVars, fee>>

(* WalletFunding.Refund tries once: the increment is not idempotent.        *)
RefundWallet(r) ==
    /\ funding[r] = "wallet"
    /\ GiveBack(r, "funding", "wallet", RefundAmount(r), "extra")

Attempts == {"funding", "again", "last"}
AfterFailed(attempt) == IF attempt = "funding" THEN "again"
                        ELSE IF attempt = "again" THEN "last" ELSE "extra"

(* SubscriptionFunding.Refund: refundWithRetry tries three times, and an    *)
(* attempt of RefundSubscriptionPreConsume that fails may have committed    *)
(* the transaction inside it, which gives the amount back, before the one   *)
(* that marks the record as refunded failed.                                *)
RefundSubscription(r) ==
    /\ funding[r] = "subscription" /\ bg[r] \in Attempts
    /\ \/ /\ Take(r, "subscription", -RefundAmount(r))
          /\ bg' = [bg EXCEPT ![r] = "extra"]
          /\ UNCHANGED faults
       \/ /\ RefundAmount(r) > 0
          /\ Fault(r) \/ LateFault(r, "subscription", -RefundAmount(r))
          /\ bg' = [bg EXCEPT ![r] = AfterFailed(@)]
    /\ UNCHANGED <<requestVars, pc, sessionVars, fee>>

RefundFunding(r) == RefundWallet(r) \/ RefundSubscription(r)
RefundExtra(r) == GiveBack(r, "extra", funding[r], Extra(r), "token")
RefundToken(r) ==
    GiveBack(r, "token", "token", TokenPart(r, held[r]["tokenConsumed"]),
             "finished")

(* ChargeViolationFeeIfNeeded runs while the refund may still be pending.   *)
(* An error that has been retried, the only one a panic leaves behind, is   *)
(* no violation: those carry ErrOptionWithSkipRetry.                        *)
ChargeFee(r) ==
    /\ pc[r] = "fee"
    /\ \/ /\ Fee > 0 /\ outcome[r] = "failed"
          /\ Take(r, Payer(r), Fee)
          /\ fee' = [fee EXCEPT ![r] = Fee]
          /\ Goto(r, "feeToken")
          /\ UNCHANGED faults
       \/ /\ Fee > 0 /\ outcome[r] = "failed" /\ Fault(r)
          /\ Goto(r, "done")
          /\ UNCHANGED fee
       \/ /\ Goto(r, "done")       \* no violation, or the fee is refused
          /\ UNCHANGED <<fee, faults, ledger>>
    /\ UNCHANGED <<requestVars, bg, sessionVars>>

ChargeFeeToken(r) ==
    /\ pc[r] = "feeToken"
    /\ \/ /\ ledger' = [ledger EXCEPT ![r]["token"] = @ + TokenPart(r, Fee),
                                      ![r]["limit"] = @ + Fee]
          /\ UNCHANGED faults
       \/ ~Playground(r) /\ Fault(r)
    /\ Goto(r, "done")
    /\ UNCHANGED <<requestVars, bg, sessionVars, fee>>

-----------------------------------------------------------------------------
(* The process is killed: handlers and goroutines under way are lost, the   *)
(* rows stay, and requests that arrive later are served by the next one.    *)
Crash ==
    /\ MayCrash
    /\ \E r \in Requests : Working(r) \/ Refunding(r)
    /\ pc' = [r \in Requests |-> IF Working(r) THEN "crashed" ELSE pc[r]]
    /\ bg' = [r \in Requests |-> IF Refunding(r) THEN "crashed" ELSE bg[r]]
    /\ UNCHANGED <<requestVars, sessionVars, rowVars>>

Init ==
    /\ req \in [Requests -> Profiles]
    /\ tokenRich = [r \in Requests |-> FALSE]
    /\ retry = [r \in Requests |-> 0]
    /\ due = [r \in Requests |-> 0]
    /\ outcome = [r \in Requests |-> "open"]
    /\ pc = [r \in Requests |-> "waiting"]
    /\ bg = [r \in Requests |-> "idle"]
    /\ funding = [r \in Requests |-> "none"]
    /\ flags = [r \in Requests |-> {}]
    /\ held = [r \in Requests |-> [a \in Amount |-> 0]]
    /\ reserving = [r \in Requests |-> 0]
    /\ why = [r \in Requests |-> "none"]
    /\ fee = [r \in Requests |-> 0]
    /\ faults = [r \in Requests |-> 0]
    /\ ledger = [r \in Requests |-> [a \in Account |-> 0]]

Handler(r) ==
    \/ ChooseFunding(r) \/ TryWallet(r) \/ TrySubscription(r)
    \/ ReadToken(r) \/ DebitToken(r) \/ PreConsumeFunding(r)
    \/ RollbackToken(r) \/ Rejected(r)
    \/ AttemptFails(r) \/ AttemptSucceeds(r)
    \/ \E n \in ReserveTargets : Reserve(r, n)
    \/ RollbackReserve(r)
    \/ SettleFunding(r) \/ SettleToken(r) \/ Log(r)
    \/ Refund(r) \/ ChargeFee(r) \/ ChargeFeeToken(r)

Goroutine(r) == RefundFunding(r) \/ RefundExtra(r) \/ RefundToken(r)

Next == \/ \E r \in Requests : \/ Arrive(r) \/ Handler(r) \/ Panic(r)
                               \/ Goroutine(r)
        \/ Crash

Spec == Init /\ [][Next]_vars

(* A handler goroutine and a gopool worker are scheduled as long as the     *)
(* process runs; requests need not arrive.                                  *)
Fairness == \A r \in Requests : WF_vars(Handler(r)) /\ WF_vars(Goroutine(r))
FairSpec == Spec /\ Fairness

-----------------------------------------------------------------------------
RequestType ==
    /\ req \in [Requests -> Profiles]
    /\ tokenRich \in [Requests -> BOOLEAN]
    /\ retry \in [Requests -> 0..RetryTimes]
    /\ due \in [Requests -> Nat]
    /\ outcome \in [Requests -> {"open", "rejected", "failed", "served",
                                 "panicked"}]
ControlType == pc \in [Requests -> PC] /\ bg \in [Requests -> BG]
SessionType ==
    /\ funding \in [Requests -> Source \cup {"none"}]
    /\ flags \in [Requests -> SUBSET Flag]
    /\ held \in [Requests -> [Amount -> Int]]
    /\ reserving \in [Requests -> Nat]
    /\ why \in [Requests -> {"none", "insufficient", "error"}]
RowType ==
    /\ fee \in [Requests -> {0, Fee}]
    /\ faults \in [Requests -> 0..MaxFaults]
    /\ ledger \in [Requests -> [Account -> Int]]

(* Every variable keeps the type the Go structs give it.                    *)
TypeOK == RequestType /\ ControlType /\ SessionType /\ RowType

Settled(r) == "settled" \in flags[r]
FundingSettled(r) == "fundingSettled" \in flags[r]
Spent(r) == ledger[r]["wallet"] + ledger[r]["subscription"]
Ended(r) == pc[r] = "done" /\ bg[r] \in {"idle", "finished"}

(* A request that was served and whose settlement met no database error has *)
(* cost its user exactly what the response came to, all of it from the      *)
(* source that held the estimate, and has cost the token the same; the one  *)
(* exception is a subscription that cannot take the surplus, which keeps    *)
(* the session unsettled at what was held (Settle, SettleBilling).          *)
ServedPaysExactly ==
    \A r \in Requests :
        Ended(r) /\ outcome[r] = "served" /\ faults[r] = 0 =>
            LET source == IF Direct(r) THEN "wallet" ELSE funding[r]
                paid   == IF Direct(r) \/ Settled(r)
                          THEN due[r] ELSE held[r]["preConsumed"]
            IN  /\ ledger[r][source] = paid
                /\ ledger[r]["token"] = TokenPart(r, paid)
                /\ funding[r] = "wallet" => Settled(r)

(* A request that was refused or that failed for good has cost nothing but  *)
(* its violation fee once the refund goroutine is through: every partial    *)
(* pre-consumption, fallback and reserve has been undone (preConsume,       *)
(* Refund, ChargeViolationFeeIfNeeded).                                     *)
FailedPaysNothing ==
    \A r \in Requests :
        Ended(r) /\ outcome[r] \in {"failed", "rejected"} /\ faults[r] = 0 =>
            /\ Spent(r) = fee[r]
            /\ ledger[r]["token"] = TokenPart(r, fee[r])

(* Whatever fails and whenever the process dies, wallet, token and limit    *)
(* are given back no more than the request took: their increments are not   *)
(* idempotent, so one applied twice would create quota.  A subscription may *)
(* be given back its hold once too often for each error the request met,    *)
(* and never without one (Refund, refundWithRetry, Settle, the rollbacks).  *)
NeverOverRefunded ==
    \A r \in Requests :
        /\ \A a \in Account \ {"subscription"} : ledger[r][a] >= 0
        /\ ledger[r]["subscription"] + faults[r] * RefundAmount(r) >= 0

(* Whatever fails and whenever the process dies, one request never costs    *)
(* both sources, nor more than the largest of what was asked to be held and *)
(* what the response came to, plus the fee (NewBillingSession's fallbacks,  *)
(* preConsume, Settle).  Only a Reserve whose rollback fails may leave more *)
(* on a subscription.                                                       *)
NeverOvercharged ==
    \A r \in Requests :
        /\ \E a \in Source : ledger[r][a] = 0
        /\ \/ \E n \in {1, due[r], Estimate(r)} \cup ReserveTargets :
                 Spent(r) <= n + fee[r]
           \/ ReserveTargets # {} /\ faults[r] > 0

(* A session is never both settled and refunded, although Settle does not   *)
(* look at refunded and a panic may run the deferred Refund of a request    *)
(* that was already settled.                                                *)
SettledXorRefunded ==
    \A r \in Requests :
        "refunded" \in flags[r] => ~Settled(r) /\ ~FundingSettled(r)

(* While the upstream is at work the three numbers the comment in           *)
(* NewBillingSession asks to agree do agree: what the funding source has    *)
(* given, what the token has given and preConsumedQuota.                    *)
HoldsAgree ==
    \A r \in Requests :
        pc[r] = "upstream" /\ ~Direct(r) /\ faults[r] = 0 =>
            /\ Spent(r) = held[r]["preConsumed"]
            /\ ledger[r]["token"] = TokenPart(r, held[r]["preConsumed"])

(* The balance check of tryWallet and the debit are separate statements, so *)
(* racing requests may overdraw the wallet; as long as none is trusted,     *)
(* reserves or costs more than its estimate and no fee is due, by no more   *)
(* than the estimates of all requests but one.                              *)
OverdraftBounded ==
    (\A r \in Requests :
        /\ "trusted" \notin flags[r] /\ fee[r] = 0
        /\ due[r] <= Estimate(r) /\ reserving[r] + held[r]["extraReserved"] = 0)
    => \E r \in Requests :
          WalletQuota + SumFunction([q \in Requests \ {r} |-> Estimate(q)]) >= 0

(* Unless the process is killed, a failed request gets everything back in   *)
(* the end: the goroutine Refund leaves behind is run, and nothing it needs *)
(* can be gone by then.                                                     *)
FailureReturned ==
    \A r \in Requests :
        outcome[r] = "failed" ~> \/ "crashed" \in {pc[r], bg[r]}
                                 \/ Ended(r) /\ (faults[r] = 0 => Spent(r) = fee[r])

(* Every request that arrives is answered unless the process is killed: no  *)
(* retry, fallback or rollback of the handler goes round for ever.          *)
EveryRequestEnds == \A r \in Requests : pc[r] = "arrived" ~> pc[r] \in {"done", "crashed"}

-----------------------------------------------------------------------------
(* What the code and its comments say, against what it does.                *)

(* The deferred function of Relay is there to "return quota if downstream   *)
(* failed and quota was actually pre-consumed": a request whose handler     *)
(* panicked before anything was settled keeps nothing of its hold.          *)
PanicReturnsHold ==
    \A r \in Requests :
        /\ Ended(r) /\ outcome[r] = "panicked" /\ faults[r] = 0
        /\ ~Settled(r) /\ ~FundingSettled(r)
        => Spent(r) = fee[r]

-----------------------------------------------------------------------------
(* What r has taken from its source and neither committed nor given back.   *)
Outstanding(r) ==
    LET extra == IF funding[r] = "subscription" THEN Extra(r) + reserving[r]
                                                ELSE 0
    IN  IF \/ Settled(r) \/ FundingSettled(r)
           \/ pc[r] \in {"log", "done"} /\ outcome[r] = "served"
           \/ bg[r] \in {"token", "finished"}
        THEN 0
        ELSE IF bg[r] = "extra" THEN extra
        ELSE held[r]["fundConsumed"] + extra

(* The decision taken on r, as its user sees it.                            *)
Phase(r) ==
    IF outcome[r] \in {"failed", "rejected"}
    THEN IF fee[r] > 0 THEN "penalised" ELSE "void"
    ELSE IF outcome[r] = "served" /\ pc[r] \in {"settleToken", "log", "done"}
    THEN IF Direct(r) \/ Settled(r) \/ FundingSettled(r) THEN "served" ELSE "short"
    ELSE "open"

(* The detailed handlers implement the contract: each request is decided    *)
(* once, in one step, and every other step of a handler or of the refund    *)
(* goroutine leaves what the request costs, net of what is held, alone.     *)
Contract == INSTANCE ChargeContract WITH
    phase <- [r \in Requests |-> Phase(r)],
    paid  <- [r \in Requests |-> Spent(r) - Outstanding(r)],
    Holds <- {p.est : p \in Profiles} \cup {1} \cup ReserveTargets
ImplementsContract == Contract!Spec
=============================================================================
