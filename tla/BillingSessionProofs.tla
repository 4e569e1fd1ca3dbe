------------------------- MODULE BillingSessionProofs -------------------------
(***************************************************************************)
(* Theorems about BillingSession, for every value of its constants: the    *)
(* types, and that no row is given back more than was taken from it.       *)
(***************************************************************************)
EXTENDS BillingSession, TLAPS

(* The amounts the handlers compute are quota amounts.                      *)
LEMMA AmountTypes ==
    ASSUME TypeOK, NEW r \in Requests
    PROVE  /\ req[r] \in Profile
           /\ Estimate(r) \in Nat
           /\ Effective(r) \in Nat
           /\ TokenAsk(r) \in Nat
           /\ held[r] \in [Amount -> Int]
           /\ Delta(r) \in Int
           /\ RefundAmount(r) \in Int
           /\ Extra(r) \in Int
           /\ \A n \in Int : TokenPart(r, n) \in Int
<1>1. req[r] \in Profile
  BY ProfilesAssumption DEF TypeOK, RequestType
<1>2. Estimate(r) \in Nat
  BY <1>1 DEF Estimate, Profile
<1>3. Effective(r) \in Nat
  BY <1>2 DEF Effective
<1>4. TokenAsk(r) \in Nat
  BY <1>3 DEF TokenAsk, TypeOK, SessionType
<1>5. held[r] \in [Amount -> Int]
  BY DEF TypeOK, SessionType
<1>6. Delta(r) \in Int
  BY <1>5 DEF Delta, TypeOK, RequestType, Amount
<1>7. RefundAmount(r) \in Int /\ Extra(r) \in Int
  BY <1>5 DEF RefundAmount, Extra, Amount
<1>8. \A n \in Int : TokenPart(r, n) \in Int
  BY DEF TokenPart
<1> QED
  BY <1>1, <1>2, <1>3, <1>4, <1>5, <1>6, <1>7, <1>8

LEMMA TakeType ==
    ASSUME RowType, NEW r \in Requests, NEW a, NEW n \in Int, Take(r, a, n)
    PROVE  ledger' \in [Requests -> [Account -> Int]]
<1>1. CASE a \in Account
  BY <1>1 DEF RowType, Take
<1>2. CASE a \notin Account
  BY <1>2 DEF RowType, Take
<1> QED
  BY <1>1, <1>2

LEMMA FaultType ==
    ASSUME RowType, NEW r \in Requests, Fault(r)
    PROVE  /\ faults' \in [Requests -> 0..MaxFaults]
           /\ ledger' \in [Requests -> [Account -> Int]]
BY BoundsAssumption DEF RowType, Fault

LEMMA StartType ==
    ASSUME SessionType, NEW r \in Requests, NEW s \in Source \cup {"none"},
           NEW f \in SUBSET Flag, Start(r, s, f)
    PROVE  /\ funding' \in [Requests -> Source \cup {"none"}]
           /\ flags' \in [Requests -> SUBSET Flag]
           /\ held' \in [Requests -> [Amount -> Int]]
BY DEF SessionType, Start, Note

LEMMA DropType ==
    ASSUME SessionType, NEW r \in Requests, Drop(r)
    PROVE  /\ funding' \in [Requests -> Source \cup {"none"}]
           /\ flags' \in [Requests -> SUBSET Flag]
           /\ held' \in [Requests -> [Amount -> Int]]
BY StartType DEF Drop

(* A token and the limits charged in one step.                              *)
LEMMA ChargeType ==
    ASSUME RowType, NEW r \in Requests, NEW m \in Int, NEW n \in Int,
           ledger' = [ledger EXCEPT ![r]["token"] = @ + m,
                                    ![r]["limit"] = @ + n]
    PROVE  ledger' \in [Requests -> [Account -> Int]]
<1> DEFINE L == [ledger EXCEPT ![r]["token"] = @ + m]
<1>1. /\ L \in [Requests -> [Account -> Int]]
      /\ "token" \in Account /\ "limit" \in Account
  BY DEF RowType, Account
<1>2. ledger' = [L EXCEPT ![r]["limit"] = @ + n]
  BY DEF RowType, Account
<1> HIDE DEF L
<1> QED
  BY <1>1, <1>2

LEMMA SetType ==
    ASSUME SessionType, NEW r \in Requests, NEW f \in SUBSET Flag, Set(r, f)
    PROVE  flags' \in [Requests -> SUBSET Flag]
BY DEF SessionType, Set

LEMMA GotoType ==
    ASSUME ControlType, NEW r \in Requests, NEW l \in PC, Goto(r, l)
    PROVE  pc' \in [Requests -> PC]
BY DEF ControlType, Goto

(* The labels the handlers go to.                                           *)
LEMMA FallsBackType ==
    ASSUME NEW r \in Requests
    PROVE  /\ FirstSource(r) \in PC
           /\ \A s : FallsBackTo(r, s) \in PC
BY DEF FirstSource, FallsBackTo, PC

(* What a group of variables that does not change means for its type.       *)
LEMMA Unchanged ==
    ASSUME TypeOK
    PROVE  /\ UNCHANGED requestVars => RequestType'
           /\ UNCHANGED <<pc, bg>> => ControlType'
           /\ UNCHANGED sessionVars => SessionType'
           /\ UNCHANGED rowVars => RowType'
BY DEF TypeOK, RequestType, ControlType, SessionType, RowType,
       requestVars, sessionVars, rowVars

(* What the two outcomes of a PreConsumeTokenQuota call leave behind.       *)
LEMMA CoveredType ==
    ASSUME TypeOK, NEW r \in Requests, TokenCovered(r) \/ TokenRefused(r),
           UNCHANGED <<bg, why>>
    PROVE  SessionType' /\ ControlType'
<1> USE DEF TypeOK
<1>1. CASE TokenCovered(r)
  <2>1. Effective(r) \in Int
    BY AmountTypes
  <2>2. held' \in [Requests -> [Amount -> Int]]
    BY <1>1, <2>1 DEF TokenCovered, SessionType, Amount
  <2>3. SessionType'
    BY <1>1, <2>2 DEF TokenCovered, SessionType
  <2>4. ControlType'
    BY <1>1 DEF TokenCovered, ControlType, Goto, PC
  <2> QED
    BY <2>3, <2>4
<1>2. CASE TokenRefused(r)
  <2>1. SessionType'
    BY <1>2, DropType DEF TokenRefused, SessionType
  <2>2. ControlType'
    BY <1>2 DEF TokenRefused, ControlType, Goto, PC
  <2> QED
    BY <2>1, <2>2
<1> QED
  BY <1>1, <1>2

(* Every step of a handler, of a goroutine or of the process keeps the      *)
(* types.                                                                   *)
LEMMA TypeStep ==
    ASSUME TypeOK, [Next]_vars
    PROVE  TypeOK'
<1> USE BoundsAssumption, AmountsAssumption DEF TypeOK
<1>1. ASSUME NEW r \in Requests, Arrive(r)
      PROVE  TypeOK'
  <2>1. SessionType' /\ RowType'
    BY <1>1, Unchanged DEF Arrive
  <2>2. RequestType'
    BY <1>1 DEF Arrive, RequestType
  <2>3. ControlType'
    BY <1>1, GotoType DEF Arrive, ControlType, PC
  <2> QED
    BY <2>1, <2>2, <2>3
<1>2. ASSUME NEW r \in Requests, ChooseFunding(r)
      PROVE  TypeOK'
  <2>1. RequestType' /\ SessionType'
    BY <1>2, Unchanged DEF ChooseFunding
  <2>2. ControlType'
    BY <1>2, GotoType, FallsBackType DEF ChooseFunding, ControlType, PC
  <2>3. RowType'
    BY <1>2, FaultType DEF ChooseFunding, RowType
  <2> QED
    BY <2>1, <2>2, <2>3
<1>3. ASSUME NEW r \in Requests, TryWallet(r)
      PROVE  TypeOK'
  <2>1. RequestType'
    BY <1>3, Unchanged DEF TryWallet
  <2>2. ControlType'
    BY <1>3, GotoType, FallsBackType DEF TryWallet, ControlType, PC
  <2>3. SessionType'
    BY <1>3, StartType DEF TryWallet, SessionType, Source, Flag
  <2>4. RowType'
    BY <1>3, FaultType DEF TryWallet, RowType
  <2> QED
    BY <2>1, <2>2, <2>3, <2>4
<1>4. ASSUME NEW r \in Requests, TrySubscription(r)
      PROVE  TypeOK'
  <2>1. RequestType' /\ RowType'
    BY <1>4, Unchanged DEF TrySubscription
  <2>2. ControlType'
    BY <1>4, GotoType DEF TrySubscription, ControlType, PC
  <2>3. SessionType'
    BY <1>4, StartType DEF TrySubscription, SessionType, Source
  <2> QED
    BY <2>1, <2>2, <2>3
<1>5. ASSUME NEW r \in Requests, ReadToken(r)
      PROVE  TypeOK'
  <2>1. RequestType'
    BY <1>5, Unchanged DEF ReadToken
  <2>2. RowType'
    BY <1>5, FaultType DEF ReadToken, RowType
  <2>3. ControlType'
    BY <1>5, CoveredType, GotoType DEF ReadToken, ControlType, PC
  <2>4. SessionType'
    BY <1>5, CoveredType DEF ReadToken, SessionType
  <2> QED
    BY <2>1, <2>2, <2>3, <2>4
<1>6. ASSUME NEW r \in Requests, DebitToken(r)
      PROVE  TypeOK'
  <2>1. RequestType'
    BY <1>6, Unchanged DEF DebitToken
  <2>2. RowType'
    BY <1>6, AmountTypes, TakeType, FaultType DEF DebitToken, RowType
  <2>3. ControlType'
    BY <1>6, CoveredType DEF DebitToken
  <2>4. SessionType'
    BY <1>6, CoveredType DEF DebitToken
  <2> QED
    BY <2>1, <2>2, <2>3, <2>4
<1>7. ASSUME NEW r \in Requests, PreConsumeFunding(r)
      PROVE  TypeOK'
  <2>1. Effective(r) \in Int
    BY AmountTypes
  <2>2. held' \in [Requests -> [Amount -> Int]]
    BY <1>7, <2>1 DEF PreConsumeFunding, SessionType, Amount
  <2>3. RequestType'
    BY <1>7, Unchanged DEF PreConsumeFunding
  <2>4. RowType'
    BY <1>7, <2>1, TakeType, FaultType DEF PreConsumeFunding, RowType
  <2>5. ControlType'
    BY <1>7, GotoType DEF PreConsumeFunding, ControlType, PC
  <2>6. SessionType'
    BY <1>7, <2>2 DEF PreConsumeFunding, SessionType
  <2> QED
    BY <2>3, <2>4, <2>5, <2>6
<1>8. ASSUME NEW r \in Requests, RollbackToken(r)
      PROVE  TypeOK'
  <2>1. -TokenPart(r, held[r]["tokenConsumed"]) \in Int
    BY AmountTypes DEF Amount
  <2>2. RequestType'
    BY <1>8, Unchanged DEF RollbackToken
  <2>3. RowType'
    BY <1>8, <2>1, TakeType, FaultType DEF RollbackToken, RowType
  <2>4. ControlType'
    BY <1>8, GotoType, FallsBackType DEF RollbackToken, ControlType, PC
  <2>5. SessionType'
    BY <1>8, DropType DEF RollbackToken, SessionType
  <2> QED
    BY <2>2, <2>3, <2>4, <2>5
<1>9. ASSUME NEW r \in Requests, Rejected(r)
      PROVE  TypeOK'
  <2>1. SessionType' /\ RowType'
    BY <1>9, Unchanged DEF Rejected
  <2>2. RequestType'
    BY <1>9 DEF Rejected, MayRetry, RequestType
  <2>3. ControlType'
    BY <1>9, GotoType DEF Rejected, ControlType, PC
  <2> QED
    BY <2>1, <2>2, <2>3
<1>10. ASSUME NEW r \in Requests, AttemptFails(r)
       PROVE  TypeOK'
  <2>1. SessionType' /\ RowType'
    BY <1>10, Unchanged DEF AttemptFails
  <2>2. RequestType'
    BY <1>10 DEF AttemptFails, MayRetry, RequestType
  <2>3. ControlType'
    BY <1>10, GotoType DEF AttemptFails, ControlType, PC
  <2> QED
    BY <2>1, <2>2, <2>3
<1>11. ASSUME NEW r \in Requests, AttemptSucceeds(r)
       PROVE  TypeOK'
  <2>1. SessionType' /\ RowType'
    BY <1>11, Unchanged DEF AttemptSucceeds
  <2>2. RequestType'
    BY <1>11 DEF AttemptSucceeds, RequestType
  <2>3. ControlType'
    BY <1>11, GotoType DEF AttemptSucceeds, ControlType, PC
  <2> QED
    BY <2>1, <2>2, <2>3
<1>12. ASSUME NEW r \in Requests, NEW n \in ReserveTargets, Reserve(r, n)
       PROVE  TypeOK'
  <2>1. n - held[r]["preConsumed"] \in Nat
    BY <1>12, AmountTypes DEF Reserve, Amount
  <2>2. held' \in [Requests -> [Amount -> Int]]
    BY <1>12, <2>1 DEF Reserve, NoteReserve, SessionType, Amount
  <2>3. RequestType'
    BY <1>12, Unchanged DEF Reserve
  <2>4. RowType'
    BY <1>12, <2>1, TakeType DEF Reserve, RowType
  <2>5. ControlType'
    BY <1>12, GotoType DEF Reserve, ControlType, PC
  <2>6. SessionType'
    BY <1>12, <2>1, <2>2 DEF Reserve, SessionType
  <2> QED
    BY <2>3, <2>4, <2>5, <2>6
<1>13. ASSUME NEW r \in Requests, RollbackReserve(r)
       PROVE  TypeOK'
  <2>1. -reserving[r] \in Int
    BY DEF SessionType
  <2>2. held' \in [Requests -> [Amount -> Int]]
    BY <1>13, <2>1 DEF RollbackReserve, NoteReserve, SessionType, Amount
  <2>3. RequestType'
    BY <1>13, Unchanged DEF RollbackReserve
  <2>4. RowType'
    BY <1>13, <2>1, TakeType, FaultType DEF RollbackReserve, RowType
  <2>5. ControlType'
    BY <1>13, GotoType DEF RollbackReserve, ControlType, PC
  <2>6. SessionType'
    BY <1>13, <2>1, <2>2 DEF RollbackReserve, SessionType
  <2> QED
    BY <2>3, <2>4, <2>5, <2>6
<1>14. ASSUME NEW r \in Requests, SettleFunding(r)
       PROVE  TypeOK'
  <2>1. RequestType'
    BY <1>14, Unchanged DEF SettleFunding
  <2>2. RowType'
    BY <1>14, AmountTypes, TakeType, FaultType DEF SettleFunding, RowType
  <2>3. ControlType'
    BY <1>14, GotoType DEF SettleFunding, ControlType, PC
  <2>4. SessionType'
    BY <1>14, SetType DEF SettleFunding, SessionType, Flag
  <2> QED
    BY <2>1, <2>2, <2>3, <2>4
<1>15. ASSUME NEW r \in Requests, SettleToken(r)
       PROVE  TypeOK'
  <2>1. Delta(r) \in Int /\ TokenPart(r, Delta(r)) \in Int
    BY AmountTypes
  <2>2. ledger' \in [Requests -> [Account -> Int]]
    BY <1>15, <2>1, ChargeType, FaultType DEF SettleToken
  <2>3. RequestType'
    BY <1>15, Unchanged DEF SettleToken
  <2>4. RowType'
    BY <1>15, <2>2, FaultType DEF SettleToken, RowType
  <2>5. ControlType'
    BY <1>15, GotoType DEF SettleToken, ControlType, PC
  <2>6. SessionType'
    BY <1>15, SetType DEF SettleToken, SessionType, Flag
  <2> QED
    BY <2>3, <2>4, <2>5, <2>6
<1>16. ASSUME NEW r \in Requests, Log(r)
       PROVE  TypeOK'
  <2>1. RequestType' /\ SessionType' /\ RowType'
    BY <1>16, Unchanged DEF Log
  <2>2. ControlType'
    BY <1>16, GotoType DEF Log, ControlType, PC
  <2> QED
    BY <2>1, <2>2
<1>17. ASSUME NEW r \in Requests, Panic(r)
       PROVE  TypeOK'
  <2>1. SessionType' /\ RowType'
    BY <1>17, Unchanged DEF Panic
  <2>2. RequestType'
    BY <1>17 DEF Panic, RequestType
  <2>3. ControlType'
    BY <1>17, GotoType DEF Panic, ControlType, PC
  <2> QED
    BY <2>1, <2>2, <2>3
<1>18. ASSUME NEW r \in Requests, Refund(r)
       PROVE  TypeOK'
  <2>1. RequestType' /\ RowType'
    BY <1>18, Unchanged DEF Refund
  <2>2. ControlType'
    BY <1>18, GotoType DEF Refund, ControlType, PC, BG
  <2>3. SessionType'
    BY <1>18, SetType DEF Refund, SessionType, Flag
  <2> QED
    BY <2>1, <2>2, <2>3
<1>19. ASSUME NEW r \in Requests, NEW from, NEW a, NEW n \in Int, NEW to \in BG,
              GiveBack(r, from, a, n, to)
       PROVE  TypeOK'
  <2>1. RequestType' /\ SessionType'
    BY <1>19, Unchanged DEF GiveBack
  <2>2. ControlType'
    BY <1>19 DEF GiveBack, ControlType
  <2>3. RowType'
    BY <1>19, TakeType, FaultType DEF GiveBack, RowType
  <2> QED
    BY <2>1, <2>2, <2>3
<1>20. ASSUME NEW r \in Requests, RefundSubscription(r)
       PROVE  TypeOK'
  <2>1. RequestType' /\ SessionType'
    BY <1>20, Unchanged DEF RefundSubscription
  <2>2. ControlType'
    BY <1>20 DEF RefundSubscription, ControlType, BG, Attempts, AfterFailed
  <2>3. fee' = fee /\ -RefundAmount(r) \in Int
    BY <1>20, AmountTypes DEF RefundSubscription
  <2>4. RowType'
    BY <1>20, <2>3, TakeType, FaultType
    DEF RefundSubscription, RowType, LateFault, Fault
  <2> QED
    BY <2>1, <2>2, <2>4
<1>25. ASSUME NEW r \in Requests, Goroutine(r)
       PROVE  TypeOK'
  <2>1. TokenPart(r, held[r]["tokenConsumed"]) \in Int
    BY AmountTypes DEF Amount
  <2> QED
    BY <1>19, <1>20, <1>25, <2>1, AmountTypes
    DEF Goroutine, RefundFunding, RefundWallet, RefundExtra, RefundToken, BG
<1>21. ASSUME NEW r \in Requests, ChargeFee(r)
       PROVE  TypeOK'
  <2>1. RequestType' /\ SessionType'
    BY <1>21, Unchanged DEF ChargeFee
  <2>2. ControlType'
    BY <1>21, GotoType DEF ChargeFee, ControlType, PC
  <2>3. RowType'
    BY <1>21, TakeType, FaultType DEF ChargeFee, RowType
  <2> QED
    BY <2>1, <2>2, <2>3
<1>22. ASSUME NEW r \in Requests, ChargeFeeToken(r)
       PROVE  TypeOK'
  <2>1. TokenPart(r, Fee) \in Int
    BY AmountTypes
  <2>2. ledger' \in [Requests -> [Account -> Int]]
    BY <1>22, <2>1, ChargeType, FaultType DEF ChargeFeeToken
  <2>3. RequestType' /\ SessionType'
    BY <1>22, Unchanged DEF ChargeFeeToken
  <2>4. ControlType'
    BY <1>22, GotoType DEF ChargeFeeToken, ControlType, PC
  <2>5. RowType'
    BY <1>22, <2>2, FaultType DEF ChargeFeeToken, RowType
  <2> QED
    BY <2>3, <2>4, <2>5
<1>23. CASE Crash
  BY <1>23, Unchanged DEF Crash, ControlType, PC, BG
<1>24. CASE UNCHANGED vars
  BY <1>24, Unchanged DEF vars
<1> QED
  BY <1>1, <1>2, <1>3, <1>4, <1>5, <1>6, <1>7, <1>8, <1>9, <1>10, <1>11,
     <1>12, <1>13, <1>14, <1>15, <1>16, <1>17, <1>18, <1>21, <1>22,
     <1>23, <1>24, <1>25
  DEF Next, Handler

LEMMA TypeInit ==
    ASSUME Init
    PROVE  TypeOK
BY BoundsAssumption DEF Init, TypeOK, RequestType, ControlType, SessionType,
   RowType, PC, BG

(* Every variable keeps the type the Go structs give it, whatever the       *)
(* number of requests, retries and database errors.                         *)
THEOREM TypeCorrect == Spec => []TypeOK
BY TypeInit, TypeStep, PTL DEF Spec

-----------------------------------------------------------------------------
(* NeverOverRefunded and SettledXorRefunded hold in every order of handlers,*)
(* refund goroutines, database errors, panics and crashes.  Neither is      *)
(* inductive.  What makes a refund safe is that the amounts a session notes *)
(* are covered by what it has taken, and that the notes of a session that   *)
(* is being refunded no longer move.                                        *)

Before == {"waiting", "arrived", "wallet", "subscription", "rejected"}
Asking == {"tokenRead", "tokenDebit", "fund", "rollback"}
Unsettled == {"upstream", "reserveRollback", "settleFund"}
Reserving == {"tokenRead", "tokenDebit", "reserveRollback", "crashed"}
Over == {"fee", "feeToken", "done", "crashed"}

(* Where the handler of r is bounds what its session may have done by then. *)
StageInv(r) ==
    /\ pc[r] \in Before => funding[r] = "none"
    /\ pc[r] \in Asking => funding[r] # "none"
    /\ pc[r] \in Before \cup Asking \cup Unsettled => ~FundingSettled(r)
    /\ pc[r] \in Before \cup Asking \cup Unsettled \cup {"settleToken"} =>
          ~Settled(r)
    /\ pc[r] = "reserveRollback" => reserving[r] > 0
    /\ reserving[r] > 0 => pc[r] \in Reserving /\ funding[r] # "none"
    /\ bg[r] # "idle" => "refunded" \in flags[r]
    /\ "refunded" \in flags[r] => /\ pc[r] \in Over /\ funding[r] # "none"
                                  /\ ~Settled(r) /\ ~FundingSettled(r)

(* What the session notes: nothing without one, nothing before the funding  *)
(* source has been asked, and never more as held than as taken.             *)
NoteInv(r) ==
    /\ held[r]["preConsumed"] >= 0
    /\ held[r]["fundConsumed"] >= 0
    /\ held[r]["extraReserved"] >= 0
    /\ funding[r] = "none" => /\ held[r]["preConsumed"] = 0
                              /\ held[r]["tokenConsumed"] = 0
    /\ pc[r] \in Asking /\ reserving[r] = 0 =>
          /\ held[r]["preConsumed"] = 0
          /\ held[r]["fundConsumed"] = 0
          /\ held[r]["extraReserved"] = 0
    /\ pc[r] = "fund" => held[r]["tokenConsumed"] = Effective(r)
    /\ held[r]["tokenConsumed"] >= held[r]["preConsumed"]
    /\ held[r]["fundConsumed"] + Extra(r) >= held[r]["preConsumed"]
    /\ funding[r] = "wallet" =>
          held[r]["fundConsumed"] >= held[r]["preConsumed"] + reserving[r]

(* What the funding source must still have from r while a refund may come.  *)
Promised(r) ==
    held[r]["fundConsumed"]
    + IF funding[r] = "subscription"
      THEN held[r]["extraReserved"] + reserving[r] ELSE 0

(* Every row has given r at least what it may still be given back; of a     *)
(* subscription that is being given its hold back, LaterInv says what is    *)
(* left.                                                                    *)
CoverInv(r) ==
    /\ ledger[r]["wallet"] >= 0
    /\ ledger[r]["token"] >= 0 /\ ledger[r]["limit"] >= 0
    /\ bg[r] \in {"idle", "funding"} => ledger[r]["subscription"] >= 0
    /\ funding[r] # "none" /\ ~Settled(r) /\ ~FundingSettled(r)
       /\ bg[r] \in {"idle", "funding"} =>
          ledger[r][funding[r]] >= Promised(r)
    /\ ~Playground(r) /\ ~Settled(r) /\ bg[r] \notin {"finished", "crashed"} =>
          ledger[r]["token"] >= held[r]["tokenConsumed"]

RequestInv(r) == StageInv(r) /\ NoteInv(r) /\ CoverInv(r)
SafeInv == \A r \in Requests : RequestInv(r)

(* All that RequestInv(r) looks at.                                         *)
State(r) == <<req[r], pc[r], bg[r], funding[r], flags[r], held[r],
              reserving[r], ledger[r]>>

-----------------------------------------------------------------------------
(* What the operators the actions are made of do, entry by entry.           *)

LEMMA GotoEffect ==
    ASSUME ControlType, NEW r \in Requests, NEW l, Goto(r, l)
    PROVE  /\ pc'[r] = l
           /\ \A q \in Requests \ {r} : pc'[q] = pc[q]
BY DEF ControlType, Goto

LEMMA SetEffect ==
    ASSUME SessionType, NEW r \in Requests, NEW f, Set(r, f)
    PROVE  /\ flags'[r] = flags[r] \cup f
           /\ \A q \in Requests \ {r} : flags'[q] = flags[q]
BY DEF SessionType, Set

LEMMA StartEffect ==
    ASSUME SessionType, NEW r \in Requests, NEW s, NEW f, Start(r, s, f)
    PROVE  /\ funding'[r] = s
           /\ flags'[r] = f
           /\ held'[r] = [a \in Amount |-> 0]
           /\ held'[r]["preConsumed"] = 0 /\ held'[r]["tokenConsumed"] = 0
           /\ held'[r]["fundConsumed"] = 0 /\ held'[r]["extraReserved"] = 0
           /\ \A q \in Requests \ {r} : /\ funding'[q] = funding[q]
                                        /\ flags'[q] = flags[q]
                                        /\ held'[q] = held[q]
BY DEF SessionType, Start, Note, Amount

LEMMA ChargeEffect ==
    ASSUME RowType, NEW r \in Requests, NEW m \in Int, NEW n \in Int,
           ledger' = [ledger EXCEPT ![r]["token"] = @ + m,
                                    ![r]["limit"] = @ + n]
    PROVE  /\ ledger'[r]["wallet"] = ledger[r]["wallet"]
           /\ ledger'[r]["subscription"] = ledger[r]["subscription"]
           /\ ledger'[r]["token"] = ledger[r]["token"] + m
           /\ ledger'[r]["limit"] = ledger[r]["limit"] + n
           /\ \A q \in Requests \ {r} : ledger'[q] = ledger[q]
<1> DEFINE L == [ledger EXCEPT ![r]["token"] = @ + m]
<1>1. /\ ledger \in [Requests -> [Account -> Int]]
      /\ {"wallet", "subscription", "token", "limit"} \subseteq Account
  BY DEF RowType, Account, Source
<1>2. /\ L \in [Requests -> [Account -> Int]]
      /\ L[r]["wallet"] = ledger[r]["wallet"]
      /\ L[r]["subscription"] = ledger[r]["subscription"]
      /\ L[r]["token"] = ledger[r]["token"] + m
      /\ L[r]["limit"] = ledger[r]["limit"]
      /\ \A q \in Requests \ {r} : L[q] = ledger[q]
  BY <1>1
<1>3. ledger' = [L EXCEPT ![r]["limit"] = @ + n]
  BY <1>1
<1> HIDE DEF L
<1> QED
  BY <1>1, <1>2, <1>3

(* The entries of r that TypeOK makes numbers, sources and labels.          *)
LEMMA EntryTypes ==
    ASSUME TypeOK, NEW r \in Requests
    PROVE  /\ held[r]["preConsumed"] \in Int /\ held[r]["tokenConsumed"] \in Int
           /\ held[r]["fundConsumed"] \in Int /\ held[r]["extraReserved"] \in Int
           /\ ledger[r]["wallet"] \in Int /\ ledger[r]["subscription"] \in Int
           /\ ledger[r]["token"] \in Int /\ ledger[r]["limit"] \in Int
           /\ reserving[r] \in Nat /\ due[r] \in Nat
           /\ funding[r] \in {"wallet", "subscription", "none"}
           /\ Effective(r) \in Nat
<1>1. held[r] \in [Amount -> Int] /\ ledger[r] \in [Account -> Int]
  BY DEF TypeOK, SessionType, RowType
<1>2. /\ held[r]["preConsumed"] \in Int /\ held[r]["tokenConsumed"] \in Int
      /\ held[r]["fundConsumed"] \in Int /\ held[r]["extraReserved"] \in Int
  BY <1>1 DEF Amount
<1>3. /\ ledger[r]["wallet"] \in Int /\ ledger[r]["subscription"] \in Int
      /\ ledger[r]["token"] \in Int /\ ledger[r]["limit"] \in Int
  BY <1>1 DEF Account, Source
<1>4. reserving[r] \in Nat /\ due[r] \in Nat /\ funding[r] \in Source \cup {"none"}
  BY DEF TypeOK, SessionType, RequestType
<1>5. Effective(r) \in Nat
  BY AmountTypes
<1> QED
  BY <1>2, <1>3, <1>4, <1>5 DEF Source

LEMMA TakeEffect ==
    ASSUME TypeOK, NEW r \in Requests, NEW a \in Account, NEW n \in Int,
           Take(r, a, n)
    PROVE  /\ ledger'[r]["wallet"] = ledger[r]["wallet"]
              + IF a = "wallet" THEN n ELSE 0
           /\ ledger'[r]["subscription"] = ledger[r]["subscription"]
              + IF a = "subscription" THEN n ELSE 0
           /\ ledger'[r]["token"] = ledger[r]["token"]
              + IF a = "token" THEN n ELSE 0
           /\ ledger'[r]["limit"] = ledger[r]["limit"]
              + IF a = "limit" THEN n ELSE 0
           /\ \A q \in Requests \ {r} : ledger'[q] = ledger[q]
<1>1. /\ ledger'[r][a] = ledger[r][a] + n
      /\ \A b \in Account \ {a} : ledger'[r][b] = ledger[r][b]
      /\ \A q \in Requests \ {r} : ledger'[q] = ledger[q]
  BY DEF TypeOK, RowType, Take
<1> QED
  BY <1>1, EntryTypes DEF Account, Source

(* A step that leaves the state of every other request alone keeps their    *)
(* invariants.                                                              *)
LEMMA Locality ==
    ASSUME SafeInv, NEW r \in Requests, RequestInv(r)',
           \A q \in Requests \ {r} : State(q)' = State(q)
    PROVE  SafeInv'
<1> SUFFICES ASSUME NEW q \in Requests, q # r
             PROVE  RequestInv(q)'
  BY DEF SafeInv
<1>1. RequestInv(q) /\ State(q)' = State(q)
  BY DEF SafeInv
<1> QED
  BY <1>1 DEF State, RequestInv, StageInv, NoteInv, CoverInv, Settled,
     FundingSettled, Playground, Effective, Estimate, Extra, Promised

-----------------------------------------------------------------------------
(* One lemma per operation: the step keeps the invariant of its own request *)
(* and leaves the others alone.                                             *)

USE DEF Before, Asking, Unsettled, Reserving, Over, Settled, FundingSettled,
        Playground, Promised, Extra

LEMMA ArriveSafe ==
    ASSUME TypeOK, SafeInv, NEW r \in Requests, Arrive(r)
    PROVE  SafeInv'
<1>1. pc'[r] = "arrived" /\ \A q \in Requests \ {r} : pc'[q] = pc[q]
  BY GotoEffect DEF TypeOK, Arrive
<1>2. pc[r] = "waiting" /\ UNCHANGED <<req, bg, funding, flags, held, reserving, ledger>>
  BY DEF Arrive, sessionVars, rowVars
<1>3. RequestInv(r)
  BY DEF SafeInv
<1>4. RequestInv(r)'
  BY <1>1, <1>2, <1>3 DEF RequestInv, StageInv, NoteInv, CoverInv, Effective, Estimate
<1> QED
  BY <1>1, <1>2, <1>4, Locality DEF State

LEMMA ChooseFundingSafe ==
    ASSUME TypeOK, SafeInv, NEW r \in Requests, ChooseFunding(r)
    PROVE  SafeInv'
<1>1. /\ pc'[r] \in {"upstream", "wallet", "subscription", "rejected"}
      /\ \A q \in Requests \ {r} : pc'[q] = pc[q]
  BY GotoEffect DEF TypeOK, ChooseFunding, FirstSource
<1>2. pc[r] = "arrived" /\ UNCHANGED <<req, bg, funding, flags, held, reserving, ledger>>
  BY DEF ChooseFunding, requestVars, sessionVars, Fault
<1>3. RequestInv(r)
  BY DEF SafeInv
<1>4. RequestInv(r)'
  BY <1>1, <1>2, <1>3, EntryTypes
  DEF RequestInv, StageInv, NoteInv, CoverInv, Effective, Estimate
<1> QED
  BY <1>1, <1>2, <1>4, Locality DEF State

LEMMA TryWalletSafe ==
    ASSUME TypeOK, SafeInv, NEW r \in Requests, TryWallet(r)
    PROVE  SafeInv'
<1>1. pc[r] = "wallet" /\ UNCHANGED <<req, bg, reserving, ledger>>
  BY DEF TryWallet, requestVars, Fault
<1>2. RequestInv(r)
  BY DEF SafeInv
<1>3. CASE Start(r, "wallet", IF Trusts(r) THEN {"trusted"} ELSE {})
           /\ Goto(r, IF Trusts(r) \/ Estimate(r) = 0 THEN "fund" ELSE "tokenRead")
  <2>1. /\ pc'[r] = IF Trusts(r) \/ Estimate(r) = 0 THEN "fund" ELSE "tokenRead"
        /\ \A q \in Requests \ {r} : pc'[q] = pc[q]
    BY <1>3, GotoEffect DEF TypeOK
  <2>2. /\ funding'[r] = "wallet"
        /\ flags'[r] = IF Trusts(r) THEN {"trusted"} ELSE {}
        /\ held'[r]["preConsumed"] = 0 /\ held'[r]["tokenConsumed"] = 0
        /\ held'[r]["fundConsumed"] = 0 /\ held'[r]["extraReserved"] = 0
        /\ \A q \in Requests \ {r} : /\ funding'[q] = funding[q]
                                     /\ flags'[q] = flags[q]
                                     /\ held'[q] = held[q]
    BY <1>3, StartEffect DEF TypeOK
  <2>3. pc'[r] = "fund" => Effective(r)' = 0
    BY <1>1, <2>1, <2>2 DEF Effective, Estimate
  <2>4. RequestInv(r)'
    BY <1>1, <1>2, <2>1, <2>2, <2>3, EntryTypes
    DEF RequestInv, StageInv, NoteInv, CoverInv
  <2> QED
    BY <1>1, <2>1, <2>2, <2>4, Locality DEF State
<1>4. CASE /\ Goto(r, FallsBackTo(r, "wallet")) \/ Goto(r, "rejected")
           /\ UNCHANGED <<funding, flags, held>>
  <2>1. /\ pc'[r] \in {"subscription", "rejected"}
        /\ \A q \in Requests \ {r} : pc'[q] = pc[q]
    BY <1>4, GotoEffect DEF TypeOK, FallsBackTo
  <2>2. RequestInv(r)'
    BY <1>1, <1>2, <1>4, <2>1, EntryTypes
    DEF RequestInv, StageInv, NoteInv, CoverInv, Effective, Estimate
  <2> QED
    BY <1>1, <1>4, <2>1, <2>2, Locality DEF State
<1> QED
  BY <1>3, <1>4 DEF TryWallet

LEMMA TrySubscriptionSafe ==
    ASSUME TypeOK, SafeInv, NEW r \in Requests, TrySubscription(r)
    PROVE  SafeInv'
<1>1. pc[r] = "subscription" /\ UNCHANGED <<req, bg, reserving, ledger>>
  BY DEF TrySubscription, requestVars, rowVars
<1>2. RequestInv(r)
  BY DEF SafeInv
<1>3. pc'[r] = "tokenRead" /\ \A q \in Requests \ {r} : pc'[q] = pc[q]
  BY GotoEffect DEF TypeOK, TrySubscription
<1>4. /\ funding'[r] = "subscription" /\ flags'[r] = {}
      /\ held'[r]["preConsumed"] = 0 /\ held'[r]["tokenConsumed"] = 0
      /\ held'[r]["fundConsumed"] = 0 /\ held'[r]["extraReserved"] = 0
      /\ \A q \in Requests \ {r} : /\ funding'[q] = funding[q]
                                   /\ flags'[q] = flags[q]
                                   /\ held'[q] = held[q]
  BY StartEffect DEF TypeOK, TrySubscription
<1>5. RequestInv(r)'
  BY <1>1, <1>2, <1>3, <1>4, EntryTypes
  DEF RequestInv, StageInv, NoteInv, CoverInv
<1> QED
  BY <1>1, <1>3, <1>4, <1>5, Locality DEF State

(* The token covers the call: what it has given is noted.                   *)
LEMMA TokenCoveredSafe ==
    ASSUME TypeOK, SafeInv, NEW r \in Requests, TokenCovered(r),
           pc[r] \in {"tokenRead", "tokenDebit"}, UNCHANGED <<req, bg>>,
           \/ Playground(r) /\ UNCHANGED ledger
           \/ Take(r, "token", TokenAsk(r))
    PROVE  SafeInv'
<1>1. RequestInv(r)
  BY DEF SafeInv
<1>2. TokenAsk(r) = IF reserving[r] > 0 THEN reserving[r] ELSE Effective(r)
  BY DEF TokenAsk
<1>3. /\ ledger'[r]["wallet"] = ledger[r]["wallet"]
      /\ ledger'[r]["subscription"] = ledger[r]["subscription"]
      /\ ledger'[r]["limit"] = ledger[r]["limit"]
      /\ ledger'[r]["token"] = ledger[r]["token"]
         + IF Playground(r) /\ UNCHANGED ledger THEN 0 ELSE TokenAsk(r)
      /\ \A q \in Requests \ {r} : ledger'[q] = ledger[q]
  <2>1. TokenAsk(r) \in Int /\ "token" \in Account
    BY AmountTypes DEF Account
  <2> QED
    BY <2>1, TakeEffect, EntryTypes
<1>4. /\ pc'[r] = IF reserving[r] > 0 THEN "upstream" ELSE "fund"
      /\ \A q \in Requests \ {r} : pc'[q] = pc[q]
  BY GotoEffect DEF TypeOK, TokenCovered
<1>5. /\ UNCHANGED <<funding, flags>>
      /\ reserving'[r] = 0
      /\ \A q \in Requests \ {r} : reserving'[q] = reserving[q]
  BY DEF TokenCovered, TypeOK, SessionType
<1>6. CASE reserving[r] > 0
  <2>1. /\ held'[r]["preConsumed"] = held[r]["preConsumed"] + reserving[r]
        /\ held'[r]["tokenConsumed"] = held[r]["tokenConsumed"] + reserving[r]
        /\ held'[r]["extraReserved"] = held[r]["extraReserved"] + reserving[r]
        /\ held'[r]["fundConsumed"] = held[r]["fundConsumed"]
        /\ \A q \in Requests \ {r} : held'[q] = held[q]
    BY <1>6 DEF TokenCovered, TypeOK, SessionType, Amount
  <2>2. RequestInv(r)'
    BY <1>1, <1>2, <1>3, <1>4, <1>5, <1>6, <2>1, EntryTypes
    DEF RequestInv, StageInv, NoteInv, CoverInv
  <2> QED
    BY <1>3, <1>4, <1>5, <2>1, <2>2, Locality DEF State
<1>7. CASE ~(reserving[r] > 0)
  <2>1. /\ held'[r]["tokenConsumed"] = Effective(r)
        /\ held'[r]["preConsumed"] = held[r]["preConsumed"]
        /\ held'[r]["extraReserved"] = held[r]["extraReserved"]
        /\ held'[r]["fundConsumed"] = held[r]["fundConsumed"]
        /\ \A q \in Requests \ {r} : held'[q] = held[q]
    BY <1>7 DEF TokenCovered, TypeOK, SessionType, Amount
  <2>2. reserving[r] = 0 /\ Effective(r)' = Effective(r)
    BY <1>5, <1>7, EntryTypes DEF Effective, Estimate
  <2>3. RequestInv(r)'
    BY <1>1, <1>2, <1>3, <1>4, <1>5, <2>1, <2>2, EntryTypes
    DEF RequestInv, StageInv, NoteInv, CoverInv
  <2> QED
    BY <1>3, <1>4, <1>5, <2>1, <2>3, Locality DEF State
<1> QED
  BY <1>6, <1>7

(* The token refuses: the session goes, or its Reserve is rolled back.      *)
LEMMA TokenRefusedSafe ==
    ASSUME TypeOK, SafeInv, NEW r \in Requests, TokenRefused(r),
           pc[r] \in {"tokenRead", "tokenDebit"}, UNCHANGED <<req, bg, ledger>>
    PROVE  SafeInv'
<1>1. RequestInv(r)
  BY DEF SafeInv
<1>2. CASE reserving[r] > 0 /\ Goto(r, "reserveRollback")
           /\ UNCHANGED <<funding, flags, held>>
  <2>1. UNCHANGED reserving
    BY DEF TokenRefused
  <2>2. pc'[r] = "reserveRollback" /\ \A q \in Requests \ {r} : pc'[q] = pc[q]
    BY <1>2, GotoEffect DEF TypeOK
  <2>3. RequestInv(r)'
    BY <1>1, <1>2, <2>1, <2>2, EntryTypes
    DEF RequestInv, StageInv, NoteInv, CoverInv
  <2> QED
    BY <1>2, <2>1, <2>2, <2>3, Locality DEF State
<1>3. CASE reserving[r] = 0 /\ Goto(r, "rejected") /\ Drop(r)
  <2>1. UNCHANGED reserving
    BY DEF TokenRefused
  <2>2. pc'[r] = "rejected" /\ \A q \in Requests \ {r} : pc'[q] = pc[q]
    BY <1>3, GotoEffect DEF TypeOK
  <2>3. /\ funding'[r] = "none" /\ flags'[r] = {}
        /\ held'[r]["preConsumed"] = 0 /\ held'[r]["tokenConsumed"] = 0
        /\ held'[r]["fundConsumed"] = 0 /\ held'[r]["extraReserved"] = 0
        /\ \A q \in Requests \ {r} : /\ funding'[q] = funding[q]
                                     /\ flags'[q] = flags[q]
                                     /\ held'[q] = held[q]
    BY <1>3, StartEffect DEF TypeOK, Drop
  <2>4. RequestInv(r)'
    BY <1>1, <1>3, <2>1, <2>2, <2>3, EntryTypes
    DEF RequestInv, StageInv, NoteInv, CoverInv
  <2> QED
    BY <2>1, <2>2, <2>3, <2>4, Locality DEF State
<1> QED
  BY <1>2, <1>3 DEF TokenRefused

LEMMA ReadTokenSafe ==
    ASSUME TypeOK, SafeInv, NEW r \in Requests, ReadToken(r)
    PROVE  SafeInv'
<1>1. pc[r] = "tokenRead" /\ UNCHANGED <<req, bg>>
  BY DEF ReadToken, requestVars
<1>2. CASE Playground(r) /\ TokenCovered(r) /\ UNCHANGED ledger
  BY <1>1, <1>2, TokenCoveredSafe
<1>3. CASE TokenRefused(r) /\ UNCHANGED ledger
  BY <1>1, <1>3, TokenRefusedSafe
<1>4. CASE /\ Goto(r, "tokenDebit")
           /\ UNCHANGED <<funding, flags, held, reserving, faults, ledger>>
  <2>1. pc'[r] = "tokenDebit" /\ \A q \in Requests \ {r} : pc'[q] = pc[q]
    BY <1>4, GotoEffect DEF TypeOK
  <2>2. RequestInv(r)
    BY DEF SafeInv
  <2>3. RequestInv(r)'
    BY <1>1, <1>4, <2>1, <2>2, EntryTypes
    DEF RequestInv, StageInv, NoteInv, CoverInv
  <2> QED
    BY <1>1, <1>4, <2>1, <2>3, Locality DEF State
<1> QED
  BY <1>2, <1>3, <1>4 DEF ReadToken, Fault

LEMMA DebitTokenSafe ==
    ASSUME TypeOK, SafeInv, NEW r \in Requests, DebitToken(r)
    PROVE  SafeInv'
<1>1. pc[r] = "tokenDebit" /\ UNCHANGED <<req, bg>>
  BY DEF DebitToken, requestVars
<1> QED
  BY <1>1, TokenCoveredSafe, TokenRefusedSafe DEF DebitToken, Fault

LEMMA PreConsumeFundingSafe ==
    ASSUME TypeOK, SafeInv, NEW r \in Requests, PreConsumeFunding(r)
    PROVE  SafeInv'
<1>1. pc[r] = "fund" /\ UNCHANGED <<req, bg, funding, flags, reserving>>
  BY DEF PreConsumeFunding, requestVars
<1>2. RequestInv(r) /\ Effective(r)' = Effective(r)
  BY <1>1 DEF SafeInv, Effective, Estimate
<1>3. funding[r] \in Source /\ reserving[r] = 0
  BY <1>1, <1>2, EntryTypes DEF RequestInv, StageInv, Source
<1>4. CASE /\ Take(r, funding[r], Effective(r)) /\ Goto(r, "upstream")
           /\ held' = [held EXCEPT ![r]["fundConsumed"] = Effective(r),
                                   ![r]["preConsumed"]  = Effective(r)]
  <2>1. pc'[r] = "upstream" /\ \A q \in Requests \ {r} : pc'[q] = pc[q]
    BY <1>4, GotoEffect DEF TypeOK
  <2>2. /\ ledger'[r]["wallet"] = ledger[r]["wallet"]
           + IF funding[r] = "wallet" THEN Effective(r) ELSE 0
        /\ ledger'[r]["subscription"] = ledger[r]["subscription"]
           + IF funding[r] = "subscription" THEN Effective(r) ELSE 0
        /\ ledger'[r]["token"] = ledger[r]["token"]
        /\ ledger'[r]["limit"] = ledger[r]["limit"]
        /\ \A q \in Requests \ {r} : ledger'[q] = ledger[q]
    BY <1>3, <1>4, TakeEffect, EntryTypes DEF Account, Source
  <2>3. /\ held'[r]["fundConsumed"] = Effective(r)
        /\ held'[r]["preConsumed"] = Effective(r)
        /\ held'[r]["tokenConsumed"] = held[r]["tokenConsumed"]
        /\ held'[r]["extraReserved"] = held[r]["extraReserved"]
        /\ \A q \in Requests \ {r} : held'[q] = held[q]
    BY <1>4 DEF TypeOK, SessionType, Amount
  <2>4. RequestInv(r)'
    BY <1>1, <1>2, <1>3, <2>1, <2>2, <2>3, EntryTypes
    DEF RequestInv, StageInv, NoteInv, CoverInv, Source
  <2> QED
    BY <1>1, <2>1, <2>2, <2>3, <2>4, Locality DEF State
<1>5. CASE Goto(r, "rollback") /\ UNCHANGED <<held, ledger>>
  <2>1. pc'[r] = "rollback" /\ \A q \in Requests \ {r} : pc'[q] = pc[q]
    BY <1>5, GotoEffect DEF TypeOK
  <2>2. RequestInv(r)'
    BY <1>1, <1>2, <1>5, <2>1, EntryTypes
    DEF RequestInv, StageInv, NoteInv, CoverInv
  <2> QED
    BY <1>1, <1>5, <2>1, <2>2, Locality DEF State
<1> QED
  BY <1>4, <1>5 DEF PreConsumeFunding, Fault

LEMMA RollbackTokenSafe ==
    ASSUME TypeOK, SafeInv, NEW r \in Requests, RollbackToken(r)
    PROVE  SafeInv'
<1> DEFINE n == TokenPart(r, held[r]["tokenConsumed"])
<1>1. pc[r] = "rollback" /\ UNCHANGED <<req, bg, reserving>>
  BY DEF RollbackToken, requestVars
<1>2. RequestInv(r) /\ n \in Int
  BY EntryTypes DEF SafeInv, TokenPart
<1>3. /\ pc'[r] \in {"subscription", "wallet", "rejected"}
      /\ \A q \in Requests \ {r} : pc'[q] = pc[q]
  BY GotoEffect DEF TypeOK, RollbackToken, FallsBackTo
<1>4. /\ funding'[r] = "none" /\ flags'[r] = {}
      /\ held'[r]["preConsumed"] = 0 /\ held'[r]["tokenConsumed"] = 0
      /\ held'[r]["fundConsumed"] = 0 /\ held'[r]["extraReserved"] = 0
      /\ \A q \in Requests \ {r} : /\ funding'[q] = funding[q]
                                   /\ flags'[q] = flags[q]
                                   /\ held'[q] = held[q]
  BY StartEffect DEF TypeOK, RollbackToken, Drop
<1>5. /\ ledger'[r]["token"] \in {ledger[r]["token"], ledger[r]["token"] - n}
      /\ ledger'[r]["wallet"] = ledger[r]["wallet"]
      /\ ledger'[r]["subscription"] = ledger[r]["subscription"]
      /\ ledger'[r]["limit"] = ledger[r]["limit"]
      /\ \A q \in Requests \ {r} : ledger'[q] = ledger[q]
  <2>1. CASE UNCHANGED ledger
    BY <2>1, EntryTypes
  <2>2. CASE Take(r, "token", -n)
    BY <1>2, <2>2, TakeEffect, EntryTypes DEF Account, Source
  <2> QED
    BY <2>1, <2>2 DEF RollbackToken, Fault
<1>6. RequestInv(r)'
  BY <1>1, <1>2, <1>3, <1>4, <1>5, EntryTypes
  DEF RequestInv, StageInv, NoteInv, CoverInv, Account, Source, TokenPart
<1> QED
  BY <1>1, <1>3, <1>4, <1>5, <1>6, Locality DEF State

LEMMA RejectedSafe ==
    ASSUME TypeOK, SafeInv, NEW r \in Requests, Rejected(r)
    PROVE  SafeInv'
<1>1. pc[r] = "rejected"
      /\ UNCHANGED <<req, bg, funding, flags, held, reserving, ledger>>
  BY DEF Rejected, sessionVars, rowVars
<1>2. RequestInv(r)
  BY DEF SafeInv
<1>3. /\ pc'[r] \in {"done", "arrived"}
      /\ \A q \in Requests \ {r} : pc'[q] = pc[q]
  BY GotoEffect DEF TypeOK, Rejected
<1>4. RequestInv(r)'
  BY <1>1, <1>2, <1>3, EntryTypes DEF RequestInv, StageInv, NoteInv, CoverInv
<1> QED
  BY <1>1, <1>3, <1>4, Locality DEF State

(* The handler moves on and nothing that is owed changes.                   *)
LEMMA MoveSafe ==
    ASSUME TypeOK, SafeInv, NEW r \in Requests,
           AttemptFails(r) \/ AttemptSucceeds(r) \/ Log(r) \/ Panic(r)
    PROVE  SafeInv'
<1>1. UNCHANGED <<req, bg, funding, flags, held, reserving, ledger>>
  BY DEF AttemptFails, AttemptSucceeds, Log, Panic, requestVars, sessionVars,
         rowVars
<1>2. RequestInv(r)
  BY DEF SafeInv
<1>3. /\ \A q \in Requests \ {r} : pc'[q] = pc[q]
      /\ \/ pc[r] = "upstream" /\ pc'[r] \in {"upstream", "settleFund"}
         \/ /\ pc[r] \in {"upstream", "settleFund", "settleToken", "log"}
            /\ pc'[r] \in {"refund", "done"}
  <2>1. CASE AttemptFails(r)
    BY <2>1, GotoEffect DEF TypeOK, AttemptFails
  <2>2. CASE AttemptSucceeds(r)
    BY <2>2, GotoEffect DEF TypeOK, AttemptSucceeds
  <2>3. CASE Log(r) \/ Panic(r)
    BY <2>3, GotoEffect DEF TypeOK, Log, Panic
  <2> QED
    BY <2>1, <2>2, <2>3
<1>4. RequestInv(r)'
  BY <1>1, <1>2, <1>3, EntryTypes DEF RequestInv, StageInv, NoteInv, CoverInv
<1> QED
  BY <1>1, <1>3, <1>4, Locality DEF State

LEMMA ReserveSafe ==
    ASSUME TypeOK, SafeInv, NEW r \in Requests, NEW t \in ReserveTargets,
           Reserve(r, t)
    PROVE  SafeInv'
<1> DEFINE delta == t - held[r]["preConsumed"]
<1>1. /\ pc[r] = "upstream" /\ funding[r] \in Source
      /\ delta \in Int /\ delta > 0
      /\ UNCHANGED <<req, bg, funding, flags>>
  BY EntryTypes, AmountsAssumption DEF Reserve, requestVars, Source
<1>2. RequestInv(r)
  BY DEF SafeInv
<1>3. pc'[r] = "tokenRead" /\ \A q \in Requests \ {r} : pc'[q] = pc[q]
  BY GotoEffect DEF TypeOK, Reserve
<1>4. /\ ledger'[r]["wallet"] = ledger[r]["wallet"]
         + IF funding[r] = "wallet" THEN delta ELSE 0
      /\ ledger'[r]["subscription"] = ledger[r]["subscription"]
         + IF funding[r] = "subscription" THEN delta ELSE 0
      /\ ledger'[r]["token"] = ledger[r]["token"]
      /\ ledger'[r]["limit"] = ledger[r]["limit"]
      /\ \A q \in Requests \ {r} : ledger'[q] = ledger[q]
  <2>1. Take(r, funding[r], delta) /\ funding[r] \in Account
    BY <1>1 DEF Reserve, Account
  <2> HIDE DEF delta
  <2> QED
    BY <1>1, <2>1, TakeEffect, EntryTypes DEF Source
<1>5. reserving'[r] = delta /\ \A q \in Requests \ {r} : reserving'[q] = reserving[q]
  BY DEF Reserve, TypeOK, SessionType
<1>6. /\ held'[r]["fundConsumed"] = held[r]["fundConsumed"]
         + IF funding[r] = "wallet" THEN delta ELSE 0
      /\ held'[r]["preConsumed"] = held[r]["preConsumed"]
      /\ held'[r]["tokenConsumed"] = held[r]["tokenConsumed"]
      /\ held'[r]["extraReserved"] = held[r]["extraReserved"]
      /\ \A q \in Requests \ {r} : held'[q] = held[q]
  BY <1>1, EntryTypes DEF Reserve, NoteReserve, TypeOK, SessionType, Amount
<1>7. reserving[r] = 0 /\ bg[r] = "idle"
  BY <1>1, <1>2, EntryTypes DEF RequestInv, StageInv
<1> HIDE DEF delta
<1>8. RequestInv(r)'
  BY <1>1, <1>2, <1>3, <1>4, <1>5, <1>6, <1>7, EntryTypes
  DEF RequestInv, StageInv, NoteInv, CoverInv, Source
<1> QED
  BY <1>1, <1>3, <1>4, <1>5, <1>6, <1>8, Locality DEF State

LEMMA RollbackReserveSafe ==
    ASSUME TypeOK, SafeInv, NEW r \in Requests, RollbackReserve(r)
    PROVE  SafeInv'
<1>1. pc[r] = "reserveRollback" /\ UNCHANGED <<req, bg, funding, flags>>
  BY DEF RollbackReserve, requestVars
<1>2. RequestInv(r)
  BY DEF SafeInv
<1>3. pc'[r] = "upstream" /\ \A q \in Requests \ {r} : pc'[q] = pc[q]
  BY GotoEffect DEF TypeOK, RollbackReserve
<1>4. reserving'[r] = 0 /\ \A q \in Requests \ {r} : reserving'[q] = reserving[q]
  BY DEF RollbackReserve, TypeOK, SessionType
<1>5. funding[r] \in Source /\ bg[r] = "idle"
  BY <1>1, <1>2, EntryTypes DEF RequestInv, StageInv, Source
<1>6. CASE Take(r, funding[r], -reserving[r]) /\ NoteReserve(r, -reserving[r])
  <2>1. /\ ledger'[r]["wallet"] = ledger[r]["wallet"]
           - IF funding[r] = "wallet" THEN reserving[r] ELSE 0
        /\ ledger'[r]["subscription"] = ledger[r]["subscription"]
           - IF funding[r] = "subscription" THEN reserving[r] ELSE 0
        /\ ledger'[r]["token"] = ledger[r]["token"]
        /\ ledger'[r]["limit"] = ledger[r]["limit"]
        /\ \A q \in Requests \ {r} : ledger'[q] = ledger[q]
    <3>1. -reserving[r] \in Int /\ funding[r] \in Account
      BY <1>5, EntryTypes DEF Account
    <3> QED
      BY <1>5, <1>6, <3>1, TakeEffect, EntryTypes DEF Source
  <2>2. /\ held'[r]["fundConsumed"] = held[r]["fundConsumed"]
           - IF funding[r] = "wallet" THEN reserving[r] ELSE 0
        /\ held'[r]["preConsumed"] = held[r]["preConsumed"]
        /\ held'[r]["tokenConsumed"] = held[r]["tokenConsumed"]
        /\ held'[r]["extraReserved"] = held[r]["extraReserved"]
        /\ \A q \in Requests \ {r} : held'[q] = held[q]
    BY <1>6, EntryTypes DEF NoteReserve, TypeOK, SessionType, Amount
  <2>3. RequestInv(r)'
    BY <1>1, <1>2, <1>3, <1>4, <1>5, <2>1, <2>2, EntryTypes
    DEF RequestInv, StageInv, NoteInv, CoverInv, Source
  <2> QED
    BY <1>1, <1>3, <1>4, <2>1, <2>2, <2>3, Locality DEF State
<1>7. CASE UNCHANGED <<held, ledger>>
  <2>1. RequestInv(r)'
    BY <1>1, <1>2, <1>3, <1>4, <1>5, <1>7, EntryTypes
    DEF RequestInv, StageInv, NoteInv, CoverInv, Source
  <2> QED
    BY <1>1, <1>3, <1>4, <1>7, <2>1, Locality DEF State
<1> QED
  BY <1>6, <1>7 DEF RollbackReserve, Fault

(* What settlement may take back is covered by what the source has given.   *)
LEMMA SettleFundingSafe ==
    ASSUME TypeOK, SafeInv, NEW r \in Requests, SettleFunding(r)
    PROVE  SafeInv'
<1>1. pc[r] = "settleFund" /\ UNCHANGED <<req, bg, funding, held, reserving>>
  BY DEF SettleFunding, requestVars
<1>2. RequestInv(r)
  BY DEF SafeInv
<1>3. bg[r] = "idle" /\ reserving[r] = 0
  BY <1>1, <1>2, EntryTypes DEF RequestInv, StageInv
<1>4. CASE /\ Take(r, Payer(r), Delta(r)) /\ Goto(r, "settleToken")
           /\ IF Direct(r) THEN UNCHANGED flags ELSE Set(r, {"fundingSettled"})
  <2>1. pc'[r] = "settleToken" /\ \A q \in Requests \ {r} : pc'[q] = pc[q]
    BY <1>4, GotoEffect DEF TypeOK
  <2>2. Delta(r) = due[r] - held[r]["preConsumed"] /\ Delta(r) \in Int
    BY EntryTypes DEF Delta
  <2>3. Payer(r) = (IF funding[r] = "none" THEN "wallet" ELSE funding[r])
        /\ Payer(r) \in Account
    BY EntryTypes DEF Payer, Direct, Account, Source
  <2>4. /\ ledger'[r]["wallet"] = ledger[r]["wallet"]
           + IF Payer(r) = "wallet" THEN Delta(r) ELSE 0
        /\ ledger'[r]["subscription"] = ledger[r]["subscription"]
           + IF Payer(r) = "subscription" THEN Delta(r) ELSE 0
        /\ ledger'[r]["token"] = ledger[r]["token"]
        /\ ledger'[r]["limit"] = ledger[r]["limit"]
        /\ \A q \in Requests \ {r} : ledger'[q] = ledger[q]
    BY <1>4, <2>2, <2>3, TakeEffect, EntryTypes
  <2>5. /\ flags'[r] = flags[r] \cup IF funding[r] = "none" THEN {}
                                     ELSE {"fundingSettled"}
        /\ \A q \in Requests \ {r} : flags'[q] = flags[q]
    BY <1>4, SetEffect DEF TypeOK, Direct
  <2>6. RequestInv(r)'
    BY <1>1, <1>2, <1>3, <2>1, <2>2, <2>3, <2>4, <2>5, EntryTypes
    DEF RequestInv, StageInv, NoteInv, CoverInv
  <2> QED
    BY <1>1, <2>1, <2>4, <2>5, <2>6, Locality DEF State
<1>5. CASE Goto(r, "log") /\ UNCHANGED ledger
           /\ (UNCHANGED flags \/ Set(r, {"settled"}))
  <2>1. pc'[r] = "log" /\ \A q \in Requests \ {r} : pc'[q] = pc[q]
    BY <1>5, GotoEffect DEF TypeOK
  <2>2. /\ flags'[r] \in {flags[r], flags[r] \cup {"settled"}}
        /\ \A q \in Requests \ {r} : flags'[q] = flags[q]
    BY <1>5, SetEffect DEF TypeOK
  <2>3. RequestInv(r)'
    BY <1>1, <1>2, <1>3, <1>5, <2>1, <2>2, EntryTypes
    DEF RequestInv, StageInv, NoteInv, CoverInv
  <2> QED
    BY <1>1, <1>5, <2>1, <2>2, <2>3, Locality DEF State
<1> QED
  BY <1>4, <1>5 DEF SettleFunding, Fault

LEMMA SettleTokenSafe ==
    ASSUME TypeOK, SafeInv, NEW r \in Requests, SettleToken(r)
    PROVE  SafeInv'
<1>1. pc[r] = "settleToken" /\ UNCHANGED <<req, bg, funding, held, reserving>>
  BY DEF SettleToken, requestVars
<1>2. RequestInv(r)
  BY DEF SafeInv
<1>3. bg[r] = "idle" /\ reserving[r] = 0
  BY <1>1, <1>2, EntryTypes DEF RequestInv, StageInv
<1>4. pc'[r] = "log" /\ \A q \in Requests \ {r} : pc'[q] = pc[q]
  BY GotoEffect DEF TypeOK, SettleToken
<1>5. /\ flags'[r] = flags[r] \cup IF funding[r] = "none" THEN {} ELSE {"settled"}
      /\ \A q \in Requests \ {r} : flags'[q] = flags[q]
  BY SetEffect DEF TypeOK, SettleToken, Direct
<1>6. Delta(r) = due[r] - held[r]["preConsumed"] /\ Delta(r) \in Int
  BY EntryTypes DEF Delta
<1>7. TokenPart(r, Delta(r)) = (IF Playground(r) THEN 0 ELSE Delta(r))
      /\ TokenPart(r, Delta(r)) \in Int
  BY <1>6 DEF TokenPart
<1>8. CASE ledger' = [ledger EXCEPT
                ![r]["token"] = @ + TokenPart(r, Delta(r)),
                ![r]["limit"] = @ + IF Direct(r) THEN Delta(r) ELSE 0]
  <2>1. /\ ledger'[r]["wallet"] = ledger[r]["wallet"]
        /\ ledger'[r]["subscription"] = ledger[r]["subscription"]
        /\ ledger'[r]["token"] = ledger[r]["token"] + TokenPart(r, Delta(r))
        /\ ledger'[r]["limit"] = ledger[r]["limit"]
           + IF funding[r] = "none" THEN Delta(r) ELSE 0
        /\ \A q \in Requests \ {r} : ledger'[q] = ledger[q]
    <3> DEFINE m == TokenPart(r, Delta(r))
               n == IF Direct(r) THEN Delta(r) ELSE 0
    <3>1. n = IF funding[r] = "none" THEN Delta(r) ELSE 0
      BY DEF Direct
    <3>2. RowType /\ m \in Int /\ n \in Int
      BY <1>6, <1>7 DEF TypeOK
    <3>3. ledger' = [ledger EXCEPT ![r]["token"] = @ + m,
                                   ![r]["limit"] = @ + n]
      BY <1>8, Zenon
    <3> HIDE DEF m, n
    <3>4. /\ ledger'[r]["wallet"] = ledger[r]["wallet"]
          /\ ledger'[r]["subscription"] = ledger[r]["subscription"]
          /\ ledger'[r]["token"] = ledger[r]["token"] + m
          /\ ledger'[r]["limit"] = ledger[r]["limit"] + n
          /\ \A q \in Requests \ {r} : ledger'[q] = ledger[q]
      BY <3>2, <3>3, ChargeEffect
    <3> QED
      BY <3>1, <3>4 DEF m
  <2>2. RequestInv(r)'
    BY <1>1, <1>2, <1>3, <1>4, <1>5, <1>6, <1>7, <2>1, EntryTypes
    DEF RequestInv, StageInv, NoteInv, CoverInv
  <2> QED
    BY <1>1, <1>4, <1>5, <2>1, <2>2, Locality DEF State
<1>9. CASE UNCHANGED ledger
  <2>1. RequestInv(r)'
    BY <1>1, <1>2, <1>3, <1>4, <1>5, <1>9, EntryTypes
    DEF RequestInv, StageInv, NoteInv, CoverInv
  <2> QED
    BY <1>1, <1>4, <1>5, <1>9, <2>1, Locality DEF State
<1> QED
  BY <1>8, <1>9 DEF SettleToken, Fault

(* A refund is only started for a session nothing of which is settled.      *)
LEMMA RefundSafe ==
    ASSUME TypeOK, SafeInv, NEW r \in Requests, Refund(r)
    PROVE  SafeInv'
<1>1. pc[r] = "refund" /\ UNCHANGED <<req, funding, held, reserving, ledger>>
  BY DEF Refund, requestVars, rowVars
<1>2. RequestInv(r)
  BY DEF SafeInv
<1>3. bg[r] = "idle" /\ reserving[r] = 0
  BY <1>1, <1>2, EntryTypes DEF RequestInv, StageInv
<1>4. pc'[r] \in {"fee", "done"} /\ \A q \in Requests \ {r} : pc'[q] = pc[q]
  BY GotoEffect DEF TypeOK, Refund
<1>5. CASE NeedsRefund(r)
  <2>1. /\ funding[r] # "none" /\ ~Settled(r) /\ ~FundingSettled(r)
        /\ bg' = [bg EXCEPT ![r] = "funding"] /\ Set(r, {"refunded"})
    BY <1>5 DEF NeedsRefund, Refund
  <2>2. bg'[r] = "funding" /\ \A q \in Requests \ {r} : bg'[q] = bg[q]
    BY <2>1 DEF TypeOK, ControlType
  <2>3. /\ flags'[r] = flags[r] \cup {"refunded"}
        /\ \A q \in Requests \ {r} : flags'[q] = flags[q]
    BY <2>1, SetEffect DEF TypeOK
  <2>4. RequestInv(r)'
    BY <1>1, <1>2, <1>3, <1>4, <2>1, <2>2, <2>3, EntryTypes
    DEF RequestInv, StageInv, NoteInv, CoverInv
  <2> QED
    BY <1>1, <1>4, <2>2, <2>3, <2>4, Locality DEF State
<1>6. CASE UNCHANGED <<flags, bg>>
  <2>1. RequestInv(r)'
    BY <1>1, <1>2, <1>3, <1>4, <1>6, EntryTypes
    DEF RequestInv, StageInv, NoteInv, CoverInv
  <2> QED
    BY <1>1, <1>4, <1>6, <2>1, Locality DEF State
<1> QED
  BY <1>5, <1>6 DEF Refund

(* The calls of the refund goroutine.                                       *)
LEMMA RefundFundingSafe ==
    ASSUME TypeOK, SafeInv, NEW r \in Requests, RefundFunding(r)
    PROVE  SafeInv'
<1> DEFINE n == held[r]["fundConsumed"]
<1>1. UNCHANGED <<req, pc, funding, flags, held, reserving>>
  BY DEF RefundFunding, RefundWallet, RefundSubscription, GiveBack, requestVars,
     sessionVars
<1>2. RequestInv(r)
  BY DEF SafeInv
<1>3. /\ bg[r] \in {"funding", "again", "last"}
      /\ funding[r] = "wallet" => bg[r] = "funding"
      /\ funding[r] \in Source
  BY DEF RefundFunding, RefundWallet, RefundSubscription, GiveBack, Attempts,
     Source
<1>4. bg'[r] \in {"again", "last", "extra"} /\ \A q \in Requests \ {r} : bg'[q] = bg[q]
  BY DEF RefundFunding, RefundWallet, RefundSubscription, GiveBack, TypeOK,
     ControlType, AfterFailed
<1>5. CASE Take(r, funding[r], -n)
  <2>1. /\ ledger'[r]["wallet"] = ledger[r]["wallet"]
           - IF funding[r] = "wallet" THEN n ELSE 0
        /\ ledger'[r]["token"] = ledger[r]["token"]
        /\ ledger'[r]["limit"] = ledger[r]["limit"]
        /\ \A q \in Requests \ {r} : ledger'[q] = ledger[q]
    <3>1. -n \in Int /\ n \in Int /\ funding[r] \in Account
      BY <1>3, EntryTypes DEF Account
    <3> HIDE DEF n
    <3> QED
      BY <1>3, <1>5, <3>1, TakeEffect, EntryTypes DEF Source
  <2>2. RequestInv(r)'
    BY <1>1, <1>2, <1>3, <1>4, <2>1, EntryTypes
    DEF RequestInv, StageInv, NoteInv, CoverInv, Source
  <2> QED
    BY <1>1, <1>4, <2>1, <2>2, Locality DEF State
<1>6. CASE UNCHANGED ledger
  <2>1. RequestInv(r)'
    BY <1>1, <1>2, <1>3, <1>4, <1>6, EntryTypes
    DEF RequestInv, StageInv, NoteInv, CoverInv, Source
  <2> QED
    BY <1>1, <1>4, <1>6, <2>1, Locality DEF State
<1> QED
  BY <1>5, <1>6
  DEF RefundFunding, RefundWallet, RefundSubscription, GiveBack, RefundAmount,
      Fault, LateFault

LEMMA RefundExtraSafe ==
    ASSUME TypeOK, SafeInv, NEW r \in Requests, RefundExtra(r)
    PROVE  SafeInv'
<1>1. bg[r] = "extra"
      /\ UNCHANGED <<req, pc, funding, flags, held, reserving>>
  BY DEF RefundExtra, GiveBack, requestVars, sessionVars
<1>2. RequestInv(r)
  BY DEF SafeInv
<1>3. funding[r] \in Source
  BY <1>1, <1>2, EntryTypes DEF RequestInv, StageInv, Source
<1>4. bg'[r] = "token" /\ \A q \in Requests \ {r} : bg'[q] = bg[q]
  BY DEF RefundExtra, GiveBack, TypeOK, ControlType
<1>5. CASE Take(r, funding[r], -Extra(r))
  <2>1. /\ ledger'[r]["wallet"] = ledger[r]["wallet"]
           - IF funding[r] = "wallet" THEN Extra(r) ELSE 0
        /\ ledger'[r]["subscription"] = ledger[r]["subscription"]
           - IF funding[r] = "subscription" THEN Extra(r) ELSE 0
        /\ ledger'[r]["token"] = ledger[r]["token"]
        /\ ledger'[r]["limit"] = ledger[r]["limit"]
        /\ \A q \in Requests \ {r} : ledger'[q] = ledger[q]
    <3>1. /\ -Extra(r) \in Int /\ Extra(r) \in Int /\ funding[r] \in Account
      BY <1>3, EntryTypes DEF Account
    <3> HIDE DEF Extra
    <3> QED
      BY <1>3, <1>5, <3>1, TakeEffect, EntryTypes DEF Source
  <2>2. RequestInv(r)'
    BY <1>1, <1>2, <1>3, <1>4, <2>1, EntryTypes
    DEF RequestInv, StageInv, NoteInv, CoverInv, Source
  <2> QED
    BY <1>1, <1>4, <2>1, <2>2, Locality DEF State
<1>6. CASE UNCHANGED ledger
  <2>1. RequestInv(r)'
    BY <1>1, <1>2, <1>3, <1>4, <1>6, EntryTypes
    DEF RequestInv, StageInv, NoteInv, CoverInv, Source
  <2> QED
    BY <1>1, <1>4, <1>6, <2>1, Locality DEF State
<1> QED
  BY <1>5, <1>6 DEF RefundExtra, GiveBack, Fault

LEMMA RefundTokenSafe ==
    ASSUME TypeOK, SafeInv, NEW r \in Requests, RefundToken(r)
    PROVE  SafeInv'
<1> DEFINE n == TokenPart(r, held[r]["tokenConsumed"])
<1>1. bg[r] = "token"
      /\ UNCHANGED <<req, pc, funding, flags, held, reserving>>
  BY DEF RefundToken, GiveBack, requestVars, sessionVars
<1>2. RequestInv(r)
  BY DEF SafeInv
<1>3. n = (IF Playground(r) THEN 0 ELSE held[r]["tokenConsumed"]) /\ n \in Int
  BY EntryTypes DEF TokenPart
<1>4. bg'[r] = "finished" /\ \A q \in Requests \ {r} : bg'[q] = bg[q]
  BY DEF RefundToken, GiveBack, TypeOK, ControlType
<1>5. CASE Take(r, "token", -n)
  <2>1. /\ ledger'[r]["wallet"] = ledger[r]["wallet"]
        /\ ledger'[r]["subscription"] = ledger[r]["subscription"]
        /\ ledger'[r]["token"] = ledger[r]["token"] - n
        /\ ledger'[r]["limit"] = ledger[r]["limit"]
        /\ \A q \in Requests \ {r} : ledger'[q] = ledger[q]
    <3>1. -n \in Int /\ "token" \in Account
      BY <1>3 DEF Account
    <3> HIDE DEF n
    <3> QED
      BY <1>3, <1>5, <3>1, TakeEffect, EntryTypes
  <2> HIDE DEF n
  <2>2. RequestInv(r)'
    BY <1>1, <1>2, <1>3, <1>4, <2>1, EntryTypes
    DEF RequestInv, StageInv, NoteInv, CoverInv
  <2> QED
    BY <1>1, <1>4, <2>1, <2>2, Locality DEF State
<1>6. CASE UNCHANGED ledger
  <2>1. RequestInv(r)'
    BY <1>1, <1>2, <1>4, <1>6, EntryTypes
    DEF RequestInv, StageInv, NoteInv, CoverInv
  <2> QED
    BY <1>1, <1>4, <1>6, <2>1, Locality DEF State
<1> QED
  BY <1>5, <1>6 DEF RefundToken, GiveBack, Fault

(* The fee only adds to the rows, whatever the goroutine is doing.          *)
LEMMA ChargeFeeSafe ==
    ASSUME TypeOK, SafeInv, NEW r \in Requests, ChargeFee(r)
    PROVE  SafeInv'
<1>1. pc[r] = "fee" /\ UNCHANGED <<req, bg, funding, flags, held, reserving>>
  BY DEF ChargeFee, requestVars, sessionVars
<1>2. RequestInv(r)
  BY DEF SafeInv
<1>3. pc'[r] \in {"feeToken", "done"} /\ \A q \in Requests \ {r} : pc'[q] = pc[q]
  BY GotoEffect DEF TypeOK, ChargeFee
<1>4. CASE Take(r, Payer(r), Fee)
  <2>1. Payer(r) \in {"wallet", "subscription"} /\ Fee \in Nat
    BY AmountsAssumption, EntryTypes DEF Payer, Direct
  <2>2. /\ ledger'[r]["wallet"] = ledger[r]["wallet"]
           + IF Payer(r) = "wallet" THEN Fee ELSE 0
        /\ ledger'[r]["subscription"] = ledger[r]["subscription"]
           + IF Payer(r) = "subscription" THEN Fee ELSE 0
        /\ ledger'[r]["token"] = ledger[r]["token"]
        /\ ledger'[r]["limit"] = ledger[r]["limit"]
        /\ \A q \in Requests \ {r} : ledger'[q] = ledger[q]
    BY <1>4, <2>1, TakeEffect, EntryTypes DEF Account, Source
  <2>3. RequestInv(r)'
    BY <1>1, <1>2, <1>3, <2>1, <2>2, EntryTypes
    DEF RequestInv, StageInv, NoteInv, CoverInv
  <2> QED
    BY <1>1, <1>3, <2>2, <2>3, Locality DEF State
<1>5. CASE UNCHANGED ledger
  <2>1. RequestInv(r)'
    BY <1>1, <1>2, <1>3, <1>5, EntryTypes
    DEF RequestInv, StageInv, NoteInv, CoverInv
  <2> QED
    BY <1>1, <1>3, <1>5, <2>1, Locality DEF State
<1> QED
  BY <1>4, <1>5 DEF ChargeFee, Fault

LEMMA ChargeFeeTokenSafe ==
    ASSUME TypeOK, SafeInv, NEW r \in Requests, ChargeFeeToken(r)
    PROVE  SafeInv'
<1>1. pc[r] = "feeToken"
      /\ UNCHANGED <<req, bg, funding, flags, held, reserving>>
  BY DEF ChargeFeeToken, requestVars, sessionVars
<1>2. RequestInv(r)
  BY DEF SafeInv
<1>3. pc'[r] = "done" /\ \A q \in Requests \ {r} : pc'[q] = pc[q]
  BY GotoEffect DEF TypeOK, ChargeFeeToken
<1>4. CASE ledger' = [ledger EXCEPT ![r]["token"] = @ + TokenPart(r, Fee),
                                    ![r]["limit"] = @ + Fee]
  <2>1. TokenPart(r, Fee) \in Nat /\ Fee \in Nat
    BY AmountsAssumption DEF TokenPart
  <2>2. /\ ledger'[r]["wallet"] = ledger[r]["wallet"]
        /\ ledger'[r]["subscription"] = ledger[r]["subscription"]
        /\ ledger'[r]["token"] = ledger[r]["token"] + TokenPart(r, Fee)
        /\ ledger'[r]["limit"] = ledger[r]["limit"] + Fee
        /\ \A q \in Requests \ {r} : ledger'[q] = ledger[q]
    <3> DEFINE m == TokenPart(r, Fee)
    <3>1. /\ RowType /\ m \in Int /\ Fee \in Int
          /\ ledger' = [ledger EXCEPT ![r]["token"] = @ + m,
                                      ![r]["limit"] = @ + Fee]
      BY <1>4, <2>1 DEF TypeOK
    <3> HIDE DEF m
    <3>2. /\ ledger'[r]["wallet"] = ledger[r]["wallet"]
          /\ ledger'[r]["subscription"] = ledger[r]["subscription"]
          /\ ledger'[r]["token"] = ledger[r]["token"] + m
          /\ ledger'[r]["limit"] = ledger[r]["limit"] + Fee
          /\ \A q \in Requests \ {r} : ledger'[q] = ledger[q]
      BY <3>1, ChargeEffect
    <3> QED
      BY <3>2 DEF m
  <2>3. RequestInv(r)'
    BY <1>1, <1>2, <1>3, <2>1, <2>2, EntryTypes
    DEF RequestInv, StageInv, NoteInv, CoverInv
  <2> QED
    BY <1>1, <1>3, <2>2, <2>3, Locality DEF State
<1>5. CASE UNCHANGED ledger
  <2>1. RequestInv(r)'
    BY <1>1, <1>2, <1>3, <1>5, EntryTypes
    DEF RequestInv, StageInv, NoteInv, CoverInv
  <2> QED
    BY <1>1, <1>3, <1>5, <2>1, Locality DEF State
<1> QED
  BY <1>4, <1>5 DEF ChargeFeeToken, Fault

(* What a killed process loses is never something a row is owed.            *)
LEMMA CrashSafe ==
    ASSUME TypeOK, SafeInv, Crash
    PROVE  SafeInv'
<1> SUFFICES ASSUME NEW r \in Requests
             PROVE  RequestInv(r)'
  BY DEF SafeInv
<1>1. UNCHANGED <<req, funding, flags, held, reserving, ledger>>
  BY DEF Crash, requestVars, sessionVars, rowVars
<1>2. /\ pc'[r] = (IF Working(r) THEN "crashed" ELSE pc[r])
      /\ bg'[r] = (IF Refunding(r) THEN "crashed" ELSE bg[r])
  BY DEF Crash
<1>3. RequestInv(r)
  BY DEF SafeInv
<1> QED
  BY <1>1, <1>2, <1>3, EntryTypes
  DEF RequestInv, StageInv, NoteInv, CoverInv, Working, Refunding

-----------------------------------------------------------------------------
LEMMA SafeInit ==
    ASSUME Init
    PROVE  SafeInv
BY DEF Init, SafeInv, RequestInv, StageInv, NoteInv, CoverInv, Amount, Account,
       Source

LEMMA SafeStep ==
    ASSUME TypeOK, SafeInv, [Next]_vars
    PROVE  SafeInv'
<1>1. CASE Crash
  BY <1>1, CrashSafe
<1>2. ASSUME NEW r \in Requests, Handler(r)
      PROVE  SafeInv'
  BY <1>2, ChooseFundingSafe, TryWalletSafe, TrySubscriptionSafe,
     ReadTokenSafe, DebitTokenSafe, PreConsumeFundingSafe, RollbackTokenSafe,
     RejectedSafe, MoveSafe, ReserveSafe, RollbackReserveSafe,
     SettleFundingSafe, SettleTokenSafe, RefundSafe, ChargeFeeSafe,
     ChargeFeeTokenSafe
  DEF Handler
<1>3. ASSUME NEW r \in Requests, Goroutine(r)
      PROVE  SafeInv'
  BY <1>3, RefundFundingSafe, RefundExtraSafe, RefundTokenSafe DEF Goroutine
<1>4. CASE UNCHANGED vars
  <2>1. UNCHANGED <<req, pc, bg, funding, flags, held, reserving, ledger>>
    BY <1>4 DEF vars, requestVars, sessionVars, rowVars
  <2> QED
    BY <2>1 DEF SafeInv, RequestInv, StageInv, NoteInv, CoverInv, Effective,
       Estimate
<1> QED
  BY <1>1, <1>2, <1>3, <1>4, ArriveSafe, MoveSafe DEF Next

LEMMA Safety == Spec => [](TypeOK /\ SafeInv)
BY TypeInit, TypeStep, SafeInit, SafeStep, PTL DEF Spec

-----------------------------------------------------------------------------
(* A refund of a subscription that fails may have given the amount back all *)
(* the same, and is tried again.                                            *)

(* The rest of what a step of r may change.                                 *)
Tally(r) == <<outcome[r], due[r], fee[r], faults[r]>>

(* A step of one request is no step of another.                             *)
LEMMA OneRequest ==
    ASSUME TypeOK, NEW r \in Requests, NEW q \in Requests \ {r},
           Arrive(r) \/ Handler(r) \/ Panic(r) \/ Goroutine(r)
    PROVE  State(q)' = State(q) /\ Tally(q)' = Tally(q)
<1> SUFFICES /\ UNCHANGED <<req, pc[q], bg[q], funding[q], flags[q], held[q],
                            reserving[q], ledger[q]>>
             /\ UNCHANGED <<outcome[q], due[q], fee[q], faults[q]>>
  BY DEF State, Tally
<1> USE DEF TypeOK, RequestType, ControlType, SessionType, RowType, Goto, Note,
        Set, Start, Drop, Take, Fault, requestVars, sessionVars, rowVars
<1>1. CASE Arrive(r) \/ ChooseFunding(r) \/ Rejected(r) \/ AttemptFails(r)
           \/ AttemptSucceeds(r) \/ Log(r) \/ Panic(r)
  BY <1>1 DEF Arrive, ChooseFunding, Rejected, AttemptFails, AttemptSucceeds,
     Log, Panic
<1>2. CASE TryWallet(r)
  BY <1>2 DEF TryWallet
<1>3. CASE TrySubscription(r)
  BY <1>3 DEF TrySubscription
<1>4. CASE ReadToken(r)
  BY <1>4 DEF ReadToken, TokenCovered, TokenRefused
<1>5. CASE DebitToken(r)
  BY <1>5 DEF DebitToken, TokenCovered, TokenRefused
<1>6. CASE PreConsumeFunding(r)
  BY <1>6 DEF PreConsumeFunding
<1>7. CASE RollbackToken(r)
  BY <1>7 DEF RollbackToken
<1>8. CASE \E n \in ReserveTargets : Reserve(r, n)
  BY <1>8 DEF Reserve, NoteReserve
<1>9. CASE RollbackReserve(r)
  BY <1>9 DEF RollbackReserve, NoteReserve
<1>10. CASE SettleFunding(r) \/ SettleToken(r)
  BY <1>10 DEF SettleFunding, SettleToken
<1>11. CASE Refund(r) \/ ChargeFee(r) \/ ChargeFeeToken(r)
  BY <1>11 DEF Refund, ChargeFee, ChargeFeeToken
<1>12. CASE Goroutine(r)
  BY <1>12 DEF Goroutine, RefundFunding, RefundWallet, RefundSubscription,
     LateFault, RefundExtra, RefundToken, GiveBack
<1> QED
  BY <1>1, <1>2, <1>3, <1>4, <1>5, <1>6, <1>7, <1>8, <1>9, <1>10, <1>11, <1>12
  DEF Handler

(* What the errors r has met may have given back once too often.            *)
TwiceGiven(r) == faults[r] * held[r]["fundConsumed"]

(* What is left of the subscription's row while the hold is given back ...  *)
LaterInv(r) ==
    /\ bg[r] \in {"again", "last"} =>
          ledger[r]["subscription"] + TwiceGiven(r)
             >= held[r]["fundConsumed"] + Extra(r)
    /\ bg[r] = "extra" => ledger[r]["subscription"] + TwiceGiven(r) >= Extra(r)
    /\ bg[r] \in {"token", "finished", "crashed"} =>
          ledger[r]["subscription"] + TwiceGiven(r) >= 0
Later == \A r \in Requests : LaterInv(r)

LEMMA TwiceType ==
    ASSUME TypeOK, SafeInv, NEW r \in Requests
    PROVE  TwiceGiven(r) \in Int /\ TwiceGiven(r) >= 0
<1>1. held[r]["fundConsumed"] \in Nat
  BY EntryTypes DEF SafeInv, RequestInv, NoteInv
<1>2. faults[r] \in Nat
  BY BoundsAssumption DEF TypeOK, RowType
<1> QED
  BY <1>1, <1>2 DEF TwiceGiven

LEMMA TwiceFault ==
    ASSUME TypeOK, NEW r \in Requests, UNCHANGED held,
           faults' = [faults EXCEPT ![r] = @ + 1]
    PROVE  TwiceGiven(r)' = TwiceGiven(r) + held[r]["fundConsumed"]
<1>1. held[r]["fundConsumed"] \in Int /\ faults[r] \in Int
  BY BoundsAssumption, EntryTypes DEF TypeOK, RowType
<1>2. faults'[r] = faults[r] + 1 /\ held'[r] = held[r]
  BY DEF TypeOK, RowType
<1> QED
  BY <1>1, <1>2 DEF TwiceGiven

(* ... which no step makes less than what may still be given back.          *)
LEMMA LaterGoroutine ==
    ASSUME TypeOK, SafeInv, Later, NEW r \in Requests, Goroutine(r)
    PROVE  LaterInv(r)'
<1> DEFINE n == held[r]["fundConsumed"]
<1>1. LaterInv(r) /\ RequestInv(r)
  BY DEF Later, SafeInv
<1>2. UNCHANGED <<req, pc, funding, flags, held, reserving>>
  BY DEF Goroutine, RefundFunding, RefundWallet, RefundSubscription,
     RefundExtra, RefundToken, GiveBack, requestVars, sessionVars
<1>3. /\ n \in Int /\ n >= 0 /\ Extra(r) \in Int /\ Extra(r) >= 0
      /\ ledger[r]["subscription"] \in Int
      /\ TwiceGiven(r) \in Int /\ TwiceGiven(r) >= 0
  BY <1>1, EntryTypes, TwiceType DEF RequestInv, NoteInv
<1>4. \/ UNCHANGED faults /\ TwiceGiven(r)' = TwiceGiven(r)
      \/ /\ faults' = [faults EXCEPT ![r] = @ + 1]
         /\ TwiceGiven(r)' = TwiceGiven(r) + n
  <2>1. UNCHANGED faults \/ faults' = [faults EXCEPT ![r] = @ + 1]
    BY DEF Goroutine, RefundFunding, RefundWallet, RefundSubscription,
       RefundExtra, RefundToken, GiveBack, Fault, LateFault
  <2> QED
    BY <1>2, <2>1, TwiceFault DEF TwiceGiven
<1>5. bg[r] \in BG /\ bg \in [Requests -> BG] /\ funding[r] \in Source
  BY <1>1, EntryTypes
  DEF TypeOK, ControlType, RequestInv, StageInv, Goroutine, RefundFunding,
      RefundWallet, RefundSubscription, RefundExtra, RefundToken, GiveBack,
      Source, Attempts
<1>6. Extra(r)' = Extra(r) /\ n' = n
  BY <1>2
<1>7. ASSUME NEW m \in Int, NEW a \in Account, Take(r, a, -m)
      PROVE  ledger'[r]["subscription"] =
                ledger[r]["subscription"] - IF a = "subscription" THEN m ELSE 0
  BY <1>3, <1>7, TakeEffect
<1>8. CASE RefundWallet(r)
  <2>1. /\ bg[r] = "funding" /\ bg'[r] = "extra"
        /\ Take(r, "wallet", -n) \/ UNCHANGED ledger
    BY <1>5, <1>8 DEF RefundWallet, GiveBack, RefundAmount, Fault
  <2>2. ledger'[r]["subscription"] = ledger[r]["subscription"]
    BY <1>3, <1>7, <2>1 DEF Account, Source
  <2>3. funding[r] = "wallet" /\ Extra(r) = 0 /\ ledger[r]["subscription"] >= 0
    BY <1>1, <1>8, <2>1 DEF RefundWallet, RequestInv, CoverInv
  <2> QED
    BY <1>3, <1>4, <1>6, <2>1, <2>2, <2>3 DEF LaterInv
<1>9. CASE RefundSubscription(r)
  <2>1. /\ bg[r] \in {"funding", "again", "last"} /\ funding[r] = "subscription"
        /\ bg[r] \in {"funding", "again", "last"} =>
              ledger[r]["subscription"] + TwiceGiven(r) >= n + Extra(r)
    <3>1. bg[r] \in {"funding", "again", "last"} /\ funding[r] = "subscription"
      BY <1>9 DEF RefundSubscription, Attempts
    <3>2. CASE bg[r] = "funding"
      BY <1>1, <1>3, <3>1, <3>2, EntryTypes
      DEF RequestInv, CoverInv, StageInv
    <3>3. CASE bg[r] \in {"again", "last"}
      BY <1>1, <3>1, <3>3 DEF LaterInv
    <3> QED
      BY <3>1, <3>2, <3>3
  <2>2. CASE Take(r, "subscription", -n) /\ bg'[r] = "extra" /\ UNCHANGED faults
    <3>1. ledger'[r]["subscription"] = ledger[r]["subscription"] - n
      BY <1>3, <1>7, <2>2 DEF Account, Source
    <3>2. TwiceGiven(r)' = TwiceGiven(r)
      BY <1>2, <2>2 DEF TwiceGiven
    <3> QED
      BY <1>3, <1>6, <2>1, <2>2, <3>1, <3>2 DEF LaterInv
  <2>3. CASE /\ Take(r, "subscription", -n) \/ UNCHANGED ledger
             /\ bg'[r] \in {"again", "last", "extra"}
             /\ faults' = [faults EXCEPT ![r] = @ + 1]
    <3>1. ledger'[r]["subscription"] >= ledger[r]["subscription"] - n
          /\ ledger'[r]["subscription"] \in Int
      BY <1>3, <1>7, <2>3 DEF Account, Source
    <3>2. TwiceGiven(r)' = TwiceGiven(r) + n
      BY <1>2, <2>3, TwiceFault
    <3> QED
      BY <1>3, <1>6, <2>1, <2>3, <3>1, <3>2 DEF LaterInv
  <2> QED
    BY <1>5, <1>9, <2>2, <2>3
    DEF RefundSubscription, RefundAmount, Fault, LateFault, AfterFailed
<1>10. CASE RefundExtra(r)
  <2>1. /\ bg[r] = "extra" /\ bg'[r] = "token"
        /\ Take(r, funding[r], -Extra(r)) \/ UNCHANGED ledger
    BY <1>5, <1>10 DEF RefundExtra, GiveBack, Fault
  <2>2. ledger'[r]["subscription"] >= ledger[r]["subscription"] - Extra(r)
        /\ ledger'[r]["subscription"] \in Int
    <3> HIDE DEF Extra
    <3> QED
      BY <1>3, <1>5, <1>7, <2>1 DEF Account
  <2>3. ledger[r]["subscription"] + TwiceGiven(r) >= Extra(r)
    BY <1>1, <2>1 DEF LaterInv
  <2> HIDE DEF Extra
  <2> QED
    BY <1>3, <1>4, <1>6, <2>1, <2>2, <2>3 DEF LaterInv
<1>11. CASE RefundToken(r)
  <2> DEFINE m == TokenPart(r, held[r]["tokenConsumed"])
  <2>1. /\ bg[r] = "token" /\ bg'[r] = "finished"
        /\ Take(r, "token", -m) \/ UNCHANGED ledger
    BY <1>5, <1>11 DEF RefundToken, GiveBack, Fault
  <2>2. m \in Int
    BY EntryTypes DEF TokenPart
  <2> HIDE DEF m
  <2>3. ledger'[r]["subscription"] = ledger[r]["subscription"]
    BY <1>3, <1>7, <2>1, <2>2 DEF Account, Source
  <2>4. ledger[r]["subscription"] + TwiceGiven(r) >= 0
    BY <1>1, <2>1 DEF LaterInv
  <2> QED
    BY <1>3, <1>4, <1>6, <2>1, <2>3, <2>4 DEF LaterInv
<1> QED
  BY <1>8, <1>9, <1>10, <1>11 DEF Goroutine, RefundFunding

(* The fee is charged while the goroutine may be anywhere.                  *)
LEMMA LaterFee ==
    ASSUME TypeOK, SafeInv, Later, NEW r \in Requests,
           ChargeFee(r) \/ ChargeFeeToken(r)
    PROVE  LaterInv(r)'
<1>1. LaterInv(r) /\ RequestInv(r)
  BY DEF Later, SafeInv
<1>2. UNCHANGED <<req, bg, funding, held>>
  BY DEF ChargeFee, ChargeFeeToken, requestVars, sessionVars
<1>3. /\ TwiceGiven(r) \in Int /\ ledger[r]["subscription"] \in Int
      /\ held[r]["fundConsumed"] \in Int /\ held[r]["fundConsumed"] >= 0
      /\ Extra(r) \in Int /\ Extra(r)' = Extra(r)
  BY <1>1, <1>2, EntryTypes, TwiceType DEF RequestInv, NoteInv
<1>4. TwiceGiven(r)' \in Int /\ TwiceGiven(r)' >= TwiceGiven(r)
  <2>1. UNCHANGED faults \/ faults' = [faults EXCEPT ![r] = @ + 1]
    BY DEF ChargeFee, ChargeFeeToken, Fault
  <2>2. CASE UNCHANGED faults
    <3>1. TwiceGiven(r)' = TwiceGiven(r)
      BY <1>2, <2>2 DEF TwiceGiven
    <3> QED
      BY <1>3, <3>1
  <2>3. CASE faults' = [faults EXCEPT ![r] = @ + 1]
    <3>1. TwiceGiven(r)' = TwiceGiven(r) + held[r]["fundConsumed"]
      BY <1>2, <2>3, TwiceFault
    <3> QED
      BY <1>3, <3>1
  <2> QED
    BY <2>1, <2>2, <2>3
<1>5. /\ ledger'[r]["subscription"] \in Int
      /\ ledger'[r]["subscription"] >= ledger[r]["subscription"]
  <2>1. Payer(r) \in Account /\ Fee \in Int /\ Fee >= 0 /\ TokenPart(r, Fee) \in Int
    BY AmountsAssumption, EntryTypes DEF Payer, Direct, Account, Source, TokenPart
  <2>2. CASE Take(r, Payer(r), Fee)
    BY <1>3, <2>1, <2>2, TakeEffect
  <2>3. CASE UNCHANGED ledger
    BY <1>3, <2>3
  <2>4. CASE ledger' = [ledger EXCEPT ![r]["token"] = @ + TokenPart(r, Fee),
                                      ![r]["limit"] = @ + Fee]
    <3> DEFINE m == TokenPart(r, Fee)
    <3>1. /\ RowType /\ m \in Int /\ Fee \in Int
          /\ ledger' = [ledger EXCEPT ![r]["token"] = @ + m,
                                      ![r]["limit"] = @ + Fee]
      BY <2>1, <2>4 DEF TypeOK
    <3> HIDE DEF m
    <3>2. ledger'[r]["subscription"] = ledger[r]["subscription"]
      BY <3>1, ChargeEffect
    <3> QED
      BY <1>3, <3>2
  <2> QED
    BY <2>2, <2>3, <2>4 DEF ChargeFee, ChargeFeeToken, Fault
<1> HIDE DEF Extra
<1> QED
  BY <1>1, <1>2, <1>3, <1>4, <1>5 DEF LaterInv

LEMMA LaterCrash ==
    ASSUME TypeOK, SafeInv, Later, Crash
    PROVE  Later'
<1> SUFFICES ASSUME NEW r \in Requests
             PROVE  LaterInv(r)'
  BY DEF Later
<1>1. LaterInv(r) /\ RequestInv(r)
  BY DEF Later, SafeInv
<1>2. /\ UNCHANGED <<held, funding, ledger, faults>>
      /\ bg'[r] = IF Refunding(r) THEN "crashed" ELSE bg[r]
  BY DEF Crash, sessionVars, rowVars
<1>3. TwiceGiven(r)' = TwiceGiven(r) /\ Extra(r)' = Extra(r)
  BY <1>2 DEF TwiceGiven
<1>4. /\ TwiceGiven(r) \in Int /\ TwiceGiven(r) >= 0
      /\ ledger[r]["subscription"] \in Int
      /\ held[r]["fundConsumed"] \in Int /\ held[r]["fundConsumed"] >= 0
      /\ Extra(r) \in Int /\ Extra(r) >= 0
  BY <1>1, EntryTypes, TwiceType DEF RequestInv, NoteInv
<1> HIDE DEF Extra
<1> QED
  BY <1>1, <1>2, <1>3, <1>4 DEF LaterInv, RequestInv, CoverInv, Refunding

(* Until the deferred refund has run there is nothing to say.               *)
LEMMA LaterIdle ==
    ASSUME TypeOK, SafeInv, NEW r \in Requests,
           Arrive(r) \/ Handler(r) \/ Panic(r), ~ChargeFee(r), ~ChargeFeeToken(r)
    PROVE  LaterInv(r)'
<1>1. pc[r] \notin Over
  BY DEF Arrive, Panic, Handler, ChooseFunding, TryWallet, TrySubscription,
     ReadToken, DebitToken, PreConsumeFunding, RollbackToken, Rejected,
     AttemptFails, AttemptSucceeds, Reserve, RollbackReserve, SettleFunding,
     SettleToken, Log, Refund
<1>2. bg[r] = "idle"
  BY <1>1 DEF SafeInv, RequestInv, StageInv
<1>3. bg'[r] \in {"idle", "funding"}
  <2>1. UNCHANGED bg \/ Refund(r)
    BY DEF Arrive, Panic, Handler, ChooseFunding, TryWallet, TrySubscription,
       ReadToken, DebitToken, PreConsumeFunding, RollbackToken, Rejected,
       AttemptFails, AttemptSucceeds, Reserve, RollbackReserve, SettleFunding,
       SettleToken, Log
  <2> QED
    BY <1>2, <2>1 DEF Refund, TypeOK, ControlType
<1> QED
  BY <1>3 DEF LaterInv

LEMMA LaterStep ==
    ASSUME TypeOK, SafeInv, Later, [Next]_vars
    PROVE  Later'
<1>1. ASSUME NEW r \in Requests, NEW q \in Requests,
             State(q)' = State(q), Tally(q)' = Tally(q)
      PROVE  LaterInv(q)'
  <2>1. LaterInv(q) /\ UNCHANGED <<bg[q], funding[q], held[q], ledger[q], faults[q]>>
    BY <1>1 DEF Later, State, Tally
  <2> QED
    BY <2>1 DEF LaterInv, TwiceGiven
<1>2. ASSUME NEW r \in Requests,
             Arrive(r) \/ Handler(r) \/ Panic(r) \/ Goroutine(r)
      PROVE  Later'
  <2>1. LaterInv(r)'
    BY <1>2, LaterIdle, LaterFee, LaterGoroutine
  <2> SUFFICES ASSUME NEW q \in Requests \ {r}
               PROVE  LaterInv(q)'
    BY <2>1 DEF Later
  <2> QED
    BY <1>1, <1>2, OneRequest
<1>3. CASE UNCHANGED vars
  BY <1>3
  DEF vars, Later, LaterInv, TwiceGiven, sessionVars, rowVars
<1> QED
  BY <1>2, <1>3, LaterCrash DEF Next

LEMMA LaterInit ==
    ASSUME Init
    PROVE  Later
BY DEF Init, Later, LaterInv

(* Wallet, token and limit are never given back more than a request took,   *)
(* a subscription at most its hold once too often for each error.           *)
THEOREM NothingOverRefunded == Spec => []NeverOverRefunded
<1>1. TypeOK /\ SafeInv /\ Later => NeverOverRefunded
  <2> SUFFICES ASSUME TypeOK, SafeInv, Later, NEW r \in Requests
               PROVE  /\ \A a \in Account \ {"subscription"} : ledger[r][a] >= 0
                      /\ ledger[r]["subscription"] + faults[r] * RefundAmount(r) >= 0
    BY DEF NeverOverRefunded
  <2>1. RequestInv(r) /\ LaterInv(r)
    BY DEF SafeInv, Later
  <2>2. \A a \in Account \ {"subscription"} : ledger[r][a] >= 0
    BY <2>1 DEF RequestInv, CoverInv, Account, Source
  <2>3. ledger[r]["subscription"] + TwiceGiven(r) >= 0
    <3>1. /\ TwiceGiven(r) \in Int /\ TwiceGiven(r) >= 0 /\ bg[r] \in BG
          /\ ledger[r]["subscription"] \in Int
          /\ held[r]["fundConsumed"] \in Int /\ held[r]["fundConsumed"] >= 0
          /\ Extra(r) \in Int /\ Extra(r) >= 0
      BY <2>1, EntryTypes, TwiceType
      DEF RequestInv, NoteInv, TypeOK, ControlType
    <3> HIDE DEF Extra
    <3> QED
      BY <2>1, <3>1 DEF LaterInv, RequestInv, CoverInv, BG
  <2> QED
    BY <2>2, <2>3 DEF TwiceGiven, RefundAmount
<1>2. Spec => [](TypeOK /\ SafeInv /\ Later)
  BY TypeInit, TypeStep, SafeInit, SafeStep, LaterInit, LaterStep, PTL DEF Spec
<1> QED
  BY <1>1, <1>2, PTL

(* No session is both settled and refunded.                                 *)
THEOREM NothingSettledAndRefunded == Spec => []SettledXorRefunded
<1>1. SafeInv => SettledXorRefunded
  BY DEF SafeInv, RequestInv, StageInv, SettledXorRefunded
<1> QED
  BY <1>1, Safety, PTL
=============================================================================
